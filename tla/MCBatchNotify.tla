---------------------------- MODULE MCBatchNotify ----------------------------
(***************************************************************************)
(* Instances of BatchNotify for TLC.                                       *)
(***************************************************************************)
EXTENDS BatchNotify, TLC

CONSTANTS p1, p2, r1, r2, n1, n2

\* Two processes with one request and one resender at a time each.
TwoHosts == (r1 :> p1) @@ (r2 :> p2) @@ (n1 :> p1) @@ (n2 :> p2)

\* Two processes with one request at a time each, of which one resends.
OneResends == (r1 :> p1) @@ (r2 :> p2) @@ (n1 :> p1)

=============================================================================
