-------------------------- MODULE MCCallCompletion --------------------------
(***************************************************************************)
(* Instances of CallCompletion for TLC.                                    *)
(***************************************************************************)
EXTENDS CallCompletion, TLC

CONSTANTS p1, p2, r1, r2, w1, w2

\* Two processes with one permit and one request at a time each.
TwoHosts == (r1 :> p1) @@ (r2 :> p2) @@ (w1 :> p1) @@ (w2 :> p2)

\* Two processes with one permit each, of which one handles requests.
OneDoor == (r1 :> p1) @@ (w1 :> p1) @@ (w2 :> p2)

\* One process, one permit, one request.
Single == (r1 :> p1) @@ (w1 :> p1)

\* Hosts that look alike are interchangeable, together with what they host.
HostSymmetry ==
  {f \in Permutations(Procs \cup Requests \cup Workers) :
     /\ \A p \in Procs : f[p] \in Procs
     /\ \A r \in Requests : f[r] \in Requests
     /\ \A x \in Requests \cup Workers : HostOf[f[x]] = f[HostOf[x]]}

=============================================================================
