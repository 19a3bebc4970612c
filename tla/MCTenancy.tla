------------------------------ MODULE MCTenancy ------------------------------
(***************************************************************************)
(* Instances of Tenancy for TLC.                                           *)
(***************************************************************************)
EXTENDS Tenancy, TLC

CONSTANTS p1, p2, r1, r2

\* Two processes with one request at a time each.
TwoHosts == (r1 :> p1) @@ (r2 :> p2)

\* Processes are interchangeable together with their requests, keys by themselves.
HostSymmetry ==
  {f \in Permutations(Procs \cup Requests \cup Keys) :
     /\ \A p \in Procs : f[p] \in Procs
     /\ \A r \in Requests : f[r] \in Requests /\ HostOf[f[r]] = f[HostOf[r]]
     /\ \A k \in Keys : f[k] \in Keys}

=============================================================================
