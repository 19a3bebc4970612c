----------------------------- MODULE ClaimLedger -----------------------------
(***************************************************************************)
(* What the device of notified_at promises, whatever it is used for: the   *)
(* right to tell a client about an item is a claim.  An item that is open  *)
(* has one claim to take; a claim that was taken is held until it is       *)
(* settled, handed back or lost with its holder; handed back to an item    *)
(* that has been opened again meanwhile, it is wasted.  Only an item with  *)
(* nothing to take is opened again.                                        *)
(***************************************************************************)
EXTENDS Naturals

CONSTANT Items

VARIABLES
  free,      \* claims to be taken: one or none
  held,      \* claims in the hands of deliveries
  settled,   \* claims acknowledged by the client, or with nothing to deliver
  lost,      \* claims whose holder died
  wasted,    \* claims handed back to an item that was open again
  openings   \* how often the item was opened

ledger == <<free, held, settled, lost, wasted, openings>>

LedgerTypeOK ==
  /\ free \in [Items -> {0, 1}]
  /\ held \in [Items -> Nat]
  /\ settled \in [Items -> Nat]
  /\ lost \in [Items -> Nat]
  /\ wasted \in [Items -> Nat]
  /\ openings \in [Items -> Nat]

LedgerInit ==
  /\ free \in [Items -> {0, 1}]
  /\ openings = free
  /\ held = [i \in Items |-> 0]
  /\ settled = [i \in Items |-> 0]
  /\ lost = [i \in Items |-> 0]
  /\ wasted = [i \in Items |-> 0]

Add(account, i) == account' = [account EXCEPT ![i] = @ + 1]
Subtract(account, i) == account[i] > 0 /\ account' = [account EXCEPT ![i] = @ - 1]

Take(i) == /\ Subtract(free, i) /\ Add(held, i)
           /\ UNCHANGED <<settled, lost, wasted, openings>>

\* Nobody is subscribed: the claim is taken and nothing is left to deliver.
TakeAndSettle(i) == /\ Subtract(free, i) /\ Add(settled, i)
                    /\ UNCHANGED <<held, lost, wasted, openings>>

Settle(i) == /\ Subtract(held, i) /\ Add(settled, i)
             /\ UNCHANGED <<free, lost, wasted, openings>>

HandBack(i) == /\ Subtract(held, i)
               /\ \/ free[i] = 0 /\ Add(free, i) /\ UNCHANGED wasted
                  \/ free[i] = 1 /\ Add(wasted, i) /\ UNCHANGED free
               /\ UNCHANGED <<settled, lost, openings>>

Reopen(i) == /\ free[i] = 0
             /\ Add(free, i) /\ Add(openings, i)
             /\ UNCHANGED <<held, settled, lost, wasted>>

\* Holders die, those of several items at once if they share a process.
Fewer == {h \in [Items -> Nat] : \A i \in Items : h[i] <= held[i]}
Die == /\ UNCHANGED <<free, settled, wasted, openings>>
       /\ held' \in Fewer
       /\ lost' = [i \in Items |-> lost[i] + (held[i] - held'[i])]

LedgerNext ==
  \/ Die
  \/ \E i \in Items : \/ Take(i)
                      \/ TakeAndSettle(i)
                      \/ Settle(i)
                      \/ HandBack(i)
                      \/ Reopen(i)

LedgerSpec == LedgerInit /\ [][LedgerNext]_ledger

\* Every opening of an item is in exactly one place.
Conserved ==
  \A i \in Items :
    free[i] + held[i] + settled[i] + lost[i] + wasted[i] = openings[i]

=============================================================================
