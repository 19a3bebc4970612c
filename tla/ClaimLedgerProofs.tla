-------------------------- MODULE ClaimLedgerProofs --------------------------
(***************************************************************************)
(* The ledger of claims is balanced, for every set of items: no claim is   *)
(* duplicated and none disappears.  The detailed specifications implement  *)
(* the ledger, so what is proved here holds of each of them.               *)
(***************************************************************************)
EXTENDS ClaimLedger, TLAPS

\* Both initial values of an item agree with the balance.
LEMMA LedgerStarts == LedgerInit => LedgerTypeOK /\ Conserved
BY DEF LedgerInit, LedgerTypeOK, Conserved

\* One account with a claim more.
LEMMA OneMore ==
  ASSUME NEW f \in [Items -> Nat], NEW i \in Items
  PROVE /\ [f EXCEPT ![i] = @ + 1] \in [Items -> Nat]
        /\ \A j \in Items : [f EXCEPT ![i] = @ + 1][j] = IF j = i THEN f[j] + 1 ELSE f[j]
OBVIOUS

\* One account with a claim less.
LEMMA OneLess ==
  ASSUME NEW f \in [Items -> Nat], NEW i \in Items, f[i] > 0
  PROVE /\ [f EXCEPT ![i] = @ - 1] \in [Items -> Nat]
        /\ \A j \in Items : [f EXCEPT ![i] = @ - 1][j] = IF j = i THEN f[j] - 1 ELSE f[j]
OBVIOUS

\* Every step of the ledger keeps it well typed and balanced.
LEMMA LedgerSteps == LedgerTypeOK /\ Conserved /\ [LedgerNext]_ledger
                       => LedgerTypeOK' /\ Conserved'
<1> SUFFICES ASSUME LedgerTypeOK, Conserved, [LedgerNext]_ledger
             PROVE LedgerTypeOK' /\ Conserved'
  OBVIOUS
<1>0. /\ free \in [Items -> Nat] /\ held \in [Items -> Nat] /\ settled \in [Items -> Nat]
      /\ lost \in [Items -> Nat] /\ wasted \in [Items -> Nat] /\ openings \in [Items -> Nat]
      /\ \A i \in Items : free[i] \in {0, 1}
  BY DEF LedgerTypeOK
<1>a. ASSUME NEW i \in Items, Subtract(free, i)
      PROVE /\ free' \in [Items -> {0, 1}]
            /\ \A j \in Items : free'[j] = IF j = i THEN free[j] - 1 ELSE free[j]
  BY <1>0, <1>a, OneLess DEF Subtract, LedgerTypeOK
<1>b. ASSUME NEW i \in Items, free[i] = 0, Add(free, i)
      PROVE /\ free' \in [Items -> {0, 1}]
            /\ \A j \in Items : free'[j] = IF j = i THEN free[j] + 1 ELSE free[j]
  BY <1>0, <1>b, OneMore DEF Add, LedgerTypeOK
<1>c. ASSUME NEW i \in Items, Subtract(held, i)
      PROVE /\ held' \in [Items -> Nat]
            /\ \A j \in Items : held'[j] = IF j = i THEN held[j] - 1 ELSE held[j]
  BY <1>0, <1>c, OneLess DEF Subtract
<1>d. ASSUME NEW i \in Items, Add(settled, i)
      PROVE /\ settled' \in [Items -> Nat]
            /\ \A j \in Items : settled'[j] = IF j = i THEN settled[j] + 1 ELSE settled[j]
  BY <1>0, <1>d, OneMore DEF Add
<1>1. ASSUME NEW i \in Items, Take(i)
      PROVE LedgerTypeOK' /\ Conserved'
  <2>1. /\ held' \in [Items -> Nat]
        /\ \A j \in Items : held'[j] = IF j = i THEN held[j] + 1 ELSE held[j]
    BY <1>0, <1>1, OneMore DEF Take, Add
  <2>2. Subtract(free, i) /\ UNCHANGED <<settled, lost, wasted, openings>>
    BY <1>1 DEF Take
  <2>3. /\ free' \in [Items -> {0, 1}]
        /\ \A j \in Items : free'[j] = IF j = i THEN free[j] - 1 ELSE free[j]
    BY <1>a, <2>2
  <2>4. LedgerTypeOK'
    BY <1>0, <2>1, <2>2, <2>3 DEF LedgerTypeOK
  <2>5. Conserved'
    BY <1>0, <2>1, <2>2, <2>3 DEF Conserved
  <2> QED
    BY <2>4, <2>5
<1>2. ASSUME NEW i \in Items, TakeAndSettle(i)
      PROVE LedgerTypeOK' /\ Conserved'
  <2>1. Subtract(free, i) /\ Add(settled, i) /\ UNCHANGED <<held, lost, wasted, openings>>
    BY <1>2 DEF TakeAndSettle
  <2> QED
    BY <1>0, <1>a, <1>d, <2>1 DEF LedgerTypeOK, Conserved
<1>3. ASSUME NEW i \in Items, Settle(i)
      PROVE LedgerTypeOK' /\ Conserved'
  <2>1. Subtract(held, i) /\ Add(settled, i) /\ UNCHANGED <<free, lost, wasted, openings>>
    BY <1>3 DEF Settle
  <2> QED
    BY <1>0, <1>c, <1>d, <2>1 DEF LedgerTypeOK, Conserved
<1>4. ASSUME NEW i \in Items, HandBack(i)
      PROVE LedgerTypeOK' /\ Conserved'
  <2>0. Subtract(held, i) /\ UNCHANGED <<settled, lost, openings>>
    BY <1>4 DEF HandBack
  <2>1. CASE free[i] = 0 /\ Add(free, i) /\ UNCHANGED wasted
    BY <1>0, <1>b, <1>c, <2>0, <2>1 DEF LedgerTypeOK, Conserved
  <2>2. CASE Add(wasted, i) /\ UNCHANGED free
    <3>1. /\ wasted' \in [Items -> Nat]
          /\ \A j \in Items : wasted'[j] = IF j = i THEN wasted[j] + 1 ELSE wasted[j]
      BY <1>0, <2>2, OneMore DEF Add
    <3>2. /\ held' \in [Items -> Nat]
          /\ \A j \in Items : held'[j] = IF j = i THEN held[j] - 1 ELSE held[j]
      BY <1>c, <2>0
    <3>3. LedgerTypeOK'
      BY <1>0, <2>0, <2>2, <3>1, <3>2 DEF LedgerTypeOK
    <3>4. Conserved'
      BY <1>0, <2>0, <2>2, <3>1, <3>2 DEF Conserved
    <3> QED
      BY <3>3, <3>4
  <2> QED
    BY <1>4, <2>1, <2>2 DEF HandBack
<1>5. ASSUME NEW i \in Items, Reopen(i)
      PROVE LedgerTypeOK' /\ Conserved'
  <2>1. /\ openings' \in [Items -> Nat]
        /\ \A j \in Items : openings'[j] = IF j = i THEN openings[j] + 1 ELSE openings[j]
    BY <1>0, <1>5, OneMore DEF Reopen, Add
  <2>2. free[i] = 0 /\ Add(free, i) /\ UNCHANGED <<held, settled, lost, wasted>>
    BY <1>5 DEF Reopen
  <2> QED
    BY <1>0, <1>b, <2>1, <2>2 DEF LedgerTypeOK, Conserved
<1>6. CASE Die
  <2>1. /\ held' \in [Items -> Nat]
        /\ \A i \in Items : /\ held'[i] <= held[i]
                            /\ lost'[i] = lost[i] + (held[i] - held'[i])
    BY <1>6 DEF Die, Fewer
  <2>2. lost' \in [Items -> Nat]
    BY <1>0, <1>6, <2>1 DEF Die
  <2> QED
    BY <1>0, <1>6, <2>1, <2>2 DEF Die, LedgerTypeOK, Conserved
<1>7. CASE UNCHANGED ledger
  BY <1>7 DEF ledger, LedgerTypeOK, Conserved
<1> QED
  BY <1>1, <1>2, <1>3, <1>4, <1>5, <1>6, <1>7 DEF LedgerNext

\* The ledger is always balanced: each opening of an item is unclaimed, held,
\* settled, lost with its holder or wasted, and in no second place.
THEOREM LedgerConserves == LedgerSpec => []Conserved
<1>1. LedgerSpec => [](LedgerTypeOK /\ Conserved)
  BY LedgerStarts, LedgerSteps, PTL DEF LedgerSpec
<1> QED
  BY <1>1, PTL

=============================================================================
