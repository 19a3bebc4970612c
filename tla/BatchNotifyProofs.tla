-------------------------- MODULE BatchNotifyProofs --------------------------
(***************************************************************************)
(* Proofs about BatchNotify for every set of batches, processes, requests  *)
(* and resenders and for every bound: the type invariant, that the claims  *)
(* of batches implement the ledger of claims, and that they are conserved. *)
(***************************************************************************)
EXTENDS BatchNotify, FiniteSetTheorems, TLAPS

-----------------------------------------------------------------------------
(* Shapes and types.                                                       *)

\* A request that is under way has the record of a busy one.
LEMMA JobShape ==
  ASSUME TypeOK, NEW r \in Requests, job[r].pc # "idle"
  PROVE /\ job[r] \in BusyJob
        /\ job[r].batch \in Batches /\ job[r].new \in Status /\ job[r].seen \in Row
        /\ job[r].seen.status \in Status /\ job[r].seen.notified \in BOOLEAN
<1>1. job[r] \in BusyJob
  BY DEF TypeOK, IdleJob
<1>2. job[r].batch \in Batches /\ job[r].new \in Status /\ job[r].seen \in Row
  BY <1>1 DEF BusyJob
<1> QED
  BY <1>1, <1>2 DEF Row

\* So has a notification.
LEMMA NotifierShape ==
  ASSUME TypeOK, NEW n \in Notifiers, notifier[n].pc # "idle"
  PROVE /\ notifier[n] \in BusyNotifier
        /\ notifier[n].batch \in Batches /\ notifier[n].event \in Status
BY DEF TypeOK, IdleNotifier, BusyNotifier

\* Changing one field of one row keeps the rows typed.
LEMMA NotifiedType ==
  ASSUME NEW f \in [Batches -> Row], NEW b \in Batches, NEW v \in BOOLEAN
  PROVE [f EXCEPT ![b].notified = v] \in [Batches -> Row]
<1>1. [f[b] EXCEPT !.notified = v] \in Row
  BY DEF Row
<1> QED
  BY <1>1

\* The row a request writes back.
Written(j) ==
  [status |-> IF j.new = j.seen.status THEN batch[j.batch].status ELSE j.new,
   notified |-> batch[j.batch].notified /\ ~(Announces(j) /\ j.seen.notified)]

\* Replacing one field of a row keeps the other.
LEMMA RowFields ==
  ASSUME NEW x \in Row
  PROVE /\ \A s \in Status : [x EXCEPT !.status = s] = [status |-> s, notified |-> x.notified]
        /\ \A v \in BOOLEAN : [x EXCEPT !.notified = v] = [status |-> x.status, notified |-> v]
BY DEF Row

\* Writing back changes the row of the request's batch and no other.
LEMMA WriteBackRow ==
  ASSUME TypeOK, NEW r \in Requests, job[r].pc # "idle", WriteBack(job[r])
  PROVE /\ Written(job[r]) \in Row
        /\ batch' = [batch EXCEPT ![job[r].batch] = Written(job[r])]
<1> DEFINE j == job[r]
<1>0. j.batch \in Batches /\ j.new \in Status
  BY JobShape
<1>1. batch[j.batch] \in Row /\ batch \in [Batches -> Row]
  BY <1>0 DEF TypeOK
<1>2. Written(j) \in Row
  BY <1>0, <1>1 DEF Written, Row
<1> DEFINE b == j.batch
           new == IF j.new = j.seen.status THEN batch[b].status ELSE j.new
           kept == ~(Announces(j) /\ j.seen.notified)
           moved == [batch EXCEPT ![b].status = new]
<1>3. batch' = [moved EXCEPT ![b].notified = moved[b].notified /\ kept]
  BY DEF WriteBack
<1>4. Written(j) = [status |-> new, notified |-> batch[b].notified /\ kept]
  BY DEF Written
<1>b. moved = [batch EXCEPT ![b].status = new]
  OBVIOUS
<1>c. b \in Batches /\ new \in Status /\ kept \in BOOLEAN
  BY <1>0, <1>1 DEF Row
<1> HIDE DEF b, j, new, kept, moved
<1>d. moved = [batch EXCEPT ![b] = [status |-> new, notified |-> batch[b].notified]]
  <2>1. [batch[b] EXCEPT !.status = new] = [status |-> new, notified |-> batch[b].notified]
    BY <1>1, <1>c, RowFields
  <2>2. moved = [batch EXCEPT ![b] = [batch[b] EXCEPT !.status = new]]
    BY <1>b
  <2> QED
    BY <2>1, <2>2
<1>e. /\ moved[b] \in Row /\ moved[b].status = new /\ moved[b].notified = batch[b].notified
      /\ moved \in [Batches -> Row]
  BY <1>1, <1>c, <1>d DEF Row
<1>5. batch' = [batch EXCEPT ![b] = [status |-> new, notified |-> batch[b].notified /\ kept]]
  <2>1. (batch[b].notified /\ kept) \in BOOLEAN
    OBVIOUS
  <2>2. [moved[b] EXCEPT !.notified = batch[b].notified /\ kept]
          = [status |-> new, notified |-> batch[b].notified /\ kept]
    BY <1>e, <2>1, RowFields
  <2>3. batch' = [moved EXCEPT ![b] = [moved[b] EXCEPT !.notified = batch[b].notified /\ kept]]
    BY <1>3, <1>e
  <2>4. batch' = [moved EXCEPT ![b] = [status |-> new, notified |-> batch[b].notified /\ kept]]
    BY <2>2, <2>3
  <2> QED
    BY <1>1, <1>d, <2>4
<1> QED
  BY <1>2, <1>4, <1>5 DEF j, b

\* What writing back leaves is typed.
LEMMA WriteBackType ==
  ASSUME TypeOK, NEW r \in Requests, job[r].pc # "idle", WriteBack(job[r])
  PROVE /\ batch' \in [Batches -> Row]
        /\ opened' \in [Batches -> Nat]
        /\ raced' \in [Batches -> BOOLEAN]
        /\ told' \in [Batches -> Status]
<1>0. job[r].batch \in Batches /\ job[r].new \in Status
  BY JobShape
<1>1. batch' \in [Batches -> Row]
  BY <1>0, WriteBackRow DEF TypeOK
<1>2. opened' \in [Batches -> Nat]
  BY <1>0 DEF WriteBack, TypeOK
<1>3. told' \in [Batches -> Status]
  BY <1>0 DEF WriteBack, TypeOK
<1>4. raced' \in [Batches -> BOOLEAN]
  BY <1>0 DEF WriteBack, TypeOK
<1> QED
  BY <1>1, <1>2, <1>3, <1>4

\* The initial state is well typed.
LEMMA InitType == Init => TypeOK
<1> SUFFICES ASSUME Init PROVE TypeOK
  OBVIOUS
<1>1. [status |-> "created", notified |-> TRUE] \in Row
  BY DEF Row, Status, EngineStatus
<1>2. "created" \in EngineStatus /\ "created" \in Status
  BY DEF Status, EngineStatus
<1> QED
  BY <1>1, <1>2 DEF Init, TypeOK

\* Requests that begin.
LEMMA ClientType ==
  ASSUME TypeOK, NEW r \in Requests, NEW b \in Batches,
         \/ ReceiveWebhook(r, b) \/ RefreshBatch(r, b) \/ ScheduleBatch(r, b)
         \/ StopBatch(r, b) \/ DeleteBatch(r, b)
  PROVE TypeOK'
<1> USE DEF ledgerVars
<1>3. ASSUME NEW kind \in Kind, NEW pc \in {"ask", "write"}, NEW new \in Status,
             StartRequest(r, b, kind, pc, new)
      PROVE TypeOK'
  <2>1. [pc |-> pc, batch |-> b, kind |-> kind, seen |-> batch[b], new |-> new] \in BusyJob
    BY DEF BusyJob, TypeOK
  <2> QED
    BY <1>3, <2>1 DEF StartRequest, TypeOK
<1>4. /\ EngineStatus \subseteq Status
      /\ "scheduled" \in Status /\ "stopped" \in Status /\ "deleted" \in Status
  BY DEF Status, EngineStatus
<1>5. CASE ReceiveWebhook(r, b)
  BY <1>3, <1>4, <1>5 DEF ReceiveWebhook, Kind, TypeOK
<1>6. CASE RefreshBatch(r, b)
  <2>1. batch[b].status \in Status
    BY DEF TypeOK, Row
  <2> QED
    BY <1>3, <1>6, <2>1 DEF RefreshBatch, Kind
<1>7. CASE ScheduleBatch(r, b) \/ StopBatch(r, b) \/ DeleteBatch(r, b)
  BY <1>3, <1>4, <1>7 DEF ScheduleBatch, StopBatch, DeleteBatch, Kind
<1> QED
  BY <1>5, <1>6, <1>7

\* The task a request or the pass starts.
LEMMA NotificationType ==
  ASSUME NEW b \in Batches, NEW e \in Status
  PROVE Notification(b, e) \in BusyNotifier
BY DEF Notification, BusyNotifier

\* The steps of a request.
LEMMA RequestType ==
  ASSUME TypeOK, NEW r \in Requests, RequestStep(r)
  PROVE TypeOK'
<1> USE DEF ledgerVars
<1>0. job[r].pc # "idle" /\ r \in Notifiers
  BY DEF RequestStep, EngineAnswers, RequestFails, CommitAndAnnounce, AnnounceFirst,
     CommitOnly, Notifiers
<1>a. /\ job[r] \in BusyJob /\ job[r].batch \in Batches /\ job[r].new \in Status
      /\ job[r].seen.status \in Status
  BY <1>0, JobShape
<1>b. EngineStatus \subseteq Status
  BY DEF Status
<1>1. CASE EngineAnswers(r)
  <2>1. ASSUME NEW e \in Status, Answered(r, e)
        PROVE job' \in [Requests -> {IdleJob} \cup BusyJob]
    <3>1. [job[r] EXCEPT !.pc = "write", !.new = e] \in BusyJob
      BY <1>a DEF BusyJob
    <3>2. job' = [job EXCEPT ![r] = [job[r] EXCEPT !.pc = "write", !.new = e]]
      BY <1>a, <2>1 DEF Answered, TypeOK
    <3> QED
      BY <3>1, <3>2 DEF TypeOK
  <2>2. engine[job[r].batch] \in Status
    BY <1>a, <1>b DEF TypeOK
  <2>3. job' \in [Requests -> {IdleJob} \cup BusyJob]
    BY <1>1, <2>1, <2>2 DEF EngineAnswers, Status, EngineStatus
  <2>4. engine' \in [Batches -> EngineStatus] /\ reported' \in [Batches -> SUBSET EngineStatus]
    BY <1>1, <1>a DEF EngineAnswers, EngineMoves, EngineStatus, TypeOK
  <2> QED
    BY <1>1, <2>3, <2>4 DEF EngineAnswers, TypeOK
<1>2. CASE RequestFails(r)
  <2>1. told' \in [Batches -> Status] /\ raced' \in [Batches -> BOOLEAN]
    BY <1>2, <1>a DEF RequestFails, TypeOK
  <2> QED
    BY <1>2, <2>1 DEF RequestFails, Fault, TypeOK
<1>3. CASE CommitAndAnnounce(r)
  <2>1. notifier' \in [Notifiers -> {IdleNotifier} \cup BusyNotifier]
    BY <1>0, <1>3, <1>a, NotificationType DEF CommitAndAnnounce, Goto, TypeOK
  <2>2. /\ batch' \in [Batches -> Row] /\ opened' \in [Batches -> Nat]
        /\ raced' \in [Batches -> BOOLEAN] /\ told' \in [Batches -> Status]
    BY <1>0, <1>3, WriteBackType DEF CommitAndAnnounce
  <2> QED
    BY <1>3, <2>1, <2>2 DEF CommitAndAnnounce, TypeOK
<1>4. CASE AnnounceFirst(r)
  <2>1. notifier' \in [Notifiers -> {IdleNotifier} \cup BusyNotifier]
    BY <1>0, <1>4, <1>a, NotificationType DEF AnnounceFirst, Goto, TypeOK
  <2>2. [job[r] EXCEPT !.pc = "commit"] \in BusyJob
    BY <1>a DEF BusyJob
  <2>3. job' \in [Requests -> {IdleJob} \cup BusyJob]
    BY <1>4, <2>2 DEF AnnounceFirst, TypeOK
  <2> QED
    BY <1>4, <2>1, <2>3 DEF AnnounceFirst, TypeOK
<1>5. CASE CommitOnly(r)
  <2>1. /\ batch' \in [Batches -> Row] /\ opened' \in [Batches -> Nat]
        /\ raced' \in [Batches -> BOOLEAN] /\ told' \in [Batches -> Status]
    BY <1>0, <1>5, WriteBackType DEF CommitOnly
  <2> QED
    BY <1>5, <2>1 DEF CommitOnly, TypeOK
<1> QED
  BY <1>1, <1>2, <1>3, <1>4, <1>5 DEF RequestStep

\* The steps of a notification.
LEMMA NotifierType ==
  ASSUME TypeOK, NEW n \in Notifiers, NotifierStep(n)
  PROVE TypeOK'
<1> USE DEF ledgerVars
<1> DEFINE b == notifier[n].batch
<1>0. /\ notifier[n].pc # "idle" /\ notifier[n] \in BusyNotifier
      /\ b \in Batches /\ notifier[n].event \in Status
  <2>1. notifier[n].pc # "idle"
    BY DEF NotifierStep, Claim, ClaimRefused, Deliver, DeliveryFails, Release,
       NotificationRaises
  <2> QED
    BY <2>1, NotifierShape
<1>a. /\ [notifier[n] EXCEPT !.pc = "send"] \in BusyNotifier
      /\ [notifier[n] EXCEPT !.pc = "release"] \in BusyNotifier
  BY <1>0 DEF BusyNotifier
<1>b. ASSUME NEW s \in {IdleNotifier} \cup BusyNotifier, Goto(n, s)
      PROVE notifier' \in [Notifiers -> {IdleNotifier} \cup BusyNotifier]
  BY <1>b DEF Goto, TypeOK
<1>c. ASSUME Tell(n)
      PROVE told' \in [Batches -> Status] /\ raced' \in [Batches -> BOOLEAN]
  BY <1>0, <1>c DEF Tell, TypeOK
<1>d. ASSUME NEW v \in BOOLEAN, batch' = [batch EXCEPT ![b].notified = v]
      PROVE batch' \in [Batches -> Row]
  <2> HIDE DEF b
  <2> QED
    BY <1>0, <1>d, NotifiedType DEF TypeOK
<1>1. CASE Claim(n)
  <2>1. notifier' \in [Notifiers -> {IdleNotifier} \cup BusyNotifier]
    BY <1>1, <1>a, <1>b DEF Claim
  <2>2. batch' \in [Batches -> Row]
    BY <1>1, <1>d DEF Claim
  <2>3. settled' \in [Batches -> Nat] /\ raced' \in [Batches -> BOOLEAN]
    BY <1>0, <1>1 DEF Claim, TypeOK
  <2> QED
    BY <1>1, <2>1, <2>2, <2>3 DEF Claim, TypeOK
<1>2. CASE ClaimRefused(n)
  BY <1>2, <1>b DEF ClaimRefused, TypeOK
<1>3. CASE Deliver(n)
  <2>1. settled' \in [Batches -> Nat]
    BY <1>0, <1>3 DEF Deliver, TypeOK
  <2> QED
    BY <1>3, <1>b, <1>c, <2>1 DEF Deliver, TypeOK
<1>4. CASE DeliveryFails(n)
  <2>1. told' \in [Batches -> Status] /\ raced' \in [Batches -> BOOLEAN]
    BY <1>4, <1>c DEF DeliveryFails, TypeOK
  <2>2. notifier' \in [Notifiers -> {IdleNotifier} \cup BusyNotifier]
    BY <1>4, <1>a, <1>b DEF DeliveryFails
  <2> QED
    BY <1>4, <2>1, <2>2 DEF DeliveryFails, Fault, TypeOK
<1>5. CASE Release(n)
  <2>1. batch' \in [Batches -> Row]
    BY <1>5, <1>d DEF Release
  <2>2. wasted' \in [Batches -> Nat]
    BY <1>0, <1>5 DEF Release, TypeOK
  <2> QED
    BY <1>5, <1>b, <2>1, <2>2 DEF Release, TypeOK
<1>6. CASE NotificationRaises(n)
  <2>1. lost' \in [Batches -> Nat]
    BY <1>0, <1>6 DEF NotificationRaises, TypeOK
  <2> QED
    BY <1>6, <1>b, <2>1 DEF NotificationRaises, Fault, TypeOK
<1> QED
  BY <1>1, <1>2, <1>3, <1>4, <1>5, <1>6 DEF NotifierStep

\* The holders of a claim can be counted, before and after every step.
LEMMA HoldersFinite ==
  \A b \in Batches : /\ IsFiniteSet(Holders(b)) /\ Cardinality(Holders(b)) \in Nat
                     /\ IsFiniteSet(Holders(b))' /\ Cardinality(Holders(b))' \in Nat
BY HostAssumption, FS_Subset, FS_CardinalityType DEF Holders, Notifiers

\* The steps of the recovery pass, and a crash.
LEMMA LoopType ==
  ASSUME TypeOK, NEW p \in Procs, LoopStep(p) \/ Crash(p)
  PROVE TypeOK'
<1> USE DEF ledgerVars
<1>1. CASE SelectUnnotified(p)
  BY <1>1 DEF SelectUnnotified, Oldest, Unnotified, TypeOK
<1>2. ASSUME NEW n \in Resenders, ResendBatch(p, n)
      PROVE TypeOK'
  <2>1. PICK b \in loop[p] : /\ Goto(n, Notification(b, batch[b].status))
                             /\ loop' = [loop EXCEPT ![p] = @ \ {b}]
    BY <1>2 DEF ResendBatch
  <2>2. b \in Batches /\ batch[b].status \in Status
    BY DEF TypeOK, Row
  <2>3. notifier' \in [Notifiers -> {IdleNotifier} \cup BusyNotifier]
    BY <2>1, <2>2, NotificationType DEF Goto, TypeOK, Notifiers
  <2>4. loop' \in [Procs -> SUBSET Batches]
    BY <2>1 DEF TypeOK
  <2> QED
    BY <1>2, <2>3, <2>4 DEF ResendBatch, TypeOK
<1>3. CASE Crash(p)
  <2>1. lost' \in [Batches -> Nat]
    <3>1. \A b \in Batches : Cardinality({n \in Holders(b) : HostOf[n] = p}) \in Nat
      BY HoldersFinite, FS_Subset, FS_CardinalityType
    <3> QED
      BY <1>3, <3>1 DEF Crash, TypeOK
  <2>2. /\ job' \in [Requests -> {IdleJob} \cup BusyJob]
        /\ notifier' \in [Notifiers -> {IdleNotifier} \cup BusyNotifier]
        /\ loop' \in [Procs -> SUBSET Batches]
    BY <1>3 DEF Crash, TypeOK
  <2>3. spent' \in [requests : Nat, faults : Nat, crashes : Nat]
    BY <1>3 DEF Crash, TypeOK
  <2> QED
    BY <1>3, <2>1, <2>2, <2>3 DEF Crash, TypeOK
<1> QED
  BY <1>1, <1>2, <1>3 DEF LoopStep

\* Every step keeps the state well typed.
LEMMA NextType == TypeOK /\ [Next]_vars => TypeOK'
<1> SUFFICES ASSUME TypeOK, [Next]_vars PROVE TypeOK'
  OBVIOUS
<1>1. ASSUME NEW b \in Batches, EngineRuns(b) \/ EngineCompletes(b)
      PROVE TypeOK'
  <2>1. ASSUME NEW e \in EngineStatus, EngineMoves(b, e)
        PROVE engine' \in [Batches -> EngineStatus] /\ reported' \in [Batches -> SUBSET EngineStatus]
    BY <2>1 DEF EngineMoves, TypeOK
  <2> QED
    BY <1>1, <2>1 DEF EngineRuns, EngineCompletes, EngineStatus, TypeOK, ledgerVars
<1>2. ASSUME NEW r \in Requests, ClientStep(r) \/ RequestStep(r)
      PROVE TypeOK'
  BY <1>2, ClientType, RequestType DEF ClientStep
<1>3. ASSUME NEW n \in Notifiers, NotifierStep(n)
      PROVE TypeOK'
  BY <1>3, NotifierType
<1>4. ASSUME NEW p \in Procs, LoopStep(p) \/ Crash(p)
      PROVE TypeOK'
  BY <1>4, LoopType
<1>5. CASE UNCHANGED vars
  BY <1>5 DEF vars, ledgerVars, TypeOK
<1> QED
  BY <1>1, <1>2, <1>3, <1>4, <1>5 DEF Next

\* Batches, requests and notifications always have the types the code gives them.
THEOREM TypeCorrect == Spec => []TypeOK
BY InitType, NextType, PTL DEF Spec

-----------------------------------------------------------------------------
(* A request that has not committed yet has not started its task, so the   *)
(* slot it will announce in holds no claim that could be overwritten.      *)

Alone == \A r \in Requests : job[r].pc \in {"ask", "write"} => notifier[r] = IdleNotifier

\* No step of a request or of a notification breaks this.
LEMMA StaysAlone == TypeOK /\ Alone /\ [Next]_vars => Alone'
<1> SUFFICES ASSUME TypeOK, Alone, [Next]_vars, NEW r \in Requests,
                    job'[r].pc \in {"ask", "write"}
             PROVE notifier'[r] = IdleNotifier
  BY DEF Alone
<1>0. r \in Notifiers /\ r \notin Resenders /\ TypeOK'
  BY HostAssumption, NextType DEF Notifiers
<1>1. ASSUME NEW b \in Batches, EngineRuns(b) \/ EngineCompletes(b)
      PROVE notifier'[r] = IdleNotifier
  BY <1>1 DEF EngineRuns, EngineCompletes, Alone
<1>2. ASSUME NEW q \in Requests, ClientStep(q)
      PROVE notifier'[r] = IdleNotifier
  <2>1. PICK b, kind, pc, new : StartRequest(q, b, kind, pc, new)
    BY <1>2 DEF ClientStep, ReceiveWebhook, RefreshBatch, ScheduleBatch, StopBatch, DeleteBatch
  <2>2. notifier' = notifier /\ notifier[q] = IdleNotifier /\ (q # r => job'[r] = job[r])
    BY <2>1 DEF StartRequest, TypeOK
  <2> QED
    BY <2>2 DEF Alone
<1>3. ASSUME NEW q \in Requests, RequestStep(q)
      PROVE notifier'[r] = IdleNotifier
  <2>0. q \in Notifiers
    BY DEF Notifiers
  <2>1. CASE EngineAnswers(q)
    BY <1>3, <2>1 DEF EngineAnswers, Answered, Alone, TypeOK
  <2>2. CASE RequestFails(q)
    BY <2>2 DEF RequestFails, IdleJob, Alone, TypeOK
  <2>3. CASE CommitAndAnnounce(q)
    BY <2>0, <2>3, <1>0 DEF CommitAndAnnounce, IdleJob, Goto, Alone, TypeOK
  <2>4. CASE AnnounceFirst(q)
    <3>1. job' = [job EXCEPT ![q] = [job[q] EXCEPT !.pc = "commit"]]
      BY <2>4 DEF AnnounceFirst
    <3>2. q # r
      <4>1. job[q] \in BusyJob
        BY <2>4, JobShape DEF AnnounceFirst
      <4>2. job'[q].pc = "commit"
        BY <3>1, <4>1 DEF TypeOK, BusyJob
      <4> QED
        BY <4>2
    <3> QED
      BY <2>0, <2>4, <1>0, <3>1, <3>2 DEF AnnounceFirst, Goto, Alone, TypeOK
  <2>5. CASE CommitOnly(q)
    BY <2>5 DEF CommitOnly, IdleJob, Alone, TypeOK
  <2> QED
    BY <1>3, <2>1, <2>2, <2>3, <2>4, <2>5 DEF RequestStep
<1>4. ASSUME NEW n \in Notifiers, NotifierStep(n)
      PROVE notifier'[r] = IdleNotifier
  <2>1. job' = job /\ notifier[r] = IdleNotifier /\ n # r
    BY <1>4 DEF NotifierStep, Claim, ClaimRefused, Deliver, DeliveryFails, Release,
       NotificationRaises, Alone, IdleNotifier
  <2>2. PICK s : Goto(n, s)
    BY <1>4 DEF NotifierStep, Claim, ClaimRefused, Deliver, DeliveryFails, Release,
       NotificationRaises
  <2> QED
    BY <1>0, <2>1, <2>2 DEF Goto, TypeOK
<1>5. ASSUME NEW p \in Procs, LoopStep(p)
      PROVE notifier'[r] = IdleNotifier
  <2>1. CASE SelectUnnotified(p)
    BY <2>1 DEF SelectUnnotified, Alone
  <2>2. ASSUME NEW n \in Resenders, ResendBatch(p, n)
        PROVE notifier'[r] = IdleNotifier
    <3>1. n # r /\ job' = job /\ \E s : Goto(n, s)
      BY <1>0, <2>2 DEF ResendBatch
    <3> QED
      BY <1>0, <3>1 DEF Goto, Alone, TypeOK
  <2> QED
    BY <1>5, <2>1, <2>2 DEF LoopStep
<1>6. ASSUME NEW p \in Procs, Crash(p)
      PROVE notifier'[r] = IdleNotifier
  BY <1>0, <1>6 DEF Crash, Alone, IdleJob, TypeOK
<1>7. CASE UNCHANGED vars
  BY <1>7 DEF vars, Alone
<1> QED
  BY <1>1, <1>2, <1>3, <1>4, <1>5, <1>6, <1>7 DEF Next

-----------------------------------------------------------------------------
(* Every step is a step of the ledger, or leaves it alone.                 *)

Holds(s, b) == s.pc \in {"send", "release"} /\ s.batch = b
LedgerStep == [Ledger!LedgerNext]_(Ledger!ledger)

\* A step from one place without the claim to another, or from one place with
\* it to another, leaves the holders alone.
LEMMA HoldersSame ==
  ASSUME TypeOK, NEW n \in Notifiers, NEW s, NEW b,
         Goto(n, s), Holds(s, b) <=> Holds(notifier[n], b)
  PROVE Holders(b)' = Holders(b)
BY DEF Holders, Holds, Goto, TypeOK

\* A notification that takes a claim adds one holder.
LEMMA HoldersMore ==
  ASSUME TypeOK, NEW n \in Notifiers, NEW s, NEW b \in Batches,
         Goto(n, s), Holds(s, b), ~Holds(notifier[n], b)
  PROVE Cardinality(Holders(b))' = Cardinality(Holders(b)) + 1
<1>1. Holders(b)' = Holders(b) \cup {n} /\ n \notin Holders(b)
  BY DEF Holders, Holds, Goto, TypeOK
<1> QED
  BY <1>1, HoldersFinite, FS_AddElement

\* A notification that gives up a claim removes one holder.
LEMMA HoldersLess ==
  ASSUME TypeOK, NEW n \in Notifiers, NEW s, NEW b \in Batches,
         Goto(n, s), ~Holds(s, b), Holds(notifier[n], b)
  PROVE /\ Cardinality(Holders(b))' = Cardinality(Holders(b)) - 1
        /\ Cardinality(Holders(b)) > 0
<1>1. Holders(b)' = Holders(b) \ {n} /\ n \in Holders(b)
  BY DEF Holders, Holds, Goto, TypeOK
<1>2. Cardinality(Holders(b))' = Cardinality(Holders(b)) - 1
  BY <1>1, HoldersFinite, FS_RemoveElement
<1> QED
  BY <1>2, HoldersFinite

\* The ledger's view of the rows and of the holders.
FreeOf == [b \in Batches |-> Free(b)]
HeldOf == [b \in Batches |-> Cardinality(Holders(b))]

\* When one batch changes, its entry does and no other.
LEMMA OneChanged ==
  ASSUME NEW b \in Batches,
         \A c \in Batches : c # b => /\ batch'[c].notified = batch[c].notified
                                     /\ Holders(c)' = Holders(c)
  PROVE /\ FreeOf[b] = Free(b) /\ HeldOf[b] = Cardinality(Holders(b))
        /\ Free(b)' = Free(b) => FreeOf' = FreeOf
        /\ Free(b)' = Free(b) + 1 => FreeOf' = [FreeOf EXCEPT ![b] = @ + 1]
        /\ Free(b)' = Free(b) - 1 => FreeOf' = [FreeOf EXCEPT ![b] = @ - 1]
        /\ Holders(b)' = Holders(b) => HeldOf' = HeldOf
        /\ Cardinality(Holders(b))' = Cardinality(Holders(b)) + 1
             => HeldOf' = [HeldOf EXCEPT ![b] = @ + 1]
        /\ Cardinality(Holders(b))' = Cardinality(Holders(b)) - 1
             => HeldOf' = [HeldOf EXCEPT ![b] = @ - 1]
<1>1. \A c \in Batches : c # b => /\ Free(c)' = Free(c)
                                  /\ Cardinality(Holders(c))' = Cardinality(Holders(c))
  BY DEF Free
<1>2. FreeOf' = [FreeOf EXCEPT ![b] = Free(b)']
  BY <1>1 DEF FreeOf
<1>3. HeldOf' = [HeldOf EXCEPT ![b] = Cardinality(Holders(b))']
  BY <1>1 DEF HeldOf
<1>4. FreeOf[b] = Free(b) /\ FreeOf = [FreeOf EXCEPT ![b] = FreeOf[b]]
  BY DEF FreeOf
<1>5. HeldOf[b] = Cardinality(Holders(b)) /\ HeldOf = [HeldOf EXCEPT ![b] = HeldOf[b]]
  BY DEF HeldOf
<1> QED
  BY <1>2, <1>3, <1>4, <1>5

\* A step that changes neither a claim nor a counter nor a holder.
LEMMA Untouched ==
  ASSUME UNCHANGED ledgerVars,
         \A b \in Batches : /\ batch'[b].notified = batch[b].notified
                            /\ Holders(b)' = Holders(b)
  PROVE LedgerStep
<1>1. \A b \in Batches : Free(b)' = Free(b) /\ Cardinality(Holders(b))' = Cardinality(Holders(b))
  BY DEF Free
<1>2. UNCHANGED [b \in Batches |-> Free(b)]
  BY <1>1
<1>3. UNCHANGED [b \in Batches |-> Cardinality(Holders(b))]
  BY <1>1
<1> QED
  BY <1>2, <1>3 DEF ledgerVars, LedgerStep, Ledger!ledger

\* Writing back a request's row opens its batch once more, or changes nothing.
LEMMA WritesBack ==
  ASSUME TypeOK, NEW r \in Requests, job[r].pc # "idle", WriteBack(job[r]),
         UNCHANGED <<settled, lost, wasted>>,
         \A b \in Batches : Holders(b)' = Holders(b)
  PROVE LedgerStep
<1> PICK b \in Batches : b = job[r].batch
  BY JobShape
<1> DEFINE clears == Announces(job[r]) /\ job[r].seen.notified
<1>0. batch[b].notified \in BOOLEAN
  BY DEF TypeOK, Row
<1>1. /\ \A c \in Batches : c # b => batch'[c] = batch[c]
      /\ batch'[b].notified = (batch[b].notified /\ ~clears)
  <2>1. batch' = [batch EXCEPT ![b] = Written(job[r])]
    BY WriteBackRow
  <2>2. batch'[b] = Written(job[r]) /\ \A c \in Batches : c # b => batch'[c] = batch[c]
    BY <2>1 DEF TypeOK
  <2> QED
    BY <2>2 DEF Written
<1>2. opened' = [opened EXCEPT ![b] = IF clears /\ batch[b].notified THEN @ + 1 ELSE @]
  BY DEF WriteBack
<1>3. CASE clears /\ batch[b].notified
  <2>1. Free(b) = 0 /\ Free(b)' = 1
    BY <1>1, <1>3 DEF Free
  <2>2. [c \in Batches |-> Free(c)]' = [[c \in Batches |-> Free(c)] EXCEPT ![b] = @ + 1]
    <3>1. FreeOf' = [FreeOf EXCEPT ![b] = @ + 1]
      BY <1>1, <2>1, OneChanged
    <3> QED
      BY <3>1 DEF FreeOf
  <2>3. UNCHANGED [c \in Batches |-> Cardinality(Holders(c))]
    OBVIOUS
  <2>4. opened' = [opened EXCEPT ![b] = @ + 1]
    BY <1>2, <1>3
  <2>5. Ledger!Reopen(b)
    BY <1>0, <2>1, <2>2, <2>3, <2>4 DEF Ledger!Reopen, Ledger!Add
  <2> QED
    BY <1>0, <2>5 DEF LedgerStep, Ledger!LedgerNext
<1>4. CASE ~(clears /\ batch[b].notified)
  <2>1. \A c \in Batches : batch'[c].notified = batch[c].notified
    BY <1>0, <1>1, <1>4
  <2>2. opened' = opened
    BY <1>2, <1>4 DEF TypeOK
  <2> QED
    BY <2>1, <2>2, Untouched DEF ledgerVars
<1> QED
  BY <1>3, <1>4

\* A step of a notification: every other batch keeps its holders.
LEMMA OtherHolders ==
  ASSUME TypeOK, NEW n \in Notifiers, NEW s, Goto(n, s), NEW b,
         notifier[n] = IdleNotifier \/ notifier[n].batch = b,
         s = IdleNotifier \/ s.batch = b
  PROVE \A c \in Batches : c # b => Holders(c)' = Holders(c)
BY HoldersSame DEF Holds, IdleNotifier

\* A claim is taken, and settled at once if nobody is subscribed.
LEMMA Claims ==
  ASSUME TypeOK, NEW n \in Notifiers, Claim(n)
  PROVE LedgerStep
<1>0. notifier[n].pc = "claim" /\ notifier[n] \in BusyNotifier
  BY NotifierShape DEF Claim
<1> PICK b \in Batches : b = notifier[n].batch
  BY <1>0 DEF BusyNotifier
<1>1. /\ \A c \in Batches : c # b => batch'[c].notified = batch[c].notified
      /\ Free(b) = 1 /\ Free(b)' = 0
  <2>1. ~batch[b].notified /\ batch' = [batch EXCEPT ![b].notified = TRUE]
    BY DEF Claim
  <2>2. batch'[b].notified /\ \A c \in Batches : c # b => batch'[c] = batch[c]
    BY <2>1 DEF TypeOK, Row
  <2> QED
    BY <2>1, <2>2 DEF Free
<1>2. UNCHANGED <<lost, wasted, opened>>
  BY DEF Claim
<1>3. CASE b \in Subscribed
  <2> DEFINE s == [notifier[n] EXCEPT !.pc = "send"]
  <2>1. Goto(n, s) /\ UNCHANGED settled
    BY <1>3 DEF Claim
  <2>2. s.pc = "send" /\ s.batch = b
    BY <1>0 DEF BusyNotifier
  <2>3. Holds(s, b) /\ ~Holds(notifier[n], b)
    BY <1>0, <2>2 DEF Holds
  <2> HIDE DEF s
  <2>4. Cardinality(Holders(b))' = Cardinality(Holders(b)) + 1
    BY <2>1, <2>3, HoldersMore
  <2>5. \A c \in Batches : c # b => Holders(c)' = Holders(c)
    BY <2>1, <2>2, OtherHolders
  <2>6. /\ FreeOf[b] > 0 /\ FreeOf' = [FreeOf EXCEPT ![b] = @ - 1]
        /\ HeldOf' = [HeldOf EXCEPT ![b] = @ + 1]
    BY <1>1, <2>4, <2>5, OneChanged
  <2>7. Ledger!Take(b)
    BY <1>2, <2>1, <2>6 DEF Ledger!Take, Ledger!Add, Ledger!Subtract, FreeOf, HeldOf
  <2> QED
    BY <2>7 DEF LedgerStep, Ledger!LedgerNext
<1>4. CASE b \notin Subscribed
  <2>1. Goto(n, IdleNotifier) /\ settled' = [settled EXCEPT ![b] = @ + 1]
    BY <1>4 DEF Claim
  <2>2. \A c \in Batches : Holders(c)' = Holders(c)
    BY <1>0, <2>1, HoldersSame DEF Holds, IdleNotifier
  <2>3. /\ FreeOf[b] > 0 /\ FreeOf' = [FreeOf EXCEPT ![b] = @ - 1]
        /\ HeldOf' = HeldOf
    BY <1>1, <2>2, OneChanged
  <2>4. Ledger!TakeAndSettle(b)
    BY <1>2, <2>1, <2>3 DEF Ledger!TakeAndSettle, Ledger!Add, Ledger!Subtract, FreeOf, HeldOf
  <2> QED
    BY <2>4 DEF LedgerStep, Ledger!LedgerNext
<1> QED
  BY <1>3, <1>4

\* A holder settles its claim or hands it back.
LEMMA Settles ==
  ASSUME TypeOK, TypeOK', NEW n \in Notifiers, Deliver(n) \/ Release(n)
  PROVE LedgerStep
<1>0. notifier[n].pc \in {"send", "release"} /\ notifier[n] \in BusyNotifier
  BY NotifierShape DEF Deliver, Release
<1> PICK b \in Batches : b = notifier[n].batch
  BY <1>0 DEF BusyNotifier
<1>1. Goto(n, IdleNotifier) /\ UNCHANGED <<lost, opened>>
  BY DEF Deliver, Release
<1>2. \A c \in Batches : c # b => Holders(c)' = Holders(c)
  BY <1>1, OtherHolders
<1>3. /\ Cardinality(Holders(b))' = Cardinality(Holders(b)) - 1
      /\ Cardinality(Holders(b)) > 0
  BY <1>0, <1>1, HoldersLess DEF Holds, IdleNotifier
<1>4. CASE Deliver(n)
  <2>1. /\ UNCHANGED <<batch, wasted>>
        /\ settled' = [settled EXCEPT ![b] = @ + 1]
    BY <1>4 DEF Deliver
  <2>2. Free(b)' = Free(b)
    BY <2>1 DEF Free
  <2>3. /\ FreeOf' = FreeOf /\ HeldOf[b] > 0
        /\ HeldOf' = [HeldOf EXCEPT ![b] = @ - 1]
    BY <1>2, <1>3, <2>1, <2>2, OneChanged
  <2>4. Ledger!Settle(b)
    BY <1>1, <2>1, <2>3 DEF Ledger!Settle, Ledger!Add, Ledger!Subtract, FreeOf, HeldOf
  <2> QED
    BY <2>4 DEF LedgerStep, Ledger!LedgerNext
<1>5. CASE Release(n)
  <2>1. /\ batch' = [batch EXCEPT ![b].notified = FALSE] /\ UNCHANGED settled
        /\ wasted' = [wasted EXCEPT ![b] = IF batch[b].notified THEN @ ELSE @ + 1]
    BY <1>5 DEF Release
  <2>2. ~batch'[b].notified /\ \A c \in Batches : c # b => batch'[c] = batch[c]
    BY <2>1 DEF TypeOK, Row
  <2>3. HeldOf[b] > 0 /\ HeldOf' = [HeldOf EXCEPT ![b] = @ - 1] /\ FreeOf[b] = Free(b)
    BY <1>2, <1>3, <2>2, OneChanged
  <2>4. CASE batch[b].notified
    <3>1. Free(b) = 0 /\ Free(b)' = 1
      BY <2>2, <2>4 DEF Free
    <3>2. FreeOf' = [FreeOf EXCEPT ![b] = @ + 1] /\ FreeOf[b] = 0
      BY <1>2, <2>2, <3>1, OneChanged
    <3>3. wasted' = wasted
      BY <2>1, <2>4 DEF TypeOK
    <3> QED
      BY <1>1, <2>1, <2>3, <3>2, <3>3
      DEF LedgerStep, Ledger!LedgerNext, Ledger!HandBack, Ledger!Add, Ledger!Subtract, FreeOf, HeldOf
  <2>5. CASE ~batch[b].notified
    <3>1. Free(b) = 1 /\ Free(b)' = 1
      BY <2>2, <2>5 DEF Free
    <3>2. FreeOf' = FreeOf /\ FreeOf[b] = 1
      BY <1>2, <2>2, <3>1, OneChanged
    <3>3. wasted' = [wasted EXCEPT ![b] = @ + 1]
      BY <2>1, <2>5
    <3> QED
      BY <1>1, <2>1, <2>3, <3>2, <3>3
      DEF LedgerStep, Ledger!LedgerNext, Ledger!HandBack, Ledger!Add, Ledger!Subtract, FreeOf, HeldOf
  <2> QED
    BY <2>4, <2>5
<1> QED
  BY <1>4, <1>5

\* Holders die with their claims.
LEMMA Dies ==
  ASSUME TypeOK, UNCHANGED <<batch, settled, wasted, opened>>,
         \A b \in Batches : Cardinality(Holders(b))' <= Cardinality(Holders(b)),
         lost' = [b \in Batches |-> lost[b] + (HeldOf[b] - HeldOf'[b])]
  PROVE LedgerStep
<1>1. FreeOf' = FreeOf
  BY DEF FreeOf, Free
<1>2. HeldOf' \in [Batches -> Nat] /\ \A b \in Batches : HeldOf'[b] <= HeldOf[b]
  BY HoldersFinite DEF HeldOf
<1>3. Ledger!Die
  BY <1>1, <1>2 DEF Ledger!Die, Ledger!Fewer, FreeOf, HeldOf
<1> QED
  BY <1>3 DEF LedgerStep, Ledger!LedgerNext

\* A notification that ends with an exception takes its claim with it, if it
\* has one.
LEMMA Raises ==
  ASSUME TypeOK, NEW n \in Notifiers, NotificationRaises(n)
  PROVE LedgerStep
<1>0. /\ notifier[n].pc \in {"claim", "send", "release"} /\ notifier[n] \in BusyNotifier
      /\ Goto(n, IdleNotifier) /\ UNCHANGED <<batch, settled, wasted, opened>>
  BY NotifierShape DEF NotificationRaises
<1> PICK b \in Batches : b = notifier[n].batch
  BY <1>0 DEF BusyNotifier
<1>1. \A c \in Batches : c # b => Holders(c)' = Holders(c)
  BY <1>0, OtherHolders
<1>2. CASE notifier[n].pc = "claim"
  <2>1. Holders(b)' = Holders(b)
    BY <1>0, <1>2, HoldersSame DEF Holds, IdleNotifier
  <2>2. lost' = lost
    BY <1>2 DEF NotificationRaises, Holders, TypeOK
  <2> QED
    BY <1>0, <1>1, <2>1, <2>2, Untouched DEF ledgerVars
<1>3. CASE notifier[n].pc # "claim"
  <2>1. /\ Cardinality(Holders(b))' = Cardinality(Holders(b)) - 1
        /\ Cardinality(Holders(b)) \in Nat
    BY <1>0, <1>3, HoldersLess, HoldersFinite DEF Holds, IdleNotifier
  <2>2. lost' = [lost EXCEPT ![b] = @ + 1]
    BY <1>0, <1>3 DEF NotificationRaises, Holders
  <2>3. \A c \in Batches : /\ Cardinality(Holders(c))' <= Cardinality(Holders(c))
                           /\ HeldOf[c] - HeldOf'[c] = IF c = b THEN 1 ELSE 0
    BY <1>1, <2>1, HoldersFinite DEF HeldOf
  <2>4. lost' = [c \in Batches |-> lost[c] + (HeldOf[c] - HeldOf'[c])]
    <3>1. lost' = [c \in Batches |-> IF c = b THEN lost[c] + 1 ELSE lost[c]]
      BY <2>2 DEF TypeOK
    <3>2. \A c \in Batches : lost[c] + (HeldOf[c] - HeldOf'[c])
                              = IF c = b THEN lost[c] + 1 ELSE lost[c]
      BY <2>3 DEF TypeOK
    <3> QED
      BY <3>1, <3>2
  <2> QED
    BY <1>0, <2>3, <2>4, Dies
<1> QED
  BY <1>2, <1>3

\* A crash takes the claims of all notifications of a process, whatever their
\* batches.
LEMMA Crashes ==
  ASSUME TypeOK, NEW p \in Procs, Crash(p)
  PROVE LedgerStep
<1>1. ASSUME NEW b \in Batches
      PROVE /\ Cardinality(Holders(b))' <= Cardinality(Holders(b))
            /\ lost[b] + Cardinality({n \in Holders(b) : HostOf[n] = p})
                 = lost[b] + (HeldOf[b] - HeldOf'[b])
  <2> DEFINE H == Holders(b)
             gone == {n \in Holders(b) : HostOf[n] = p}
  <2>1. IsFiniteSet(H) /\ gone \subseteq H /\ IsFiniteSet(gone) /\ H \cap gone = gone
    BY HoldersFinite, FS_Subset
  <2>2. Holders(b)' = H \ gone
    BY DEF Crash, Holders, TypeOK, IdleNotifier
  <2>3. HeldOf[b] = Cardinality(H) /\ HeldOf'[b] = Cardinality(Holders(b))'
    BY DEF HeldOf
  <2> HIDE DEF H, gone
  <2>4. Cardinality(H \ gone) = Cardinality(H) - Cardinality(gone)
    BY <2>1, FS_Difference
  <2>5. Cardinality(H) \in Nat /\ Cardinality(gone) \in Nat
    BY <2>1, FS_CardinalityType
  <2>6. Cardinality(Holders(b))' = Cardinality(H) - Cardinality(gone)
    BY <2>2, <2>4
  <2>7. lost[b] + Cardinality(gone) = lost[b] + (HeldOf[b] - HeldOf'[b])
    BY <2>3, <2>5, <2>6 DEF TypeOK
  <2>8. Cardinality(Holders(b))' <= Cardinality(H)
    BY <2>5, <2>6
  <2> QED
    BY <2>7, <2>8 DEF H, gone
<1>2. lost' = [b \in Batches |-> lost[b] + (HeldOf[b] - HeldOf'[b])]
  BY <1>1 DEF Crash
<1>3. UNCHANGED <<batch, settled, wasted, opened>>
  BY DEF Crash
<1> QED
  BY <1>1, <1>2, <1>3, Dies

\* Every step of the service is a step of the ledger or leaves it alone.
LEMMA NextLedger == TypeOK /\ Alone /\ [Next]_vars => LedgerStep
<1> SUFFICES ASSUME TypeOK, Alone, [Next]_vars PROVE LedgerStep
  OBVIOUS
<1>0. TypeOK'
  BY NextType
<1>a. ASSUME UNCHANGED <<ledgerVars, batch, notifier>>
      PROVE LedgerStep
  BY <1>a, Untouched DEF Holders
<1>1. ASSUME NEW b \in Batches, EngineRuns(b) \/ EngineCompletes(b)
      PROVE LedgerStep
  BY <1>1, <1>a DEF EngineRuns, EngineCompletes
<1>2. ASSUME NEW r \in Requests, ClientStep(r)
      PROVE LedgerStep
  BY <1>2, <1>a DEF ClientStep, ReceiveWebhook, RefreshBatch, ScheduleBatch, StopBatch,
     DeleteBatch, StartRequest
<1>3. ASSUME NEW r \in Requests, RequestStep(r)
      PROVE LedgerStep
  <2>0. r \in Notifiers
    BY DEF Notifiers
  <2>1. CASE EngineAnswers(r) \/ RequestFails(r)
    BY <1>a, <2>1 DEF EngineAnswers, RequestFails, ledgerVars
  <2>2. ASSUME NEW b, NEW e, Goto(r, Notification(b, e)), job[r].pc = "write"
        PROVE \A c \in Batches : Holders(c)' = Holders(c)
    BY <2>0, <2>2, HoldersSame DEF Alone, Notification, Holds, IdleNotifier
  <2>3. CASE CommitAndAnnounce(r)
    BY <2>2, <2>3, WritesBack DEF CommitAndAnnounce
  <2>4. CASE AnnounceFirst(r)
    BY <2>2, <2>4, Untouched DEF AnnounceFirst
  <2>5. CASE CommitOnly(r)
    <3>1. \A c \in Batches : Holders(c)' = Holders(c)
      BY <2>5 DEF CommitOnly, Holders
    <3> QED
      BY <2>5, <3>1, WritesBack DEF CommitOnly
  <2> QED
    BY <1>3, <2>1, <2>3, <2>4, <2>5 DEF RequestStep
<1>4. ASSUME NEW n \in Notifiers, NotifierStep(n)
      PROVE LedgerStep
  <2>1. CASE ClaimRefused(n)
    <3>1. \A c \in Batches : Holders(c)' = Holders(c)
      BY <2>1, HoldersSame DEF ClaimRefused, Holds, IdleNotifier
    <3> QED
      BY <2>1, <3>1, Untouched DEF ClaimRefused
  <2>2. CASE DeliveryFails(n)
    <3>1. notifier[n] \in BusyNotifier /\ notifier[n].pc = "send"
      BY <2>2, NotifierShape DEF DeliveryFails
    <3> DEFINE s == [notifier[n] EXCEPT !.pc = "release"]
    <3>2. s.pc = "release" /\ s.batch = notifier[n].batch
      BY <3>1 DEF BusyNotifier
    <3>3. Goto(n, s)
      BY <2>2 DEF DeliveryFails
    <3> HIDE DEF s
    <3>4. \A c \in Batches : Holders(c)' = Holders(c)
      BY <3>1, <3>2, <3>3, HoldersSame DEF Holds
    <3> QED
      BY <2>2, <3>4, Untouched DEF DeliveryFails
  <2> QED
    BY <1>0, <1>4, <2>1, <2>2, Claims, Settles, Raises DEF NotifierStep
<1>5. ASSUME NEW p \in Procs, LoopStep(p)
      PROVE LedgerStep
  <2>1. CASE SelectUnnotified(p)
    BY <1>a, <2>1 DEF SelectUnnotified
  <2>2. ASSUME NEW n \in Resenders, ResendBatch(p, n)
        PROVE LedgerStep
    <3>1. n \in Notifiers /\ notifier[n] = IdleNotifier /\ UNCHANGED <<ledgerVars, batch>>
      BY <2>2 DEF ResendBatch, Notifiers
    <3>2. PICK b, e : Goto(n, Notification(b, e))
      BY <2>2 DEF ResendBatch
    <3>3. \A c \in Batches : Holders(c)' = Holders(c)
      BY <3>1, <3>2, HoldersSame DEF Notification, Holds, IdleNotifier
    <3> QED
      BY <3>1, <3>3, Untouched
  <2> QED
    BY <1>5, <2>1, <2>2 DEF LoopStep
<1>6. ASSUME NEW p \in Procs, Crash(p)
      PROVE LedgerStep
  BY <1>6, Crashes
<1>7. CASE UNCHANGED vars
  BY <1>a, <1>7 DEF vars, ledgerVars
<1> QED
  BY <1>1, <1>2, <1>3, <1>4, <1>5, <1>6, <1>7 DEF Next

\* Every batch starts with nothing to tell.
LEMMA InitLedger == Init => Ledger!LedgerInit /\ Alone
<1> SUFFICES ASSUME Init PROVE Ledger!LedgerInit /\ Alone
  OBVIOUS
<1>1. \A b \in Batches : Free(b) = 0 /\ opened[b] = 0
  BY DEF Init, Free
<1>2. \A b \in Batches : Holders(b) = {}
  BY DEF Init, Holders, IdleNotifier
<1>3. \A b \in Batches : Cardinality(Holders(b)) = 0
  BY <1>2, FS_EmptySet
<1>4. Ledger!LedgerInit
  BY <1>1, <1>3 DEF Init, Ledger!LedgerInit
<1> QED
  BY <1>4 DEF Init, Alone, IdleJob

\* The claims of batches implement the ledger of claims.
THEOREM ClaimsImplementLedger == Spec => ImplementsLedger
<1>1. Spec => [](TypeOK /\ Alone)
  BY InitType, InitLedger, NextType, StaysAlone, PTL DEF Spec
<1>2. TypeOK /\ Alone /\ [Next]_vars => [Ledger!LedgerNext]_(Ledger!ledger)
  BY NextLedger DEF LedgerStep
<1>3. Init => Ledger!LedgerInit
  BY InitLedger
<1> QED
  BY <1>1, <1>2, <1>3, PTL DEF Spec, ImplementsLedger, Ledger!LedgerSpec

\* What is proved of the ledger holds of the claims of batches.
Balance == INSTANCE ClaimLedgerProofs WITH
  Items <- Batches,
  free <- [b \in Batches |-> Free(b)],
  held <- [b \in Batches |-> Cardinality(Holders(b))],
  openings <- opened

\* Hence claims are conserved: no interleaving of webhooks, stops, resends,
\* failed deliveries and crashes duplicates a claim of a batch or drops one.
THEOREM ClaimsAreConserved == Spec => []ClaimsConserved
<1>1. Balance!LedgerSpec => []Balance!Conserved
  BY Balance!LedgerConserves
<1>2. Ledger!LedgerSpec => Balance!LedgerSpec
  <2>1. Ledger!LedgerInit => Balance!LedgerInit
    BY DEF Ledger!LedgerInit, Balance!LedgerInit
  <2>2. [Ledger!LedgerNext]_(Ledger!ledger) => [Balance!LedgerNext]_(Balance!ledger)
    BY DEF Ledger!LedgerNext, Balance!LedgerNext, Ledger!ledger, Balance!ledger,
       Ledger!Take, Ledger!TakeAndSettle, Ledger!Settle, Ledger!HandBack, Ledger!Reopen,
       Ledger!Die, Ledger!Fewer, Ledger!Add, Ledger!Subtract,
       Balance!Take, Balance!TakeAndSettle, Balance!Settle, Balance!HandBack,
       Balance!Reopen, Balance!Die, Balance!Fewer, Balance!Add, Balance!Subtract
  <2> QED
    BY <2>1, <2>2, PTL DEF Ledger!LedgerSpec, Balance!LedgerSpec
<1>3. Balance!Conserved /\ TypeOK => ClaimsConserved
  BY HoldersFinite DEF Balance!Conserved, ClaimsConserved, TypeOK, Free
<1> QED
  BY <1>1, <1>2, <1>3, ClaimsImplementLedger, TypeCorrect, PTL DEF ImplementsLedger

-----------------------------------------------------------------------------
(* What the client of a batch knows.  The property speaks of a batch with  *)
(* nothing under way; what is inductive speaks of one whose claim is not   *)
(* held, because a claim may be taken while other requests go on.          *)

\* A row that is marked as notified has told its client its status, or somebody
\* holds the claim and is about to.
InformedOf(b) ==
  batch[b].notified /\ ~raced[b] /\ lost[b] = 0
    => Holders(b) # {} \/ told[b] = batch[b].status

Informed == \A b \in Subscribed : InformedOf(b)

\* A step that has nothing to do with a batch.
LEMMA NoNews ==
  ASSUME NEW b, InformedOf(b), batch'[b] = batch[b], told'[b] = told[b],
         raced'[b] = raced[b], lost'[b] = lost[b], Holders(b)' = Holders(b)
  PROVE InformedOf(b)'
BY DEF InformedOf

\* A new status that is announced leaves the row unnotified, any other is in the
\* answer: unless the row has changed since it was loaded.
LEMMA WriteBackInforms ==
  ASSUME TypeOK, NEW r \in Requests, job[r].pc # "idle", WriteBack(job[r]), lost' = lost,
         NEW b \in Batches, Holders(b)' = Holders(b), InformedOf(b)
  PROVE InformedOf(b)'
<1> DEFINE j == job[r]
<1>0. /\ j.batch \in Batches /\ batch[b] \in Row /\ raced[b] \in BOOLEAN
      /\ told \in [Batches -> Status] /\ raced \in [Batches -> BOOLEAN]
  BY JobShape DEF TypeOK
<1>1. CASE b # j.batch
  <2>1. batch'[b] = batch[b]
    BY <1>0, <1>1, WriteBackRow DEF TypeOK
  <2>2. told'[b] = told[b] /\ raced'[b] = raced[b]
    BY <1>0, <1>1 DEF WriteBack
  <2> QED
    BY <2>1, <2>2, NoNews
<1>2. CASE b = j.batch
  <2>1. batch'[b] = Written(j)
    BY <1>0, <1>2, WriteBackRow DEF TypeOK
  <2>2. /\ batch'[b].status = IF j.new = j.seen.status THEN batch[b].status ELSE j.new
        /\ batch'[b].notified = (batch[b].notified /\ ~(Announces(j) /\ j.seen.notified))
    BY <1>2, <2>1 DEF Written
  <2>3. raced'[b] = (\/ raced[b]
                     \/ batch[b].status # j.seen.status
                     \/ Announces(j) /\ batch[b].notified /\ ~j.seen.notified)
    BY <1>0, <1>2 DEF WriteBack
  <2>4. told'[b] = IF j.kind = "webhook" THEN told[b] ELSE j.new
    BY <1>0, <1>2 DEF WriteBack
  <2>5. CASE Announces(j)
    BY <2>2, <2>3, <2>5 DEF InformedOf
  <2>6. CASE ~Announces(j) /\ j.kind = "webhook"
    BY <2>2, <2>3, <2>4, <2>6 DEF InformedOf, Announces
  <2>7. CASE j.kind # "webhook"
    BY <2>2, <2>3, <2>4, <2>7 DEF InformedOf
  <2> QED
    BY <2>5, <2>6, <2>7
<1> QED
  BY <1>1, <1>2

\* A request that asks the engine, fails, or writes its row.
LEMMA RequestInforms ==
  ASSUME TypeOK, Alone, NEW r \in Requests, RequestStep(r),
         NEW b \in Batches, InformedOf(b)
  PROVE InformedOf(b)'
<1>0. r \in Notifiers /\ raced \in [Batches -> BOOLEAN] /\ told \in [Batches -> Status]
  BY DEF Notifiers, TypeOK
<1>a. ASSUME NEW d, NEW e, Goto(r, Notification(d, e)), job[r].pc = "write"
      PROVE Holders(b)' = Holders(b)
  BY <1>0, <1>a, HoldersSame DEF Alone, Notification, Holds, IdleNotifier
<1>1. CASE EngineAnswers(r)
  BY <1>1, NoNews DEF EngineAnswers, ledgerVars, Holders
<1>2. CASE RequestFails(r)
  <2>1. Holders(b)' = Holders(b) /\ batch' = batch /\ lost' = lost
    BY <1>2 DEF RequestFails, ledgerVars, Holders
  <2>2. CASE job[r].kind = "refresh" /\ job[r].batch = b
    <3>1. /\ told'[b] = job[r].seen.status
          /\ raced'[b] = (raced[b] \/ batch[b].status # job[r].seen.status)
      BY <1>0, <1>2, <2>2 DEF RequestFails
    <3> QED
      BY <2>1, <3>1 DEF InformedOf
  <2>3. CASE ~(job[r].kind = "refresh" /\ job[r].batch = b)
    <3>1. told'[b] = told[b] /\ raced'[b] = raced[b]
      BY <1>0, <1>2, <2>3 DEF RequestFails
    <3> QED
      BY <2>1, <3>1, NoNews
  <2> QED
    BY <2>2, <2>3
<1>3. CASE CommitAndAnnounce(r)
  <2>1. Holders(b)' = Holders(b)
    BY <1>3, <1>a DEF CommitAndAnnounce
  <2> QED
    BY <1>3, <2>1, WriteBackInforms DEF CommitAndAnnounce
<1>4. CASE AnnounceFirst(r)
  <2>1. Holders(b)' = Holders(b)
    BY <1>4, <1>a DEF AnnounceFirst
  <2> QED
    BY <1>4, <2>1, NoNews DEF AnnounceFirst, ledgerVars
<1>5. CASE CommitOnly(r)
  <2>1. Holders(b)' = Holders(b)
    BY <1>5 DEF CommitOnly, Holders
  <2> QED
    BY <1>5, <2>1, WriteBackInforms DEF CommitOnly
<1> QED
  BY <1>1, <1>2, <1>3, <1>4, <1>5 DEF RequestStep

\* A notification that is sent tells the status of the row, or the row has
\* changed; one that is not sent keeps its claim until it gives it back.
LEMMA NotifierInforms ==
  ASSUME TypeOK, NEW n \in Notifiers, NotifierStep(n),
         NEW b \in Subscribed, InformedOf(b)
  PROVE InformedOf(b)'
<1> DEFINE d == notifier[n].batch
<1>0. /\ b \in Batches /\ d \in Batches /\ notifier[n] \in BusyNotifier
      /\ raced \in [Batches -> BOOLEAN] /\ told \in [Batches -> Status]
      /\ batch \in [Batches -> Row] /\ lost \in [Batches -> Nat]
  <2>1. notifier[n].pc # "idle"
    BY DEF NotifierStep, Claim, ClaimRefused, Deliver, DeliveryFails, Release,
       NotificationRaises
  <2> QED
    BY <2>1, NotifierShape, BatchAssumption DEF TypeOK
<1>a. ASSUME b # d, NEW s, Goto(n, s), s = IdleNotifier \/ s.batch = d
      PROVE Holders(b)' = Holders(b)
  BY <1>0, <1>a, OtherHolders
<1>b. ASSUME NEW pc, Goto(n, [notifier[n] EXCEPT !.pc = pc])
      PROVE /\ b # d => Holders(b)' = Holders(b)
            /\ b = d /\ pc \in {"send", "release"} => Holders(b)' # {}
  <2>1. PICK s : Goto(n, s) /\ s.batch = d /\ s.pc = pc
    BY <1>0, <1>b DEF BusyNotifier
  <2>2. b = d /\ pc \in {"send", "release"} => n \in Holders(b)'
    BY <2>1 DEF Goto, Holders, TypeOK
  <2> QED
    BY <1>a, <2>1, <2>2
<1>c. ASSUME Goto(n, IdleNotifier), b # d
      PROVE Holders(b)' = Holders(b)
  BY <1>a, <1>c
<1>d. ASSUME NEW v \in BOOLEAN, batch' = [batch EXCEPT ![d].notified = v]
      PROVE /\ b # d => batch'[b] = batch[b]
            /\ b = d => batch'[b].notified = v /\ batch'[b].status = batch[b].status
  BY <1>0, <1>d DEF Row
<1>e. ASSUME Tell(n)
      PROVE /\ b # d => told'[b] = told[b] /\ raced'[b] = raced[b]
            /\ b = d => /\ told'[b] = notifier[n].event
                        /\ raced'[b] = (raced[b] \/ notifier[n].event # batch[b].status)
  BY <1>0, <1>e DEF Tell, Outdated
<1>1. CASE Claim(n)
  <2>1. /\ batch' = [batch EXCEPT ![d].notified = TRUE]
        /\ raced' = [raced EXCEPT ![d] = @ \/ Outdated(n)]
        /\ told' = told /\ lost' = lost
        /\ b = d => Goto(n, [notifier[n] EXCEPT !.pc = "send"])
        /\ \/ Goto(n, [notifier[n] EXCEPT !.pc = "send"])
           \/ Goto(n, IdleNotifier)
    BY <1>1 DEF Claim
  <2>2. CASE b # d
    <3>1. raced'[b] = raced[b]
      BY <1>0, <2>1, <2>2
    <3> QED
      BY <1>b, <1>c, <1>d, <2>1, <2>2, <3>1, NoNews
  <2>3. CASE b = d
    BY <1>b, <2>1, <2>3 DEF InformedOf
  <2> QED
    BY <2>2, <2>3
<1>2. CASE ClaimRefused(n)
  <2>1. Holders(b)' = Holders(b)
    BY <1>2, HoldersSame DEF ClaimRefused, Holds, IdleNotifier
  <2> QED
    BY <1>2, <2>1, NoNews DEF ClaimRefused, ledgerVars
<1>3. CASE Deliver(n)
  <2>1. batch' = batch /\ lost' = lost /\ Tell(n) /\ Goto(n, IdleNotifier)
    BY <1>3 DEF Deliver
  <2>2. CASE b # d
    BY <1>c, <1>e, <2>1, <2>2, NoNews
  <2>3. CASE b = d
    BY <1>e, <2>1, <2>3 DEF InformedOf
  <2> QED
    BY <2>2, <2>3
<1>4. CASE DeliveryFails(n)
  <2>1. /\ batch' = batch /\ lost' = lost
        /\ Goto(n, [notifier[n] EXCEPT !.pc = "release"])
        /\ Tell(n) \/ UNCHANGED <<told, raced>>
    BY <1>4 DEF DeliveryFails, ledgerVars
  <2>2. CASE b # d
    BY <1>b, <1>e, <2>1, <2>2, NoNews
  <2>3. CASE b = d
    BY <1>b, <2>1, <2>3 DEF InformedOf
  <2> QED
    BY <2>2, <2>3
<1>5. CASE Release(n)
  <2>1. /\ batch' = [batch EXCEPT ![d].notified = FALSE]
        /\ told' = told /\ raced' = raced /\ lost' = lost /\ Goto(n, IdleNotifier)
    BY <1>5 DEF Release
  <2>2. CASE b # d
    BY <1>c, <1>d, <2>1, <2>2, NoNews
  <2>3. CASE b = d
    BY <1>d, <2>1, <2>3 DEF InformedOf
  <2> QED
    BY <2>2, <2>3
<1>6. CASE NotificationRaises(n)
  <2>1. /\ batch' = batch /\ told' = told /\ raced' = raced /\ Goto(n, IdleNotifier)
        /\ lost' = [lost EXCEPT ![d] = IF n \in Holders(d) THEN @ + 1 ELSE @]
    BY <1>6 DEF NotificationRaises
  <2>2. CASE b # d
    BY <1>0, <1>c, <2>1, <2>2, NoNews
  <2>3. CASE b = d /\ n \in Holders(d)
    <3>1. lost'[b] = lost[b] + 1 /\ lost[b] \in Nat
      BY <1>0, <2>1, <2>3
    <3> QED
      BY <3>1 DEF InformedOf
  <2>4. CASE b = d /\ n \notin Holders(d)
    <3>0. ~Holds(notifier[n], b) /\ ~Holds(IdleNotifier, b)
      BY <2>4 DEF Holds, Holders, IdleNotifier
    <3>1. Holders(b)' = Holders(b)
      BY <2>1, <3>0, HoldersSame
    <3>2. lost'[b] = lost[b]
      BY <1>0, <2>1, <2>4
    <3> QED
      BY <2>1, <3>1, <3>2, NoNews
  <2> QED
    BY <2>2, <2>3, <2>4
<1> QED
  BY <1>1, <1>2, <1>3, <1>4, <1>5, <1>6 DEF NotifierStep

\* A crash loses the claims of its process, and tells nobody anything.
LEMMA CrashInforms ==
  ASSUME TypeOK, NEW p \in Procs, Crash(p), NEW b \in Batches, InformedOf(b)
  PROVE InformedOf(b)'
<1> DEFINE dying == {n \in Holders(b) : HostOf[n] = p}
<1>0. /\ lost[b] \in Nat /\ IsFiniteSet(dying) /\ Cardinality(dying) \in Nat
      /\ lost'[b] = lost[b] + Cardinality(dying)
      /\ UNCHANGED <<batch, told, raced>>
  BY HoldersFinite, FS_Subset, FS_CardinalityType DEF Crash, TypeOK
<1>1. CASE dying = {}
  <2>1. Holders(b)' = Holders(b)
    BY <1>1 DEF Crash, Holders, IdleNotifier
  <2>2. lost'[b] = lost[b]
    BY <1>0, <1>1, FS_EmptySet
  <2> QED
    BY <1>0, <2>1, <2>2, NoNews
<1>2. CASE dying # {}
  <2>1. Cardinality(dying) # 0
    BY <1>0, <1>2, FS_EmptySet
  <2> HIDE DEF dying
  <2>2. lost'[b] # 0
    BY <1>0, <2>1
  <2> QED
    BY <2>2 DEF InformedOf
<1> QED
  BY <1>1, <1>2

\* Every step keeps the clients informed.
LEMMA StaysInformed == TypeOK /\ Alone /\ Informed /\ [Next]_vars => Informed'
<1> SUFFICES ASSUME TypeOK, Alone, [Next]_vars, NEW b \in Subscribed, InformedOf(b)
             PROVE InformedOf(b)'
  BY DEF Informed
<1>0. b \in Batches
  BY BatchAssumption
<1>a. ASSUME UNCHANGED <<batch, told, raced, lost, notifier>>
      PROVE InformedOf(b)'
  BY <1>a DEF InformedOf, Holders
<1>1. ASSUME NEW d \in Batches, EngineRuns(d) \/ EngineCompletes(d)
      PROVE InformedOf(b)'
  BY <1>1, <1>a DEF EngineRuns, EngineCompletes, ledgerVars
<1>2. ASSUME NEW r \in Requests, ClientStep(r)
      PROVE InformedOf(b)'
  BY <1>2, <1>a DEF ClientStep, ReceiveWebhook, RefreshBatch, ScheduleBatch, StopBatch,
     DeleteBatch, StartRequest, ledgerVars
<1>3. ASSUME NEW r \in Requests, RequestStep(r)
      PROVE InformedOf(b)'
  BY <1>0, <1>3, RequestInforms
<1>4. ASSUME NEW n \in Notifiers, NotifierStep(n)
      PROVE InformedOf(b)'
  BY <1>4, NotifierInforms
<1>5. ASSUME NEW p \in Procs, LoopStep(p)
      PROVE InformedOf(b)'
  <2>1. CASE SelectUnnotified(p)
    BY <1>a, <2>1 DEF SelectUnnotified, ledgerVars
  <2>2. ASSUME NEW n \in Resenders, ResendBatch(p, n)
        PROVE InformedOf(b)'
    <3>1. /\ n \in Notifiers /\ notifier[n] = IdleNotifier
          /\ UNCHANGED <<batch, told, raced, lost>>
      BY <2>2 DEF ResendBatch, Notifiers, ledgerVars
    <3>2. PICK d, e : Goto(n, Notification(d, e))
      BY <2>2 DEF ResendBatch
    <3>3. Holders(b)' = Holders(b)
      BY <3>1, <3>2, HoldersSame DEF Notification, Holds, IdleNotifier
    <3> QED
      BY <3>1, <3>3, NoNews
  <2> QED
    BY <1>5, <2>1, <2>2 DEF LoopStep
<1>6. ASSUME NEW p \in Procs, Crash(p)
      PROVE InformedOf(b)'
  BY <1>0, <1>6, CrashInforms
<1>7. CASE UNCHANGED vars
  BY <1>a, <1>7 DEF vars, ledgerVars
<1> QED
  BY <1>1, <1>2, <1>3, <1>4, <1>5, <1>6, <1>7 DEF Next

\* A batch with nothing under way that is marked as notified has told its client
\* its status, unless a claim was lost or one of the three races came about:
\* whatever webhooks, requests, tasks and passes of all processes interleave.
THEOREM ClientsTold == Spec => []ToldUnlessRaced
<1>1. Init => Informed
  BY BatchAssumption DEF Init, Informed, InformedOf
<1>2. TypeOK /\ Informed => ToldUnlessRaced
  <2> SUFFICES ASSUME TypeOK, Informed, NEW b \in Subscribed, Quiet(b)
               PROVE Holders(b) = {}
    BY DEF Informed, InformedOf, ToldUnlessRaced
  <2> QED
    BY DEF Quiet, Holders, IdleNotifier
<1>3. Spec => [](TypeOK /\ Alone /\ Informed)
  BY <1>1, InitType, InitLedger, NextType, StaysAlone, StaysInformed, PTL DEF Spec
<1> QED
  BY <1>2, <1>3, PTL

=============================================================================
