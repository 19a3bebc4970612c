------------------------ MODULE CallCompletionProofs ------------------------
(***************************************************************************)
(* Proofs about CallCompletion for every set of calls, processes, request  *)
(* slots and permits and for every bound: the type invariant, and that     *)
(* claims are conserved, from which it follows that a client settles at    *)
(* most one delivery per opening of a call.                                *)
(***************************************************************************)
EXTENDS CallCompletion, FiniteSetTheorems, TLAPS

-----------------------------------------------------------------------------
(* What the control location says about the shape of a record.             *)

\* A request that is at a step has the record of that step.
LEMMA JobShape ==
  ASSUME NEW j \in Job
  PROVE /\ j.pc = "write" => j \in IngestJob
        /\ j.pc = "rerun" => j \in RerunJob
        /\ j.pc = "save" => j \in SaveJob
BY DEF Job, IdleJob, IngestJob, RerunJob, SaveJob

\* A permit whose completion is at a step has the record of that step.
LEMMA WorkerShape ==
  ASSUME NEW v \in WorkerState
  PROVE /\ v.pc \in {"load", "claim", "release"} => v \in PlainStep
        /\ v.pc = "inspect" => v \in InspectStep
        /\ v.pc = "think" => v \in ThinkStep
        /\ v.pc = "persist" => v \in PersistStep
        /\ v.pc = "send" => v \in SendStep
        /\ v # IdleWorker => v.call \in Calls /\ v.src \in Source
        /\ v.pc # "idle" => v # IdleWorker
BY DEF WorkerState, IdleWorker, PlainStep, InspectStep, ThinkStep, PersistStep, SendStep

\* The records the steps of a completion leave under its permit.
LEMMA PlainType ==
  ASSUME NEW pc \in {"load", "claim", "release"}, NEW c \in Calls, NEW src \in Source
  PROVE Plain(pc, c, src) \in WorkerState
BY DEF Plain, WorkerState, PlainStep

\* Changing one field of a row or one counter of a queue keeps its type.
LEMMA NotifiedType ==
  ASSUME NEW f \in [Calls -> Row], NEW c \in Calls, NEW b \in BOOLEAN
  PROVE [f EXCEPT ![c].notified = b] \in [Calls -> Row]
<1>1. [f[c] EXCEPT !.notified = b] \in Row
  BY DEF Row
<1> QED
  BY <1>1

\* Changing one counter of a queue keeps its type.
LEMMA QueueType ==
  ASSUME NEW f \in [Procs -> [Calls -> Nat]], NEW p \in Procs, NEW c \in Calls,
         NEW n \in Nat
  PROVE [f EXCEPT ![p] = [f[p] EXCEPT ![c] = n]] \in [Procs -> [Calls -> Nat]]
<1>1. [f[p] EXCEPT ![c] = n] \in [Calls -> Nat]
  OBVIOUS
<1> QED
  BY <1>1

\* Writing a report over a row, judged by any loaded status, gives a row.
LEMMA IngestedType ==
  ASSUME NEW f \in [Calls -> Row], NEW c \in Calls, NEW s, NEW e \in Execution
  PROVE [f[c] EXCEPT !.status = IF e.status = s THEN @ ELSE e.status,
                     !.transcript = @ \/ e.transcript] \in Row
<1>1. e.status \in Status
  BY DEF Execution, Placed, Ringing, Ended, Transcribed, Missed, Status, Terminal, Open
<1>2. (f[c].transcript \/ e.transcript) \in BOOLEAN
  OBVIOUS
<1>3. (IF e.status = s THEN f[c].status ELSE e.status) \in Status
  BY <1>1 DEF Row
<1> QED
  BY <1>2, <1>3 DEF Row

\* What the engine may send is an execution.
LEMMA ReportedType == \A e \in Execution : Reported(e) \subseteq Execution
BY DEF Reported, Execution, Placed, Ringing, Ended, Transcribed, Missed

\* The state of a pass between two of its batches of calls.
LEMMA BetweenType ==
  ASSUME NEW pc \in {"sleep", "finish", "recover"}, NEW S \in SUBSET Calls
  PROVE Between(pc, S) \in LoopState /\ Asleep \in LoopState
<1>1. Placed \in Execution /\ "queued" \in Open
  BY DEF Execution, Open
<1> QED
  BY <1>1 DEF Between, Asleep, LoopState

\* The holders of a claim can be counted, before and after every step.
LEMMA HoldersFinite ==
  \A c \in Calls : /\ IsFiniteSet(Holders(c)) /\ Cardinality(Holders(c)) \in Nat
                   /\ IsFiniteSet(Holders(c))' /\ Cardinality(Holders(c))' \in Nat
BY HostAssumption, FS_Subset, FS_CardinalityType DEF Holders

-----------------------------------------------------------------------------
(* The type invariant.                                                     *)

\* The initial state is well typed.
LEMMA InitType == Init => TypeOK
<1> SUFFICES ASSUME Init PROVE TypeOK
  OBVIOUS
<1>1. [status |-> "queued", transcript |-> FALSE, notified |-> FALSE] \in Row
  BY DEF Row, Status, Open
<1>2. NoOutcome \in Outcome \cup {NoOutcome} /\ Placed \in Execution
  BY DEF Execution
<1>3. IdleJob \in Job /\ IdleWorker \in WorkerState /\ Asleep \in LoopState
  BY BetweenType DEF Job, WorkerState, Asleep
<1> QED
  BY <1>1, <1>2, <1>3 DEF Init, TypeOK, Analysis

\* The steps of the engine and the arrival of a request.
LEMMA ClientType ==
  ASSUME TypeOK, NEW r \in Requests, NEW c \in Calls,
         \/ EngineRings(c) \/ EngineEnds(c) \/ EngineTranscribes(c)
         \/ ReceiveWebhook(r, c) \/ SyncBatchMember(r, c) \/ PollCall(r, c)
         \/ StopCall(r, c) \/ RequestAnalysis(r, c)
  PROVE TypeOK'
<1> USE DEF storeVars, ledgerVars, historyVars
<1>1. CASE EngineRings(c) \/ EngineEnds(c)
  BY <1>1 DEF EngineRings, EngineEnds, TypeOK, Execution
<1>2. CASE EngineTranscribes(c)
  BY <1>2 DEF EngineTranscribes, TypeOK, Execution
<1>3. ASSUME NEW j \in Job, StartRequest(r, j)
      PROVE TypeOK'
  BY <1>3 DEF StartRequest, TypeOK
<1>4. ASSUME NEW kind \in {"webhook", "batch", "poll", "stop"}, NEW e \in Execution
      PROVE Loaded(c, kind, e) \in Job
  BY <1>4 DEF Loaded, Job, IngestJob, TypeOK, Row
<1>5. CASE ReceiveWebhook(r, c)
  BY <1>3, <1>4, <1>5, ReportedType DEF ReceiveWebhook, TypeOK
<1>6. CASE SyncBatchMember(r, c)
  BY <1>3, <1>4, <1>6, ReportedType DEF SyncBatchMember, TypeOK
<1>7. CASE PollCall(r, c)
  BY <1>3, <1>4, <1>7 DEF PollCall, Execution
<1>8. CASE StopCall(r, c)
  BY <1>3, <1>4, <1>8 DEF StopCall, Execution
<1>9. CASE RequestAnalysis(r, c)
  <2>1. [pc |-> "rerun", call |-> c] \in Job
    BY DEF Job, RerunJob
  <2> QED
    BY <1>3, <1>9, <2>1 DEF RequestAnalysis
<1> QED
  BY <1>1, <1>2, <1>5, <1>6, <1>7, <1>8, <1>9

\* The steps of a request.
LEMMA RequestType ==
  ASSUME TypeOK, NEW r \in Requests, RequestStep(r)
  PROVE TypeOK'
<1> USE DEF storeVars, ledgerVars, historyVars
<1>0. IdleJob \in Job
  BY DEF Job
<1>1. CASE WriteReport(r)
  <2>1. job[r] \in IngestJob
    BY <1>1, JobShape DEF WriteReport, TypeOK
  <2>2. job[r].call \in Calls /\ Report(job[r]) \in Execution
    BY <2>1 DEF IngestJob, Report, TypeOK
  <2>3. row' \in [Calls -> Row] /\ regressed' \in [Calls -> BOOLEAN]
    <3>1. PICK seen : Ingest(job[r].call, seen, Report(job[r]))
      BY <1>1 DEF WriteReport
    <3>2. Ingested(job[r].call, seen, Report(job[r])) \in Row
      BY <2>2, IngestedType DEF Ingested, TypeOK
    <3>3. Regresses(job[r].call) \in BOOLEAN
      BY <2>2 DEF Regresses, TypeOK
    <3> QED
      BY <2>2, <3>1, <3>2, <3>3 DEF Ingest, TypeOK
  <2>4. pending' \in [Procs -> [Calls -> Nat]]
    <3>1. HostOf[r] \in Procs
      BY HostAssumption
    <3>2. pending[HostOf[r]][job[r].call] + 1 \in Nat
      BY <2>2, <3>1 DEF TypeOK
    <3> QED
      <4>1. [pending EXCEPT ![HostOf[r]] =
               [pending[HostOf[r]] EXCEPT ![job[r].call] = pending[HostOf[r]][job[r].call] + 1]]
              \in [Procs -> [Calls -> Nat]]
        BY <2>2, <3>1, <3>2, QueueType DEF TypeOK
      <4> QED
        BY <1>1, <4>1 DEF WriteReport, Queue, TypeOK
  <2> QED
    BY <1>0, <1>1, <2>3, <2>4 DEF WriteReport, TypeOK
<1>2. CASE PollFails(r)
  BY <1>0, <1>2 DEF PollFails, Fault, TypeOK
<1>3. CASE RerunAnswered(r)
  <2>1. job[r] \in RerunJob
    BY <1>3, JobShape DEF RerunAnswered, TypeOK
  <2>2. [pc |-> "save", call |-> job[r].call, found |-> analysis[job[r].call]] \in Job
    BY <2>1 DEF RerunJob, Job, SaveJob, TypeOK
  <2> QED
    BY <1>3, <2>2 DEF RerunAnswered, TypeOK
<1>4. CASE RerunSaves(r)
  <2>1. job[r] \in SaveJob
    BY <1>4, JobShape DEF RerunSaves, TypeOK
  <2>2. Saved(job[r].found, "llm", analysis[job[r].call]) \in Analysis
    BY <2>1 DEF SaveJob, Saved, Analysis, TypeOK
  <2> QED
    BY <1>0, <1>4, <2>1, <2>2 DEF RerunSaves, SaveJob, TypeOK
<1>5. CASE RerunFails(r)
  BY <1>0, <1>5 DEF RerunFails, TypeOK
<1> QED
  BY <1>1, <1>2, <1>3, <1>4, <1>5 DEF RequestStep

\* A queued completion gets its permit.
LEMMA StartType ==
  ASSUME TypeOK, NEW w \in Workers, NEW c \in Calls, StartTask(w, c)
  PROVE TypeOK'
<1> DEFINE h == HostOf[w]
<1>1. h \in Procs /\ pending[h][c] - 1 \in Nat
  BY HostAssumption DEF StartTask, TypeOK
<1>2. pending' = [pending EXCEPT ![h][c] = pending[h][c] - 1]
  BY DEF StartTask
<1>3. pending' \in [Procs -> [Calls -> Nat]]
  <2> HIDE DEF h
  <2> QED
    BY <1>1, <1>2, QueueType DEF TypeOK
<1>4. Plain("load", c, "task") \in WorkerState
  BY PlainType DEF Source
<1> QED
  BY <1>3, <1>4 DEF StartTask, Goto, TypeOK, storeVars, ledgerVars, historyVars

\* The steps of a completion.
LEMMA WorkerType ==
  ASSUME TypeOK, NEW w \in Workers, WorkerStep(w)
  PROVE TypeOK'
<1> USE DEF storeVars, ledgerVars, historyVars, Goto
<1> DEFINE v == worker[w]
<1>0. v \in WorkerState /\ IdleWorker \in WorkerState
  BY DEF TypeOK, WorkerState
<1>a. HostOf[w] \in Procs
  BY HostAssumption
<1>b. v.pc # "idle" => v.call \in Calls /\ v.src \in Source
  BY <1>0, WorkerShape
<1>c. ASSUME v.pc # "idle", ToClaim(w)
      PROVE worker' \in [Workers -> WorkerState]
  BY <1>b, <1>c, PlainType DEF ToClaim, TypeOK
<1>d. ASSUME NEW cl \in BOOLEAN, v.pc # "idle", Clear(v.call, cl)
      PROVE row' \in [Calls -> Row] /\ reopened' \in [Calls -> Nat]
  <2>1. row' \in [Calls -> Row]
    <3>1. CASE cl
      <4>1. v.call \in Calls /\ row' = [row EXCEPT ![v.call].notified = FALSE]
        BY <1>b, <1>d, <3>1 DEF Clear
      <4> HIDE DEF v
      <4> QED
        BY <4>1, NotifiedType DEF TypeOK
    <3>2. CASE ~cl
      BY <1>d, <3>2 DEF Clear, TypeOK
    <3> QED
      BY <3>1, <3>2
  <2>2. reopened' \in [Calls -> Nat]
    BY <1>b, <1>d DEF Clear, TypeOK
  <2> QED
    BY <2>1, <2>2
<1>1. CASE LoadCall(w)
  <2>1. [pc |-> "inspect", call |-> v.call, src |-> v.src, seen |-> row[v.call]]
          \in WorkerState
    BY <1>b, <1>1 DEF LoadCall, WorkerState, InspectStep, TypeOK
  <2> QED
    BY <1>1, <2>1 DEF LoadCall, TypeOK
<1>2. CASE KeepAnalysis(w)
  BY <1>c, <1>2 DEF KeepAnalysis, TypeOK
<1>3. CASE BeginAnalysis(w)
  <2>1. v \in InspectStep
    BY <1>0, <1>3, WorkerShape DEF BeginAnalysis
  <2>2. v.seen \in Row
    BY <2>1 DEF InspectStep
  <2>3. Upgrading(w) \in BOOLEAN /\ (Upgrading(w) /\ v.seen.notified) \in BOOLEAN
    BY DEF Upgrading
  <2>4. [pc |-> "think", call |-> v.call, src |-> v.src,
         mode |-> IF Readable(v.seen) THEN "llm" ELSE "guess",
         upgrade |-> Upgrading(w),
         clears |-> Upgrading(w) /\ v.seen.notified] \in WorkerState
    BY <1>b, <1>3, <2>3 DEF BeginAnalysis, WorkerState, ThinkStep
  <2> QED
    BY <1>3, <2>4 DEF BeginAnalysis, TypeOK
<1>4. CASE LookUp(w)
  <2>1. v \in ThinkStep
    BY <1>0, <1>4, WorkerShape DEF LookUp
  <2>2. (IF v.upgrade THEN "guess" ELSE analysis[v.call]) \in Analysis
    BY <2>1 DEF ThinkStep, Analysis, TypeOK
  <2>3. [pc |-> "persist", call |-> v.call, src |-> v.src, mode |-> v.mode,
         upgrade |-> v.upgrade, clears |-> v.clears,
         found |-> IF v.upgrade THEN "guess" ELSE analysis[v.call]] \in WorkerState
    BY <2>1, <2>2 DEF ThinkStep, PersistStep, WorkerState
  <2> QED
    BY <1>4, <2>3 DEF LookUp, TypeOK
<1>5. CASE Persist(w)
  <2>1. v \in PersistStep
    BY <1>0, <1>5, WorkerShape DEF Persist
  <2>2. Saved(v.found, v.mode, analysis[v.call]) \in Analysis
    BY <2>1 DEF PersistStep, Saved, Analysis, TypeOK
  <2>3. row' \in [Calls -> Row] /\ reopened' \in [Calls -> Nat]
    BY <1>d, <1>5, <2>1 DEF Persist, PersistStep
  <2> QED
    BY <1>c, <1>5, <2>2, <2>3 DEF Persist, TypeOK
<1>6. CASE ModelFails(w)
  <2>1. v \in ThinkStep
    BY <1>0, <1>6, WorkerShape DEF ModelFails
  <2>2. row' \in [Calls -> Row] /\ reopened' \in [Calls -> Nat]
    BY <1>d, <1>6, <2>1 DEF ModelFails, ThinkStep
  <2>3. worker' \in [Workers -> WorkerState]
    BY <1>c, <1>6 DEF ModelFails
  <2>4. spent' \in [ingests : Nat, faults : Nat, outages : Nat, crashes : Nat]
    BY <1>6 DEF ModelFails, TypeOK
  <2>5. analysisFailed' \in [Calls -> BOOLEAN]
    BY <1>6 DEF ModelFails, TypeOK
  <2> QED
    BY <1>6, <2>2, <2>3, <2>4, <2>5 DEF ModelFails, TypeOK
<1>7. CASE Claim(w)
  <2>1. row' \in [Calls -> Row]
    BY <1>b, <1>7, NotifiedType DEF Claim, TypeOK
  <2>5. settled' \in [Calls -> Nat]
    BY <1>b, <1>7 DEF Claim, TypeOK
  <2>2. [status |-> row[v.call].status, analysis |-> analysis[v.call]] \in Outcome
    BY <1>b, <1>7 DEF Claim, TypeOK, Row, Outcome
  <2>3. [pc |-> "send", call |-> v.call, src |-> v.src,
         payload |-> [status |-> row[v.call].status, analysis |-> analysis[v.call]]]
          \in WorkerState
    BY <1>b, <1>7, <2>2 DEF Claim, WorkerState, SendStep
  <2>4. worker' \in [Workers -> WorkerState]
    BY <1>0, <1>7, <2>3 DEF Claim, TypeOK
  <2> QED
    BY <1>7, <2>1, <2>4, <2>5 DEF Claim, TypeOK
<1>8. CASE ClaimRefused(w)
  BY <1>0, <1>8 DEF ClaimRefused, TypeOK
<1>9. CASE Deliver(w)
  <2>1. v \in SendStep
    BY <1>0, <1>9, WorkerShape DEF Deliver
  <2>2. inbox' \in [Calls -> Outcome \cup {NoOutcome}] /\ settled' \in [Calls -> Nat]
    BY <1>9, <2>1 DEF Deliver, SendStep, TypeOK
  <2> QED
    BY <1>0, <1>9, <2>2 DEF Deliver, TypeOK
<1>10. CASE DeliveryFails(w)
  <2>1. v \in SendStep
    BY <1>0, <1>10, WorkerShape DEF DeliveryFails
  <2>2. inbox' \in [Calls -> Outcome \cup {NoOutcome}]
    BY <1>10, <2>1 DEF DeliveryFails, SendStep, TypeOK
  <2>3. Plain("release", v.call, v.src) \in WorkerState
    BY <1>b, <1>10, PlainType DEF DeliveryFails
  <2> QED
    BY <1>10, <2>2, <2>3 DEF DeliveryFails, Fault, TypeOK
<1>11. CASE Release(w)
  <2>1. row' \in [Calls -> Row]
    BY <1>b, <1>11, NotifiedType DEF Release, TypeOK
  <2>2. wasted' \in [Calls -> Nat]
    BY <1>b, <1>11 DEF Release, TypeOK
  <2> QED
    BY <1>0, <1>11, <2>1, <2>2 DEF Release, TypeOK
<1>12. CASE CompletionRaises(w)
  <2>1. lost' \in [Calls -> Nat]
    BY <1>b, <1>12 DEF CompletionRaises, TypeOK
  <2>2. loop' \in [Procs -> LoopState]
    <3>1. Asleep \in LoopState
      BY BetweenType
    <3>2. loop' \in {loop, [loop EXCEPT ![HostOf[w]] = Asleep]}
      BY <1>12 DEF CompletionRaises
    <3> QED
      BY <3>1, <3>2 DEF TypeOK
  <2>3. pending' \in [Procs -> [Calls -> Nat]]
    <3>1. ASSUME NEW dropped \in SUBSET Calls,
                 pending' = [pending EXCEPT ![HostOf[w]] =
                   [c \in Calls |-> IF c \in dropped THEN 0 ELSE pending[HostOf[w]][c]]]
          PROVE pending' \in [Procs -> [Calls -> Nat]]
      <4>1. [c \in Calls |-> IF c \in dropped THEN 0 ELSE pending[HostOf[w]][c]]
              \in [Calls -> Nat]
        BY <1>a DEF TypeOK
      <4> QED
        BY <3>1, <4>1 DEF TypeOK
    <3>2. CASE worker[w].src = "loop"
      BY <1>12, <3>2 DEF CompletionRaises, TypeOK
    <3>3. CASE worker[w].src # "loop"
      BY <1>12, <3>1, <3>3 DEF CompletionRaises
    <3> QED
      BY <3>2, <3>3
  <2>4. worker' \in [Workers -> WorkerState]
    BY <1>0, <1>12 DEF CompletionRaises, TypeOK
  <2>5. spent' \in [ingests : Nat, faults : Nat, outages : Nat, crashes : Nat]
    BY <1>12 DEF CompletionRaises, Fault, TypeOK
  <2>6. UNCHANGED <<engine, storeVars, job, settled, wasted, reopened, historyVars>>
    BY <1>12 DEF CompletionRaises
  <2> QED
    BY <2>1, <2>2, <2>3, <2>4, <2>5, <2>6 DEF TypeOK
<1>13. CASE AnalysisRaises(w)
  <2>1. worker' \in [Workers -> WorkerState]
    BY <1>c, <1>13 DEF AnalysisRaises
  <2>2. spent' \in [ingests : Nat, faults : Nat, outages : Nat, crashes : Nat]
    BY <1>13 DEF AnalysisRaises, Fault, TypeOK
  <2>3. analysisFailed' \in [Calls -> BOOLEAN]
    BY <1>13 DEF AnalysisRaises, TypeOK
  <2> QED
    BY <1>13, <2>1, <2>2, <2>3 DEF AnalysisRaises, TypeOK
<1> QED
  BY <1>1, <1>2, <1>3, <1>4, <1>5, <1>6, <1>7, <1>8, <1>9, <1>10, <1>11, <1>12, <1>13
     DEF WorkerStep

\* The steps of the periodic pass, and a crash.
LEMMA LoopType ==
  ASSUME TypeOK, NEW p \in Procs, LoopStep(p) \/ Crash(p)
  PROVE TypeOK'
<1> USE DEF storeVars, ledgerVars, historyVars
<1> DEFINE l == loop[p]
<1>0. /\ l \in LoopState /\ l.todo \subseteq Calls /\ l.got \in [Calls -> Execution]
      /\ l.seen \in [Calls -> Open \cup {"another"}] /\ Asleep \in LoopState
  BY BetweenType DEF TypeOK, LoopState
<1>1. CASE SelectOpen(p)
  <2>1. Oldest(OpenSingles) \subseteq Calls
    BY SubsetAssumption DEF Oldest, OpenSingles
  <2> DEFINE seen == [c \in Calls |->
                        IF c \in Oldest(OpenSingles) THEN row[c].status ELSE "queued"]
             got == [c \in Calls |-> [status |-> seen[c], transcript |-> FALSE]]
  <2>2. ASSUME NEW c \in Calls PROVE seen[c] \in Open
    BY DEF Oldest, OpenSingles, TypeOK, Row, Status, Open
  <2>3. seen \in [Calls -> Open \cup {"another"}]
    BY <2>2
  <2>4. ASSUME NEW c \in Calls PROVE got[c] \in Execution
    BY <2>2 DEF Execution, Placed, Ringing, Open
  <2>5. got \in [Calls -> Execution]
    BY <2>4
  <2>6. [pc |-> "poll", todo |-> Oldest(OpenSingles), seen |-> seen, got |-> got] \in LoopState
    BY <2>1, <2>3, <2>5 DEF LoopState
  <2> QED
    BY <1>1, <2>6 DEF SelectOpen, TypeOK
<1>2. CASE RefreshOpen(p)
  <2>1. PICK c \in Calls : \E seen \in SeenAs(l.seen[c]) :
          loop' = [loop EXCEPT ![p].todo = @ \ {c}, ![p].seen = [@ EXCEPT ![c] = seen],
                               ![p].got = [@ EXCEPT ![c] = engine[c]]]
    BY <1>2 DEF RefreshOpen
  <2>2. PICK seen \in SeenAs(l.seen[c]) :
          loop' = [loop EXCEPT ![p].todo = @ \ {c}, ![p].seen = [@ EXCEPT ![c] = seen],
                               ![p].got = [@ EXCEPT ![c] = engine[c]]]
    BY <2>1
  <2>3. /\ [l.got EXCEPT ![c] = engine[c]] \in [Calls -> Execution]
        /\ [l.seen EXCEPT ![c] = seen] \in [Calls -> Open \cup {"another"}]
    BY <1>0, <2>2 DEF SeenAs, Open, TypeOK
  <2>4. [l EXCEPT !.todo = l.todo \ {c}, !.seen = [l.seen EXCEPT ![c] = seen],
                  !.got = [l.got EXCEPT ![c] = engine[c]]] \in LoopState
    BY <1>0, <2>3 DEF LoopState
  <2>5. loop' \in [Procs -> LoopState]
    BY <2>2, <2>4 DEF TypeOK
  <2> QED
    BY <1>2, <2>5 DEF RefreshOpen, TypeOK
<1>3. ASSUME NEW S \in SUBSET Calls
      PROVE [loop EXCEPT ![p].todo = S] \in [Procs -> LoopState]
  <2>1. [l EXCEPT !.todo = S] \in LoopState
    BY <1>0, <1>3 DEF LoopState
  <2> QED
    BY <2>1 DEF TypeOK
<1>4. CASE SkipOpen(p)
  <2>1. loop' \in [Procs -> LoopState]
    <3>1. PICK c \in Calls : loop' = [loop EXCEPT ![p].todo = l.todo \ {c}]
      BY <1>4 DEF SkipOpen
    <3> QED
      BY <1>0, <1>3, <3>1
  <2> QED
    BY <1>4, <2>1 DEF SkipOpen, Fault, TypeOK
<1>5. CASE CommitOpen(p)
  <2>1. Between("finish", {c \in Calls : JustFinished(l.seen[c], l.got[c])}) \in LoopState
    BY BetweenType
  <2>2. loop' \in [Procs -> LoopState]
    BY <1>5, <2>1 DEF CommitOpen, TypeOK
  <2>3. ASSUME NEW c \in Calls
        PROVE Ingested(c, l.seen[c], l.got[c]) \in Row
    <3> DEFINE s == l.seen[c]
               e == l.got[c]
    <3>1. e \in Execution /\ row \in [Calls -> Row]
      BY <1>0 DEF TypeOK
    <3> HIDE DEF s, e
    <3>2. Ingested(c, s, e) \in Row
      BY <3>1, IngestedType DEF Ingested
    <3> QED
      BY <3>2 DEF s, e
  <2>4. row' \in [Calls -> Row]
    BY <1>5, <2>3 DEF CommitOpen
  <2>5. \A c \in Calls : Regresses(c) \in BOOLEAN
    BY DEF Regresses, TypeOK
  <2>6. regressed' \in [Calls -> BOOLEAN]
    BY <1>5, <2>5 DEF CommitOpen
  <2> QED
    BY <1>5, <2>2, <2>4, <2>6 DEF CommitOpen, TypeOK
<1>6. ASSUME NEW w \in Workers, CompleteNext(p, w)
      PROVE TypeOK'
  <2>1. PICK c \in Calls : /\ Goto(w, Plain("load", c, "loop"))
                           /\ loop' = [loop EXCEPT ![p].todo = l.todo \ {c}]
    BY <1>6 DEF CompleteNext
  <2>2. Plain("load", c, "loop") \in WorkerState
    BY PlainType DEF Source
  <2>3. worker' \in [Workers -> WorkerState]
    BY <2>1, <2>2 DEF Goto, TypeOK
  <2>4. loop' \in [Procs -> LoopState]
    BY <1>0, <1>3, <2>1
  <2> QED
    BY <1>6, <2>3, <2>4 DEF CompleteNext, TypeOK
<1>7. CASE SelectUnnotified(p)
  <2>1. Oldest(Unnotified) \subseteq Calls
    BY SubsetAssumption DEF Oldest, Unnotified
  <2>2. Between("recover", Oldest(Unnotified)) \in LoopState
    BY <2>1, BetweenType
  <2> QED
    BY <1>7, <2>2 DEF SelectUnnotified, TypeOK
<1>8. CASE EndPass(p)
  BY <1>0, <1>8 DEF EndPass, TypeOK
<1>9. CASE Crash(p)
  <2>1. IdleJob \in Job /\ IdleWorker \in WorkerState
    BY DEF Job, WorkerState
  <2>2. job' \in [Requests -> Job] /\ worker' \in [Workers -> WorkerState]
    BY <1>9, <2>1 DEF Crash, TypeOK
  <2>3. pending' \in [Procs -> [Calls -> Nat]] /\ loop' \in [Procs -> LoopState]
    BY <1>0, <1>9 DEF Crash, TypeOK
  <2>4. lost' \in [Calls -> Nat]
    <3>1. ASSUME NEW c \in Calls
          PROVE lost[c] + Cardinality({w \in Holders(c) : HostOf[w] = p}) \in Nat
      <4>1. IsFiniteSet({w \in Holders(c) : HostOf[w] = p})
        BY HoldersFinite, FS_Subset
      <4>2. Cardinality({w \in Holders(c) : HostOf[w] = p}) \in Nat
        BY <4>1, FS_CardinalityType
      <4> QED
        BY <4>2 DEF TypeOK
    <3>2. lost' = [c \in Calls |->
                     lost[c] + Cardinality({w \in Holders(c) : HostOf[w] = p})]
      BY <1>9 DEF Crash
    <3> QED
      BY <3>1, <3>2
  <2>5. spent' \in [ingests : Nat, faults : Nat, outages : Nat, crashes : Nat]
    <3>1. spent' = [spent EXCEPT !.crashes = @ + 1]
      BY <1>9 DEF Crash
    <3> QED
      BY <3>1 DEF TypeOK
  <2> QED
    BY <1>9, <2>2, <2>3, <2>4, <2>5 DEF Crash, TypeOK
<1> QED
  BY <1>1, <1>2, <1>4, <1>5, <1>6, <1>7, <1>8, <1>9 DEF LoopStep

\* Every step of the service keeps the types.
LEMMA NextType == TypeOK /\ [Next]_vars => TypeOK'
<1> SUFFICES ASSUME TypeOK, [Next]_vars PROVE TypeOK'
  OBVIOUS
<1>1. CASE EngineStep
  <2>1. PICK c \in Calls : EngineRings(c) \/ EngineEnds(c) \/ EngineTranscribes(c)
    BY <1>1 DEF EngineStep
  <2> QED
    BY <2>1 DEF EngineRings, EngineEnds, EngineTranscribes, TypeOK, Execution, storeVars, ledgerVars,
                historyVars
<1>2. ASSUME NEW r \in Requests, ClientStep(r) \/ RequestStep(r) PROVE TypeOK'
  <2>1. CASE ClientStep(r)
    BY <2>1, ClientType DEF ClientStep
  <2>2. CASE RequestStep(r)
    BY <2>2, RequestType
  <2> QED
    BY <1>2, <2>1, <2>2
<1>3. ASSUME NEW w \in Workers, WorkerStep(w) PROVE TypeOK'
  BY <1>3, WorkerType
<1>4. ASSUME NEW w \in Workers, NEW c \in Calls, StartTask(w, c) PROVE TypeOK'
  BY <1>4, StartType
<1>5. ASSUME NEW p \in Procs, LoopStep(p) \/ Crash(p) PROVE TypeOK'
  BY <1>5, LoopType
<1>6. CASE UNCHANGED vars
  BY <1>6 DEF vars, TypeOK
<1> QED
  BY <1>1, <1>2, <1>3, <1>4, <1>5, <1>6 DEF Next

\* Every variable keeps its type in every behaviour of the service.
THEOREM TypeCorrect == Spec => []TypeOK
<1>1. Init => TypeOK
  BY InitType
<1>2. TypeOK /\ [Next]_vars => TypeOK'
  BY NextType
<1> QED
  BY <1>1, <1>2, PTL DEF Spec

-----------------------------------------------------------------------------
(* Every step is a step of the ledger of claims, or leaves it alone.  A    *)
(* step of a completion changes the state under one permit, so it adds at  *)
(* most one holder of one call or removes one.                             *)

Holds(s, c) == s.pc \in {"send", "release"} /\ s.call = c
LedgerStep == [Ledger!LedgerNext]_(Ledger!ledger)

\* The ledger's view of the rows and of the holders.
FreeOf == [c \in Calls |-> Free(c)]
HeldOf == [c \in Calls |-> Cardinality(Holders(c))]
Openings == [c \in Calls |-> 1 + reopened[c]]

\* A step from one place without a claim to another leaves the holders alone.
LEMMA HoldersSame ==
  ASSUME TypeOK, NEW w \in Workers, NEW s, NEW c,
         Goto(w, s), Holds(s, c) <=> Holds(worker[w], c)
  PROVE Holders(c)' = Holders(c)
BY DEF Holders, Holds, Goto, TypeOK

\* A permit that takes a claim adds one holder of its call.
LEMMA HoldersMore ==
  ASSUME TypeOK, NEW w \in Workers, NEW s, NEW c \in Calls,
         Goto(w, s), Holds(s, c), ~Holds(worker[w], c)
  PROVE Cardinality(Holders(c))' = Cardinality(Holders(c)) + 1
<1>1. Holders(c)' = Holders(c) \cup {w} /\ w \notin Holders(c)
  BY DEF Holders, Holds, Goto, TypeOK
<1> QED
  BY <1>1, HoldersFinite, FS_AddElement

\* A permit that gives up a claim removes one holder of its call.
LEMMA HoldersLess ==
  ASSUME TypeOK, NEW w \in Workers, NEW s, NEW c \in Calls,
         Goto(w, s), ~Holds(s, c), Holds(worker[w], c)
  PROVE /\ Cardinality(Holders(c))' = Cardinality(Holders(c)) - 1
        /\ Cardinality(Holders(c)) > 0
<1>1. Holders(c)' = Holders(c) \ {w} /\ w \in Holders(c)
  BY DEF Holders, Holds, Goto, TypeOK
<1>2. Cardinality(Holders(c))' = Cardinality(Holders(c)) - 1
  BY <1>1, HoldersFinite, FS_RemoveElement
<1> QED
  BY <1>2, HoldersFinite

\* Every other call keeps its holders.
LEMMA OtherHolders ==
  ASSUME TypeOK, NEW w \in Workers, NEW s, Goto(w, s), NEW c,
         worker[w] = IdleWorker \/ worker[w].call = c, s = IdleWorker \/ s.call = c
  PROVE \A d \in Calls : d # c => Holders(d)' = Holders(d)
BY HoldersSame DEF Holds, IdleWorker

\* When one call changes, its entry in the ledger does and no other.
LEMMA OneChanged ==
  ASSUME NEW c \in Calls,
         \A d \in Calls : d # c => /\ row'[d].notified = row[d].notified
                                   /\ Holders(d)' = Holders(d)
  PROVE /\ FreeOf[c] = Free(c) /\ HeldOf[c] = Cardinality(Holders(c))
        /\ Free(c)' = Free(c) => FreeOf' = FreeOf
        /\ Free(c)' = Free(c) + 1 => FreeOf' = [FreeOf EXCEPT ![c] = @ + 1]
        /\ Free(c)' = Free(c) - 1 => FreeOf' = [FreeOf EXCEPT ![c] = @ - 1]
        /\ Holders(c)' = Holders(c) => HeldOf' = HeldOf
        /\ Cardinality(Holders(c))' = Cardinality(Holders(c)) + 1
             => HeldOf' = [HeldOf EXCEPT ![c] = @ + 1]
        /\ Cardinality(Holders(c))' = Cardinality(Holders(c)) - 1
             => HeldOf' = [HeldOf EXCEPT ![c] = @ - 1]
<1>1. \A d \in Calls : d # c => /\ Free(d)' = Free(d)
                                /\ Cardinality(Holders(d))' = Cardinality(Holders(d))
  BY DEF Free
<1>2. FreeOf' = [FreeOf EXCEPT ![c] = Free(c)']
  BY <1>1 DEF FreeOf
<1>3. HeldOf' = [HeldOf EXCEPT ![c] = Cardinality(Holders(c))']
  BY <1>1 DEF HeldOf
<1>4. FreeOf[c] = Free(c) /\ FreeOf = [FreeOf EXCEPT ![c] = FreeOf[c]]
  BY DEF FreeOf
<1>5. HeldOf[c] = Cardinality(Holders(c)) /\ HeldOf = [HeldOf EXCEPT ![c] = HeldOf[c]]
  BY DEF HeldOf
<1> QED
  BY <1>2, <1>3, <1>4, <1>5

\* A step that changes neither a claim nor a counter nor a holder.
LEMMA Untouched ==
  ASSUME UNCHANGED ledgerVars,
         \A c \in Calls : row'[c].notified = row[c].notified /\ Holders(c)' = Holders(c)
  PROVE LedgerStep
<1>1. \A c \in Calls : Free(c)' = Free(c) /\ Cardinality(Holders(c))' = Cardinality(Holders(c))
  BY DEF Free
<1>2. UNCHANGED [c \in Calls |-> Free(c)]
  BY <1>1
<1>3. UNCHANGED [c \in Calls |-> Cardinality(Holders(c))]
  BY <1>1
<1>4. UNCHANGED [c \in Calls |-> 1 + reopened[c]]
  BY DEF ledgerVars
<1> QED
  BY <1>2, <1>3, <1>4 DEF ledgerVars, LedgerStep, Ledger!ledger

\* Everything that happens before a call is claimed, and a refused claim.
LEMMA Passes ==
  ASSUME TypeOK, NEW w \in Workers, NEW s, Goto(w, s),
         s.pc \notin {"send", "release"}, worker[w].pc \notin {"send", "release"},
         UNCHANGED <<ledgerVars, row>>
  PROVE LedgerStep
<1>1. \A c \in Calls : Holders(c)' = Holders(c)
  BY HoldersSame DEF Holds
<1> QED
  BY <1>1, Untouched

\* The steps of a completion before the claim move no claim.
LEMMA BeforeClaim ==
  ASSUME TypeOK, NEW w \in Workers,
         \/ \E c \in Calls : StartTask(w, c)
         \/ LoadCall(w) \/ KeepAnalysis(w) \/ BeginAnalysis(w) \/ LookUp(w)
         \/ AnalysisRaises(w) \/ ClaimRefused(w)
         \/ \E p \in Procs : CompleteNext(p, w)
  PROVE LedgerStep
<1> USE Passes DEF storeVars
<1>1. ASSUME NEW c \in Calls, StartTask(w, c) PROVE LedgerStep
  BY <1>1 DEF StartTask, Plain, IdleWorker
<1>2. CASE LoadCall(w)
  BY <1>2 DEF LoadCall
<1>3. CASE KeepAnalysis(w)
  BY <1>3 DEF KeepAnalysis, ToClaim, Plain
<1>4. CASE BeginAnalysis(w)
  BY <1>4 DEF BeginAnalysis
<1>5. CASE LookUp(w)
  BY <1>5 DEF LookUp
<1>6. CASE ClaimRefused(w)
  BY <1>6 DEF ClaimRefused, IdleWorker
<1>7. ASSUME NEW p \in Procs, CompleteNext(p, w) PROVE LedgerStep
  BY <1>7 DEF CompleteNext, Plain, IdleWorker
<1>8. CASE AnalysisRaises(w)
  BY <1>8 DEF AnalysisRaises, ToClaim, Plain
<1> QED
  BY <1>1, <1>2, <1>3, <1>4, <1>5, <1>6, <1>7, <1>8

\* Saving an analysis: clearing a claimed call opens it once more.
LEMMA Reopens ==
  ASSUME TypeOK, NEW w \in Workers, Persist(w) \/ ModelFails(w)
  PROVE LedgerStep
<1>0. /\ Clear(worker[w].call, worker[w].clears) /\ ToClaim(w)
      /\ worker[w].pc \in {"think", "persist"} /\ worker[w].call \in Calls
      /\ UNCHANGED <<settled, lost, wasted>>
  BY WorkerShape DEF Persist, ModelFails, TypeOK
<1> PICK c \in Calls : c = worker[w].call
  BY <1>0
<1>1. \A d \in Calls : Holders(d)' = Holders(d)
  BY <1>0, HoldersSame DEF Holds, Plain, ToClaim
<1>2. CASE worker[w].clears /\ row[c].notified
  <2>1. /\ row' = [row EXCEPT ![c].notified = FALSE]
        /\ reopened' = [reopened EXCEPT ![c] = @ + 1]
    BY <1>0, <1>2 DEF Clear
  <2>2. ~row'[c].notified /\ \A d \in Calls : d # c => row'[d] = row[d]
    BY <2>1 DEF TypeOK, Row
  <2>3. Free(c) = 0 /\ Free(c)' = 1
    BY <1>2, <2>2 DEF Free
  <2>4. /\ FreeOf[c] = 0 /\ FreeOf' = [FreeOf EXCEPT ![c] = @ + 1]
        /\ HeldOf' = HeldOf
    BY <1>1, <2>2, <2>3, OneChanged
  <2>5. Openings' = [Openings EXCEPT ![c] = @ + 1]
    <3>1. /\ reopened'[c] = reopened[c] + 1
          /\ \A d \in Calls : d # c => reopened'[d] = reopened[d]
      BY <2>1 DEF TypeOK
    <3>2. Openings'[c] = Openings[c] + 1 /\ \A d \in Calls : d # c => Openings'[d] = Openings[d]
      BY <3>1 DEF Openings, TypeOK
    <3>3. Openings = [d \in Calls |-> Openings[d]] /\ Openings' = [d \in Calls |-> Openings'[d]]
      BY DEF Openings
    <3> QED
      BY <3>2, <3>3
  <2>6. Ledger!Reopen(c)
    BY <1>0, <2>4, <2>5 DEF Ledger!Reopen, Ledger!Add, FreeOf, HeldOf, Openings
  <2> QED
    BY <2>6 DEF LedgerStep, Ledger!LedgerNext
<1>3. CASE ~(worker[w].clears /\ row[c].notified)
  <2>1. reopened' = reopened /\ \A d \in Calls : row'[d].notified = row[d].notified
    <3>1. CASE worker[w].clears
      <4>1. row[c].notified = FALSE /\ row' = [row EXCEPT ![c].notified = FALSE]
        BY <1>0, <1>3, <3>1 DEF Clear, TypeOK, Row
      <4>2. reopened' = reopened
        BY <1>0, <1>3, <3>1 DEF Clear, TypeOK
      <4>3. row'[c].notified = FALSE /\ \A d \in Calls : d # c => row'[d] = row[d]
        BY <4>1 DEF TypeOK, Row
      <4> QED
        BY <4>1, <4>2, <4>3
    <3>2. CASE ~worker[w].clears
      BY <1>0, <3>2 DEF Clear
    <3> QED
      BY <3>1, <3>2
  <2> QED
    BY <1>0, <1>1, <2>1, Untouched DEF ledgerVars
<1> QED
  BY <1>2, <1>3

\* A claim is taken: held, or settled at once if nobody is subscribed.
LEMMA Claims ==
  ASSUME TypeOK, NEW w \in Workers, Claim(w)
  PROVE LedgerStep
<1>0. worker[w].pc = "claim" /\ worker[w].call \in Calls
  BY WorkerShape DEF Claim, TypeOK
<1> PICK c \in Calls : c = worker[w].call
  BY <1>0
<1>1. /\ \A d \in Calls : d # c => row'[d].notified = row[d].notified
      /\ Free(c) = 1 /\ Free(c)' = 0
  <2>1. ~row[c].notified /\ row' = [row EXCEPT ![c].notified = TRUE]
    BY DEF Claim
  <2>2. row'[c].notified /\ \A d \in Calls : d # c => row'[d] = row[d]
    BY <2>1 DEF TypeOK, Row
  <2> QED
    BY <2>1, <2>2 DEF Free
<1>2. UNCHANGED <<lost, wasted, reopened>>
  BY DEF Claim
<1>3. CASE c \in Subscribed
  <2>1. PICK s : Goto(w, s) /\ s.pc = "send" /\ s.call = c
    BY <1>3 DEF Claim
  <2>2. settled' = settled
    BY <1>3 DEF Claim
  <2>3. Cardinality(Holders(c))' = Cardinality(Holders(c)) + 1
    BY <1>0, <2>1, HoldersMore DEF Holds
  <2>4. \A d \in Calls : d # c => Holders(d)' = Holders(d)
    BY <2>1, OtherHolders
  <2>5. /\ FreeOf[c] > 0 /\ FreeOf' = [FreeOf EXCEPT ![c] = @ - 1]
        /\ HeldOf' = [HeldOf EXCEPT ![c] = @ + 1]
    BY <1>1, <2>3, <2>4, OneChanged
  <2>6. Ledger!Take(c)
    BY <1>2, <2>2, <2>5 DEF Ledger!Take, Ledger!Add, Ledger!Subtract, FreeOf, HeldOf
  <2> QED
    BY <2>6 DEF LedgerStep, Ledger!LedgerNext
<1>4. CASE c \notin Subscribed
  <2>1. Goto(w, IdleWorker) /\ settled' = [settled EXCEPT ![c] = @ + 1]
    BY <1>4 DEF Claim
  <2>2. \A d \in Calls : Holders(d)' = Holders(d)
    BY <1>0, <2>1, HoldersSame DEF Holds, IdleWorker
  <2>3. /\ FreeOf[c] > 0 /\ FreeOf' = [FreeOf EXCEPT ![c] = @ - 1]
        /\ HeldOf' = HeldOf
    BY <1>1, <2>2, OneChanged
  <2>4. Ledger!TakeAndSettle(c)
    BY <1>2, <2>1, <2>3 DEF Ledger!TakeAndSettle, Ledger!Add, Ledger!Subtract, FreeOf, HeldOf
  <2> QED
    BY <2>4 DEF LedgerStep, Ledger!LedgerNext
<1> QED
  BY <1>3, <1>4

\* A holder settles its claim or hands it back.
LEMMA Settles ==
  ASSUME TypeOK, TypeOK', NEW w \in Workers, Deliver(w) \/ Release(w)
  PROVE LedgerStep
<1>0. worker[w].pc \in {"send", "release"} /\ worker[w].call \in Calls
  BY WorkerShape DEF Deliver, Release, TypeOK
<1> PICK c \in Calls : c = worker[w].call
  BY <1>0
<1>1. Goto(w, IdleWorker) /\ UNCHANGED <<lost, reopened>>
  BY DEF Deliver, Release
<1>2. \A d \in Calls : d # c => Holders(d)' = Holders(d)
  BY <1>1, OtherHolders
<1>3. /\ Cardinality(Holders(c))' = Cardinality(Holders(c)) - 1
      /\ Cardinality(Holders(c)) > 0
  BY <1>0, <1>1, HoldersLess DEF Holds, IdleWorker
<1>4. CASE Deliver(w)
  <2>1. UNCHANGED <<row, wasted>> /\ settled' = [settled EXCEPT ![c] = @ + 1]
    BY <1>4 DEF Deliver, storeVars
  <2>2. Free(c)' = Free(c)
    BY <2>1 DEF Free
  <2>3. /\ FreeOf' = FreeOf /\ HeldOf[c] > 0
        /\ HeldOf' = [HeldOf EXCEPT ![c] = @ - 1]
    BY <1>2, <1>3, <2>1, <2>2, OneChanged
  <2>4. Ledger!Settle(c)
    BY <1>1, <2>1, <2>3 DEF Ledger!Settle, Ledger!Add, Ledger!Subtract, FreeOf, HeldOf
  <2> QED
    BY <2>4 DEF LedgerStep, Ledger!LedgerNext
<1>5. CASE Release(w)
  <2>1. /\ row' = [row EXCEPT ![c].notified = FALSE] /\ UNCHANGED settled
        /\ wasted' = [wasted EXCEPT ![c] = IF row[c].notified THEN @ ELSE @ + 1]
    BY <1>5 DEF Release
  <2>2. ~row'[c].notified /\ \A d \in Calls : d # c => row'[d] = row[d]
    BY <2>1 DEF TypeOK, Row
  <2>3. HeldOf[c] > 0 /\ HeldOf' = [HeldOf EXCEPT ![c] = @ - 1]
    BY <1>2, <1>3, <2>2, OneChanged
  <2>4. Ledger!HandBack(c)
    <3>1. CASE row[c].notified
      <4>1. Free(c) = 0 /\ Free(c)' = 1
        BY <2>2, <3>1 DEF Free
      <4>2. FreeOf' = [FreeOf EXCEPT ![c] = @ + 1] /\ FreeOf[c] = 0
        BY <1>2, <2>2, <4>1, OneChanged
      <4>3. wasted' = wasted
        BY <2>1, <3>1 DEF TypeOK
      <4> QED
        BY <1>1, <2>1, <2>3, <4>2, <4>3
        DEF Ledger!HandBack, Ledger!Add, Ledger!Subtract, FreeOf, HeldOf
    <3>2. CASE ~row[c].notified
      <4>1. Free(c) = 1 /\ Free(c)' = 1
        BY <2>2, <3>2 DEF Free
      <4>2. FreeOf' = FreeOf /\ FreeOf[c] = 1
        BY <1>2, <2>2, <4>1, OneChanged
      <4>3. wasted' = [wasted EXCEPT ![c] = @ + 1]
        BY <2>1, <3>2
      <4> QED
        BY <1>1, <2>1, <2>3, <4>2, <4>3
        DEF Ledger!HandBack, Ledger!Add, Ledger!Subtract, FreeOf, HeldOf
    <3> QED
      BY <3>1, <3>2
  <2> QED
    BY <2>4 DEF LedgerStep, Ledger!LedgerNext
<1> QED
  BY <1>4, <1>5

\* Holders die with their claims.
LEMMA Dies ==
  ASSUME TypeOK, UNCHANGED <<row, settled, wasted, reopened>>,
         \A c \in Calls : Cardinality(Holders(c))' <= Cardinality(Holders(c)),
         lost' = [c \in Calls |-> lost[c] + (HeldOf[c] - HeldOf'[c])]
  PROVE LedgerStep
<1>1. FreeOf' = FreeOf /\ Openings' = Openings
  BY DEF FreeOf, Free, Openings
<1>2. HeldOf' \in [Calls -> Nat] /\ \A c \in Calls : HeldOf'[c] <= HeldOf[c]
  BY HoldersFinite DEF HeldOf
<1>3. Ledger!Die
  BY <1>1, <1>2 DEF Ledger!Die, Ledger!Fewer, FreeOf, HeldOf, Openings
<1> QED
  BY <1>3 DEF LedgerStep, Ledger!LedgerNext

\* A completion that ends with an exception takes its claim with it, if it has
\* one.
LEMMA Raises ==
  ASSUME TypeOK, NEW w \in Workers, CompletionRaises(w)
  PROVE LedgerStep
<1>0. /\ worker[w].pc \in {"claim", "send", "release"} /\ worker[w].call \in Calls
      /\ Goto(w, IdleWorker) /\ UNCHANGED <<row, settled, wasted, reopened>>
  BY WorkerShape DEF CompletionRaises, TypeOK, storeVars
<1> PICK c \in Calls : c = worker[w].call
  BY <1>0
<1>1. \A d \in Calls : d # c => Holders(d)' = Holders(d)
  BY <1>0, OtherHolders
<1>2. CASE worker[w].pc = "claim"
  <2>1. Holders(c)' = Holders(c)
    BY <1>0, <1>2, HoldersSame DEF Holds, IdleWorker
  <2>2. lost' = lost
    BY <1>2 DEF CompletionRaises, Holders, TypeOK
  <2> QED
    BY <1>0, <1>1, <2>1, <2>2, Untouched DEF ledgerVars
<1>3. CASE worker[w].pc # "claim"
  <2>1. /\ Cardinality(Holders(c))' = Cardinality(Holders(c)) - 1
        /\ Cardinality(Holders(c)) \in Nat
    BY <1>0, <1>3, HoldersLess, HoldersFinite DEF Holds, IdleWorker
  <2>2. lost' = [lost EXCEPT ![c] = @ + 1]
    BY <1>0, <1>3 DEF CompletionRaises, Holders
  <2>3. \A d \in Calls : /\ Cardinality(Holders(d))' <= Cardinality(Holders(d))
                         /\ HeldOf[d] - HeldOf'[d] = IF d = c THEN 1 ELSE 0
    BY <1>1, <2>1, HoldersFinite DEF HeldOf
  <2>4. lost' = [d \in Calls |-> lost[d] + (HeldOf[d] - HeldOf'[d])]
    <3>1. lost' = [d \in Calls |-> IF d = c THEN lost[d] + 1 ELSE lost[d]]
      BY <2>2 DEF TypeOK
    <3>2. \A d \in Calls : lost[d] + (HeldOf[d] - HeldOf'[d])
                             = IF d = c THEN lost[d] + 1 ELSE lost[d]
      BY <2>3 DEF TypeOK
    <3> QED
      BY <3>1, <3>2
  <2> QED
    BY <1>0, <2>3, <2>4, Dies
<1> QED
  BY <1>2, <1>3

\* The claims of a crashed process are lost, all of them and no other.
LEMMA Crashes ==
  ASSUME TypeOK, NEW p \in Procs, Crash(p)
  PROVE LedgerStep
<1>1. ASSUME NEW c \in Calls
      PROVE /\ Cardinality(Holders(c))' <= Cardinality(Holders(c))
            /\ lost[c] + Cardinality({w \in Holders(c) : HostOf[w] = p})
                 = lost[c] + (HeldOf[c] - HeldOf'[c])
  <2> DEFINE H == Holders(c)
             gone == {w \in Holders(c) : HostOf[w] = p}
  <2>1. IsFiniteSet(H) /\ gone \subseteq H /\ IsFiniteSet(gone) /\ H \cap gone = gone
    BY HoldersFinite, FS_Subset
  <2>2. Holders(c)' = H \ gone
    BY DEF Crash, Holders, TypeOK, IdleWorker
  <2>3. HeldOf[c] = Cardinality(H) /\ HeldOf'[c] = Cardinality(Holders(c))'
    BY DEF HeldOf
  <2> HIDE DEF H, gone
  <2>4. Cardinality(H \ gone) = Cardinality(H) - Cardinality(gone)
    BY <2>1, FS_Difference
  <2>5. Cardinality(H) \in Nat /\ Cardinality(gone) \in Nat
    BY <2>1, FS_CardinalityType
  <2>6. Cardinality(Holders(c))' = Cardinality(H) - Cardinality(gone)
    BY <2>2, <2>4
  <2>7. lost[c] + Cardinality(gone) = lost[c] + (HeldOf[c] - HeldOf'[c])
    BY <2>3, <2>5, <2>6 DEF TypeOK
  <2>8. Cardinality(Holders(c))' <= Cardinality(H)
    BY <2>5, <2>6
  <2> QED
    BY <2>7, <2>8 DEF H, gone
<1>2. lost' = [c \in Calls |-> lost[c] + (HeldOf[c] - HeldOf'[c])]
  BY <1>1 DEF Crash
<1>3. UNCHANGED <<row, settled, wasted, reopened>>
  BY DEF Crash, storeVars
<1> QED
  BY <1>1, <1>2, <1>3, Dies

\* Reports are ingested without touching notified_at.
LEMMA IngestKeepsNotified ==
  ASSUME TypeOK, NEW c \in Calls, NEW d \in Calls, NEW s, NEW e, Ingest(d, s, e)
  PROVE row'[c].notified = row[c].notified
BY DEF TypeOK, Ingest, Ingested, Row

\* Every step of the completion system is a step of the ledger or touches none of
\* its claims.
LEMMA NextLedger == TypeOK /\ [Next]_vars => LedgerStep
<1> SUFFICES ASSUME TypeOK, [Next]_vars PROVE LedgerStep
  OBVIOUS
<1>0. TypeOK'
  BY NextType
<1>a. ASSUME UNCHANGED <<ledgerVars, worker>>,
             \A c \in Calls : row'[c].notified = row[c].notified
      PROVE LedgerStep
  BY <1>a, Untouched DEF Holders
<1>1. CASE EngineStep
  BY <1>1, <1>a DEF EngineStep, EngineRings, EngineEnds, EngineTranscribes, storeVars
<1>2. ASSUME NEW r \in Requests, ClientStep(r)
      PROVE LedgerStep
  BY <1>2, <1>a DEF ClientStep, ReceiveWebhook, SyncBatchMember, PollCall,
     StopCall, RequestAnalysis, StartRequest, storeVars
<1>3. ASSUME NEW r \in Requests, RequestStep(r)
      PROVE LedgerStep
  <2>1. UNCHANGED <<ledgerVars, worker>>
    BY <1>3 DEF RequestStep, WriteReport, PollFails, RerunAnswered, RerunSaves, RerunFails,
       ledgerVars
  <2>2. ASSUME NEW c \in Calls PROVE row'[c].notified = row[c].notified
    <3>1. CASE WriteReport(r)
      <4>1. job[r].call \in Calls
        BY <3>1, JobShape DEF WriteReport, TypeOK, IngestJob
      <4> QED
        BY <3>1, <4>1, IngestKeepsNotified DEF WriteReport
    <3>2. CASE ~WriteReport(r)
      BY <1>3, <3>2 DEF RequestStep, PollFails, RerunAnswered, RerunSaves, RerunFails,
         storeVars
    <3> QED
      BY <3>1, <3>2
  <2> QED
    BY <1>a, <2>1, <2>2
<1>4. ASSUME NEW w \in Workers, WorkerStep(w) \/ \E d \in Calls : StartTask(w, d)
      PROVE LedgerStep
  <2>1. CASE DeliveryFails(w)
    <3>1. worker[w].pc = "send" /\ UNCHANGED <<ledgerVars, row>>
          /\ Goto(w, Plain("release", worker[w].call, worker[w].src))
      BY <2>1 DEF DeliveryFails, storeVars
    <3>2. \A c \in Calls : Holders(c)' = Holders(c)
      BY <3>1, HoldersSame DEF Holds, Plain
    <3> QED
      BY <3>1, <3>2, Untouched
  <2> QED
    BY <1>0, <1>4, <2>1, BeforeClaim, Reopens, Claims, Settles, Raises DEF WorkerStep
<1>5. ASSUME NEW p \in Procs, LoopStep(p)
      PROVE LedgerStep
  <2>1. CASE CommitOpen(p)
    <3>1. ASSUME NEW c \in Calls PROVE row'[c].notified = row[c].notified
      <4>1. row'[c] = Ingested(c, loop[p].seen[c], loop[p].got[c])
        BY <2>1 DEF CommitOpen
      <4>2. row[c] \in Row
        BY DEF TypeOK
      <4>3. \A e : Ingested(c, loop[p].seen[c], e).notified = row[c].notified
        BY <4>2 DEF Ingested, Row
      <4> QED
        BY <4>1, <4>3
    <3> QED
      BY <1>a, <2>1, <3>1 DEF CommitOpen
  <2>2. CASE \E w \in Workers : CompleteNext(p, w)
    BY <2>2, BeforeClaim
  <2>3. CASE SelectOpen(p) \/ RefreshOpen(p) \/ SkipOpen(p) \/ SelectUnnotified(p) \/ EndPass(p)
    BY <1>a, <2>3 DEF SelectOpen, RefreshOpen, SkipOpen, SelectUnnotified, EndPass, storeVars
  <2> QED
    BY <1>5, <2>1, <2>2, <2>3 DEF LoopStep
<1>6. ASSUME NEW p \in Procs, Crash(p)
      PROVE LedgerStep
  BY <1>6, Crashes
<1>7. CASE UNCHANGED vars
  BY <1>a, <1>7 DEF vars, ledgerVars
<1> QED
  BY <1>1, <1>2, <1>3, <1>4, <1>5, <1>6, <1>7 DEF Next

\* Every call starts open to one claim.
LEMMA InitLedger == Init => Ledger!LedgerInit
<1> SUFFICES ASSUME Init PROVE Ledger!LedgerInit
  OBVIOUS
<1>1. \A c \in Calls : Free(c) = 1 /\ reopened[c] = 0
  BY DEF Init, Free
<1>2. \A c \in Calls : Holders(c) = {}
  BY DEF Init, Holders, IdleWorker
<1>3. \A c \in Calls : Cardinality(Holders(c)) = 0
  BY <1>2, FS_EmptySet
<1> QED
  BY <1>1, <1>3 DEF Init, Ledger!LedgerInit

\* The claims of calls implement the ledger of claims.
THEOREM ClaimsImplementLedger == Spec => ImplementsLedger
<1>1. TypeOK /\ [Next]_vars => [Ledger!LedgerNext]_(Ledger!ledger)
  BY NextLedger DEF LedgerStep
<1> QED
  BY <1>1, InitLedger, TypeCorrect, PTL DEF Spec, ImplementsLedger, Ledger!LedgerSpec

\* What is proved of the ledger holds of the claims of calls.
Balance == INSTANCE ClaimLedgerProofs WITH
  Items <- Calls,
  free <- [c \in Calls |-> Free(c)],
  held <- [c \in Calls |-> Cardinality(Holders(c))],
  openings <- [c \in Calls |-> 1 + reopened[c]]

\* Hence claims are conserved: no interleaving of webhooks, syncs, recoveries,
\* failed deliveries and crashes duplicates a claim of a call or drops one.
THEOREM ClaimsAreConserved == Spec => []ClaimsConserved
<1>1. Balance!LedgerSpec => []Balance!Conserved
  BY Balance!LedgerConserves
<1>2. Ledger!LedgerSpec => Balance!LedgerSpec
  <2>1. Ledger!LedgerInit => Balance!LedgerInit
    BY DEF Ledger!LedgerInit, Balance!LedgerInit
  <2>2. [Ledger!LedgerNext]_(Ledger!ledger) => [Balance!LedgerNext]_(Balance!ledger)
    BY DEF Ledger!LedgerNext, Balance!LedgerNext, Ledger!ledger, Balance!ledger,
       Ledger!Take, Ledger!TakeAndSettle, Ledger!Settle, Ledger!HandBack, Ledger!Reopen,
       Ledger!Die, Ledger!Fewer, Ledger!Add, Ledger!Subtract,
       Balance!Take, Balance!TakeAndSettle, Balance!Settle, Balance!HandBack,
       Balance!Reopen, Balance!Die, Balance!Fewer, Balance!Add, Balance!Subtract
  <2> QED
    BY <2>1, <2>2, PTL DEF Ledger!LedgerSpec, Balance!LedgerSpec
<1>3. Balance!Conserved /\ TypeOK => ClaimsConserved
  BY HoldersFinite DEF Balance!Conserved, ClaimsConserved, TypeOK, Free
<1> QED
  BY <1>1, <1>2, <1>3, ClaimsImplementLedger, TypeCorrect, PTL DEF ImplementsLedger

\* Hence a client settles at most one delivery for each opening of a call, and
\* at most one for a call whose analysis is never corrected.
THEOREM SettledOnce == Spec => []SettledOncePerOpening
<1>1. TypeOK /\ ClaimsConserved => SettledOncePerOpening
  <2> SUFFICES ASSUME TypeOK, ClaimsConserved, NEW c \in Calls
               PROVE settled[c] <= 1 + reopened[c]
    BY DEF SettledOncePerOpening
  <2> QED
    BY HoldersFinite DEF ClaimsConserved, TypeOK, Free
<1> QED
  BY <1>1, TypeCorrect, ClaimsAreConserved, PTL

=============================================================================
