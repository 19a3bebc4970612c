------------------------- MODULE CallOutcomeProofs -------------------------
(***************************************************************************)
(* Proofs about what the client of a call is sent: the outcome of a call   *)
(* that has ended, with the analysis it has, in CallCompletion.            *)
(*                                                                         *)
(* Both are decided long before the outcome is put together: when the      *)
(* completion was queued, and when the completion was done with the        *)
(* analysis.  The invariant says what is known of a call at every place a  *)
(* completion can stand, and that what is known stays true.                *)
(***************************************************************************)
EXTENDS CallCompletionProofs

-----------------------------------------------------------------------------
(* The inductive invariant.                                                *)

\* The call has ended, or had until a late report took that back.
Concluded(c) == row[c].status \in Terminal \/ regressed[c]

\* The call was analysed, or an analysis of it has failed.
Examined(c) == analysis[c] # "none" \/ analysisFailed[c]

\* An outcome that says less than it should has its reason.
Explained(c, o) == /\ o.status \in Open => regressed[c]
                   /\ o.analysis = "none" => analysisFailed[c]

\* A request that has seen the end of a call, or found its analysis.
JobKnows(j) == /\ j.pc = "write" /\ j.seen \in Terminal => Concluded(j.call)
               /\ j.pc = "save" /\ j.found # "none" => analysis[j.call] # "none"

\* A completion under a permit: from its analysis on the call is examined.
PermitKnows(v) ==
  /\ v.pc # "idle" => Concluded(v.call)
  /\ v.pc \in {"claim", "send", "release"} => Examined(v.call)
  /\ v.pc = "think" /\ v.upgrade => analysis[v.call] # "none"
  /\ v.pc = "persist" /\ v.found # "none" => analysis[v.call] # "none"
  /\ v.pc = "send" => Explained(v.call, v.payload)

\* A pass completes only calls that have ended.
PassKnows(l) == l.pc \in {"finish", "recover"} => \A c \in l.todo : Concluded(c)

JobsKnow == \A r \in Requests : JobKnows(job[r])
PermitsKnow == \A w \in Workers : PermitKnows(worker[w])
QueuesKnow == \A p \in Procs, c \in Calls : pending[p][c] > 0 => Concluded(c)
PassesKnow == \A p \in Procs : PassKnows(loop[p])
ClientsKnow == \A c \in Calls : inbox[c] # NoOutcome => Explained(c, inbox[c])

Known == JobsKnow /\ PermitsKnow /\ QueuesKnow /\ PassesKnow /\ ClientsKnow

-----------------------------------------------------------------------------
(* What is known lasts.                                                    *)

Lasting(c) == /\ Concluded(c) => Concluded(c)'
              /\ regressed[c] => regressed'[c]
              /\ analysis[c] # "none" => analysis'[c] # "none"
              /\ analysisFailed[c] => analysisFailed'[c]

\* Nothing is forgotten by a step that leaves statuses and analyses alone.
LEMMA LastsUnchanged ==
  ASSUME NEW c \in Calls, row'[c].status = row[c].status,
         UNCHANGED <<analysis, analysisFailed, regressed>>
  PROVE Lasting(c)
BY DEF Lasting, Concluded

\* Setting or clearing notified_at keeps the statuses.
LEMMA NotifiedKeepsStatus ==
  ASSUME TypeOK, NEW d \in Calls, NEW b, row' = [row EXCEPT ![d].notified = b],
         NEW c \in Calls
  PROVE row'[c].status = row[c].status
BY DEF TypeOK, Row

\* Clearing notified_at, if it is cleared, keeps the statuses.
LEMMA ClearKeepsStatus ==
  ASSUME TypeOK, NEW d \in Calls, NEW b, Clear(d, b), NEW c \in Calls
  PROVE row'[c].status = row[c].status
BY NotifiedKeepsStatus DEF Clear

\* An analysis is replaced by another one, never by none.
LEMMA SavedSomething ==
  ASSUME NEW found, NEW mode \in {"guess", "llm"}, NEW current,
         current # "none" \/ found = "none"
  PROVE Saved(found, mode, current) # "none"
BY DEF Saved

\* The report a request writes takes an end back only by marking it.
LEMMA ReportLasts ==
  ASSUME TypeOK, NEW r \in Requests, WriteReport(r), NEW c \in Calls
  PROVE Lasting(c)
<1>1. job[r] \in IngestJob
  BY JobShape DEF WriteReport, TypeOK
<1> PICK d, e : d \in Calls /\ d = job[r].call /\ e = Report(job[r])
  BY <1>1 DEF IngestJob
<1>2. PICK s : Ingest(d, s, e) /\ UNCHANGED <<analysis, analysisFailed>>
  BY DEF WriteReport
<1>3. /\ row' = [row EXCEPT ![d] = Ingested(d, s, e)]
      /\ regressed' = [regressed EXCEPT ![d] = Regresses(d)]
  BY <1>2 DEF Ingest
<1> QED
  BY <1>2, <1>3 DEF Lasting, Concluded, Regresses, TypeOK

\* The pass may write an open status over a terminal one; the call has regressed then.
LEMMA CommitLasts ==
  ASSUME TypeOK, NEW p \in Procs, CommitOpen(p), NEW c \in Calls
  PROVE Lasting(c)
<1>1. /\ regressed'[c] = Regresses(c)
      /\ UNCHANGED <<analysis, analysisFailed>>
  BY DEF CommitOpen
<1> QED
  BY <1>1 DEF Lasting, Concluded, Regresses

\* No step of the service makes what is known of a call untrue.
LEMMA Lasts ==
  ASSUME TypeOK, Known, [Next]_vars, NEW c \in Calls
  PROVE Lasting(c)
<1> USE DEF storeVars, ledgerVars, historyVars
<1>1. CASE EngineStep
  BY <1>1, LastsUnchanged DEF EngineStep, EngineRings, EngineEnds, EngineTranscribes
<1>2. ASSUME NEW r \in Requests, ClientStep(r)
      PROVE Lasting(c)
  BY <1>2, LastsUnchanged DEF ClientStep, ReceiveWebhook, SyncBatchMember, PollCall,
     StopCall, RequestAnalysis, StartRequest
<1>3. ASSUME NEW r \in Requests, RequestStep(r)
      PROVE Lasting(c)
  <2>1. CASE RerunSaves(r)
    <3>1. job[r] \in SaveJob /\ job[r].pc = "save"
      BY <2>1, JobShape DEF RerunSaves, TypeOK
    <3> PICK d \in Calls, f \in Analysis : d = job[r].call /\ f = job[r].found
      BY <3>1 DEF SaveJob
    <3>2. analysis' = [analysis EXCEPT ![d] = Saved(f, "llm", analysis[d])]
          /\ UNCHANGED <<row, analysisFailed, regressed>>
      BY <2>1 DEF RerunSaves
    <3>3. analysis[d] # "none" => Saved(f, "llm", analysis[d]) # "none"
      BY SavedSomething
    <3> QED
      BY <3>2, <3>3 DEF Lasting, Concluded, TypeOK
  <2>2. CASE PollFails(r) \/ RerunAnswered(r) \/ RerunFails(r)
    BY <2>2, LastsUnchanged DEF PollFails, RerunAnswered, RerunFails
  <2> QED
    BY <1>3, <2>1, <2>2, ReportLasts DEF RequestStep
<1>4. ASSUME NEW w \in Workers, WorkerStep(w)
      PROVE Lasting(c)
  <2>1. CASE Persist(w)
    <3>1. worker[w] \in PersistStep
      BY <2>1, WorkerShape DEF Persist, TypeOK
    <3> PICK d \in Calls, f \in Analysis, m \in {"guess", "llm"}, b \in BOOLEAN :
          /\ d = worker[w].call /\ f = worker[w].found /\ m = worker[w].mode
          /\ b = worker[w].clears
      BY <3>1 DEF PersistStep
    <3>2. /\ analysis' = [analysis EXCEPT ![d] = Saved(f, m, analysis[d])]
          /\ Clear(d, b)
          /\ UNCHANGED <<analysisFailed, regressed>>
      BY <2>1 DEF Persist
    <3>3. analysis[d] # "none" => Saved(f, m, analysis[d]) # "none"
      BY SavedSomething
    <3> QED
      BY <3>2, <3>3, ClearKeepsStatus DEF Lasting, Concluded, TypeOK
  <2>2. CASE ModelFails(w)
    <3>1. worker[w] \in ThinkStep
      BY <2>2, WorkerShape DEF ModelFails, TypeOK
    <3> PICK d \in Calls, b \in BOOLEAN : d = worker[w].call /\ b = worker[w].clears
      BY <3>1 DEF ThinkStep
    <3>2. /\ analysisFailed' = [analysisFailed EXCEPT ![d] = TRUE]
          /\ Clear(d, b)
          /\ UNCHANGED <<analysis, regressed>>
      BY <2>2 DEF ModelFails
    <3> QED
      BY <3>2, ClearKeepsStatus DEF Lasting, Concluded, TypeOK
  <2>3. CASE AnalysisRaises(w)
    BY <2>3 DEF AnalysisRaises, Lasting, Concluded, TypeOK
  <2>4. CASE Claim(w) \/ Release(w)
    <3>1. worker[w].call \in Calls
      BY <2>4, WorkerShape DEF Claim, Release, TypeOK
    <3>2. /\ \E b : row' = [row EXCEPT ![worker[w].call].notified = b]
          /\ UNCHANGED <<analysis, analysisFailed, regressed>>
      BY <2>4 DEF Claim, Release
    <3> QED
      BY <3>1, <3>2, NotifiedKeepsStatus, LastsUnchanged
  <2>5. CASE \/ LoadCall(w) \/ KeepAnalysis(w) \/ BeginAnalysis(w) \/ LookUp(w)
             \/ ClaimRefused(w) \/ Deliver(w) \/ DeliveryFails(w) \/ CompletionRaises(w)
    BY <2>5, LastsUnchanged DEF LoadCall, KeepAnalysis, BeginAnalysis, LookUp,
       ClaimRefused, Deliver, DeliveryFails, CompletionRaises
  <2> QED
    BY <1>4, <2>1, <2>2, <2>3, <2>4, <2>5 DEF WorkerStep
<1>5. ASSUME NEW w \in Workers, NEW d \in Calls, StartTask(w, d)
      PROVE Lasting(c)
  BY <1>5, LastsUnchanged DEF StartTask
<1>6. ASSUME NEW p \in Procs, LoopStep(p) \/ Crash(p)
      PROVE Lasting(c)
  <2>1. CASE \/ SelectOpen(p) \/ RefreshOpen(p) \/ SkipOpen(p) \/ SelectUnnotified(p)
             \/ EndPass(p) \/ Crash(p) \/ \E w \in Workers : CompleteNext(p, w)
    BY <2>1, LastsUnchanged DEF SelectOpen, RefreshOpen, SkipOpen, SelectUnnotified,
       EndPass, Crash, CompleteNext
  <2> QED
    BY <1>6, <2>1, CommitLasts DEF LoopStep
<1>7. CASE UNCHANGED vars
  BY <1>7, LastsUnchanged DEF vars
<1> QED
  BY <1>1, <1>2, <1>3, <1>4, <1>5, <1>6, <1>7 DEF Next

-----------------------------------------------------------------------------
(* The invariant is inductive.                                             *)

\* What the places that do not change know, they know after the step.
LEMMA StillKnown ==
  ASSUME TypeOK, TypeOK', Known, \A c \in Calls : Lasting(c)
  PROVE /\ \A r \in Requests : job'[r] = job[r] => JobKnows(job[r])'
        /\ \A w \in Workers : worker'[w] = worker[w] => PermitKnows(worker[w])'
        /\ \A p \in Procs : loop'[p].pc = loop[p].pc /\ loop'[p].todo \subseteq loop[p].todo
                              => PassKnows(loop[p])'
        /\ \A p \in Procs, c \in Calls : pending'[p][c] <= pending[p][c]
                              => (pending'[p][c] > 0 => Concluded(c)')
        /\ \A c \in Calls : inbox'[c] = inbox[c]
                              => (inbox'[c] # NoOutcome => Explained(c, inbox[c])')
<1>1. ASSUME NEW r \in Requests, job'[r] = job[r]
      PROVE JobKnows(job[r])'
  <2>1. JobKnows(job[r]) /\ job[r] \in Job
    BY DEF Known, JobsKnow, TypeOK
  <2>2. job[r].pc \in {"write", "save"} => job[r].call \in Calls
    BY <2>1, JobShape DEF IngestJob, SaveJob
  <2> QED
    BY <1>1, <2>1, <2>2 DEF JobKnows, Lasting
<1>2. ASSUME NEW w \in Workers, worker'[w] = worker[w]
      PROVE PermitKnows(worker[w])'
  <2>1. PermitKnows(worker[w]) /\ worker[w] \in WorkerState
    BY DEF Known, PermitsKnow, TypeOK
  <2>2. worker[w].pc # "idle" => worker[w].call \in Calls
    BY <2>1, WorkerShape
  <2> QED
    BY <1>2, <2>1, <2>2 DEF PermitKnows, Lasting, Examined, Explained
<1>3. ASSUME NEW p \in Procs, loop'[p].pc = loop[p].pc, loop'[p].todo \subseteq loop[p].todo
      PROVE PassKnows(loop[p])'
  <2>1. loop[p].todo \subseteq Calls
    BY DEF TypeOK, LoopState
  <2> QED
    BY <1>3, <2>1 DEF Known, PassesKnow, PassKnows, Lasting
<1>4. ASSUME NEW p \in Procs, NEW c \in Calls, pending'[p][c] <= pending[p][c],
             pending'[p][c] > 0
      PROVE Concluded(c)'
  BY <1>4 DEF TypeOK, Known, QueuesKnow, Lasting
<1>5. ASSUME NEW c \in Calls, inbox'[c] = inbox[c], inbox'[c] # NoOutcome
      PROVE Explained(c, inbox[c])'
  BY <1>5 DEF Known, ClientsKnow, Explained, Lasting
<1> QED
  BY <1>1, <1>2, <1>3, <1>4, <1>5

\* A request that begins has nothing to know but what its row says.
LEMMA BeginKnows ==
  ASSUME TypeOK, TypeOK', Known, \A c \in Calls : Lasting(c), NEW r \in Requests,
         ClientStep(r)
  PROVE Known'
<1> USE DEF storeVars, ledgerVars, historyVars
<1>1. PICK c \in Calls :
        \/ ReceiveWebhook(r, c) \/ SyncBatchMember(r, c) \/ PollCall(r, c)
        \/ StopCall(r, c) \/ RequestAnalysis(r, c)
  BY DEF ClientStep
<1>2. PICK j : StartRequest(r, j) /\ JobKnows(j)
  <2>1. ASSUME NEW kind, NEW e PROVE JobKnows(Loaded(c, kind, e))
    BY DEF JobKnows, Loaded, Concluded
  <2>2. JobKnows([pc |-> "rerun", call |-> c])
    BY DEF JobKnows
  <2> QED
    BY <1>1, <2>1, <2>2 DEF ReceiveWebhook, SyncBatchMember, PollCall, StopCall,
       RequestAnalysis
<1>3. UNCHANGED <<row, regressed, analysis, worker, pending, loop, inbox>>
  BY <1>2 DEF StartRequest
<1>4. ASSUME NEW q \in Requests PROVE JobKnows(job[q])'
  <2>1. CASE q = r
    <3>1. job'[q] = j
      BY <1>2, <2>1 DEF StartRequest, TypeOK
    <3> QED
      BY <1>2, <1>3, <3>1 DEF JobKnows, Concluded
  <2>2. CASE q # r
    BY <1>2, <2>2, StillKnown DEF StartRequest, TypeOK
  <2> QED
    BY <2>1, <2>2
<1> QED
  BY <1>3, <1>4, StillKnown DEF Known, JobsKnow, PermitsKnow, QueuesKnow, PassesKnow,
     ClientsKnow, TypeOK

\* A report that ends a call, or repeats its end, queues its completion.
LEMMA RequestKnows ==
  ASSUME TypeOK, TypeOK', Known, \A c \in Calls : Lasting(c), NEW r \in Requests,
         RequestStep(r)
  PROVE Known'
<1> USE DEF storeVars, ledgerVars, historyVars
<1>1. UNCHANGED <<worker, loop, inbox>>
  BY DEF RequestStep, WriteReport, PollFails, RerunAnswered, RerunSaves, RerunFails
<1>2. ASSUME NEW q \in Requests PROVE JobKnows(job[q])'
  <2>1. CASE q # r
    <3>1. job'[q] = job[q]
      BY <2>1 DEF RequestStep, WriteReport, PollFails, RerunAnswered, RerunSaves,
         RerunFails, TypeOK
    <3> QED
      BY <3>1, StillKnown
  <2>2. CASE q = r /\ RerunAnswered(r)
    <3>1. job'[r] = [pc |-> "save", call |-> job[r].call, found |-> analysis[job[r].call]]
          /\ analysis' = analysis
      BY <2>2 DEF RerunAnswered, TypeOK
    <3> QED
      BY <2>2, <3>1 DEF JobKnows
  <2>3. CASE q = r /\ ~RerunAnswered(r)
    <3>1. job'[r] = IdleJob
      BY <2>3 DEF RequestStep, WriteReport, PollFails, RerunSaves, RerunFails, TypeOK
    <3> QED
      BY <2>3, <3>1 DEF JobKnows, IdleJob
  <2> QED
    BY <2>1, <2>2, <2>3
<1>3. ASSUME NEW p \in Procs, NEW c \in Calls, pending'[p][c] > 0 PROVE Concluded(c)'
  <2>1. CASE pending'[p][c] <= pending[p][c]
    BY <1>3, <2>1, StillKnown
  <2>2. CASE ~(pending'[p][c] <= pending[p][c])
    <3>0. pending[p][c] \in Nat
      BY DEF TypeOK
    <3>1. pending' # pending /\ WriteReport(r)
      BY <2>2, <3>0 DEF RequestStep, PollFails, RerunAnswered, RerunSaves, RerunFails
    <3>2. Queues(job[r], Report(job[r])) /\ Queue(HostOf[r], job[r].call)
      BY <3>1 DEF WriteReport
    <3>3. c = job[r].call
      BY <2>2, <3>0, <3>2 DEF Queue, TypeOK
    <3>4. job[r] \in IngestJob
      BY <3>1, JobShape DEF WriteReport, TypeOK
    <3> PICK e : e = Report(job[r])
      BY <3>4 DEF IngestJob
    <3>5. e.status \in Terminal
      BY <3>2 DEF Queues, JustFinished
    <3> PICK s : s \in SeenAs(job[r].seen) /\ Ingest(c, s, e)
      BY <3>1, <3>3 DEF WriteReport
    <3>6. row'[c].status = IF e.status = s THEN row[c].status ELSE e.status
      BY <3>3, <3>4 DEF Ingest, Ingested, TypeOK, Row, IngestJob
    <3>7. CASE e.status # s
      BY <3>5, <3>6, <3>7 DEF Concluded
    <3>8. CASE e.status = s
      <4>1. s = job[r].seen
        BY <3>5, <3>8 DEF SeenAs, Terminal
      <4>2. Concluded(c)
        BY <3>1, <3>3, <3>5, <3>8, <4>1 DEF Known, JobsKnow, JobKnows, WriteReport
      <4> QED
        BY <4>2 DEF Lasting
    <3> QED
      BY <3>7, <3>8
  <2> QED
    BY <2>1, <2>2
<1> QED
  BY <1>1, <1>2, <1>3, StillKnown DEF Known, JobsKnow, PermitsKnow, QueuesKnow,
     PassesKnow, ClientsKnow

\* A permit that moves on knows enough if its new state does.
LEMMA PermitMoves ==
  ASSUME TypeOK, TypeOK', Known, \A c \in Calls : Lasting(c), NEW w \in Workers,
         NEW s, Goto(w, s), s = IdleWorker \/ PermitKnows(s)'
  PROVE PermitsKnow'
<1>1. ASSUME NEW u \in Workers PROVE PermitKnows(worker[u])'
  <2>1. CASE u = w
    <3>1. worker'[u] = s
      BY <2>1 DEF Goto, TypeOK
    <3> QED
      BY <3>1 DEF PermitKnows, IdleWorker, Examined, Explained, Concluded
  <2>2. CASE u # w
    BY <2>2, StillKnown DEF Goto, TypeOK
  <2> QED
    BY <2>1, <2>2
<1> QED
  BY <1>1 DEF PermitsKnow

\* A completion that goes to its claim comes from an examined call.
LEMMA ToClaimKnows ==
  ASSUME TypeOK, TypeOK', Known, \A c \in Calls : Lasting(c), NEW w \in Workers,
         worker[w].pc # "idle", ToClaim(w), Examined(worker[w].call)'
  PROVE PermitsKnow'
<1> PICK v : v = worker[w]
  OBVIOUS
<1>1. v \in WorkerState /\ v.call \in Calls /\ PermitKnows(v)
  BY WorkerShape DEF TypeOK, Known, PermitsKnow
<1>2. worker' = [worker EXCEPT ![w] = Plain("claim", v.call, v.src)]
  BY DEF ToClaim, Goto
<1>3. worker'[w].call = v.call
  BY <1>2 DEF Plain, TypeOK
<1>4. analysis'[v.call] # "none" \/ analysisFailed'[v.call]
  BY <1>3 DEF Examined
<1>5. Concluded(v.call)'
  BY <1>1 DEF PermitKnows, Lasting
<1>6. PermitKnows(Plain("claim", v.call, v.src))'
  BY <1>4, <1>5 DEF PermitKnows, Plain, Examined
<1> QED
  BY <1>2, <1>6, PermitMoves DEF Goto

\* Every step of a completion hands on what it knows.
LEMMA PermitStepKnows ==
  ASSUME TypeOK, TypeOK', Known, \A c \in Calls : Lasting(c), NEW w \in Workers,
         WorkerStep(w)
  PROVE PermitsKnow'
<1> USE DEF storeVars, ledgerVars, historyVars
<1> PICK v : v = worker[w]
  OBVIOUS
<1>0. v \in WorkerState /\ PermitKnows(v) /\ (v.pc # "idle" => v.call \in Calls)
  BY WorkerShape DEF TypeOK, Known, PermitsKnow
<1>a. v.pc # "idle" => Concluded(v.call)'
  BY <1>0 DEF PermitKnows, Lasting
<1>b. v.pc \in {"claim", "send", "release"} => Examined(v.call)'
  BY <1>0 DEF PermitKnows, Lasting, Examined
<1>1. CASE LoadCall(w)
  <2>1. PICK s : s = [pc |-> "inspect", call |-> v.call, src |-> v.src, seen |-> row[v.call]]
    OBVIOUS
  <2>2. Goto(w, s) /\ v.pc = "load"
    BY <1>1, <2>1 DEF LoadCall
  <2>3. PermitKnows(s)'
    BY <1>a, <2>1, <2>2 DEF PermitKnows
  <2> QED
    BY <2>2, <2>3, PermitMoves
<1>2. CASE KeepAnalysis(w)
  <2>1. v.pc = "inspect" /\ analysis[v.call] # "none" /\ ToClaim(w)
    BY <1>2 DEF KeepAnalysis
  <2>2. analysis' = analysis /\ worker'[w].call = v.call
    BY <1>2 DEF KeepAnalysis, ToClaim, Goto, Plain, TypeOK
  <2> QED
    BY <2>1, <2>2, ToClaimKnows DEF Examined
<1>3. CASE BeginAnalysis(w)
  <2>1. PICK s : s = [pc |-> "think", call |-> v.call, src |-> v.src,
                      mode |-> IF Readable(v.seen) THEN "llm" ELSE "guess",
                      upgrade |-> Upgrading(w),
                      clears |-> Upgrading(w) /\ v.seen.notified]
    OBVIOUS
  <2>2. Goto(w, s) /\ v.pc = "inspect" /\ analysis' = analysis
    BY <1>3, <2>1 DEF BeginAnalysis
  <2>3. s.upgrade => analysis[v.call] # "none"
    BY <2>1 DEF Upgrading
  <2>4. PermitKnows(s)'
    BY <1>a, <2>1, <2>2, <2>3 DEF PermitKnows
  <2> QED
    BY <2>2, <2>4, PermitMoves
<1>4. CASE LookUp(w)
  <2>1. PICK s : s = [pc |-> "persist", call |-> v.call, src |-> v.src, mode |-> v.mode,
                      upgrade |-> v.upgrade, clears |-> v.clears,
                      found |-> IF v.upgrade THEN "guess" ELSE analysis[v.call]]
    OBVIOUS
  <2>2. Goto(w, s) /\ v.pc = "think" /\ analysis' = analysis
    BY <1>4, <2>1 DEF LookUp
  <2>3. s.found # "none" => analysis[v.call] # "none"
    BY <1>0, <2>1, <2>2 DEF PermitKnows
  <2>4. PermitKnows(s)'
    BY <1>a, <2>1, <2>2, <2>3 DEF PermitKnows
  <2> QED
    BY <2>2, <2>4, PermitMoves
<1>5. CASE Persist(w)
  <2>1. v \in PersistStep /\ ToClaim(w) /\ v.pc = "persist"
    BY <1>0, <1>5, WorkerShape DEF Persist
  <2>2. analysis'[v.call] = Saved(v.found, v.mode, analysis[v.call])
    BY <1>0, <1>5, <2>1 DEF Persist, TypeOK
  <2>3. analysis'[v.call] # "none"
    BY <1>0, <2>1, <2>2, SavedSomething DEF PermitKnows, PersistStep
  <2>4. worker'[w].call = v.call
    BY <2>1 DEF ToClaim, Goto, Plain, TypeOK
  <2> QED
    BY <2>1, <2>3, <2>4, ToClaimKnows DEF Examined
<1>6. CASE ModelFails(w) \/ AnalysisRaises(w)
  <2>1. v.pc # "idle" /\ ToClaim(w)
    BY <1>6 DEF ModelFails, AnalysisRaises
  <2>2. analysisFailed'[v.call]
    BY <1>0, <1>6, <2>1 DEF ModelFails, AnalysisRaises, TypeOK
  <2>3. worker'[w].call = v.call
    BY <2>1 DEF ToClaim, Goto, Plain, TypeOK
  <2> QED
    BY <2>1, <2>2, <2>3, ToClaimKnows DEF Examined
<1>7. CASE Claim(w)
  <2>1. PICK s : s = [pc |-> "send", call |-> v.call, src |-> v.src,
                      payload |-> [status |-> row[v.call].status,
                                   analysis |-> analysis[v.call]]]
    OBVIOUS
  <2>2. v.pc = "claim" /\ (Goto(w, s) \/ Goto(w, IdleWorker))
    BY <1>7, <2>1 DEF Claim
  <2>3. UNCHANGED <<regressed, analysisFailed>>
    BY <1>7 DEF Claim
  <2>4. Concluded(v.call) /\ Examined(v.call)
    BY <1>0, <2>2 DEF PermitKnows
  <2>5. PermitKnows(s)'
    BY <1>a, <1>b, <2>1, <2>2, <2>3, <2>4
       DEF PermitKnows, Explained, Concluded, Examined, Terminal, Open
  <2> QED
    BY <2>2, <2>5, PermitMoves
<1>8. CASE ClaimRefused(w) \/ Deliver(w) \/ Release(w) \/ CompletionRaises(w)
  <2>1. Goto(w, IdleWorker)
    BY <1>8 DEF ClaimRefused, Deliver, Release, CompletionRaises
  <2> QED
    BY <2>1, PermitMoves
<1>9. CASE DeliveryFails(w)
  <2>1. PICK s : s = Plain("release", v.call, v.src)
    OBVIOUS
  <2>2. v.pc = "send" /\ Goto(w, s)
    BY <1>9, <2>1 DEF DeliveryFails
  <2>3. PermitKnows(s)'
    BY <1>a, <1>b, <2>1, <2>2 DEF PermitKnows, Plain, Examined
  <2> QED
    BY <2>2, <2>3, PermitMoves
<1> QED
  BY <1>1, <1>2, <1>3, <1>4, <1>5, <1>6, <1>7, <1>8, <1>9 DEF WorkerStep

\* What a client receives is what was put together at the claim.
LEMMA WorkerKnows ==
  ASSUME TypeOK, TypeOK', Known, \A c \in Calls : Lasting(c), NEW w \in Workers,
         WorkerStep(w)
  PROVE Known'
<1> USE DEF storeVars, ledgerVars, historyVars
<1>1. UNCHANGED job
  BY DEF WorkerStep, LoadCall, KeepAnalysis, BeginAnalysis, LookUp, Persist, ModelFails,
     AnalysisRaises, Claim, ClaimRefused, Deliver, DeliveryFails, Release, CompletionRaises
<1>2. JobsKnow'
  BY <1>1, StillKnown DEF JobsKnow
<1>3. ClientsKnow'
  <2>1. ASSUME NEW c \in Calls, inbox'[c] # NoOutcome
        PROVE Explained(c, inbox[c])'
    <3>1. CASE inbox'[c] = inbox[c]
      BY <2>1, <3>1, StillKnown
    <3>2. CASE inbox'[c] # inbox[c]
      <4>1. worker[w].pc = "send" /\ inbox' = [inbox EXCEPT ![worker[w].call] = worker[w].payload]
        BY <3>2 DEF WorkerStep, LoadCall, KeepAnalysis, BeginAnalysis, LookUp, Persist,
           ModelFails, AnalysisRaises, Claim, ClaimRefused, Deliver, DeliveryFails,
           Release, CompletionRaises
      <4>2. c = worker[w].call /\ inbox'[c] = worker[w].payload
        BY <3>2, <4>1 DEF TypeOK
      <4>3. Explained(c, worker[w].payload)
        BY <4>1, <4>2 DEF Known, PermitsKnow, PermitKnows
      <4> QED
        BY <4>2, <4>3 DEF Explained, Lasting
    <3> QED
      BY <3>1, <3>2
  <2> QED
    BY <2>1 DEF ClientsKnow
<1>4. QueuesKnow' /\ PassesKnow'
  <2>1. CASE UNCHANGED <<pending, loop>>
    BY <2>1, StillKnown DEF QueuesKnow, PassesKnow, TypeOK
  <2>2. CASE CompletionRaises(w)
    <3>1. ASSUME NEW p \in Procs, NEW c \in Calls PROVE pending'[p][c] <= pending[p][c]
      <4>0. pending[p][c] \in Nat /\ HostOf[w] \in Procs
        BY HostAssumption DEF TypeOK
      <4>1. CASE worker[w].src = "loop"
        BY <2>2, <4>0, <4>1 DEF CompletionRaises
      <4>2. CASE worker[w].src # "loop"
        <5>1. PICK dropped \in SUBSET Calls :
                pending' = [pending EXCEPT ![HostOf[w]] =
                  [d \in Calls |-> IF d \in dropped THEN 0 ELSE pending[HostOf[w]][d]]]
          BY <2>2, <4>2 DEF CompletionRaises
        <5>2. pending'[p][c] \in {0, pending[p][c]}
          BY <5>1 DEF TypeOK
        <5> QED
          BY <4>0, <5>2
      <4> QED
        BY <4>1, <4>2
    <3>2. ASSUME NEW p \in Procs PROVE PassKnows(loop[p])'
      <4>1. loop'[p] = loop[p] \/ loop'[p] = Asleep
        BY <2>2 DEF CompletionRaises, TypeOK
      <4> QED
        BY <4>1, StillKnown DEF PassKnows, Asleep, Between
    <3> QED
      BY <3>1, <3>2, StillKnown DEF QueuesKnow, PassesKnow
  <2> QED
    BY <2>1, <2>2 DEF WorkerStep, LoadCall, KeepAnalysis, BeginAnalysis, LookUp, Persist,
       ModelFails, AnalysisRaises, Claim, ClaimRefused, Deliver, DeliveryFails, Release
<1> QED
  BY <1>2, <1>3, <1>4, PermitStepKnows DEF Known

\* A queued completion that gets its permit is of a call that has ended.
LEMMA StartKnows ==
  ASSUME TypeOK, TypeOK', Known, \A c \in Calls : Lasting(c), NEW w \in Workers,
         NEW c \in Calls, StartTask(w, c)
  PROVE Known'
<1> USE DEF storeVars, ledgerVars, historyVars
<1>1. UNCHANGED <<job, loop, inbox>>
  BY DEF StartTask
<1>2. JobsKnow' /\ PassesKnow' /\ ClientsKnow'
  BY <1>1, StillKnown DEF JobsKnow, PassesKnow, ClientsKnow
<1>3. QueuesKnow'
  <2>1. ASSUME NEW p \in Procs, NEW d \in Calls PROVE pending'[p][d] <= pending[p][d]
    <3>1. pending[p][d] \in Nat /\ HostOf[w] \in Procs
      BY HostAssumption DEF TypeOK
    <3>2. pending' = [pending EXCEPT ![HostOf[w]][c] = @ - 1]
      BY DEF StartTask
    <3>3. pending'[p][d] = pending[p][d] \/ pending'[p][d] = pending[p][d] - 1
      BY <3>1, <3>2 DEF TypeOK
    <3> QED
      BY <3>1, <3>3
  <2> QED
    BY <2>1, StillKnown DEF QueuesKnow
<1>4. PermitsKnow'
  <2>1. PICK s : s = Plain("load", c, "task")
    OBVIOUS
  <2>2. Goto(w, s)
    BY <2>1 DEF StartTask
  <2>3. Concluded(c)
    BY HostAssumption DEF StartTask, Known, QueuesKnow
  <2>4. PermitKnows(s)'
    BY <2>1, <2>3 DEF PermitKnows, Plain, Lasting
  <2> QED
    BY <2>2, <2>4, PermitMoves
<1> QED
  BY <1>2, <1>3, <1>4 DEF Known

\* What a pass selects to complete has ended, and it loses calls only to permits.
LEMMA LoopKnows ==
  ASSUME TypeOK, TypeOK', Known, \A c \in Calls : Lasting(c), NEW p \in Procs,
         LoopStep(p)
  PROVE Known'
<1> USE DEF storeVars, ledgerVars, historyVars
<1>1. UNCHANGED <<job, pending, inbox>>
  BY DEF LoopStep, SelectOpen, RefreshOpen, SkipOpen, CommitOpen, SelectUnnotified,
     EndPass, CompleteNext
<1>2. JobsKnow' /\ QueuesKnow' /\ ClientsKnow'
  BY <1>1, StillKnown DEF JobsKnow, QueuesKnow, ClientsKnow, TypeOK
<1>3. PassesKnow'
  <2>1. ASSUME NEW q \in Procs, q # p PROVE PassKnows(loop[q])'
    <3>1. loop'[q] = loop[q]
      BY <2>1 DEF LoopStep, SelectOpen, RefreshOpen, SkipOpen, CommitOpen,
         SelectUnnotified, EndPass, CompleteNext, TypeOK
    <3> QED
      BY <3>1, StillKnown
  <2>2. PassKnows(loop[p])'
    <3>0. loop[p] \in LoopState
      BY DEF TypeOK
    <3>1. CASE SelectOpen(p) \/ EndPass(p)
      <4>1. loop'[p].pc \in {"poll", "sleep"}
        BY <3>1 DEF SelectOpen, EndPass, Asleep, Between, TypeOK
      <4> QED
        BY <4>1 DEF PassKnows
    <3>2. CASE RefreshOpen(p) \/ SkipOpen(p)
      <4>1. ASSUME RefreshOpen(p) PROVE loop'[p].pc = "poll"
        <5>1. PICK g, t, s : loop' = [loop EXCEPT ![p].todo = t, ![p].seen = s, ![p].got = g]
          BY <4>1 DEF RefreshOpen
        <5> QED
          BY <3>0, <4>1, <5>1 DEF RefreshOpen, TypeOK, LoopState
      <4>2. ASSUME SkipOpen(p) PROVE loop'[p].pc = "poll"
        <5>1. PICK t : loop' = [loop EXCEPT ![p].todo = t]
          BY <4>2 DEF SkipOpen
        <5> QED
          BY <3>0, <4>2, <5>1 DEF SkipOpen, TypeOK, LoopState
      <4>3. loop'[p].pc = "poll"
        BY <3>2, <4>1, <4>2
      <4> QED
        BY <4>3 DEF PassKnows
    <3>3. CASE CommitOpen(p)
      <4> DEFINE seen == loop[p].seen
                 got == loop[p].got
      <4>1. loop'[p].todo = {c \in Calls : JustFinished(seen[c], got[c])}
        BY <3>3 DEF CommitOpen, Between, TypeOK
      <4>2. ASSUME NEW c \in Calls, JustFinished(seen[c], got[c])
            PROVE row'[c].status \in Terminal
        <5>1. row[c] \in Row /\ row'[c] = Ingested(c, seen[c], got[c])
          BY <3>3 DEF CommitOpen, TypeOK
        <5>2. row'[c].status = IF got[c].status = seen[c] THEN row[c].status
                               ELSE got[c].status
          BY <5>1 DEF Ingested, Row
        <5> QED
          BY <4>2, <5>2 DEF JustFinished
      <4> QED
        BY <4>1, <4>2 DEF PassKnows, Concluded
    <3>4. CASE SelectUnnotified(p)
      <4>1. loop'[p].todo = Oldest(Unnotified) /\ row' = row
        BY <3>4 DEF SelectUnnotified, Between, TypeOK
      <4> QED
        BY <4>1 DEF PassKnows, Concluded, Oldest, Unnotified
    <3>5. CASE \E w \in Workers : CompleteNext(p, w)
      <4>1. loop'[p].pc = loop[p].pc /\ loop'[p].todo \subseteq loop[p].todo
        BY <3>0, <3>5 DEF CompleteNext, TypeOK, LoopState
      <4> QED
        BY <4>1, StillKnown
    <3> QED
      BY <3>1, <3>2, <3>3, <3>4, <3>5 DEF LoopStep
  <2> QED
    BY <2>1, <2>2 DEF PassesKnow
<1>4. PermitsKnow'
  <2>1. CASE UNCHANGED worker
    BY <2>1, StillKnown DEF PermitsKnow
  <2>2. ASSUME NEW w \in Workers, CompleteNext(p, w) PROVE PermitsKnow'
    <3>1. PICK c \in Calls : c \in loop[p].todo /\ Goto(w, Plain("load", c, "loop"))
      BY <2>2 DEF CompleteNext, IsFirst
    <3>2. Concluded(c)
      BY <2>2, <3>1 DEF CompleteNext, Known, PassesKnow, PassKnows
    <3>3. PICK s : s = Plain("load", c, "loop")
      OBVIOUS
    <3>4. PermitKnows(s)'
      BY <3>2, <3>3 DEF PermitKnows, Plain, Lasting
    <3> QED
      BY <3>1, <3>3, <3>4, PermitMoves
  <2> QED
    BY <2>1, <2>2 DEF LoopStep, SelectOpen, RefreshOpen, SkipOpen, CommitOpen,
       SelectUnnotified, EndPass
<1> QED
  BY <1>2, <1>3, <1>4 DEF Known

\* A process that dies forgets; what the others know stays.
LEMMA CrashKnows ==
  ASSUME TypeOK, TypeOK', Known, \A c \in Calls : Lasting(c), NEW p \in Procs, Crash(p)
  PROVE Known'
<1> USE DEF storeVars, ledgerVars, historyVars
<1>1. ASSUME NEW r \in Requests PROVE JobKnows(job[r])'
  <2>1. job'[r] = job[r] \/ job'[r] = IdleJob
    BY DEF Crash
  <2> QED
    BY <2>1, StillKnown DEF JobKnows, IdleJob
<1>2. ASSUME NEW w \in Workers PROVE PermitKnows(worker[w])'
  <2>1. worker'[w] = worker[w] \/ worker'[w] = IdleWorker
    BY DEF Crash
  <2> QED
    BY <2>1, StillKnown DEF PermitKnows, IdleWorker
<1>3. ASSUME NEW q \in Procs PROVE PassKnows(loop[q])'
  <2>1. loop'[q] = loop[q] \/ loop'[q] = Asleep
    BY DEF Crash, TypeOK
  <2> QED
    BY <2>1, StillKnown DEF PassKnows, Asleep, Between
<1>4. ASSUME NEW q \in Procs, NEW c \in Calls PROVE pending'[q][c] <= pending[q][c]
  <2>1. pending[q][c] \in Nat /\ pending'[q][c] \in {0, pending[q][c]}
    BY DEF Crash, TypeOK
  <2> QED
    BY <2>1
<1>5. UNCHANGED inbox
  BY DEF Crash
<1> QED
  BY <1>1, <1>2, <1>3, <1>4, <1>5, StillKnown
     DEF Known, JobsKnow, PermitsKnow, QueuesKnow, PassesKnow, ClientsKnow

\* Nothing is known at the start, and nothing has to be.
LEMMA InitKnown == Init => Known
<1> SUFFICES ASSUME Init PROVE Known
  OBVIOUS
<1>1. JobsKnow /\ PermitsKnow
  BY DEF Init, JobsKnow, JobKnows, PermitsKnow, PermitKnows, IdleJob, IdleWorker
<1>2. QueuesKnow /\ PassesKnow /\ ClientsKnow
  BY DEF Init, QueuesKnow, PassesKnow, PassKnows, ClientsKnow, Asleep, Between
<1> QED
  BY <1>1, <1>2 DEF Known

\* Every step keeps the invariant, with the types.
LEMMA NextKnown == TypeOK /\ TypeOK' /\ Known /\ [Next]_vars => Known'
<1> SUFFICES ASSUME TypeOK, TypeOK', Known, [Next]_vars PROVE Known'
  OBVIOUS
<1>0. \A c \in Calls : Lasting(c)
  BY Lasts
<1>1. CASE EngineStep \/ UNCHANGED vars
  <2>1. UNCHANGED <<job, worker, pending, loop, inbox>>
    BY <1>1 DEF EngineStep, EngineRings, EngineEnds, EngineTranscribes, vars, historyVars
  <2> QED
    BY <1>0, <2>1, StillKnown
       DEF Known, JobsKnow, PermitsKnow, QueuesKnow, PassesKnow, ClientsKnow, TypeOK
<1>2. ASSUME NEW r \in Requests, ClientStep(r) \/ RequestStep(r) PROVE Known'
  BY <1>0, <1>2, BeginKnows, RequestKnows
<1>3. ASSUME NEW w \in Workers, WorkerStep(w) PROVE Known'
  BY <1>0, <1>3, WorkerKnows
<1>4. ASSUME NEW w \in Workers, NEW c \in Calls, StartTask(w, c) PROVE Known'
  BY <1>0, <1>4, StartKnows
<1>5. ASSUME NEW p \in Procs, LoopStep(p) \/ Crash(p) PROVE Known'
  BY <1>0, <1>5, LoopKnows, CrashKnows
<1> QED
  BY <1>1, <1>2, <1>3, <1>4, <1>5 DEF Next

\* What is known of a call, at every place its completion can stand, is true.
LEMMA AlwaysKnown == Spec => []Known
<1>1. Spec => []TypeOK
  BY TypeCorrect
<1> QED
  BY <1>1, InitKnown, NextKnown, PTL DEF Spec

-----------------------------------------------------------------------------
(* What the client is sent.                                                *)

\* An outcome of a call is in its client's inbox or under a permit that sends
\* it, and there it is explained.
LEMMA OutcomesExplained ==
  ASSUME Known, NEW c \in Calls, NEW o \in OutcomesOf(c)
  PROVE Explained(c, o)
<1>1. CASE o \in InFlight(c)
  <2>1. PICK w \in Workers : /\ worker[w].pc = "send" /\ worker[w].call = c
                             /\ o = worker[w].payload
    BY <1>1 DEF InFlight, Holders
  <2> QED
    BY <2>1 DEF Known, PermitsKnow, PermitKnows
<1>2. CASE o \in {inbox[c]} \ {NoOutcome}
  BY <1>2 DEF Known, ClientsKnow
<1> QED
  BY <1>1, <1>2 DEF OutcomesOf

\* No client is sent an outcome without an analysis, unless an analysis of the
\* call has failed: whatever completions, reports and analyses requested by hand
\* interleave, and in whatever process they crash.
THEOREM OutcomesAnalysed == Spec => []OutcomeAnalysed
<1>1. Known => OutcomeAnalysed
  BY OutcomesExplained DEF OutcomeAnalysed, Explained
<1> QED
  BY <1>1, AlwaysKnown, PTL

\* No client is sent the outcome of a call that has not ended, unless a late
\* report had taken its end back.
THEOREM OutcomesTerminal == Spec => []OutcomeTerminal
<1>1. Known => OutcomeTerminal
  BY OutcomesExplained DEF OutcomeTerminal, Explained
<1> QED
  BY <1>1, AlwaysKnown, PTL

=============================================================================
