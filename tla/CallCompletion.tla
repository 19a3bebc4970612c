--------------------------- MODULE CallCompletion ---------------------------
(***************************************************************************)
(* Completion of voice calls: how a finished call is noticed, analysed and *)
(* reported to the client's webhook.                                       *)
(*                                                                         *)
(* Several operating-system processes run the service (Dockerfile starts   *)
(* uvicorn with two workers).  They share one database and nothing else.   *)
(* In each process request handlers ingest execution reports of the voice  *)
(* engine, background tasks complete finished calls under a semaphore, and *)
(* a periodic loop polls open calls and recovers calls that were never     *)
(* reported.  A step here is a database transaction or an external         *)
(* exchange; between two steps of one handler anything else may happen.    *)
(*                                                                         *)
(* Every call row exists from the start: placement and the first upsert    *)
(* of a batch member only add a row whose status is open.                  *)
(***************************************************************************)
EXTENDS Naturals, FiniteSets

CONSTANTS
  Calls,        \* call rows, numbered in the order of created_at
  BatchCalls,   \* the calls that belong to a batch
  Subscribed,   \* the calls whose client has a webhook_url
  Recent,       \* the calls younger than _LOOKBACK
  Procs,        \* operating-system processes
  Requests,     \* slots for requests being handled
  Workers,      \* permits of the completion semaphores
  HostOf,       \* the process a request slot or a permit belongs to
  PassLimit,    \* _MAX_CALLS_PER_PASS
  MaxIngests,   \* bound: requests that may be started
  MaxFaults,    \* bound: failed deliveries, engine errors and exceptions
  MaxOutages,   \* bound: analyses the model fails to make
  MaxCrashes    \* bound: process crashes

ASSUME CallsAssumption == Calls \subseteq Nat /\ IsFiniteSet(Calls)
ASSUME SubsetAssumption == 
  /\ BatchCalls \subseteq Calls
  /\ Subscribed \subseteq Calls
  /\ Recent \subseteq Calls
ASSUME HostAssumption == /\ HostOf \in [Requests \cup Workers -> Procs]
                         /\ IsFiniteSet(Workers)
ASSUME BoundAssumption == /\ PassLimit \in Nat \ {0}
                          /\ MaxIngests \in Nat
                          /\ MaxFaults \in Nat
                          /\ MaxOutages \in Nat
                          /\ MaxCrashes \in Nat

-----------------------------------------------------------------------------
(* What the voice engine may report of a call.  "queued" is the status a   *)
(* row is created with, "ongoing" stands for the other statuses that are   *)
(* not terminal, "unreached" for every status of NOT_CONNECTED_STATUSES.   *)
(* A transcript comes with a completed call, at once or later.             *)

Terminal == {"completed", "unreached"}
Open == {"queued", "ongoing"}
Status == Terminal \cup Open

Placed == [status |-> "queued", transcript |-> FALSE]
Ringing == [status |-> "ongoing", transcript |-> FALSE]
Ended == [status |-> "completed", transcript |-> FALSE]
Transcribed == [status |-> "completed", transcript |-> TRUE]
Missed == [status |-> "unreached", transcript |-> FALSE]
Execution == {Placed, Ringing, Ended, Transcribed, Missed}

\* What the engine can have sent so far, in any order and any number of times.
Reported(e) == {Placed, e} \cup (IF e = Placed THEN {} ELSE {Ringing})
                           \cup (IF e = Transcribed THEN {Ended} ELSE {})

Row == [status : Status, transcript : BOOLEAN, notified : BOOLEAN]
Analysis == {"none", "guess", "llm"}
Outcome == [status : Status, analysis : Analysis]
NoOutcome == [status |-> "none", analysis |-> "none"]

-----------------------------------------------------------------------------
VARIABLES
  engine,     \* the voice engine's own record of each call
  row,        \* calls: status, transcript present, notified_at set
  analysis,   \* call_analysis: none, a guess from the status, or the model's
  job,        \* requests being handled
  worker,     \* completions under a permit
  pending,    \* background tasks of each process waiting for a permit
  loop,       \* each process's periodic pass
  spent,      \* how much of the bounds is used
  inbox,      \* the last outcome each call's client received
  settled,    \* claims acknowledged by the client, or with nothing to deliver
  lost,       \* claims whose holder died before it acknowledged or released
  wasted,     \* releases that found the call unclaimed
  reopened,   \* claims undone because the analysis was about to be corrected
  analysisFailed, \* an analysis has failed, by the model or by an exception
  regressed   \* a terminal status was overwritten by an open one

storeVars == <<row, analysis>>
ledgerVars == <<settled, lost, wasted, reopened>>
historyVars == <<inbox, analysisFailed, regressed>>
vars == <<engine, row, analysis, job, worker, pending, loop, spent, inbox,
          settled, lost, wasted, reopened, analysisFailed, regressed>>

-----------------------------------------------------------------------------
IdleJob == [pc |-> "idle"]
IngestJob == [pc : {"write"}, call : Calls, kind : {"webhook", "batch", "poll", "stop"},
              seen : Status, got : Execution]
RerunJob == [pc : {"rerun"}, call : Calls]
SaveJob == [pc : {"save"}, call : Calls, found : Analysis]
Job == {IdleJob} \cup IngestJob \cup RerunJob \cup SaveJob

IdleWorker == [pc |-> "idle"]
Source == {"task", "loop"}
PlainStep == [pc : {"load", "claim", "release"}, call : Calls, src : Source]
InspectStep == [pc : {"inspect"}, call : Calls, src : Source, seen : Row]
ThinkStep == [pc : {"think"}, call : Calls, src : Source, mode : {"guess", "llm"},
              upgrade : BOOLEAN, clears : BOOLEAN]
PersistStep == [pc : {"persist"}, call : Calls, src : Source, mode : {"guess", "llm"},
                upgrade : BOOLEAN, clears : BOOLEAN, found : Analysis]
SendStep == [pc : {"send"}, call : Calls, src : Source, payload : Outcome]
WorkerState == {IdleWorker} \cup PlainStep \cup InspectStep \cup ThinkStep
                 \cup PersistStep \cup SendStep

LoopState == [pc : {"sleep", "poll", "finish", "recover"}, todo : SUBSET Calls,
              seen : [Calls -> Open \cup {"another"}], got : [Calls -> Execution]]
Between(pc, todo) == [pc |-> pc, todo |-> todo,
                      seen |-> [c \in Calls |-> "queued"], got |-> [c \in Calls |-> Placed]]
Asleep == Between("sleep", {})

TypeOK ==
  /\ engine \in [Calls -> Execution]
  /\ row \in [Calls -> Row]
  /\ analysis \in [Calls -> Analysis]
  /\ job \in [Requests -> Job]
  /\ worker \in [Workers -> WorkerState]
  /\ pending \in [Procs -> [Calls -> Nat]]
  /\ loop \in [Procs -> LoopState]
  /\ spent \in [ingests : Nat, faults : Nat, outages : Nat, crashes : Nat]
  /\ inbox \in [Calls -> Outcome \cup {NoOutcome}]
  /\ settled \in [Calls -> Nat]
  /\ lost \in [Calls -> Nat]
  /\ wasted \in [Calls -> Nat]
  /\ reopened \in [Calls -> Nat]
  /\ analysisFailed \in [Calls -> BOOLEAN]
  /\ regressed \in [Calls -> BOOLEAN]

Init ==
  /\ engine = [c \in Calls |-> Placed]
  /\ row = [c \in Calls |-> [status |-> "queued", transcript |-> FALSE, notified |-> FALSE]]
  /\ analysis = [c \in Calls |-> "none"]
  /\ job = [r \in Requests |-> IdleJob]
  /\ worker = [w \in Workers |-> IdleWorker]
  /\ pending = [p \in Procs |-> [c \in Calls |-> 0]]
  /\ loop = [p \in Procs |-> Asleep]
  /\ spent = [ingests |-> 0, faults |-> 0, outages |-> 0, crashes |-> 0]
  /\ inbox = [c \in Calls |-> NoOutcome]
  /\ settled = [c \in Calls |-> 0]
  /\ lost = [c \in Calls |-> 0]
  /\ wasted = [c \in Calls |-> 0]
  /\ reopened = [c \in Calls |-> 0]
  /\ analysisFailed = [c \in Calls |-> FALSE]
  /\ regressed = [c \in Calls |-> FALSE]

-----------------------------------------------------------------------------
(* Shared operators.                                                       *)

\* The first PassLimit calls of a set in the order of created_at, and its oldest.
Oldest(S) == {c \in S : Cardinality({d \in S : d < c}) < PassLimit}
IsFirst(c, S) == c \in S /\ \A d \in S : c <= d

Fault == /\ spent.faults < MaxFaults
         /\ spent' = [spent EXCEPT !.faults = @ + 1]

\* What assigning an execution's fields to a row loaded with status `seen`
\* writes: the ORM emits the columns that differ from the loaded ones only,
\* and a payload without a transcript does not touch the transcript.  A report of
\* another open status than the loaded one is written too, over whatever the
\* row has become.
Ingested(c, seen, e) ==
  [row[c] EXCEPT !.status = IF e.status = seen THEN @ ELSE e.status,
                 !.transcript = @ \/ e.transcript]

\* "ongoing" stands for several statuses: the one that was loaded may be the one
\* that is reported, or "another".
SeenAs(seen) == IF seen = "ongoing" THEN {"ongoing", "another"} ELSE {seen}

\* sync_execution's flag: this update made the call terminal, judged by the
\* status the handler loaded.
JustFinished(seen, e) == e.status \in Terminal /\ seen \notin Terminal

Regresses(c) == \/ regressed[c]
                \/ row[c].status \in Terminal /\ row'[c].status \notin Terminal

Ingest(c, seen, e) ==
  /\ row' = [row EXCEPT ![c] = Ingested(c, seen, e)]
  /\ regressed' = [regressed EXCEPT ![c] = Regresses(c)]

\* What saving an analysis of kind `mode` leaves in the row when the ORM had
\* loaded `found`: an insert that meets another's row is rolled back (unique
\* call_id), an update writes model_used only if it differs.
Saved(found, mode, current) ==
  IF found = "none"
    THEN IF current = "none" THEN mode ELSE current
    ELSE IF found = mode THEN current ELSE mode

Holders(c) == {w \in Workers : worker[w].pc \in {"send", "release"}
                               /\ worker[w].call = c}

-----------------------------------------------------------------------------
(* The voice engine: a call proceeds and ends, its transcript may be late. *)

EngineRings(c) ==
  /\ engine[c] = Placed
  /\ engine' = [engine EXCEPT ![c] = Ringing]
  /\ UNCHANGED <<storeVars, job, worker, pending, loop, spent, ledgerVars, historyVars>>

EngineEnds(c) ==
  /\ engine[c].status \in Open
  /\ \E e \in {Ended, Transcribed, Missed} : engine' = [engine EXCEPT ![c] = e]
  /\ UNCHANGED <<storeVars, job, worker, pending, loop, spent, ledgerVars, historyVars>>

EngineTranscribes(c) ==
  /\ engine[c] = Ended
  /\ engine' = [engine EXCEPT ![c] = Transcribed]
  /\ UNCHANGED <<storeVars, job, worker, pending, loop, spent, ledgerVars, historyVars>>

-----------------------------------------------------------------------------
(* Requests that ingest a report.  Each loads the row, and writes it back  *)
(* in a later step.                                                        *)

StartRequest(r, j) ==
  /\ job[r].pc = "idle"
  /\ spent.ingests < MaxIngests
  /\ spent' = [spent EXCEPT !.ingests = @ + 1]
  /\ job' = [job EXCEPT ![r] = j]
  /\ UNCHANGED <<engine, storeVars, worker, pending, loop, ledgerVars, historyVars>>

Loaded(c, kind, e) ==
  [pc |-> "write", call |-> c, kind |-> kind, seen |-> row[c].status, got |-> e]

\* POST /webhooks/voice with an execution payload.
ReceiveWebhook(r, c) ==
  \E e \in Reported(engine[c]) : StartRequest(r, Loaded(c, "webhook", e))

\* One execution of sync_batch_executions (batch webhook or GET executions):
\* fetched before the row is loaded.
SyncBatchMember(r, c) ==
  /\ c \in BatchCalls
  /\ \E e \in Reported(engine[c]) : StartRequest(r, Loaded(c, "batch", e))

\* GET /v1/calls/{id} of an open call: the row is loaded, then the engine asked.
PollCall(r, c) ==
  /\ row[c].status \notin Terminal
  /\ StartRequest(r, Loaded(c, "poll", Placed))

\* POST /v1/calls/{id}/stop: the engine answers with a terminal status.
StopCall(r, c) == StartRequest(r, Loaded(c, "stop", Missed))

\* The report a request writes: a poll takes the engine's state of now.
Report(j) == IF j.kind = "poll" THEN engine[j.call] ELSE j.got

\* Mutant: the batch sync completes its calls before they have ended.
QueuesOpen(j, e) == j.kind = "batch" \/ JustFinished(j.seen, e)

\* Every kind queues a completion when the call just finished; the batch sync
\* queues one for every terminal call.
Queues(j, e) == IF j.kind = "batch" THEN e.status \in Terminal
                ELSE JustFinished(j.seen, e)

Queue(p, c) == pending' = [pending EXCEPT ![p][c] = @ + 1]

\* Flush and commit; the completion is queued after the commit.
WriteReport(r) ==
  /\ job[r].pc = "write"
  /\ LET j == job[r]
         e == Report(j)
     IN /\ \E seen \in SeenAs(j.seen) : Ingest(j.call, seen, e)
        /\ IF Queues(j, e) THEN Queue(HostOf[r], j.call) ELSE UNCHANGED pending
  /\ job' = [job EXCEPT ![r] = IdleJob]
  /\ UNCHANGED <<engine, analysis, worker, loop, spent, ledgerVars, inbox, analysisFailed>>

\* The engine answers a poll with an error: the stored row is served.
PollFails(r) ==
  /\ job[r].pc = "write" /\ job[r].kind = "poll"
  /\ Fault
  /\ job' = [job EXCEPT ![r] = IdleJob]
  /\ UNCHANGED <<engine, storeVars, worker, pending, loop, ledgerVars, historyVars>>

\* POST /v1/calls/{id}/analyze, tenant or admin: analyses a transcript again
\* and leaves notified_at alone.
RequestAnalysis(r, c) ==
  /\ row[c].transcript
  /\ StartRequest(r, [pc |-> "rerun", call |-> c])

RerunAnswered(r) ==
  /\ job[r].pc = "rerun"
  /\ job' = [job EXCEPT ![r] = [pc |-> "save", call |-> job[r].call,
                                found |-> analysis[job[r].call]]]
  /\ UNCHANGED <<engine, storeVars, worker, pending, loop, spent, ledgerVars, historyVars>>

RerunSaves(r) ==
  /\ job[r].pc = "save"
  /\ analysis' = [analysis EXCEPT ![job[r].call] = Saved(job[r].found, "llm", @)]
  /\ job' = [job EXCEPT ![r] = IdleJob]
  /\ UNCHANGED <<engine, row, worker, pending, loop, spent, ledgerVars, historyVars>>

\* The model fails or no key is configured: 503, nothing is written.
RerunFails(r) ==
  /\ job[r].pc = "rerun"
  /\ job' = [job EXCEPT ![r] = IdleJob]
  /\ UNCHANGED <<engine, storeVars, worker, pending, loop, spent, ledgerVars, historyVars>>

-----------------------------------------------------------------------------
(* complete_call, first half: run_analysis_for_call.                       *)

Goto(w, state) == worker' = [worker EXCEPT ![w] = state]
Plain(pc, c, src) == [pc |-> pc, call |-> c, src |-> src]
ToClaim(w) == Goto(w, Plain("claim", worker[w].call, worker[w].src))

\* Mutant: a permit starts a completion nobody queued.
StartTaskTwice(w, c) ==
  /\ worker[w] = IdleWorker
  /\ pending' = [pending EXCEPT ![HostOf[w]][c] = @ - 1]
  /\ Goto(w, Plain("load", c, "task"))
  /\ UNCHANGED <<engine, storeVars, job, loop, spent, ledgerVars, historyVars>>

\* A queued completion gets a permit of its process.
StartTask(w, c) ==
  /\ worker[w] = IdleWorker
  /\ pending[HostOf[w]][c] > 0
  /\ pending' = [pending EXCEPT ![HostOf[w]][c] = @ - 1]
  /\ Goto(w, Plain("load", c, "task"))
  /\ UNCHANGED <<engine, storeVars, job, loop, spent, ledgerVars, historyVars>>

LoadCall(w) ==
  /\ worker[w].pc = "load"
  /\ Goto(w, [pc |-> "inspect", call |-> worker[w].call, src |-> worker[w].src,
              seen |-> row[worker[w].call]])
  /\ UNCHANGED <<engine, storeVars, job, pending, loop, spent, ledgerVars, historyVars>>

Readable(seen) == seen.status = "completed" /\ seen.transcript

\* Only a status-only guess may be replaced, once the transcript is there.
Upgrading(w) == analysis[worker[w].call] = "guess" /\ Readable(worker[w].seen)

\* Mutant: without a transcript there is nothing to analyse.
KeepAnalysisUnread(w) ==
  /\ worker[w].pc = "inspect"
  /\ ~Readable(worker[w].seen)
  /\ ToClaim(w)
  /\ UNCHANGED <<engine, storeVars, job, pending, loop, spent, ledgerVars, historyVars>>

\* An analysis exists and is not to be replaced.
KeepAnalysis(w) ==
  /\ worker[w].pc = "inspect"
  /\ analysis[worker[w].call] # "none"
  /\ ~Upgrading(w)
  /\ ToClaim(w)
  /\ UNCHANGED <<engine, storeVars, job, pending, loop, spent, ledgerVars, historyVars>>

\* Otherwise the model reads the transcript, or the status is classified.  The
\* upgrade will clear notified_at only if it was set when the row was loaded.
BeginAnalysis(w) ==
  /\ worker[w].pc = "inspect"
  /\ analysis[worker[w].call] = "none" \/ Upgrading(w)
  /\ Goto(w, [pc |-> "think", call |-> worker[w].call, src |-> worker[w].src,
              mode |-> IF Readable(worker[w].seen) THEN "llm" ELSE "guess",
              upgrade |-> Upgrading(w),
              clears |-> Upgrading(w) /\ worker[w].seen.notified])
  /\ UNCHANGED <<engine, storeVars, job, pending, loop, spent, ledgerVars, historyVars>>

\* The analysis is looked up again before it is written.  An upgrade finds the
\* object its session already holds.
LookUp(w) ==
  /\ worker[w].pc = "think"
  /\ LET v == worker[w]
     IN Goto(w, [pc |-> "persist", call |-> v.call, src |-> v.src, mode |-> v.mode,
                 upgrade |-> v.upgrade, clears |-> v.clears,
                 found |-> IF v.upgrade THEN "guess" ELSE analysis[v.call]])
  /\ UNCHANGED <<engine, storeVars, job, pending, loop, spent, ledgerVars, historyVars>>

\* call.notified_at = None, committed with the analysis.
Clear(c, clears) ==
  IF clears
    THEN /\ row' = [row EXCEPT ![c].notified = FALSE]
         /\ reopened' = [reopened EXCEPT ![c] = IF row[c].notified THEN @ + 1 ELSE @]
    ELSE UNCHANGED <<row, reopened>>

Persist(w) ==
  /\ worker[w].pc = "persist"
  /\ LET v == worker[w]
     IN /\ analysis' = [analysis EXCEPT ![v.call] = Saved(v.found, v.mode, @)]
        /\ Clear(v.call, v.clears)
  /\ ToClaim(w)
  /\ UNCHANGED <<engine, job, pending, loop, spent, settled, lost, wasted, historyVars>>

\* Every attempt failed, or there is no key: analyze_call returns None, and an
\* upgrade clears notified_at all the same.
ModelFails(w) ==
  /\ worker[w].pc = "think" /\ worker[w].mode = "llm"
  /\ spent.outages < MaxOutages
  /\ spent' = [spent EXCEPT !.outages = @ + 1]
  /\ Clear(worker[w].call, worker[w].clears)
  /\ analysisFailed' = [analysisFailed EXCEPT ![worker[w].call] = TRUE]
  /\ ToClaim(w)
  /\ UNCHANGED <<engine, analysis, job, pending, loop, settled, lost, wasted, inbox,
                 regressed>>

\* An exception anywhere in run_analysis_for_call is swallowed: nothing of it is
\* committed, and the completion goes on.
AnalysisRaises(w) ==
  /\ worker[w].pc \in {"load", "inspect", "think", "persist"}
  /\ Fault
  /\ analysisFailed' = [analysisFailed EXCEPT ![worker[w].call] = TRUE]
  /\ ToClaim(w)
  /\ UNCHANGED <<engine, storeVars, job, pending, loop, ledgerVars, inbox, regressed>>

-----------------------------------------------------------------------------
(* complete_call, second half: claim, deliver, release.                    *)

\* Mutant: the UPDATE is not conditional.
ClaimAlways(w) ==
  /\ worker[w].pc = "claim"
  /\ LET c == worker[w].call
     IN /\ row' = [row EXCEPT ![c].notified = TRUE]
        /\ Goto(w, [pc |-> "send", call |-> c, src |-> worker[w].src,
                    payload |-> [status |-> row[c].status, analysis |-> analysis[c]]])
  /\ UNCHANGED <<engine, analysis, job, pending, loop, spent, ledgerVars, historyVars>>

\* The conditional UPDATE, the read of the row and its analysis, and the
\* commit.  A client without webhook keeps the claim and hears nothing.
Claim(w) ==
  /\ worker[w].pc = "claim"
  /\ LET c == worker[w].call
     IN /\ ~row[c].notified
        /\ row' = [row EXCEPT ![c].notified = TRUE]
        /\ IF c \in Subscribed
             THEN /\ Goto(w, [pc |-> "send", call |-> c, src |-> worker[w].src,
                              payload |-> [status |-> row[c].status,
                                           analysis |-> analysis[c]]])
                  /\ UNCHANGED settled
             ELSE /\ Goto(w, IdleWorker)
                  /\ settled' = [settled EXCEPT ![c] = @ + 1]
  /\ UNCHANGED <<engine, analysis, job, pending, loop, spent, lost, wasted, reopened,
                 historyVars>>

\* Another path owns the notification.
ClaimRefused(w) ==
  /\ worker[w].pc = "claim"
  /\ row[worker[w].call].notified
  /\ Goto(w, IdleWorker)
  /\ UNCHANGED <<engine, storeVars, job, pending, loop, spent, ledgerVars, historyVars>>

\* Mutant: a delivery that succeeded releases the claim.
DeliverThenRelease(w) ==
  /\ worker[w].pc = "send"
  /\ LET c == worker[w].call
     IN /\ inbox' = [inbox EXCEPT ![c] = worker[w].payload]
        /\ settled' = [settled EXCEPT ![c] = @ + 1]
        /\ Goto(w, Plain("release", c, worker[w].src))
  /\ UNCHANGED <<engine, storeVars, job, pending, loop, spent, lost, wasted, reopened,
                 analysisFailed, regressed>>

\* The client answers 2xx.
Deliver(w) ==
  /\ worker[w].pc = "send"
  /\ LET c == worker[w].call
     IN /\ inbox' = [inbox EXCEPT ![c] = worker[w].payload]
        /\ settled' = [settled EXCEPT ![c] = @ + 1]
  /\ Goto(w, IdleWorker)
  /\ UNCHANGED <<engine, storeVars, job, pending, loop, spent, lost, wasted, reopened,
                 analysisFailed, regressed>>

\* An HTTP error or a timeout; after a timeout the client may have the outcome.
DeliveryFails(w) ==
  /\ worker[w].pc = "send"
  /\ Fault
  /\ LET c == worker[w].call
     IN /\ inbox' \in {inbox, [inbox EXCEPT ![c] = worker[w].payload]}
        /\ Goto(w, Plain("release", c, worker[w].src))
  /\ UNCHANGED <<engine, storeVars, job, pending, loop, ledgerVars, analysisFailed, regressed>>

\* Mutant: a failed delivery keeps its claim.
KeepClaim(w) ==
  /\ worker[w].pc = "release"
  /\ Goto(w, IdleWorker)
  /\ UNCHANGED <<engine, storeVars, job, pending, loop, spent, ledgerVars, historyVars>>

\* The release does not ask whether the claim is still the releaser's.
Release(w) ==
  /\ worker[w].pc = "release"
  /\ LET c == worker[w].call
     IN /\ row' = [row EXCEPT ![c].notified = FALSE]
        /\ wasted' = [wasted EXCEPT ![c] = IF row[c].notified THEN @ ELSE @ + 1]
  /\ Goto(w, IdleWorker)
  /\ UNCHANGED <<engine, analysis, job, pending, loop, spent, settled, lost, reopened,
                 historyVars>>

\* An exception outside run_analysis_for_call (the database, or an error of the
\* HTTP client that is not an HTTPError) ends the completion, and with it the
\* pass that awaits it, or the tasks queued behind it by the same request.
CompletionRaises(w) ==
  /\ worker[w].pc \in {"claim", "send", "release"}
  /\ Fault
  /\ LET c == worker[w].call
     IN lost' = [lost EXCEPT ![c] = IF w \in Holders(c) THEN @ + 1 ELSE @]
  /\ IF worker[w].src = "loop"
       THEN /\ loop' = [loop EXCEPT ![HostOf[w]] = Asleep]
            /\ UNCHANGED pending
       ELSE /\ \E dropped \in SUBSET Calls :
                 pending' = [pending EXCEPT ![HostOf[w]] =
                   [c \in Calls |-> IF c \in dropped THEN 0 ELSE pending[HostOf[w]][c]]]
            /\ UNCHANGED loop
  /\ Goto(w, IdleWorker)
  /\ UNCHANGED <<engine, storeVars, job, settled, wasted, reopened, historyVars>>

-----------------------------------------------------------------------------
(* The periodic pass of a process: sync_open_single_calls, then            *)
(* recover_unnotified_calls.                                               *)

OpenSingles == {c \in Recent \ BatchCalls : row[c].status \notin Terminal}

\* Mutant: the recovery leaves the calls of batches to the batch sync.
UnnotifiedSingles == {c \in Recent \ BatchCalls : row[c].status \in Terminal
                                                 /\ ~row[c].notified}
Unnotified == {c \in Recent : row[c].status \in Terminal /\ ~row[c].notified}

Awaiting(p) == \E w \in Workers : /\ HostOf[w] = p
                                  /\ worker[w] # IdleWorker
                                  /\ worker[w].src = "loop"

\* A call that is not selected, or not fetched, will be written as it was loaded.
SelectOpen(p) ==
  /\ loop[p].pc = "sleep"
  /\ LET open == Oldest(OpenSingles)
         seen == [c \in Calls |-> IF c \in open THEN row[c].status ELSE "queued"]
     IN loop' = [loop EXCEPT
          ![p] = [pc |-> "poll", todo |-> open, seen |-> seen,
                  got |-> [c \in Calls |-> [status |-> seen[c], transcript |-> FALSE]]]]
  /\ UNCHANGED <<engine, storeVars, job, worker, pending, spent, ledgerVars, historyVars>>

\* The execution is fetched and flushed under a savepoint of the pass's
\* transaction: from then on the row is locked, its new state is not visible.
RefreshOpen(p) ==
  /\ loop[p].pc = "poll"
  /\ \E c \in Calls : /\ IsFirst(c, loop[p].todo)
                      /\ \E seen \in SeenAs(loop[p].seen[c]) :
                            loop' = [loop EXCEPT
                              ![p].todo = @ \ {c},
                              ![p].seen = [@ EXCEPT ![c] = seen],
                              ![p].got = [@ EXCEPT ![c] = engine[c]]]
  /\ UNCHANGED <<engine, storeVars, job, worker, pending, spent, ledgerVars, historyVars>>

\* The engine answers with an error, or the execution is malformed.
SkipOpen(p) ==
  /\ loop[p].pc = "poll"
  /\ Fault
  /\ \E c \in Calls : /\ IsFirst(c, loop[p].todo)
                      /\ loop' = [loop EXCEPT ![p].todo = @ \ {c}]
  /\ UNCHANGED <<engine, storeVars, job, worker, pending, ledgerVars, historyVars>>

\* One commit for the whole pass, over the statuses loaded when it selected.
CommitOpen(p) ==
  /\ loop[p].pc = "poll" /\ loop[p].todo = {}
  /\ LET seen == loop[p].seen
         got == loop[p].got
     IN /\ row' = [c \in Calls |-> Ingested(c, seen[c], got[c])]
        /\ regressed' = [c \in Calls |-> Regresses(c)]
        /\ loop' = [loop EXCEPT
             ![p] = Between("finish", {c \in Calls : JustFinished(seen[c], got[c])})]
  /\ UNCHANGED <<engine, analysis, job, worker, pending, spent, ledgerVars, inbox,
                 analysisFailed>>

\* The pass completes its calls one after the other, each under a permit.
CompleteNext(p, w) ==
  /\ loop[p].pc \in {"finish", "recover"}
  /\ ~Awaiting(p)
  /\ HostOf[w] = p /\ worker[w] = IdleWorker
  /\ \E c \in Calls : /\ IsFirst(c, loop[p].todo)
                      /\ Goto(w, Plain("load", c, "loop"))
                      /\ loop' = [loop EXCEPT ![p].todo = @ \ {c}]
  /\ UNCHANGED <<engine, storeVars, job, pending, spent, ledgerVars, historyVars>>

SelectUnnotified(p) ==
  /\ loop[p].pc = "finish" /\ loop[p].todo = {} /\ ~Awaiting(p)
  /\ loop' = [loop EXCEPT ![p] = Between("recover", Oldest(Unnotified))]
  /\ UNCHANGED <<engine, storeVars, job, worker, pending, spent, ledgerVars, historyVars>>

EndPass(p) ==
  /\ loop[p].pc = "recover" /\ loop[p].todo = {} /\ ~Awaiting(p)
  /\ loop' = [loop EXCEPT ![p] = Asleep]
  /\ UNCHANGED <<engine, storeVars, job, worker, pending, spent, ledgerVars, historyVars>>

-----------------------------------------------------------------------------
\* A process dies and is started again: its requests, queued and running
\* completions and its pass are gone.
Crash(p) ==
  /\ spent.crashes < MaxCrashes
  /\ spent' = [spent EXCEPT !.crashes = @ + 1]
  /\ job' = [r \in Requests |-> IF HostOf[r] = p THEN IdleJob ELSE job[r]]
  /\ worker' = [w \in Workers |-> IF HostOf[w] = p THEN IdleWorker ELSE worker[w]]
  /\ pending' = [pending EXCEPT ![p] = [c \in Calls |-> 0]]
  /\ loop' = [loop EXCEPT ![p] = Asleep]
  /\ lost' = [c \in Calls |-> lost[c] + Cardinality({w \in Holders(c) : HostOf[w] = p})]
  /\ UNCHANGED <<engine, storeVars, settled, wasted, reopened, historyVars>>

-----------------------------------------------------------------------------
EngineStep == \E c \in Calls : EngineRings(c) \/ EngineEnds(c) \/ EngineTranscribes(c)

ClientStep(r) ==
  \E c \in Calls : \/ ReceiveWebhook(r, c)
                   \/ SyncBatchMember(r, c)
                   \/ PollCall(r, c)
                   \/ StopCall(r, c)
                   \/ RequestAnalysis(r, c)

RequestStep(r) ==
  \/ WriteReport(r)
  \/ PollFails(r)
  \/ RerunAnswered(r)
  \/ RerunSaves(r)
  \/ RerunFails(r)

WorkerStep(w) ==
  \/ LoadCall(w)
  \/ KeepAnalysis(w)
  \/ BeginAnalysis(w)
  \/ LookUp(w)
  \/ Persist(w)
  \/ ModelFails(w)
  \/ AnalysisRaises(w)
  \/ Claim(w)
  \/ ClaimRefused(w)
  \/ Deliver(w)
  \/ DeliveryFails(w)
  \/ Release(w)
  \/ CompletionRaises(w)

LoopStep(p) ==
  \/ SelectOpen(p)
  \/ RefreshOpen(p)
  \/ SkipOpen(p)
  \/ CommitOpen(p)
  \/ SelectUnnotified(p)
  \/ EndPass(p)
  \/ \E w \in Workers : CompleteNext(p, w)

Next ==
  \/ EngineStep
  \/ \E r \in Requests : ClientStep(r) \/ RequestStep(r)
  \/ \E w \in Workers : WorkerStep(w)
  \/ \E w \in Workers, c \in Calls : StartTask(w, c)
  \/ \E p \in Procs : LoopStep(p) \/ Crash(p)

Spec == Init /\ [][Next]_vars

\* What the service itself goes on doing: a started request ends, a queued
\* completion gets its permit, a completion proceeds, the pass comes round.
\* Nothing is assumed of the engine, of the clients and of crashes.
Fairness ==
  /\ \A r \in Requests : WF_vars(RequestStep(r))
  /\ \A w \in Workers : WF_vars(WorkerStep(w))
  /\ \A w \in Workers : WF_vars(\E c \in Calls : StartTask(w, c))
  /\ \A p \in Procs : WF_vars(LoopStep(p))

FairSpec == Spec /\ Fairness

-----------------------------------------------------------------------------
(* Safety.                                                                 *)

Free(c) == IF row[c].notified THEN 0 ELSE 1

\* Every opening of a call - the initial one and each one made by clearing
\* notified_at for a better analysis - is accounted for: it is still unclaimed,
\* or its claim is held, was settled, was lost with its holder, or was spent by
\* a release that found nothing to release.  Claims are neither duplicated nor
\* dropped by any interleaving of the completions of all processes.
ClaimsConserved ==
  \A c \in Calls :
    settled[c] + lost[c] + wasted[c] + Cardinality(Holders(c)) + Free(c)
      = 1 + reopened[c]

\* What the claims of calls implement: the ledger of claims, in which a call is
\* opened once to begin with.  Every step of every process takes, settles, hands
\* back, reopens or loses claims in the one way the ledger allows, or touches none.
Ledger == INSTANCE ClaimLedger WITH
  Items <- Calls,
  free <- [c \in Calls |-> Free(c)],
  held <- [c \in Calls |-> Cardinality(Holders(c))],
  openings <- [c \in Calls |-> 1 + reopened[c]]

ImplementsLedger == Ledger!LedgerSpec

\* A client acknowledges at most one delivery per opening of the call; in
\* particular exactly-once holds of a call whose analysis is never corrected.
SettledOncePerOpening == \A c \in Calls : settled[c] <= 1 + reopened[c]

\* The outcomes a client has received or is being sent.
InFlight(c) == {worker[w].payload : w \in {v \in Holders(c) : worker[v].pc = "send"}}
OutcomesOf(c) == InFlight(c) \cup ({inbox[c]} \ {NoOutcome})

\* An outcome goes out without an analysis only if classification could not run.
OutcomeAnalysed ==
  \A c \in Calls : \A o \in OutcomesOf(c) : o.analysis = "none" => analysisFailed[c]

\* An outcome goes out for a call that has ended, unless a late report, or a stale
\* write of one open status over another, took its terminal status back after its
\* completion had been queued.
OutcomeTerminal ==
  \A c \in Calls : \A o \in OutcomesOf(c) : o.status \in Open => regressed[c]

-----------------------------------------------------------------------------
(* Claims of the repository's own documentation.                           *)

\* call_sync.py:80-82: a crash before delivery leaves the claim unset.  So a
\* claim is always delivered or on its way.
CrashLeavesClaimUnset ==
  \A c \in Subscribed :
    row[c].notified => settled[c] > 0 \/ Holders(c) # {}

\* batch_sync.py:57-59: completing a call again is a no-op, it is forwarded
\* once.  So a delivery that is acknowledged tells the client something new.
ForwardedOnce ==
  [][\A c \in Subscribed : settled'[c] > settled[c] => inbox'[c] # inbox[c]]_vars

\* analysis.py:784-785: when the model's analysis replaces a guess, the
\* corrected outcome is claimed and sent again.  So the replacement leaves the
\* call unclaimed.
UpgradeReopens ==
  [][\A w \in Workers :
       /\ worker[w].pc = "persist" /\ worker[w].upgrade
       /\ worker'[w].pc = "claim"
       /\ analysis'[worker[w].call] # analysis[worker[w].call]
       => ~row'[worker[w].call].notified]_vars

-----------------------------------------------------------------------------
(* Liveness.                                                               *)

\* A single call that has ended at the engine is reported to its client, or its
\* claim died with a holder: without any webhook, through refused permits,
\* failed deliveries and crashes.
SingleCallReported ==
  \A c \in Recent \ BatchCalls :
    engine[c].status \in Terminal ~> settled[c] + lost[c] > 0

\* Any recent call whose row has become terminal is reported, unless a late
\* report opens the row again.
FinishedCallReported ==
  \A c \in Recent :
    row[c].status \in Terminal ~> settled[c] + lost[c] > 0 \/ row[c].status \in Open

=============================================================================
