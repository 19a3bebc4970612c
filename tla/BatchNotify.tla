---------------------------- MODULE BatchNotify -----------------------------
(***************************************************************************)
(* Lifecycle notifications of a calling batch: how a change of its status  *)
(* reaches the client's webhook.                                           *)
(*                                                                         *)
(* Requests load the batch row, talk to the voice engine and write the row *)
(* back at the end; a change is announced by a task that carries the       *)
(* status as it was when the task was queued.  The task claims the row     *)
(* through notified_at before it sends.  A periodic pass of each process   *)
(* announces again what is unclaimed.                                      *)
(***************************************************************************)
EXTENDS Naturals, FiniteSets

CONSTANTS
  Batches,      \* batch rows, numbered in the order of created_at
  Subscribed,   \* the batches whose client has a webhook_url
  Procs,        \* operating-system processes
  Requests,     \* slots for requests being handled
  Resenders,    \* slots of _BATCH_RECOVERY_CONCURRENCY
  HostOf,       \* the process a request or a resender belongs to
  PassLimit,    \* _MAX_BATCHES_PER_PASS
  MaxRequests,  \* bound: requests that may be started
  MaxFaults,    \* bound: failed deliveries and engine errors
  MaxCrashes    \* bound: process crashes

ASSUME BatchAssumption == /\ Batches \subseteq Nat /\ IsFiniteSet(Batches)
                          /\ Subscribed \subseteq Batches
ASSUME HostAssumption == /\ HostOf \in [Requests \cup Resenders -> Procs]
                         /\ IsFiniteSet(Requests \cup Resenders)
                         /\ Requests \cap Resenders = {}
ASSUME BoundAssumption == /\ PassLimit \in Nat \ {0}
                          /\ MaxRequests \in Nat
                          /\ MaxFaults \in Nat
                          /\ MaxCrashes \in Nat

-----------------------------------------------------------------------------
(* "running" stands for every status in between, "completed" for every     *)
(* terminal one a batch reaches by itself.                                 *)

EngineStatus == {"created", "scheduled", "running", "completed", "stopped"}
Status == EngineStatus \cup {"deleted"}
BatchTerminal == {"completed", "stopped"}

Row == [status : Status, notified : BOOLEAN]
Kind == {"webhook", "refresh", "schedule", "stop", "delete"}

\* A background task runs in the context of its request, a resend in the pass.
Notifiers == Requests \cup Resenders

VARIABLES
  engine,     \* the voice engine's status of each batch
  reported,   \* the statuses its webhooks may carry: those it has been in
  batch,      \* batches: status, notified_at set
  job,        \* requests being handled
  notifier,   \* notify_batch_status in progress
  loop,       \* batches the recovery pass of each process still has to resend
  spent,      \* how much of the bounds is used
  told,       \* the last status the client learnt, by a response or an event
  opened,     \* notified_at cleared for a new status
  settled,    \* claims acknowledged by the client, or with nothing to deliver
  lost,       \* claims whose holder died
  wasted,     \* releases that found the batch unclaimed
  raced       \* the row changed between a load or a notification and its use

ledgerVars == <<opened, settled, lost, wasted>>
vars == <<engine, reported, batch, job, notifier, loop, spent, told, opened, settled,
          lost, wasted, raced>>

IdleJob == [pc |-> "idle"]
BusyJob == [pc : {"ask", "write", "commit"}, batch : Batches, kind : Kind, seen : Row,
            new : Status]
IdleNotifier == [pc |-> "idle"]
BusyNotifier == [pc : {"claim", "send", "release"}, batch : Batches, event : Status]

TypeOK ==
  /\ engine \in [Batches -> EngineStatus]
  /\ reported \in [Batches -> SUBSET EngineStatus]
  /\ batch \in [Batches -> Row]
  /\ job \in [Requests -> {IdleJob} \cup BusyJob]
  /\ notifier \in [Notifiers -> {IdleNotifier} \cup BusyNotifier]
  /\ loop \in [Procs -> SUBSET Batches]
  /\ spent \in [requests : Nat, faults : Nat, crashes : Nat]
  /\ told \in [Batches -> Status]
  /\ opened \in [Batches -> Nat]
  /\ settled \in [Batches -> Nat]
  /\ lost \in [Batches -> Nat]
  /\ wasted \in [Batches -> Nat]
  /\ raced \in [Batches -> BOOLEAN]

\* record_batch: the answer to the creating request carries the first status,
\* so the row starts as notified.
Init ==
  /\ engine = [b \in Batches |-> "created"]
  /\ reported = [b \in Batches |-> {"created"}]
  /\ batch = [b \in Batches |-> [status |-> "created", notified |-> TRUE]]
  /\ job = [r \in Requests |-> IdleJob]
  /\ notifier = [s \in Notifiers |-> IdleNotifier]
  /\ loop = [p \in Procs |-> {}]
  /\ spent = [requests |-> 0, faults |-> 0, crashes |-> 0]
  /\ told = [b \in Batches |-> "created"]
  /\ opened = [b \in Batches |-> 0]
  /\ settled = [b \in Batches |-> 0]
  /\ lost = [b \in Batches |-> 0]
  /\ wasted = [b \in Batches |-> 0]
  /\ raced = [b \in Batches |-> FALSE]

Fault == /\ spent.faults < MaxFaults
         /\ spent' = [spent EXCEPT !.faults = @ + 1]

Holders(b) == {s \in Notifiers : notifier[s].pc \in {"send", "release"} /\ notifier[s].batch = b}

-----------------------------------------------------------------------------
(* The voice engine.                                                       *)

EngineMoves(b, e) ==
  /\ engine' = [engine EXCEPT ![b] = e]
  /\ reported' = [reported EXCEPT ![b] = @ \cup {e}]

EngineRuns(b) ==
  /\ engine[b] \in {"created", "scheduled"}
  /\ EngineMoves(b, "running")
  /\ UNCHANGED <<batch, job, notifier, loop, spent, told, ledgerVars, raced>>

EngineCompletes(b) ==
  /\ engine[b] = "running"
  /\ EngineMoves(b, "completed")
  /\ UNCHANGED <<batch, job, notifier, loop, spent, told, ledgerVars, raced>>

-----------------------------------------------------------------------------
(* Requests: load the row, ask the engine, write the row back.             *)

StartRequest(r, b, kind, pc, new) ==
  /\ job[r].pc = "idle" /\ notifier[r] = IdleNotifier
  /\ spent.requests < MaxRequests
  /\ spent' = [spent EXCEPT !.requests = @ + 1]
  /\ job' = [job EXCEPT ![r] = [pc |-> pc, batch |-> b, kind |-> kind,
                                seen |-> batch[b], new |-> new]]
  /\ UNCHANGED <<engine, reported, batch, notifier, loop, told, ledgerVars, raced>>

\* POST /webhooks/voice with a batch payload; a terminal one also fetches the
\* executions before the row is written.
ReceiveWebhook(r, b) == \E e \in reported[b] : StartRequest(r, b, "webhook", "write", e)

\* GET /v1/batches/{id} asks the engine only while the stored status is live.
RefreshBatch(r, b) ==
  /\ batch[b].status \notin {"completed", "stopped", "deleted"}
  /\ StartRequest(r, b, "refresh", "ask", batch[b].status)

ScheduleBatch(r, b) == StartRequest(r, b, "schedule", "ask", "scheduled")
StopBatch(r, b) == StartRequest(r, b, "stop", "ask", "stopped")
DeleteBatch(r, b) == StartRequest(r, b, "delete", "ask", "deleted")

Answered(r, e) == job' = [job EXCEPT ![r].pc = "write", ![r].new = e]

\* The engine answers.  It refuses to schedule a batch that has started and to
\* stop one that has ended (RequestFails).
EngineAnswers(r) ==
  /\ job[r].pc = "ask"
  /\ LET b == job[r].batch
     IN \/ /\ job[r].kind = "refresh"
           /\ Answered(r, engine[b])
           /\ UNCHANGED <<engine, reported>>
        \/ /\ job[r].kind = "schedule" /\ engine[b] \in {"created", "scheduled"}
           /\ Answered(r, "scheduled")
           /\ EngineMoves(b, "scheduled")
        \/ /\ job[r].kind = "stop" /\ engine[b] \notin BatchTerminal
           /\ Answered(r, "stopped")
           /\ EngineMoves(b, "stopped")
        \/ /\ job[r].kind = "delete"
           /\ Answered(r, "deleted")
           /\ UNCHANGED <<engine, reported>>
  /\ UNCHANGED <<batch, notifier, loop, spent, told, ledgerVars, raced>>

\* The engine's error ends the request; nothing is written, no task is run.  A
\* refresh answers with the row it loaded.
RequestFails(r) ==
  /\ \/ job[r].pc = "ask"
     \/ job[r].pc = "write" /\ job[r].kind = "webhook" /\ job[r].new \in BatchTerminal
  /\ Fault
  /\ LET j == job[r]
     IN IF j.kind = "refresh"
          THEN /\ told' = [told EXCEPT ![j.batch] = j.seen.status]
               /\ raced' = [raced EXCEPT ![j.batch] = @ \/ batch[j.batch].status # j.seen.status]
          ELSE UNCHANGED <<told, raced>>
  /\ job' = [job EXCEPT ![r] = IdleJob]
  /\ UNCHANGED <<engine, reported, batch, notifier, loop, ledgerVars>>

\* The new status asks for a notification.
Announces(j) == \/ j.kind = "webhook" /\ j.new # j.seen.status
                \/ j.kind = "stop"

\* Mutant: a new status leaves notified_at as it is.
WriteStatusOnly(j) ==
  /\ batch' = [batch EXCEPT ![j.batch].status = IF j.new = j.seen.status THEN @ ELSE j.new]
  /\ raced' = [raced EXCEPT ![j.batch] = @ \/ batch[j.batch].status # j.seen.status]
  /\ told' = IF j.kind = "webhook" THEN told ELSE [told EXCEPT ![j.batch] = j.new]
  /\ UNCHANGED opened

\* The columns that differ from the loaded row: the status, and notified_at if
\* it was set when it was loaded.  The response carries the new status.
WriteBack(j) ==
  LET b == j.batch
      clears == Announces(j) /\ j.seen.notified
      stale == \/ batch[b].status # j.seen.status
               \/ Announces(j) /\ batch[b].notified /\ ~j.seen.notified
  IN /\ batch' = [batch EXCEPT
          ![b].status = IF j.new = j.seen.status THEN @ ELSE j.new,
          ![b].notified = @ /\ ~clears]
     /\ opened' = [opened EXCEPT ![b] = IF clears /\ batch[b].notified THEN @ + 1 ELSE @]
     /\ raced' = [raced EXCEPT ![b] = @ \/ stale]
     /\ told' = IF j.kind = "webhook" THEN told ELSE [told EXCEPT ![b] = j.new]

Goto(n, state) == notifier' = [notifier EXCEPT ![n] = state]

\* Mutant: the event carries the status as the engine spells it.
RawNotification(b, event) == [pc |-> "claim", batch |-> b, event |-> "raw"]

\* The task that will announce the status the request has in memory.
Notification(b, event) == [pc |-> "claim", batch |-> b, event |-> event]

\* Commit, then run the task.
CommitAndAnnounce(r) ==
  /\ job[r].pc = "write" /\ Announces(job[r])
  /\ WriteBack(job[r])
  /\ Goto(r, Notification(job[r].batch, job[r].new))
  /\ job' = [job EXCEPT ![r] = IdleJob]
  /\ UNCHANGED <<engine, reported, loop, spent, settled, lost, wasted>>

\* stop_batch leaves the commit to the session dependency, which recent
\* FastAPI versions close after the background tasks have run.
AnnounceFirst(r) ==
  /\ job[r].pc = "write" /\ job[r].kind = "stop"
  /\ Goto(r, Notification(job[r].batch, job[r].new))
  /\ job' = [job EXCEPT ![r].pc = "commit"]
  /\ UNCHANGED <<engine, reported, batch, loop, spent, told, ledgerVars, raced>>

\* Nothing to announce, or the task has run.
CommitOnly(r) ==
  /\ \/ job[r].pc = "write" /\ ~Announces(job[r])
     \/ job[r].pc = "commit" /\ notifier[r] = IdleNotifier
  /\ WriteBack(job[r])
  /\ job' = [job EXCEPT ![r] = IdleJob]
  /\ UNCHANGED <<engine, reported, notifier, loop, spent, settled, lost, wasted>>

-----------------------------------------------------------------------------
(* notify_batch_status: claim, deliver, release.                           *)

Outdated(n) == notifier[n].event # batch[notifier[n].batch].status

\* Mutant: the UPDATE is not conditional.
ClaimAlways(n) ==
  /\ notifier[n].pc = "claim"
  /\ LET b == notifier[n].batch
     IN /\ batch' = [batch EXCEPT ![b].notified = TRUE]
        /\ raced' = [raced EXCEPT ![b] = @ \/ Outdated(n)]
  /\ Goto(n, [notifier[n] EXCEPT !.pc = "send"])
  /\ UNCHANGED <<engine, reported, job, loop, spent, told, ledgerVars>>

\* The conditional UPDATE looks at notified_at only, not at the status that is
\* announced.  A client without webhook keeps the claim and hears nothing.
Claim(n) ==
  /\ notifier[n].pc = "claim"
  /\ LET b == notifier[n].batch
     IN /\ ~batch[b].notified
        /\ batch' = [batch EXCEPT ![b].notified = TRUE]
        /\ raced' = [raced EXCEPT ![b] = @ \/ Outdated(n)]
        /\ IF b \in Subscribed
             THEN /\ Goto(n, [notifier[n] EXCEPT !.pc = "send"])
                  /\ UNCHANGED settled
             ELSE /\ Goto(n, IdleNotifier)
                  /\ settled' = [settled EXCEPT ![b] = @ + 1]
  /\ UNCHANGED <<engine, reported, job, loop, spent, told, opened, lost, wasted>>

\* Another notification owns the row.
ClaimRefused(n) ==
  /\ notifier[n].pc = "claim"
  /\ batch[notifier[n].batch].notified
  /\ Goto(n, IdleNotifier)
  /\ UNCHANGED <<engine, reported, batch, job, loop, spent, told, ledgerVars, raced>>

\* The client learns what the notification carries.
Tell(n) ==
  LET b == notifier[n].batch
  IN /\ told' = [told EXCEPT ![b] = notifier[n].event]
     /\ raced' = [raced EXCEPT ![b] = @ \/ Outdated(n)]

\* Mutant: a delivery that succeeded releases the claim.
DeliverThenRelease(n) ==
  /\ notifier[n].pc = "send"
  /\ Tell(n)
  /\ settled' = [settled EXCEPT ![notifier[n].batch] = @ + 1]
  /\ Goto(n, [notifier[n] EXCEPT !.pc = "release"])
  /\ UNCHANGED <<engine, reported, batch, job, loop, spent, opened, lost, wasted>>

\* The client answers 2xx.
Deliver(n) ==
  /\ notifier[n].pc = "send"
  /\ Tell(n)
  /\ settled' = [settled EXCEPT ![notifier[n].batch] = @ + 1]
  /\ Goto(n, IdleNotifier)
  /\ UNCHANGED <<engine, reported, batch, job, loop, spent, opened, lost, wasted>>

\* An HTTP error or a timeout; after a timeout the client may have the event.
DeliveryFails(n) ==
  /\ notifier[n].pc = "send"
  /\ Fault
  /\ Tell(n) \/ UNCHANGED <<told, raced>>
  /\ Goto(n, [notifier[n] EXCEPT !.pc = "release"])
  /\ UNCHANGED <<engine, reported, batch, job, loop, ledgerVars>>

\* The release does not ask whether the claim is still the releaser's.
Release(n) ==
  /\ notifier[n].pc = "release"
  /\ LET b == notifier[n].batch
     IN /\ batch' = [batch EXCEPT ![b].notified = FALSE]
        /\ wasted' = [wasted EXCEPT ![b] = IF batch[b].notified THEN @ ELSE @ + 1]
  /\ Goto(n, IdleNotifier)
  /\ UNCHANGED <<engine, reported, job, loop, spent, told, opened, settled, lost, raced>>

\* The database fails, or the HTTP client with an error that is no HTTPError:
\* the notification ends where it is.
NotificationRaises(n) ==
  /\ notifier[n].pc \in {"claim", "send", "release"}
  /\ Fault
  /\ LET b == notifier[n].batch
     IN lost' = [lost EXCEPT ![b] = IF n \in Holders(b) THEN @ + 1 ELSE @]
  /\ Goto(n, IdleNotifier)
  /\ UNCHANGED <<engine, reported, batch, job, loop, told, opened, settled, wasted, raced>>

-----------------------------------------------------------------------------
(* The pass of a process: recover_unnotified_batches.                      *)

\* Mutant: a batch that has ended is not resent.
UnnotifiedLive == {b \in Batches : ~batch[b].notified /\ batch[b].status \notin BatchTerminal}

Unnotified == {b \in Batches : ~batch[b].notified}
Oldest(S) == {b \in S : Cardinality({d \in S : d < b}) < PassLimit}

Resending(p) == \E n \in Resenders : HostOf[n] = p /\ notifier[n] # IdleNotifier

SelectUnnotified(p) ==
  /\ loop[p] = {} /\ ~Resending(p)
  /\ Unnotified # {}
  /\ loop' = [loop EXCEPT ![p] = Oldest(Unnotified)]
  /\ UNCHANGED <<engine, reported, batch, job, notifier, spent, told, ledgerVars, raced>>

\* The event is built from the row as it is now, the claim follows later.
ResendBatch(p, n) ==
  /\ HostOf[n] = p /\ notifier[n] = IdleNotifier
  /\ \E b \in loop[p] :
       /\ Goto(n, Notification(b, batch[b].status))
       /\ loop' = [loop EXCEPT ![p] = @ \ {b}]
  /\ UNCHANGED <<engine, reported, batch, job, spent, told, ledgerVars, raced>>

\* A process dies and is started again.
Crash(p) ==
  /\ spent.crashes < MaxCrashes
  /\ spent' = [spent EXCEPT !.crashes = @ + 1]
  /\ job' = [r \in Requests |-> IF HostOf[r] = p THEN IdleJob ELSE job[r]]
  /\ notifier' = [n \in Notifiers |-> IF HostOf[n] = p THEN IdleNotifier ELSE notifier[n]]
  /\ loop' = [loop EXCEPT ![p] = {}]
  /\ lost' = [b \in Batches |-> lost[b] + Cardinality({n \in Holders(b) : HostOf[n] = p})]
  /\ UNCHANGED <<engine, reported, batch, told, opened, settled, wasted, raced>>

-----------------------------------------------------------------------------
ClientStep(r) ==
  \E b \in Batches : \/ ReceiveWebhook(r, b)
                     \/ RefreshBatch(r, b)
                     \/ ScheduleBatch(r, b)
                     \/ StopBatch(r, b)
                     \/ DeleteBatch(r, b)

RequestStep(r) ==
  \/ EngineAnswers(r)
  \/ RequestFails(r)
  \/ CommitAndAnnounce(r)
  \/ AnnounceFirst(r)
  \/ CommitOnly(r)

NotifierStep(n) ==
  \/ Claim(n)
  \/ ClaimRefused(n)
  \/ Deliver(n)
  \/ DeliveryFails(n)
  \/ Release(n)
  \/ NotificationRaises(n)

LoopStep(p) == SelectUnnotified(p) \/ \E n \in Resenders : ResendBatch(p, n)

Next ==
  \/ \E b \in Batches : EngineRuns(b) \/ EngineCompletes(b)
  \/ \E r \in Requests : ClientStep(r) \/ RequestStep(r)
  \/ \E n \in Notifiers : NotifierStep(n)
  \/ \E p \in Procs : LoopStep(p) \/ Crash(p)

Spec == Init /\ [][Next]_vars

\* Requests and notifications that have begun go on, the pass comes round.
\* Nothing is assumed of the engine, of the clients and of crashes.
Fairness ==
  /\ \A r \in Requests : WF_vars(RequestStep(r))
  /\ \A n \in Notifiers : WF_vars(NotifierStep(n))
  /\ \A p \in Procs : WF_vars(LoopStep(p))

FairSpec == Spec /\ Fairness

-----------------------------------------------------------------------------
Free(b) == IF batch[b].notified THEN 0 ELSE 1

\* Every time notified_at is cleared for a new status one claim comes into
\* being, and it is unclaimed, held, settled, lost with its holder or spent by
\* a release that found nothing to release: no interleaving of webhooks, stops,
\* resends and failed deliveries notifies a batch more often than it changed.
ClaimsConserved ==
  \A b \in Batches :
    settled[b] + lost[b] + wasted[b] + Cardinality(Holders(b)) + Free(b) = opened[b]

\* What the claims of batches implement: the same ledger of claims, in which a
\* batch is opened by every new status that is announced.
Ledger == INSTANCE ClaimLedger WITH
  Items <- Batches,
  free <- [b \in Batches |-> Free(b)],
  held <- [b \in Batches |-> Cardinality(Holders(b))],
  openings <- opened

ImplementsLedger == Ledger!LedgerSpec

\* Nothing that concerns the batch is under way.
Quiet(b) == /\ \A r \in Requests : job[r] # IdleJob => job[r].batch # b
            /\ \A n \in Notifiers : notifier[n] # IdleNotifier => notifier[n].batch # b

\* The three windows recorded in `raced` are the only ones: a request that
\* writes over a row changed since it loaded it, a claim and a delivery for a
\* status the row no longer has.  Outside them, and unless a claim died with
\* its holder, a quiet row that is marked as notified has the very status its
\* client was last told, whatever failed, was retried or came twice.
ToldUnlessRaced ==
  \A b \in Subscribed :
    Quiet(b) /\ batch[b].notified /\ ~raced[b] /\ lost[b] = 0
      => told[b] = batch[b].status


\* In the end the client of every batch knows the final status, with the same
\* two exceptions: the recovery pass outlives refused and failed deliveries,
\* crashes and the batches ahead in its limited selection.
FinalStatusTold ==
  \A b \in Subscribed :
    <>[](told[b] = batch[b].status \/ raced[b] \/ lost[b] > 0)

=============================================================================
