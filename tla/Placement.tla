------------------------------ MODULE Placement ------------------------------
(***************************************************************************)
(* Placing calls and batches with the voice engine, and the rows that say  *)
(* whose they are.                                                         *)
(*                                                                         *)
(* A request checks that the agent is enabled and the caller's variables   *)
(* are complete, has the engine place the call or create the batch, and    *)
(* records it.  The engine then dials and reports executions; a webhook    *)
(* knows no tenant and finds the owner through the call's or the batch's   *)
(* row, a reconciliation lists the executions of one recorded batch page   *)
(* by page.  What a report does to a row that exists is not repeated here, *)
(* see CallCompletion and BatchNotify.                                     *)
(***************************************************************************)
EXTENDS Catalog, FiniteSetsExt

CONSTANTS
  Execs,        \* executions of the engine, in the order it lists them
  Batches,      \* voice_batch_id values
  Requests,     \* slots for placement requests
  Handlers,     \* slots for webhooks and reconciliations
  HostOf,       \* the process of a request, handler, operator or loop
  PageSize,     \* _EXECUTIONS_PAGE_SIZE
  MaxPages,     \* _EXECUTIONS_MAX_PAGES
  Vars,         \* variables a caller may provide
  Prompt,       \* for each agent, the variables its prompt refers to
  System,       \* SYSTEM_VARIABLES
  FileOptional, \* for each agent, the optional ones of agent_variables_file
  ClientOptional, \* the same in variable_overrides, for each client and agent
  None          \* no client, no batch

ASSUME ExecsAssumption == Execs \subseteq Nat
ASSUME PageAssumption == PageSize \in Nat \ {0} /\ MaxPages \in Nat \ {0}
ASSUME VariablesAssumption ==
  /\ Prompt \in [Agents -> SUBSET Vars]
  /\ System \subseteq Vars
  /\ FileOptional \in [Agents -> SUBSET Vars]
  /\ ClientOptional \in [Clients -> [Agents -> SUBSET Vars]]
ASSUME NoneAssumption == None \notin Clients \cup Batches
\* Calls and batches have separate endpoints: an identifier is one of either.
ASSUME IdsAssumption == Execs \cap Batches = {}

VARIABLES
  dialled,    \* executions of the engine: whose, and of which batch
  created,    \* batches of the engine: whose
  finished,   \* batches the engine has finished
  batchRow,   \* batches: the client of each recorded voice_batch_id
  rows,       \* calls: client and batch of each recorded voice_call_id
  request,    \* placement requests
  handler,    \* webhooks and reconciliations
  asked,      \* requests that passed their checks
  orphaned,   \* single calls placed by a request that failed afterwards
  reconciled  \* finished batches listed to the end and saved

engineVars == <<dialled, created, finished>>
recordVars == <<batchRow, rows>>
placementVars == <<dialled, created, finished, batchRow, rows, request, handler,
                   asked, orphaned, reconciled>>
vars == <<placementVars, catalogVars>>

NotDialled == [client |-> None, batch |-> None]
Owner == [client : Clients, batch : Batches \cup {None}]
Row == [exec : Execs, client : Clients, batch : Batches \cup {None}]

Idle == [pc |-> "idle"]
Dispatch == [pc : {"dispatch"}, client : Clients, kind : {"call", "batch"}]
Record == [pc : {"record"}, client : Clients, kind : {"call", "batch"}, id : Execs \cup Batches]
Insert == [pc : {"insert"}, exec : Execs, client : Clients, batch : Batches]
Listing == [pc : {"list", "save"}, batch : Batches, got : SUBSET Execs, page : 0..MaxPages,
            full : BOOLEAN]

Singles == {e \in Execs : dialled[e].client # None /\ dialled[e].batch = None}
Members(b) == {e \in Execs : dialled[e].batch = b}
Recorded == {r.exec : r \in rows}

\* Every column has a value of its type; the owner of a row is never missing.
TypeOK ==
  /\ CatalogTypeOK
  /\ dialled \in [Execs -> Owner \cup {NotDialled}]
  /\ created \in [Batches -> Clients \cup {None}]
  /\ finished \subseteq Batches
  /\ batchRow \in [Batches -> Clients \cup {None}]
  /\ rows \subseteq Row
  /\ request \in [Requests -> {Idle} \cup Dispatch \cup Record]
  /\ handler \in [Handlers -> {Idle} \cup Insert \cup Listing]
  /\ asked \in Nat
  /\ orphaned \subseteq Execs
  /\ reconciled \subseteq Batches

Init ==
  /\ CatalogInit
  /\ dialled = [e \in Execs |-> NotDialled]
  /\ created = [b \in Batches |-> None]
  /\ finished = {}
  /\ batchRow = [b \in Batches |-> None]
  /\ rows = {}
  /\ request = [r \in Requests |-> Idle]
  /\ handler = [h \in Handlers |-> Idle]
  /\ asked = 0
  /\ orphaned = {}
  /\ reconciled = {}

-----------------------------------------------------------------------------
(* The contract of an agent's prompt: overrides of the client replace      *)
(* those of the file, and only a variable of the prompt can be optional.   *)

Optional(c, a) ==
  (IF config[c][a] # "none" /\ ClientOptional[c][a] # {}
   THEN ClientOptional[c][a] ELSE FileOptional[a])
    \cap (Prompt[a] \ System)

Required(c, a) == (Prompt[a] \ System) \ Optional(c, a)

\* A single call without any variable is not validated, an uploaded file never
\* is, and nothing is where the request or the settings turn validation off.
Validated(kind, provided, validate) == validate /\ ~(kind = "call" /\ provided = {})

Complete(c, a, provided) == Required(c, a) \subseteq provided

-----------------------------------------------------------------------------
(* A placement request.                                                    *)

StartPlacement(r, c, a, kind, provided, validate) ==
  /\ request[r] = Idle
  /\ Spend("calls")
  /\ Enabled(c, a)
  /\ Validated(kind, provided, validate) => Complete(c, a, provided)
  /\ request' = [request EXCEPT ![r] = [pc |-> "dispatch", client |-> c, kind |-> kind]]
  /\ asked' = asked + 1
  /\ UNCHANGED <<engineVars, recordVars, handler, orphaned, reconciled>>
  /\ UNCHANGED <<upstream, catalog, config, assigned, sync, edit, noted, slipped>>

\* Identifiers are given in order, so that listings are in order too.
NextExec(e) == dialled[e] = NotDialled /\ \A d \in Execs : d < e => dialled[d] # NotDialled

\* The engine accepts and knows a new execution or batch.
Accepts(r, id) ==
  LET c == request[r].client IN
    IF request[r].kind = "call"
    THEN /\ id \in Execs /\ NextExec(id)
         /\ dialled' = [dialled EXCEPT ![id] = [client |-> c, batch |-> None]]
         /\ UNCHANGED created
    ELSE /\ id \in Batches /\ created[id] = None
         /\ created' = [created EXCEPT ![id] = c]
         /\ UNCHANGED dialled

Place(r, id) ==
  /\ request[r].pc = "dispatch"
  /\ Accepts(r, id)
  /\ request' = [request EXCEPT ![r] = [pc |-> "record", client |-> request[r].client,
                                        kind |-> request[r].kind, id |-> id]]
  /\ UNCHANGED <<finished, recordVars, handler, asked, orphaned, reconciled, catalogVars>>

\* Mutant: a POST whose answer is lost is tried again, like a GET.
PlaceAgain(r, id) ==
  /\ request[r].pc = "dispatch"
  /\ Spend("faults")
  /\ Accepts(r, id)
  /\ orphaned' = orphaned \cup (Execs \cap {id})
  /\ UNCHANGED <<finished, recordVars, request, handler, asked, reconciled>>
  /\ UNCHANGED <<upstream, catalog, config, assigned, sync, edit, noted, slipped>>

\* The engine accepts, but its answer does not arrive or names no id.
PlaceUnanswered(r, id) ==
  /\ request[r].pc = "dispatch"
  /\ Spend("faults")
  /\ Accepts(r, id)
  /\ orphaned' = orphaned \cup (Execs \cap {id})
  /\ request' = [request EXCEPT ![r] = Idle]
  /\ UNCHANGED <<finished, recordVars, handler, asked, reconciled>>
  /\ UNCHANGED <<upstream, catalog, config, assigned, sync, edit, noted, slipped>>

\* The engine refuses, or cannot be reached.
PlaceRefused(r) ==
  /\ request[r].pc = "dispatch"
  /\ Spend("faults")
  /\ request' = [request EXCEPT ![r] = Idle]
  /\ UNCHANGED <<engineVars, recordVars, handler, asked, orphaned, reconciled>>
  /\ UNCHANGED <<upstream, catalog, config, assigned, sync, edit, noted, slipped>>

\* Mutant: the unique key leaves the execution out.
KeepByClient(e, c, b) == IF \E r \in rows : r.client = c THEN rows
                         ELSE rows \cup {[exec |-> e, client |-> c, batch |-> b]}

\* Insert or nothing on (client_id, voice_call_id).
Keep(e, c, b) == IF \E r \in rows : r.exec = e /\ r.client = c THEN rows
                 ELSE rows \cup {[exec |-> e, client |-> c, batch |-> b]}

RecordCall(r) ==
  /\ request[r].pc = "record" /\ request[r].kind = "call"
  /\ rows' = Keep(request[r].id, request[r].client, None)
  /\ request' = [request EXCEPT ![r] = Idle]
  /\ UNCHANGED <<engineVars, batchRow, handler, asked, orphaned, reconciled, catalogVars>>

RecordBatch(r) ==
  /\ request[r].pc = "record" /\ request[r].kind = "batch"
  /\ batchRow' = [batchRow EXCEPT ![request[r].id] = request[r].client]
  /\ request' = [request EXCEPT ![r] = Idle]
  /\ UNCHANGED <<engineVars, rows, handler, asked, orphaned, reconciled, catalogVars>>

\* The request is answered with an error, and nobody keeps the id.
RecordFails(r) ==
  /\ request[r].pc = "record"
  /\ Spend("faults")
  /\ orphaned' = orphaned \cup (Execs \cap {request[r].id})
  /\ request' = [request EXCEPT ![r] = Idle]
  /\ UNCHANGED <<engineVars, recordVars, handler, asked, reconciled>>
  /\ UNCHANGED <<upstream, catalog, config, assigned, sync, edit, noted, slipped>>

-----------------------------------------------------------------------------
(* The engine dials the members of a batch and finishes it.                *)

EngineDials(b, e) ==
  /\ created[b] # None /\ b \notin finished
  /\ NextExec(e)
  /\ dialled' = [dialled EXCEPT ![e] = [client |-> created[b], batch |-> b]]
  /\ UNCHANGED <<created, finished, recordVars, request, handler, asked, orphaned, reconciled, catalogVars>>

EngineFinishes(b) ==
  /\ created[b] # None /\ b \notin finished
  /\ finished' = finished \cup {b}
  /\ UNCHANGED <<dialled, created, recordVars, request, handler, asked, orphaned, reconciled, catalogVars>>

-----------------------------------------------------------------------------
(* A webhook reports an execution.                                         *)

Handles(h) == handler[h] = Idle /\ Spend("reports")

\* Mutant: the webhook of a batch that has no row yet is stored all the same.
WebhookUnowned(h, e) ==
  /\ Handles(h)
  /\ e \notin Recorded
  /\ dialled[e].batch # None
  /\ handler' = [handler EXCEPT ![h] = [pc |-> "insert", exec |-> e, batch |-> dialled[e].batch,
                                        client |-> batchRow[dialled[e].batch]]]
  /\ UNCHANGED <<engineVars, recordVars, request, asked, orphaned, reconciled>>
  /\ UNCHANGED <<upstream, catalog, config, assigned, sync, edit, noted, slipped>>

\* An execution without a row, attributed through the batch its payload names;
\* any other one is dropped, or updates its row.
Webhook(h, e) ==
  /\ Handles(h)
  /\ e \notin Recorded
  /\ dialled[e].batch # None
  /\ batchRow[dialled[e].batch] # None
  /\ handler' = [handler EXCEPT ![h] = [pc |-> "insert", exec |-> e, batch |-> dialled[e].batch,
                                        client |-> batchRow[dialled[e].batch]]]
  /\ UNCHANGED <<engineVars, recordVars, request, asked, orphaned, reconciled>>
  /\ UNCHANGED <<upstream, catalog, config, assigned, sync, edit, noted, slipped>>

InsertReported(h) ==
  /\ handler[h].pc = "insert"
  /\ rows' = Keep(handler[h].exec, handler[h].client, handler[h].batch)
  /\ handler' = [handler EXCEPT ![h] = Idle]
  /\ UNCHANGED <<engineVars, batchRow, request, asked, orphaned, reconciled, catalogVars>>

-----------------------------------------------------------------------------
(* A reconciliation: a client lists its batch, or the webhook of a batch   *)
(* that ended does.                                                        *)

Reconcile(h, b) ==
  /\ Handles(h)
  /\ batchRow[b] # None
  /\ handler' = [handler EXCEPT ![h] = [pc |-> "list", batch |-> b, got |-> {}, page |-> 0,
                                        full |-> FALSE]]
  /\ UNCHANGED <<engineVars, recordVars, request, asked, orphaned, reconciled>>
  /\ UNCHANGED <<upstream, catalog, config, assigned, sync, edit, noted, slipped>>

NextPage(rest) == {e \in rest : Cardinality({d \in rest : d < e}) < PageSize}

\* Mutant: has_more is ignored, the first page is taken for the whole list.
GetOnlyPage(h) ==
  /\ handler[h].pc = "list"
  /\ LET b == handler[h].batch IN
       handler' = [handler EXCEPT ![h].got = NextPage(Members(b)), ![h].page = @ + 1,
                                  ![h].pc = "save", ![h].full = b \in finished]
  /\ UNCHANGED <<engineVars, recordVars, request, asked, orphaned, reconciled, catalogVars>>

GetPage(h) ==
  /\ handler[h].pc = "list"
  /\ LET b == handler[h].batch
         rest == Members(b) \ handler[h].got
         hasMore == rest # NextPage(rest)
         last == handler[h].page + 1 = MaxPages IN
       handler' = [handler EXCEPT
         ![h].got = @ \cup NextPage(rest),
         ![h].page = @ + 1,
         ![h].pc = IF hasMore /\ ~last THEN "list" ELSE "save",
         ![h].full = ~hasMore /\ b \in finished]
  /\ UNCHANGED <<engineVars, recordVars, request, asked, orphaned, reconciled, catalogVars>>

\* A body that is no page ends the listing with what was read so far.
PageMalformed(h) ==
  /\ handler[h].pc = "list"
  /\ Spend("faults")
  /\ handler' = [handler EXCEPT ![h].pc = "save"]
  /\ UNCHANGED <<engineVars, recordVars, request, asked, orphaned, reconciled>>
  /\ UNCHANGED <<upstream, catalog, config, assigned, sync, edit, noted, slipped>>

\* The engine does not answer three times, or the transaction fails.
ReportFails(h) ==
  /\ handler[h].pc \in {"list", "save", "insert"}
  /\ Spend("faults")
  /\ handler' = [handler EXCEPT ![h] = Idle]
  /\ UNCHANGED <<engineVars, recordVars, request, asked, orphaned, reconciled>>
  /\ UNCHANGED <<upstream, catalog, config, assigned, sync, edit, noted, slipped>>

\* Mutant: an item is stored with the batch_id of its payload, which may be missing.
SaveAsNamed(h) ==
  /\ handler[h].pc = "save"
  /\ rows' = rows \cup {[exec |-> e, client |-> batchRow[handler[h].batch], batch |-> None] :
                          e \in handler[h].got \ Recorded}
  /\ handler' = [handler EXCEPT ![h] = Idle]
  /\ UNCHANGED <<engineVars, batchRow, request, asked, orphaned, reconciled, catalogVars>>

\* Each listed execution is saved under a savepoint of its own, as a member of
\* the batch even where its payload names none; a failing one is skipped.
SaveListed(h) ==
  /\ handler[h].pc = "save"
  /\ LET b == handler[h].batch
         c == batchRow[b] IN
       \E skipped \in {{}} \cup (IF left.faults > 0 THEN {{e} : e \in handler[h].got} ELSE {}) :
         /\ rows' = rows \cup {[exec |-> e, client |-> c, batch |-> b] :
                                 e \in handler[h].got \ (skipped \cup Recorded)}
         /\ reconciled' = IF handler[h].full /\ skipped = {} THEN reconciled \cup {b} ELSE reconciled
         /\ IF skipped = {} THEN UNCHANGED left ELSE Spend("faults")
  /\ handler' = [handler EXCEPT ![h] = Idle]
  /\ UNCHANGED <<engineVars, batchRow, request, asked, orphaned>>
  /\ UNCHANGED <<upstream, catalog, config, assigned, sync, edit, noted, slipped>>

-----------------------------------------------------------------------------
Crash(p) ==
  /\ Spend("faults")
  /\ orphaned' = orphaned \cup {e \in Singles :
       \E r \in Requests : HostOf[r] = p /\ request[r].pc = "record" /\ request[r].id = e}
  /\ request' = [r \in Requests |-> IF HostOf[r] = p THEN Idle ELSE request[r]]
  /\ handler' = [h \in Handlers |-> IF HostOf[h] = p THEN Idle ELSE handler[h]]
  /\ sync' = [s \in Syncers |-> IF HostOf[s] = p THEN NoSync ELSE sync[s]]
  /\ edit' = [o \in Operators |-> IF HostOf[o] = p THEN NoEdit ELSE edit[o]]
  /\ UNCHANGED <<engineVars, recordVars, asked, reconciled>>
  /\ UNCHANGED <<upstream, catalog, config, assigned, noted, slipped>>

PlacementStep ==
  \/ \E r \in Requests :
       \/ \E c \in Clients, a \in Agents, kind \in {"call", "batch"}, provided \in SUBSET Vars,
            validate \in BOOLEAN : StartPlacement(r, c, a, kind, provided, validate)
       \/ \E id \in Execs \cup Batches : Place(r, id) \/ PlaceUnanswered(r, id)
       \/ PlaceRefused(r) \/ RecordCall(r) \/ RecordBatch(r) \/ RecordFails(r)
  \/ \E b \in Batches : EngineFinishes(b) \/ \E e \in Execs : EngineDials(b, e)
  \/ \E h \in Handlers :
       \/ \E e \in Execs : Webhook(h, e)
       \/ \E b \in Batches : Reconcile(h, b)
       \/ InsertReported(h) \/ GetPage(h) \/ PageMalformed(h) \/ ReportFails(h) \/ SaveListed(h)

Next == \/ CatalogStep /\ UNCHANGED placementVars
        \/ PlacementStep
        \/ \E p \in Procs : Crash(p)

\* The sleep of a loop ends, and a synchronisation goes on to its end.
Fairness ==
  /\ \A p \in Procs : WF_vars(LoopLists(p) /\ UNCHANGED placementVars)
  /\ \A s \in Syncers : WF_vars(SyncStep(s) /\ UNCHANGED placementVars)

Spec == Init /\ [][Next]_vars
FairSpec == Spec /\ Fairness

-----------------------------------------------------------------------------
(* Properties.                                                             *)

\* Whoever inserts first, placement, webhook or reconciliation, and from what
\* it read before: a row names the client and the batch the engine placed the
\* execution for, and an execution has no second row under another key.
RowsAttributed ==
  /\ \A r \in rows : dialled[r.exec] = [client |-> r.client, batch |-> r.batch]
  /\ \A b \in Batches : batchRow[b] \in {None, created[b]}

\* A request places one call or batch at most: the engine never holds more of
\* them than requests passed their checks, those still to be sent included.
PlacedOnce ==
  Cardinality(Singles) + Cardinality({b \in Batches : created[b] # None})
    + Cardinality({r \in Requests : request[r].pc = "dispatch"}) <= asked

\* A single call the engine accepted is recorded, about to be recorded, or was
\* given up by a request that failed after the engine had accepted it.  No
\* report brings such a call back: its webhook names no batch.
CallsAccounted ==
  /\ Singles \subseteq Recorded \cup orphaned
       \cup {request[r].id : r \in {q \in Requests : request[q].pc = "record"}}
  /\ orphaned \cap Recorded = {}

\* A batch listed to its end after it finished has a row for every one of its
\* executions, whatever webhooks were dropped, late or failed.
ReconciledComplete == \A b \in reconciled : Members(b) \subseteq Recorded
==============================================================================
