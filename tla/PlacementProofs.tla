--------------------------- MODULE PlacementProofs ---------------------------
(***************************************************************************)
(* Proofs about Placement: that every row names the client and the batch   *)
(* the engine works for, that no request places twice, and that no call it *)
(* placed is lost without a trace.                                         *)
(*                                                                         *)
(* A request and a handler act on what they learned before: the identifier *)
(* the engine gave, the owner a webhook found, the pages a listing has     *)
(* read.  The invariant Owned says that each of them is still right when   *)
(* it is used, and that no call has two who will account for it.           *)
(***************************************************************************)
EXTENDS Placement, CatalogProofs, FiniteSetTheorems

-----------------------------------------------------------------------------
(* The inductive invariant.                                                *)

\* A member of a batch is dialled for the client who created the batch.
MembersOwned ==
  \A e \in Execs : dialled[e].batch # None => dialled[e].client = created[dialled[e].batch]

\* The identifier a request is about to record is its own: a call it placed,
\* which nobody has recorded or given up, or a batch it created.
OwnRequest(q) ==
  q.pc = "record" =>
    IF q.kind = "call"
    THEN /\ q.id \in Execs /\ dialled[q.id] = [client |-> q.client, batch |-> None]
         /\ q.id \notin Recorded \cup orphaned
    ELSE q.id \in Batches /\ created[q.id] = q.client

RequestsOwn == \A r \in Requests : OwnRequest(request[r])

\* No two requests are about to record the same identifier.
RequestsApart ==
  \A r, q \in Requests : r # q /\ request[r].pc = "record" /\ request[q].pc = "record"
                           => request[r].id # request[q].id

\* What a handler has read still holds: the owner of the execution, and the
\* members of a batch, which are all of them once the listing is full.
OwnHandler(x) ==
  /\ x.pc = "insert" => dialled[x.exec] = [client |-> x.client, batch |-> x.batch]
  /\ x.pc \in {"list", "save"} => batchRow[x.batch] # None /\ x.got \subseteq Members(x.batch)
  /\ x.pc = "list" => ~x.full /\ x.page < MaxPages
  /\ x.pc = "save" /\ x.full => x.batch \in finished /\ Members(x.batch) \subseteq x.got

HandlersOwn == \A h \in Handlers : OwnHandler(handler[h])

OrphansSingle == orphaned \subseteq Singles

ReconciledFinished == reconciled \subseteq finished

Owned ==
  /\ MembersOwned /\ RequestsOwn /\ RequestsApart /\ HandlersOwn /\ OrphansSingle
  /\ ReconciledFinished /\ RowsAttributed /\ CallsAccounted /\ ReconciledComplete

-----------------------------------------------------------------------------
(* The catalog while calls are placed.                                     *)

\* A step that leaves the catalog alone keeps its invariants.
LEMMA CatalogRests ==
  ASSUME CatalogTypeOK, DriftInv, left' \in Budget,
         UNCHANGED <<upstream, catalog, config, assigned, sync, edit, noted, slipped>>
  PROVE CatalogTypeOK' /\ DriftInv'
BY QuietDrift DEF CatalogTypeOK

\* Placing, recording and reporting do.
LEMMA PlacementRests ==
  ASSUME CatalogTypeOK, DriftInv, PlacementStep
  PROVE CatalogTypeOK' /\ DriftInv'
<1> USE DEF catalogVars
<1>0. left \in Budget
  BY DEF CatalogTypeOK
<1>1. ASSUME NEW r \in Requests, NEW c \in Clients, NEW a \in Agents,
             NEW kind \in {"call", "batch"}, NEW provided \in SUBSET Vars,
             NEW validate \in BOOLEAN, StartPlacement(r, c, a, kind, provided, validate)
      PROVE CatalogTypeOK' /\ DriftInv'
  BY <1>1, SpendType, CatalogRests DEF StartPlacement
<1>2. ASSUME NEW r \in Requests, NEW id \in Execs \cup Batches,
             Place(r, id) \/ PlaceUnanswered(r, id)
      PROVE CatalogTypeOK' /\ DriftInv'
  BY <1>0, <1>2, SpendType, CatalogRests DEF Place, PlaceUnanswered
<1>3. ASSUME NEW r \in Requests,
             PlaceRefused(r) \/ RecordCall(r) \/ RecordBatch(r) \/ RecordFails(r)
      PROVE CatalogTypeOK' /\ DriftInv'
  BY <1>0, <1>3, SpendType, CatalogRests DEF PlaceRefused, RecordCall, RecordBatch, RecordFails
<1>4. ASSUME NEW b \in Batches, EngineFinishes(b) \/ \E e \in Execs : EngineDials(b, e)
      PROVE CatalogTypeOK' /\ DriftInv'
  BY <1>0, <1>4, CatalogRests DEF EngineFinishes, EngineDials
<1>5. ASSUME NEW h \in Handlers,
             (\E e \in Execs : Webhook(h, e)) \/ (\E b \in Batches : Reconcile(h, b))
      PROVE CatalogTypeOK' /\ DriftInv'
  BY <1>5, SpendType, CatalogRests DEF Webhook, Reconcile, Handles
<1>6. ASSUME NEW h \in Handlers,
             InsertReported(h) \/ GetPage(h) \/ PageMalformed(h) \/ ReportFails(h)
      PROVE CatalogTypeOK' /\ DriftInv'
  BY <1>0, <1>6, SpendType, CatalogRests DEF InsertReported, GetPage, PageMalformed, ReportFails
<1>7. ASSUME NEW h \in Handlers, SaveListed(h) PROVE CatalogTypeOK' /\ DriftInv'
  <2>1. UNCHANGED left \/ Spend("faults")
    BY <1>7 DEF SaveListed
  <2> QED
    BY <1>0, <1>7, <2>1, SpendType, CatalogRests DEF SaveListed
<1> QED
  BY <1>1, <1>2, <1>3, <1>4, <1>5, <1>6, <1>7 DEF PlacementStep

\* Of a process that ends, every transaction is undone.
LEMMA CrashRests ==
  ASSUME CatalogTypeOK, DriftInv, NEW p \in Procs, Crash(p)
  PROVE CatalogTypeOK' /\ DriftInv'
<1>1. left' \in Budget
  BY SpendType DEF Crash
<1>2. /\ sync' \in [Syncers -> Sync]
      /\ \A s \in Syncers : sync'[s] = sync[s] \/ sync'[s] = NoSync
  BY NoSyncType DEF Crash, CatalogTypeOK
<1>3. edit' \in [Operators -> Edit \cup {NoEdit}]
  BY DEF Crash, CatalogTypeOK
<1>4. CatalogTypeOK'
  BY <1>1, <1>2, <1>3 DEF Crash, CatalogTypeOK
<1>5. DriftInv'
  BY <1>2, NoSyncFree, QuietDrift DEF Crash
<1> QED
  BY <1>4, <1>5

-----------------------------------------------------------------------------
(* Types.  A request that records a call has an identifier of a call only  *)
(* because it placed one: the types need Owned.                            *)

\* The part of TypeOK that is about this module.
PlacementTypeOK ==
  /\ dialled \in [Execs -> Owner \cup {NotDialled}]
  /\ created \in [Batches -> Clients \cup {None}]
  /\ finished \subseteq Batches
  /\ batchRow \in [Batches -> Clients \cup {None}]
  /\ rows \subseteq Row
  /\ request \in [Requests -> {Idle} \cup Dispatch \cup Record]
  /\ handler \in [Handlers -> {Idle} \cup Insert \cup Listing]
  /\ asked \in Nat
  /\ orphaned \subseteq Execs
  /\ reconciled \subseteq Batches

\* The type invariant is that of the catalog and that of the placements.
LEMMA TypeParts == TypeOK <=> CatalogTypeOK /\ PlacementTypeOK
BY DEF TypeOK, PlacementTypeOK

\* What the state of a request tells of its record.
LEMMA RequestShape ==
  ASSUME PlacementTypeOK, NEW r \in Requests, request[r].pc \in {"dispatch", "record"}
  PROVE /\ request[r].client \in Clients /\ request[r].kind \in {"call", "batch"}
        /\ request[r].pc = "record" => request[r].id \in Execs \cup Batches
<1>1. request[r] \in {Idle} \cup Dispatch \cup Record
  BY DEF PlacementTypeOK
<1>2. CASE request[r] = Idle
  BY <1>2 DEF Idle
<1>3. CASE request[r] \in Dispatch
  BY <1>3 DEF Dispatch
<1>4. CASE request[r] \in Record
  BY <1>4 DEF Record
<1> QED
  BY <1>1, <1>2, <1>3, <1>4

\* What the state of a handler tells of its record.
LEMMA HandlerShape ==
  ASSUME PlacementTypeOK, NEW h \in Handlers
  PROVE /\ handler[h].pc = "insert" => handler[h] \in Insert
        /\ handler[h].pc \in {"list", "save"} => handler[h] \in Listing
BY DEF PlacementTypeOK, Idle, Insert, Listing

\* An identifier the engine accepts is one of a call or one of a batch.
LEMMA AcceptsTypes ==
  ASSUME PlacementTypeOK, NEW r \in Requests, request[r].pc = "dispatch",
         NEW id \in Execs \cup Batches, Accepts(r, id)
  PROVE /\ dialled' \in [Execs -> Owner \cup {NotDialled}]
        /\ created' \in [Batches -> Clients \cup {None}]
<1>1. request[r].client \in Clients
  BY RequestShape
<1>2. [client |-> request[r].client, batch |-> None] \in Owner
  BY <1>1 DEF Owner
<1> QED
  BY <1>1, <1>2 DEF Accepts, PlacementTypeOK

\* Every step keeps the types.
LEMMA PlacementStepType ==
  ASSUME PlacementTypeOK, Owned, PlacementStep
  PROVE PlacementTypeOK'
<1> USE DEF engineVars, recordVars
<1>1. ASSUME NEW r \in Requests, NEW c \in Clients, NEW a \in Agents,
             NEW kind \in {"call", "batch"}, NEW provided \in SUBSET Vars,
             NEW validate \in BOOLEAN, StartPlacement(r, c, a, kind, provided, validate)
      PROVE PlacementTypeOK'
  <2>1. [pc |-> "dispatch", client |-> c, kind |-> kind] \in Dispatch
    BY DEF Dispatch
  <2> QED
    BY <1>1, <2>1 DEF StartPlacement, PlacementTypeOK
<1>2. ASSUME NEW r \in Requests, NEW id \in Execs \cup Batches, Place(r, id)
      PROVE PlacementTypeOK'
  <2>1. [pc |-> "record", client |-> request[r].client, kind |-> request[r].kind, id |-> id]
          \in Record
    BY <1>2, RequestShape DEF Place, Record
  <2> QED
    BY <1>2, <2>1, AcceptsTypes DEF Place, PlacementTypeOK
<1>3. ASSUME NEW r \in Requests, NEW id \in Execs \cup Batches, PlaceUnanswered(r, id)
      PROVE PlacementTypeOK'
  BY <1>3, AcceptsTypes DEF PlaceUnanswered, PlacementTypeOK
<1>4. ASSUME NEW r \in Requests, PlaceRefused(r) \/ RecordFails(r) PROVE PlacementTypeOK'
  BY <1>4 DEF PlaceRefused, RecordFails, PlacementTypeOK
<1>5. ASSUME NEW r \in Requests, RecordCall(r) PROVE PlacementTypeOK'
  <2>1. request[r].client \in Clients /\ request[r].id \in Execs
    BY <1>5, RequestShape DEF RecordCall, Owned, RequestsOwn, OwnRequest
  <2>2. [exec |-> request[r].id, client |-> request[r].client, batch |-> None] \in Row
    BY <2>1 DEF Row
  <2>3. rows' \subseteq Row
    BY <1>5, <2>2 DEF RecordCall, Keep, PlacementTypeOK
  <2> QED
    BY <1>5, <2>3 DEF RecordCall, PlacementTypeOK
<1>6. ASSUME NEW r \in Requests, RecordBatch(r) PROVE PlacementTypeOK'
  <2>1. request[r].client \in Clients
    BY <1>6, RequestShape DEF RecordBatch
  <2> QED
    BY <1>6, <2>1 DEF RecordBatch, PlacementTypeOK
<1>7. ASSUME NEW b \in Batches, NEW e \in Execs, EngineDials(b, e) PROVE PlacementTypeOK'
  <2>1. [client |-> created[b], batch |-> b] \in Owner
    BY <1>7 DEF EngineDials, PlacementTypeOK, Owner
  <2> QED
    BY <1>7, <2>1 DEF EngineDials, PlacementTypeOK
<1>8. ASSUME NEW b \in Batches, EngineFinishes(b) PROVE PlacementTypeOK'
  BY <1>8 DEF EngineFinishes, PlacementTypeOK
<1>9. ASSUME NEW h \in Handlers, NEW e \in Execs, Webhook(h, e) PROVE PlacementTypeOK'
  <2>1. dialled[e].batch \in Batches
    BY <1>9 DEF Webhook, PlacementTypeOK, Owner, NotDialled
  <2>2. [pc |-> "insert", exec |-> e, batch |-> dialled[e].batch,
         client |-> batchRow[dialled[e].batch]] \in Insert
    BY <1>9, <2>1 DEF Webhook, PlacementTypeOK, Insert
  <2> QED
    BY <1>9, <2>2 DEF Webhook, PlacementTypeOK
<1>10. ASSUME NEW h \in Handlers, InsertReported(h) PROVE PlacementTypeOK'
  <2>1. [exec |-> handler[h].exec, client |-> handler[h].client, batch |-> handler[h].batch]
          \in Row
    BY <1>10, HandlerShape DEF InsertReported, Insert, Row
  <2>2. rows' \subseteq Row
    BY <1>10, <2>1 DEF InsertReported, Keep, PlacementTypeOK
  <2> QED
    BY <1>10, <2>2 DEF InsertReported, PlacementTypeOK
<1>11. ASSUME NEW h \in Handlers, NEW b \in Batches, Reconcile(h, b) PROVE PlacementTypeOK'
  <2>1. [pc |-> "list", batch |-> b, got |-> {}, page |-> 0, full |-> FALSE] \in Listing
    BY PageAssumption DEF Listing
  <2> QED
    BY <1>11, <2>1 DEF Reconcile, PlacementTypeOK
<1>12. ASSUME NEW h \in Handlers, GetPage(h) PROVE PlacementTypeOK'
  <2>1. handler[h] \in Listing /\ handler[h].page < MaxPages
    BY <1>12, HandlerShape DEF GetPage, Owned, HandlersOwn, OwnHandler
  <2>2. PICK got \in SUBSET Execs, pc \in {"list", "save"}, full \in BOOLEAN :
          handler' = [handler EXCEPT ![h] =
            [handler[h] EXCEPT !.got = got, !.page = handler[h].page + 1, !.pc = pc,
                               !.full = full]]
    <3> DEFINE b == handler[h].batch
               rest == Members(b) \ handler[h].got
               hasMore == rest # NextPage(rest)
               last == handler[h].page + 1 = MaxPages
               pc == IF hasMore /\ ~last THEN "list" ELSE "save"
    <3>1. handler[h].got \cup NextPage(rest) \in SUBSET Execs
      BY <2>1 DEF NextPage, Listing, Members
    <3>2. handler' = [handler EXCEPT ![h] =
            [handler[h] EXCEPT !.got = handler[h].got \cup NextPage(rest),
                               !.page = handler[h].page + 1, !.pc = pc,
                               !.full = ~hasMore /\ b \in finished]]
      BY <1>12 DEF GetPage
    <3>3. pc \in {"list", "save"} /\ (~hasMore /\ b \in finished) \in BOOLEAN
      OBVIOUS
    <3> HIDE DEF pc, hasMore, rest
    <3> QED
      BY <3>1, <3>2, <3>3
  <2>3. handler[h].page + 1 \in 0..MaxPages
    BY <2>1, PageAssumption DEF Listing
  <2>4. [handler[h] EXCEPT !.got = got, !.page = handler[h].page + 1, !.pc = pc, !.full = full]
          \in Listing
    BY <2>1, <2>3 DEF Listing
  <2>5. PICK x \in Listing : handler' = [handler EXCEPT ![h] = x]
    BY <2>2, <2>4
  <2>6. UNCHANGED <<engineVars, recordVars, request, asked, orphaned, reconciled>>
    BY <1>12 DEF GetPage
  <2> QED
    BY <2>5, <2>6 DEF PlacementTypeOK
<1>13. ASSUME NEW h \in Handlers, PageMalformed(h) PROVE PlacementTypeOK'
  <2>1. handler[h] \in Listing /\ handler' = [handler EXCEPT ![h] = [handler[h] EXCEPT !.pc = "save"]]
    BY <1>13, HandlerShape DEF PageMalformed
  <2>2. [handler[h] EXCEPT !.pc = "save"] \in Listing
    BY <2>1 DEF Listing
  <2> QED
    BY <1>13, <2>1, <2>2 DEF PageMalformed, PlacementTypeOK
<1>14. ASSUME NEW h \in Handlers, ReportFails(h) PROVE PlacementTypeOK'
  BY <1>14 DEF ReportFails, PlacementTypeOK
<1>15. ASSUME NEW h \in Handlers, SaveListed(h) PROVE PlacementTypeOK'
  <2>1. handler[h] \in Listing /\ batchRow[handler[h].batch] # None
    BY <1>15, HandlerShape DEF SaveListed, Owned, HandlersOwn, OwnHandler
  <2>2. PICK b \in Batches, got \in SUBSET Execs :
          b = handler[h].batch /\ got = handler[h].got /\ batchRow[b] \in Clients
    BY <2>1 DEF Listing, PlacementTypeOK
  <2>3. PICK skipped :
          /\ rows' = rows \cup {[exec |-> e, client |-> batchRow[b], batch |-> b] :
                                 e \in got \ (skipped \cup Recorded)}
          /\ reconciled' \subseteq reconciled \cup {b}
    BY <1>15, <2>2 DEF SaveListed
  <2>4. \A e \in got : [exec |-> e, client |-> batchRow[b], batch |-> b] \in Row
    BY <2>2 DEF Row
  <2>5. rows' \subseteq Row
    BY <2>3, <2>4 DEF PlacementTypeOK
  <2> QED
    BY <1>15, <2>3, <2>5 DEF SaveListed, PlacementTypeOK
<1> QED
  BY <1>1, <1>2, <1>3, <1>4, <1>5, <1>6, <1>7, <1>8, <1>9, <1>10, <1>11, <1>12, <1>13, <1>14,
     <1>15 DEF PlacementStep

-----------------------------------------------------------------------------
(* Ownership.                                                              *)

\* The requests of R end, or were never about to record; what they would have
\* recorded is given up.  Every other step of requests and handlers that stores
\* nothing is a case of this one: R is empty, or one request, or a process's.
LEMMA GiveUp ==
  ASSUME PlacementTypeOK, Owned, NEW R \in SUBSET Requests,
         UNCHANGED <<engineVars, recordVars, reconciled>>,
         \A r \in Requests \ R : request'[r] = request[r],
         \A r \in R : request'[r].pc # "record",
         orphaned' = orphaned \cup {e \in Execs :
           \E r \in R : request[r].pc = "record" /\ request[r].id = e},
         \A h \in Handlers : handler'[h] = handler[h] \/ OwnHandler(handler'[h])
  PROVE Owned'
<1> USE DEF engineVars, recordVars
<1>1. UNCHANGED <<dialled, created, finished, batchRow, rows, reconciled, Recorded, Singles>>
        /\ \A b : UNCHANGED Members(b)
  BY DEF Recorded, Singles, Members
<1>2. MembersOwned' /\ ReconciledFinished' /\ RowsAttributed' /\ ReconciledComplete'
  BY <1>1 DEF Owned, MembersOwned, ReconciledFinished, RowsAttributed, ReconciledComplete
\* An identifier given up was one of a call, by a request of its own.
<1>3. ASSUME NEW e \in orphaned', e \notin orphaned
      PROVE /\ e \in Singles /\ e \notin Recorded
            /\ \E r \in R : request[r].pc = "record" /\ request[r].id = e
  <2>1. PICK r \in R : request[r].pc = "record" /\ request[r].id = e /\ e \in Execs
    BY <1>3
  <2>2. request[r].kind = "call" /\ request[r].client \in Clients
    BY <2>1, RequestShape, IdsAssumption DEF Owned, RequestsOwn, OwnRequest
  <2>3. dialled[e] = [client |-> request[r].client, batch |-> None] /\ e \notin Recorded
    BY <2>1, <2>2 DEF Owned, RequestsOwn, OwnRequest
  <2>4. dialled[e].client # None /\ dialled[e].batch = None
    BY <2>2, <2>3, NoneAssumption
  <2> QED
    BY <2>1, <2>3, <2>4 DEF Singles
<1>4. OrphansSingle'
  BY <1>1, <1>3 DEF Owned, OrphansSingle
<1>5. RequestsOwn'
  <2> SUFFICES ASSUME NEW r \in Requests, request'[r].pc = "record"
               PROVE OwnRequest(request[r])' /\ r \notin R
    BY DEF RequestsOwn, OwnRequest
  <2>1. r \notin R /\ request'[r] = request[r]
    OBVIOUS
  <2>2. OwnRequest(request[r])
    BY DEF Owned, RequestsOwn
  <2>3. request[r].id \notin orphaned' \/ request[r].id \in orphaned
    BY <1>3, <2>1 DEF Owned, RequestsApart
  <2> QED
    BY <1>1, <2>1, <2>2, <2>3 DEF OwnRequest
<1>6. RequestsApart'
  <2>1. ASSUME NEW r \in Requests, request'[r].pc = "record" PROVE request'[r] = request[r]
    BY <2>1
  <2> QED
    BY <2>1 DEF Owned, RequestsApart
<1>7. HandlersOwn'
  <2>1. ASSUME NEW h \in Handlers PROVE OwnHandler(handler'[h])
    BY DEF Owned, HandlersOwn
  <2> QED
    BY <1>1, <2>1 DEF HandlersOwn, OwnHandler
<1>8. CallsAccounted'
  <2>1. orphaned' \cap Recorded = {}
    BY <1>3 DEF Owned, CallsAccounted
  <2>2. ASSUME NEW e \in Singles, e \notin Recorded, e \notin orphaned'
        PROVE \E r \in Requests : request'[r].pc = "record" /\ request'[r].id = e
    <3>1. e \in Execs /\ e \notin orphaned
      BY <2>2 DEF Singles
    <3>2. PICK r \in Requests : request[r].pc = "record" /\ request[r].id = e
      BY <2>2, <3>1 DEF Owned, CallsAccounted
    <3>3. r \notin R
      BY <2>2, <3>1, <3>2
    <3> QED
      BY <3>2, <3>3
  <2> QED
    BY <1>1, <2>1, <2>2 DEF CallsAccounted
<1> QED
  BY <1>2, <1>4, <1>5, <1>6, <1>7, <1>8 DEF Owned

\* A handler that rests owns nothing.
LEMMA IdleOwns == OwnHandler(Idle)
BY DEF OwnHandler, Idle

\* A handler that moves on, and no more.
LEMMA HandlerMoves ==
  ASSUME PlacementTypeOK, Owned, NEW h \in Handlers, NEW x, OwnHandler(x),
         handler' = [handler EXCEPT ![h] = x],
         UNCHANGED <<engineVars, recordVars, request, orphaned, reconciled>>
  PROVE Owned'
<1>1. \A g \in Handlers : handler'[g] = handler[g] \/ OwnHandler(handler'[g])
  BY DEF PlacementTypeOK
<1>2. {} \in SUBSET Requests
  OBVIOUS
<1> QED
  BY <1>1, <1>2, GiveUp

\* The engine accepts what it did not know: what is known stays, and a member
\* is added only to a batch that is not finished.
Grows ==
  /\ \A e \in Execs : \/ dialled'[e] = dialled[e]
                      \/ /\ dialled[e] = NotDialled
                         /\ dialled'[e].batch # None =>
                              /\ dialled'[e].batch \in Batches \ finished
                              /\ dialled'[e].client = created[dialled'[e].batch]
                              /\ created[dialled'[e].batch] # None
  /\ \A b \in Batches : created'[b] = created[b] \/ created[b] = None
  /\ finished \subseteq finished'

\* What the engine adds disturbs nobody who is at work.
LEMMA GrowthHarmless ==
  ASSUME PlacementTypeOK, PlacementTypeOK', Owned, Grows,
         UNCHANGED <<recordVars, handler, reconciled>>, orphaned \subseteq orphaned'
  PROVE /\ MembersOwned' /\ HandlersOwn' /\ orphaned \subseteq Singles'
        /\ ReconciledFinished' /\ RowsAttributed' /\ ReconciledComplete'
        /\ Recorded' = Recorded
        /\ \A e \in Recorded : dialled'[e] = dialled[e]
<1> USE DEF recordVars
<1>0. Recorded' = Recorded
  BY DEF Recorded
<1>1. ASSUME NEW e \in Execs PROVE dialled[e] \in Owner \cup {NotDialled}
  BY DEF PlacementTypeOK
<1>2. ASSUME NEW e \in Execs, dialled[e] # NotDialled PROVE dialled'[e] = dialled[e]
  BY <1>2 DEF Grows
<1>3. ASSUME NEW e \in Execs, dialled[e].batch # None \/ dialled[e].client # None
      PROVE dialled[e] # NotDialled
  BY <1>3 DEF NotDialled
<1>4. ASSUME NEW b \in finished PROVE Members(b)' = Members(b)
  <2>1. b \in Batches /\ b # None
    BY NoneAssumption DEF PlacementTypeOK
  <2> QED
    BY <1>2, <1>3, <2>1 DEF Members, Grows
<1>5. ASSUME NEW b \in Batches PROVE Members(b) \subseteq Members(b)'
  BY <1>2, <1>3, NoneAssumption DEF Members
<1>6. MembersOwned'
  <2> SUFFICES ASSUME NEW e \in Execs, dialled'[e].batch # None
               PROVE dialled'[e].client = created'[dialled'[e].batch]
    BY DEF MembersOwned
  <2>1. CASE dialled'[e] = dialled[e]
    <3>1. dialled[e] \in Owner
      BY <1>1, <2>1 DEF NotDialled
    <3>2. dialled[e].batch \in Batches /\ dialled[e].client # None
      BY <2>1, <3>1, NoneAssumption DEF Owner
    <3>3. dialled[e].client = created[dialled[e].batch]
      BY <2>1 DEF Owned, MembersOwned
    <3> QED
      BY <2>1, <3>2, <3>3 DEF Grows
  <2>2. CASE dialled'[e] # dialled[e]
    BY <2>2 DEF Grows
  <2> QED
    BY <2>1, <2>2
<1>7. ASSUME NEW r \in rows PROVE dialled'[r.exec] = dialled[r.exec]
  <2>1. r.exec \in Execs /\ r.client # None
    BY NoneAssumption DEF PlacementTypeOK, Row
  <2>2. dialled[r.exec].client # None
    <3>1. dialled[r.exec] = [client |-> r.client, batch |-> r.batch]
      BY DEF Owned, RowsAttributed
    <3> QED
      BY <2>1, <3>1
  <2> QED
    BY <1>2, <1>3, <2>1, <2>2
<1>8. RowsAttributed'
  <2>1. \A r \in rows' : dialled'[r.exec] = [client |-> r.client, batch |-> r.batch]
    BY <1>7 DEF Owned, RowsAttributed
  <2>2. \A b \in Batches : batchRow'[b] \in {None, created'[b]}
    BY DEF Owned, RowsAttributed, Grows
  <2> QED
    BY <2>1, <2>2 DEF RowsAttributed
<1>9. \A e \in Recorded : dialled'[e] = dialled[e]
  BY <1>7 DEF Recorded
<1>10. HandlersOwn'
  <2> SUFFICES ASSUME NEW h \in Handlers PROVE OwnHandler(handler[h])'
    BY DEF HandlersOwn
  <2>1. OwnHandler(handler[h]) /\ handler'[h] = handler[h]
    BY DEF Owned, HandlersOwn
  <2>2. handler[h].pc = "insert" =>
          dialled'[handler[h].exec] = [client |-> handler[h].client, batch |-> handler[h].batch]
    <3>1. SUFFICES ASSUME handler[h].pc = "insert"
                   PROVE dialled'[handler[h].exec] = dialled[handler[h].exec]
      BY <2>1 DEF OwnHandler
    <3>2. handler[h].exec \in Execs /\ handler[h].client # None
      BY <3>1, HandlerShape, NoneAssumption DEF Insert
    <3>3. dialled[handler[h].exec].client # None
      BY <2>1, <3>1, <3>2 DEF OwnHandler
    <3> QED
      BY <1>2, <1>3, <3>2, <3>3
  <2>3. handler[h].pc \in {"list", "save"} => handler[h].got \subseteq Members(handler[h].batch)'
    BY <1>5, <2>1, HandlerShape DEF OwnHandler, Listing
  <2>4. handler[h].pc = "save" /\ handler[h].full =>
          handler[h].batch \in finished' /\ Members(handler[h].batch)' \subseteq handler[h].got
    BY <1>4, <2>1 DEF OwnHandler, Grows
  <2> QED
    BY <2>1, <2>2, <2>3, <2>4 DEF OwnHandler
<1>11. orphaned \subseteq Singles'
  BY <1>2, <1>3 DEF Owned, OrphansSingle, Singles
<1>12. ReconciledFinished' /\ ReconciledComplete'
  BY <1>0, <1>4 DEF Owned, ReconciledFinished, ReconciledComplete, Grows
<1> QED
  BY <1>0, <1>6, <1>8, <1>9, <1>10, <1>11, <1>12

\* A request keeps its identifier while the engine accepts others.
LEMMA GrownRequest ==
  ASSUME PlacementTypeOK, Owned, Grows, Recorded' = Recorded,
         NEW r \in Requests, request'[r] = request[r],
         request[r].pc = "record" /\ request[r].id \in orphaned' => request[r].id \in orphaned
  PROVE OwnRequest(request[r])'
<1> SUFFICES ASSUME request[r].pc = "record" PROVE OwnRequest(request[r])'
  BY DEF OwnRequest
<1>1. OwnRequest(request[r]) /\ request[r].client \in Clients /\ request[r].client # None
  BY RequestShape, NoneAssumption DEF Owned, RequestsOwn
<1>2. CASE request[r].kind = "call"
  <2>1. request[r].id \in Execs /\ dialled[request[r].id] = [client |-> request[r].client, batch |-> None]
    BY <1>1, <1>2 DEF OwnRequest
  <2>2. dialled[request[r].id] # NotDialled
    BY <1>1, <2>1 DEF NotDialled
  <2>3. dialled'[request[r].id] = dialled[request[r].id]
    BY <2>1, <2>2 DEF Grows
  <2> QED
    BY <1>1, <1>2, <2>1, <2>3 DEF OwnRequest
<1>3. CASE request[r].kind # "call"
  BY <1>1, <1>3 DEF OwnRequest, Grows
<1> QED
  BY <1>2, <1>3

\* What the engine accepts for a request.
LEMMA AcceptsGrows ==
  ASSUME PlacementTypeOK, NEW r \in Requests, request[r].pc = "dispatch",
         NEW id \in Execs \cup Batches, Accepts(r, id), finished' = finished
  PROVE /\ Grows
        /\ \/ /\ request[r].kind = "call" /\ id \in Execs /\ id \notin Batches
              /\ dialled[id] = NotDialled
              /\ dialled'[id] = [client |-> request[r].client, batch |-> None]
              /\ Singles' = Singles \cup {id} /\ id \notin Singles
              /\ UNCHANGED created
           \/ /\ request[r].kind = "batch" /\ id \in Batches /\ id \notin Execs
              /\ created[id] = None /\ created' = [created EXCEPT ![id] = request[r].client]
              /\ created'[id] = request[r].client /\ UNCHANGED <<dialled, Singles>>
<1>1. request[r].client \in Clients /\ request[r].client # None /\ request[r].kind \in {"call", "batch"}
  BY RequestShape, NoneAssumption
<1>2. CASE request[r].kind = "call"
  <2>1. /\ id \in Execs /\ id \notin Batches /\ dialled[id] = NotDialled
        /\ dialled' = [dialled EXCEPT ![id] = [client |-> request[r].client, batch |-> None]]
        /\ created' = created
    BY <1>2, IdsAssumption DEF Accepts, NextExec
  <2>2. dialled'[id] = [client |-> request[r].client, batch |-> None]
    BY <2>1 DEF PlacementTypeOK
  <2>3. Grows
    BY <2>1, <2>2 DEF Grows, PlacementTypeOK
  <2>4. Singles' = Singles \cup {id} /\ id \notin Singles
    BY <1>1, <2>1, <2>2 DEF Singles, NotDialled, PlacementTypeOK
  <2> QED
    BY <1>2, <2>1, <2>2, <2>3, <2>4
<1>3. CASE request[r].kind = "batch"
  <2>1. /\ id \in Batches /\ id \notin Execs /\ created[id] = None /\ dialled' = dialled
        /\ created' = [created EXCEPT ![id] = request[r].client]
    BY <1>3, IdsAssumption DEF Accepts
  <2> QED
    BY <1>3, <2>1 DEF Grows, Singles, PlacementTypeOK
<1> QED
  BY <1>1, <1>2, <1>3

\* A request that placed holds a new identifier, or gives it up at once.
LEMMA PlaceOwns ==
  ASSUME PlacementTypeOK, PlacementTypeOK', Owned, NEW r \in Requests,
         NEW id \in Execs \cup Batches, Place(r, id) \/ PlaceUnanswered(r, id)
  PROVE Owned'
<1> USE DEF recordVars
<1>1. /\ request[r].pc = "dispatch" /\ Accepts(r, id)
      /\ UNCHANGED <<finished, batchRow, rows, handler, reconciled>>
  BY DEF Place, PlaceUnanswered
<1>2. orphaned \subseteq orphaned' /\ orphaned' \subseteq orphaned \cup (Execs \cap {id})
  BY DEF Place, PlaceUnanswered
<1>3. Grows /\ Recorded' = Recorded
  BY <1>1, AcceptsGrows DEF Recorded
<1>4. MembersOwned' /\ HandlersOwn' /\ orphaned \subseteq Singles'
        /\ ReconciledFinished' /\ RowsAttributed' /\ ReconciledComplete'
  BY <1>1, <1>2, <1>3, GrowthHarmless
\* Nobody else has the identifier.
<1>5. ASSUME NEW q \in Requests, request[q].pc = "record" PROVE request[q].id # id
  <2>1. OwnRequest(request[q]) /\ request[q].client \in Clients /\ request[q].client # None
    BY <1>5, RequestShape, NoneAssumption DEF Owned, RequestsOwn
  <2>2. CASE request[q].kind = "call"
    <3>1. request[q].id \in Execs /\ dialled[request[q].id] = [client |-> request[q].client, batch |-> None]
      BY <1>5, <2>1, <2>2 DEF OwnRequest
    <3>2. dialled[request[q].id] # NotDialled
      BY <2>1, <3>1 DEF NotDialled
    <3> QED
      BY <1>1, <3>1, <3>2, AcceptsGrows, IdsAssumption
  <2>3. CASE request[q].kind # "call"
    <3>1. request[q].id \in Batches /\ created[request[q].id] # None
      BY <1>5, <2>1, <2>3 DEF OwnRequest
    <3> QED
      BY <1>1, <3>1, AcceptsGrows, IdsAssumption
  <2> QED
    BY <2>2, <2>3
<1>6. id \in Execs => id \notin Recorded \cup orphaned /\ id \in Singles'
  <2>1. SUFFICES ASSUME id \in Execs
                 PROVE id \notin Recorded \cup orphaned /\ id \in Singles'
    OBVIOUS
  <2>2. dialled[id] = NotDialled /\ id \in Singles' /\ id \notin Singles
    BY <1>1, <2>1, AcceptsGrows
  <2>3. ASSUME NEW w \in rows PROVE w.exec # id
    <3>1. dialled[w.exec] = [client |-> w.client, batch |-> w.batch] /\ w.client # None
      BY NoneAssumption DEF Owned, RowsAttributed, PlacementTypeOK, Row
    <3> QED
      BY <2>2, <3>1 DEF NotDialled
  <2> QED
    BY <2>2, <2>3 DEF Recorded, Owned, OrphansSingle
<1>7. OrphansSingle'
  BY <1>2, <1>4, <1>6 DEF OrphansSingle
<1>8. \A q \in Requests \ {r} : request'[q] = request[q]
  BY DEF Place, PlaceUnanswered, PlacementTypeOK
<1>9. \/ /\ request'[r] = [pc |-> "record", client |-> request[r].client,
                           kind |-> request[r].kind, id |-> id]
         /\ orphaned' = orphaned
      \/ /\ request'[r] = Idle
         /\ orphaned' = orphaned \cup (Execs \cap {id})
  BY DEF Place, PlaceUnanswered, PlacementTypeOK
<1>10. RequestsOwn'
  <2>1. ASSUME NEW q \in Requests \ {r} PROVE OwnRequest(request[q])'
    BY <1>2, <1>3, <1>5, <1>8, GrownRequest
  <2>2. OwnRequest(request[r])'
    BY <1>1, <1>3, <1>6, <1>9, AcceptsGrows DEF OwnRequest, Idle
  <2> QED
    BY <2>1, <2>2 DEF RequestsOwn
<1>11. RequestsApart'
  BY <1>5, <1>8, <1>9 DEF Owned, RequestsApart, Idle
<1>12. CallsAccounted'
  <2>1. orphaned' \cap Recorded' = {}
    BY <1>2, <1>3, <1>6 DEF Owned, CallsAccounted
  <2>2. ASSUME NEW e \in Singles', e \notin Recorded, e \notin orphaned'
        PROVE \E q \in Requests : request'[q].pc = "record" /\ request'[q].id = e
    <3>1. CASE e = id
      <4>1. id \in Execs
        BY <2>2, <3>1 DEF Singles
      <4> QED
        BY <1>9, <2>2, <3>1, <4>1
    <3>2. CASE e # id
      <4>1. e \in Singles /\ e \notin orphaned
        BY <1>1, <1>2, <2>2, <3>2, AcceptsGrows
      <4>2. PICK q \in Requests : request[q].pc = "record" /\ request[q].id = e
        BY <2>2, <4>1 DEF Owned, CallsAccounted
      <4>3. q # r
        BY <1>1, <4>2
      <4> QED
        BY <1>8, <4>2, <4>3
    <3> QED
      BY <3>1, <3>2
  <2> QED
    BY <1>3, <2>1, <2>2 DEF CallsAccounted
<1> QED
  BY <1>4, <1>7, <1>10, <1>11, <1>12 DEF Owned

\* The engine dials for a batch that is not finished, or finishes it.
LEMMA EngineOwns ==
  ASSUME PlacementTypeOK, PlacementTypeOK', Owned, NEW b \in Batches,
         EngineFinishes(b) \/ \E e \in Execs : EngineDials(b, e)
  PROVE Owned'
<1> USE DEF recordVars
<1>1. UNCHANGED <<created, batchRow, rows, request, handler, orphaned, reconciled>>
  BY DEF EngineFinishes, EngineDials
<1>2. b # None
  BY NoneAssumption
<1>3. Grows /\ Singles' = Singles
  <2>1. CASE EngineFinishes(b)
    BY <2>1 DEF EngineFinishes, Grows, Singles
  <2>2. ASSUME NEW e \in Execs, EngineDials(b, e) PROVE Grows /\ Singles' = Singles
    <3>1. /\ dialled[e] = NotDialled /\ UNCHANGED <<created, finished>>
          /\ created[b] # None /\ b \notin finished
          /\ dialled' = [dialled EXCEPT ![e] = [client |-> created[b], batch |-> b]]
      BY <2>2 DEF EngineDials, NextExec
    <3>2. dialled'[e].client = created[b] /\ dialled'[e].batch = b
            /\ \A d \in Execs \ {e} : dialled'[d] = dialled[d]
      BY <3>1 DEF PlacementTypeOK
    <3> QED
      BY <1>2, <3>1, <3>2 DEF Grows, Singles, NotDialled
  <2> QED
    BY <2>1, <2>2
<1>4. /\ MembersOwned' /\ HandlersOwn' /\ OrphansSingle' /\ Recorded' = Recorded
      /\ ReconciledFinished' /\ RowsAttributed' /\ ReconciledComplete'
  BY <1>1, <1>3, GrowthHarmless DEF OrphansSingle
<1>5. RequestsOwn'
  <2>1. ASSUME NEW r \in Requests PROVE OwnRequest(request[r])'
    BY <1>1, <1>3, <1>4, GrownRequest
  <2> QED
    BY <2>1 DEF RequestsOwn
<1>6. RequestsApart' /\ CallsAccounted'
  BY <1>1, <1>3, <1>4 DEF Owned, RequestsApart, CallsAccounted
<1> QED
  BY <1>4, <1>5, <1>6 DEF Owned

\* Rows are added for the executions of E, rightly attributed; who was about to
\* account for one of them is the one who added it.
LEMMA RowsAdded ==
  ASSUME PlacementTypeOK, Owned, NEW E,
         UNCHANGED <<engineVars, batchRow, orphaned>>,
         rows \subseteq rows', Recorded' = Recorded \cup E, E \cap orphaned = {},
         \A w \in rows' : w \in rows \/ dialled[w.exec] = [client |-> w.client, batch |-> w.batch],
         \A r \in Requests :
           \/ /\ request'[r] = request[r]
              /\ request[r].pc = "record" /\ request[r].kind = "call" => request[r].id \notin E
           \/ /\ request'[r] = Idle
              /\ request[r].pc = "record" => request[r].id \in E,
         \A h \in Handlers : handler'[h] \in {handler[h], Idle},
         \A b \in reconciled' : \/ b \in reconciled
                                \/ b \in finished /\ Members(b) \subseteq Recorded'
  PROVE Owned'
<1> USE DEF engineVars
<1>1. UNCHANGED <<dialled, created, finished, batchRow, orphaned, Singles>>
        /\ \A b : UNCHANGED Members(b)
  BY DEF Singles, Members
<1>2. MembersOwned' /\ OrphansSingle' /\ RowsAttributed'
  BY <1>1 DEF Owned, MembersOwned, OrphansSingle, RowsAttributed
<1>3. ReconciledFinished' /\ ReconciledComplete'
  BY <1>1 DEF Owned, ReconciledFinished, ReconciledComplete
<1>4. RequestsOwn'
  <2> SUFFICES ASSUME NEW r \in Requests PROVE OwnRequest(request[r])'
    BY DEF RequestsOwn
  <2>1. OwnRequest(request[r])
    BY DEF Owned, RequestsOwn
  <2> QED
    BY <1>1, <2>1 DEF OwnRequest, Idle
<1>5. RequestsApart'
  BY DEF Owned, RequestsApart, Idle
<1>6. HandlersOwn'
  <2> SUFFICES ASSUME NEW h \in Handlers PROVE OwnHandler(handler[h])'
    BY DEF HandlersOwn
  <2>1. OwnHandler(handler[h])
    BY DEF Owned, HandlersOwn
  <2> QED
    BY <1>1, <2>1 DEF OwnHandler, Idle
<1>7. CallsAccounted'
  <2>1. orphaned' \cap Recorded' = {}
    BY DEF Owned, CallsAccounted
  <2>2. ASSUME NEW e \in Singles, e \notin Recorded', e \notin orphaned
        PROVE \E r \in Requests : request'[r].pc = "record" /\ request'[r].id = e
    <3>1. PICK r \in Requests : request[r].pc = "record" /\ request[r].id = e
      BY <2>2 DEF Owned, CallsAccounted
    <3> QED
      BY <2>2, <3>1
  <2> QED
    BY <1>1, <2>1, <2>2 DEF CallsAccounted
<1> QED
  BY <1>2, <1>3, <1>4, <1>5, <1>6, <1>7 DEF Owned

\* The executions of the rows that are added are recorded with them.
LEMMA RecordedGrows ==
  ASSUME NEW W, rows' = rows \cup W
  PROVE rows \subseteq rows' /\ Recorded' = Recorded \cup {w.exec : w \in W}
BY DEF Recorded

\* Inserting a row, or finding it there, leaves one that was or is rightly
\* attributed.
LEMMA KeepRows ==
  ASSUME PlacementTypeOK, NEW e, NEW c, NEW b, rows' = Keep(e, c, b),
         dialled[e] = [client |-> c, batch |-> b]
  PROVE /\ rows \subseteq rows' /\ Recorded' = Recorded \cup {e}
        /\ \A w \in rows' : w \in rows \/ dialled[w.exec] = [client |-> w.client, batch |-> w.batch]
<1>1. CASE \E w \in rows : w.exec = e /\ w.client = c
  BY <1>1 DEF Keep, Recorded
<1>2. CASE ~\E w \in rows : w.exec = e /\ w.client = c
  <2>1. PICK w : /\ w.exec = e /\ w.client = c /\ w.batch = b
                 /\ rows' = rows \cup {w}
    BY <1>2 DEF Keep
  <2>2. {v.exec : v \in {w}} = {e}
    BY <2>1
  <2> QED
    BY <2>1, <2>2, RecordedGrows
<1> QED
  BY <1>1, <1>2

\* The member of a batch is no single call: nobody gave it up, and no request
\* is about to record it.
LEMMA MembersFree ==
  ASSUME PlacementTypeOK, Owned, NEW e, dialled[e].batch # None
  PROVE /\ e \notin orphaned
        /\ \A r \in Requests : request[r].pc = "record" /\ request[r].kind = "call"
                                => request[r].id # e
<1>1. ASSUME NEW r \in Requests, request[r].pc = "record" /\ request[r].kind = "call"
      PROVE dialled[request[r].id].batch = None
  <2>1. dialled[request[r].id] = [client |-> request[r].client, batch |-> None]
    BY <1>1 DEF Owned, RequestsOwn, OwnRequest
  <2> QED
    BY <2>1
<1> QED
  BY <1>1 DEF Owned, OrphansSingle, Singles

\* A request records the call it placed.
LEMMA RecordCallOwns ==
  ASSUME PlacementTypeOK, Owned, NEW r \in Requests, RecordCall(r)
  PROVE Owned'
<1>1. PICK e, c : e = request[r].id /\ c = request[r].client
  OBVIOUS
<1>2. /\ request[r].pc = "record" /\ request[r].kind = "call" /\ rows' = Keep(e, c, None)
      /\ request' = [request EXCEPT ![r] = Idle]
      /\ UNCHANGED <<engineVars, batchRow, handler, orphaned, reconciled>>
  BY <1>1 DEF RecordCall
<1>3. dialled[e] = [client |-> c, batch |-> None] /\ e \notin orphaned
  BY <1>1, <1>2 DEF Owned, RequestsOwn, OwnRequest
<1>4. /\ rows \subseteq rows' /\ Recorded' = Recorded \cup {e}
      /\ \A w \in rows' : w \in rows \/ dialled[w.exec] = [client |-> w.client, batch |-> w.batch]
  BY <1>2, <1>3, KeepRows
<1>5. ASSUME NEW q \in Requests
      PROVE \/ /\ request'[q] = request[q]
               /\ request[q].pc = "record" /\ request[q].kind = "call" => request[q].id \notin {e}
            \/ /\ request'[q] = Idle
               /\ request[q].pc = "record" => request[q].id \in {e}
  BY <1>1, <1>2 DEF PlacementTypeOK, Owned, RequestsApart
<1>6. {e} \cap orphaned = {}
  BY <1>3
<1> QED
  BY <1>2, <1>4, <1>5, <1>6, RowsAdded

\* A request records the batch it created.
LEMMA RecordBatchOwns ==
  ASSUME PlacementTypeOK, Owned, NEW r \in Requests, RecordBatch(r)
  PROVE Owned'
<1> USE DEF engineVars
<1>1. /\ request[r].pc = "record" /\ request[r].kind = "batch"
      /\ batchRow' = [batchRow EXCEPT ![request[r].id] = request[r].client]
      /\ request' = [request EXCEPT ![r] = Idle]
      /\ UNCHANGED <<engineVars, rows, handler, orphaned, reconciled>>
  BY DEF RecordBatch
<1>2. request[r].id \in Batches /\ created[request[r].id] = request[r].client
        /\ request[r].client # None
  BY <1>1, RequestShape, NoneAssumption DEF Owned, RequestsOwn, OwnRequest
<1>3. UNCHANGED <<dialled, created, finished, rows, orphaned, reconciled, Singles, Recorded>>
        /\ \A b : UNCHANGED Members(b)
  BY <1>1 DEF Singles, Recorded, Members
<1>4. \A q \in Requests : request'[q] \in {request[q], Idle}
  BY <1>1 DEF PlacementTypeOK
<1>5. \A b \in Batches : \/ batchRow'[b] = batchRow[b]
                         \/ batchRow'[b] = created[b] /\ created[b] # None
  BY <1>1, <1>2 DEF PlacementTypeOK
<1>6. MembersOwned' /\ OrphansSingle' /\ ReconciledFinished' /\ ReconciledComplete'
  BY <1>3 DEF Owned, MembersOwned, OrphansSingle, ReconciledFinished, ReconciledComplete
<1>7. RowsAttributed'
  BY <1>3, <1>5 DEF Owned, RowsAttributed
<1>8. RequestsOwn' /\ RequestsApart'
  BY <1>3, <1>4 DEF Owned, RequestsOwn, RequestsApart, OwnRequest, Idle
<1>9. HandlersOwn'
  <2> SUFFICES ASSUME NEW h \in Handlers PROVE OwnHandler(handler[h])'
    BY DEF HandlersOwn
  <2>1. OwnHandler(handler[h])
    BY DEF Owned, HandlersOwn
  <2>2. handler[h].pc \in {"list", "save"} => handler[h].batch \in Batches
    BY HandlerShape DEF Listing
  <2> QED
    BY <1>1, <1>3, <1>5, <2>1, <2>2 DEF OwnHandler
<1>10. CallsAccounted'
  <2>1. \A e \in Singles : request[r].id # e
    BY <1>2, IdsAssumption DEF Singles
  <2>2. \A q \in Requests \ {r} : request'[q] = request[q]
    BY <1>1 DEF PlacementTypeOK
  <2> QED
    BY <1>3, <2>1, <2>2 DEF Owned, CallsAccounted
<1> QED
  BY <1>6, <1>7, <1>8, <1>9, <1>10 DEF Owned

\* A webhook's row, and the rows of a listing.
LEMMA ReportOwns ==
  ASSUME PlacementTypeOK, Owned, NEW h \in Handlers, InsertReported(h) \/ SaveListed(h)
  PROVE Owned'
<1>1. /\ handler' = [handler EXCEPT ![h] = Idle]
      /\ UNCHANGED <<engineVars, batchRow, request, orphaned>>
  BY DEF InsertReported, SaveListed
<1>2. \A g \in Handlers : handler'[g] \in {handler[g], Idle}
  BY <1>1 DEF PlacementTypeOK
<1>3. OwnHandler(handler[h])
  BY DEF Owned, HandlersOwn
<1>4. CASE InsertReported(h)
  <2>1. PICK e, c, b : e = handler[h].exec /\ c = handler[h].client /\ b = handler[h].batch
    OBVIOUS
  <2>2. dialled[e] = [client |-> c, batch |-> b] /\ b # None
    BY <1>3, <1>4, <2>1, HandlerShape, NoneAssumption DEF InsertReported, OwnHandler, Insert
  <2>3. rows' = Keep(e, c, b) /\ UNCHANGED reconciled
    BY <1>4, <2>1 DEF InsertReported
  <2>4. /\ rows \subseteq rows' /\ Recorded' = Recorded \cup {e}
        /\ \A w \in rows' : w \in rows \/ dialled[w.exec] = [client |-> w.client, batch |-> w.batch]
    BY <2>2, <2>3, KeepRows
  <2>5. /\ {e} \cap orphaned = {}
        /\ \A r \in Requests : request[r].pc = "record" /\ request[r].kind = "call"
                                => request[r].id \notin {e}
    BY <2>2, MembersFree
  <2> QED
    BY <1>1, <1>2, <2>3, <2>4, <2>5, RowsAdded
<1>5. CASE SaveListed(h)
  <2>1. PICK b, c, got :
          /\ b \in Batches /\ b = handler[h].batch /\ c = batchRow[b] /\ got = handler[h].got
          /\ c # None /\ got \subseteq Members(b)
    BY <1>3, <1>5, HandlerShape DEF SaveListed, OwnHandler, Listing
  <2>2. PICK skipped, new, W :
          /\ new = got \ (skipped \cup Recorded)
          /\ W = {[exec |-> e, client |-> c, batch |-> b] : e \in new}
          /\ rows' = rows \cup W
          /\ reconciled' = IF handler[h].full /\ skipped = {} THEN reconciled \cup {b} ELSE reconciled
    <3>1. PICK skipped :
            /\ rows' = rows \cup {[exec |-> e, client |-> c, batch |-> b] :
                                   e \in got \ (skipped \cup Recorded)}
            /\ reconciled' = IF handler[h].full /\ skipped = {} THEN reconciled \cup {b} ELSE reconciled
      BY <1>5, <2>1 DEF SaveListed
    <3> QED
      BY <3>1
  <2>3. ASSUME NEW e \in new
        PROVE dialled[e] = [client |-> c, batch |-> b] /\ dialled[e].batch # None
    <3>1. e \in Execs /\ dialled[e].batch = b /\ b # None
      BY <2>1, <2>2, NoneAssumption DEF Members
    <3>2. dialled[e] \in Owner /\ dialled[e].client = created[b]
      BY <3>1 DEF PlacementTypeOK, NotDialled, Owned, MembersOwned
    <3>3. created[b] = c
      BY <2>1 DEF Owned, RowsAttributed
    <3> QED
      BY <3>1, <3>2, <3>3 DEF Owner
  <2>4. rows \subseteq rows' /\ Recorded' = Recorded \cup new
    <3>1. ASSUME NEW w \in W PROVE w.exec \in new
      BY <2>2
    <3>2. ASSUME NEW e \in new PROVE \E w \in W : w.exec = e
      <4>1. [exec |-> e, client |-> c, batch |-> b] \in W
        BY <2>2
      <4>2. [exec |-> e, client |-> c, batch |-> b].exec = e
        OBVIOUS
      <4> QED
        BY <4>1, <4>2
    <3>3. {w.exec : w \in W} = new
      BY <3>1, <3>2
    <3> QED
      BY <2>2, <3>3, RecordedGrows
  <2>5. \A w \in rows' : w \in rows \/ dialled[w.exec] = [client |-> w.client, batch |-> w.batch]
    BY <2>2, <2>3
  <2>6. /\ new \cap orphaned = {}
        /\ \A r \in Requests : request[r].pc = "record" /\ request[r].kind = "call"
                                => request[r].id \notin new
    BY <2>3, MembersFree
  <2>7. \A d \in reconciled' : \/ d \in reconciled
                               \/ d \in finished /\ Members(d) \subseteq Recorded'
    <3>1. CASE handler[h].full /\ skipped = {}
      BY <1>3, <1>5, <2>1, <2>2, <2>4, <3>1 DEF SaveListed, OwnHandler
    <3>2. CASE ~(handler[h].full /\ skipped = {})
      BY <2>2, <3>2
    <3> QED
      BY <3>1, <3>2
  <2> QED
    BY <1>1, <1>2, <2>4, <2>5, <2>6, <2>7, RowsAdded
<1> QED
  BY <1>4, <1>5

\* A page of a listing: the last one makes it full only if it left nothing out.
LEMMA GetPageOwns ==
  ASSUME PlacementTypeOK, Owned, NEW h \in Handlers, GetPage(h)
  PROVE Owned'
<1>1. handler[h] \in Listing /\ handler[h].pc = "list" /\ OwnHandler(handler[h])
  BY HandlerShape DEF GetPage, Owned, HandlersOwn
<1>2. PICK b, next, pc, full, x :
        /\ b = handler[h].batch /\ next \subseteq Members(b) /\ full \in BOOLEAN
        /\ full => b \in finished /\ Members(b) \ handler[h].got \subseteq next
        /\ pc = "save" \/ (pc = "list" /\ ~full /\ handler[h].page + 1 # MaxPages)
        /\ x = [handler[h] EXCEPT !.got = handler[h].got \cup next,
                                 !.page = handler[h].page + 1, !.pc = pc, !.full = full]
        /\ handler' = [handler EXCEPT ![h] = x]
  <2> DEFINE b == handler[h].batch
             rest == Members(b) \ handler[h].got
             next == NextPage(rest)
             hasMore == rest # next
             pc == IF hasMore /\ ~(handler[h].page + 1 = MaxPages) THEN "list" ELSE "save"
             full == ~hasMore /\ b \in finished
  <2>1. handler' = [handler EXCEPT ![h] =
          [handler[h] EXCEPT !.got = handler[h].got \cup next, !.page = handler[h].page + 1,
             !.pc = pc, !.full = full]]
    BY DEF GetPage
  <2>2. next \subseteq Members(b) /\ (full => b \in finished /\ rest \subseteq next)
    BY DEF NextPage
  <2>3. full \in BOOLEAN /\ (pc = "save" \/ (pc = "list" /\ ~full /\ handler[h].page + 1 # MaxPages))
    OBVIOUS
  <2> HIDE DEF next, hasMore, pc, full
  <2> QED
    BY <2>1, <2>2, <2>3
<1>3. /\ x.batch = b /\ x.got = handler[h].got \cup next /\ x.page = handler[h].page + 1
      /\ x.pc = pc /\ x.full = full
  BY <1>1, <1>2 DEF Listing
<1>4. handler[h].page \in Nat /\ handler[h].page < MaxPages /\ MaxPages \in Nat
  BY <1>1, PageAssumption DEF OwnHandler, Listing
<1>5. batchRow[b] # None /\ handler[h].got \subseteq Members(b)
  BY <1>1, <1>2 DEF OwnHandler
<1>6. OwnHandler(x)
  <2>1. x.pc # "insert" /\ x.got \subseteq Members(x.batch) /\ batchRow[x.batch] # None
    BY <1>2, <1>3, <1>5
  <2>2. x.pc = "list" => ~x.full /\ x.page < MaxPages
    BY <1>2, <1>3, <1>4
  <2>3. x.full => x.batch \in finished /\ Members(x.batch) \subseteq x.got
    BY <1>2, <1>3
  <2> QED
    BY <2>1, <2>2, <2>3 DEF OwnHandler
<1>7. UNCHANGED <<engineVars, recordVars, request, orphaned, reconciled>>
  BY DEF GetPage
<1> QED
  BY <1>2, <1>6, <1>7, HandlerMoves

\* Every step of placement keeps ownership.
LEMMA PlacementStepOwns ==
  ASSUME PlacementTypeOK, PlacementTypeOK', Owned, PlacementStep
  PROVE Owned'
<1>1. ASSUME NEW r \in Requests, NEW c \in Clients, NEW a \in Agents,
             NEW kind \in {"call", "batch"}, NEW provided \in SUBSET Vars,
             NEW validate \in BOOLEAN, StartPlacement(r, c, a, kind, provided, validate)
      PROVE Owned'
  <2>1. request[r].pc = "idle" /\ request'[r].pc = "dispatch"
    BY <1>1 DEF StartPlacement, Idle, PlacementTypeOK
  <2>2. orphaned' = orphaned \cup {e \in Execs :
          \E q \in {r} : request[q].pc = "record" /\ request[q].id = e}
    BY <1>1, <2>1 DEF StartPlacement
  <2>3. \A q \in Requests \ {r} : request'[q] = request[q]
    BY <1>1 DEF StartPlacement, PlacementTypeOK
  <2>4. {r} \in SUBSET Requests /\ \A q \in {r} : request'[q].pc # "record"
    BY <2>1
  <2> QED
    BY <1>1, <2>2, <2>3, <2>4, GiveUp DEF StartPlacement
<1>2. ASSUME NEW r \in Requests, PlaceRefused(r) \/ RecordFails(r) PROVE Owned'
  <2>1. request'[r].pc = "idle" /\ \A q \in Requests \ {r} : request'[q] = request[q]
    BY <1>2 DEF PlaceRefused, RecordFails, Idle, PlacementTypeOK
  <2>2. orphaned' = orphaned \cup {e \in Execs :
          \E q \in {r} : request[q].pc = "record" /\ request[q].id = e}
    BY <1>2 DEF PlaceRefused, RecordFails
  <2>3. {r} \in SUBSET Requests /\ \A q \in {r} : request'[q].pc # "record"
    BY <2>1
  <2>4. UNCHANGED <<engineVars, recordVars, handler, reconciled>>
    BY <1>2 DEF PlaceRefused, RecordFails
  <2> QED
    BY <2>1, <2>2, <2>3, <2>4, GiveUp
<1>3. ASSUME NEW h \in Handlers, NEW e \in Execs, Webhook(h, e) PROVE Owned'
  <2>1. PICK b, x : /\ b = dialled[e].batch
                    /\ x = [pc |-> "insert", exec |-> e, batch |-> b, client |-> batchRow[b]]
                    /\ handler' = [handler EXCEPT ![h] = x]
    BY <1>3 DEF Webhook
  <2>2. b # None /\ batchRow[b] # None /\ dialled[e].client = created[b]
    BY <1>3, <2>1 DEF Webhook, Owned, MembersOwned
  <2>3. dialled[e] \in Owner /\ b \in Batches
    BY <2>1, <2>2 DEF PlacementTypeOK, NotDialled, Owner
  <2>4. batchRow[b] = created[b]
    BY <2>2, <2>3 DEF Owned, RowsAttributed
  <2>5. dialled[e] = [client |-> batchRow[b], batch |-> b]
    BY <2>1, <2>2, <2>3, <2>4 DEF Owner
  <2>6. OwnHandler(x)
    BY <2>1, <2>5 DEF OwnHandler
  <2> QED
    BY <1>3, <2>1, <2>6, HandlerMoves DEF Webhook
<1>4. ASSUME NEW h \in Handlers, NEW b \in Batches, Reconcile(h, b) PROVE Owned'
  <2>1. PICK x : /\ x = [pc |-> "list", batch |-> b, got |-> {}, page |-> 0, full |-> FALSE]
                 /\ handler' = [handler EXCEPT ![h] = x]
    BY <1>4 DEF Reconcile
  <2>2. OwnHandler(x)
    BY <1>4, <2>1, PageAssumption DEF OwnHandler, Reconcile
  <2> QED
    BY <1>4, <2>1, <2>2, HandlerMoves DEF Reconcile
<1>5. ASSUME NEW h \in Handlers, PageMalformed(h) PROVE Owned'
  <2>1. PICK x : /\ x = [handler[h] EXCEPT !.pc = "save"]
                 /\ handler' = [handler EXCEPT ![h] = x]
    BY <1>5 DEF PageMalformed
  <2>2. handler[h] \in Listing /\ OwnHandler(handler[h]) /\ handler[h].pc = "list"
    BY <1>5, HandlerShape DEF PageMalformed, Owned, HandlersOwn
  <2>3. x.pc = "save" /\ ~x.full /\ x.batch = handler[h].batch /\ x.got = handler[h].got
    BY <2>1, <2>2 DEF Listing, OwnHandler
  <2>4. OwnHandler(x)
    BY <2>2, <2>3 DEF OwnHandler
  <2> QED
    BY <1>5, <2>1, <2>4, HandlerMoves DEF PageMalformed
<1>6. ASSUME NEW h \in Handlers, ReportFails(h) PROVE Owned'
  BY <1>6, IdleOwns, HandlerMoves DEF ReportFails
<1> QED
  BY <1>1, <1>2, <1>3, <1>4, <1>5, <1>6, PlaceOwns, RecordCallOwns, RecordBatchOwns, EngineOwns,
     ReportOwns, GetPageOwns DEF PlacementStep

\* A crash gives up what the requests of the process were about to record.
LEMMA CrashOwns ==
  ASSUME PlacementTypeOK, Owned, NEW p \in Procs, Crash(p)
  PROVE PlacementTypeOK' /\ Owned'
<1>1. PICK R \in SUBSET Requests : R = {r \in Requests : HostOf[r] = p}
  OBVIOUS
<1>2. /\ \A r \in Requests \ R : request'[r] = request[r]
      /\ \A r \in R : request'[r].pc # "record"
  BY <1>1 DEF Crash, Idle
<1>3. ASSUME NEW e \in Execs, NEW r \in Requests, request[r].pc = "record", request[r].id = e
      PROVE e \in Singles
  <2>1. request[r].kind = "call" /\ request[r].client # None
    BY <1>3, RequestShape, IdsAssumption, NoneAssumption DEF Owned, RequestsOwn, OwnRequest
  <2>2. dialled[e] = [client |-> request[r].client, batch |-> None]
    BY <1>3, <2>1 DEF Owned, RequestsOwn, OwnRequest
  <2>3. dialled[e].client # None /\ dialled[e].batch = None
    BY <2>1, <2>2
  <2> QED
    BY <2>3 DEF Singles
<1>4. orphaned' = orphaned \cup {e \in Execs :
        \E r \in R : request[r].pc = "record" /\ request[r].id = e}
  <2>1. Singles \subseteq Execs
    BY DEF Singles
  <2> QED
    BY <1>1, <1>3, <2>1 DEF Crash
<1>5. \A h \in Handlers : handler'[h] = handler[h] \/ OwnHandler(handler'[h])
  BY IdleOwns DEF Crash
<1>6. Owned'
  BY <1>2, <1>4, <1>5, GiveUp DEF Crash
<1>7. PlacementTypeOK'
  BY <1>4 DEF Crash, PlacementTypeOK, engineVars, recordVars
<1> QED
  BY <1>6, <1>7

-----------------------------------------------------------------------------
(* A request places once.  No set of the model is assumed finite: those    *)
(* that are counted start empty and grow one by one.                       *)

Made == {b \in Batches : created[b] # None}
Sending == {r \in Requests : request[r].pc = "dispatch"}

Counted ==
  /\ IsFiniteSet(Singles) /\ IsFiniteSet(Made) /\ IsFiniteSet(Sending)
  /\ Cardinality(Singles) + Cardinality(Made) + Cardinality(Sending) <= asked

\* Nothing is placed, and no request starts to.
LEMMA CountKept ==
  ASSUME PlacementTypeOK, Counted, Singles' = Singles, Made' = Made, Sending' \subseteq Sending,
         asked' = asked
  PROVE Counted'
<1>1. /\ IsFiniteSet(Sending') /\ Cardinality(Sending') \in Nat
      /\ Cardinality(Sending') <= Cardinality(Sending)
  BY FS_Subset, FS_CardinalityType DEF Counted
<1>2. Cardinality(Singles) \in Nat /\ Cardinality(Made) \in Nat /\ Cardinality(Sending) \in Nat
  BY FS_CardinalityType DEF Counted
<1>3. Cardinality(Singles) + Cardinality(Made) + Cardinality(Sending') <= asked
  BY <1>1, <1>2 DEF Counted, PlacementTypeOK
<1> QED
  BY <1>1, <1>3 DEF Counted

\* A request that passed its checks is to be sent.
LEMMA CountAsked ==
  ASSUME PlacementTypeOK, Counted, NEW r \in Requests, r \notin Sending,
         Singles' = Singles, Made' = Made, Sending' = Sending \cup {r}, asked' = asked + 1
  PROVE Counted'
<1>1. IsFiniteSet(Sending') /\ Cardinality(Sending') = Cardinality(Sending) + 1
  BY FS_AddElement DEF Counted
<1>2. Cardinality(Singles) \in Nat /\ Cardinality(Made) \in Nat /\ Cardinality(Sending) \in Nat
  BY FS_CardinalityType DEF Counted
<1>3. Cardinality(Singles) + Cardinality(Made) + Cardinality(Sending') <= asked + 1
  BY <1>1, <1>2 DEF Counted, PlacementTypeOK
<1> QED
  BY <1>1, <1>3 DEF Counted

\* What the engine accepted is no longer to be sent.
LEMMA CountPlaced ==
  ASSUME PlacementTypeOK, Counted, NEW r \in Sending, NEW id, Sending' = Sending \ {r},
         asked' = asked,
         \/ Singles' = Singles \cup {id} /\ Made' = Made
         \/ Made' = Made \cup {id} /\ Singles' = Singles
  PROVE Counted'
<1>1. IsFiniteSet(Sending') /\ Cardinality(Sending') = Cardinality(Sending) - 1
  BY FS_RemoveElement DEF Counted
<1>2. /\ Cardinality(Singles) \in Nat /\ Cardinality(Made) \in Nat
      /\ Cardinality(Sending) \in Nat
  BY FS_CardinalityType DEF Counted
<1>3. ASSUME NEW S, IsFiniteSet(S)
      PROVE /\ IsFiniteSet(S \cup {id})
            /\ Cardinality(S \cup {id}) \in {Cardinality(S), Cardinality(S) + 1}
  BY <1>3, FS_AddElement
<1>4. IsFiniteSet(Singles') /\ IsFiniteSet(Made')
  BY <1>3 DEF Counted
<1>5. Cardinality(Singles') + Cardinality(Made') <= Cardinality(Singles) + Cardinality(Made) + 1
  <2>1. CASE Singles' = Singles \cup {id} /\ Made' = Made
    <3>1. Cardinality(Singles') \in {Cardinality(Singles), Cardinality(Singles) + 1}
      BY <1>3, <2>1 DEF Counted
    <3> QED
      BY <1>2, <2>1, <3>1
  <2>2. CASE Made' = Made \cup {id} /\ Singles' = Singles
    <3>1. Cardinality(Made') \in {Cardinality(Made), Cardinality(Made) + 1}
      BY <1>3, <2>2 DEF Counted
    <3> QED
      BY <1>2, <2>2, <3>1
  <2> QED
    BY <2>1, <2>2
<1>6. Cardinality(Singles') \in Nat /\ Cardinality(Made') \in Nat
  BY <1>4, FS_CardinalityType
<1>7. Cardinality(Singles') + Cardinality(Made') + Cardinality(Sending') <= asked'
  BY <1>1, <1>2, <1>5, <1>6 DEF Counted, PlacementTypeOK
<1> QED
  BY <1>1, <1>4, <1>7 DEF Counted

\* Every step of placement keeps the count.
LEMMA PlacementStepCounts ==
  ASSUME PlacementTypeOK, Counted, PlacementStep
  PROVE Counted'
<1> USE DEF engineVars, recordVars
<1>1. ASSUME NEW r \in Requests, NEW c \in Clients, NEW a \in Agents,
             NEW kind \in {"call", "batch"}, NEW provided \in SUBSET Vars,
             NEW validate \in BOOLEAN, StartPlacement(r, c, a, kind, provided, validate)
      PROVE Counted'
  <2>1. request[r].pc # "dispatch" /\ request'[r].pc = "dispatch"
    BY <1>1 DEF StartPlacement, Idle, PlacementTypeOK
  <2>2. r \notin Sending /\ Sending' = Sending \cup {r}
    BY <1>1, <2>1 DEF StartPlacement, Sending, PlacementTypeOK
  <2>3. Singles' = Singles /\ Made' = Made /\ asked' = asked + 1
    BY <1>1 DEF StartPlacement, Singles, Made
  <2> QED
    BY <2>2, <2>3, CountAsked
<1>2. ASSUME NEW r \in Requests, NEW id \in Execs \cup Batches,
             Place(r, id) \/ PlaceUnanswered(r, id)
      PROVE Counted'
  <2>1. /\ request[r].pc = "dispatch" /\ Accepts(r, id) /\ finished' = finished /\ asked' = asked
        /\ request'[r].pc # "dispatch" /\ \A q \in Requests \ {r} : request'[q] = request[q]
    BY <1>2 DEF Place, PlaceUnanswered, Idle, PlacementTypeOK
  <2>2. r \in Sending /\ Sending' = Sending \ {r}
    BY <2>1 DEF Sending
  <2>3. \/ Singles' = Singles \cup {id} /\ created' = created
        \/ /\ Singles' = Singles /\ id \in Batches
           /\ created' = [created EXCEPT ![id] = request[r].client]
    BY <2>1, AcceptsGrows
  <2>4. request[r].client # None
    BY <2>1, RequestShape, NoneAssumption
  <2>5. \/ Singles' = Singles \cup {id} /\ Made' = Made
        \/ Made' = Made \cup {id} /\ Singles' = Singles
    BY <2>3, <2>4 DEF Made, PlacementTypeOK
  <2> QED
    BY <2>1, <2>2, <2>5, CountPlaced
<1>3. ASSUME NEW r \in Requests,
             PlaceRefused(r) \/ RecordCall(r) \/ RecordBatch(r) \/ RecordFails(r)
      PROVE Counted'
  <2>1. UNCHANGED <<dialled, created, asked>> /\ request' = [request EXCEPT ![r] = Idle]
    BY <1>3 DEF PlaceRefused, RecordCall, RecordBatch, RecordFails
  <2>2. Singles' = Singles /\ Made' = Made /\ Sending' \subseteq Sending
    BY <2>1 DEF Singles, Made, Sending, Idle, PlacementTypeOK
  <2> QED
    BY <2>1, <2>2, CountKept
<1>4. ASSUME NEW b \in Batches, EngineFinishes(b) \/ \E e \in Execs : EngineDials(b, e)
      PROVE Counted'
  <2>1. UNCHANGED <<created, request, asked>>
    BY <1>4 DEF EngineFinishes, EngineDials
  <2>2. Singles' = Singles
    BY <1>4, NoneAssumption DEF EngineFinishes, EngineDials, NextExec, NotDialled, Singles, PlacementTypeOK
  <2>3. Made' = Made /\ Sending' = Sending
    BY <2>1 DEF Made, Sending
  <2> QED
    BY <2>1, <2>2, <2>3, CountKept
<1>5. ASSUME NEW h \in Handlers,
             \/ \E e \in Execs : Webhook(h, e)
             \/ \E b \in Batches : Reconcile(h, b)
             \/ InsertReported(h) \/ GetPage(h) \/ PageMalformed(h) \/ ReportFails(h)
             \/ SaveListed(h)
      PROVE Counted'
  <2>1. UNCHANGED <<dialled, created, request, asked>>
    BY <1>5 DEF Webhook, Reconcile, InsertReported, GetPage, PageMalformed, ReportFails, SaveListed
  <2>2. Singles' = Singles /\ Made' = Made /\ Sending' = Sending
    BY <2>1 DEF Singles, Made, Sending
  <2> QED
    BY <2>1, <2>2, CountKept
<1> QED
  BY <1>1, <1>2, <1>3, <1>4, <1>5 DEF PlacementStep

-----------------------------------------------------------------------------
(* The theorems.                                                           *)

Inv == CatalogTypeOK /\ DriftInv /\ PlacementTypeOK /\ Owned /\ Counted

\* Nothing is placed at the start.
LEMMA InitInv == Init => Inv
<1> SUFFICES ASSUME Init PROVE Inv
  OBVIOUS
<1>1. CatalogTypeOK
  <2>1. left \in Budget /\ left.items \subseteq Items
    BY BudgetAssumption DEF Init, CatalogInit, Budget
  <2>2. catalog \in [Items -> Presence] /\ config \in [Clients -> [Agents -> Setting]]
    BY DEF Init, CatalogInit, Presence, Setting
  <2>3. sync \in [Syncers -> Sync] /\ edit \in [Operators -> Edit \cup {NoEdit}]
    BY NoSyncType DEF Init, CatalogInit
  <2> QED
    BY <2>1, <2>2, <2>3 DEF Init, CatalogInit, CatalogTypeOK
<1>2. DriftInv
  <2>1. \A s \in Syncers : Free(sync[s])
    BY NoSyncFree DEF Init, CatalogInit
  <2>2. SyncsSound /\ LocksApart /\ LossSeen
    BY <2>1 DEF Free, SyncsSound, LocksApart, Locked, LossSeen
  <2>3. \A i \in Items : catalog[i] # "missing"
    BY DEF Init, CatalogInit
  <2> QED
    BY <2>2, <2>3 DEF DriftInv, DriftKnown, Items
<1>3. PlacementTypeOK
  BY DEF Init, PlacementTypeOK
<1>4. Singles = {} /\ Made = {} /\ Sending = {} /\ Recorded = {}
  BY DEF Init, Singles, Made, Sending, Recorded, NotDialled, Idle
<1>5. Owned
  BY <1>4, IdleOwns DEF Init, Owned, MembersOwned, RequestsOwn, OwnRequest, RequestsApart, HandlersOwn,
     OrphansSingle, ReconciledFinished, RowsAttributed, CallsAccounted, ReconciledComplete, NotDialled, Idle
<1>6. Counted
  BY <1>3, <1>4, FS_EmptySet DEF Counted, Init
<1> QED
  BY <1>1, <1>2, <1>3, <1>5, <1>6 DEF Inv

\* Every step keeps the invariant.
LEMMA NextInv == Inv /\ [Next]_vars => Inv'
<1> SUFFICES ASSUME Inv, [Next]_vars PROVE Inv'
  OBVIOUS
<1> USE DEF Inv
\* Where placement rests, so does all it owns and counts.
<1>1. ASSUME UNCHANGED placementVars PROVE PlacementTypeOK' /\ Owned' /\ Counted'
  <2>1. UNCHANGED <<engineVars, recordVars, request, handler, asked, orphaned, reconciled>>
    BY <1>1 DEF placementVars, engineVars, recordVars
  <2>2. {} \in SUBSET Requests /\ orphaned' = orphaned \cup {e \in Execs :
          \E r \in {} : request[r].pc = "record" /\ request[r].id = e}
    BY <2>1
  <2>3. Owned'
    BY <2>1, <2>2, GiveUp
  <2>4. PlacementTypeOK'
    BY <2>1 DEF PlacementTypeOK, engineVars, recordVars
  <2>5. Counted'
    BY <2>1, CountKept DEF Singles, Made, Sending, engineVars
  <2> QED
    BY <2>3, <2>4, <2>5
<1>2. CASE CatalogStep /\ UNCHANGED placementVars
  BY <1>1, <1>2, CatalogStepType, CatalogStepDrift
<1>3. CASE PlacementStep
  <2>1. PlacementTypeOK'
    BY <1>3, PlacementStepType
  <2> QED
    BY <1>3, <2>1, PlacementRests, PlacementStepOwns, PlacementStepCounts
<1>4. ASSUME NEW p \in Procs, Crash(p) PROVE Inv'
  <2>1. UNCHANGED <<dialled, created, asked>>
          /\ \A r \in Requests : request'[r] \in {request[r], Idle}
    BY <1>4 DEF Crash, engineVars
  <2>2. Singles' = Singles /\ Made' = Made /\ Sending' \subseteq Sending
    BY <2>1 DEF Singles, Made, Sending, Idle
  <2> QED
    BY <1>4, <2>1, <2>2, CrashRests, CrashOwns, CountKept
<1>5. CASE UNCHANGED vars
  <2>1. UNCHANGED placementVars /\ UNCHANGED catalogVars
    BY <1>5 DEF vars
  <2>2. left' \in Budget
    BY <2>1 DEF catalogVars, CatalogTypeOK
  <2> QED
    BY <1>1, <2>1, <2>2, CatalogRests DEF catalogVars
<1> QED
  BY <1>2, <1>3, <1>4, <1>5 DEF Next

\* The invariant holds in every reachable state.
LEMMA Invariance == Spec => []Inv
BY InitInv, NextInv, PTL DEF Spec

\* Every column has a value of its type, through placement, reports, catalog
\* synchronisation and crashes; a call's row always has an owner.
THEOREM TypeCorrect == Spec => []TypeOK
<1>1. Inv => TypeOK
  BY TypeParts DEF Inv
<1> QED
  BY <1>1, Invariance, PTL

\* A client whose enabled agent the catalog marks missing has a drift event,
\* unless the agent was enabled in the middle of the synchronisation.
THEOREM LossesTold == Spec => []DriftKnown
<1>1. Inv => DriftKnown
  BY DEF Inv, DriftInv
<1> QED
  BY <1>1, Invariance, PTL

\* Whoever inserts first, a row names the client and batch the engine works
\* for, and a recorded batch names the client who created it.
THEOREM RowsRight == Spec => []RowsAttributed
<1>1. Inv => RowsAttributed
  BY DEF Inv, Owned
<1> QED
  BY <1>1, Invariance, PTL

\* The engine never holds more calls and batches than requests passed their
\* checks, whatever answers are lost and processes crash.
THEOREM NoneTwice == Spec => []PlacedOnce
<1>1. Inv => PlacedOnce
  BY DEF Inv, Counted, PlacedOnce, Made, Sending
<1> QED
  BY <1>1, Invariance, PTL

\* A single call the engine accepted is recorded, about to be, or was given up
\* by a request that failed; what was given up is never recorded.
THEOREM NoCallUnaccounted == Spec => []CallsAccounted
<1>1. Inv => CallsAccounted
  BY DEF Inv, Owned
<1> QED
  BY <1>1, Invariance, PTL

\* A batch listed to its end after it finished has a row for each execution.
THEOREM ListingsComplete == Spec => []ReconciledComplete
<1>1. Inv => ReconciledComplete
  BY DEF Inv, Owned
<1> QED
  BY <1>1, Invariance, PTL

=============================================================================
