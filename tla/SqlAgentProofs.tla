--------------------------- MODULE SqlAgentProofs ---------------------------
(***************************************************************************)
(* Proofs about SqlAgent and the ingestions it is composed with.  The two  *)
(* halves share no state but the world, so the invariant has two halves:   *)
(* Questioned says what a question carries at each step of the pipeline,   *)
(* and Ingested what the rows, and the transactions under way, are.        *)
(***************************************************************************)
EXTENDS SqlAgent, FiniteSetTheorems, WellFoundedInduction, TLAPS

-----------------------------------------------------------------------------
(* The invariant of a question.                                            *)

\* A text of the guard, made of a query the models wrote.
FromGuard(sql, tables, q) ==
    \E written \in Queries :
        LET guard == GuardSql(written, q.allow)
        IN  guard.ok /\ sql = guard.sql /\ tables = guard.tables

\* The text is the one the database planned, on tables it had then.
Planned(sql, tables, q) ==
    ExplainValidation => q.explained = sql /\ tables \subseteq DOMAIN q.schema

\* The repairs a question was granted are those asked of a model, but for the
\* one it waits for.
Counted(q) ==
    /\ q.repairs \in 0 .. MaxRepairs
    /\ q.asked \in 0 .. MaxRepairs
    /\ q.pc = "repair" => q.repairs = q.asked + 1
    /\ q.pc \notin {"repair", "ended"} => q.repairs = q.asked
    /\ q.audits \in {0, 1}
    /\ q.pc # "ended" => q.audits = 0 /\ q.answer = None
    /\ q.pc = "ended" /\ q.audits = 1 => q.answer.repairs = q.asked

\* From its generation to its check the query is one the models wrote; under
\* review it is what the guard made of it, and so it is in an answer.
Carried(q) ==
    /\ q.pc \in {"vote", "critic", "check"} => q.sql \in Queries
    /\ q.pc = "review" => /\ FromGuard(q.guarded.sql, q.guarded.tables, q)
                          /\ Planned(q.guarded.sql, q.guarded.tables, q)
    /\ q.answer # None /\ q.answer.status = "built" =>
          /\ FromGuard(q.answer.sql, q.answer.tables, q)
          /\ Planned(q.answer.sql, q.answer.tables, q)
          /\ q.approved = q.answer.sql

Question(q) ==
    /\ DOMAIN q = DOMAIN Unasked
    /\ q.pc \in Asking
    /\ Counted(q)
    /\ Carried(q)

Questioned ==
    /\ request = [r \in Requests |-> request[r]]
    /\ \A r \in Requests : Question(request[r])

-----------------------------------------------------------------------------
(* The invariant of the rows and of the transactions under way.            *)

RowFields == {"key", "born", "text", "content", "active", "embedding"}

\* A row as it is after "now" commits: only a table is ever inactive, and a
\* column has no text.
Row(kind, r, now) ==
    /\ DOMAIN r = RowFields
    /\ r.born \in 0 .. now - 1
    /\ r.active \in BOOLEAN
    /\ kind # "table" => r.active
    /\ kind = "column" => r.text = None

Rows ==
    /\ world \in Worlds
    /\ commits \in Nat
    /\ DOMAIN store = Kinds
    /\ \A k \in Kinds : \A r \in store[k] : Row(k, r, commits)
    /\ \A k \in Kinds : \A r, s \in store[k] : Identity(r) = Identity(s) => r = s
    /\ \A k \in UniqueKinds : \A r, s \in store[k] : r.key = s.key => r = s

\* An update drops a table, or gives a row that is not as wanted, or that was
\* dropped, the wanted content and no embedding.
Sound(kind, u, now) ==
    /\ Row(kind, u.row, now) /\ Row(kind, u.to, now)
    /\ u.to = [f \in RowFields |-> u.to[f]]
    /\ Identity(u.to) = Identity(u.row)
    /\ \/ /\ u.row.active /\ ~u.to.active
          /\ Embeddable(u.to) = Embeddable(u.row)
          /\ u.to.embedding = u.row.embedding
       \/ /\ u.to.active
          /\ u.to.embedding = None
          /\ ~u.row.active \/ Embeddable(u.to) # Embeddable(u.row)

Writes(kind, w, now) ==
    /\ \A a, b \in w.inserts : a.key = b.key => a = b
    /\ kind = "column" => \A a \in w.inserts : a.text = None
    /\ \A u \in w.updates : Sound(kind, u, now)

Run(run, now) ==
    /\ DOMAIN run = DOMAIN NoIngest
    /\ run.pc \in {"idle", "file", "tables", "columns", "begun", "loaded"}
    /\ run.phase \in 1 .. Len(Phases) + 1
    /\ run.alone \in BOOLEAN
    /\ run.pc = "loaded" => run.phase <= Len(Phases)
    /\ run.pc # "loaded" => run.loaded = {}
    /\ run.pc = "loaded" => \A r \in run.loaded : Row(Kind(run), r, now)
    /\ DOMAIN run.writes = Kinds
    /\ run.pc \notin {"begun", "loaded"} =>
          run.phase = 1 /\ run.writes = NoIngest.writes
    /\ \A k \in Kinds : DOMAIN run.writes[k] = DOMAIN NoWrites
                           /\ Writes(k, run.writes[k], now)

Runs == ingest = [i \in Ingesters |-> ingest[i]]
            /\ \A i \in Ingesters : Run(ingest[i], commits)

\* What may have become of a row since it was loaded: its embedding stands
\* only if nothing else of it has changed, but that its table was dropped.
Aged(old, now) ==
    Identity(old) = Identity(now) /\ now.embedding # None =>
        /\ now.embedding = old.embedding
        /\ Embeddable(now) = Embeddable(old)
        /\ now.active => old.active

OvertakenRun(run, rows) ==
    /\ run.pc = "loaded" =>
          \A r \in run.loaded : \A s \in rows[Kind(run)] : Aged(r, s)
    /\ \A k \in Kinds : \A u \in run.writes[k].updates :
          \A s \in rows[k] : Aged(u.row, s)

Overtaken == \A i \in Ingesters : OvertakenRun(ingest[i], store)

Locked(i, k) == LockedKeys(k, ingest[i].writes[k])

\* Keys that the schema keeps unique are inserted once.
KeysLocked ==
    \A k \in UniqueKinds : \A i \in Ingesters :
        /\ \A r \in store[k] : r.key \notin Locked(i, k)
        /\ \A j \in Ingesters \ {i} : Locked(i, k) \cap Locked(j, k) = {}

Apart ==
    /\ raced \in BOOLEAN
    /\ \A i \in Ingesters : InTransaction(i) /\ ingest[i].alone =>
          \A j \in Ingesters \ {i} : ~InTransaction(j)
    /\ ~raced => \A i \in Ingesters : InTransaction(i) => ingest[i].alone

\* What a phase of the transaction flushes, from what it has read and loads.
At(run, p, rows) ==
    [phase |-> p, names |-> run.names, columns |-> run.columns,
     fks |-> run.fks, spec |-> run.spec,
     loaded |-> {r \in rows[Phases[p]] :
                    Phases[p] = "column" => r.key[1] \in run.names}]

\* A transaction that runs alone has written what the rows still ask for.
Exact(run, rows) ==
    /\ run.pc = "loaded" => run.loaded = At(run, run.phase, rows).loaded
    /\ \A p \in 1 .. Len(Phases) : p < run.phase =>
          \E keep \in OnePerKey(At(run, p, rows).loaded) :
              run.writes[Phases[p]] = FlushOf(At(run, p, rows), keep)

AloneExact ==
    \A i \in Ingesters : InTransaction(i) /\ ingest[i].alone => Exact(ingest[i], store)

\* While no two ingestions have overlapped, every key is stored once and a
\* table's text is that of its content.
Tidy ==
    ~raced =>
        /\ \A k \in Kinds : \A r, s \in store[k] : r.key = s.key => r = s
        /\ \A r \in store["table"] : r.content[1] = r.text

Ingested ==
    /\ Rows /\ Runs /\ Overtaken /\ KeysLocked /\ Apart /\ AloneExact
    /\ Tidy /\ EmbeddingsFresh /\ StructureHeals /\ StoreMirrors

-----------------------------------------------------------------------------
(* How a question is changed.                                              *)

\* A question that is not asked yet carries nothing.
LEMMA UnaskedQuestion == Question(Unasked)
BY MaxRepairsAssumption DEF Question, Unasked, Asking, Counted, Carried

\* A question goes on to a step that needs no query.
LEMMA GoesOn ==
    ASSUME NEW q, Question(q), q.pc \notin {"repair", "ended"},
           NEW pc \in {"load", "ambiguity", "select", "prune", "generate"}
    PROVE  Question([q EXCEPT !.pc = pc])
<1> DEFINE new == [q EXCEPT !.pc = pc]
<1>1. /\ DOMAIN new = DOMAIN Unasked
      /\ new.pc = pc
      /\ new.repairs = q.repairs /\ new.asked = q.asked /\ new.audits = q.audits
      /\ new.answer = q.answer
  BY DEF Question, Unasked
<1>2. Counted(new)
  BY <1>1 DEF Question, Counted
<1>3. Carried(new)
  BY <1>1 DEF Question, Counted, Carried
<1> QED
  BY <1>1, <1>2, <1>3 DEF Question, Asking

\* A question is answered without a query, audited or not.
LEMMA EndsWithout ==
    ASSUME NEW q, Question(q), q.pc # "ended", NEW audits \in {0, 1},
           q.pc = "repair" => audits = 0,
           NEW status, status # "built"
    PROVE  Question([q EXCEPT !.pc = "ended",
                              !.answer = [status |-> status, repairs |-> q.repairs],
                              !.audits = @ + audits])
<1> DEFINE told == [status |-> status, repairs |-> q.repairs]
<1> DEFINE new == [q EXCEPT !.pc = "ended", !.answer = told,
                            !.audits = @ + audits]
<1>1. told.repairs = q.repairs /\ told.status # "built"
  OBVIOUS
<1> HIDE DEF told
<1>2. /\ DOMAIN new = DOMAIN Unasked
      /\ new.pc = "ended"
      /\ new.repairs = q.repairs /\ new.asked = q.asked
      /\ new.audits = q.audits + audits
      /\ new.answer = told
  BY DEF Question, Unasked
<1>3. Counted(new)
  BY <1>1, <1>2 DEF Question, Counted
<1>4. Carried(new)
  BY <1>1, <1>2 DEF Carried
<1>5. Question(new)
  BY <1>2, <1>3, <1>4 DEF Question, Asking
<1> QED
  BY <1>5 DEF told

\* One question changes, the others stay.
LEMMA OneSet ==
    ASSUME Questioned, NEW r \in Requests, NEW new, Question(new),
           request' = [request EXCEPT ![r] = new]
    PROVE  Questioned'
BY DEF Questioned

\* A query that is not accepted is repaired while the budget lasts.
LEMMA RejectKeeps ==
    ASSUME Questioned, NEW r \in Requests, NEW sql, Reject(r, sql),
           request[r].pc \notin {"repair", "ended"}
    PROVE  Questioned'
<1> DEFINE q == request[r]
<1>0. Question(q)
  BY DEF Questioned
<1>1. CASE q.repairs >= MaxRepairs
  <2> DEFINE new == [q EXCEPT !.pc = "ended",
                      !.answer = [status |-> "repair_exhausted",
                                  repairs |-> q.repairs],
                      !.audits = @ + 1]
  <2>1. Question(new)
    BY <1>0, EndsWithout
  <2>2. request' = [request EXCEPT ![r] = new]
    BY <1>1 DEF Reject, Answer, Set, Answered, Told
  <2> QED
    BY <2>1, <2>2, OneSet
<1>2. CASE ~(q.repairs >= MaxRepairs)
  <2> DEFINE new == [q EXCEPT !.pc = "repair", !.sql = sql, !.repairs = @ + 1]
  <2>1. /\ DOMAIN new = DOMAIN Unasked
        /\ new.pc = "repair"
        /\ new.repairs = q.repairs + 1 /\ new.asked = q.asked
        /\ new.audits = q.audits /\ new.answer = q.answer
    BY <1>0 DEF Question, Unasked
  <2>2. Counted(new)
    BY <1>0, <1>2, <2>1, MaxRepairsAssumption DEF Question, Counted
  <2>3. Carried(new)
    BY <1>0, <2>1 DEF Question, Counted, Carried
  <2>4. Question(new)
    BY <2>1, <2>2, <2>3 DEF Question, Asking
  <2>5. request' = [request EXCEPT ![r] = new]
    BY <1>2 DEF Reject, Set
  <2> QED
    BY <2>4, <2>5, OneSet
<1> QED
  BY <1>1, <1>2

\* A step that only goes on keeps the invariant.
LEMMA GotoKeeps ==
    ASSUME Questioned, NEW r \in Requests,
           NEW pc \in {"load", "ambiguity", "select", "prune", "generate"},
           request[r].pc \notin {"repair", "ended"}, Goto(r, pc)
    PROVE  Questioned'
<1>1. Question([request[r] EXCEPT !.pc = pc])
  BY GoesOn DEF Questioned
<1> QED
  BY <1>1, OneSet DEF Goto, Set

\* An answer without a query, and its audit.
LEMMA AnswerKeeps ==
    ASSUME Questioned, NEW r \in Requests, NEW status, status # "built",
           request[r].pc \notin {"repair", "ended"}, Answer(r, status)
    PROVE  Questioned'
<1> DEFINE q == request[r]
<1> DEFINE new == [q EXCEPT !.pc = "ended",
                     !.answer = [status |-> status, repairs |-> q.repairs],
                     !.audits = @ + 1]
<1>1. Question(new)
  BY EndsWithout DEF Questioned
<1>2. request' = [request EXCEPT ![r] = new]
  BY DEF Answer, Set, Answered, Told
<1> QED
  BY <1>1, <1>2, OneSet

\* An error, which is not audited, may come while a repair is awaited.
LEMMA RaisesKeeps ==
    ASSUME Questioned, NEW r \in Requests, request[r].pc # "ended", Raises(r)
    PROVE  Questioned'
<1> DEFINE q == request[r]
<1> DEFINE new == [q EXCEPT !.pc = "ended",
                     !.answer = [status |-> "error", repairs |-> q.repairs],
                     !.audits = @ + 0]
<1>1. Question(new)
  BY EndsWithout DEF Questioned
<1>2. request' = [request EXCEPT ![r] = new]
  BY DEF Raises, Set, Answered, Told
<1> QED
  BY <1>1, <1>2, OneSet

\* A question starts with no repairs and no audit.
LEMMA AskKeeps ==
    ASSUME Questioned, NEW r \in Requests, Ask(r)
    PROVE  Questioned'
<1> DEFINE q == request[r]
<1>1. Question(q) /\ q.pc = "unasked"
  BY DEF Ask, Questioned
<1>2. \/ request' = [request EXCEPT ![r] = [q EXCEPT !.pc = "load"]]
      \/ request' = [request EXCEPT ![r] = Answered(r, Told(r, "clarify_needed"), 0)]
  BY <1>1 DEF Ask, Questioned
<1>3. Question([q EXCEPT !.pc = "load"])
  BY <1>1, GoesOn
<1>4. Question(Answered(r, Told(r, "clarify_needed"), 0))
  BY <1>1, EndsWithout DEF Answered, Told
<1> QED
  BY <1>2, <1>3, <1>4, OneSet

\* The questions of the process that stops are lost.
LEMMA RestartKeeps ==
    ASSUME Questioned, Restart
    PROVE  Questioned'
<1> DEFINE Lost(q) == [q EXCEPT !.pc = "ended", !.answer = [status |-> "lost"]]
<1>1. ASSUME NEW q, Question(q), q.pc # "ended"
      PROVE  Question(Lost(q))
  <2>1. /\ DOMAIN Lost(q) = DOMAIN Unasked
        /\ Lost(q).pc = "ended"
        /\ Lost(q).repairs = q.repairs /\ Lost(q).asked = q.asked
        /\ Lost(q).audits = q.audits
        /\ Lost(q).answer = [status |-> "lost"]
    BY <1>1 DEF Question, Unasked
  <2>2. Counted(Lost(q))
    BY <1>1, <2>1 DEF Question, Counted
  <2>3. Carried(Lost(q))
    BY <1>1, <2>1 DEF Carried
  <2> QED
    BY <2>1, <2>2, <2>3 DEF Question, Asking
<1>2. request' = [r \in Requests |->
                     IF request[r].pc \in {"unasked", "ended"} THEN request[r]
                     ELSE Lost(request[r])]
  BY DEF Restart
<1> HIDE DEF Lost
<1> QED
  BY <1>1, <1>2 DEF Questioned

\* The allowlist is loaded before anything is checked against it.
LEMMA LoadCatalogKeeps ==
    ASSUME Questioned, NEW r \in Requests, LoadCatalog(r)
    PROVE  Questioned'
<1> DEFINE q == request[r]
<1>0. Question(q) /\ q.pc = "load"
  BY DEF LoadCatalog, Questioned
<1>1. CASE Raises(r)
  BY <1>0, <1>1, RaisesKeeps
<1>2. CASE ~Raises(r)
  <2>1. PICK allow : request' = [request EXCEPT ![r].pc = "enhance",
                                                ![r].allow = allow]
    BY <1>2 DEF LoadCatalog
  <2> DEFINE new == [q EXCEPT !.pc = "enhance", !.allow = allow]
  <2>2. /\ DOMAIN new = DOMAIN Unasked
        /\ new.pc = "enhance"
        /\ new.repairs = q.repairs /\ new.asked = q.asked
        /\ new.audits = q.audits /\ new.answer = q.answer
    BY <1>0 DEF Question, Unasked
  <2>3. Counted(new)
    BY <1>0, <2>2 DEF Question, Counted
  <2>4. Carried(new)
    BY <1>0, <2>2 DEF Question, Counted, Carried
  <2>5. Question(new)
    BY <2>2, <2>3, <2>4 DEF Question, Asking
  <2>6. request' = [request EXCEPT ![r] = new]
    BY <2>1 DEF Questioned
  <2> QED
    BY <2>5, <2>6, OneSet
<1> QED
  BY <1>1, <1>2

\* A question goes on with a query the models wrote.
LEMMA QueryKeeps ==
    ASSUME Questioned, NEW r \in Requests, NEW sql \in Queries,
           NEW pc \in {"vote", "critic", "check"}, NEW approved,
           request[r].pc \notin {"repair", "ended"},
           request' = [request EXCEPT ![r] =
               [request[r] EXCEPT !.sql = sql, !.pc = pc, !.approved = approved]]
    PROVE  Questioned'
<1> DEFINE q == request[r]
<1> DEFINE new == [q EXCEPT !.sql = sql, !.pc = pc, !.approved = approved]
<1>0. Question(q)
  BY DEF Questioned
<1>1. /\ DOMAIN new = DOMAIN Unasked
      /\ new.pc = pc /\ new.sql = sql
      /\ new.repairs = q.repairs /\ new.asked = q.asked
      /\ new.audits = q.audits /\ new.answer = q.answer
  BY <1>0 DEF Question, Unasked
<1>2. Counted(new)
  BY <1>0, <1>1 DEF Question, Counted
<1>3. Carried(new)
  BY <1>0, <1>1 DEF Question, Counted, Carried
<1>4. Question(new)
  BY <1>1, <1>2, <1>3 DEF Question, Asking
<1> QED
  BY <1>4, OneSet

\* The query comes from the models, once or by a vote.
LEMMA GenerateKeeps ==
    ASSUME Questioned, NEW r \in Requests, Generate(r) \/ Vote(r)
    PROVE  Questioned'
<1> DEFINE q == request[r]
<1>0. Question(q) /\ q.pc \in {"generate", "vote"}
  BY DEF Generate, Vote, Questioned
<1>1. PICK sql \in Queries, pc \in {"critic", "vote"} :
         request' = [request EXCEPT ![r] = [q EXCEPT !.sql = sql, !.pc = pc]]
  BY <1>0 DEF Generate, Vote, Set, Question, Carried
<1>2. [q EXCEPT !.sql = sql, !.pc = pc]
        = [q EXCEPT !.sql = sql, !.pc = pc, !.approved = q.approved]
  BY <1>0 DEF Question, Unasked
<1>3. request' = [request EXCEPT ![r] =
          [q EXCEPT !.sql = sql, !.pc = pc, !.approved = q.approved]]
  BY <1>1, <1>2
<1>4. pc \in {"vote", "critic", "check"} /\ q.pc \notin {"repair", "ended"}
  BY <1>0
<1> HIDE DEF q
<1> QED
  BY <1>3, <1>4, QueryKeeps DEF q

\* The critic approves the text it has seen, or the query is rejected.
LEMMA CriticiseKeeps ==
    ASSUME Questioned, NEW r \in Requests, Criticise(r)
    PROVE  Questioned'
<1> DEFINE q == request[r]
<1>0. Question(q) /\ q.pc = "critic" /\ q.sql \in Queries
  BY DEF Criticise, Questioned, Question, Carried
<1>1. CASE Reject(r, q.sql)
  BY <1>0, <1>1, RejectKeeps
<1>2. CASE Set(r, [q EXCEPT !.pc = "check", !.approved = q.sql])
  <2>1. [q EXCEPT !.pc = "check", !.approved = q.sql]
          = [q EXCEPT !.sql = q.sql, !.pc = "check", !.approved = q.sql]
    BY <1>0 DEF Question, Unasked
  <2> QED
    BY <1>0, <1>2, <2>1, QueryKeeps DEF Set
<1> QED
  BY <1>1, <1>2 DEF Criticise

\* A repaired query is one of the models', and the repair is counted.
LEMMA RepairKeeps ==
    ASSUME Questioned, NEW r \in Requests, Repair(r)
    PROVE  Questioned'
<1> DEFINE q == request[r]
<1>0. Question(q) /\ q.pc = "repair"
  BY DEF Repair, Questioned
<1>1. PICK sql \in Queries :
         request' = [request EXCEPT ![r] =
             [q EXCEPT !.sql = sql, !.pc = "check", !.asked = @ + 1]]
  BY DEF Repair, Set
<1> DEFINE new == [q EXCEPT !.sql = sql, !.pc = "check", !.asked = @ + 1]
<1>2. /\ DOMAIN new = DOMAIN Unasked
      /\ new.pc = "check" /\ new.sql = sql
      /\ new.repairs = q.repairs /\ new.asked = q.asked + 1
      /\ new.audits = q.audits /\ new.answer = q.answer
  BY <1>0 DEF Question, Unasked
<1>3. Counted(new)
  BY <1>0, <1>2 DEF Question, Counted
<1>4. Carried(new)
  BY <1>0, <1>2 DEF Question, Counted, Carried
<1>5. Question(new)
  BY <1>2, <1>3, <1>4 DEF Question, Asking
<1> QED
  BY <1>1, <1>5, OneSet

\* The tables the guard names are tables the database plans: none of them has
\* the name of a WITH clause, so none is a reference to one.
LEMMA TablesPlanned ==
    ASSUME NEW q \in Queries, NEW allow, GuardSql(q, allow).ok,
           Plannable(GuardSql(q, allow).sql)
    PROVE  GuardSql(q, allow).tables \subseteq DOMAIN world.schema
<1> DEFINE text == [q EXCEPT !.limit = Limited(@)]
           known == Allowlist(DOMAIN world.schema, world.schema)
<1>1. /\ GuardSql(q, allow).sql = text
      /\ GuardSql(q, allow).tables = PhysicalTables(q)
      /\ ~UnknownTable(q, allow)
  BY DEF GuardSql, Rejected
<1>2. text.tables = q.tables /\ text.named = q.named
  <2>1. q = [part \in QueryParts |-> q[part]]
    BY QueriesAssumption
  <2> QED
    BY <2>1 DEF QueryParts
<1>3. Plannable(text)
  BY <1>1
<1> HIDE DEF text
<1>4. ASSUME NEW t \in Physical(q)
      PROVE  t.name \in DOMAIN world.schema
  <2>1. SchemaOf(t) = DefaultSchema
    BY <1>1 DEF UnknownTable
  <2>2. t \in ToSet(text.tables) /\ t.name \notin {text.named[i].name : i \in DOMAIN text.named}
    BY <1>2 DEF Physical, Derived
  <2>3. ~BoundToWith(text, t)
    BY <2>2 DEF BoundToWith
  <2>4. TableKnown(text, known, t)
    BY <1>3, <2>1, <2>2 DEF Plannable
  <2>5. t.name \in DOMAIN known
    BY <2>3, <2>4 DEF TableKnown
  <2> QED
    BY <2>5 DEF Allowlist
<1> QED
  BY <1>1, <1>4 DEF PhysicalTables

\* The guard makes the text that goes to the review, and the database has
\* planned that text.
LEMMA CheckKeeps ==
    ASSUME Questioned, NEW r \in Requests, Check(r)
    PROVE  Questioned'
<1> DEFINE q == request[r]
           guard == GuardSql(q.sql, q.allow)
           planned == IF ExplainValidation THEN guard.sql ELSE None
           new == [q EXCEPT !.pc = "review", !.guarded = guard,
                            !.explained = planned, !.schema = world.schema]
<1>0. Question(q) /\ q.pc = "check" /\ q.sql \in Queries
  BY DEF Check, Questioned, Question, Carried
<1>1. \/ Reject(r, q.sql)
      \/ Raises(r)
      \/ /\ guard.ok
         /\ ExplainValidation => guard.tables \subseteq DOMAIN world.schema
         /\ request' = [request EXCEPT ![r] = new]
  BY <1>0, TablesPlanned DEF Check, Set
<1>2. CASE Reject(r, q.sql)
  BY <1>0, <1>2, RejectKeeps
<1>3. CASE Raises(r)
  BY <1>0, <1>3, RaisesKeeps
<1>4. CASE /\ guard.ok
           /\ ExplainValidation => guard.tables \subseteq DOMAIN world.schema
           /\ request' = [request EXCEPT ![r] = new]
  <2> HIDE DEF planned
  <2>1. /\ DOMAIN new = DOMAIN Unasked
        /\ new.pc = "review" /\ new.allow = q.allow
        /\ new.guarded = guard
        /\ new.explained = planned /\ new.schema = world.schema
        /\ new.repairs = q.repairs /\ new.asked = q.asked
        /\ new.audits = q.audits /\ new.answer = q.answer
    BY <1>0 DEF Question, Unasked
  <2>2. Counted(new)
    BY <1>0, <2>1 DEF Question, Counted
  <2>3. FromGuard(new.guarded.sql, new.guarded.tables, new)
    BY <1>0, <1>4, <2>1 DEF FromGuard
  <2>4. Planned(new.guarded.sql, new.guarded.tables, new)
    BY <1>4, <2>1 DEF Planned, planned
  <2>5. Carried(new)
    BY <1>0, <2>1, <2>3, <2>4 DEF Question, Counted, Carried
  <2>6. Question(new)
    BY <2>1, <2>2, <2>5 DEF Question, Asking
  <2> QED
    BY <1>4, <2>6, OneSet
<1> QED
  BY <1>1, <1>2, <1>3, <1>4

\* Only a text that is approved as the guard left it is answered.
LEMMA ReviewKeeps ==
    ASSUME Questioned, NEW r \in Requests, Review(r)
    PROVE  Questioned'
<1> DEFINE q == request[r]
           guard == q.guarded
           answer == [status |-> "built", repairs |-> q.repairs,
                      sql |-> guard.sql, tables |-> guard.tables]
           new == [q EXCEPT !.pc = "ended", !.answer = answer,
                            !.audits = @ + 1, !.approved = guard.sql]
<1>0. /\ Question(q) /\ q.pc = "review"
      /\ FromGuard(guard.sql, guard.tables, q)
      /\ Planned(guard.sql, guard.tables, q)
  BY DEF Review, Questioned, Question, Carried
<1>1. CASE Reject(r, guard.sql)
  BY <1>0, <1>1, RejectKeeps
<1>2. CASE Set(r, [Built(r, guard.sql, guard.tables) EXCEPT !.approved = guard.sql])
  <2>0. request' = [request EXCEPT ![r] = new]
    BY <1>2 DEF Set, Built, Answered
  <2>1. /\ answer.repairs = q.repairs
        /\ answer.sql = guard.sql /\ answer.tables = guard.tables
    OBVIOUS
  <2> HIDE DEF answer
  <2>2. /\ DOMAIN new = DOMAIN Unasked
        /\ new.pc = "ended" /\ new.allow = q.allow
        /\ new.explained = q.explained /\ new.schema = q.schema
        /\ new.approved = guard.sql
        /\ new.repairs = q.repairs /\ new.asked = q.asked
        /\ new.audits = q.audits + 1 /\ new.answer = answer
    BY <1>0 DEF Question, Unasked
  <2>3. Counted(new)
    BY <1>0, <2>1, <2>2 DEF Question, Counted
  <2>4. /\ FromGuard(answer.sql, answer.tables, new)
        /\ Planned(answer.sql, answer.tables, new)
    BY <1>0, <2>1, <2>2 DEF FromGuard, Planned
  <2>5. Carried(new)
    BY <2>1, <2>2, <2>4 DEF Carried
  <2>6. Question(new)
    BY <2>2, <2>3, <2>5 DEF Question, Asking
  <2> QED
    BY <2>0, <2>6, OneSet
<1> QED
  BY <1>1, <1>2 DEF Review

\* Every step of the pipeline keeps the invariant of the questions.
LEMMA RequestStepKeeps ==
    ASSUME Questioned, NEW r \in Requests, RequestStep(r)
    PROVE  Questioned'
<1>1. CASE LoadCatalog(r)
  BY <1>1, LoadCatalogKeeps
<1>2. CASE Enhance(r)
  BY <1>2, GotoKeeps, AnswerKeeps DEF Enhance
<1>3. CASE CheckAmbiguity(r)
  BY <1>3, GotoKeeps, AnswerKeeps DEF CheckAmbiguity
<1>4. CASE SelectTables(r)
  BY <1>4, GotoKeeps, AnswerKeeps DEF SelectTables
<1>5. CASE PruneColumns(r)
  BY <1>5, GotoKeeps DEF PruneColumns
<1>6. CASE Generate(r) \/ Vote(r)
  BY <1>6, GenerateKeeps
<1>7. CASE Criticise(r)
  BY <1>7, CriticiseKeeps
<1>8. CASE Check(r)
  BY <1>8, CheckKeeps
<1>9. CASE Review(r)
  BY <1>9, ReviewKeeps
<1>10. CASE Repair(r)
  BY <1>10, RepairKeeps
<1>11. CASE ModelFails(r)
  BY <1>11, RaisesKeeps DEF ModelFails
<1> QED
  BY <1>1, <1>2, <1>3, <1>4, <1>5, <1>6, <1>7, <1>8, <1>9, <1>10, <1>11
     DEF RequestStep

\* So does every other step: it leaves the questions alone, or loses them.
LEMMA QuestionedKept ==
    ASSUME Questioned, [Next]_vars
    PROVE  Questioned'
<1>1. CASE UNCHANGED request
  BY <1>1 DEF Questioned
<1>2. CASE \E r \in Requests : RequestStep(r)
  BY <1>2, RequestStepKeeps
<1>3. CASE \E r \in Requests : Ask(r)
  BY <1>3, AskKeeps
<1>4. CASE Restart
  BY <1>4, RestartKeeps
<1>5. UNCHANGED vars => UNCHANGED request
  BY DEF vars, agentVars
<1>6. ControlStep => UNCHANGED request
  BY DEF ControlStep, agentVars
<1>7. Outside => \/ UNCHANGED request
                 \/ Restart
                 \/ \E r \in Requests : Ask(r)
  BY DEF Outside, GenerateReads, GenerateWrites
<1> QED
  BY <1>1, <1>2, <1>3, <1>4, <1>5, <1>6, <1>7 DEF Next

\* What a question carries at each step of build_query is always as described
\* by Questioned: the invariant the next two theorems rest on.
THEOREM AlwaysQuestioned == Spec => []Questioned
<1>1. Init => Questioned
  BY UnaskedQuestion DEF Init, AgentInit, Questioned
<1> QED
  BY <1>1, QuestionedKept, PTL DEF Spec

\* An answer "built" is the text of the guard for a query of the model, the
\* text the critic approved last and the text the database planned: however
\* the critic, the guard and EXPLAIN refuse and the models repair, no later
\* step changes what was checked (build_query in pipeline.py).
THEOREM AnswersBuiltAsChecked == Spec => []BuiltAsChecked
<1>1. Questioned => BuiltAsChecked
  BY DEF Questioned, Question, Carried, FromGuard, Planned, BuiltAsChecked
<1> QED
  BY <1>1, AlwaysQuestioned, PTL

-----------------------------------------------------------------------------
(* The text of the guard, guarded once more.                               *)

\* Only the limit differs between a query and the text the guard makes of it.
LEMMA OnlyLimit ==
    ASSUME NEW q \in Queries
    PROVE  LET text == [q EXCEPT !.limit = Limited(@)]
           IN  /\ text.limit = Limited(q.limit)
               /\ \A part \in QueryParts \ {"limit"} : text[part] = q[part]
               /\ text = [part \in QueryParts |-> text[part]]
<1>1. q = [part \in QueryParts |-> q[part]]
  BY QueriesAssumption
<1> QED
  BY <1>1 DEF QueryParts

\* A limit the guard lets pass becomes one between 1 and the default, which a
\* second guard leaves alone.
LEMMA LimitedOnce ==
    ASSUME NEW limit, GoodLimit(limit)
    PROVE  /\ Limited(limit) \in 1 .. RowLimit
           /\ GoodLimit(Limited(limit))
           /\ Limited(Limited(limit)) = Limited(limit)
<1> DEFINE new == Limited(limit)
<1>1. new \in 1 .. RowLimit /\ (new = RowLimit \/ new # NoLimit)
  <2>1. CASE limit = NoLimit
    BY <2>1, RowLimitAssumption DEF Limited
  <2>2. CASE limit # NoLimit
    BY <2>2, RowLimitAssumption DEF GoodLimit, Limited
  <2> QED
    BY <2>1, <2>2
<1> HIDE DEF new
<1>2. GoodLimit(new)
  BY <1>1, RowLimitAssumption DEF GoodLimit
<1>3. Limited(new) = new
  BY <1>1, RowLimitAssumption DEF Limited
<1> QED
  BY <1>1, <1>2, <1>3 DEF new

\* The references of two queries that read the same tables under the same
\* names are resolved alike.
LEMMA SameResolution ==
    ASSUME NEW q, NEW text, NEW allow,
           text.tables = q.tables, text.named = q.named,
           text.outputs = q.outputs
    PROVE  /\ Physical(text) = Physical(q)
           /\ UnknownTable(text, allow) <=> UnknownTable(q, allow)
           /\ TwiceBound(text) <=> TwiceBound(q)
           /\ \A c : UnknownColumn(text, allow, c) <=> UnknownColumn(q, allow, c)
           /\ \A c : AmbiguousColumn(text, allow, c) <=> AmbiguousColumn(q, allow, c)
<1>0. Derived(text) = Derived(q) /\ OutputNames(text) = OutputNames(q)
  BY DEF Derived, OutputNames
<1>1. Physical(text) = Physical(q)
  BY <1>0 DEF Physical
<1>2. UnknownTable(text, allow) <=> UnknownTable(q, allow)
  BY <1>1 DEF UnknownTable
<1>3. Aliases(text) = Aliases(q) /\ (TwiceBound(text) <=> TwiceBound(q))
  BY <1>0 DEF Aliases, TwiceBound, AliasesAfter, Indexed
<1>4. ASSUME NEW c
      PROVE  /\ Matches(text, allow, c) = Matches(q, allow, c)
             /\ DerivedColumn(text, c) <=> DerivedColumn(q, c)
             /\ QualifiedKnown(text, allow, c) <=> QualifiedKnown(q, allow, c)
  <2>1. Matches(text, allow, c) = Matches(q, allow, c)
    BY <1>1 DEF Matches, PhysicalTables
  <2>2. DerivedColumn(text, c) <=> DerivedColumn(q, c)
    BY <1>0 DEF DerivedColumn
  <2>3. QualifiedKnown(text, allow, c) <=> QualifiedKnown(q, allow, c)
    BY <1>0, <1>3 DEF QualifiedKnown
  <2> QED
    BY <2>1, <2>2, <2>3
<1>5. \A c : UnknownColumn(text, allow, c) <=> UnknownColumn(q, allow, c)
  BY <1>0, <1>4 DEF UnknownColumn
<1>6. \A c : AmbiguousColumn(text, allow, c) <=> AmbiguousColumn(q, allow, c)
  BY <1>0, <1>4 DEF AmbiguousColumn
<1> QED
  BY <1>1, <1>2, <1>3, <1>5, <1>6

\* What the guard accepts has passed each of its checks.
LEMMA GuardAccepts ==
    ASSUME NEW q, NEW allow
    PROVE  /\ GuardSql(q, allow).ok
              <=> /\ q.statements # 0 /\ ~(q.statements > 1)
                  /\ q.select /\ ~q.writes
                  /\ GoodLimit(q.limit)
                  /\ ~UnknownTable(q, allow) /\ ~TwiceBound(q)
                  /\ \A c \in q.columns : /\ ~UnknownColumn(q, allow, c)
                                          /\ ~AmbiguousColumn(q, allow, c)
           /\ GuardSql(q, allow).ok =>
                  GuardSql(q, allow).sql = [q EXCEPT !.limit = Limited(@)]
BY DEF GuardSql, Rejected

\* The text of the guard is one bounded read, of tables on the allowlist if
\* none hides behind another's name, and a second guard accepts it and changes
\* nothing.
LEMMA GuardedTwice ==
    ASSUME NEW q \in Queries, NEW allow, GuardSql(q, allow).ok
    PROVE  LET text == GuardSql(q, allow).sql
           IN  /\ BoundedRead(text)
               /\ TableNamesApart(text) =>
                     \A t \in ToSet(text.tables) : TableKnown(text, allow, t)
               /\ GuardSql(text, allow).ok
               /\ GuardSql(text, allow).sql = text
<1> DEFINE text == GuardSql(q, allow).sql
<1>1. text = [q EXCEPT !.limit = Limited(@)]
  BY GuardAccepts
<1>2. /\ text.limit = Limited(q.limit)
      /\ text.statements = q.statements /\ text.select = q.select
      /\ text.writes = q.writes /\ text.tables = q.tables
      /\ text.named = q.named /\ text.outputs = q.outputs
      /\ text.columns = q.columns
      /\ text = [part \in QueryParts |-> text[part]]
  BY <1>1, OnlyLimit DEF QueryParts
<1> HIDE DEF text
<1>3. /\ text.limit \in 1 .. RowLimit /\ GoodLimit(text.limit)
      /\ Limited(text.limit) = text.limit
  <2>1. GoodLimit(q.limit)
    BY GuardAccepts
  <2> QED
    BY <1>2, <2>1, LimitedOnce
<1>4. GuardSql(text, allow).ok
  <2>1. ~UnknownTable(text, allow) /\ ~TwiceBound(text)
    BY <1>2, GuardAccepts, SameResolution
  <2>2. \A c \in text.columns : /\ ~UnknownColumn(text, allow, c)
                                /\ ~AmbiguousColumn(text, allow, c)
    BY <1>2, GuardAccepts, SameResolution
  <2>3. /\ text.statements # 0 /\ ~(text.statements > 1)
        /\ text.select /\ ~text.writes
    BY <1>2, GuardAccepts
  <2> QED
    BY <1>3, <2>1, <2>2, <2>3, GuardAccepts
<1>5. GuardSql(text, allow).sql = text
  BY <1>2, <1>3, <1>4, GuardAccepts
<1>6. BoundedRead(text)
  <2>1. q.statements \in Nat
    BY QueriesAssumption
  <2>2. q.statements # 0 /\ ~(q.statements > 1) /\ q.select /\ ~q.writes
    BY GuardAccepts
  <2> QED
    BY <1>2, <1>3, <2>1, <2>2 DEF BoundedRead
<1>7. ASSUME TableNamesApart(text), NEW t \in ToSet(text.tables)
      PROVE  TableKnown(text, allow, t)
  <2>1. ~UnknownTable(text, allow)
    BY <1>4, GuardAccepts
  <2>2. CASE t.name \in DOMAIN Derived(text)
    BY <1>7, <2>2 DEF TableNamesApart, TableKnown
  <2>3. CASE t.name \notin DOMAIN Derived(text)
    BY <2>1, <2>3 DEF UnknownTable, Physical, TableKnown
  <2> QED
    BY <2>2, <2>3
<1> QED
  BY <1>4, <1>5, <1>6, <1>7 DEF text

\* Whatever the models write, what is answered is one SELECT that writes
\* nothing and returns a bounded number of rows, and guard_sql would answer it
\* with the same text ("validated").  Every table it reads is on the allowlist,
\* provided that a table with the name of a WITH clause or a subquery is a
\* reference to it: without that it is not so (ReferencesAllowed).
THEOREM AnswersBounded == Spec => []BuiltBounded
<1>1. Questioned => BuiltBounded
  <2> SUFFICES ASSUME Questioned, NEW r \in Requests, NEW q, q = request[r],
                      q.answer # None, q.answer.status = "built"
               PROVE  LET sql == q.answer.sql
                      IN  /\ BoundedRead(sql)
                          /\ TableNamesApart(sql) =>
                                \A t \in ToSet(sql.tables) : TableKnown(sql, q.allow, t)
                          /\ GuardSql(sql, q.allow).ok
                          /\ GuardSql(sql, q.allow).sql = sql
    BY DEF BuiltBounded
  <2>1. PICK written \in Queries :
           /\ GuardSql(written, q.allow).ok
           /\ q.answer.sql = GuardSql(written, q.allow).sql
    BY DEF Questioned, Question, Carried, FromGuard
  <2> QED
    BY <2>1, GuardedTwice
<1> QED
  BY <1>1, AlwaysQuestioned, PTL

-----------------------------------------------------------------------------
(* Whose the columns of an answer are.                                     *)

\* Of some naturals one is the first.
LEMMA FirstOf ==
    ASSUME NEW S \in SUBSET Nat, S # {}
    PROVE  \E m \in S : \A k \in S : m <= k
<1>1. PICK m \in S : \A k \in S : ~(<<k, m>> \in OpToRel(<, Nat))
  BY WFMin, NatLessThanWellFounded
<1>2. m \in S /\ \A k \in S : ~(k < m)
  BY <1>1 DEF OpToRel
<1> QED
  BY <1>2

\* Of some naturals with a bound one is the last.
LEMMA LastOf ==
    ASSUME NEW n \in Nat, NEW S \in SUBSET (1 .. n), S # {}
    PROVE  Max(S) \in S /\ \A k \in S : k <= Max(S)
<1> DEFINE T == {m \in Nat : n - m \in S}
<1>1. T # {}
  <2>1. PICK x \in S : TRUE
    OBVIOUS
  <2>2. n - x \in T
    BY <2>1
  <2> QED
    BY <2>2
<1>2. PICK m \in T : \A k \in T : m <= k
  BY <1>1, FirstOf
<1>3. m \in Nat /\ n - m \in S
  OBVIOUS
<1>4. \A y \in S : n - m >= y
  <2> SUFFICES ASSUME NEW y \in S PROVE n - m >= y
    OBVIOUS
  <2>1. n - y \in T
    OBVIOUS
  <2>2. m <= n - y
    BY <1>2, <2>1
  <2> QED
    BY <1>3, <2>2
<1>5. \E x \in S : \A y \in S : x >= y
  BY <1>3, <1>4
<1>6. Max(S) \in S /\ \A y \in S : Max(S) >= y
  BY <1>5 DEF Max
<1> QED
  BY <1>6

\* The references of a query are numbered, and there are finitely many.
LEMMA Numbered ==
    ASSUME NEW q \in Queries
    PROVE  /\ Len(q.tables) \in Nat
           /\ ToSet(q.tables) = {q.tables[i] : i \in 1 .. Len(q.tables)}
           /\ IsFiniteSet(PhysicalTables(q))
<1>1. q.tables \in Seq(ToSet(q.tables))
  BY QueriesAssumption
<1>2. Len(q.tables) \in Nat /\ DOMAIN q.tables = 1 .. Len(q.tables)
  BY <1>1
<1>3. ToSet(q.tables) = {q.tables[i] : i \in 1 .. Len(q.tables)}
  BY <1>2 DEF ToSet
<1> DEFINE places == Indexed(q, Len(q.tables))
           names == [i \in places |-> q.tables[i].name]
<1>4. IsFiniteSet(places)
  <2>1. IsFiniteSet(1 .. Len(q.tables))
    <3>1. 1 \in Int /\ Len(q.tables) \in Int
      BY <1>2
    <3> QED
      BY <3>1, FS_Interval
  <2>2. places \subseteq 1 .. Len(q.tables)
    BY DEF Indexed
  <2> QED
    BY <2>1, <2>2, FS_Subset
<1>5. names \in Surjection(places, PhysicalTables(q))
  <2>1. PhysicalTables(q) = {q.tables[i].name : i \in places}
    BY <1>3 DEF PhysicalTables, Physical, Indexed
  <2> HIDE DEF places
  <2> QED
    BY <2>1 DEF Surjection
<1>6. IsFiniteSet(PhysicalTables(q))
  <2> HIDE DEF names, places
  <2> QED
    BY <1>4, <1>5, FS_Surjection
<1> QED
  BY <1>2, <1>3, <1>6

\* An alias that no reference takes from another stands for the table of every
\* reference that has it.
LEMMA AliasOfOne ==
    ASSUME NEW q \in Queries, ~TwiceBound(q),
           NEW i \in Indexed(q, Len(q.tables))
    PROVE  LET a == q.tables[i].alias
           IN  a \in DOMAIN Aliases(q) /\ Aliases(q)[a] = q.tables[i].name
<1> DEFINE a == q.tables[i].alias
           n == Len(q.tables)
           Taking(l) == {k \in Indexed(q, l) : q.tables[k].alias = a}
           Name(k) == q.tables[k].name
           last == Max(Taking(n))
           others == {k \in Taking(n) : Name(k) # Name(last)}
<1>1. n \in Nat /\ \A l : Indexed(q, l) \subseteq 1 .. l
  BY Numbered DEF Indexed
<1>2. \A l : Taking(l) # {} =>
         /\ a \in DOMAIN AliasesAfter(q, l)
         /\ AliasesAfter(q, l)[a] = Name(Max(Taking(l)))
  <2> SUFFICES ASSUME NEW l, Taking(l) # {}
               PROVE  /\ a \in DOMAIN AliasesAfter(q, l)
                      /\ AliasesAfter(q, l)[a] = Name(Max(Taking(l)))
    OBVIOUS
  <2> DEFINE bound == UNION {{q.tables[k].alias, q.tables[k].name} : k \in Indexed(q, l)}
  <2>1. a \in bound
    <3>1. PICK k \in Indexed(q, l) : q.tables[k].alias = a
      OBVIOUS
    <3> HIDE DEF a
    <3> QED
      BY <3>1
  <2> HIDE DEF bound, a
  <2>2. AliasesAfter(q, l) =
          [b \in bound |->
             IF {k \in Indexed(q, l) : q.tables[k].alias = b} = {} THEN b
             ELSE q.tables[Max({k \in Indexed(q, l) : q.tables[k].alias = b})].name]
    BY DEF AliasesAfter, bound
  <2> QED
    BY <2>1, <2>2
<1>3. i \in Taking(n) /\ Taking(n) \subseteq 1 .. n
  BY <1>1
<1>4. last \in Taking(n) /\ \A k \in Taking(n) : k <= last
  BY <1>1, <1>3, LastOf
<1>5. \A j \in Taking(n) :
         /\ Taking(j - 1) = {k \in Taking(n) : k < j}
         /\ Taking(j - 1) # {} => Name(Max(Taking(j - 1))) = Name(j)
  <2> SUFFICES ASSUME NEW j \in Taking(n)
               PROVE  /\ Taking(j - 1) = {k \in Taking(n) : k < j}
                      /\ Taking(j - 1) # {} => Name(Max(Taking(j - 1))) = Name(j)
    OBVIOUS
  <2>1. Taking(j - 1) = {k \in Taking(n) : k < j}
    BY <1>1, <1>3 DEF Indexed
  <2>2. a \in DOMAIN AliasesAfter(q, j - 1) => AliasesAfter(q, j - 1)[a] = Name(j)
    BY DEF TwiceBound
  <2> QED
    BY <1>2, <2>1, <2>2
<1> HIDE DEF a, n, last, Taking, Name
<1>6. others = {}
  <2> SUFFICES ASSUME others # {} PROVE FALSE
    OBVIOUS
  <2>1. others \subseteq 1 .. n
    BY <1>3
  <2>2. Max(others) \in others /\ \A k \in others : k <= Max(others)
    BY <1>1, <2>1, LastOf
  <2> DEFINE odd == Max(others)
             later == {k \in Taking(n) : odd < k}
  <2>3. odd \in Taking(n) /\ Name(odd) # Name(last) /\ \A k \in others : k <= odd
    BY <2>2
  <2> HIDE DEF odd
  <2>4. last \in later
    BY <1>3, <1>4, <2>3
  <2>5. later \subseteq Nat
    BY <1>3
  <2>6. PICK next \in later : \A k \in later : next <= k
    BY <2>4, <2>5, FirstOf
  <2>7. next \in Taking(n) /\ odd < next /\ Name(next) = Name(last)
    BY <1>3, <2>3, <2>6
  <2>8. odd \in Taking(next - 1) /\ \A k \in Taking(next - 1) : k <= odd
    BY <1>3, <1>5, <2>3, <2>6, <2>7
  <2>9. Taking(next - 1) \subseteq 1 .. n
    BY <1>3, <1>5, <2>7
  <2>10. Max(Taking(next - 1)) = odd
    <3>1. /\ Max(Taking(next - 1)) \in Taking(next - 1)
          /\ \A k \in Taking(next - 1) : k <= Max(Taking(next - 1))
      BY <1>1, <2>8, <2>9, LastOf
    <3>2. Max(Taking(next - 1)) \in 1 .. n /\ odd \in 1 .. n
      BY <1>3, <2>3, <2>9, <3>1
    <3> QED
      BY <2>8, <3>1, <3>2
  <2> QED
    BY <1>5, <2>3, <2>7, <2>8, <2>10
<1>7. Name(i) = Name(last)
  BY <1>3, <1>6
<1>8. a \in DOMAIN AliasesAfter(q, n) /\ AliasesAfter(q, n)[a] = Name(last)
  BY <1>2, <1>3 DEF last
<1> QED
  BY <1>7, <1>8 DEF a, n, Name, Aliases

\* The base tables the guard looks up are tables to the database too.
LEMMA PhysicalKnown ==
    ASSUME NEW q, NEW allow, ~UnknownTable(q, allow), NEW t \in Physical(q)
    PROVE  ~BoundToWith(q, t) /\ TableKnown(q, allow, t)
<1>1. t.name \notin {q.named[i].name : i \in DOMAIN q.named}
  BY DEF Physical, Derived
<1> QED
  BY <1>1 DEF BoundToWith, TableKnown, UnknownTable

\* A qualifier the guard knows is an alias, or else the name, of one base
\* table, unless something else is called so.
LEMMA QualifiedOwned ==
    ASSUME NEW q \in Queries, NEW allow, NEW c, ~TwiceBound(q),
           ~UnknownTable(q, allow),
           c.qualifier # NoQualifier, QualifiedKnown(q, allow, c),
           ColumnNameApart(q, c)
    PROVE  Owners(q, allow, c) = {Aliases(q)[c.qualifier]}
<1> DEFINE a == c.qualifier
           n == Len(q.tables)
           taken == {i \in Indexed(q, n) : q.tables[i].alias = a}
           table == Aliases(q)[a]
<1>1. a \in DOMAIN Aliases(q) /\ c.name \in allow[table]
  BY DEF QualifiedKnown, ColumnNameApart
<1>2. ToSet(q.tables) = {q.tables[i] : i \in 1 .. n}
  BY Numbered
<1>3. \A t \in ToSet(q.tables) :
         a \in {t.alias, t.name} => t \in Visible(q, c) /\ t \in Physical(q)
  BY DEF ColumnNameApart
<1>4. \A t : t \in Physical(q) <=> \E i \in Indexed(q, n) : t = q.tables[i]
  BY <1>2 DEF Physical, Indexed
<1>0. \A x : x \in Owners(q, allow, c)
              <=> \E t \in Physical(q) : /\ t \in Visible(q, c) /\ CalledBy(q, c, t)
                                        /\ c.name \in allow[t.name] /\ x = t.name
  <2>1. \A t \in Physical(q) : ~BoundToWith(q, t) /\ TableKnown(q, allow, t)
    BY PhysicalKnown
  <2>2. \A t \in Visible(q, c) : CalledBy(q, c, t) => t \in Physical(q)
    BY <1>3 DEF CalledBy, Visible
  <2> QED
    BY <2>1, <2>2 DEF Owners
<1>5. CASE taken # {}
  <2>1. \A t \in Physical(q) : t.alias = a => t.name = table
    BY <1>4, AliasOfOne
  <2>2. PICK i \in taken : TRUE
    BY <1>5
  <2>3. q.tables[i] \in Physical(q) /\ q.tables[i].alias = a
    BY <1>4, <2>2
  <2>4. \A t \in Physical(q) :
           t \in Visible(q, c) /\ CalledBy(q, c, t) <=> t.alias = a
    <3>1. q.tables[i] \in Visible(q, c)
      BY <1>3, <2>3 DEF Physical
    <3>2. \A t \in Physical(q) : t.alias = a => t \in Visible(q, c)
      BY <1>3 DEF Physical
    <3> QED
      BY <2>3, <3>1, <3>2 DEF CalledBy
  <2>5. \A x : x \in Owners(q, allow, c)
               <=> \E t \in Physical(q) : t.alias = a /\ c.name \in allow[t.name] /\ x = t.name
    BY <1>0, <2>4
  <2>6. \A x : x \in Owners(q, allow, c) <=> x = table
    BY <1>1, <2>1, <2>3, <2>5
  <2> QED
    BY <2>6
<1>6. CASE taken = {}
  <2>1. table = a /\ \E i \in Indexed(q, n) : q.tables[i].name = a
    BY <1>1, <1>6 DEF Aliases, AliasesAfter
  <2>2. \A t \in ToSet(q.tables) : t.alias # a
    BY <1>3, <1>4, <1>6
  <2>3. \A t \in Physical(q) :
           t \in Visible(q, c) /\ CalledBy(q, c, t) <=> t.name = a
    <3>1. \A t \in Physical(q) : t.name = a => t \in Visible(q, c)
      BY <1>3 DEF Physical
    <3> QED
      BY <2>2, <3>1 DEF CalledBy, Physical, Visible
  <2>4. \A x : x \in Owners(q, allow, c)
               <=> \E t \in Physical(q) : t.name = a /\ c.name \in allow[t.name] /\ x = t.name
    BY <1>0, <2>3
  <2>5. \E t \in Physical(q) : t.name = a
    BY <1>4, <2>1
  <2>6. \A x : x \in Owners(q, allow, c) <=> x = table
    BY <1>1, <2>1, <2>4, <2>5
  <2> QED
    BY <2>6
<1> QED
  BY <1>5, <1>6

\* A column without a qualifier is of the one base table that has it.
LEMMA UnqualifiedOwned ==
    ASSUME NEW q \in Queries, NEW allow, NEW c, c.qualifier = NoQualifier,
           ~UnknownTable(q, allow),
           ~UnknownColumn(q, allow, c), ~AmbiguousColumn(q, allow, c),
           ColumnNameApart(q, c)
    PROVE  Cardinality(Owners(q, allow, c)) = 1
<1> DEFINE owners == Matches(q, allow, c)
<1>1. c.name \notin OutputNames(q) /\ ~DerivedColumn(q, c)
  BY DEF ColumnNameApart
<1>2. owners # {} /\ ~(Cardinality(owners) > 1)
  BY <1>1 DEF UnknownColumn, AmbiguousColumn
<1>3. IsFiniteSet(owners)
  <2>1. owners \subseteq PhysicalTables(q)
    BY DEF Matches
  <2> QED
    BY <2>1, Numbered, FS_Subset
<1>4. Cardinality(owners) \in Nat /\ Cardinality(owners) # 0
  BY <1>2, <1>3, FS_CardinalityType, FS_EmptySet
<1>5. Owners(q, allow, c) = owners
  <2>1. \A t : t \in Visible(q, c) <=> t \in Physical(q)
    BY DEF ColumnNameApart, Visible, Physical
  <2>2. \A t \in Physical(q) :
           ~BoundToWith(q, t) /\ TableKnown(q, allow, t) /\ CalledBy(q, c, t)
    BY PhysicalKnown DEF CalledBy
  <2> QED
    BY <2>1, <2>2 DEF Owners, Matches, PhysicalTables
<1> HIDE DEF owners
<1> QED
  BY <1>2, <1>4, <1>5

\* So are the columns of what the guard accepts.
LEMMA GuardedOwned ==
    ASSUME NEW q \in Queries, NEW allow, GuardSql(q, allow).ok
    PROVE  LET text == GuardSql(q, allow).sql
           IN  \A c \in text.columns :
                   ColumnNameApart(text, c) => Cardinality(Owners(text, allow, c)) = 1
<1> DEFINE text == GuardSql(q, allow).sql
<1>1. text = [q EXCEPT !.limit = Limited(@)]
  BY GuardAccepts
<1>2. /\ text.tables = q.tables /\ text.named = q.named
      /\ text.outputs = q.outputs /\ text.columns = q.columns
      /\ text.scope = q.scope
  BY <1>1, OnlyLimit DEF QueryParts
<1> HIDE DEF text
<1>3. ASSUME NEW c
      PROVE  /\ Owners(text, allow, c) = Owners(q, allow, c)
             /\ ColumnNameApart(text, c) <=> ColumnNameApart(q, c)
  <2>1. /\ Visible(text, c) = Visible(q, c)
        /\ Derived(text) = Derived(q) /\ OutputNames(text) = OutputNames(q)
    BY <1>2 DEF Visible, Derived, OutputNames
  <2>2. \A t : /\ BoundToWith(text, t) <=> BoundToWith(q, t)
               /\ CalledBy(text, c, t) <=> CalledBy(q, c, t)
    BY <1>2, <2>1 DEF BoundToWith, CalledBy
  <2>3. Owners(text, allow, c) = Owners(q, allow, c)
    BY <2>1, <2>2 DEF Owners, TableKnown
  <2>4. ColumnNameApart(text, c) <=> ColumnNameApart(q, c)
    BY <1>2, <2>1 DEF ColumnNameApart, Physical, DerivedColumn
  <2> QED
    BY <2>3, <2>4
<1>4. ASSUME NEW c \in q.columns, ColumnNameApart(q, c)
      PROVE  Cardinality(Owners(q, allow, c)) = 1
  <2>1. /\ ~TwiceBound(q) /\ ~UnknownTable(q, allow)
        /\ ~UnknownColumn(q, allow, c) /\ ~AmbiguousColumn(q, allow, c)
    BY GuardAccepts
  <2>2. CASE c.qualifier = NoQualifier
    BY <1>4, <2>1, <2>2, UnqualifiedOwned
  <2>3. CASE c.qualifier # NoQualifier
    <3>1. QualifiedKnown(q, allow, c)
      BY <2>1, <2>3 DEF UnknownColumn
    <3>2. PICK owner : Owners(q, allow, c) = {owner}
      BY <1>4, <2>1, <2>3, <3>1, QualifiedOwned
    <3>3. Cardinality({owner}) = 1
      BY FS_Singleton
    <3> QED
      BY <3>2, <3>3
  <2> QED
    BY <2>2, <2>3
<1> QED
  BY <1>2, <1>3, <1>4 DEF text

\* A column of an answer that nothing out of its scope, no WITH clause, no
\* subquery and no output is called like, belongs by the allowlist to exactly
\* one of the tables in its scope it can mean: however many tables the models
\* name, in whatever order and under whatever aliases (the index of
\* _build_reference_index, the checks of _validate_columns).
THEOREM AnswersOwned == Spec => []BuiltOwned
<1>1. Questioned => BuiltOwned
  BY GuardedOwned DEF Questioned, Question, Carried, FromGuard, BuiltOwned
<1> QED
  BY <1>1, AlwaysQuestioned, PTL

-----------------------------------------------------------------------------
\* No question asks more repairs of the models than the budget, and the audit
\* of its answer counts them (build_query and _audit in pipeline.py).
THEOREM RepairsWithinBudget == Spec => []RepairsAudited
<1>1. Questioned => RepairsAudited
  BY MaxRepairsAssumption DEF Questioned, Question, Counted, RepairsAudited
<1> QED
  BY <1>1, AlwaysQuestioned, PTL

-----------------------------------------------------------------------------
(* How a question ends.                                                    *)

\* The steps of a question before its first check, and after it.
Forward ==
    {<<"unasked", "load">>, <<"load", "enhance">>, <<"enhance", "ambiguity">>,
     <<"ambiguity", "select">>, <<"select", "prune">>, <<"prune", "generate">>,
     <<"generate", "vote">>, <<"generate", "critic">>, <<"vote", "critic">>,
     <<"critic", "check">>, <<"check", "review">>, <<"repair", "check">>}

\* A question goes on, ends, or is sent back by one that may refuse a query.
Moves(q, new) ==
    \/ q.pc # "ended" /\ new.pc = "ended"
    \/ <<q.pc, new.pc>> \in Forward /\ new.repairs = q.repairs
    \/ /\ q.pc \in {"critic", "check", "review"} /\ new.pc = "repair"
       /\ q.repairs < MaxRepairs /\ new.repairs = q.repairs + 1

\* Each of these brings it nearer to its end.
LEMMA MovesAdvance ==
    ASSUME NEW q, NEW new, Question(q), Moves(q, new)
    PROVE  StepsLeft(new) \in 0 .. StepsLeft(q) - 1
<1>1. q.repairs \in 0 .. MaxRepairs /\ MaxRepairs \in Nat
  BY MaxRepairsAssumption DEF Question, Counted
<1>2. CASE q.pc # "ended" /\ new.pc = "ended"
  <2>1. Stage[q.pc] \in 1 .. 11
    BY <1>2 DEF Question, Asking, Stage
  <2> QED
    BY <1>1, <1>2, <2>1 DEF StepsLeft
<1>3. CASE <<q.pc, new.pc>> \in Forward /\ new.repairs = q.repairs
  <2>1. /\ q.pc # "ended" /\ new.pc # "ended"
        /\ Stage[q.pc] \in Nat /\ Stage[new.pc] \in Nat /\ Stage[new.pc] < Stage[q.pc]
    BY <1>3 DEF Forward, Stage
  <2> QED
    BY <1>1, <1>3, <2>1 DEF StepsLeft
<1>4. CASE /\ q.pc \in {"critic", "check", "review"} /\ new.pc = "repair"
           /\ q.repairs < MaxRepairs /\ new.repairs = q.repairs + 1
  <2>1. q.pc # "ended" /\ Stage[q.pc] \in 1 .. 3 /\ Stage[new.pc] = 3
    BY <1>4 DEF Stage
  <2> QED
    BY <1>1, <1>4, <2>1 DEF StepsLeft
<1> QED
  BY <1>2, <1>3, <1>4 DEF Moves

\* A question that changes moves.
Moving == \A r \in Requests : request'[r] = request[r] \/ Moves(request[r], request'[r])

\* One question is set, the others stay.
LEMMA SetMoves ==
    ASSUME Questioned, NEW r \in Requests, NEW new, Moves(request[r], new),
           request' = [request EXCEPT ![r] = new]
    PROVE  Moving
BY DEF Questioned, Moving

\* A question that has not ended may end with any answer.
LEMMA AnsweredMoves ==
    ASSUME Questioned, NEW r \in Requests, request[r].pc # "ended", NEW answer, NEW audits
    PROVE  Moves(request[r], Answered(r, answer, audits))
<1>1. Question(request[r])
  BY DEF Questioned
<1>2. Answered(r, answer, audits).pc = "ended"
  BY <1>1 DEF Answered, Question, Unasked
<1> QED
  BY <1>2 DEF Moves

\* So it moves when it is answered, or when an error is raised.
LEMMA EndsMove ==
    ASSUME Questioned, NEW r \in Requests, request[r].pc # "ended"
    PROVE  /\ \A status : Answer(r, status) => Moving
           /\ Raises(r) => Moving
<1>1. \A answer, audits : Set(r, Answered(r, answer, audits)) => Moving
  BY AnsweredMoves, SetMoves DEF Set
<1> QED
  BY <1>1 DEF Answer, Raises

\* It moves when it goes on.
LEMMA GotoMoves ==
    ASSUME Questioned, NEW r \in Requests, NEW pc, Goto(r, pc),
           <<request[r].pc, pc>> \in Forward
    PROVE  Moving
<1> DEFINE q == request[r]
           new == [q EXCEPT !.pc = pc]
<1>1. Question(q)
  BY DEF Questioned
<1>2. new.pc = pc /\ new.repairs = q.repairs
  BY <1>1 DEF Question, Unasked
<1>3. Moves(q, new)
  BY <1>2 DEF Moves
<1>4. request' = [request EXCEPT ![r] = new]
  BY DEF Goto, Set
<1> QED
  BY <1>3, <1>4, SetMoves

\* It moves when its query is refused, back to a repair or to its end.
LEMMA RejectMoves ==
    ASSUME Questioned, NEW r \in Requests, NEW sql, Reject(r, sql),
           request[r].pc \in {"critic", "check", "review"}
    PROVE  Moving
<1> DEFINE q == request[r]
           new == [q EXCEPT !.pc = "repair", !.sql = sql, !.repairs = @ + 1]
<1>1. Question(q)
  BY DEF Questioned
<1>2. CASE q.repairs >= MaxRepairs
  <2>1. Answer(r, "repair_exhausted") /\ q.pc # "ended"
    BY <1>2 DEF Reject
  <2> QED
    BY <2>1, EndsMove
<1>3. CASE ~(q.repairs >= MaxRepairs)
  <2>1. new.pc = "repair" /\ new.repairs = q.repairs + 1
    BY <1>1 DEF Question, Unasked
  <2>2. q.repairs < MaxRepairs
    BY <1>1, <1>3, MaxRepairsAssumption DEF Question, Counted
  <2>3. Moves(q, new)
    BY <2>1, <2>2 DEF Moves
  <2>4. request' = [request EXCEPT ![r] = new]
    BY <1>3 DEF Reject, Set
  <2> QED
    BY <2>3, <2>4, SetMoves
<1> QED
  BY <1>2, <1>3

\* Every step of the pipeline moves its question.
LEMMA RequestStepMoves ==
    ASSUME Questioned, NEW r \in Requests, RequestStep(r)
    PROVE  Moving
<1> DEFINE q == request[r]
<1>0. Question(q)
  BY DEF Questioned
<1> USE DEF Forward
<1>1. CASE LoadCatalog(r)
  <2>1. CASE Raises(r)
    BY <1>1, <2>1, EndsMove DEF LoadCatalog
  <2>2. CASE ~Raises(r)
    <3>1. PICK allow : request' = [request EXCEPT ![r].pc = "enhance", ![r].allow = allow]
      BY <1>1, <2>2 DEF LoadCatalog
    <3> DEFINE new == [q EXCEPT !.pc = "enhance", !.allow = allow]
    <3>2. request' = [request EXCEPT ![r] = new]
      BY <3>1 DEF Questioned
    <3>3. new.pc = "enhance" /\ new.repairs = q.repairs /\ q.pc = "load"
      BY <1>0, <1>1 DEF Question, Unasked, LoadCatalog
    <3>4. Moves(q, new)
      BY <3>3 DEF Moves
    <3> QED
      BY <3>2, <3>4, SetMoves
  <2> QED
    BY <2>1, <2>2
<1>2. CASE Enhance(r)
  BY <1>2, GotoMoves, EndsMove DEF Enhance
<1>3. CASE CheckAmbiguity(r)
  BY <1>3, GotoMoves, EndsMove DEF CheckAmbiguity
<1>4. CASE SelectTables(r)
  BY <1>4, GotoMoves, EndsMove DEF SelectTables
<1>5. CASE PruneColumns(r)
  BY <1>5, GotoMoves DEF PruneColumns
<1>6. CASE Generate(r)
  <2>1. PICK sql \in Queries, pc \in {"critic", "vote"} :
           request' = [request EXCEPT ![r] = [q EXCEPT !.sql = sql, !.pc = pc]]
    BY <1>6 DEF Generate, Set
  <2> DEFINE new == [q EXCEPT !.sql = sql, !.pc = pc]
  <2>2. new.pc = pc /\ new.repairs = q.repairs /\ q.pc = "generate"
    BY <1>0, <1>6 DEF Question, Unasked, Generate
  <2>3. Moves(q, new)
    BY <2>2 DEF Moves
  <2> QED
    BY <2>1, <2>3, SetMoves
<1>7. CASE Vote(r)
  <2>1. PICK sql : request' = [request EXCEPT ![r] =
                       [q EXCEPT !.sql = sql, !.pc = "critic"]]
    BY <1>7 DEF Vote, Set
  <2> DEFINE new == [q EXCEPT !.sql = sql, !.pc = "critic"]
  <2>2. new.pc = "critic" /\ new.repairs = q.repairs /\ q.pc = "vote"
    BY <1>0, <1>7 DEF Question, Unasked, Vote
  <2>3. Moves(q, new)
    BY <2>2 DEF Moves
  <2> QED
    BY <2>1, <2>3, SetMoves
<1>8. CASE Criticise(r)
  <2>1. CASE Reject(r, q.sql)
    BY <1>8, <2>1, RejectMoves DEF Criticise
  <2>2. CASE Set(r, [q EXCEPT !.pc = "check", !.approved = q.sql])
    <3> DEFINE new == [q EXCEPT !.pc = "check", !.approved = q.sql]
    <3>1. new.pc = "check" /\ new.repairs = q.repairs /\ q.pc = "critic"
      BY <1>0, <1>8 DEF Question, Unasked, Criticise
    <3>2. Moves(q, new)
      BY <3>1 DEF Moves
    <3> QED
      BY <2>2, <3>2, SetMoves DEF Set
  <2> QED
    BY <1>8, <2>1, <2>2 DEF Criticise
<1>9. CASE Check(r)
  <2>1. CASE Reject(r, q.sql)
    BY <1>9, <2>1, RejectMoves DEF Check
  <2>2. CASE Raises(r)
    BY <1>9, <2>2, EndsMove DEF Check
  <2>3. CASE ~Reject(r, q.sql) /\ ~Raises(r)
    <3>1. PICK guard, planned, schema :
             request' = [request EXCEPT ![r] =
                 [q EXCEPT !.pc = "review", !.guarded = guard, !.explained = planned,
                           !.schema = schema]]
      BY <1>9, <2>3 DEF Check, Set
    <3> DEFINE new == [q EXCEPT !.pc = "review", !.guarded = guard,
                                !.explained = planned, !.schema = schema]
    <3>2. new.pc = "review" /\ new.repairs = q.repairs /\ q.pc = "check"
      BY <1>0, <1>9 DEF Question, Unasked, Check
    <3>3. Moves(q, new)
      BY <3>2 DEF Moves
    <3> QED
      BY <3>1, <3>3, SetMoves
  <2> QED
    BY <2>1, <2>2, <2>3
<1>10. CASE Review(r)
  <2> DEFINE sql == q.guarded.sql
             new == [Built(r, sql, q.guarded.tables) EXCEPT !.approved = sql]
  <2>1. CASE Reject(r, sql)
    BY <1>10, <2>1, RejectMoves DEF Review
  <2>2. CASE Set(r, new)
    <3>1. new.pc = "ended" /\ q.pc = "review"
      BY <1>0, <1>10 DEF Question, Unasked, Review, Built, Answered
    <3>2. Moves(q, new)
      BY <3>1 DEF Moves
    <3> QED
      BY <2>2, <3>2, SetMoves DEF Set
  <2> QED
    BY <1>10, <2>1, <2>2 DEF Review
<1>11. CASE Repair(r)
  <2>1. PICK sql : request' = [request EXCEPT ![r] =
                       [q EXCEPT !.sql = sql, !.pc = "check", !.asked = @ + 1]]
    BY <1>11 DEF Repair, Set
  <2> DEFINE new == [q EXCEPT !.sql = sql, !.pc = "check", !.asked = @ + 1]
  <2>2. new.pc = "check" /\ new.repairs = q.repairs /\ q.pc = "repair"
    BY <1>0, <1>11 DEF Question, Unasked, Repair
  <2>3. Moves(q, new)
    BY <2>2 DEF Moves
  <2> QED
    BY <2>1, <2>3, SetMoves
<1>12. CASE ModelFails(r)
  BY <1>12, EndsMove DEF ModelFails
<1> QED
  BY <1>1, <1>2, <1>3, <1>4, <1>5, <1>6, <1>7, <1>8, <1>9, <1>10, <1>11, <1>12
     DEF RequestStep

\* Every other step leaves the questions alone, begins one, or ends them.
LEMMA NextMoves ==
    ASSUME Questioned, [Next]_vars
    PROVE  Moving
<1>1. CASE UNCHANGED request
  BY <1>1 DEF Moving
<1>2. CASE \E r \in Requests : RequestStep(r)
  BY <1>2, RequestStepMoves
<1>3. CASE \E r \in Requests : Ask(r)
  <2>1. PICK r \in Requests : Ask(r)
    BY <1>3
  <2>2. Question(request[r]) /\ request[r].pc = "unasked"
    BY <2>1 DEF Questioned, Ask
  <2> DEFINE begun == [request[r] EXCEPT !.pc = "load"]
  <2>3. \/ request' = [request EXCEPT ![r] = begun]
        \/ request' = [request EXCEPT ![r] = Answered(r, Told(r, "clarify_needed"), 0)]
    BY <2>1 DEF Ask, Questioned
  <2>4. begun.pc = "load" /\ begun.repairs = request[r].repairs
    BY <2>2 DEF Question, Unasked
  <2>5. Moves(request[r], begun)
    BY <2>2, <2>4 DEF Moves, Forward
  <2>6. Moves(request[r], Answered(r, Told(r, "clarify_needed"), 0))
    BY <2>2, AnsweredMoves
  <2> QED
    BY <2>3, <2>5, <2>6, SetMoves
<1>4. CASE Restart
  <2> SUFFICES ASSUME NEW r \in Requests, request'[r] # request[r]
               PROVE  Moves(request[r], request'[r])
    BY DEF Moving
  <2>1. /\ request[r].pc # "ended"
        /\ request'[r] = [request[r] EXCEPT !.pc = "ended", !.answer = [status |-> "lost"]]
    BY <1>4 DEF Restart
  <2>2. request'[r].pc = "ended"
    BY <2>1 DEF Questioned, Question, Unasked
  <2> QED
    BY <2>1, <2>2 DEF Moves
<1>5. UNCHANGED vars => UNCHANGED request
  BY DEF vars, agentVars
<1>6. ControlStep => UNCHANGED request
  BY DEF ControlStep, agentVars
<1>7. Outside => \/ UNCHANGED request
                 \/ Restart
                 \/ \E r \in Requests : Ask(r)
  BY DEF Outside, GenerateReads, GenerateWrites
<1> QED
  BY <1>1, <1>2, <1>3, <1>4, <1>5, <1>6, <1>7 DEF Next

\* A question is at most 3 * MaxRepairs + 11 steps from its end, and every step
\* it takes is one less: no order of refusals, failures and repairs sends it round
\* the loop of build_query for nothing.
THEOREM QuestionsNearTheirEnd == Spec => QuestionsAdvance
<1>1. Questioned /\ [Next]_vars =>
        [\A r \in Requests :
            request'[r] # request[r] =>
                StepsLeft(request'[r]) \in 0 .. StepsLeft(request[r]) - 1]_vars
  BY NextMoves, MovesAdvance DEF Moving, Questioned
<1> QED
  BY <1>1, AlwaysQuestioned, PTL DEF Spec, QuestionsAdvance

-----------------------------------------------------------------------------
(* The kinds of row and what an ingestion wants of each.                   *)

\* The phases one by one, for provers that do not evaluate sequences.
LEMMA PhaseFacts ==
    /\ Len(Phases) = 6
    /\ Kinds = {"workspace", "table", "column", "edge", "term", "example"}
    /\ UniqueKinds = {"workspace", "table", "column"}
    /\ \A p \in 1 .. 6 : Phases[p] \in Kinds
    /\ Phases[2] = "table" /\ Phases[3] = "column" /\ Phases[4] = "edge"
    /\ Phases[5] = "term" /\ Phases[6] = "example"
BY DEF Phases, Kinds, UniqueKinds

\* The content a row has is what the change detection compares.
Exactly(kind, want, names) ==
    /\ DOMAIN want = {"key", "text", "content"}
    /\ kind = "column" => want.text = None
    /\ kind = "table" => want.text = want.content[1]
    /\ kind = "term" => want.content = Resolved(want.content, names)

\* No key is wanted twice, whatever was read: the dictionaries of diff.py.
LEMMA WantedOnce ==
    ASSUME NEW run, NEW k \in Kinds
    PROVE  /\ \A a, b \in Desired(run)[k] : a.key = b.key => a = b
           /\ \A a \in Desired(run)[k] : Exactly(k, a, run.names)
<1> DEFINE wants == Desired(run)[k]
<1>1. CASE k = "workspace"
  BY <1>1 DEF Desired, Wanted, Exactly
<1>2. CASE k = "table"
  <2>1. wants = WantedTables(run)
    BY <1>2 DEF Desired
  <2> QED
    BY <1>2, <2>1 DEF WantedTables, Wanted, Exactly
<1>3. CASE k = "column"
  <2>1. wants = WantedColumns(run)
    BY <1>3 DEF Desired
  <2>2. \A a \in WantedColumns(run) : \E t \in run.names :
           \E c \in DOMAIN run.columns[t] :
               a = Wanted(<<t, c>>, None, ColumnContent(run, t, c))
    BY DEF WantedColumns
  <2> QED
    BY <1>3, <2>1, <2>2 DEF Wanted, Exactly
<1>4. CASE k = "edge"
  <2>1. wants = WantedEdges(run)
    BY <1>4 DEF Desired
  <2> DEFINE keys == {e \in run.fks : e[1][1] \in run.names /\ e[2][1] \in run.names}
             hints == {e \in DOMAIN run.spec.hints :
                           Concrete(run, e[1]) /\ Concrete(run, e[2])}
  <2>2. wants = {Wanted(e, None, "fk_auto") : e \in keys}
                    \cup {Wanted(e, run.spec.hints[e], "manual") : e \in hints \ keys}
    BY <2>1 DEF WantedEdges
  <2> HIDE DEF keys, hints, wants
  <2>3. \A a, b \in wants : a.key = b.key => a = b
    BY <2>2 DEF Wanted
  <2>4. \A a \in wants : Exactly(k, a, run.names)
    BY <1>4, <2>2 DEF Wanted, Exactly
  <2> QED
    BY <2>3, <2>4 DEF wants
<1>5. CASE k = "term"
  <2>1. wants = WantedTerms(run)
    BY <1>5 DEF Desired
  <2> QED
    BY <1>5, <2>1 DEF WantedTerms, Wanted, Exactly, Resolved
<1>6. CASE k = "example"
  <2>1. wants = WantedExamples(run)
    BY <1>6 DEF Desired
  <2> QED
    BY <1>6, <2>1 DEF WantedExamples, Wanted, Exactly
<1> QED
  BY <1>1, <1>2, <1>3, <1>4, <1>5, <1>6, PhaseFacts

-----------------------------------------------------------------------------
(* Steps that leave the rows alone.                                        *)

Unstored == UNCHANGED <<store, commits, raced, mirrored>>

\* A step that stores nothing keeps what is said of the rows alone.
LEMMA RowsStay ==
    ASSUME Ingested, Unstored, world' \in Worlds
    PROVE  Rows' /\ Tidy' /\ EmbeddingsFresh' /\ StructureHeals' /\ StoreMirrors'
<1> USE DEF Ingested, Unstored
<1>1. Rows'
  BY DEF Rows, Row
<1>2. Tidy' /\ EmbeddingsFresh'
  BY DEF Tidy, EmbeddingsFresh
<1>3. StructureHeals'
  BY DEF StructureHeals, LiveTables, Mirrors
<1>4. StoreMirrors'
  <2>1. store' = store /\ raced' = raced /\ mirrored' = mirrored
    OBVIOUS
  <2>2. LiveTables' = LiveTables
    BY <2>1 DEF LiveTables
  <2> QED
    BY <2>1, <2>2 DEF StoreMirrors
<1> QED
  BY <1>1, <1>2, <1>3, <1>4

\* One ingestion goes on, and enters no transaction.
LEMMA RunSet ==
    ASSUME Ingested, Unstored, world' \in Worlds,
           NEW i \in Ingesters, NEW new,
           ingest' = [ingest EXCEPT ![i] = new],
           Run(new, commits), OvertakenRun(new, store),
           new.pc \in {"begun", "loaded"} =>
               /\ InTransaction(i) /\ new.alone = ingest[i].alone
               /\ new.alone => Exact(new, store),
           \A k \in UniqueKinds :
               LET keys == LockedKeys(k, new.writes[k])
               IN  /\ \A r \in store[k] : r.key \notin keys
                   /\ \A j \in Ingesters \ {i} : keys \cap Locked(j, k) = {}
    PROVE  Ingested'
<1>0. ingest = [j \in Ingesters |-> ingest[j]]
  BY DEF Ingested, Runs
<1>1. /\ ingest'[i] = new
      /\ \A j \in Ingesters \ {i} : ingest'[j] = ingest[j]
      /\ ingest' = [j \in Ingesters |-> ingest'[j]]
  BY <1>0
<1>2. /\ InTransaction(i)' => InTransaction(i)
      /\ \A j \in Ingesters \ {i} : InTransaction(j)' <=> InTransaction(j)
  BY <1>1 DEF InTransaction
<1>3. Rows' /\ Tidy' /\ EmbeddingsFresh' /\ StructureHeals' /\ StoreMirrors'
  BY RowsStay
<1>4. Runs'
  BY <1>1 DEF Ingested, Runs, Unstored
<1>5. Overtaken'
  BY <1>1 DEF Ingested, Overtaken, Unstored
<1>6. KeysLocked'
  BY <1>1 DEF Ingested, KeysLocked, Locked, Unstored
<1>7. Apart'
  <2>1. raced' = raced
    BY DEF Unstored
  <2>2. InTransaction(i)' => new.alone = ingest[i].alone
    BY <1>1 DEF InTransaction
  <2> QED
    BY <1>1, <1>2, <2>1, <2>2 DEF Ingested, Apart
<1>8. AloneExact'
  BY <1>1, <1>2 DEF Ingested, AloneExact, InTransaction, Unstored
<1> QED
  BY <1>3, <1>4, <1>5, <1>6, <1>7, <1>8 DEF Ingested

\* A transaction begins with no writes and so with no locks.
LEMMA NothingWritten ==
    ASSUME NEW k \in Kinds
    PROVE  /\ NoIngest.writes[k] = NoWrites
           /\ DOMAIN NoIngest.writes = Kinds
           /\ NoWrites.inserts = {} /\ NoWrites.updates = {} /\ NoWrites.deletes = {}
           /\ LockedKeys(k, NoWrites) = {}
BY DEF NoIngest, NoWrites, LockedKeys

\* An ingester that is idle satisfies the invariant of runs.
LEMMA NoIngestRun ==
    ASSUME NEW now
    PROVE  Run(NoIngest, now)
<1> DEFINE new == NoIngest
<1>1. /\ DOMAIN new = DOMAIN NoIngest /\ new.pc = "idle" /\ new.phase = 1
      /\ new.loaded = {} /\ new.alone \in BOOLEAN
      /\ new.writes = NoIngest.writes
  BY DEF NoIngest
<1>2. \A k \in Kinds : DOMAIN new.writes[k] = DOMAIN NoWrites
                        /\ Writes(k, new.writes[k], now)
  BY NothingWritten DEF Writes
<1>3. DOMAIN new.writes = Kinds
  BY DEF NoIngest
<1> HIDE DEF new
<1>4. Run(new, now)
  BY <1>1, <1>2, <1>3, PhaseFacts DEF Run
<1> QED
  BY <1>4 DEF new

\* An ingestion that has not begun its transaction, or has left it.
LEMMA QuietRun ==
    ASSUME Ingested, Unstored, world' \in Worlds,
           NEW i \in Ingesters, NEW new,
           ingest' = [ingest EXCEPT ![i] = new],
           DOMAIN new = DOMAIN NoIngest,
           new.pc \in {"idle", "file", "tables", "columns"},
           new.phase = 1, new.loaded = {}, new.alone \in BOOLEAN,
           new.writes = NoIngest.writes
    PROVE  Ingested'
<1>1. \A k \in Kinds : DOMAIN new.writes[k] = DOMAIN NoWrites
                         /\ Writes(k, new.writes[k], commits)
  BY NothingWritten DEF Writes
<1>2. Run(new, commits)
  BY <1>1, NothingWritten, PhaseFacts DEF Run
<1>3. OvertakenRun(new, store)
  BY NothingWritten DEF OvertakenRun
<1>4. \A k \in UniqueKinds : LockedKeys(k, new.writes[k]) = {}
  BY NothingWritten, PhaseFacts
<1> QED
  BY <1>2, <1>3, <1>4, RunSet

\* An ingestion that ends without a commit leaves no trace.
LEMMA LeavesKeep ==
    ASSUME Ingested, Unstored, world' \in Worlds, NEW i \in Ingesters,
           ingest' = [ingest EXCEPT ![i] = NoIngest]
    PROVE  Ingested'
<1>1. /\ NoIngest.pc = "idle" /\ NoIngest.phase = 1 /\ NoIngest.loaded = {}
      /\ NoIngest.alone = TRUE
  BY DEF NoIngest
<1> QED
  BY <1>1, QuietRun

\* The first reads are outside the transaction's writes.
LEMMA ReadingKeeps ==
    ASSUME Ingested, NEW i \in Ingesters,
           LoadFile(i) \/ ReadTables(i) \/ ReadColumns(i)
    PROVE  Ingested'
<1> DEFINE run == ingest[i]
<1>0. Unstored /\ world' \in Worlds
  BY DEF LoadFile, ReadTables, ReadColumns, Unstored, Ingested, Rows
<1>1. Run(run, commits) /\ ingest = [j \in Ingesters |-> ingest[j]]
  BY DEF Ingested, Runs
<1>2. CASE LoadFile(i)
  <2>1. PICK new : /\ ingest' = [ingest EXCEPT ![i] = new]
                   /\ new = [NoIngest EXCEPT !.pc = "file", !.spec = world.spec]
    BY <1>2 DEF LoadFile
  <2>2. /\ DOMAIN new = DOMAIN NoIngest
        /\ new.pc = "file" /\ new.phase = 1 /\ new.loaded = {}
        /\ new.alone = TRUE /\ new.writes = NoIngest.writes
    BY <2>1 DEF NoIngest
  <2> QED
    BY <1>0, <2>1, <2>2, QuietRun
<1>3. CASE ReadTables(i)
  <2>1. PICK new : /\ ingest' = [ingest EXCEPT ![i] = new]
                   /\ new = [run EXCEPT !.pc = "tables",
                                        !.names = DOMAIN world.schema]
    BY <1>1, <1>3 DEF ReadTables
  <2>2. run.pc = "file"
    BY <1>3 DEF ReadTables
  <2>3. /\ DOMAIN new = DOMAIN NoIngest
        /\ new.pc = "tables" /\ new.phase = 1 /\ new.loaded = {}
        /\ new.alone \in BOOLEAN /\ new.writes = NoIngest.writes
    BY <1>1, <2>1, <2>2 DEF NoIngest, Run
  <2> QED
    BY <1>0, <2>1, <2>3, QuietRun
<1>4. CASE ReadColumns(i)
  <2>1. PICK columns : ingest' = [ingest EXCEPT ![i].pc = "columns",
                                               ![i].columns = columns]
    BY <1>4 DEF ReadColumns
  <2> DEFINE new == [run EXCEPT !.pc = "columns", !.columns = columns]
  <2>2. run.pc = "tables" /\ ingest' = [ingest EXCEPT ![i] = new]
    BY <1>1, <1>4, <2>1 DEF ReadColumns
  <2>3. /\ DOMAIN new = DOMAIN NoIngest
        /\ new.pc = "columns" /\ new.phase = 1 /\ new.loaded = {}
        /\ new.alone \in BOOLEAN /\ new.writes = NoIngest.writes
    BY <1>1, <2>2 DEF NoIngest, Run
  <2> QED
    BY <1>0, <2>2, <2>3, QuietRun
<1> QED
  BY <1>2, <1>3, <1>4

\* A transaction begins: those it meets, and it, no longer run alone.
LEMMA ReadKeysKeeps ==
    ASSUME Ingested, NEW i \in Ingesters, ReadKeys(i)
    PROVE  Ingested'
<1> DEFINE run == ingest[i]
           others == {j \in Ingesters \ {i} : InTransaction(j)}
           new == [run EXCEPT !.pc = "begun", !.fks = world.fks,
                              !.alone = others = {}]
<1>0. /\ UNCHANGED <<world, store, commits, mirrored>>
      /\ run.pc = "columns"
      /\ raced' = (raced \/ others # {})
      /\ ingest' = [j \in Ingesters |->
                       IF j = i THEN new
                       ELSE IF j \in others THEN [ingest[j] EXCEPT !.alone = FALSE]
                       ELSE ingest[j]]
  BY DEF ReadKeys
<1> HIDE DEF others
<1>1. /\ \A j \in Ingesters : Run(ingest[j], commits)
      /\ \A j \in Ingesters : OvertakenRun(ingest[j], store)
  BY DEF Ingested, Runs, Overtaken
<1>2. /\ DOMAIN new = DOMAIN NoIngest
      /\ new.pc = "begun" /\ new.phase = 1 /\ new.loaded = {}
      /\ new.writes = NoIngest.writes
      /\ new.alone = (others = {})
  BY <1>0, <1>1 DEF Run, NoIngest
<1> HIDE DEF new
<1>3. ASSUME NEW j \in others
      PROVE  /\ j \in Ingesters /\ j # i /\ InTransaction(j)
             /\ DOMAIN ingest'[j] = DOMAIN ingest[j]
             /\ ingest'[j].alone = FALSE
             /\ \A f \in DOMAIN ingest[j] \ {"alone"} : ingest'[j][f] = ingest[j][f]
  <2>1. j \in Ingesters /\ j # i /\ InTransaction(j)
    BY DEF others
  <2>2. ingest'[j] = [ingest[j] EXCEPT !.alone = FALSE]
    BY <1>0, <2>1
  <2>3. "alone" \in DOMAIN ingest[j]
    BY <1>1, <2>1 DEF Run, NoIngest
  <2> QED
    BY <2>1, <2>2, <2>3
<1>4. ingest'[i] = new /\ \A j \in Ingesters \ {i} : j \notin others => ingest'[j] = ingest[j]
  BY <1>0
<1>5. ASSUME NEW j \in Ingesters, j # i
      PROVE  /\ DOMAIN ingest'[j] = DOMAIN ingest[j]
             /\ ingest'[j].pc = ingest[j].pc
             /\ ingest'[j].phase = ingest[j].phase
             /\ ingest'[j].loaded = ingest[j].loaded
             /\ ingest'[j].writes = ingest[j].writes
             /\ ingest'[j].alone = (ingest[j].alone /\ j \notin others)
  <2>1. CASE j \in others
    <3>1. {"pc", "phase", "loaded", "writes"} \subseteq DOMAIN ingest[j] \ {"alone"}
      BY <1>1, <1>5 DEF Run, NoIngest
    <3> QED
      BY <2>1, <1>3, <3>1
  <2>2. CASE j \notin others
    BY <1>1, <1>4, <1>5, <2>2 DEF Run
  <2> QED
    BY <2>1, <2>2
<1>6. /\ \A j \in Ingesters : Run(ingest'[j], commits)
      /\ \A j \in Ingesters : OvertakenRun(ingest'[j], store)
  <2>1. \A k \in Kinds : DOMAIN new.writes[k] = DOMAIN NoWrites
                           /\ Writes(k, new.writes[k], commits)
    BY <1>2, NothingWritten DEF Writes
  <2>2. Run(new, commits)
    BY <1>2, <2>1, NothingWritten, PhaseFacts DEF Run
  <2>3. OvertakenRun(new, store)
    BY <1>2, NothingWritten DEF OvertakenRun
  <2>4. ASSUME NEW j \in Ingesters, j # i
        PROVE  Run(ingest'[j], commits) /\ OvertakenRun(ingest'[j], store)
    <3>1. Kind(ingest'[j]) = Kind(ingest[j])
      BY <1>5, <2>4 DEF Kind
    <3>2. Run(ingest'[j], commits)
      <4> DEFINE old == ingest[j]
                 now == ingest'[j]
      <4>1. Run(old, commits) /\ Kind(now) = Kind(old)
        BY <1>1, <2>4, <3>1
      <4>2. /\ DOMAIN now = DOMAIN old /\ now.pc = old.pc
            /\ now.phase = old.phase /\ now.loaded = old.loaded
            /\ now.writes = old.writes
        BY <1>5, <2>4
      <4>3. now.alone \in BOOLEAN
        BY <1>5, <2>4
      <4> HIDE DEF old, now
      <4>4. Run(now, commits)
        BY <4>1, <4>2, <4>3 DEF Run
      <4> QED
        BY <4>4 DEF now
    <3>3. OvertakenRun(ingest'[j], store)
      BY <1>1, <1>5, <2>4, <3>1 DEF OvertakenRun
    <3> QED
      BY <3>2, <3>3
  <2> QED
    BY <1>4, <2>2, <2>3, <2>4
<1>7. Rows' /\ Tidy' /\ EmbeddingsFresh' /\ StructureHeals' /\ StoreMirrors'
  <2>1. raced' = FALSE => raced = FALSE
    BY <1>0 DEF Ingested, Apart
  <2>2. raced' \in BOOLEAN
    BY <1>0 DEF Ingested, Apart
  <2>3. Rows'
    BY <1>0 DEF Ingested, Rows, Row
  <2>4. Tidy' /\ EmbeddingsFresh'
    BY <1>0, <2>1, <2>2 DEF Ingested, Tidy, EmbeddingsFresh
  <2>5. LiveTables' = LiveTables
    BY <1>0 DEF LiveTables
  <2>6. StructureHeals'
    BY <1>0, <2>5 DEF Ingested, StructureHeals, Mirrors
  <2>7. StoreMirrors'
    BY <1>0, <2>1, <2>2, <2>5 DEF Ingested, StoreMirrors
  <2> QED
    BY <2>3, <2>4, <2>6, <2>7
<1>8. Runs' /\ Overtaken'
  <2>1. ingest' = [j \in Ingesters |-> ingest'[j]]
    BY <1>0
  <2> QED
    BY <1>0, <1>6, <2>1 DEF Runs, Overtaken
<1>9. KeysLocked'
  <2>1. \A j \in Ingesters \ {i} : \A k : Locked(j, k)' = Locked(j, k)
    BY <1>5 DEF Locked
  <2>2. \A k \in UniqueKinds : Locked(i, k)' = {}
    BY <1>2, <1>4, NothingWritten, PhaseFacts DEF Locked
  <2> QED
    BY <1>0, <2>1, <2>2 DEF Ingested, KeysLocked
<1>10. Apart'
  <2>1. \A j \in Ingesters \ {i} : InTransaction(j)' <=> InTransaction(j)
    BY <1>5 DEF InTransaction
  <2>2. others = {j \in Ingesters \ {i} : InTransaction(j)}
    BY DEF others
  <2> QED
    BY <1>0, <1>2, <1>4, <1>5, <2>1, <2>2 DEF Ingested, Apart
<1>11. AloneExact'
  <2>1. ASSUME NEW j \in Ingesters, InTransaction(j)', ingest'[j].alone
        PROVE  Exact(ingest'[j], store)
    <3>1. CASE j = i
      BY <1>2, <1>4, <3>1, PhaseFacts DEF Exact
    <3>2. CASE j # i
      <4>1. ingest[j].alone /\ j \notin others /\ InTransaction(j)
        BY <1>5, <2>1, <3>2 DEF InTransaction
      <4>2. ingest'[j] = ingest[j]
        BY <1>4, <3>2, <4>1
      <4> QED
        BY <4>1, <4>2 DEF Ingested, AloneExact
    <3> QED
      BY <3>1, <3>2
  <2> QED
    BY <1>0, <2>1 DEF AloneExact
<1> QED
  BY <1>7, <1>8, <1>9, <1>10, <1>11 DEF Ingested

\* The rows of a phase are loaded as they are now.
LEMMA LoadRowsKeeps ==
    ASSUME Ingested, NEW i \in Ingesters, LoadRows(i)
    PROVE  Ingested'
<1> DEFINE run == ingest[i]
           new == [run EXCEPT !.pc = "loaded", !.loaded = Loads(run)]
<1>0. /\ Unstored /\ world' \in Worlds
      /\ run.pc = "begun" /\ run.phase <= 6
      /\ InTransaction(i)
  BY PhaseFacts DEF LoadRows, Unstored, Ingested, Rows, InTransaction
<1>1. /\ Run(run, commits) /\ OvertakenRun(run, store)
      /\ ingest = [j \in Ingesters |-> ingest[j]]
  BY DEF Ingested, Runs, Overtaken
<1>2. /\ DOMAIN new = DOMAIN NoIngest
      /\ new.pc = "loaded" /\ new.loaded = Loads(run)
      /\ new.phase = run.phase /\ new.alone = run.alone
      /\ new.writes = run.writes /\ new.names = run.names
      /\ new.columns = run.columns /\ new.fks = run.fks /\ new.spec = run.spec
  BY <1>1 DEF Run, NoIngest
<1>3. ingest' = [ingest EXCEPT ![i] = new]
  BY <1>1 DEF LoadRows
<1> HIDE DEF new
<1>4. /\ Kind(new) = Kind(run) /\ Kind(run) \in Kinds
      /\ Kind(run) = Phases[run.phase]
      /\ run.phase \in 1 .. 6
  BY <1>0, <1>1, <1>2, PhaseFacts DEF Kind, Run
<1>5. \A r \in Loads(run) : r \in store[Kind(run)]
  BY DEF Loads
<1>6. Run(new, commits)
  <2>1. \A r \in new.loaded : Row(Kind(new), r, commits)
    BY <1>2, <1>4, <1>5 DEF Ingested, Rows
  <2> QED
    BY <1>0, <1>1, <1>2, <2>1, PhaseFacts DEF Run
<1>7. OvertakenRun(new, store)
  <2>1. \A r \in new.loaded : \A s \in store[Kind(new)] : Aged(r, s)
    BY <1>2, <1>4, <1>5 DEF Ingested, Rows, Aged
  <2> QED
    BY <1>1, <1>2, <2>1 DEF OvertakenRun
<1>8. run.alone => Exact(new, store)
  <2>1. new.loaded = At(new, new.phase, store).loaded
    BY <1>2, <1>4 DEF At, Loads
  <2>2. \A p : At(new, p, store) = At(run, p, store)
    BY <1>2 DEF At
  <2> QED
    BY <1>0, <1>2, <2>1, <2>2 DEF Ingested, AloneExact, Exact
<1>9. \A k \in UniqueKinds :
         LET keys == LockedKeys(k, new.writes[k])
         IN  /\ \A r \in store[k] : r.key \notin keys
             /\ \A j \in Ingesters \ {i} : keys \cap Locked(j, k) = {}
  BY <1>2 DEF Locked, Ingested, KeysLocked
<1> QED
  BY <1>0, <1>2, <1>3, <1>6, <1>7, <1>8, <1>9, RunSet

-----------------------------------------------------------------------------
(* What a phase flushes.                                                   *)

\* An update of a row that differs from what is wanted is sound.
LEMMA RefreshedSound ==
    ASSUME NEW k \in Kinds, NEW now, NEW names, NEW r, Row(k, r, now),
           NEW want, Exactly(k, want, names), ~Same(k, r, want, names),
           r.key = want.key
    PROVE  Sound(k, [row |-> r, to |-> Refreshed(r, want)], now)
<1> DEFINE to == Refreshed(r, want)
           u == [row |-> r, to |-> to]
<1>1. /\ DOMAIN to = RowFields /\ to = [f \in RowFields |-> to[f]]
      /\ to.key = r.key /\ to.born = r.born
      /\ to.text = want.text /\ to.content = want.content
      /\ to.active = TRUE /\ to.embedding = None
  BY DEF Row, RowFields, Refreshed
<1>2. u.row = r /\ u.to = to
  OBVIOUS
<1> HIDE DEF to, u
<1>3. Row(k, to, now) /\ Identity(to) = Identity(r)
  BY <1>1 DEF Row, Exactly, Identity
<1>4. ~r.active \/ Embeddable(to) # Embeddable(r)
  <2> SUFFICES ASSUME r.active, Embeddable(to) = Embeddable(r)  PROVE FALSE
    OBVIOUS
  <2>1. r.text = want.text /\ r.content = want.content
    BY <1>1 DEF Embeddable
  <2>2. Hashed(k, r, names) = FreshHash(k, want)
    BY <2>1 DEF Hashed, FreshHash, Exactly
  <2> QED
    BY <2>2 DEF Same
<1> QED
  BY <1>1, <1>2, <1>3, <1>4 DEF Sound, u, to

\* So is the soft deletion of a table.
LEMMA DroppedSound ==
    ASSUME NEW now, NEW r, Row("table", r, now), r.active
    PROVE  Sound("table", [row |-> r, to |-> [r EXCEPT !.active = FALSE]], now)
<1> DEFINE to == [r EXCEPT !.active = FALSE]
           u == [row |-> r, to |-> to]
<1>1. /\ DOMAIN to = RowFields /\ to = [f \in RowFields |-> to[f]]
      /\ to.key = r.key /\ to.born = r.born
      /\ to.text = r.text /\ to.content = r.content
      /\ to.active = FALSE /\ to.embedding = r.embedding
  BY DEF Row, RowFields
<1>2. u.row = r /\ u.to = to
  OBVIOUS
<1> HIDE DEF to, u
<1>3. Row("table", to, now) /\ Identity(to) = Identity(r) /\ Embeddable(to) = Embeddable(r)
  BY <1>1 DEF Row, Identity, Embeddable
<1> QED
  BY <1>1, <1>2, <1>3 DEF Sound, u, to

\* The rows a phase writes again are rows it keeps, and what it makes of them.
LEMMA RewrittenRows ==
    ASSUME NEW run, NEW keep, NEW wants, NEW u \in Rewritten(run, keep, wants)
    PROVE  /\ u.row \in keep
           /\ \/ \E want \in wants :
                    /\ u.row.key = want.key
                    /\ ~Same(Kind(run), u.row, want, run.names)
                    /\ u = [row |-> u.row, to |-> Refreshed(u.row, want)]
              \/ /\ Kind(run) = "table" /\ u.row \in Removed(keep, wants)
                 /\ u = [row |-> u.row, to |-> [u.row EXCEPT !.active = FALSE]]
<1>1. CASE \E rw \in Updated(Kind(run), keep, wants, run.names) :
              u = [row |-> rw[1], to |-> Refreshed(rw[1], rw[2])]
  <2>1. PICK r \in keep, want \in wants :
           /\ r.key = want.key /\ ~Same(Kind(run), r, want, run.names)
           /\ u = [row |-> r, to |-> Refreshed(r, want)]
    BY <1>1 DEF Updated
  <2> QED
    BY <2>1
<1>2. CASE \E r \in IF Kind(run) = "table" THEN Removed(keep, wants) ELSE {} :
              u = [row |-> r, to |-> [r EXCEPT !.active = FALSE]]
  BY <1>2 DEF Removed
<1> QED
  BY <1>1, <1>2 DEF Rewritten

\* The parts of a flush by name.
LEMMA FlushFields ==
    ASSUME NEW run, NEW keep
    PROVE  LET w     == FlushOf(run, keep)
               wants == Desired(run)[Kind(run)]
           IN  /\ DOMAIN w = DOMAIN NoWrites
               /\ w.inserts = Created(keep, wants)
               /\ w.updates = Rewritten(run, keep, wants)
               /\ w.deletes = {Identity(r) : r \in Deleted(run, keep, wants)}
BY DEF FlushOf, NoWrites

\* What a phase flushes is sound, and updates only rows it has loaded.
LEMMA FlushSound ==
    ASSUME NEW run, NEW now, Run(run, now), run.pc = "loaded",
           NEW keep \in OnePerKey(run.loaded)
    PROVE  LET w == FlushOf(run, keep)
           IN  /\ Writes(Kind(run), w, now)
               /\ \A u \in w.updates : u.row \in run.loaded
<1> DEFINE k == Kind(run)
           w == FlushOf(run, keep)
           wants == Desired(run)[k]
<1>0. k \in Kinds
  BY PhaseFacts DEF Run, Kind
<1>1. /\ \A a, b \in wants : a.key = b.key => a = b
      /\ \A a \in wants : Exactly(k, a, run.names)
  BY <1>0, WantedOnce
<1>2. /\ w.inserts \subseteq wants
      /\ w.updates = Rewritten(run, keep, wants)
  BY FlushFields DEF Created
<1>3. keep \subseteq run.loaded /\ \A r \in keep : Row(k, r, now)
  BY DEF OnePerKey, Run
<1> HIDE DEF k, w, wants
<1>4. ASSUME NEW u \in w.updates
      PROVE  Sound(k, u, now) /\ u.row \in run.loaded
  <2>1. u.row \in keep
    BY <1>2, RewrittenRows
  <2>2. CASE \E want \in wants :
                /\ u.row.key = want.key /\ ~Same(k, u.row, want, run.names)
                /\ u = [row |-> u.row, to |-> Refreshed(u.row, want)]
    <3>1. PICK want \in wants :
             /\ u.row.key = want.key /\ ~Same(k, u.row, want, run.names)
             /\ u = [row |-> u.row, to |-> Refreshed(u.row, want)]
      BY <2>2
    <3>2. Sound(k, [row |-> u.row, to |-> Refreshed(u.row, want)], now)
      BY <1>0, <1>1, <1>3, <2>1, <3>1, RefreshedSound
    <3> QED
      BY <1>3, <2>1, <3>1, <3>2
  <2>3. CASE /\ k = "table" /\ u.row \in Removed(keep, wants)
             /\ u = [row |-> u.row, to |-> [u.row EXCEPT !.active = FALSE]]
    <3>1. Row("table", u.row, now) /\ u.row.active
      BY <1>3, <2>1, <2>3 DEF Removed
    <3>2. Sound("table", [row |-> u.row, to |-> [u.row EXCEPT !.active = FALSE]], now)
      BY <3>1, DroppedSound
    <3> QED
      BY <1>3, <2>1, <2>3, <3>2
  <2> QED
    BY <1>2, <2>2, <2>3, RewrittenRows DEF k
<1>5. Writes(k, w, now)
  BY <1>1, <1>2, <1>4 DEF Writes, Exactly
<1> QED
  BY <1>4, <1>5 DEF k, w

\* What is wanted depends on what was read alone.
LEMMA SameRead ==
    ASSUME NEW a, NEW b, a.names = b.names, a.columns = b.columns,
           a.fks = b.fks, a.spec = b.spec
    PROVE  Desired(a) = Desired(b)
<1>1. \A t, c : ColumnContent(a, t, c) = ColumnContent(b, t, c)
  BY DEF ColumnContent
<1>2. WantedTables(a) = WantedTables(b)
  BY <1>1 DEF WantedTables
<1>3. WantedColumns(a) = WantedColumns(b)
  <2> DEFINE Of(run, t) == {Wanted(<<t, c>>, None, ColumnContent(run, t, c)) :
                               c \in DOMAIN run.columns[t]}
  <2>1. \A t : Of(a, t) = Of(b, t)
    BY <1>1
  <2>2. /\ WantedColumns(a) = UNION {Of(a, t) : t \in a.names}
        /\ WantedColumns(b) = UNION {Of(b, t) : t \in b.names}
    BY DEF WantedColumns
  <2> HIDE DEF Of
  <2>3. {Of(a, t) : t \in a.names} = {Of(b, t) : t \in b.names}
    BY <2>1
  <2> QED
    BY <2>2, <2>3
<1>4. WantedEdges(a) = WantedEdges(b)
  BY DEF WantedEdges, Concrete
<1>5. WantedTerms(a) = WantedTerms(b)
  BY DEF WantedTerms
<1>6. WantedExamples(a) = WantedExamples(b)
  BY DEF WantedExamples
<1> QED
  BY <1>2, <1>3, <1>4, <1>5, <1>6 DEF Desired

\* A flush depends on what was read and loaded, not on the ingester's progress.
LEMMA SameFlush ==
    ASSUME NEW a, NEW b, NEW keep, a.names = b.names, a.columns = b.columns,
           a.fks = b.fks, a.spec = b.spec, a.phase = b.phase, a.loaded = b.loaded
    PROVE  FlushOf(a, keep) = FlushOf(b, keep)
<1>1. Desired(a) = Desired(b) /\ Kind(a) = Kind(b)
  BY SameRead DEF Kind
<1>2. \A wants : Deleted(a, keep, wants) = Deleted(b, keep, wants)
  BY <1>1 DEF Deleted
<1>3. \A wants : Rewritten(a, keep, wants) = Rewritten(b, keep, wants)
  BY <1>1 DEF Rewritten
<1> QED
  BY <1>1, <1>2, <1>3 DEF FlushOf

\* A flush adds locks that nobody holds and stores nothing yet.
LEMMA FlushRowsKeeps ==
    ASSUME Ingested, NEW i \in Ingesters, FlushRows(i)
    PROVE  Ingested'
<1> DEFINE run == ingest[i]
           k == Kind(run)
<1>0. /\ Unstored /\ world' \in Worlds
      /\ run.pc = "loaded" /\ InTransaction(i)
  BY DEF FlushRows, Unstored, Ingested, Rows, InTransaction
<1>1. /\ Run(run, commits) /\ OvertakenRun(run, store)
      /\ ingest = [j \in Ingesters |-> ingest[j]]
  BY DEF Ingested, Runs, Overtaken
<1>2. PICK keep \in OnePerKey(run.loaded) :
         LET w == FlushOf(run, keep)
         IN  /\ \A j \in Ingesters \ {i} :
                   LockedKeys(k, w) \cap LockedKeys(k, ingest[j].writes[k]) = {}
             /\ ingest' = [ingest EXCEPT ![i] =
                    IF Conflicts(k, w) THEN NoIngest
                    ELSE [run EXCEPT !.pc = "begun", !.loaded = {},
                                     !.phase = @ + 1, !.writes[k] = w]]
  BY DEF FlushRows
<1> DEFINE w == FlushOf(run, keep)
           new == [run EXCEPT !.pc = "begun", !.loaded = {},
                              !.phase = @ + 1, !.writes[k] = w]
<1>3. CASE Conflicts(k, w)
  BY <1>0, <1>2, <1>3, LeavesKeep
<1>4. CASE ~Conflicts(k, w)
  <2>1. ingest' = [ingest EXCEPT ![i] = new]
    BY <1>2, <1>4
  <2>2. /\ k \in Kinds /\ k = Phases[run.phase] /\ run.phase \in 1 .. 6
        /\ DOMAIN run.writes = Kinds
    BY <1>0, <1>1, PhaseFacts DEF Run, Kind
  <2>3. /\ DOMAIN new = DOMAIN NoIngest
        /\ new.pc = "begun" /\ new.loaded = {}
        /\ new.phase = run.phase + 1 /\ new.alone = run.alone
        /\ new.writes = [run.writes EXCEPT ![k] = w]
        /\ new.names = run.names /\ new.columns = run.columns
        /\ new.fks = run.fks /\ new.spec = run.spec
    BY <1>1 DEF Run, NoIngest
  <2> HIDE DEF new
  <2>4. /\ new.writes[k] = w /\ DOMAIN new.writes = Kinds
        /\ \A l \in Kinds \ {k} : new.writes[l] = run.writes[l]
    BY <2>2, <2>3
  <2>5. /\ Writes(k, w, commits) /\ DOMAIN w = DOMAIN NoWrites
        /\ \A u \in w.updates : u.row \in run.loaded
    BY <1>0, <1>1, FlushSound, FlushFields
  <2>6. Run(new, commits)
    <3>1. \A l \in Kinds : DOMAIN new.writes[l] = DOMAIN NoWrites
                            /\ Writes(l, new.writes[l], commits)
      BY <1>1, <2>4, <2>5 DEF Run
    <3> QED
      <4>1. new.alone \in BOOLEAN
        BY <1>1, <2>3 DEF Run
      <4> HIDE DEF run, k, w
      <4> QED
        BY <2>2, <2>3, <2>4, <3>1, <4>1, PhaseFacts DEF Run
  <2>7. OvertakenRun(new, store)
    <3>1. ASSUME NEW l \in Kinds, NEW u \in new.writes[l].updates, NEW s \in store[l]
          PROVE  Aged(u.row, s)
      <4>1. CASE l = k
        BY <1>0, <1>1, <2>4, <2>5, <3>1, <4>1 DEF OvertakenRun
      <4>2. CASE l # k
        BY <1>1, <2>4, <3>1, <4>2 DEF OvertakenRun
      <4> QED
        BY <4>1, <4>2
    <3> QED
      BY <2>3, <3>1 DEF OvertakenRun
  <2>8. ASSUME run.alone
        PROVE  Exact(new, store)
    <3>1. Exact(run, store)
      BY <1>0, <2>8 DEF Ingested, AloneExact
    <3>2. \A p : At(new, p, store) = At(run, p, store)
      BY <2>3 DEF At
    <3>3. ASSUME NEW p \in 1 .. Len(Phases), p < new.phase
          PROVE  \E kept \in OnePerKey(At(new, p, store).loaded) :
                     new.writes[Phases[p]] = FlushOf(At(new, p, store), kept)
      <4>1. CASE p = run.phase
        <5> DEFINE at == At(run, p, store)
        <5>1. /\ at.names = run.names /\ at.columns = run.columns
              /\ at.fks = run.fks /\ at.spec = run.spec
              /\ at.phase = run.phase /\ at.loaded = run.loaded
          BY <1>0, <3>1, <4>1 DEF Exact, At
        <5> HIDE DEF at
        <5>2. FlushOf(at, keep) = w
          BY <5>1, SameFlush
        <5>3. new.writes[Phases[p]] = w
          BY <2>2, <2>4, <4>1
        <5>4. keep \in OnePerKey(at.loaded)
          BY <5>1
        <5> QED
          BY <3>2, <5>2, <5>3, <5>4 DEF at
      <4>2. CASE p < run.phase
        <5>1. Phases[p] # k /\ Phases[p] \in Kinds
          BY <2>2, <4>2, PhaseFacts DEF Phases
        <5> QED
          BY <2>4, <3>1, <3>2, <4>2, <5>1 DEF Exact
      <4> QED
        BY <2>2, <2>3, <3>3, <4>1, <4>2, PhaseFacts
    <3> QED
      BY <2>3, <3>3 DEF Exact
  <2>9. ASSUME NEW l \in UniqueKinds
        PROVE  LET keys == LockedKeys(l, new.writes[l])
               IN  /\ \A r \in store[l] : r.key \notin keys
                   /\ \A j \in Ingesters \ {i} : keys \cap Locked(j, l) = {}
    <3>1. CASE l = k
      <4>1. LockedKeys(k, w) \cap {r.key : r \in store[k]} = {}
        BY <1>4 DEF Conflicts
      <4> QED
        BY <1>2, <2>4, <3>1, <4>1 DEF Locked
    <3>2. CASE l # k
      <4>1. LockedKeys(l, new.writes[l]) = Locked(i, l)
        BY <2>4, <3>2, PhaseFacts DEF Locked
      <4> QED
        BY <4>1 DEF Ingested, KeysLocked
    <3> QED
      BY <3>1, <3>2
  <2> QED
    BY <1>0, <2>1, <2>3, <2>6, <2>7, <2>8, <2>9, RunSet
<1> QED
  BY <1>3, <1>4

-----------------------------------------------------------------------------
(* What a commit makes of the rows.                                        *)

\* An update writes the fields that differ from the loaded row, on the row as
\* it is now; on an unchanged row that is the update itself.
LEMMA Netted ==
    ASSUME NEW k, NEW now, NEW u, Sound(k, u, now), NEW s, Row(k, s, now),
           Identity(s) = Identity(u.row)
    PROVE  LET n == NetChange(s, u.row, u.to)
           IN  /\ \A f \in RowFields :
                     n[f] = IF u.to[f] # u.row[f] THEN u.to[f] ELSE s[f]
               /\ Row(k, n, now) /\ Identity(n) = Identity(s)
               /\ s = u.row => n = u.to
<1> DEFINE n == NetChange(s, u.row, u.to)
<1>1. /\ DOMAIN n = RowFields
      /\ \A f \in RowFields : n[f] = IF u.to[f] # u.row[f] THEN u.to[f] ELSE s[f]
  BY DEF NetChange, Row
<1>2. s = u.row => n = u.to
  <2> SUFFICES ASSUME s = u.row  PROVE n = u.to
    OBVIOUS
  <2>1. DOMAIN u.to = RowFields /\ DOMAIN s = RowFields
    BY DEF Sound, Row
  <2>2. n = [f \in RowFields |-> u.to[f]]
    BY <1>1, <2>1 DEF NetChange
  <2>3. u.to = [f \in RowFields |-> u.to[f]]
    BY DEF Sound
  <2> QED
    BY <2>2, <2>3
<1> HIDE DEF n
<1>3. /\ n.key = s.key /\ n.born = s.born
      /\ n.active = IF u.to.active # u.row.active THEN u.to.active ELSE s.active
      /\ n.text = IF u.to.text # u.row.text THEN u.to.text ELSE s.text
  BY <1>1 DEF RowFields, Sound, Identity
<1>4. Row(k, n, now) /\ Identity(n) = Identity(s)
  BY <1>1, <1>3 DEF Row, Sound, Identity
<1> QED
  BY <1>1, <1>2, <1>4 DEF n

\* A row that is written stays a row of its identity; it is untouched, or
\* written by one update.
LEMMA WrittenRow ==
    ASSUME NEW k, NEW now, NEW s, Row(k, s, now), NEW updates,
           \A u \in updates : Sound(k, u, now)
    PROVE  LET n == Written(s, updates)
           IN  /\ Row(k, n, now) /\ Identity(n) = Identity(s)
               /\ \/ /\ n = s
                     /\ \A u \in updates : Identity(u.row) # Identity(s)
                  \/ \E u \in updates : /\ Identity(u.row) = Identity(s)
                                        /\ n = NetChange(s, u.row, u.to)
<1> DEFINE n == Written(s, updates)
<1>1. CASE \A u \in updates : Identity(u.row) # Identity(s)
  BY <1>1 DEF Written
<1>2. CASE \E u \in updates : Identity(u.row) = Identity(s)
  <2>1. PICK u \in updates : /\ Identity(u.row) = Identity(s)
                             /\ n = NetChange(s, u.row, u.to)
    BY <1>2 DEF Written
  <2>2. Sound(k, u, now)
    OBVIOUS
  <2> HIDE DEF n
  <2>3. Row(k, n, now) /\ Identity(n) = Identity(s)
    BY <2>1, <2>2, Netted
  <2> QED
    BY <2>1, <2>3 DEF n
<1> QED
  BY <1>1, <1>2

\* However far apart they were loaded, an update leaves the embedding of a row
\* only where the row's content stays.
LEMMA AgedThrough ==
    ASSUME NEW k, NEW now, NEW u, Sound(k, u, now), NEW s, Row(k, s, now),
           Identity(s) = Identity(u.row), Aged(u.row, s),
           NEW old, Aged(old, s)
    PROVE  Aged(old, NetChange(s, u.row, u.to))
<1> DEFINE n == NetChange(s, u.row, u.to)
<1>1. /\ \A f \in RowFields : n[f] = IF u.to[f] # u.row[f] THEN u.to[f] ELSE s[f]
      /\ Identity(n) = Identity(s)
  BY Netted
<1> HIDE DEF n
<1>2. /\ n.active = IF u.to.active # u.row.active THEN u.to.active ELSE s.active
      /\ n.embedding = IF u.to.embedding # u.row.embedding THEN u.to.embedding
                       ELSE s.embedding
      /\ n.text = IF u.to.text # u.row.text THEN u.to.text ELSE s.text
      /\ n.content = IF u.to.content # u.row.content THEN u.to.content ELSE s.content
  BY <1>1 DEF RowFields
<1>3. ASSUME Identity(old) = Identity(n), n.embedding # None
      PROVE  /\ n.embedding = old.embedding
             /\ Embeddable(n) = Embeddable(old)
             /\ n.active => old.active
  <2>1. CASE /\ u.row.active /\ ~u.to.active
             /\ Embeddable(u.to) = Embeddable(u.row)
             /\ u.to.embedding = u.row.embedding
    <3>1. n.text = s.text /\ n.content = s.content /\ n.embedding = s.embedding
      BY <1>2, <2>1 DEF Embeddable
    <3>2. ~n.active
      BY <1>2, <2>1 DEF Sound, Row
    <3> QED
      BY <1>1, <1>3, <3>1, <3>2 DEF Aged, Embeddable
  <2>2. CASE u.to.active /\ u.to.embedding = None
    <3>1. u.row.embedding = None /\ n.embedding = s.embedding
      BY <1>2, <1>3, <2>2
    <3> QED
      BY <1>3, <3>1 DEF Aged
  <2> QED
    BY <2>1, <2>2 DEF Sound
<1> QED
  BY <1>3 DEF Aged, n

\* After a commit a row was inserted, or was there and not deleted.
LEMMA AppliedRow ==
    ASSUME NEW rows, NEW w, NEW n \in Applied(rows, w)
    PROVE  \/ \E want \in w.inserts : n = Inserted(want, commits)
           \/ \E s \in rows : /\ Identity(s) \notin w.deletes
                              /\ n = Written(s, w.updates)
BY DEF Applied

\* A row that is inserted has the wanted fields and no embedding.
LEMMA InsertedRow ==
    ASSUME NEW want, NEW now
    PROVE  LET n == Inserted(want, now)
           IN  /\ DOMAIN n = RowFields
               /\ n.key = want.key /\ n.born = now
               /\ n.text = want.text /\ n.content = want.content
               /\ n.active = TRUE /\ n.embedding = None
BY DEF Inserted, RowFields

Committing(i) ==
    /\ Ingested /\ i \in Ingesters
    /\ CommitIngest(i)

\* What a commit changes besides the rows.
LEMMA CommitFacts ==
    ASSUME NEW i, Committing(i)
    PROVE  /\ Rows /\ i \in Ingesters /\ InTransaction(i)
           /\ commits \in Nat /\ commits' = commits + 1
           /\ UNCHANGED <<world, raced>>
           /\ ingest = [j \in Ingesters |-> ingest[j]]
           /\ ingest' = [ingest EXCEPT ![i] = NoIngest]
           /\ ingest[i].phase > 6
           /\ Run(ingest[i], commits)
           /\ DOMAIN store' = Kinds
           /\ \A k \in Kinds :
                 /\ store'[k] = Applied(store[k], ingest[i].writes[k])
                 /\ Writes(k, ingest[i].writes[k], commits)
           /\ mirrored' = [want |-> Desired(ingest[i]), names |-> ingest[i].names,
                           alone |-> ingest[i].alone]
BY PhaseFacts DEF Committing, CommitIngest, Ingested, Rows, Runs, Run, InTransaction

\* A committed row is a new one, or an older one as it was or as written.
LEMMA CommittedRow ==
    ASSUME NEW i, Committing(i), NEW k \in Kinds, NEW n \in store'[k]
    PROVE  LET w == ingest[i].writes[k]
           IN  /\ Row(k, n, commits + 1)
               /\ \/ /\ n.born = commits /\ n.embedding = None
                     /\ \E want \in w.inserts : /\ n = Inserted(want, commits)
                                                /\ n.key = want.key
                  \/ /\ n.born < commits
                     /\ \E s \in store[k] :
                           /\ Row(k, s, commits) /\ Row(k, n, commits)
                           /\ Identity(s) \notin w.deletes
                           /\ Identity(n) = Identity(s)
                           /\ n = Written(s, w.updates)
                           /\ \/ /\ n = s
                                 /\ \A u \in w.updates : Identity(u.row) # Identity(s)
                              \/ \E u \in w.updates :
                                    /\ Identity(u.row) = Identity(s)
                                    /\ n = NetChange(s, u.row, u.to)
<1> DEFINE w == ingest[i].writes[k]
<1>0. /\ commits \in Nat /\ Writes(k, w, commits)
      /\ n \in Applied(store[k], w)
      /\ \A s \in store[k] : Row(k, s, commits)
  BY CommitFacts DEF Rows
<1> HIDE DEF w
<1>1. CASE \E want \in w.inserts : n = Inserted(want, commits)
  <2>1. PICK want \in w.inserts : n = Inserted(want, commits)
    BY <1>1
  <2>2. /\ DOMAIN n = RowFields
        /\ n.key = want.key /\ n.born = commits
        /\ n.text = want.text /\ n.active = TRUE /\ n.embedding = None
    BY <2>1, InsertedRow
  <2>3. Row(k, n, commits + 1)
    <3>1. k = "column" => n.text = None
      BY <1>0, <2>2 DEF Writes
    <3>2. n.born \in 0 .. (commits + 1) - 1
      BY <1>0, <2>2
    <3>3. n.active \in BOOLEAN /\ (k # "table" => n.active)
      BY <2>2
    <3> QED
      BY <2>2, <3>1, <3>2, <3>3 DEF Row
  <2> QED
    BY <2>1, <2>2, <2>3 DEF w
<1>2. CASE \E s \in store[k] : /\ Identity(s) \notin w.deletes
                               /\ n = Written(s, w.updates)
  <2>1. PICK s \in store[k] : /\ Identity(s) \notin w.deletes
                              /\ n = Written(s, w.updates)
    BY <1>2
  <2>2. Row(k, s, commits) /\ \A u \in w.updates : Sound(k, u, commits)
    BY <1>0 DEF Writes
  <2>3. /\ Row(k, n, commits) /\ Identity(n) = Identity(s)
        /\ \/ /\ n = s
              /\ \A u \in w.updates : Identity(u.row) # Identity(s)
           \/ \E u \in w.updates : /\ Identity(u.row) = Identity(s)
                                   /\ n = NetChange(s, u.row, u.to)
    BY <2>1, <2>2, WrittenRow
  <2>4. Row(k, n, commits + 1) /\ n.born < commits
    BY <1>0, <2>3 DEF Row
  <2> QED
    BY <2>1, <2>2, <2>3, <2>4 DEF w
<1> QED
  BY <1>0, <1>1, <1>2, AppliedRow

\* The keys the schema keeps unique stay unique: an insertion's are locked.
LEMMA CommitRows ==
    ASSUME NEW i, Committing(i)
    PROVE  Rows'
<1>0. /\ Rows /\ commits \in Nat /\ commits' = commits + 1
      /\ i \in Ingesters /\ KeysLocked
      /\ world' = world /\ DOMAIN store' = Kinds
  BY CommitFacts DEF Committing, Ingested
<1>1. \A k \in Kinds : \A r \in store'[k] : Row(k, r, commits + 1)
  BY CommittedRow
<1>2. ASSUME NEW k \in Kinds, NEW a \in store'[k], NEW b \in store'[k],
             Identity(a) = Identity(b)
      PROVE  a = b
  <2> DEFINE w == ingest[i].writes[k]
  <2>0. a.key = b.key /\ a.born = b.born
    BY <1>2 DEF Identity
  <2>1. CASE a.born = commits
    <3>1. PICK v \in w.inserts : a = Inserted(v, commits) /\ a.key = v.key
      BY <1>0, <2>1, CommittedRow
    <3>0. ~(b.born < commits)
      BY <1>0, <2>0, <2>1
    <3>2. PICK x \in w.inserts : b = Inserted(x, commits) /\ b.key = x.key
      BY <3>0, CommittedRow
    <3>3. v = x
      BY <2>0, <3>1, <3>2, CommitFacts DEF Writes
    <3> QED
      BY <3>1, <3>2, <3>3
  <2>2. CASE a.born # commits
    <3>1. PICK s \in store[k] : Identity(a) = Identity(s) /\ a = Written(s, w.updates)
      BY <2>2, CommittedRow
    <3>2. PICK t \in store[k] : Identity(b) = Identity(t) /\ b = Written(t, w.updates)
      BY <2>0, <2>2, CommittedRow
    <3>3. s = t
      BY <1>0, <1>2, <3>1, <3>2 DEF Rows
    <3> QED
      BY <3>1, <3>2, <3>3
  <2> QED
    BY <2>1, <2>2
<1>3. ASSUME NEW k \in UniqueKinds, NEW a \in store'[k], NEW b \in store'[k],
             a.key = b.key
      PROVE  a = b
  <2> DEFINE w == ingest[i].writes[k]
  <2>0. k \in Kinds
    BY PhaseFacts
  <2>1. \A n \in store'[k] : \/ /\ n.born = commits
                                /\ n.key \in Locked(i, k)
                            \/ /\ n.born < commits
                               /\ \E s \in store[k] : Identity(n) = Identity(s)
    BY <2>0, CommittedRow DEF Locked, LockedKeys
  <2>2. \A s \in store[k] : s.key \notin Locked(i, k)
    BY <1>0 DEF KeysLocked
  <2>3. \A s, t \in store[k] : s.key = t.key => s = t
    BY <1>0 DEF Rows
  <2>4. Identity(a) = Identity(b)
    BY <1>0, <1>3, <2>1, <2>2, <2>3 DEF Identity
  <2> QED
    BY <1>2, <2>0, <2>4
<1> QED
  BY <1>0, <1>1, <1>2, <1>3 DEF Rows

\* A row stays a row as commits go on,
LEMMA LaterRow ==
    ASSUME NEW now \in Nat, NEW k, NEW r, Row(k, r, now)
    PROVE  Row(k, r, now + 1)
BY DEF Row

\* and a run a run.
LEMMA LaterRun ==
    ASSUME NEW now \in Nat, NEW run, Run(run, now)
    PROVE  Run(run, now + 1)
<1>1. \A k, r : Row(k, r, now) => Row(k, r, now + 1)
  BY LaterRow
<1>2. \A k, w : Writes(k, w, now) => Writes(k, w, now + 1)
  BY <1>1 DEF Writes, Sound
<1> QED
  BY <1>1, <1>2 DEF Run

\* What a commit does to rows that another transaction has loaded is such that
\* the other's update cannot revive an old embedding.
LEMMA CommitOvertakes ==
    ASSUME NEW i, Committing(i), NEW run, Run(run, commits),
           OvertakenRun(run, store)
    PROVE  OvertakenRun(run, store')
<1>0. /\ commits \in Nat /\ i \in Ingesters
      /\ OvertakenRun(ingest[i], store)
  BY CommitFacts DEF Committing, Ingested, Overtaken
<1>1. ASSUME NEW k \in Kinds, NEW old, Row(k, old, commits),
             \A s \in store[k] : Aged(old, s),
             NEW n \in store'[k]
      PROVE  Aged(old, n)
  <2> DEFINE w == ingest[i].writes[k]
  <2>1. CASE n.born = commits
    <3>1. old.born # n.born
      BY <1>0, <1>1, <2>1 DEF Row
    <3> QED
      BY <3>1 DEF Aged, Identity
  <2>2. CASE n.born # commits
    <3>1. PICK s \in store[k] :
             /\ Row(k, s, commits)
             /\ \/ n = s
                \/ \E u \in w.updates : /\ Identity(u.row) = Identity(s)
                                        /\ n = NetChange(s, u.row, u.to)
      BY <2>2, CommittedRow
    <3>2. CASE n = s
      BY <1>1, <3>2
    <3>3. CASE \E u \in w.updates : /\ Identity(u.row) = Identity(s)
                                    /\ n = NetChange(s, u.row, u.to)
      <4>1. PICK u \in w.updates : /\ Identity(u.row) = Identity(s)
                                   /\ n = NetChange(s, u.row, u.to)
        BY <3>3
      <4>2. Sound(k, u, commits)
        BY CommitFacts DEF Writes
      <4>3. Aged(u.row, s)
        BY <1>0 DEF OvertakenRun
      <4> QED
        BY <1>1, <3>1, <4>1, <4>2, <4>3, AgedThrough
    <3> QED
      BY <3>1, <3>2, <3>3
  <2> QED
    BY <2>1, <2>2
<1>2. ASSUME run.pc = "loaded"
      PROVE  \A r \in run.loaded : \A s \in store'[Kind(run)] : Aged(r, s)
  <2>1. Kind(run) \in Kinds /\ \A r \in run.loaded : Row(Kind(run), r, commits)
    BY <1>2, PhaseFacts DEF Run, Kind
  <2> QED
    BY <1>1, <1>2, <2>1 DEF OvertakenRun
<1>3. \A k \in Kinds : \A u \in run.writes[k].updates :
          \A s \in store'[k] : Aged(u.row, s)
  <2>1. \A k \in Kinds : \A u \in run.writes[k].updates : Row(k, u.row, commits)
    BY DEF Run, Writes, Sound
  <2> QED
    BY <1>1, <2>1 DEF OvertakenRun
<1> QED
  BY <1>2, <1>3 DEF OvertakenRun

\* A commit keeps what is said of the transactions still under way.
LEMMA CommitRuns ==
    ASSUME NEW i, Committing(i)
    PROVE  Runs' /\ Overtaken' /\ KeysLocked' /\ Apart' /\ AloneExact'
<1>0. /\ i \in Ingesters /\ commits \in Nat /\ commits' = commits + 1
      /\ InTransaction(i) /\ raced' = raced
      /\ ingest' = [j \in Ingesters |-> ingest'[j]]
      /\ ingest'[i] = NoIngest
      /\ \A j \in Ingesters \ {i} : ingest'[j] = ingest[j]
  BY CommitFacts
<1>1. Runs /\ Overtaken /\ KeysLocked /\ Apart /\ AloneExact
  BY DEF Committing, Ingested
<1>2. /\ NoIngest.pc = "idle" /\ NoIngest.phase = 1 /\ NoIngest.loaded = {}
      /\ NoIngest.alone = TRUE
  BY DEF NoIngest
<1>3. \A now : Run(NoIngest, now)
  BY NoIngestRun
<1>4. \A rows : OvertakenRun(NoIngest, rows)
  BY <1>2, NothingWritten DEF OvertakenRun
<1>5. Runs'
  <2>1. \A j \in Ingesters : Run(ingest'[j], commits')
    BY <1>0, <1>1, <1>3, LaterRun DEF Runs
  <2> QED
    BY <1>0, <2>1 DEF Runs
<1>6. Overtaken'
  <2>1. \A j \in Ingesters : OvertakenRun(ingest'[j], store')
    BY <1>0, <1>1, <1>4, CommitOvertakes DEF Runs, Overtaken
  <2> QED
    BY <2>1 DEF Overtaken
<1>7. KeysLocked'
  <2>1. \A j \in Ingesters \ {i} : \A k : Locked(j, k)' = Locked(j, k)
    BY <1>0 DEF Locked
  <2>2. \A k \in UniqueKinds : Locked(i, k)' = {}
    BY <1>0, NothingWritten, PhaseFacts DEF Locked
  <2>3. ASSUME NEW k \in UniqueKinds, NEW n \in store'[k], NEW j \in Ingesters \ {i}
        PROVE  n.key \notin Locked(j, k)
    <3>0. k \in Kinds
      BY PhaseFacts
    <3>1. \/ n.key \in Locked(i, k)
          \/ \E s \in store[k] : Identity(n) = Identity(s)
      BY <3>0, CommittedRow DEF Locked, LockedKeys
    <3> QED
      BY <1>0, <1>1, <3>1 DEF KeysLocked, Identity
  <2> QED
    BY <1>1, <2>1, <2>2, <2>3 DEF KeysLocked
<1>8. \A j \in Ingesters : InTransaction(j)' => InTransaction(j) /\ j # i
  BY <1>0, <1>2 DEF InTransaction
<1>9. Apart'
  BY <1>0, <1>1, <1>8 DEF Apart
<1>10. AloneExact'
  <2>1. \A j \in Ingesters : InTransaction(j)' => ~ingest'[j].alone
    BY <1>0, <1>1, <1>8 DEF Apart
  <2> QED
    BY <2>1 DEF AloneExact
<1> QED
  BY <1>5, <1>6, <1>7, <1>9, <1>10

-----------------------------------------------------------------------------
(* What a transaction that ran alone leaves.                               *)

Wanting(wants, s) == \E want \in wants : want.key = s.key

InScope(k, names, s) == k = "column" => s.key[1] \in names

\* The rows a phase keeps of those it loads, and its writes.
Settling(k, names, wants, keep, w) ==
    LET loaded == {s \in store[k] : InScope(k, names, s)}
    IN  /\ keep \subseteq loaded
        /\ \A r \in loaded : \E s \in keep : s.key = r.key
        /\ \A r, s \in keep : r.key = s.key => r = s
        /\ w.inserts = Created(keep, wants)
        /\ \A u \in w.updates :
              /\ u.row \in keep
              /\ \/ \E want \in wants : /\ u.row.key = want.key
                                        /\ ~Same(k, u.row, want, names)
                                        /\ u.to = Refreshed(u.row, want)
                 \/ /\ k = "table" /\ ~Wanting(wants, u.row)
                    /\ u.to = [u.row EXCEPT !.active = FALSE]
        /\ \A s \in keep :
              /\ \A want \in wants : s.key = want.key /\ ~Same(k, s, want, names)
                     => \E u \in w.updates : u.row = s
              /\ k = "table" /\ s.active /\ ~Wanting(wants, s)
                     => \E u \in w.updates : u.row = s
              /\ k \in {"edge", "column", "term"} /\ s.active /\ ~Wanting(wants, s)
                     => Identity(s) \in w.deletes
        /\ k = "edge" => \A s \in loaded \ keep : Identity(s) \in w.deletes
        /\ \A d \in w.deletes :
              \E s \in loaded : /\ d = Identity(s)
                                /\ s \notin keep \/ ~Wanting(wants, s)

\* A transaction that ran alone writes what its rows ask for.
LEMMA AloneSettles ==
    ASSUME NEW i, Committing(i), ingest[i].alone, NEW k \in Kinds
    PROVE  \E keep : Settling(k, ingest[i].names, Desired(ingest[i])[k], keep,
                             ingest[i].writes[k])
<1> DEFINE run == ingest[i]
           names == run.names
           wants == Desired(run)[k]
           w == run.writes[k]
<1>1. PICK p \in 1 .. 6 : Phases[p] = k
  BY PhaseFacts DEF Kinds
<1> DEFINE at == At(run, p, store)
<1>2. PICK keep \in OnePerKey(at.loaded) : w = FlushOf(at, keep)
  <2>1. Exact(run, store)
    BY CommitFacts DEF Committing, Ingested, AloneExact
  <2>2. p \in 1 .. Len(Phases) /\ p < run.phase
    BY CommitFacts, PhaseFacts DEF Run
  <2> QED
    BY <1>1, <2>1, <2>2 DEF Exact
<1>3. /\ at.names = names /\ Kind(at) = k /\ Desired(at) = Desired(run)
      /\ at.loaded = {s \in store[k] : InScope(k, names, s)}
  <2>1. /\ at.names = names /\ at.columns = run.columns
        /\ at.fks = run.fks /\ at.spec = run.spec /\ at.phase = p
        /\ at.loaded = {s \in store[k] : InScope(k, names, s)}
    BY <1>1 DEF At, InScope
  <2> HIDE DEF at
  <2>2. Desired(at) = Desired(run)
    BY <2>1, SameRead
  <2> QED
    BY <1>1, <2>1, <2>2 DEF Kind
<1> HIDE DEF at
<1>4. /\ w.inserts = Created(keep, wants)
      /\ w.updates = Rewritten(at, keep, wants)
      /\ w.deletes = {Identity(r) : r \in Deleted(at, keep, wants)}
  BY <1>2, <1>3, FlushFields
<1> HIDE DEF run, names, wants, w
<1>5. /\ keep \subseteq at.loaded
      /\ \A r \in at.loaded : \E s \in keep : s.key = r.key
      /\ \A r, s \in keep : r.key = s.key => r = s
  BY DEF OnePerKey
<1>6. ASSUME NEW u \in w.updates
      PROVE  /\ u.row \in keep
             /\ \/ \E want \in wants : /\ u.row.key = want.key
                                       /\ ~Same(k, u.row, want, names)
                                       /\ u.to = Refreshed(u.row, want)
                \/ /\ k = "table" /\ ~Wanting(wants, u.row)
                   /\ u.to = [u.row EXCEPT !.active = FALSE]
  <2>1. u.row \in keep
    BY <1>4, RewrittenRows
  <2>2. CASE \E want \in wants :
                /\ u.row.key = want.key
                /\ ~Same(k, u.row, want, names)
                /\ u = [row |-> u.row, to |-> Refreshed(u.row, want)]
    <3>1. PICK want \in wants :
                /\ u.row.key = want.key
                /\ ~Same(k, u.row, want, names)
                /\ u = [row |-> u.row, to |-> Refreshed(u.row, want)]
      BY <2>2
    <3>2. u.to = Refreshed(u.row, want)
      BY <3>1
    <3> QED
      BY <2>1, <3>1, <3>2
  <2>3. CASE /\ k = "table" /\ u.row \in Removed(keep, wants)
             /\ u = [row |-> u.row, to |-> [u.row EXCEPT !.active = FALSE]]
    <3>1. u.to = [u.row EXCEPT !.active = FALSE]
      BY <2>3
    <3>2. ~Wanting(wants, u.row)
      BY <2>3 DEF Removed, Wanting
    <3> QED
      BY <2>1, <2>3, <3>1, <3>2
  <2> QED
    BY <1>3, <1>4, <2>2, <2>3, RewrittenRows
<1>7. ASSUME NEW s \in keep, NEW want \in wants, s.key = want.key,
             ~Same(k, s, want, names)
      PROVE  \E u \in w.updates : u.row = s
  <2>1. <<s, want>> \in Updated(k, keep, wants, names)
    BY <1>7 DEF Updated
  <2>2. [row |-> s, to |-> Refreshed(s, want)] \in w.updates
    BY <1>3, <1>4, <2>1 DEF Rewritten
  <2> QED
    BY <2>2
<1>8. ASSUME NEW s \in keep, s.active, ~Wanting(wants, s)
      PROVE  s \in Removed(keep, wants)
  BY <1>8 DEF Removed, Wanting
<1>9. ASSUME NEW s \in keep, k = "table", s.active, ~Wanting(wants, s)
      PROVE  \E u \in w.updates : u.row = s
  <2>1. [row |-> s, to |-> [s EXCEPT !.active = FALSE]] \in w.updates
    BY <1>3, <1>4, <1>8, <1>9 DEF Rewritten
  <2> QED
    BY <2>1
<1>10. /\ k \in {"edge", "column", "term"} => Removed(keep, wants) \subseteq Deleted(at, keep, wants)
       /\ k = "edge" => at.loaded \ keep \subseteq Deleted(at, keep, wants)
       /\ Deleted(at, keep, wants) \subseteq Removed(keep, wants) \cup (at.loaded \ keep)
  BY <1>3 DEF Deleted
<1>11. \A s \in Removed(keep, wants) : s \in keep /\ ~Wanting(wants, s)
  BY DEF Removed, Wanting
<1>12. \A d \in w.deletes :
           \E s \in at.loaded : /\ d = Identity(s)
                                /\ s \notin keep \/ ~Wanting(wants, s)
  BY <1>4, <1>5, <1>10, <1>11
<1>13. \A s \in Deleted(at, keep, wants) : Identity(s) \in w.deletes
  BY <1>4
<1>14. Settling(k, names, wants, keep, w)
  BY <1>3, <1>4, <1>5, <1>6, <1>7, <1>8, <1>9, <1>10, <1>12, <1>13 DEF Settling
<1> QED
  BY <1>14 DEF run, names, wants, w

\* What a row in scope is after the commit: as wanted, as it was and found to
\* be as wanted, a table that is dropped, or a row of a kind that only grows.
Settled(k, names, wants, n) ==
    \/ /\ n.active
       /\ \E want \in wants : /\ want.key = n.key
                              /\ n.text = want.text /\ n.content = want.content
    \/ /\ n \in store[k]
       /\ \E want \in wants : want.key = n.key /\ Same(k, n, want, names)
    \/ /\ k = "table" /\ ~n.active /\ ~Wanting(wants, n)
       /\ \E s \in store[k] : n.text = s.text /\ n.content = s.content
    \/ k \in {"workspace", "example"} /\ ~Wanting(wants, n) /\ n \in store[k]

\* After a commit that ran alone a row is as it was wanted.
LEMMA SettledRow ==
    ASSUME NEW i, Committing(i), ingest[i].alone, NEW k \in Kinds,
           k = "edge" \/ \A r, s \in store[k] : r.key = s.key => r = s,
           NEW n \in store'[k], InScope(k, ingest[i].names, n)
    PROVE  Settled(k, ingest[i].names, Desired(ingest[i])[k], n)
<1> DEFINE run == ingest[i]
           names == run.names
           wants == Desired(run)[k]
           w == run.writes[k]
           loaded == {s \in store[k] : InScope(k, names, s)}
<1>1. PICK keep : Settling(k, names, wants, keep, w)
  BY AloneSettles
<1>2. /\ commits \in Nat /\ Writes(k, w, commits)
      /\ \A r, s \in store[k] : Identity(r) = Identity(s) => r = s
  BY CommitFacts DEF Rows
<1>3. \/ \E want \in w.inserts : n = Inserted(want, commits)
      \/ \E s \in store[k] :
            /\ Row(k, s, commits)
            /\ Identity(s) \notin w.deletes /\ Identity(n) = Identity(s)
            /\ \/ /\ n = s
                  /\ \A u \in w.updates : Identity(u.row) # Identity(s)
               \/ \E u \in w.updates : /\ Identity(u.row) = Identity(s)
                                       /\ n = NetChange(s, u.row, u.to)
  BY CommittedRow
<1> HIDE DEF names, wants, w
<1>4. CASE \E want \in w.inserts : n = Inserted(want, commits)
  <2>1. PICK want \in wants : n = Inserted(want, commits)
    BY <1>1, <1>4 DEF Settling, Created
  <2>2. /\ n.active /\ want.key = n.key
        /\ n.text = want.text /\ n.content = want.content
    BY <2>1, InsertedRow
  <2> QED
    BY <2>2 DEF Settled, wants, names
<1>5. CASE \E s \in store[k] :
            /\ Row(k, s, commits)
            /\ Identity(s) \notin w.deletes /\ Identity(n) = Identity(s)
            /\ \/ /\ n = s
                  /\ \A u \in w.updates : Identity(u.row) # Identity(s)
               \/ \E u \in w.updates : /\ Identity(u.row) = Identity(s)
                                       /\ n = NetChange(s, u.row, u.to)
  <2>1. PICK s \in store[k] :
            /\ Row(k, s, commits)
            /\ Identity(s) \notin w.deletes /\ Identity(n) = Identity(s)
            /\ \/ /\ n = s
                  /\ \A u \in w.updates : Identity(u.row) # Identity(s)
               \/ \E u \in w.updates : /\ Identity(u.row) = Identity(s)
                                       /\ n = NetChange(s, u.row, u.to)
    BY <1>5
  <2>2. n.key = s.key /\ s \in loaded
    BY <2>1 DEF Identity, InScope, names
  <2>3. s \in keep
    <3>1. k = "edge" => s \in keep
      BY <1>1, <2>1, <2>2 DEF Settling
    <3>2. k # "edge" => s \in keep
      BY <1>1, <2>2 DEF Settling
    <3> QED
      BY <3>1, <3>2
  <2>4. CASE \A u \in w.updates : Identity(u.row) # Identity(s)
    <3>1. n = s /\ \A u \in w.updates : u.row # s
      BY <2>1, <2>4
    <3>2. CASE Wanting(wants, s)
      <4>1. PICK want \in wants : want.key = s.key
        BY <3>2 DEF Wanting
      <4>2. Same(k, s, want, names)
        BY <1>1, <2>3, <3>1, <4>1 DEF Settling
      <4> QED
        BY <3>1, <4>1, <4>2 DEF Settled, wants, names
    <3>3. CASE ~Wanting(wants, s)
      <4>1. k # "table" => s.active
        BY <2>1 DEF Row
      <4>2. k \notin {"edge", "column", "term"}
        BY <1>1, <2>1, <2>3, <3>3, <4>1 DEF Settling
      <4>3. k = "table" => ~s.active
        BY <1>1, <2>3, <3>1, <3>3 DEF Settling
      <4>4. k \in {"workspace", "table", "example"}
        BY <4>2, PhaseFacts
      <4> QED
        BY <3>1, <3>3, <4>3, <4>4 DEF Settled, wants, names
    <3> QED
      BY <3>2, <3>3
  <2>5. CASE \E u \in w.updates : /\ Identity(u.row) = Identity(s)
                                  /\ n = NetChange(s, u.row, u.to)
    <3>1. PICK u \in w.updates : /\ Identity(u.row) = Identity(s)
                                 /\ n = NetChange(s, u.row, u.to)
      BY <2>5
    <3>2. u.row \in keep /\ keep \subseteq store[k] /\ Sound(k, u, commits)
      BY <1>1, <1>2 DEF Settling, Writes
    <3>3. u.row = s
      BY <1>2, <3>1, <3>2
    <3>4. n = u.to
      BY <2>1, <3>1, <3>2, <3>3, Netted
    <3>5. CASE \E want \in wants : /\ u.row.key = want.key
                                   /\ u.to = Refreshed(u.row, want)
      <4>1. PICK want \in wants : want.key = s.key /\ n = Refreshed(s, want)
        BY <3>3, <3>4, <3>5
      <4>2. n.text = want.text /\ n.content = want.content /\ n.active = TRUE
        BY <2>1, <4>1 DEF Refreshed, Row, RowFields
      <4> QED
        BY <2>2, <4>1, <4>2 DEF Settled, wants, names
    <3>6. CASE /\ k = "table" /\ ~Wanting(wants, u.row)
               /\ u.to = [u.row EXCEPT !.active = FALSE]
      <4>1. n = [s EXCEPT !.active = FALSE] /\ ~Wanting(wants, s)
        BY <3>3, <3>4, <3>6
      <4>2. n.text = s.text /\ n.content = s.content /\ n.active = FALSE
        BY <2>1, <4>1 DEF Row, RowFields
      <4>3. ~Wanting(wants, n)
        BY <2>2, <4>1 DEF Wanting
      <4> QED
        BY <3>6, <4>2, <4>3 DEF Settled, wants, names
    <3> QED
      BY <1>1, <3>5, <3>6 DEF Settling
  <2> QED
    BY <2>1, <2>4, <2>5
<1> QED
  BY <1>3, <1>4, <1>5

\* Every wanted key is there after the commit, and once.
LEMMA SettledKeys ==
    ASSUME NEW i, Committing(i), ingest[i].alone, NEW k \in Kinds,
           k = "edge" \/ \A r, s \in store[k] : r.key = s.key => r = s
    PROVE  /\ \A want \in Desired(ingest[i])[k] : \E n \in store'[k] : n.key = want.key
           /\ \A n, m \in store'[k] :
                 /\ InScope(k, ingest[i].names, n) /\ InScope(k, ingest[i].names, m)
                 /\ n.key = m.key
                 => n = m
<1> DEFINE run == ingest[i]
           names == run.names
           wants == Desired(run)[k]
           w == run.writes[k]
           loaded == {s \in store[k] : InScope(k, names, s)}
<1>1. PICK keep : Settling(k, names, wants, keep, w)
  BY AloneSettles
<1>2. /\ commits \in Nat /\ Writes(k, w, commits) /\ Rows
      /\ \A s \in store[k] : Row(k, s, commits)
      /\ \A r, s \in store[k] : Identity(r) = Identity(s) => r = s
      /\ \A a, b \in wants : a.key = b.key => a = b
      /\ store'[k] = Applied(store[k], w)
  BY CommitFacts, WantedOnce DEF Rows
<1>3. ASSUME NEW n \in store'[k]
      PROVE  \/ /\ n.born = commits
                /\ \E want \in w.inserts : n = Inserted(want, commits) /\ n.key = want.key
             \/ /\ n.born < commits
                /\ \E s \in store[k] : /\ Identity(s) \notin w.deletes
                                       /\ Identity(n) = Identity(s)
  BY CommittedRow
<1> HIDE DEF names, wants, w
<1>4. ASSUME NEW want \in wants
      PROVE  \E n \in store'[k] : n.key = want.key
  <2>1. CASE want \in w.inserts
    <3>1. Inserted(want, commits) \in store'[k]
      BY <1>2, <2>1 DEF Applied
    <3> QED
      BY <3>1, InsertedRow
  <2>2. CASE want \notin w.inserts
    <3>1. PICK s \in keep : s.key = want.key
      BY <1>1, <2>2 DEF Settling, Created
    <3>2. s \in store[k] /\ Wanting(wants, s)
      BY <1>1, <3>1 DEF Settling, Wanting
    <3>3. Identity(s) \notin w.deletes
      BY <1>1, <1>2, <3>1, <3>2 DEF Settling
    <3>4. Written(s, w.updates) \in store'[k]
      BY <1>2, <3>2, <3>3 DEF Applied
    <3>5. Row(k, s, commits) /\ \A u \in w.updates : Sound(k, u, commits)
      BY <1>2, <3>2 DEF Writes
    <3>6. Identity(Written(s, w.updates)) = Identity(s)
      BY <3>5, WrittenRow
    <3> QED
      BY <3>1, <3>4, <3>6 DEF Identity
  <2> QED
    BY <2>1, <2>2
<1>5. ASSUME NEW n \in store'[k], InScope(k, names, n), n.born < commits
      PROVE  \E s \in keep : Identity(n) = Identity(s)
  <2>1. PICK s \in store[k] : Identity(s) \notin w.deletes /\ Identity(n) = Identity(s)
    BY <1>2, <1>3, <1>5
  <2>2. s \in loaded
    BY <1>5, <2>1 DEF Identity, InScope
  <2>3. s \in keep
    <3>1. k = "edge" => s \in keep
      BY <1>1, <2>1, <2>2 DEF Settling
    <3>2. k # "edge" => s \in keep
      BY <1>1, <2>2 DEF Settling
    <3> QED
      BY <3>1, <3>2
  <2> QED
    BY <2>1, <2>3
<1>6. ASSUME NEW n \in store'[k], NEW m \in store'[k],
             InScope(k, names, n), InScope(k, names, m), n.key = m.key
      PROVE  Identity(n) = Identity(m)
  <2>1. CASE n.born = commits /\ m.born = commits
    BY <1>6, <2>1 DEF Identity
  <2>2. CASE n.born < commits /\ m.born < commits
    <3>1. PICK s \in keep : Identity(n) = Identity(s)
      BY <1>5, <1>6, <2>2
    <3>2. PICK t \in keep : Identity(m) = Identity(t)
      BY <1>5, <1>6, <2>2
    <3>3. s.key = t.key
      BY <1>6, <3>1, <3>2 DEF Identity
    <3>4. s = t
      BY <1>1, <3>3 DEF Settling
    <3> QED
      BY <3>1, <3>2, <3>4
  <2>3. ASSUME NEW x \in store'[k], NEW y \in store'[k], x.born = commits,
               InScope(k, names, y), y.born < commits, x.key = y.key
        PROVE  FALSE
    <3>1. PICK want \in w.inserts : x.key = want.key
      BY <1>2, <1>3, <2>3
    <3>2. PICK s \in keep : Identity(y) = Identity(s)
      BY <1>5, <2>3
    <3> QED
      BY <1>1, <2>3, <3>1, <3>2 DEF Settling, Created, Identity
  <2> QED
    BY <1>3, <1>6, <2>1, <2>2, <2>3
<1>7. \A n, m \in store'[k] : Identity(n) = Identity(m) => n = m
  BY CommitRows DEF Rows
<1> QED
  BY <1>4, <1>6, <1>7 DEF names, wants, w

\* A commit keeps embeddings those of their rows.
LEMMA CommitFresh ==
    ASSUME NEW i, Committing(i)
    PROVE  EmbeddingsFresh'
<1> SUFFICES ASSUME ~raced, NEW k \in Kinds, NEW n \in store'[k]
             PROVE  n.embedding \in {None, Embeddable(n)}
  BY CommitFacts DEF EmbeddingsFresh
<1> DEFINE w == ingest[i].writes[k]
<1>1. ingest[i].alone
  BY CommitFacts DEF Committing, Ingested, Apart
<1>2. PICK keep : Settling(k, ingest[i].names, Desired(ingest[i])[k], keep, w)
  BY <1>1, AloneSettles
<1>3. /\ Writes(k, w, commits)
      /\ \A r, s \in store[k] : Identity(r) = Identity(s) => r = s
      /\ \A s \in store[k] : s.embedding \in {None, Embeddable(s)}
  BY CommitFacts DEF Rows, Committing, Ingested, EmbeddingsFresh
<1>4. CASE n.born = commits
  BY <1>4, CommitFacts, CommittedRow
<1>5. CASE n.born # commits
  <2>1. PICK s \in store[k] :
           /\ Row(k, s, commits)
           /\ \/ n = s
              \/ \E u \in w.updates : /\ Identity(u.row) = Identity(s)
                                      /\ n = NetChange(s, u.row, u.to)
    BY <1>5, CommittedRow
  <2>2. CASE n = s
    BY <1>3, <2>2
  <2>3. CASE \E u \in w.updates : /\ Identity(u.row) = Identity(s)
                                  /\ n = NetChange(s, u.row, u.to)
    <3>1. PICK u \in w.updates : /\ Identity(u.row) = Identity(s)
                                 /\ n = NetChange(s, u.row, u.to)
      BY <2>3
    <3>2. u.row \in store[k] /\ Sound(k, u, commits)
      BY <1>2, <1>3 DEF Settling, Writes
    <3>3. u.row = s
      BY <1>3, <3>1, <3>2
    <3>4. n = u.to
      BY <2>1, <3>1, <3>2, <3>3, Netted
    <3> QED
      BY <1>3, <3>2, <3>4 DEF Sound
  <2> QED
    BY <2>1, <2>2, <2>3
<1> QED
  BY <1>4, <1>5

\* While no two ingestions have overlapped, every key is stored once.
LEMMA OnceEach ==
    ASSUME NEW i, Committing(i), ingest[i].alone, NEW k \in Kinds,
           k \in UniqueKinds \cup {"edge"} \/ ~raced
    PROVE  k = "edge" \/ \A r, s \in store[k] : r.key = s.key => r = s
BY CommitFacts DEF Committing, Ingested, Rows, Tidy

\* A commit of a transaction that ran alone stores no key twice.
LEMMA CommitTidy ==
    ASSUME NEW i, Committing(i)
    PROVE  Tidy'
<1> SUFFICES ASSUME ~raced  PROVE Tidy'
  BY CommitFacts DEF Tidy
<1> DEFINE names == ingest[i].names
           wants == Desired(ingest[i])["table"]
<1>1. ingest[i].alone
  BY CommitFacts DEF Committing, Ingested, Apart
<1>2. ASSUME NEW k \in Kinds, NEW n \in store'[k], NEW m \in store'[k], n.key = m.key
      PROVE  n = m
  <2>1. CASE k = "column"
    BY <1>2, <2>1, CommitRows, PhaseFacts DEF Rows
  <2>2. CASE k # "column"
    <3>1. InScope(k, names, n) /\ InScope(k, names, m)
      BY <2>2 DEF InScope
    <3>2. k = "edge" \/ \A r, s \in store[k] : r.key = s.key => r = s
      BY <1>1, OnceEach
    <3> QED
      BY <1>1, <1>2, <3>1, <3>2, SettledKeys
  <2> QED
    BY <2>1, <2>2
<1>3. ASSUME NEW n \in store'["table"]
      PROVE  n.content[1] = n.text
  <2>0. "table" \in Kinds /\ "table" \in UniqueKinds
    BY PhaseFacts
  <2>1. Settled("table", names, wants, n)
    <3>1. InScope("table", names, n)
      BY DEF InScope
    <3>2. \A r, s \in store["table"] : r.key = s.key => r = s
      BY <1>1, <2>0, OnceEach
    <3> QED
      BY <1>1, <2>0, <3>1, <3>2, SettledRow
  <2>2. \A want \in wants : want.text = want.content[1]
    BY <2>0, WantedOnce DEF Exactly
  <2>3. \A s \in store["table"] : s.content[1] = s.text
    BY DEF Committing, Ingested, Tidy
  <2> HIDE DEF wants, names
  <2> QED
    BY <2>1, <2>2, <2>3 DEF Settled
<1> QED
  BY <1>2, <1>3 DEF Tidy

\* A row that is as wanted has the wanted text and content.
LEMMA SettledAsWanted ==
    ASSUME NEW i, Committing(i), ingest[i].alone, NEW k \in Kinds,
           k \in UniqueKinds \cup {"edge"} \/ ~raced,
           NEW n \in store'[k], InScope(k, ingest[i].names, n),
           k # "table" \/ n.active, k \notin {"workspace", "example"}
    PROVE  /\ n.active
           /\ \E want \in Desired(ingest[i])[k] :
                 /\ n.key = want.key
                 /\ k # "table" \/ ~raced => n.text = want.text
                 /\ k # "term" => n.content = want.content
                 /\ k = "term" => Resolved(n.content, ingest[i].names) = want.content
<1> DEFINE names == ingest[i].names
           wants == Desired(ingest[i])[k]
<1>1. Settled(k, names, wants, n)
  BY OnceEach, SettledRow
<1>2. \A want \in wants : Exactly(k, want, names)
  BY WantedOnce
<1>3. \A s \in store[k] : Row(k, s, commits)
  BY CommitFacts DEF Rows
<1>4. ~raced => \A s \in store["table"] : s.content[1] = s.text
  BY DEF Committing, Ingested, Tidy
<1> HIDE DEF names, wants
<1>5. CASE /\ n.active
           /\ \E want \in wants : /\ want.key = n.key
                                  /\ n.text = want.text /\ n.content = want.content
  BY <1>2, <1>5 DEF Exactly, names, wants
<1>6. CASE /\ n \in store[k]
           /\ \E want \in wants : want.key = n.key /\ Same(k, n, want, names)
  <2>1. PICK want \in wants : want.key = n.key /\ Same(k, n, want, names)
    BY <1>6
  <2>2. n.active /\ Hashed(k, n, names) = FreshHash(k, want)
    BY <2>1 DEF Same
  <2>3. CASE k = "term"
    BY <2>1, <2>2, <2>3 DEF Hashed, FreshHash, names, wants
  <2>4. CASE k = "edge"
    BY <2>1, <2>2, <2>4 DEF Hashed, FreshHash, names, wants
  <2>5. CASE k = "column"
    <3>1. n.text = None /\ want.text = None
      BY <1>2, <1>3, <1>6, <2>5 DEF Row, Exactly
    <3> QED
      BY <2>1, <2>2, <2>5, <3>1 DEF Hashed, FreshHash, names, wants
  <2>6. CASE k = "table"
    <3>1. n.content = want.content
      BY <2>2, <2>6 DEF Hashed, FreshHash
    <3>2. ~raced => n.text = want.text
      BY <1>2, <1>4, <1>6, <2>6, <3>1 DEF Exactly
    <3> QED
      BY <2>1, <2>2, <2>6, <3>1, <3>2 DEF names, wants
  <2> QED
    BY <2>3, <2>4, <2>5, <2>6, PhaseFacts
<1> QED
  BY <1>1, <1>5, <1>6 DEF Settled

\* Columns are wanted of the tables that were read, and all those tables are.
LEMMA WantedKeys ==
    ASSUME NEW run
    PROVE  /\ \A want \in Desired(run)["column"] : want.key[1] \in run.names
           /\ {want.key : want \in Desired(run)["table"]} = run.names
<1>1. /\ Desired(run)["column"] = WantedColumns(run)
      /\ Desired(run)["table"] = WantedTables(run)
  BY DEF Desired
<1>2. ASSUME NEW want \in WantedColumns(run)
      PROVE  want.key[1] \in run.names
  <2>1. PICK t \in run.names : \E c \in DOMAIN run.columns[t] :
               want = Wanted(<<t, c>>, None, ColumnContent(run, t, c))
    BY DEF WantedColumns
  <2> QED
    BY <2>1 DEF Wanted
<1>3. \A want \in WantedTables(run) : want.key \in run.names
  BY DEF WantedTables, Wanted
<1>4. ASSUME NEW t \in run.names
      PROVE  \E want \in WantedTables(run) : want.key = t
  <2> DEFINE text == run.spec.notes[t]
             content == <<text, [c \in DOMAIN run.columns[t] |-> ColumnContent(run, t, c)]>>
  <2>1. Wanted(t, text, content) \in WantedTables(run)
    BY DEF WantedTables
  <2>2. Wanted(t, text, content).key = t
    BY DEF Wanted
  <2> QED
    BY <2>1, <2>2
<1> QED
  BY <1>1, <1>2, <1>3, <1>4

\* The live tables, the columns of them and the edges are as was read.
LEMMA CommitHeals ==
    ASSUME NEW i, Committing(i)
    PROVE  StructureHeals'
<1> DEFINE run == ingest[i]
           names == run.names
           want(k) == Desired(run)[k]
           columns == {r \in store'["column"] : r.key[1] \in names}
<1>0. /\ mirrored'.alone = run.alone /\ mirrored'.names = names
      /\ mirrored'.want = Desired(run)
      /\ {"table", "column", "edge"} \subseteq Kinds
      /\ {"table", "column", "edge"} \subseteq UniqueKinds \cup {"edge"}
  BY CommitFacts, PhaseFacts
<1> SUFFICES ASSUME run.alone
             PROVE  /\ {r.key : r \in LiveTables'} = names
                    /\ Mirrors(columns, want("column"))
                    /\ Mirrors(store'["edge"], want("edge"))
  BY <1>0 DEF StructureHeals
<1>1. {r.key : r \in LiveTables'} = names
  <2>1. ASSUME NEW n \in store'["table"], n.active
        PROVE  n.key \in names
    <3>1. InScope("table", names, n)
      BY DEF InScope
    <3>2. \E a \in want("table") : n.key = a.key
      BY <1>0, <2>1, <3>1, SettledAsWanted
    <3> QED
      BY <3>2, WantedKeys
  <2>2. ASSUME NEW t \in names
        PROVE  \E n \in store'["table"] : n.active /\ n.key = t
    <3>1. PICK a \in want("table") : a.key = t
      BY WantedKeys
    <3>2. "table" = "edge" \/ \A r, s \in store["table"] : r.key = s.key => r = s
      BY <1>0, OnceEach
    <3>3. PICK n \in store'["table"] : n.key = t
      BY <1>0, <3>1, <3>2, SettledKeys
    <3>4. InScope("table", names, n)
      BY DEF InScope
    <3>5. Settled("table", names, want("table"), n)
      BY <1>0, <3>2, <3>4, SettledRow
    <3>6. n.active
      BY <3>1, <3>3, <3>5 DEF Settled, Wanting, Same
    <3> QED
      BY <3>3, <3>6
  <2>3. LiveTables' = {r \in store'["table"] : r.active}
    BY DEF LiveTables
  <2> QED
    BY <2>1, <2>2, <2>3
<1>2. Mirrors(columns, want("column"))
  <2>1. \A n \in columns : n \in store'["column"] /\ InScope("column", names, n)
    BY DEF InScope
  <2>2. "column" = "edge" \/ \A r, s \in store["column"] : r.key = s.key => r = s
    BY <1>0, OnceEach
  <2>3. \A n, m \in columns : n.key = m.key => n = m
    BY <1>0, <2>1, <2>2, SettledKeys
  <2>4. ASSUME NEW n \in columns
        PROVE  \E a \in want("column") :
                   n.key = a.key /\ n.text = a.text /\ n.content = a.content
    BY <1>0, <2>1, SettledAsWanted
  <2>5. ASSUME NEW a \in want("column")
        PROVE  \E n \in columns : n.key = a.key
    <3>1. PICK n \in store'["column"] : n.key = a.key
      BY <1>0, <2>2, SettledKeys
    <3>2. n \in columns
      BY <3>1, WantedKeys
    <3> QED
      BY <3>1, <3>2
  <2> QED
    BY <2>3, <2>4, <2>5 DEF Mirrors
<1>3. Mirrors(store'["edge"], want("edge"))
  <2>1. \A n : InScope("edge", names, n)
    BY DEF InScope
  <2>2. \A n, m \in store'["edge"] : n.key = m.key => n = m
    BY <1>0, <2>1, SettledKeys
  <2>3. ASSUME NEW n \in store'["edge"]
        PROVE  \E a \in want("edge") :
                   n.key = a.key /\ n.text = a.text /\ n.content = a.content
    BY <1>0, <2>1, SettledAsWanted
  <2>4. \A a \in want("edge") : \E n \in store'["edge"] : n.key = a.key
    BY <1>0, SettledKeys
  <2> QED
    BY <2>2, <2>3, <2>4 DEF Mirrors
<1> QED
  BY <1>1, <1>2, <1>3

\* While no two ingestions have overlapped, the rest is as was read too.
LEMMA CommitMirrors ==
    ASSUME NEW i, Committing(i)
    PROVE  StoreMirrors'
<1> DEFINE run == ingest[i]
           names == run.names
           want(k) == Desired(run)[k]
           Seen(r) == [r EXCEPT !.content = Resolved(@, names)]
           terms == {Seen(r) : r \in store'["term"]}
<1>0. /\ mirrored'.names = names /\ mirrored'.want = Desired(run)
      /\ {"table", "term", "example"} \subseteq Kinds
      /\ raced' = raced
  BY CommitFacts, PhaseFacts
<1> SUFFICES ASSUME ~raced
             PROVE  /\ Mirrors(LiveTables', want("table"))
                    /\ Mirrors(terms, want("term"))
                    /\ \A a \in want("example") : \E r \in store'["example"] :
                          r.key = a.key /\ r.content = a.content
  BY <1>0 DEF StoreMirrors
<1>1. /\ run.alone
      /\ \A k \in Kinds : \A r, s \in store[k] : r.key = s.key => r = s
      /\ \A k \in Kinds : \A a, b \in want(k) : a.key = b.key => a = b
  BY CommitFacts, WantedOnce DEF Committing, Ingested, Apart, Tidy
<1>2. \A k \in Kinds \ {"column"} : \A n : InScope(k, names, n)
  BY DEF InScope
<1>3. \A k \in Kinds \ {"column"} :
         /\ \A n, m \in store'[k] : n.key = m.key => n = m
         /\ \A a \in want(k) : \E n \in store'[k] : n.key = a.key
         /\ \A n \in store'[k] : Settled(k, names, want(k), n)
  BY <1>1, <1>2, SettledKeys, SettledRow
<1>4. Mirrors(LiveTables', want("table"))
  <2>1. LiveTables' = {r \in store'["table"] : r.active}
    BY DEF LiveTables
  <2>2. ASSUME NEW n \in store'["table"], n.active
        PROVE  \E a \in want("table") :
                   n.key = a.key /\ n.text = a.text /\ n.content = a.content
    BY <1>0, <1>1, <1>2, <2>2, SettledAsWanted
  <2>3. ASSUME NEW a \in want("table")
        PROVE  \E n \in store'["table"] : n.active /\ n.key = a.key
    <3>1. PICK n \in store'["table"] : n.key = a.key
      BY <1>0, <1>3
    <3>2. Settled("table", names, want("table"), n)
      BY <1>0, <1>3
    <3>3. n.active
      BY <3>1, <3>2 DEF Settled, Wanting, Same
    <3> QED
      BY <3>1, <3>3
  <2> QED
    BY <1>0, <1>3, <2>1, <2>2, <2>3 DEF Mirrors
<1>5. Mirrors(terms, want("term"))
  <2>1. ASSUME NEW n \in store'["term"]
        PROVE  /\ Seen(n).key = n.key /\ Seen(n).text = n.text
               /\ Seen(n).content = Resolved(n.content, names)
    <3>1. DOMAIN n = RowFields
      BY <1>0, CommitRows DEF Rows, Row
    <3> QED
      BY <3>1 DEF RowFields
  <2>2. ASSUME NEW n \in store'["term"]
        PROVE  \E a \in want("term") : /\ n.key = a.key /\ n.text = a.text
                                       /\ Resolved(n.content, names) = a.content
    BY <1>0, <1>1, <1>2, <2>2, SettledAsWanted
  <2> HIDE DEF Seen, want, names
  <2>3. \A r, s \in terms : r.key = s.key => r = s
    BY <1>0, <1>3, <2>1
  <2>4. \A r \in terms : \E a \in want("term") :
            r.key = a.key /\ r.text = a.text /\ r.content = a.content
    BY <2>1, <2>2
  <2>5. \A a \in want("term") : \E r \in terms : r.key = a.key
    BY <1>0, <1>3, <2>1
  <2> QED
    BY <2>3, <2>4, <2>5 DEF Mirrors
<1>6. ASSUME NEW a \in want("example")
      PROVE  \E r \in store'["example"] : r.key = a.key /\ r.content = a.content
  <2>1. PICK n \in store'["example"] : n.key = a.key
    BY <1>0, <1>3
  <2>2. Settled("example", names, want("example"), n)
    BY <1>0, <1>3
  <2>3. PICK b \in want("example") : b.key = n.key /\ n.content = b.content
    BY <2>1, <2>2 DEF Settled, Wanting, Same, Hashed, FreshHash
  <2>4. b = a
    BY <1>0, <1>1, <2>1, <2>3
  <2> QED
    BY <2>1, <2>3, <2>4
<1> QED
  BY <1>4, <1>5, <1>6

\* A commit keeps the invariant of the rows and runs.
LEMMA CommitKeeps ==
    ASSUME NEW i, Committing(i)
    PROVE  Ingested'
BY CommitRows, CommitRuns, CommitTidy, CommitFresh, CommitHeals, CommitMirrors
   DEF Ingested

-----------------------------------------------------------------------------
(* The later step that embeds rows, and the world.                         *)

Embedded(r) ==
    IF r.embedding = None THEN [r EXCEPT !.embedding = Embeddable(r)] ELSE r

\* The embedding step changes the embedding of a row and nothing else.
LEMMA EmbeddedRow ==
    ASSUME NEW k, NEW now, NEW r, Row(k, r, now)
    PROVE  /\ Row(k, Embedded(r), now)
           /\ Embedded(r).key = r.key /\ Embedded(r).born = r.born
           /\ Embedded(r).text = r.text /\ Embedded(r).content = r.content
           /\ Embedded(r).active = r.active
           /\ Embedded(r).embedding =
                 IF r.embedding = None THEN Embeddable(r) ELSE r.embedding
BY DEF Row, RowFields, Embedded

\* A stored row after the step is a row before it, but for its embedding.
LEMMA EmbedRowsFacts ==
    ASSUME Ingested, EmbedRows, NEW k \in Kinds
    PROVE  /\ \A n \in store'[k] : \E r \in store[k] :
                 /\ Row(k, r, commits) /\ Row(k, n, commits)
                 /\ n = r \/ n = Embedded(r)
                 /\ n.key = r.key /\ n.born = r.born /\ n.text = r.text
                 /\ n.content = r.content /\ n.active = r.active
           /\ \A r \in store[k] : \E n \in store'[k] :
                 /\ n.key = r.key /\ n.text = r.text
                 /\ n.content = r.content /\ n.active = r.active
<1>1. \/ store'[k] = store[k]
      \/ store'[k] = {Embedded(r) : r \in store[k]}
  BY DEF EmbedRows, Embedded
<1>2. \A r \in store[k] : Row(k, r, commits)
  BY DEF Ingested, Rows
<1> QED
  BY <1>1, <1>2, EmbeddedRow

\* The embedding step keeps the invariant.
LEMMA EmbedRowsKeeps ==
    ASSUME Ingested, EmbedRows
    PROVE  Ingested'
<1>0. /\ UNCHANGED <<world, ingest, commits, raced, mirrored>>
      /\ DOMAIN store' = Kinds
      /\ \A i \in Ingesters : ingest[i].pc = "idle"
      /\ Rows /\ Runs
  BY DEF EmbedRows, Ingested
<1>1. \A k \in Kinds : \A n \in store'[k] : \E r \in store[k] :
          /\ Row(k, r, commits) /\ Row(k, n, commits)
          /\ n = r \/ n = Embedded(r)
          /\ n.key = r.key /\ n.born = r.born /\ n.text = r.text
          /\ n.content = r.content /\ n.active = r.active
  BY EmbedRowsFacts
<1>2. \A k \in Kinds : \A r \in store[k] : \E n \in store'[k] :
          /\ n.key = r.key /\ n.text = r.text
          /\ n.content = r.content /\ n.active = r.active
  BY EmbedRowsFacts
<1>3. \A k \in Kinds : (\A r, s \in store[k] : r.key = s.key => r = s)
                        => \A n, m \in store'[k] : n.key = m.key => n = m
  <2> SUFFICES ASSUME NEW k \in Kinds, \A r, s \in store[k] : r.key = s.key => r = s,
                      NEW n \in store'[k], NEW m \in store'[k], n.key = m.key
               PROVE  n = m
    OBVIOUS
  <2>1. CASE store'[k] = store[k]
    BY <2>1
  <2>2. CASE store'[k] = {Embedded(r) : r \in store[k]}
    <3>1. PICK r \in store[k] : n = Embedded(r)
      BY <2>2
    <3>2. PICK s \in store[k] : m = Embedded(s)
      BY <2>2
    <3>3. Row(k, r, commits) /\ Row(k, s, commits)
      BY <1>0 DEF Rows
    <3>4. r.key = s.key
      BY <3>1, <3>2, <3>3, EmbeddedRow
    <3> QED
      BY <3>1, <3>2, <3>4
  <2> QED
    BY <2>1, <2>2 DEF EmbedRows, Embedded
<1>4. ASSUME NEW k \in Kinds, NEW n \in store'[k], NEW m \in store'[k],
             Identity(n) = Identity(m)
      PROVE  n = m
  <2>1. CASE store'[k] = store[k]
    BY <1>4, <2>1 DEF Ingested, Rows
  <2>2. CASE store'[k] = {Embedded(r) : r \in store[k]}
    <3>1. PICK r \in store[k] : n = Embedded(r)
      BY <2>2
    <3>2. PICK s \in store[k] : m = Embedded(s)
      BY <2>2
    <3>3. Row(k, r, commits) /\ Row(k, s, commits)
      BY <1>0 DEF Rows
    <3>4. Identity(r) = Identity(s)
      BY <1>4, <3>1, <3>2, <3>3, EmbeddedRow DEF Identity
    <3> QED
      BY <1>0, <3>1, <3>2, <3>4 DEF Rows
  <2> QED
    BY <2>1, <2>2 DEF EmbedRows, Embedded
<1>5. Rows'
  <2>1. \A k \in UniqueKinds : \A n, m \in store'[k] : n.key = m.key => n = m
    BY <1>0, <1>3, PhaseFacts DEF Rows
  <2>2. \A k \in Kinds : \A n \in store'[k] : Row(k, n, commits)
    BY <1>1
  <2> QED
    BY <1>0, <1>4, <2>1, <2>2 DEF Rows
<1>6. Runs'
  BY <1>0 DEF Runs
<1>7. \A i \in Ingesters : \A k \in Kinds :
          /\ ingest[i].writes[k].updates = {} /\ LockedKeys(k, ingest[i].writes[k]) = {}
  BY <1>0, NothingWritten DEF Runs, Run
<1>8. Overtaken'
  BY <1>0, <1>7 DEF Overtaken, OvertakenRun
<1>9. KeysLocked'
  BY <1>0, <1>7, PhaseFacts DEF KeysLocked, Locked
<1>10. Apart' /\ AloneExact'
  BY <1>0 DEF Ingested, Apart, AloneExact, InTransaction
<1>11. Tidy'
  <2> SUFFICES ASSUME ~raced  PROVE Tidy'
    BY <1>0 DEF Tidy
  <2>1. /\ \A k \in Kinds : \A r, s \in store[k] : r.key = s.key => r = s
        /\ \A r \in store["table"] : r.content[1] = r.text
    BY DEF Ingested, Tidy
  <2>2. \A k \in Kinds : \A n, m \in store'[k] : n.key = m.key => n = m
    BY <1>3, <2>1
  <2>3. \A n \in store'["table"] : n.content[1] = n.text
    BY <1>1, <2>1, PhaseFacts
  <2> QED
    BY <2>2, <2>3 DEF Tidy
<1>12. EmbeddingsFresh'
  <2> SUFFICES ASSUME ~raced, NEW k \in Kinds, NEW n \in store'[k]
               PROVE  n.embedding \in {None, Embeddable(n)}
    BY <1>0 DEF EmbeddingsFresh
  <2>1. PICK r \in store[k] : Row(k, r, commits) /\ (n = r \/ n = Embedded(r))
    BY <1>1
  <2>2. r.embedding \in {None, Embeddable(r)}
    BY DEF Ingested, EmbeddingsFresh
  <2>3. Embeddable(Embedded(r)) = Embeddable(r)
    BY <2>1, EmbeddedRow DEF Embeddable
  <2> QED
    BY <2>1, <2>2, <2>3, EmbeddedRow
<1>13. {"table", "column", "edge", "term", "example"} \subseteq Kinds
  BY PhaseFacts
<1>14. ASSUME NEW rows, NEW rows2, NEW wants, Mirrors(rows, wants),
              \A n, m \in rows2 : n.key = m.key => n = m,
              \A n \in rows2 : \E r \in rows :
                 n.key = r.key /\ n.text = r.text /\ n.content = r.content,
              \A r \in rows : \E n \in rows2 : n.key = r.key
       PROVE  Mirrors(rows2, wants)
  BY <1>14 DEF Mirrors
<1>15. StructureHeals'
  <2> SUFFICES ASSUME mirrored # None, mirrored.alone
               PROVE  /\ {r.key : r \in LiveTables'} = mirrored.names
                      /\ Mirrors({r \in store'["column"] : r.key[1] \in mirrored.names},
                                 mirrored.want["column"])
                      /\ Mirrors(store'["edge"], mirrored.want["edge"])
    BY <1>0 DEF StructureHeals
  <2>1. /\ {r.key : r \in LiveTables} = mirrored.names
        /\ Mirrors({r \in store["column"] : r.key[1] \in mirrored.names},
                   mirrored.want["column"])
        /\ Mirrors(store["edge"], mirrored.want["edge"])
    BY DEF Ingested, StructureHeals
  <2>2. {r.key : r \in LiveTables'} = {r.key : r \in LiveTables}
    BY <1>1, <1>2, <1>13 DEF LiveTables
  <2>3. Mirrors({r \in store'["column"] : r.key[1] \in mirrored.names},
               mirrored.want["column"])
    <3> DEFINE rows == {r \in store["column"] : r.key[1] \in mirrored.names}
               rows2 == {r \in store'["column"] : r.key[1] \in mirrored.names}
    <3>1. \A n, m \in rows2 : n.key = m.key => n = m
      BY <1>5, PhaseFacts DEF Rows
    <3>2. \A n \in rows2 : \E r \in rows :
              n.key = r.key /\ n.text = r.text /\ n.content = r.content
      BY <1>1, <1>13
    <3>3. \A r \in rows : \E n \in rows2 : n.key = r.key
      BY <1>2, <1>13
    <3> HIDE DEF rows, rows2
    <3>4. Mirrors(rows, mirrored.want["column"])
      BY <2>1 DEF rows
    <3>5. Mirrors(rows2, mirrored.want["column"])
      BY <1>14, <3>1, <3>2, <3>3, <3>4
    <3> QED
      BY <3>5 DEF rows2
  <2>4. Mirrors(store'["edge"], mirrored.want["edge"])
    <3>1. \A n, m \in store["edge"] : n.key = m.key => n = m
      BY <2>1 DEF Mirrors
    <3>2. \A n, m \in store'["edge"] : n.key = m.key => n = m
      BY <1>3, <1>13, <3>1
    <3>3. /\ \A n \in store'["edge"] : \E r \in store["edge"] :
                 n.key = r.key /\ n.text = r.text /\ n.content = r.content
          /\ \A r \in store["edge"] : \E n \in store'["edge"] : n.key = r.key
      BY <1>1, <1>2, <1>13
    <3> QED
      BY <1>14, <2>1, <3>2, <3>3
  <2> QED
    BY <2>1, <2>2, <2>3, <2>4
<1>16. StoreMirrors'
  <2> SUFFICES ASSUME mirrored # None, ~raced
               PROVE  StoreMirrors'
    BY <1>0 DEF StoreMirrors
  <2> DEFINE Seen(r) == [r EXCEPT !.content = Resolved(@, mirrored.names)]
             terms == {Seen(r) : r \in store["term"]}
             terms2 == {Seen(r) : r \in store'["term"]}
  <2>1. /\ Mirrors(LiveTables, mirrored.want["table"])
        /\ Mirrors(terms, mirrored.want["term"])
        /\ \A a \in mirrored.want["example"] : \E r \in store["example"] :
              r.key = a.key /\ r.content = a.content
        /\ \A k \in Kinds : \A r, s \in store[k] : r.key = s.key => r = s
    BY DEF Ingested, StoreMirrors, Tidy
  <2>2. \A k \in Kinds : \A n, m \in store'[k] : n.key = m.key => n = m
    BY <1>3, <2>1
  <2>3. Mirrors(LiveTables', mirrored.want["table"])
    <3> DEFINE rows == LiveTables
               rows2 == LiveTables'
    <3>1. \A n, m \in rows2 : n.key = m.key => n = m
      BY <1>13, <2>2 DEF LiveTables
    <3>2. \A n \in rows2 : \E r \in rows :
              n.key = r.key /\ n.text = r.text /\ n.content = r.content
      BY <1>1, <1>13 DEF LiveTables
    <3>3. \A r \in rows : \E n \in rows2 : n.key = r.key
      BY <1>2, <1>13 DEF LiveTables
    <3> HIDE DEF rows, rows2
    <3>4. Mirrors(rows, mirrored.want["table"])
      BY <2>1 DEF rows
    <3>5. Mirrors(rows2, mirrored.want["table"])
      BY <1>14, <3>1, <3>2, <3>3, <3>4
    <3> QED
      BY <3>5 DEF rows2
  <2>4. Mirrors(terms2, mirrored.want["term"])
    <3>1. ASSUME NEW r, Row("term", r, commits)
          PROVE  /\ Seen(r).key = r.key /\ Seen(r).text = r.text
                 /\ Seen(r).content = Resolved(r.content, mirrored.names)
      BY <3>1 DEF Row, RowFields
    <3>2. /\ \A r \in store["term"] : Row("term", r, commits)
          /\ \A r \in store'["term"] : Row("term", r, commits)
      BY <1>0, <1>1, <1>13 DEF Rows
    <3> HIDE DEF Seen
    <3>3. \A n, m \in terms2 : n.key = m.key => n = m
      BY <1>13, <2>2, <3>1, <3>2
    <3>4. \A n \in terms2 : \E r \in terms :
              n.key = r.key /\ n.text = r.text /\ n.content = r.content
      BY <1>1, <1>13, <3>1, <3>2
    <3>5. \A r \in terms : \E n \in terms2 : n.key = r.key
      BY <1>2, <1>13, <3>1, <3>2
    <3> HIDE DEF terms, terms2
    <3>6. Mirrors(terms, mirrored.want["term"])
      BY <2>1
    <3> QED
      BY <1>14, <3>3, <3>4, <3>5, <3>6
  <2>5. \A a \in mirrored.want["example"] : \E r \in store'["example"] :
            r.key = a.key /\ r.content = a.content
    BY <1>2, <1>13, <2>1
  <2> QED
    BY <1>0, <2>3, <2>4, <2>5 DEF StoreMirrors
<1> QED
  BY <1>5, <1>6, <1>8, <1>9, <1>10, <1>11, <1>12, <1>15, <1>16 DEF Ingested

-----------------------------------------------------------------------------
(* Every step.                                                             *)

\* The invariant holds of the empty control database.
LEMMA IngestedAtFirst ==
    ASSUME Init
    PROVE  Ingested
<1>1. /\ world \in Worlds /\ commits = 0 /\ raced = FALSE /\ mirrored = None
      /\ store = [k \in Kinds |-> {}]
      /\ ingest = [i \in Ingesters |-> NoIngest]
  BY DEF Init, IngestInit
<1>2. /\ NoIngest.pc = "idle" /\ NoIngest.phase = 1 /\ NoIngest.loaded = {}
      /\ NoIngest.alone = TRUE /\ DOMAIN NoIngest.writes = Kinds
  BY DEF NoIngest
<1>3. \A k \in Kinds : store[k] = {}
  BY <1>1
<1>4. Rows
  BY <1>1, <1>3, PhaseFacts DEF Rows
<1>5. Run(NoIngest, 0)
  BY NoIngestRun
<1>6. Runs
  BY <1>1, <1>5 DEF Runs
<1>7. Overtaken
  BY <1>1, <1>2, <1>3 DEF Overtaken, OvertakenRun
<1>8. KeysLocked
  BY <1>1, NothingWritten, PhaseFacts DEF KeysLocked, Locked
<1>9. Apart /\ AloneExact
  BY <1>1, <1>2 DEF Apart, AloneExact, InTransaction
<1>10. Tidy /\ EmbeddingsFresh
  BY <1>3, PhaseFacts DEF Tidy, EmbeddingsFresh
<1>11. StructureHeals /\ StoreMirrors
  BY <1>1 DEF StructureHeals, StoreMirrors
<1> QED
  BY <1>4, <1>6, <1>7, <1>8, <1>9, <1>10, <1>11 DEF Ingested

\* Every step of an ingestion keeps the invariant.
LEMMA IngestWorkKeeps ==
    ASSUME Ingested, NEW i \in Ingesters, IngestWork(i)
    PROVE  Ingested'
<1>1. CASE ReadTables(i) \/ ReadColumns(i)
  BY <1>1, ReadingKeeps
<1>2. CASE ReadKeys(i)
  BY <1>2, ReadKeysKeeps
<1>3. CASE LoadRows(i)
  BY <1>3, LoadRowsKeeps
<1>4. CASE FlushRows(i)
  BY <1>4, FlushRowsKeeps
<1>5. CASE CommitIngest(i)
  BY <1>5, CommitKeeps DEF Committing
<1> QED
  BY <1>1, <1>2, <1>3, <1>4, <1>5 DEF IngestWork

\* Steps of questions and of the allowlist do not touch the rows.
LEMMA IngestedStays ==
    ASSUME Ingested, UNCHANGED <<store, ingest, commits, raced, mirrored>>,
           world' \in Worlds
    PROVE  Ingested'
<1>1. Unstored
  BY DEF Unstored
<1>2. Rows' /\ Tidy' /\ EmbeddingsFresh' /\ StructureHeals' /\ StoreMirrors'
  BY <1>1, RowsStay
<1>3. Runs' /\ Overtaken' /\ Apart' /\ AloneExact'
  BY DEF Ingested, Runs, Overtaken, Apart, AloneExact, InTransaction
<1>4. KeysLocked'
  BY DEF Ingested, KeysLocked, Locked
<1> QED
  BY <1>2, <1>3, <1>4 DEF Ingested

\* What a step does to the ingestions and to the rows.
LEMMA IngestSteps ==
    ASSUME Ingested, [Next]_vars
    PROVE  \/ /\ UNCHANGED <<store, ingest, commits, raced, mirrored>>
              /\ world' \in Worlds
           \/ \E i \in Ingesters : LoadFile(i)
           \/ \E i \in Ingesters : IngestFails(i)
           \/ \E i \in Ingesters : IngestWork(i)
           \/ EmbedRows
<1>0. world \in Worlds
  BY DEF Ingested, Rows
<1>1. UNCHANGED ingestVars => /\ UNCHANGED <<store, ingest, commits, raced, mirrored>>
                              /\ world' \in Worlds
  BY <1>0 DEF ingestVars
<1>2. UNCHANGED vars => UNCHANGED ingestVars
  BY DEF vars
<1>3. Outside => \/ UNCHANGED ingestVars \/ WorldChanges \/ EmbedRows
                 \/ \E i \in Ingesters : LoadFile(i)
                 \/ \E i \in Ingesters : IngestFails(i)
  BY DEF Outside, GenerateReads, GenerateWrites, Restart, Ask
<1>4. WorldChanges => /\ UNCHANGED <<store, ingest, commits, raced, mirrored>>
                      /\ world' \in Worlds
  BY DEF WorldChanges
<1>5. ControlStep => \E i \in Ingesters : IngestWork(i)
  BY DEF ControlStep
<1>6. ASSUME NEW r \in Requests, RequestStep(r)
      PROVE  UNCHANGED ingestVars
  <2>1. \A new : Set(r, new) => UNCHANGED ingestVars
    BY DEF Set
  <2>2. /\ \A pc : Goto(r, pc) => UNCHANGED ingestVars
        /\ \A status : Answer(r, status) => UNCHANGED ingestVars
        /\ Raises(r) => UNCHANGED ingestVars
        /\ \A sql : Reject(r, sql) => UNCHANGED ingestVars
    BY <2>1 DEF Goto, Answer, Raises, Reject
  <2>3. CASE LoadCatalog(r)
    BY <2>2, <2>3 DEF LoadCatalog
  <2>4. CASE Enhance(r) \/ CheckAmbiguity(r) \/ SelectTables(r) \/ PruneColumns(r)
    BY <2>2, <2>4 DEF Enhance, CheckAmbiguity, SelectTables, PruneColumns
  <2>5. CASE Generate(r) \/ Vote(r) \/ Repair(r) \/ ModelFails(r)
    BY <2>1, <2>2, <2>5 DEF Generate, Vote, Repair, ModelFails
  <2>6. CASE Criticise(r)
    BY <2>1, <2>2, <2>6 DEF Criticise
  <2>7. CASE Check(r)
    BY <2>1, <2>2, <2>7 DEF Check
  <2>8. CASE Review(r)
    BY <2>1, <2>2, <2>8 DEF Review
  <2> QED
    BY <1>6, <2>3, <2>4, <2>5, <2>6, <2>7, <2>8 DEF RequestStep
<1> QED
  BY <1>1, <1>2, <1>3, <1>4, <1>5, <1>6 DEF Next

\* Every step keeps the invariant of the rows and runs.
LEMMA IngestedKept ==
    ASSUME Ingested, [Next]_vars
    PROVE  Ingested'
<1>1. CASE UNCHANGED <<store, ingest, commits, raced, mirrored>> /\ world' \in Worlds
  BY <1>1, IngestedStays
<1>2. CASE \E i \in Ingesters : LoadFile(i)
  BY <1>2, ReadingKeeps
<1>3. CASE \E i \in Ingesters : IngestFails(i)
  <2>1. PICK i \in Ingesters : IngestFails(i)
    BY <1>3
  <2>2. /\ Unstored /\ world' \in Worlds
        /\ ingest' = [ingest EXCEPT ![i] = NoIngest]
    BY <2>1 DEF IngestFails, Unstored, Ingested, Rows
  <2> QED
    BY <2>2, LeavesKeep
<1>4. CASE \E i \in Ingesters : IngestWork(i)
  BY <1>4, IngestWorkKeeps
<1>5. CASE EmbedRows
  BY <1>5, EmbedRowsKeeps
<1> QED
  BY <1>1, <1>2, <1>3, <1>4, <1>5, IngestSteps

\* The rows, and the transactions of run.py that are about to write them, are
\* always as described by Ingested: the invariant the theorems below rest on.
THEOREM AlwaysIngested == Spec => []Ingested
BY IngestedAtFirst, IngestedKept, PTL DEF Spec

-----------------------------------------------------------------------------
(* The theorems about the rows.                                            *)

\* Types, and that what the schema of the control database keeps unique is
\* unique, while ingestions overlap, fail and conflict (the unique constraints
\* of control_db/models.py, the _sync functions of run.py).
THEOREM TypeCorrect == Spec => []TypeOK
<1>1. Ingested /\ Questioned => TypeOK
  <2> SUFFICES ASSUME Ingested, Questioned  PROVE TypeOK
    OBVIOUS
  <2>1. /\ world \in Worlds
        /\ DOMAIN store = Kinds
        /\ \A k \in Kinds : \A r \in store[k] : r.born < commits /\ r.active \in BOOLEAN
        /\ \A k \in {"workspace", "table", "column"} :
              \A r, s \in store[k] : r.key = s.key => r = s
    BY PhaseFacts DEF Ingested, Rows, Row
  <2>2. \A i \in Ingesters :
          /\ ingest[i].pc \in {"idle", "file", "tables", "columns", "begun", "loaded"}
          /\ ingest[i].phase \in 1 .. Len(Phases) + 1
    BY DEF Ingested, Runs, Run
  <2>3. \A r \in Requests :
          /\ request[r].pc \in Asking
          /\ request[r].repairs \in 0 .. MaxRepairs
          /\ request[r].answer # None => request[r].pc = "ended"
    BY DEF Questioned, Question, Counted
  <2> QED
    BY <2>1, <2>2, <2>3 DEF TypeOK
<1> QED
  BY <1>1, AlwaysIngested, AlwaysQuestioned, PTL

\* While no two ingestions have overlapped, every embedding is that of the text
\* and content its row has now (the _sync functions of run.py reset it).
THEOREM EmbeddingsOfNow == Spec => []EmbeddingsFresh
BY AlwaysIngested, PTL DEF Ingested

\* After an ingestion that ran alone the live tables, their columns and the
\* edges are those it read, whatever overlapping ones had left.
THEOREM StructureMended == Spec => []StructureHeals
BY AlwaysIngested, PTL DEF Ingested

\* While no two ingestions have overlapped, the descriptions, the terms and the
\* examples are those the last one read.
THEOREM StoreAsRead == Spec => []StoreMirrors
BY AlwaysIngested, PTL DEF Ingested

\* What the action property says of one step.
Kept ==
    \A k \in Kinds : \A r \in store[k], n \in store'[k] :
        Identity(r) = Identity(n) /\ r.embedding # None /\ n.embedding = None
            => Embeddable(r) # Embeddable(n) \/ ~r.active

\* A commit forgets no embedding of a row that stays as it is.
LEMMA CommitLosesNone ==
    ASSUME NEW i, Committing(i)
    PROVE  Kept
<1> SUFFICES ASSUME NEW k \in Kinds, NEW r \in store[k], NEW n \in store'[k],
                    Identity(r) = Identity(n), r.embedding # None, n.embedding = None
             PROVE  Embeddable(r) # Embeddable(n) \/ ~r.active
  BY DEF Kept
<1> DEFINE w == ingest[i].writes[k]
<1>0. /\ Row(k, r, commits) /\ commits \in Nat
      /\ \A a, b \in store[k] : Identity(a) = Identity(b) => a = b
      /\ OvertakenRun(ingest[i], store)
  BY CommitFacts DEF Rows, Committing, Ingested, Overtaken
<1>1. n.born # commits
  BY <1>0 DEF Row, Identity
<1>2. PICK s \in store[k] :
         /\ Identity(n) = Identity(s)
         /\ \/ n = s
            \/ \E u \in w.updates : /\ Identity(u.row) = Identity(s)
                                    /\ n = NetChange(s, u.row, u.to)
  BY <1>1, CommittedRow
<1>3. s = r
  BY <1>0, <1>2
<1>4. PICK u \in w.updates : /\ Identity(u.row) = Identity(r)
                             /\ n = NetChange(r, u.row, u.to)
  BY <1>2, <1>3
<1>5. Sound(k, u, commits) /\ Aged(u.row, r)
  BY <1>0, CommitFacts DEF Writes, OvertakenRun
<1>6. \A f \in RowFields : n[f] = IF u.to[f] # u.row[f] THEN u.to[f] ELSE r[f]
  BY <1>0, <1>4, <1>5, Netted
<1>7. /\ n.embedding = IF u.to.embedding # u.row.embedding THEN u.to.embedding
                       ELSE r.embedding
      /\ n.text = IF u.to.text # u.row.text THEN u.to.text ELSE r.text
      /\ n.content = IF u.to.content # u.row.content THEN u.to.content ELSE r.content
  BY <1>6 DEF RowFields
<1>8. /\ Embeddable(r) = Embeddable(u.row)
      /\ r.active => u.row.active
  BY <1>4, <1>5 DEF Aged
<1>9. ~u.row.active \/ Embeddable(u.to) # Embeddable(u.row)
  BY <1>5, <1>7 DEF Sound
<1>10. Embeddable(n) = Embeddable(u.to)
  BY <1>7, <1>8 DEF Embeddable
<1> QED
  BY <1>8, <1>9, <1>10

\* Nor does any other step.
LEMMA StepLosesNone ==
    ASSUME Ingested, [Next]_vars
    PROVE  Kept
<1>0. \A k \in Kinds : \A r, s \in store[k] : Identity(r) = Identity(s) => r = s
  BY DEF Ingested, Rows
<1>1. CASE store' = store
  BY <1>0, <1>1 DEF Kept
<1>2. CASE \E i \in Ingesters : CommitIngest(i)
  BY <1>2, CommitLosesNone DEF Committing
<1>3. CASE EmbedRows
  <2> SUFFICES ASSUME NEW k \in Kinds, NEW r \in store[k], NEW n \in store'[k],
                      Identity(r) = Identity(n), r.embedding # None, n.embedding = None
               PROVE  FALSE
    BY DEF Kept
  <2>1. PICK s \in store[k] :
           /\ n.key = s.key /\ n.born = s.born
           /\ n = s \/ n = Embedded(s)
    BY <1>3, EmbedRowsFacts
  <2>2. s = r
    BY <1>0, <2>1 DEF Identity
  <2> QED
    BY <2>1, <2>2 DEF Embedded
<1>4. \A i \in Ingesters :
         /\ LoadFile(i) \/ IngestFails(i) => store' = store
         /\ IngestWork(i) => CommitIngest(i) \/ store' = store
  BY DEF LoadFile, IngestFails, IngestWork, ReadTables, ReadColumns, ReadKeys,
         LoadRows, FlushRows
<1> QED
  BY <1>1, <1>2, <1>3, <1>4, IngestSteps

\* No ingestion, however it overlaps with others, forgets the embedding of a
\* row that did not change and had not been dropped: what an update knows of
\* the row may be old, but what the row has become since gives it away.
THEOREM NoEmbeddingForgotten == Spec => EmbeddingsKept
<1>1. Ingested /\ [Next]_vars => [Kept]_ingestVars
  BY StepLosesNone
<1> QED
  BY <1>1, AlwaysIngested, PTL DEF Spec, EmbeddingsKept, Kept
=============================================================================
