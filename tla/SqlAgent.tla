------------------------------ MODULE SqlAgent ------------------------------
(***************************************************************************)
(* The SQL builder agent: a question is turned into a query by a series of *)
(* calls to language models (src/app/sql_agent/pipeline.py).  A query is   *)
(* answered only if the guard accepts it against the allowlist the process *)
(* loaded, the target database plans it, and the critic approves it; else  *)
(* it is repaired, within a budget.  The allowlist is a file generated by  *)
(* hand from the target database (gen_allowlist.py), which a process reads *)
(* once; the control database is filled by the ingestions of Ingestion.    *)
(*                                                                         *)
(* A model may answer anything that has the form asked of it.              *)
(***************************************************************************)
EXTENDS Ingestion, SqlGuard

CONSTANTS
    Requests,            \* questions asked of the process
    Queries,             \* the queries a model writes
    MaxRepairs,          \* sql_agent_max_repair_attempts
    ExplainValidation,   \* sql_agent_explain_validation
    Budgets              \* bounds: how often each kind of outside event may
                         \* happen, which worlds are met, and how many
                         \* ingestions may run together

ASSUME MaxRepairsAssumption == MaxRepairs \in Nat
ASSUME ExplainAssumption == ExplainValidation \in BOOLEAN
ASSUME QueriesAssumption ==
    \A q \in Queries : /\ q = [part \in QueryParts |-> q[part]]
                       /\ q.statements \in Nat
                       /\ q.tables \in Seq(ToSet(q.tables))

VARIABLES
    snapshot,    \* the allowlist file of the workspace
    generator,   \* the generation of the file under way
    catalog,     \* the allowlist the process has cached
    request,     \* the questions
    budget       \* what may still happen

agentVars == <<snapshot, generator, catalog, request, budget>>
vars == <<ingestVars, agentVars>>

NoGenerator == [pc |-> "idle", names |-> {}]

\* "allow" is the catalog the request works with; "repairs" is what the code
\* counts.  The rest is what happened: the models asked to repair, the query
\* the database last planned with the schema it had, and the query the critic
\* last approved.
Unasked ==
    [pc |-> "unasked", allow |-> None, sql |-> None, guarded |-> None,
     repairs |-> 0, asked |-> 0, explained |-> None, schema |-> None,
     approved |-> None, answer |-> None, audits |-> 0]

Asking ==
    {"unasked", "load", "enhance", "ambiguity", "select", "prune", "generate",
     "vote", "critic", "check", "review", "repair", "ended"}

Allowlist(names, schema) ==
    [t \in names |-> DOMAIN ColumnsOf(schema, t)]

AgentInit ==
    /\ snapshot = Allowlist(DOMAIN world.schema, world.schema)
    /\ generator = NoGenerator
    /\ catalog = None
    /\ request = [r \in Requests |-> Unasked]
    /\ budget \in Budgets
    /\ world \in budget.worlds

Init == IngestInit /\ AgentInit

Spend(what) ==
    /\ budget[what] > 0
    /\ budget' = [budget EXCEPT ![what] = @ - 1]

-----------------------------------------------------------------------------
(* The allowlist file and the process that caches it.                      *)

GenerateReads ==
    /\ Spend("generate")
    /\ generator.pc = "idle"
    /\ generator' = [pc |-> "tables", names |-> DOMAIN world.schema]
    /\ UNCHANGED <<ingestVars, snapshot, catalog, request>>

\* An answer without tables is refused; a table dropped since the first query
\* is written without columns.
GenerateWrites ==
    /\ generator.pc = "tables"
    /\ generator' = NoGenerator
    /\ snapshot' = IF generator.names = {} THEN snapshot
                   ELSE Allowlist(generator.names, world.schema)
    /\ UNCHANGED <<ingestVars, catalog, request, budget>>

\* A new process: what was cached and what was asked is gone.
Restart ==
    /\ Spend("restart")
    /\ catalog' = None
    /\ request' = [r \in Requests |->
           IF request[r].pc \in {"unasked", "ended"} THEN request[r]
           ELSE [request[r] EXCEPT !.pc = "ended", !.answer = [status |-> "lost"]]]
    /\ UNCHANGED <<ingestVars, snapshot, generator>>

-----------------------------------------------------------------------------
(* One question.                                                           *)

Set(r, new) ==
    /\ request' = [request EXCEPT ![r] = new]
    /\ UNCHANGED <<ingestVars, snapshot, generator, catalog, budget>>

Goto(r, pc) == Set(r, [request[r] EXCEPT !.pc = pc])

\* Every answer but that on an unknown workspace is audited with its repairs.
Answered(r, answer, audits) ==
    [request[r] EXCEPT !.pc = "ended", !.answer = answer, !.audits = @ + audits]

Told(r, status) == [status |-> status, repairs |-> request[r].repairs]

Answer(r, status) == Set(r, Answered(r, Told(r, status), 1))

\* A model that fails or answers in no valid form, a connection that breaks:
\* the caller is answered by an error handler, and nothing is audited.
Raises(r) == Set(r, Answered(r, Told(r, "error"), 0))

Ask(r) ==
    /\ request[r].pc = "unasked"
    /\ Spend("ask")
    /\ \E known \in BOOLEAN :
          request' = [request EXCEPT ![r] =
              IF known THEN [@ EXCEPT !.pc = "load"]
              ELSE Answered(r, Told(r, "clarify_needed"), 0)]
    /\ UNCHANGED <<ingestVars, snapshot, generator, catalog>>

\* The file is read if none is cached, and not cached if it cannot be trusted.
LoadCatalog(r) ==
    /\ request[r].pc = "load"
    /\ LET loaded == IF catalog # None THEN catalog ELSE snapshot
       IN  IF \E t \in DOMAIN loaded : loaded[t] = {}
           THEN Raises(r)
           ELSE /\ catalog' = loaded
                /\ request' = [request EXCEPT ![r].pc = "enhance",
                                              ![r].allow = loaded]
                /\ UNCHANGED <<ingestVars, snapshot, generator, budget>>

Enhance(r) ==
    /\ request[r].pc = "enhance"
    /\ Goto(r, "ambiguity") \/ Answer(r, "blocked")

CheckAmbiguity(r) ==
    /\ request[r].pc = "ambiguity"
    /\ Goto(r, "select") \/ Answer(r, "clarify_needed")

\* Of the tables the model names, those on the allowlist are selected.
SelectTables(r) ==
    /\ request[r].pc = "select"
    /\ \/ DOMAIN request[r].allow # {} /\ Goto(r, "prune")
       \/ Answer(r, "clarify_needed")

\* The columns are pruned for the prompt only: no check depends on them.
PruneColumns(r) ==
    /\ request[r].pc = "prune"
    /\ Goto(r, "generate")

Generate(r) ==
    /\ request[r].pc = "generate"
    /\ \E q \in Queries, pc \in {"critic", "vote"} :
          Set(r, [request[r] EXCEPT !.sql = q, !.pc = pc])

\* More candidates, and a vote: the first stands if the vote names none.
Vote(r) ==
    /\ request[r].pc = "vote"
    /\ \E q \in Queries \cup {request[r].sql} :
          Set(r, [request[r] EXCEPT !.sql = q, !.pc = "critic"])

\* Mutant: the last repair is not counted.
RejectLate(r, sql) ==
    IF request[r].repairs > MaxRepairs
    THEN Answer(r, "repair_exhausted")
    ELSE Set(r, [request[r] EXCEPT !.pc = "repair", !.sql = sql,
                                   !.repairs = @ + 1])

\* A query that is not accepted is repaired while the budget lasts.
Reject(r, sql) ==
    IF request[r].repairs >= MaxRepairs
    THEN Answer(r, "repair_exhausted")
    ELSE Set(r, [request[r] EXCEPT !.pc = "repair", !.sql = sql,
                                   !.repairs = @ + 1])

\* The first opinion, on the query as it was generated.
Criticise(r) ==
    /\ request[r].pc = "critic"
    /\ \/ Set(r, [request[r] EXCEPT !.pc = "check", !.approved = request[r].sql])
       \/ Reject(r, request[r].sql)

\* The database can plan only what its schema has now, under the names of the
\* scope; what it has in other schemas is not said.
Plannable(q) ==
    LET known   == Allowlist(DOMAIN world.schema, world.schema)
        Other(t) == ~BoundToWith(q, t) /\ SchemaOf(t) # DefaultSchema
    IN  /\ \A t \in ToSet(q.tables) : Other(t) \/ TableKnown(q, known, t)
        /\ \A c \in q.columns :
              ColumnKnown(q, known, c) \/ \E t \in Visible(q, c) : Other(t)

\* The guard, then EXPLAIN, which may also refuse the query for its types, its
\* time or a connection it cannot get, or lose its connection.
Check(r) ==
    LET guard == GuardSql(request[r].sql, request[r].allow)
    IN  /\ request[r].pc = "check"
        /\ \/ ~guard.ok /\ Reject(r, request[r].sql)
           \/ /\ guard.ok
              /\ ExplainValidation
              /\ Reject(r, request[r].sql) \/ Raises(r)
           \/ /\ guard.ok
              /\ ExplainValidation => Plannable(guard.sql)
              /\ Set(r, [request[r] EXCEPT
                            !.pc = "review",
                            !.guarded = guard,
                            !.explained = IF ExplainValidation THEN guard.sql
                                          ELSE None,
                            !.schema = world.schema])

Built(r, sql, tables) ==
    Answered(r, [status |-> "built", repairs |-> request[r].repairs,
                 sql |-> sql, tables |-> tables], 1)

\* Mutant: the answer holds the query as the model wrote it.
ReviewAsWritten(r) ==
    LET guard == request[r].guarded
    IN  /\ request[r].pc = "review"
        /\ \/ Reject(r, guard.sql)
           \/ Set(r, [Built(r, request[r].sql, guard.tables) EXCEPT !.approved = guard.sql])

\* The final opinion, on the query as the guard left it.
Review(r) ==
    LET guard == request[r].guarded
    IN  /\ request[r].pc = "review"
        /\ \/ Reject(r, guard.sql)
           \/ Set(r, [Built(r, guard.sql, guard.tables) EXCEPT !.approved = guard.sql])

\* Mutant: a repair is handed to the critic again, and its count given back.
RepairForCritic(r) ==
    /\ request[r].pc = "repair"
    /\ Set(r, [request[r] EXCEPT !.pc = "critic", !.repairs = @ - 1])

Repair(r) ==
    /\ request[r].pc = "repair"
    /\ \E q \in Queries :
          Set(r, [request[r] EXCEPT !.sql = q, !.pc = "check",
                                    !.asked = @ + 1])

ModelFails(r) ==
    /\ request[r].pc \in {"enhance", "ambiguity", "select", "prune", "generate",
                          "vote", "critic", "review", "repair"}
    /\ Raises(r)

RequestStep(r) ==
    \/ LoadCatalog(r) \/ Enhance(r) \/ CheckAmbiguity(r) \/ SelectTables(r)
    \/ PruneColumns(r) \/ Generate(r) \/ Vote(r) \/ Criticise(r) \/ Check(r)
    \/ Review(r) \/ Repair(r) \/ ModelFails(r)

-----------------------------------------------------------------------------
Outside ==
    \/ /\ Spend("change") /\ WorldChanges /\ world' \in budget.worlds
       /\ UNCHANGED <<snapshot, generator, catalog, request>>
    \/ /\ Spend("ingest")
       /\ Cardinality({i \in Ingesters : ingest[i].pc # "idle"}) < budget.together
       /\ \E i \in Ingesters : LoadFile(i)
       /\ UNCHANGED <<snapshot, generator, catalog, request>>
    \/ /\ Spend("fail")
       /\ \E i \in Ingesters : IngestFails(i)
       /\ UNCHANGED <<snapshot, generator, catalog, request>>
    \/ /\ Spend("embed") /\ EmbedRows
       /\ UNCHANGED <<snapshot, generator, catalog, request>>
    \/ GenerateReads \/ GenerateWrites \/ Restart
    \/ \E r \in Requests : Ask(r)

ControlStep ==
    /\ \E i \in Ingesters : IngestWork(i)
    /\ UNCHANGED agentVars

Next == Outside \/ ControlStep \/ \E r \in Requests : RequestStep(r)

\* A coroutine that has an answer of a model or of the database goes on; calls
\* to them end, by an answer or by the provider's error or the timeout of the
\* statement.
Fairness == \A r \in Requests : WF_vars(RequestStep(r))

Spec == Init /\ [][Next]_vars /\ Fairness

-----------------------------------------------------------------------------
(* Properties.                                                             *)

TypeOK ==
    /\ world \in Worlds
    /\ DOMAIN store = Kinds
    /\ \A k \in Kinds : \A r \in store[k] : r.born < commits /\ r.active \in BOOLEAN
    /\ \A k \in {"workspace", "table", "column"} :
          \A r, s \in store[k] : r.key = s.key => r = s
    /\ \A i \in Ingesters :
          /\ ingest[i].pc \in {"idle", "file", "tables", "columns", "begun", "loaded"}
          /\ ingest[i].phase \in 1 .. Len(Phases) + 1
    /\ \A r \in Requests :
          /\ request[r].pc \in Asking
          /\ request[r].repairs \in 0 .. MaxRepairs
          /\ request[r].answer # None => request[r].pc = "ended"

\* An answer "built" holds exactly the text the guard made of a query of the
\* model, the text that the critic approved last and, when EXPLAIN is on, the
\* text the database planned, on tables it had then.
BuiltAsChecked ==
    \A r \in Requests :
        LET q == request[r]
        IN  q.answer # None /\ q.answer.status = "built" =>
                /\ \E written \in Queries :
                      LET guard == GuardSql(written, q.allow)
                      IN  /\ guard.ok
                          /\ q.answer.sql = guard.sql
                          /\ q.answer.tables = guard.tables
                /\ q.approved = q.answer.sql
                /\ ExplainValidation => /\ q.explained = q.answer.sql
                                        /\ q.answer.tables \subseteq DOMAIN q.schema

\* What is answered is one bounded read, and a later guard would leave it as it
\* is ("validated").  If no table has the name of a WITH clause or a subquery it
\* is no reference to, every table it reads is on the allowlist.
BuiltBounded ==
    \A r \in Requests :
        LET q == request[r]
        IN  q.answer # None /\ q.answer.status = "built" =>
                /\ BoundedRead(q.answer.sql)
                /\ TableNamesApart(q.answer.sql) =>
                      \A t \in ToSet(q.answer.sql.tables) :
                          TableKnown(q.answer.sql, q.allow, t)
                /\ GuardSql(q.answer.sql, q.allow).ok
                /\ GuardSql(q.answer.sql, q.allow).sql = q.answer.sql

\* A column of it that only base tables in its scope could be meant by is of
\* one table the database would look it up in: whatever stands for which name
\* in which order, the allowlist gives it to that table and to no other.
BuiltOwned ==
    \A r \in Requests :
        LET q == request[r]
        IN  q.answer # None /\ q.answer.status = "built" =>
                \A c \in q.answer.sql.columns :
                    ColumnNameApart(q.answer.sql, c) =>
                        Cardinality(Owners(q.answer.sql, q.allow, c)) = 1

\* Whatever names it gives itself, every table it reads and every column, in
\* its scope, is on the allowlist ("every table/column reference must exist in
\* the Kalaam allowlist").
ReferencesAllowed ==
    \A r \in Requests :
        LET q == request[r]
        IN  q.answer # None /\ q.answer.status = "built" =>
                /\ \A t \in ToSet(q.answer.sql.tables) :
                      TableKnown(q.answer.sql, q.allow, t)
                /\ \A c \in q.answer.sql.columns :
                      ColumnKnown(q.answer.sql, q.allow, c)

\* No question costs more repairs than the budget, whatever the order in which
\* the critic, the guard and the database refuse, and the audit of an answer
\* says how many there were: one audit, or none if an error was raised.
RepairsAudited ==
    \A r \in Requests :
        LET q == request[r]
        IN  /\ q.asked <= MaxRepairs
            /\ q.audits <= 1
            /\ q.pc = "ended" /\ q.audits = 1 => q.answer.repairs = q.asked

\* How many steps a question may take until it ends.
Stage ==
    [unasked |-> 11, load |-> 10, enhance |-> 9, ambiguity |-> 8, select |-> 7,
     prune |-> 6, generate |-> 5, vote |-> 4, critic |-> 3, repair |-> 3,
     check |-> 2, review |-> 1]
StepsLeft(q) ==
    IF q.pc = "ended" THEN 0 ELSE 3 * (MaxRepairs - q.repairs) + Stage[q.pc]

\* Every step of a question brings it nearer to its end: whoever refuses its
\* query, and however often models and database fail, it is never sent back
\* to a step of the pipeline without paying for it.
QuestionsAdvance ==
    [][\A r \in Requests :
          request'[r] # request[r] =>
              StepsLeft(request'[r]) \in 0 .. StepsLeft(request[r]) - 1]_vars

\* Every question is answered: no sequence of refusals keeps it in the loop.
QuestionsEnd ==
    \A r \in Requests : request[r].pc = "load" ~> request[r].pc = "ended"
=============================================================================
