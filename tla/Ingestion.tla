------------------------------ MODULE Ingestion ------------------------------
(***************************************************************************)
(* The ingestion of a workspace of the SQL agent: the structure of the     *)
(* target database, read by introspection, and the meaning a workspace     *)
(* file gives it are merged into the rows of the control database, in one  *)
(* transaction (src/app/sql_agent/ingestion).  Ingestions are started by   *)
(* hand and nothing keeps two of them apart.                               *)
(*                                                                         *)
(* A content hash is the content it is computed from.  A row written back  *)
(* by the session changes only in the fields that differ from the row the  *)
(* session loaded, which matters when two transactions overlap.            *)
(***************************************************************************)
EXTENDS Naturals, Sequences, FiniteSets

CONSTANTS
    Worlds,      \* the target databases and workspace files met in time
    Ingesters,   \* operators who run the ingestion
    None         \* a null

VARIABLES
    world,       \* the target database and the workspace file now
    store,       \* the committed rows of the control database, by kind
    ingest,      \* the ingestion each operator has under way
    commits,     \* commits so far: the generation of the rows they insert
    raced,       \* have two transactions ever overlapped?
    mirrored     \* what the last commit meant to store, and if it ran alone

ingestVars == <<world, store, ingest, commits, raced, mirrored>>

-----------------------------------------------------------------------------
(* The rows.                                                               *)

\* The order in which one transaction synchronises the kinds of row.
Phases == <<"workspace", "table", "column", "edge", "term", "example">>

\* Mutant: the unique constraints of the migration are missing.
UniqueKindsFewer == {}

\* Kinds whose identity the schema of the control database keeps unique.
UniqueKinds == {"workspace", "table", "column"}

\* Kinds with an embedding, which a later step fills where it is null.
EmbeddedKinds == {"table", "term", "example"}

Kinds == {Phases[p] : p \in 1 .. Len(Phases)}

Wanted(key, text, content) == [key |-> key, text |-> text, content |-> content]

Identity(row) == <<row.key, row.born>>

Inserted(want, generation) ==
    [key |-> want.key, born |-> generation, text |-> want.text,
     content |-> want.content, active |-> TRUE, embedding |-> None]

\* What an embedding is computed from.
Embeddable(row) == <<row.text, row.content>>

NoWrites == [inserts |-> {}, updates |-> {}, deletes |-> {}]

NoIngest ==
    [pc |-> "idle", spec |-> None, names |-> {}, columns |-> <<>>, fks |-> {},
     phase |-> 1, loaded |-> {}, writes |-> [k \in Kinds |-> NoWrites],
     alone |-> TRUE]

IngestInit ==
    /\ world \in Worlds
    /\ store = [k \in Kinds |-> {}]
    /\ ingest = [i \in Ingesters |-> NoIngest]
    /\ commits = 0
    /\ raced = FALSE
    /\ mirrored = None

-----------------------------------------------------------------------------
(* What an ingestion wants to store, from what it has read.                *)

ColumnContent(run, t, c) ==
    <<run.columns[t][c], \E e \in run.fks : e[1] = <<t, c>> >>

WantedTables(run) ==
    {Wanted(t, run.spec.notes[t],
            <<run.spec.notes[t],
              [c \in DOMAIN run.columns[t] |-> ColumnContent(run, t, c)]>>) :
        t \in run.names}

WantedColumns(run) ==
    UNION {{Wanted(<<t, c>>, None, ColumnContent(run, t, c)) :
               c \in DOMAIN run.columns[t]} : t \in run.names}

\* A hint makes an edge only when both its ends are columns that were read.
Concrete(run, end) ==
    end[1] \in run.names /\ end[2] \in DOMAIN run.columns[end[1]]

\* A constraint of the database outranks a hint for the same edge.
WantedEdges(run) ==
    LET keys  == {e \in run.fks : e[1][1] \in run.names /\ e[2][1] \in run.names}
        hints == {e \in DOMAIN run.spec.hints :
                      Concrete(run, e[1]) /\ Concrete(run, e[2])}
    IN  {Wanted(e, None, "fk_auto") : e \in keys}
            \cup {Wanted(e, run.spec.hints[e], "manual") : e \in hints \ keys}

Resolved(name, names) == IF name \in names THEN name ELSE None

WantedTerms(run) ==
    {Wanted(g, run.spec.glossary[g].definition,
            Resolved(run.spec.glossary[g].maps, run.names)) :
        g \in DOMAIN run.spec.glossary}

WantedExamples(run) ==
    {Wanted(q, None, run.spec.examples[q]) :
        q \in DOMAIN run.spec.examples}

\* The workspace and its data source, one row that is created once.
Desired(run) ==
    [workspace |-> {Wanted("slug", None, None)},
     table     |-> WantedTables(run),
     column    |-> WantedColumns(run),
     edge      |-> WantedEdges(run),
     term      |-> WantedTerms(run),
     example   |-> WantedExamples(run)]

-----------------------------------------------------------------------------
(* The change detection.                                                   *)

\* The hashed content of a stored row: the hash of a table is stored; a term
\* counts the table it maps to by name, among the tables that are live.
Hashed(kind, row, names) ==
    IF kind = "term" THEN <<row.text, Resolved(row.content, names)>>
    ELSE IF kind = "edge" THEN <<row.text, row.content>>
    ELSE row.content

FreshHash(kind, want) ==
    IF kind \in {"term", "edge"} THEN <<want.text, want.content>>
    ELSE want.content

Created(existing, wants) ==
    {w \in wants : \A r \in existing : r.key # w.key}

\* Mutant: a table that comes back with the content it had is unchanged.
SameContent(kind, row, want, names) ==
    Hashed(kind, row, names) = FreshHash(kind, want)

Same(kind, row, want, names) ==
    row.active /\ Hashed(kind, row, names) = FreshHash(kind, want)

\* Mutant: every row that is still wanted is written again.
UpdatedAlways(kind, existing, wants, names) ==
    {rw \in existing \X wants : rw[1].key = rw[2].key}

Updated(kind, existing, wants, names) ==
    {rw \in existing \X wants :
        rw[1].key = rw[2].key /\ ~Same(kind, rw[1], rw[2], names)}

Removed(existing, wants) ==
    {r \in existing : r.active /\ \A w \in wants : w.key # r.key}

\* Mutant: the embedding of the old content survives the update.
RefreshedKept(row, want) ==
    [row EXCEPT !.text = want.text, !.content = want.content, !.active = TRUE]

\* The row as the session writes it for what it wants now.
Refreshed(row, want) ==
    [row EXCEPT !.text = want.text, !.content = want.content,
                !.active = TRUE, !.embedding = None]

\* A write sets the fields that differ from the loaded row, and no others.
NetChange(row, loaded, to) ==
    [f \in DOMAIN row |-> IF to[f] # loaded[f] THEN to[f] ELSE row[f]]

-----------------------------------------------------------------------------
(* Reading: the workspace file, then three queries, each of which sees the *)
(* database of its own moment.                                             *)

LoadFile(i) ==
    /\ ingest[i].pc = "idle"
    /\ ingest' = [ingest EXCEPT ![i] = [NoIngest EXCEPT !.pc = "file",
                                                        !.spec = world.spec]]
    /\ UNCHANGED <<world, store, commits, raced, mirrored>>

ReadTables(i) ==
    /\ ingest[i].pc = "file"
    /\ ingest' = [ingest EXCEPT ![i].pc = "tables",
                                ![i].names = DOMAIN world.schema]
    /\ UNCHANGED <<world, store, commits, raced, mirrored>>

ColumnsOf(schema, t) == IF t \in DOMAIN schema THEN schema[t] ELSE <<>>

ReadColumns(i) ==
    /\ ingest[i].pc = "tables"
    /\ ingest' = [ingest EXCEPT
           ![i].pc = "columns",
           ![i].columns = [t \in ingest[i].names |-> ColumnsOf(world.schema, t)]]
    /\ UNCHANGED <<world, store, commits, raced, mirrored>>

InTransaction(i) == ingest[i].pc \in {"begun", "loaded"}

\* The last query, the merge in memory, and the start of the transaction.
ReadKeys(i) ==
    LET others == {j \in Ingesters \ {i} : InTransaction(j)}
    IN  /\ ingest[i].pc = "columns"
        /\ ingest' = [j \in Ingesters |->
               IF j = i THEN [ingest[i] EXCEPT !.pc = "begun",
                                               !.fks = world.fks,
                                               !.alone = others = {}]
               ELSE IF j \in others THEN [ingest[j] EXCEPT !.alone = FALSE]
               ELSE ingest[j]]
        /\ raced' = (raced \/ others # {})
        /\ UNCHANGED <<world, store, commits, mirrored>>

-----------------------------------------------------------------------------
(* Synchronising one kind of row after the other.                          *)

Kind(run) == Phases[run.phase]

\* The rows a phase loads: the columns of the live tables, else the whole kind.
Loads(run) ==
    {r \in store[Kind(run)] : Kind(run) = "column" => r.key[1] \in run.names}

LoadRows(i) ==
    /\ ingest[i].pc = "begun"
    /\ ingest[i].phase <= Len(Phases)
    /\ ingest' = [ingest EXCEPT ![i].pc = "loaded",
                                ![i].loaded = Loads(ingest[i])]
    /\ UNCHANGED <<world, store, commits, raced, mirrored>>

\* One row for each key, as a dictionary filled in the order of the answer.
OnePerKey(rows) ==
    {keep \in SUBSET rows :
        /\ \A r \in rows : \E k \in keep : k.key = r.key
        /\ \A k, l \in keep : k.key = l.key => k = l}

\* Mutant: of the edges stored twice, both stay.
DeletedNoCopy(run, keep, wants) ==
    IF Kind(run) \in {"edge", "column", "term"} THEN Removed(keep, wants) ELSE {}

\* Rows the phase deletes: of a table the flag is cleared instead, examples
\* stay, and of the edges stored twice only one is kept.
Deleted(run, keep, wants) ==
    CASE Kind(run) = "edge" -> Removed(keep, wants) \cup (run.loaded \ keep)
      [] Kind(run) \in {"column", "term"} -> Removed(keep, wants)
      [] OTHER -> {}

Rewritten(run, keep, wants) ==
    {[row |-> u[1], to |-> Refreshed(u[1], u[2])] :
        u \in Updated(Kind(run), keep, wants, run.names)}
    \cup {[row |-> r, to |-> [r EXCEPT !.active = FALSE]] :
              r \in IF Kind(run) = "table" THEN Removed(keep, wants) ELSE {}}

FlushOf(run, keep) ==
    LET wants == Desired(run)[Kind(run)]
    IN  [inserts |-> Created(keep, wants),
         updates |-> Rewritten(run, keep, wants),
         deletes |-> {Identity(r) : r \in Deleted(run, keep, wants)}]

\* What a transaction has locked until it ends.
LockedRows(writes) == {Identity(u.row) : u \in writes.updates} \cup writes.deletes
LockedKeys(kind, writes) ==
    IF kind \in UniqueKinds THEN {w.key : w \in writes.inserts} ELSE {}

\* A key another transaction has inserted since, or a row one has deleted.
Conflicts(kind, writes) ==
    \/ LockedKeys(kind, writes) \cap {r.key : r \in store[kind]} # {}
    \/ \E u \in writes.updates :
          \A r \in store[kind] : Identity(r) # Identity(u.row)

\* The flush of a phase waits for the locks of the others; a conflict is an
\* error, which rolls the transaction back.
FlushRows(i) ==
    LET kind == Kind(ingest[i])
    IN  /\ ingest[i].pc = "loaded"
        /\ \E keep \in OnePerKey(ingest[i].loaded) :
              LET writes == FlushOf(ingest[i], keep)
              IN  /\ \A j \in Ingesters \ {i} :
                        LET theirs == ingest[j].writes[kind]
                        IN  /\ LockedRows(writes) \cap LockedRows(theirs) = {}
                            /\ LockedKeys(kind, writes)
                                  \cap LockedKeys(kind, theirs) = {}
                  /\ ingest' = [ingest EXCEPT ![i] =
                         IF Conflicts(kind, writes) THEN NoIngest
                         ELSE [ingest[i] EXCEPT !.pc = "begun",
                                                !.loaded = {},
                                                !.phase = @ + 1,
                                                !.writes[kind] = writes]]
        /\ UNCHANGED <<world, store, commits, raced, mirrored>>

Written(row, updates) ==
    IF \E u \in updates : Identity(u.row) = Identity(row)
    THEN LET u == CHOOSE v \in updates : Identity(v.row) = Identity(row)
         IN  NetChange(row, u.row, u.to)
    ELSE row

Applied(rows, writes) ==
    {Written(r, writes.updates) :
        r \in {s \in rows : Identity(s) \notin writes.deletes}}
    \cup {Inserted(w, commits) : w \in writes.inserts}

CommitIngest(i) ==
    LET run == ingest[i]
    IN  /\ run.pc = "begun"
        /\ run.phase > Len(Phases)
        /\ store' = [k \in Kinds |-> Applied(store[k], run.writes[k])]
        /\ commits' = commits + 1
        /\ mirrored' = [want |-> Desired(run), names |-> run.names,
                        alone |-> run.alone]
        /\ ingest' = [ingest EXCEPT ![i] = NoIngest]
        /\ UNCHANGED <<world, raced>>

\* Any failure, or the death of the process: the transaction leaves nothing.
IngestFails(i) ==
    /\ ingest[i].pc # "idle"
    /\ ingest' = [ingest EXCEPT ![i] = NoIngest]
    /\ UNCHANGED <<world, store, commits, raced, mirrored>>

-----------------------------------------------------------------------------
(* Around the ingestion.                                                   *)

\* The later step: it embeds the rows whose embedding is null.
EmbedRows ==
    /\ \A i \in Ingesters : ingest[i].pc = "idle"
    /\ store' = [k \in Kinds |->
           IF k \in EmbeddedKinds
           THEN {IF r.embedding = None
                 THEN [r EXCEPT !.embedding = Embeddable(r)] ELSE r : r \in store[k]}
           ELSE store[k]]
    /\ store' # store
    /\ UNCHANGED <<world, ingest, commits, raced, mirrored>>

WorldChanges ==
    /\ world' \in Worlds \ {world}
    /\ UNCHANGED <<store, ingest, commits, raced, mirrored>>

IngestWork(i) ==
    \/ ReadTables(i) \/ ReadColumns(i) \/ ReadKeys(i)
    \/ LoadRows(i) \/ FlushRows(i) \/ CommitIngest(i)

-----------------------------------------------------------------------------
(* Properties.                                                             *)

LiveTables == {r \in store["table"] : r.active}

\* One row for each wanted key, with its text and content, and no other row.
Mirrors(rows, wants) ==
    /\ \A r, s \in rows : r.key = s.key => r = s
    /\ \A r \in rows : \E w \in wants :
          r.key = w.key /\ r.text = w.text /\ r.content = w.content
    /\ \A w \in wants : \E r \in rows : r.key = w.key

\* After an ingestion that no other overlapped, the live tables, their
\* columns and the edges are exactly those it read, whatever overlapping
\* ingestions left before it: a table that is gone is inactive and one that
\* came back is active, a column that is gone is deleted (a row kept would
\* let a query name it) and an edge stored twice is stored once.
StructureHeals ==
    mirrored # None /\ mirrored.alone =>
        /\ {r.key : r \in LiveTables} = mirrored.names
        /\ Mirrors({r \in store["column"] : r.key[1] \in mirrored.names},
                   mirrored.want["column"])
        /\ Mirrors(store["edge"], mirrored.want["edge"])

\* While no two ingestions have overlapped, the rows say what the last one
\* read: the descriptions and hashes of the tables, the terms of the
\* glossary, each defined once, and every example of the file.
StoreMirrors ==
    mirrored # None /\ ~raced =>
        /\ Mirrors(LiveTables, mirrored.want["table"])
        /\ Mirrors({[r EXCEPT !.content = Resolved(@, mirrored.names)] :
                       r \in store["term"]}, mirrored.want["term"])
        /\ \A w \in mirrored.want["example"] : \E r \in store["example"] :
              r.key = w.key /\ r.content = w.content

\* An embedding is always that of the text and content the row has now, so
\* the rows whose embedding is null are the ones left to embed ("exactly the
\* set of new-or-changed rows").
EmbeddingsFresh ==
    ~raced => \A k \in Kinds : \A r \in store[k] : r.embedding \in {None, Embeddable(r)}

\* No ingestion forgets the embedding of a row that did not change, or that
\* had not been dropped: an unchanged workspace costs no embedding call.
EmbeddingsKept ==
    [][\A k \in Kinds : \A r \in store[k], n \in store'[k] :
          Identity(r) = Identity(n) /\ r.embedding # None /\ n.embedding = None
              => Embeddable(r) # Embeddable(n) \/ ~r.active]_ingestVars
=============================================================================
