------------------------------ MODULE SqlGuard ------------------------------
(***************************************************************************)
(* The static guard every generated query passes before anything else is   *)
(* asked of it (src/app/sql_agent/validation/sql_guard.py): one SELECT,    *)
(* nothing written, every table and column on the allowlist of the         *)
(* workspace, and a row limit.  What is left of a query after parsing:     *)
(*                                                                         *)
(*   statements  how many statements the text holds; 0 if it does not parse*)
(*   select      the statement is a SELECT, or a WITH that ends in one     *)
(*   writes      it holds a write, or a call of a forbidden function       *)
(*   limit       no limit, an integer literal, or another expression       *)
(*   tables      its table references in order: the SELECT whose FROM has  *)
(*               it, the schema if one is written, the name and the alias  *)
(*   named       its WITH clauses and then its named subqueries: the       *)
(*               columns each puts out, and the SELECTs that see it        *)
(*   outputs     the names its SELECT lists give to expressions            *)
(*   columns     its column references: the SELECT they stand in, whether  *)
(*               it is by themselves in an ORDER BY or GROUP BY, the       *)
(*               schema if one is written, the qualifier and the name      *)
(*   scope       the SELECTs whose FROM clauses the columns of a SELECT see*)
(*                                                                         *)
(* The guard looks at no scope: "sees" and "scope" are there to say what a *)
(* name means to the database.                                             *)
(***************************************************************************)
EXTENDS Integers, Sequences, FiniteSets, SequencesExt

CONSTANTS
    DefaultSchema,     \* the schema of the data source
    RowLimit,          \* sql_agent_default_row_limit
    NoLimit,           \* the query has no LIMIT clause
    NoQualifier        \* a table or a column has no schema or qualifier

ASSUME RowLimitAssumption == RowLimit \in Nat \ {0}

QueryParts == {"statements", "select", "writes", "limit", "tables", "named",
               "outputs", "columns", "scope"}

-----------------------------------------------------------------------------
Rejected(code) == [ok |-> FALSE, code |-> code]

\* Mutant: a limit of the query's own is left as it is.
LimitedIfMissing(limit) == IF limit = NoLimit THEN RowLimit ELSE limit

\* A limit that is missing or larger than the default becomes the default.
Limited(limit) ==
    IF limit = NoLimit \/ limit > RowLimit THEN RowLimit ELSE limit

GoodLimit(limit) == limit \in {NoLimit} \cup (Nat \ {0})

-----------------------------------------------------------------------------
(* Which table a name stands for.                                          *)

SchemaOf(ref) == IF ref.schema = NoQualifier THEN DefaultSchema ELSE ref.schema

\* The columns each named part puts out; the last of a name is taken.
Derived(q) ==
    [d \in {q.named[i].name : i \in DOMAIN q.named} |->
        q.named[Max({i \in DOMAIN q.named : q.named[i].name = d})].columns]

OutputNames(q) == {o.name : o \in q.outputs}

\* References to the base tables: one named like a subquery or a WITH clause is
\* not looked up, wherever it stands and whatever its schema.
Physical(q) == {t \in ToSet(q.tables) : t.name \notin DOMAIN Derived(q)}

PhysicalTables(q) == {t.name : t \in Physical(q)}

UnknownTable(q, allow) ==
    \E t \in Physical(q) :
        SchemaOf(t) # DefaultSchema \/ t.name \notin DOMAIN allow

\* The first n references, without those that are not looked up.
Indexed(q, n) == {i \in 1 .. n : q.tables[i].name \notin DOMAIN Derived(q)}

\* What stands for which table after n references: an alias for the table that
\* took it last, and a table's own name for the table unless it was taken.
AliasesAfter(q, n) ==
    LET Taking(a) == {i \in Indexed(q, n) : q.tables[i].alias = a}
    IN  [a \in UNION {{q.tables[i].alias, q.tables[i].name} : i \in Indexed(q, n)} |->
            IF Taking(a) = {} THEN a ELSE q.tables[Max(Taking(a))].name]

Aliases(q) == AliasesAfter(q, Len(q.tables))

TwiceBound(q) ==
    \E n \in Indexed(q, Len(q.tables)) :
        LET before == AliasesAfter(q, n - 1)
            t      == q.tables[n]
        IN  t.alias \in DOMAIN before /\ before[t.alias] # t.name

-----------------------------------------------------------------------------
(* Column references.                                                      *)

Matches(q, allow, c) == {t \in PhysicalTables(q) : c.name \in allow[t]}

DerivedColumn(q, c) == \E d \in DOMAIN Derived(q) : c.name \in Derived(q)[d]

\* A subquery whose columns are not known puts out any column.
QualifiedKnown(q, allow, c) ==
    IF c.qualifier \in DOMAIN Aliases(q)
    THEN c.name \in allow[Aliases(q)[c.qualifier]]
    ELSE /\ c.qualifier \in DOMAIN Derived(q)
         /\ \/ Derived(q)[c.qualifier] = {}
            \/ c.name \in Derived(q)[c.qualifier]

UnknownColumn(q, allow, c) ==
    \/ SchemaOf(c) # DefaultSchema
    \/ c.qualifier # NoQualifier /\ ~QualifiedKnown(q, allow, c)
    \/ /\ c.qualifier = NoQualifier
       /\ c.name \notin OutputNames(q)
       /\ Matches(q, allow, c) = {}
       /\ ~DerivedColumn(q, c)

\* Mutant: two tables are not too many.
CrowdedColumn(q, allow, c) ==
    /\ c.qualifier = NoQualifier
    /\ c.name \notin OutputNames(q)
    /\ Cardinality(Matches(q, allow, c)) > 2

AmbiguousColumn(q, allow, c) ==
    /\ c.qualifier = NoQualifier
    /\ c.name \notin OutputNames(q)
    /\ Cardinality(Matches(q, allow, c)) > 1

-----------------------------------------------------------------------------
(* The guard: the first check that fails names the error.  The checks that *)
(* walk the query stop at its first bad reference; which one is not said.  *)

GuardSql(q, allow) ==
    CASE q.statements = 0 -> Rejected("parse_error")
      [] q.statements > 1 -> Rejected("multi_statement")
      [] ~q.select -> Rejected("non_select")
      [] q.writes -> Rejected("write_operation")
      [] ~GoodLimit(q.limit) -> Rejected("invalid_limit")
      [] UnknownTable(q, allow) \/ TwiceBound(q) -> Rejected("unknown_table")
      [] \E c \in q.columns : UnknownColumn(q, allow, c) ->
             Rejected("unknown_column")
      [] \E c \in q.columns : AmbiguousColumn(q, allow, c) ->
             Rejected("ambiguous_column")
      [] OTHER -> [ok     |-> TRUE,
                   sql    |-> [q EXCEPT !.limit = Limited(@)],
                   tables |-> PhysicalTables(q)]

-----------------------------------------------------------------------------
(* What the names of a query mean to the database: a WITH clause hides the  *)
(* tables of its name from the SELECTs that see it, and a column is looked *)
(* for in the FROM clauses of its scope.                                   *)

BoundToWith(q, t) ==
    /\ t.schema = NoQualifier
    /\ \E i \in DOMAIN q.named :
          /\ q.named[i].with /\ q.named[i].name = t.name
          /\ t.select \in q.named[i].sees

\* "known": the columns of each table of the default schema.
TableKnown(q, known, t) ==
    \/ BoundToWith(q, t)
    \/ SchemaOf(t) = DefaultSchema /\ t.name \in DOMAIN known

Visible(q, c) == {t \in ToSet(q.tables) : t.select \in q.scope[c.select]}

\* A reference is called by its alias, or by its name if no other is.
CalledBy(q, c, t) ==
    \/ c.qualifier \in {NoQualifier, t.alias}
    \/ c.qualifier = t.name /\ \A u \in Visible(q, c) : u.alias # c.qualifier

\* A part whose columns are not known puts out any column.
PutsOut(part, c) == part.columns = {} \/ c.name \in part.columns

\* The base tables in the scope of a column that have it.
Owners(q, known, c) ==
    {t.name : t \in {u \in Visible(q, c) :
        /\ ~BoundToWith(q, u) /\ TableKnown(q, known, u)
        /\ CalledBy(q, c, u)
        /\ c.name \in known[u.name]}}

\* An ORDER BY or GROUP BY may name an expression of its own SELECT.
NamesOutput(q, c) ==
    /\ c.qualifier = NoQualifier /\ c.ordering
    /\ [select |-> c.select, name |-> c.name] \in q.outputs

\* Such a name, a column of a base table, or one that a WITH clause or a
\* subquery of its scope puts out.
ColumnKnown(q, known, c) ==
    \/ NamesOutput(q, c)
    \/ Owners(q, known, c) # {}
    \/ \E t \in Visible(q, c), i \in DOMAIN q.named :
          /\ BoundToWith(q, t) /\ CalledBy(q, c, t)
          /\ q.named[i].with /\ q.named[i].name = t.name
          /\ t.select \in q.named[i].sees
          /\ PutsOut(q.named[i], c)
    \/ \E i \in DOMAIN q.named :
          /\ ~q.named[i].with /\ q.named[i].sees \cap q.scope[c.select] # {}
          /\ c.qualifier \in {NoQualifier, q.named[i].name}
          /\ PutsOut(q.named[i], c)

-----------------------------------------------------------------------------
(* What the guard is there for.                                            *)

\* One read that returns few rows.
BoundedRead(q) ==
    /\ q.statements = 1 /\ q.select /\ ~q.writes
    /\ q.limit \in 1 .. RowLimit

\* Only a reference to a WITH clause has the name of one or of a subquery.
TableNamesApart(q) ==
    \A t \in ToSet(q.tables) : t.name \in DOMAIN Derived(q) => BoundToWith(q, t)

\* Nothing but the base tables in its scope could be called as the column is.
ColumnNameApart(q, c) ==
    /\ \A t \in ToSet(q.tables) :
          c.qualifier \in {NoQualifier, t.alias, t.name} =>
              t \in Visible(q, c) \cap Physical(q)
    /\ c.qualifier \notin DOMAIN Derived(q)
    /\ c.qualifier = NoQualifier =>
          c.name \notin OutputNames(q) /\ ~DerivedColumn(q, c)
=============================================================================
