---------------------------- MODULE MCSqlAgent ----------------------------
(* Small instances of SqlAgent: two tables of which one comes and goes, and *)
(* a budget that lets the ingestions or the questions run, not both.        *)
EXTENDS SqlAgent

CONSTANTS calls, agents, id, agent, callback

Edge == <<<<calls, agent>>, <<agents, id>>>>
Hint == <<<<calls, id>>, <<agents, id>>>>

File(note, hint, definition, sql) ==
    [notes    |-> [t \in {calls, agents} |-> note],
     hints    |-> IF hint THEN (Hint :> 1) ELSE <<>>,
     glossary |-> IF definition = 0 THEN <<>>
                  ELSE (callback :> [definition |-> definition, maps |-> agents]),
     examples |-> (callback :> sql)]

Both == (calls :> (id :> 1 @@ agent :> 1)) @@ (agents :> (id :> 1))
OnlyCalls == calls :> (id :> 2)

\* One table goes, and with it a column and a note; or only the file changes:
\* a hint more, another example, and the term is no longer defined.
Full == [schema |-> Both, fks |-> {Edge}, spec |-> File(1, FALSE, 1, "a")]
Less == [schema |-> OnlyCalls, fks |-> {}, spec |-> File(2, TRUE, 1, "a")]
Edited == [schema |-> Both, fks |-> {Edge}, spec |-> File(1, TRUE, 0, "b")]
MCWorlds == {Full, Less, Edited}

Reference(s, t, a) == [select |-> s, name |-> t, schema |-> NoQualifier, alias |-> a]
Column(s, a, c) ==
    [select |-> s, ordering |-> FALSE, schema |-> NoQualifier, qualifier |-> a, name |-> c]

Query(tables, columns, limit) ==
    [statements |-> 1, select |-> TRUE, writes |-> FALSE, limit |-> limit,
     tables |-> tables, named |-> <<>>, outputs |-> {}, columns |-> columns,
     scope |-> ("main" :> {"main"} @@ "inner" :> {"inner"})]

Calls(a) == Reference("main", calls, a)
Agents(a) == Reference("main", agents, a)

Simple == Query(<<Calls(calls)>>, {Column("main", NoQualifier, id)}, NoLimit)
Joined == Query(<<Calls(calls), Agents(agents)>>,
                {Column("main", calls, agent), Column("main", agents, id)}, 3)
Vague == Query(<<Calls(calls), Agents(agents)>>, {Column("main", NoQualifier, id)}, 1)
Swapped == Query(<<Calls(agents), Agents(calls)>>, {Column("main", calls, agent)}, 1)
Invented == Query(<<Calls(calls), Agents(agents)>>, {Column("main", agents, agent)}, 1)
Writing == [Simple EXCEPT !.writes = TRUE]

\* SELECT agent AS callback FROM calls ORDER BY callback
Ordered == [Query(<<Calls(calls)>>,
                  {Column("main", NoQualifier, agent),
                   [Column("main", NoQualifier, callback) EXCEPT !.ordering = TRUE]}, 1)
              EXCEPT !.outputs = {[select |-> "main", name |-> callback]}]

\* WITH name AS (SELECT agent AS agent FROM inner) SELECT name.agent FROM name
Within(name, inner) ==
    [Query(<<Reference("main", name, name), inner>>,
           {Column("main", name, agent), Column("inner", NoQualifier, agent)}, 2)
       EXCEPT !.named = <<[with |-> TRUE, name |-> name, columns |-> {agent},
                           sees |-> {"main"}]>>,
              !.outputs = {[select |-> "inner", name |-> agent]}]
Nested == Within(callback, Reference("inner", calls, calls))
Homonym == Within(agents, [Reference("inner", agents, agents) EXCEPT !.schema = "archive"])

MCQueries == {Simple, Joined, Vague, Swapped, Invented, Writing, Ordered, Nested,
              Homonym}

Nothing ==
    [worlds |-> MCWorlds, change |-> 0, ingest |-> 0, together |-> 0, fail |-> 0,
     embed |-> 0, generate |-> 0, restart |-> 0, ask |-> 0]
Overlapping == [Nothing EXCEPT !.worlds = {Full, Edited}, !.change = 1, !.ingest = 4,
                               !.together = 2, !.fail = 1, !.embed = 1]
Repeating == [Nothing EXCEPT !.change = 2, !.ingest = 3, !.together = 1, !.fail = 1,
                             !.embed = 2]
Questions == [Nothing EXCEPT !.worlds = {Full, Less}, !.change = 1, !.generate = 1,
                             !.restart = 1, !.ask = 1]

MCQuestions == {Questions}
MCBudgets == {Overlapping, Repeating, Questions}
===========================================================================
