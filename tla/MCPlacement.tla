----------------------------- MODULE MCPlacement -----------------------------
(* Five scenarios, one for each way the parts meet.                        *)
EXTENDS Placement, TLC

CONSTANTS a1, a2, c1, c2, p1, p2, o1, r1, r2, h1, h2, v1, b1, n1

MCHostOf == (p1 :> p1) @@ (p2 :> p2) @@ (o1 :> p1) @@ (r1 :> p1) @@ (r2 :> p2)
              @@ (h1 :> p1) @@ (h2 :> p2)

Nothing == [items |-> {a1}, loops |-> {}, changes |-> 0, syncs |-> 0, edits |-> 0,
            faults |-> 1, calls |-> 0, reports |-> 0]

\* Two loops beside an edit; a loop beside an operator who synchronises, with
\* a number; two loops and two agents; placement alone and beside an edit.
TwoLoops == [Nothing EXCEPT !.loops = {p1, p2}, !.changes = 1, !.edits = 1]
LoopAndOperator == [Nothing EXCEPT !.items = {a1, n1}, !.loops = {p1}, !.changes = 2,
                                   !.syncs = 1, !.edits = 1]
TwoAgents == [Nothing EXCEPT !.items = {a1, a2}, !.loops = {p1, p2}, !.changes = 1]
Placing == [Nothing EXCEPT !.calls = 2, !.reports = 2]
PlacingEdited == [Nothing EXCEPT !.edits = 1, !.calls = 1, !.reports = 1]
MCBudgets == {TwoLoops, LoopAndOperator, TwoAgents, Placing, PlacingEdited}

MCPrompt == [a \in Agents |-> {v1}]
MCNone == [a \in Agents |-> {}]
MCClientOptional == [c \in Clients |-> [a \in Agents |-> IF c = c1 THEN {v1} ELSE {}]]
==============================================================================
