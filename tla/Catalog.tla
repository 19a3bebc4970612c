------------------------------- MODULE Catalog -------------------------------
(***************************************************************************)
(* The local mirror of what the voice engine offers, agents and phone      *)
(* numbers, and what each client may use of it.                            *)
(*                                                                         *)
(* Every process runs a loop that synchronises the agents; an operator may *)
(* synchronise agents or numbers at any moment.  A synchronisation asks    *)
(* the engine, loads the rows it was told of, marks the rows that are gone *)
(* and writes a drift event for each client that had a lost agent enabled, *)
(* all in one transaction.  Transactions run READ COMMITTED: a read sees   *)
(* what is committed, a written row stays locked until its transaction     *)
(* ends, and a column is written only where it differs from what was       *)
(* loaded.                                                                 *)
(***************************************************************************)
EXTENDS Naturals, FiniteSets

CONSTANTS
  Agents,     \* voice_agent_id values
  Numbers,    \* phone numbers
  Clients,    \* clients
  Procs,      \* processes; a process names its catalog loop too
  Operators,  \* slots for requests of the operator console
  Budgets     \* bounds: one record for each scenario, chosen at the start

ASSUME SlotsAssumption == Procs \cap Operators = {} /\ Agents \cap Numbers = {}

Items == Agents \cup Numbers
Syncers == Procs \cup Operators

\* What a behaviour may still do; loops are the processes whose
\* agent_sync_interval_minutes is positive, items those that ever exist.
Budget == [items : SUBSET Items, loops : SUBSET Procs, changes : Nat, syncs : Nat,
           edits : Nat, faults : Nat, calls : Nat, reports : Nat]

ASSUME BudgetAssumption == Budgets \subseteq Budget

Presence == {"unknown", "present", "missing"}
Setting == {"none", "enabled", "disabled"}

-----------------------------------------------------------------------------
VARIABLES
  upstream,   \* the items the engine has
  catalog,    \* agent_catalog and phone_number_catalog: is_present of each row
  config,     \* client_agent_config: enabled, for each client and agent
  assigned,   \* client_phone_numbers
  sync,       \* synchronisations under way
  edit,       \* replacements of a client's agents or numbers under way
  noted,      \* agents a client has a drift event for since they were lost
  slipped,    \* agents enabled for a client while they were being lost
  left        \* what is left of the bounds

catalogVars == <<upstream, catalog, config, assigned, sync, edit, noted, slipped, left>>

Present == {i \in Items : catalog[i] = "present"}

\* The check placement and the client's agent list share.
Enabled(c, a) == config[c][a] = "enabled" /\ a \in Present

\* The numbers a client is shown.
ClientNumbers(c) == assigned[c] \cap Present

Of(kind) == IF kind = "agents" THEN Agents ELSE Numbers

\* got: seen in the engine's answer; new and back: seen rows loaded as unknown
\* and as missing; gone: rows to mark; drift: events to write.
Sync == [pc : {"idle", "load", "mark", "drift", "commit"}, kind : {"agents", "numbers"},
         got : SUBSET Items, new : SUBSET Items, back : SUBSET Items,
         gone : SUBSET Items, drift : SUBSET (Clients \X Agents)]
NoSync == [pc |-> "idle", kind |-> "agents", got |-> {}, new |-> {}, back |-> {},
           gone |-> {}, drift |-> {}]

Edit == UNION {[client : Clients, kind : {k}, wanted : SUBSET Of(k), on : SUBSET Of(k),
                off : SUBSET Of(k)] : k \in {"agents", "numbers"}}
NoEdit == [kind |-> "none"]

CatalogTypeOK ==
  /\ upstream \subseteq Items
  /\ catalog \in [Items -> Presence]
  /\ config \in [Clients -> [Agents -> Setting]]
  /\ assigned \in [Clients -> SUBSET Numbers]
  /\ sync \in [Syncers -> Sync]
  /\ edit \in [Operators -> Edit \cup {NoEdit}]
  /\ noted \in [Clients -> SUBSET Agents]
  /\ slipped \in [Clients -> SUBSET Agents]
  /\ left \in Budget

\* A catalog already filled, with one client's agents enabled, or an empty one.
CatalogInit ==
  /\ left \in Budgets
  /\ upstream = left.items
  /\ \/ /\ catalog = [i \in Items |-> "unknown"]
        /\ config = [c \in Clients |-> [a \in Agents |-> "none"]]
     \/ /\ catalog = [i \in Items |-> IF i \in left.items THEN "present" ELSE "unknown"]
        /\ \E c \in Clients :
             config = [d \in Clients |-> [a \in Agents |->
                         IF d = c /\ a \in left.items THEN "enabled" ELSE "none"]]
  /\ assigned = [c \in Clients |-> {}]
  /\ sync = [s \in Syncers |-> NoSync]
  /\ edit = [o \in Operators |-> NoEdit]
  /\ noted = [c \in Clients |-> {}]
  /\ slipped = [c \in Clients |-> {}]

Spend(what) == left[what] > 0 /\ left' = [left EXCEPT ![what] = @ - 1]

-----------------------------------------------------------------------------
(* The engine: an agent or number is removed or added.                     *)

EngineChanges(i) ==
  /\ i \in left.items
  /\ Spend("changes")
  /\ upstream' = IF i \in upstream THEN upstream \ {i} ELSE upstream \cup {i}
  /\ UNCHANGED <<catalog, config, assigned, sync, edit, noted, slipped>>

-----------------------------------------------------------------------------
(* One synchronisation.                                                    *)

\* Rows a transaction has written and still holds: the seen ones once the
\* query of _mark_missing flushes them, the lost ones after the next flush.
Locked(s) == CASE sync[s].pc = "drift" -> sync[s].got
               [] sync[s].pc = "commit" -> sync[s].got \cup sync[s].gone
               [] OTHER -> {}

Holders(s, rows) == {t \in Syncers \ {s} : Locked(t) \cap rows # {}}

Ends(s) == sync' = [sync EXCEPT ![s] = NoSync]

\* A loop wakes up, or an operator asks for a synchronisation.
Starts(s, kind) ==
  /\ sync[s].pc = "idle"
  /\ \/ s \in left.loops /\ kind = "agents"
     \/ s \in Operators /\ edit[s] = NoEdit

SyncBegins(s, kind, answer) ==
  /\ Starts(s, kind)
  /\ sync' = [sync EXCEPT ![s] = [NoSync EXCEPT !.pc = "load", !.kind = kind, !.got = answer]]
  /\ UNCHANGED <<upstream, catalog, config, assigned, edit, noted, slipped>>

LoopLists(s) == SyncBegins(s, "agents", upstream \cap Agents) /\ s \in Procs /\ UNCHANGED left

OperatorLists(s, kind) == SyncBegins(s, kind, upstream \cap Of(kind)) /\ s \in Operators /\ Spend("syncs")

\* An answer that is no list counts as an empty one.
AnswerMalformed(s, kind) == SyncBegins(s, kind, {}) /\ Spend("faults")

LoadSeen(s) ==
  /\ sync[s].pc = "load"
  /\ LET seen == sync[s].got IN
       sync' = [sync EXCEPT ![s].pc = "mark",
                            ![s].new = {i \in seen : catalog[i] = "unknown"},
                            ![s].back = {i \in seen : catalog[i] = "missing"}]
  /\ UNCHANGED <<upstream, catalog, config, assigned, edit, noted, slipped, left>>

\* A row this transaction inserts has been inserted by another since.
Duplicates(s) == sync[s].pc = "mark" /\ \E i \in sync[s].new : catalog[i] # "unknown"

MarkMissing(s) ==
  /\ sync[s].pc = "mark"
  /\ ~Duplicates(s)
  /\ Holders(s, sync[s].got) = {}
  /\ sync' = [sync EXCEPT ![s].pc = "drift",
                          ![s].gone = (Of(sync[s].kind) \cap Present) \ sync[s].got]
  /\ UNCHANGED <<upstream, catalog, config, assigned, edit, noted, slipped, left>>

\* Mutant: only the first client that had the agent enabled is told.
DetectFirstDrift(s) ==
  /\ sync[s].pc = "drift"
  /\ Holders(s, sync[s].gone) = {}
  /\ sync' = [sync EXCEPT ![s].pc = "commit",
       ![s].drift = LET hit == {p \in Clients \X (Agents \cap sync[s].gone) :
                                  config[p[1]][p[2]] = "enabled"}
                    IN  IF hit = {} THEN {} ELSE {CHOOSE p \in hit : TRUE}]
  /\ UNCHANGED <<upstream, catalog, config, assigned, edit, noted, slipped, left>>

DetectDrift(s) ==
  /\ sync[s].pc = "drift"
  /\ Holders(s, sync[s].gone) = {}
  /\ sync' = [sync EXCEPT ![s].pc = "commit",
                          ![s].drift = {p \in Clients \X (Agents \cap sync[s].gone) :
                                          config[p[1]][p[2]] = "enabled"}]
  /\ UNCHANGED <<upstream, catalog, config, assigned, edit, noted, slipped, left>>

CommitSync(s) ==
  /\ sync[s].pc = "commit"
  /\ LET found == sync[s].new \cup sync[s].back
         events(c) == {a \in Agents : <<c, a>> \in sync[s].drift} IN
       /\ catalog' = [i \in Items |-> IF i \in found THEN "present"
                                      ELSE IF i \in sync[s].gone THEN "missing"
                                      ELSE catalog[i]]
       /\ noted' = [c \in Clients |-> (noted[c] \cup events(c)) \ found]
       /\ slipped' = [c \in Clients |-> slipped[c] \ found]
  /\ Ends(s)
  /\ UNCHANGED <<upstream, config, assigned, edit, left>>

\* Two transactions that wait for each other: the database ends one of them.
Deadlocked(s) == sync[s].pc = "drift" /\ \E t \in Holders(s, sync[s].gone) :
                   sync[t].pc = "drift" /\ s \in Holders(t, sync[t].gone)

\* The whole transaction is undone; the loop logs it and goes on.
SyncAborts(s) ==
  /\ Duplicates(s) \/ Deadlocked(s)
  /\ Ends(s)
  /\ UNCHANGED <<upstream, catalog, config, assigned, edit, noted, slipped, left>>

\* Mutant: the exception leaves the loop of the process, which is not started again.
SyncFailsForGood(s) ==
  /\ sync[s].pc # "idle"
  /\ Spend("faults")
  /\ sync' = [sync EXCEPT ![s] = [NoSync EXCEPT !.pc = "stopped"]]
  /\ UNCHANGED <<upstream, catalog, config, assigned, edit, noted, slipped>>

\* The engine does not answer, or the database refuses a statement.
SyncFails(s) ==
  /\ sync[s].pc # "idle"
  /\ Spend("faults")
  /\ Ends(s)
  /\ UNCHANGED <<upstream, catalog, config, assigned, edit, noted, slipped>>

-----------------------------------------------------------------------------
(* What an operator lets a client use.  The ids are checked and the        *)
(* client's rows loaded first, the difference is committed later.          *)

LoadEdit(o, c, kind, wanted, on, off) ==
  /\ edit[o] = NoEdit
  /\ sync[o].pc = "idle"
  /\ Spend("edits")
  /\ edit' = [edit EXCEPT ![o] = [client |-> c, kind |-> kind, wanted |-> wanted,
                                  on |-> on, off |-> off]]
  /\ UNCHANGED <<upstream, catalog, config, assigned, sync, noted, slipped>>

LoadAgents(o, c, wanted) ==
  /\ wanted \subseteq Agents \cap Present
  /\ LoadEdit(o, c, "agents", wanted, {a \in Agents : config[c][a] = "enabled"},
                                      {a \in Agents : config[c][a] = "disabled"})

\* A number only has to be in the catalog, present or not.
LoadNumbers(o, c, wanted) ==
  /\ wanted \subseteq {n \in Numbers : catalog[n] # "unknown"}
  /\ LoadEdit(o, c, "numbers", wanted, assigned[c], {})

\* The agents a synchronisation is about to mark, having read who uses them.
BeingLost == UNION {sync[s].gone : s \in {t \in Syncers : sync[t].pc = "commit"}}

CommitAgents(o) ==
  /\ edit[o].kind = "agents"
  /\ LET e == edit[o]
         new == e.wanted \ (e.on \cup e.off)
         enables == new \cup (e.off \cap e.wanted)
         disables == e.on \ e.wanted IN
       /\ \A a \in new : config[e.client][a] = "none"
       /\ config' = [config EXCEPT ![e.client] = [a \in Agents |->
                       IF a \in enables THEN "enabled"
                       ELSE IF a \in disables THEN "disabled" ELSE config[e.client][a]]]
       /\ slipped' = [slipped EXCEPT ![e.client] =
                        (@ \ disables) \cup {a \in enables : a \notin Present \/ a \in BeingLost}]
  /\ edit' = [edit EXCEPT ![o] = NoEdit]
  /\ UNCHANGED <<upstream, catalog, assigned, sync, noted, left>>

CommitNumbers(o) ==
  /\ edit[o].kind = "numbers"
  /\ LET e == edit[o] IN
       /\ (e.wanted \ e.on) \cap assigned[e.client] = {}
       /\ assigned' = [assigned EXCEPT ![e.client] =
                         (@ \ (e.on \ e.wanted)) \cup (e.wanted \ e.on)]
  /\ edit' = [edit EXCEPT ![o] = NoEdit]
  /\ UNCHANGED <<upstream, catalog, config, sync, noted, slipped, left>>

\* Another edit has inserted one of the rows since: the unique key refuses it.
EditRefused(o) ==
  /\ \/ /\ edit[o].kind = "agents"
        /\ \E a \in edit[o].wanted \ (edit[o].on \cup edit[o].off) :
             config[edit[o].client][a] # "none"
     \/ /\ edit[o].kind = "numbers"
        /\ (edit[o].wanted \ edit[o].on) \cap assigned[edit[o].client] # {}
  /\ edit' = [edit EXCEPT ![o] = NoEdit]
  /\ UNCHANGED <<upstream, catalog, config, assigned, sync, noted, slipped, left>>

\* Naming an agent or overriding its variables adds the row disabled.  A row
\* another edit inserts at the same time refuses this one, as if never asked.
PatchAgent(c, a) ==
  /\ a \in left.items
  /\ config[c][a] = "none"
  /\ Spend("edits")
  /\ config' = [config EXCEPT ![c][a] = "disabled"]
  /\ UNCHANGED <<upstream, catalog, assigned, sync, edit, noted, slipped>>

-----------------------------------------------------------------------------
SyncStep(s) == LoadSeen(s) \/ MarkMissing(s) \/ DetectDrift(s) \/ CommitSync(s) \/ SyncAborts(s)

CatalogStep ==
  \/ \E i \in Items : EngineChanges(i)
  \/ \E s \in Syncers : SyncStep(s) \/ LoopLists(s) \/ SyncFails(s)
  \/ \E s \in Syncers, kind \in {"agents", "numbers"} : OperatorLists(s, kind) \/ AnswerMalformed(s, kind)
  \/ \E o \in Operators, c \in Clients :
       \/ \E wanted \in SUBSET Agents : LoadAgents(o, c, wanted)
       \/ \E wanted \in SUBSET Numbers : LoadNumbers(o, c, wanted)
  \/ \E o \in Operators : CommitAgents(o) \/ CommitNumbers(o) \/ EditRefused(o)
  \/ \E c \in Clients, a \in Agents : PatchAgent(c, a)

-----------------------------------------------------------------------------
(* Properties.                                                             *)

\* Drift: a client whose enabled agent is marked missing has an event for it,
\* written since the agent was lost, however the loops of several processes,
\* an operator's synchronisation and edits interleave.  The exceptions are
\* the agents enabled in the middle of the synchronisation that loses them.
DriftKnown ==
  \A c \in Clients, a \in Agents :
    config[c][a] = "enabled" /\ catalog[a] = "missing" => a \in noted[c] \cup slipped[c]

\* While some process runs its loop, the catalog ends up with exactly the
\* agents the engine has, whatever a malformed answer, a failed pass or a
\* stale one made of it before.
CatalogConverges ==
  left.loops # {} => <>[](\A a \in Agents : catalog[a] = "present" <=> a \in upstream)
==============================================================================
