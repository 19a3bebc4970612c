--------------------------- MODULE CatalogProofs ---------------------------
(***************************************************************************)
(* Proofs about the steps of Catalog: that they keep its types, and that   *)
(* no client's lost agent goes without a drift event.  Placement runs      *)
(* these steps beside its own; PlacementProofs concludes.                  *)
(***************************************************************************)
EXTENDS Catalog, TLAPS

-----------------------------------------------------------------------------
(* Types.                                                                  *)

\* Whatever is spent leaves a budget.
LEMMA SpendType ==
  ASSUME CatalogTypeOK,
         NEW what \in {"changes", "syncs", "edits", "faults", "calls", "reports"},
         Spend(what)
  PROVE left' \in Budget
<1>1. left \in Budget /\ left[what] > 0 /\ left' = [left EXCEPT ![what] = left[what] - 1]
  BY DEF CatalogTypeOK, Spend
<1>2. left[what] \in Nat /\ left[what] - 1 \in Nat
  BY <1>1 DEF Budget
<1>3. [left EXCEPT ![what] = left[what] - 1] \in Budget
  BY <1>1, <1>2 DEF Budget
<1> QED
  BY <1>1, <1>3

\* A synchroniser that moves on is typed if its new state is.
LEMMA SyncType ==
  ASSUME CatalogTypeOK, NEW s \in Syncers, NEW x \in Sync, sync' = [sync EXCEPT ![s] = x]
  PROVE sync' \in [Syncers -> Sync]
BY DEF CatalogTypeOK

\* The state of a synchroniser that rests.
LEMMA NoSyncType == NoSync \in Sync
BY DEF NoSync, Sync

\* A synchronisation begins with what the engine answered.
LEMMA BeginSyncType ==
  ASSUME CatalogTypeOK, NEW s \in Syncers, NEW kind \in {"agents", "numbers"},
         NEW answer \in SUBSET Items, SyncBegins(s, kind, answer)
  PROVE sync' \in [Syncers -> Sync]
<1>1. [NoSync EXCEPT !.pc = "load", !.kind = kind, !.got = answer] \in Sync
  BY DEF NoSync, Sync
<1> QED
  BY <1>1, SyncType DEF SyncBegins

\* A synchronisation goes on, commits, or ends for nothing.
LEMMA SyncStepType ==
  ASSUME CatalogTypeOK, NEW s \in Syncers, SyncStep(s)
  PROVE CatalogTypeOK'
<1> DEFINE x == sync[s]
<1>0. x \in Sync /\ Present \subseteq Items
  BY DEF CatalogTypeOK, Present
<1>1. CASE LoadSeen(s)
  <2>1. [x EXCEPT !.pc = "mark", !.new = {i \in x.got : catalog[i] = "unknown"},
                  !.back = {i \in x.got : catalog[i] = "missing"}] \in Sync
    BY <1>0 DEF Sync
  <2>2. sync' = [sync EXCEPT ![s] =
          [x EXCEPT !.pc = "mark", !.new = {i \in x.got : catalog[i] = "unknown"},
                    !.back = {i \in x.got : catalog[i] = "missing"}]]
    BY <1>1 DEF LoadSeen
  <2> QED
    BY <1>1, <2>1, <2>2, SyncType DEF LoadSeen, CatalogTypeOK
<1>2. CASE MarkMissing(s)
  <2>1. PICK gone : gone = (Of(x.kind) \cap Present) \ x.got
    OBVIOUS
  <2>2. [x EXCEPT !.pc = "drift", !.gone = gone] \in Sync
    BY <1>0, <2>1 DEF Sync
  <2>3. sync' = [sync EXCEPT ![s] = [x EXCEPT !.pc = "drift", !.gone = gone]]
    BY <1>2, <2>1 DEF MarkMissing
  <2> QED
    BY <1>2, <2>2, <2>3, SyncType DEF MarkMissing, CatalogTypeOK
<1>3. CASE DetectDrift(s)
  <2>1. PICK drift : drift = {p \in Clients \X (Agents \cap x.gone) :
                                config[p[1]][p[2]] = "enabled"}
    OBVIOUS
  <2>2. [x EXCEPT !.pc = "commit", !.drift = drift] \in Sync
    BY <1>0, <2>1 DEF Sync
  <2>3. sync' = [sync EXCEPT ![s] = [x EXCEPT !.pc = "commit", !.drift = drift]]
    BY <1>3, <2>1 DEF DetectDrift
  <2> QED
    BY <1>3, <2>2, <2>3, SyncType DEF DetectDrift, CatalogTypeOK
<1>4. CASE CommitSync(s)
  <2>1. sync' \in [Syncers -> Sync]
    BY <1>4, NoSyncType, SyncType DEF CommitSync, Ends
  <2>2. catalog' \in [Items -> Presence]
    BY <1>4 DEF CommitSync, CatalogTypeOK, Presence
  <2>3. noted' \in [Clients -> SUBSET Agents] /\ slipped' \in [Clients -> SUBSET Agents]
    BY <1>4 DEF CommitSync, CatalogTypeOK
  <2> QED
    BY <1>4, <2>1, <2>2, <2>3 DEF CommitSync, CatalogTypeOK
<1>5. CASE SyncAborts(s)
  BY <1>5, NoSyncType, SyncType DEF SyncAborts, Ends, CatalogTypeOK
<1> QED
  BY <1>1, <1>2, <1>3, <1>4, <1>5 DEF SyncStep

\* An edit is loaded with what the operator wants and what the client has.
LEMMA LoadEditType ==
  ASSUME CatalogTypeOK, NEW o \in Operators, NEW c \in Clients,
         NEW kind \in {"agents", "numbers"}, NEW wanted \in SUBSET Of(kind),
         NEW on \in SUBSET Of(kind), NEW off \in SUBSET Of(kind),
         LoadEdit(o, c, kind, wanted, on, off)
  PROVE CatalogTypeOK'
<1>1. [client |-> c, kind |-> kind, wanted |-> wanted, on |-> on, off |-> off] \in Edit
  BY DEF Edit
<1>2. edit' \in [Operators -> Edit \cup {NoEdit}]
  BY <1>1 DEF LoadEdit, CatalogTypeOK
<1> QED
  BY <1>2, SpendType DEF LoadEdit, CatalogTypeOK

\* An edit that has been loaded is one of agents or one of numbers.
LEMMA EditShape ==
  ASSUME CatalogTypeOK, NEW o \in Operators, edit[o].kind \in {"agents", "numbers"}
  PROVE edit[o].client \in Clients /\ edit[o].wanted \subseteq Of(edit[o].kind)
<1>1. edit[o] \in Edit
  BY DEF CatalogTypeOK, NoEdit
<1>2. PICK k \in {"agents", "numbers"} :
        edit[o] \in [client : Clients, kind : {k}, wanted : SUBSET Of(k), on : SUBSET Of(k),
                     off : SUBSET Of(k)]
  BY <1>1 DEF Edit
<1> QED
  BY <1>2

\* Every step of the catalog keeps its types.
LEMMA CatalogStepType ==
  ASSUME CatalogTypeOK, CatalogStep
  PROVE CatalogTypeOK'
<1>1. CASE \E i \in Items : EngineChanges(i)
  BY <1>1, SpendType DEF EngineChanges, CatalogTypeOK
<1>2. ASSUME NEW s \in Syncers, SyncFails(s) PROVE CatalogTypeOK'
  BY <1>2, NoSyncType, SyncType, SpendType DEF SyncFails, Ends, CatalogTypeOK
<1>3. ASSUME NEW s \in Syncers, LoopLists(s) PROVE CatalogTypeOK'
  <2>1. upstream \cap Agents \in SUBSET Items
    BY DEF CatalogTypeOK
  <2>2. sync' \in [Syncers -> Sync]
    BY <1>3, <2>1, BeginSyncType DEF LoopLists
  <2> QED
    BY <1>3, <2>2 DEF LoopLists, SyncBegins, CatalogTypeOK
<1>4. ASSUME NEW s \in Syncers, NEW kind \in {"agents", "numbers"},
             OperatorLists(s, kind) \/ AnswerMalformed(s, kind)
      PROVE CatalogTypeOK'
  <2>1. upstream \cap Of(kind) \in SUBSET Items /\ {} \in SUBSET Items
    BY DEF CatalogTypeOK
  <2>2. PICK answer \in SUBSET Items : SyncBegins(s, kind, answer)
    BY <1>4, <2>1 DEF OperatorLists, AnswerMalformed
  <2>3. sync' \in [Syncers -> Sync]
    BY <2>2, BeginSyncType
  <2>4. left' \in Budget
    BY <1>4, SpendType DEF OperatorLists, AnswerMalformed
  <2> QED
    BY <2>2, <2>3, <2>4 DEF SyncBegins, CatalogTypeOK
<1>5. ASSUME NEW o \in Operators, NEW c \in Clients, NEW wanted \in SUBSET Agents,
             LoadAgents(o, c, wanted)
      PROVE CatalogTypeOK'
  <2>1. Of("agents") = Agents
    BY DEF Of
  <2>2. PICK on \in SUBSET Agents, off \in SUBSET Agents :
          LoadEdit(o, c, "agents", wanted, on, off)
    BY <1>5 DEF LoadAgents
  <2> QED
    BY <2>1, <2>2, LoadEditType
<1>6. ASSUME NEW o \in Operators, NEW c \in Clients, NEW wanted \in SUBSET Numbers,
             LoadNumbers(o, c, wanted)
      PROVE CatalogTypeOK'
  <2>1. Of("numbers") = Numbers /\ assigned[c] \in SUBSET Numbers /\ {} \in SUBSET Numbers
    BY DEF CatalogTypeOK, Of
  <2> QED
    BY <1>6, <2>1, LoadEditType DEF LoadNumbers
<1>7. ASSUME NEW o \in Operators, CommitAgents(o) PROVE CatalogTypeOK'
  <2>1. edit[o].client \in Clients /\ edit[o].wanted \subseteq Agents
    BY <1>7, EditShape DEF CommitAgents, Of
  <2>2. edit' \in [Operators -> Edit \cup {NoEdit}]
    BY <1>7 DEF CommitAgents, CatalogTypeOK
  <2>3. PICK c, enables, disables, slips :
          /\ c = edit[o].client
          /\ enables \subseteq edit[o].wanted
          /\ config' = [config EXCEPT ![c] = [a \in Agents |->
               IF a \in enables THEN "enabled"
               ELSE IF a \in disables THEN "disabled" ELSE config[c][a]]]
          /\ slips \subseteq enables
          /\ slipped' = [slipped EXCEPT ![c] = (slipped[c] \ disables) \cup slips]
    <3> DEFINE e == edit[o]
               new == e.wanted \ (e.on \cup e.off)
               en == new \cup (e.off \cap e.wanted)
               dis == e.on \ e.wanted
               sl == {a \in en : a \notin Present \/ a \in BeingLost}
    <3>1. /\ config' = [config EXCEPT ![e.client] = [a \in Agents |->
               IF a \in en THEN "enabled"
               ELSE IF a \in dis THEN "disabled" ELSE config[e.client][a]]]
          /\ slipped' = [slipped EXCEPT ![e.client] = (slipped[e.client] \ dis) \cup sl]
      BY <1>7, <2>1 DEF CommitAgents, CatalogTypeOK
    <3>2. en \subseteq e.wanted /\ sl \subseteq en
      OBVIOUS
    <3> HIDE DEF en, dis, sl
    <3> QED
      BY <3>1, <3>2
  <2>4. config' \in [Clients -> [Agents -> Setting]]
    BY <2>1, <2>3 DEF CatalogTypeOK, Setting
  <2>5. slipped' \in [Clients -> SUBSET Agents]
    BY <2>1, <2>3 DEF CatalogTypeOK
  <2> QED
    BY <1>7, <2>2, <2>4, <2>5 DEF CommitAgents, CatalogTypeOK
<1>8. ASSUME NEW o \in Operators, CommitNumbers(o) PROVE CatalogTypeOK'
  <2>1. edit[o].client \in Clients /\ edit[o].wanted \subseteq Numbers
    BY <1>8, EditShape DEF CommitNumbers, Of
  <2>2. edit' \in [Operators -> Edit \cup {NoEdit}]
    BY <1>8 DEF CommitNumbers, CatalogTypeOK
  <2>3. assigned' \in [Clients -> SUBSET Numbers]
    BY <1>8, <2>1 DEF CommitNumbers, CatalogTypeOK
  <2> QED
    BY <1>8, <2>2, <2>3 DEF CommitNumbers, CatalogTypeOK
<1>9. ASSUME NEW o \in Operators, EditRefused(o) PROVE CatalogTypeOK'
  BY <1>9 DEF EditRefused, CatalogTypeOK
<1>10. ASSUME NEW c \in Clients, NEW a \in Agents, PatchAgent(c, a) PROVE CatalogTypeOK'
  <2>1. config' \in [Clients -> [Agents -> Setting]]
    BY <1>10 DEF PatchAgent, CatalogTypeOK, Setting
  <2> QED
    BY <1>10, <2>1, SpendType DEF PatchAgent, CatalogTypeOK
<1> QED
  BY <1>1, <1>2, <1>3, <1>4, <1>5, <1>6, <1>7, <1>8, <1>9, <1>10, SyncStepType DEF CatalogStep

-----------------------------------------------------------------------------
(* Drift events.  A synchronisation that is about to commit has read the   *)
(* settings of the clients while others could still change them; the locks *)
(* on the rows it marks keep every other synchronisation away from them,   *)
(* and the slips cover the edits.                                          *)

\* Only rows of the answer are inserted or found again, and none is lost too.
Sound(x) == x.new \cup x.back \subseteq x.got /\ x.got \cap x.gone = {}
SyncsSound == \A s \in Syncers : Sound(sync[s])

\* No row is held by two transactions.
LocksApart == \A s, t \in Syncers : s # t => Locked(s) \cap Locked(t) = {}

\* Whoever has an agent enabled that a transaction is about to mark will get an
\* event, or has enabled it since the transaction looked.
LossSeen ==
  \A s \in Syncers : sync[s].pc = "commit" =>
    \A c \in Clients, a \in Agents \cap sync[s].gone :
      config[c][a] = "enabled" => <<c, a>> \in sync[s].drift \/ a \in slipped[c]

DriftInv == SyncsSound /\ LocksApart /\ LossSeen /\ DriftKnown

\* A transaction holds no row unless it marks or commits.
Free(x) == x.pc \notin {"drift", "commit"} /\ Sound(x)

\* Nothing happens to the rows while transactions begin, end for nothing, or
\* read: as many as a crash ends at once.
LEMMA QuietDrift ==
  ASSUME DriftInv, UNCHANGED <<catalog, config, noted, slipped>>,
         \A s \in Syncers : sync'[s] = sync[s] \/ Free(sync'[s])
  PROVE DriftInv'
<1>1. SyncsSound'
  BY DEF DriftInv, SyncsSound, Free, Sound
<1>2. ASSUME NEW s \in Syncers PROVE Locked(s)' \subseteq Locked(s)
  BY DEF Locked, Free
<1>3. LocksApart'
  BY <1>2 DEF DriftInv, LocksApart
<1>4. LossSeen'
  BY DEF DriftInv, LossSeen, Free
<1>5. DriftKnown'
  BY DEF DriftInv, DriftKnown
<1> QED
  BY <1>1, <1>3, <1>4, <1>5 DEF DriftInv

\* A transaction that takes rows no other holds leaves them apart.
LEMMA TakeLocks ==
  ASSUME CatalogTypeOK, LocksApart, NEW s \in Syncers, NEW x \in Sync, NEW rows,
         sync' = [sync EXCEPT ![s] = x], Locked(s)' \subseteq Locked(s) \cup rows,
         Holders(s, rows) = {}
  PROVE LocksApart'
<1>1. ASSUME NEW t \in Syncers, t # s PROVE Locked(t)' = Locked(t) /\ Locked(t) \cap rows = {}
  BY <1>1 DEF CatalogTypeOK, Locked, Holders
<1> QED
  BY <1>1 DEF LocksApart

\* The queries of _mark_missing lock the rows seen.
LEMMA MarkDrift ==
  ASSUME CatalogTypeOK, DriftInv, NEW s \in Syncers, MarkMissing(s)
  PROVE DriftInv'
<1>1. PICK gone : gone = (Of(sync[s].kind) \cap Present) \ sync[s].got
  OBVIOUS
<1>2. PICK x \in Sync : /\ x = [sync[s] EXCEPT !.pc = "drift", !.gone = gone]
                        /\ sync' = [sync EXCEPT ![s] = x]
  <2>1. sync[s] \in Sync /\ gone \subseteq Items
    BY <1>1 DEF CatalogTypeOK, Present
  <2>2. [sync[s] EXCEPT !.pc = "drift", !.gone = gone] \in Sync
    BY <2>1 DEF Sync
  <2> QED
    BY <1>1, <2>2 DEF MarkMissing
<1>3. x.pc = "drift" /\ x.gone = gone /\ x.got = sync[s].got /\ x.new = sync[s].new
        /\ x.back = sync[s].back
  BY <1>2 DEF CatalogTypeOK, Sync
<1>4. SyncsSound'
  BY <1>1, <1>2, <1>3 DEF DriftInv, SyncsSound, Sound, CatalogTypeOK
<1>5. LocksApart'
  <2>1. Locked(s)' = sync[s].got
    BY <1>2, <1>3 DEF Locked, CatalogTypeOK
  <2> QED
    BY <1>2, <2>1, TakeLocks DEF MarkMissing, DriftInv
<1>6. LossSeen' /\ DriftKnown'
  BY <1>2, <1>3 DEF MarkMissing, DriftInv, LossSeen, DriftKnown, CatalogTypeOK
<1> QED
  BY <1>4, <1>5, <1>6 DEF DriftInv

\* The update of the lost rows locks them, and their users are read.
LEMMA DetectKeepsDrift ==
  ASSUME CatalogTypeOK, DriftInv, NEW s \in Syncers, DetectDrift(s)
  PROVE DriftInv'
<1>1. PICK drift : drift = {p \in Clients \X (Agents \cap sync[s].gone) :
                              config[p[1]][p[2]] = "enabled"}
  OBVIOUS
<1>2. PICK x \in Sync : /\ x = [sync[s] EXCEPT !.pc = "commit", !.drift = drift]
                        /\ sync' = [sync EXCEPT ![s] = x]
  <2>1. sync[s] \in Sync /\ drift \subseteq Clients \X Agents
    BY <1>1 DEF CatalogTypeOK
  <2>2. [sync[s] EXCEPT !.pc = "commit", !.drift = drift] \in Sync
    BY <2>1 DEF Sync
  <2> QED
    BY <1>1, <2>2 DEF DetectDrift
<1>3. x.pc = "commit" /\ x.drift = drift /\ x.got = sync[s].got /\ x.new = sync[s].new
        /\ x.back = sync[s].back /\ x.gone = sync[s].gone
  BY <1>2 DEF CatalogTypeOK, Sync
<1>4. SyncsSound'
  BY <1>2, <1>3 DEF DriftInv, SyncsSound, Sound, CatalogTypeOK
<1>5. LocksApart'
  <2>1. Locked(s) = sync[s].got
    BY DEF DetectDrift, Locked
  <2>2. Locked(s)' = sync[s].got \cup sync[s].gone
    BY <1>2, <1>3 DEF Locked, CatalogTypeOK
  <2> QED
    BY <1>2, <2>1, <2>2, TakeLocks DEF DetectDrift, DriftInv
<1>6. LossSeen'
  BY <1>1, <1>2, <1>3 DEF DetectDrift, DriftInv, LossSeen, CatalogTypeOK
<1>7. DriftKnown'
  BY DEF DetectDrift, DriftInv, DriftKnown
<1> QED
  BY <1>4, <1>5, <1>6, <1>7 DEF DriftInv

\* A commit tells of every agent it loses, and forgets the slips of those it
\* finds again, which no other transaction is about to lose.
LEMMA CommitKeepsDrift ==
  ASSUME CatalogTypeOK, DriftInv, NEW s \in Syncers, CommitSync(s)
  PROVE DriftInv'
<1> DEFINE found == sync[s].new \cup sync[s].back
<1>1. /\ sync[s].pc = "commit"
      /\ config' = config
      /\ catalog' = [i \in Items |-> IF i \in found THEN "present"
                                     ELSE IF i \in sync[s].gone THEN "missing" ELSE catalog[i]]
      /\ noted' = [c \in Clients |->
                     (noted[c] \cup {a \in Agents : <<c, a>> \in sync[s].drift}) \ found]
      /\ slipped' = [c \in Clients |-> slipped[c] \ found]
  BY DEF CommitSync
<1>2. sync' = [sync EXCEPT ![s] = NoSync]
  BY DEF CommitSync, Ends
<1>3. found \subseteq sync[s].got /\ Locked(s) = sync[s].got \cup sync[s].gone
  BY <1>1 DEF DriftInv, SyncsSound, Sound, Locked
<1>4. SyncsSound'
  BY <1>2 DEF DriftInv, SyncsSound, Sound, NoSync, CatalogTypeOK
<1>5. LocksApart'
  <2>1. Locked(s)' = {}
    BY <1>2 DEF Locked, NoSync, CatalogTypeOK
  <2>2. Holders(s, {}) = {}
    BY DEF Holders
  <2> QED
    BY <1>2, <2>1, <2>2, TakeLocks, NoSyncType DEF DriftInv
<1>6. LossSeen'
  <2> SUFFICES ASSUME NEW t \in Syncers, sync'[t].pc = "commit",
                      NEW c \in Clients, NEW a \in Agents \cap sync'[t].gone,
                      config'[c][a] = "enabled"
               PROVE <<c, a>> \in sync'[t].drift \/ a \in slipped'[c]
    BY DEF LossSeen
  <2>1. t # s /\ sync'[t] = sync[t]
    BY <1>2 DEF NoSync, CatalogTypeOK
  <2>2. a \in Locked(t)
    BY <2>1 DEF Locked
  <2>3. a \notin found
    BY <1>3, <2>1, <2>2 DEF DriftInv, LocksApart
  <2> QED
    BY <1>1, <2>1, <2>3 DEF DriftInv, LossSeen
<1>7. DriftKnown'
  <2> SUFFICES ASSUME NEW c \in Clients, NEW a \in Agents,
                      config'[c][a] = "enabled", catalog'[a] = "missing"
               PROVE a \in noted'[c] \cup slipped'[c]
    BY DEF DriftKnown
  <2>1. a \in Items /\ a \notin found
    BY <1>1 DEF Items
  <2>2. CASE a \in sync[s].gone
    BY <1>1, <2>1, <2>2 DEF DriftInv, LossSeen
  <2>3. CASE a \notin sync[s].gone
    BY <1>1, <2>1, <2>3 DEF DriftInv, DriftKnown
  <2> HIDE DEF found
  <2> QED
    BY <2>2, <2>3
<1> QED
  BY <1>4, <1>5, <1>6, <1>7 DEF DriftInv

\* An agent that an edit enables while it is lost, or about to be, slips.
LEMMA CommitAgentsDrift ==
  ASSUME CatalogTypeOK, DriftInv, NEW o \in Operators, CommitAgents(o)
  PROVE DriftInv'
<1> DEFINE e == edit[o]
           new == e.wanted \ (e.on \cup e.off)
           en == new \cup (e.off \cap e.wanted)
           dis == e.on \ e.wanted
<1>1. e.client \in Clients /\ en \subseteq Agents /\ en \cap dis = {}
  BY EditShape DEF CommitAgents, Of
<1>2. /\ config' = [config EXCEPT ![e.client] = [a \in Agents |->
           IF a \in en THEN "enabled"
           ELSE IF a \in dis THEN "disabled" ELSE config[e.client][a]]]
      /\ slipped' = [slipped EXCEPT ![e.client] =
           (slipped[e.client] \ dis) \cup {a \in en : a \notin Present \/ a \in BeingLost}]
      /\ UNCHANGED <<catalog, sync, noted>>
  BY <1>1 DEF CommitAgents, CatalogTypeOK
<1>3. PICK c, enables, disables, slips :
        /\ c = e.client /\ enables = en /\ disables = dis
        /\ slips = {a \in en : a \notin Present \/ a \in BeingLost}
  OBVIOUS
<1>4. /\ c \in Clients /\ enables \subseteq Agents /\ enables \cap disables = {}
      /\ config' = [config EXCEPT ![c] = [a \in Agents |->
           IF a \in enables THEN "enabled"
           ELSE IF a \in disables THEN "disabled" ELSE config[c][a]]]
      /\ slipped' = [slipped EXCEPT ![c] = (slipped[c] \ disables) \cup slips]
  BY <1>1, <1>2, <1>3
<1>5. slips = {a \in enables : a \notin Present \/ a \in BeingLost}
  BY <1>3
<1> HIDE DEF en, dis, new
\* Whoever has an agent enabled afterwards had it before and slips as before,
\* or the edit enabled it.
<1>6. ASSUME NEW d \in Clients, NEW a \in Agents, config'[d][a] = "enabled"
      PROVE \/ config[d][a] = "enabled" /\ (a \in slipped[d] => a \in slipped'[d])
            \/ a \in enables /\ (a \in slips => a \in slipped'[d])
  BY <1>4, <1>6 DEF CatalogTypeOK
<1>7. SyncsSound' /\ LocksApart'
  BY <1>2 DEF DriftInv, SyncsSound, LocksApart, Locked
<1>8. LossSeen'
  <2> SUFFICES ASSUME NEW s \in Syncers, sync[s].pc = "commit",
                      NEW d \in Clients, NEW a \in Agents \cap sync[s].gone,
                      config'[d][a] = "enabled"
               PROVE <<d, a>> \in sync[s].drift \/ a \in slipped'[d]
    BY <1>2 DEF LossSeen
  <2>1. a \in BeingLost
    BY DEF BeingLost
  <2> QED
    BY <1>5, <1>6, <2>1 DEF DriftInv, LossSeen
<1>9. DriftKnown'
  <2> SUFFICES ASSUME NEW d \in Clients, NEW a \in Agents,
                      config'[d][a] = "enabled", catalog[a] = "missing"
               PROVE a \in noted[d] \cup slipped'[d]
    BY <1>2 DEF DriftKnown
  <2>1. a \notin Present
    BY DEF Present
  <2> QED
    BY <1>5, <1>6, <2>1 DEF DriftInv, DriftKnown
<1> QED
  BY <1>7, <1>8, <1>9 DEF DriftInv

\* A row that a name or an override adds is disabled.
LEMMA PatchDrift ==
  ASSUME CatalogTypeOK, DriftInv, NEW c \in Clients, NEW a \in Agents, PatchAgent(c, a)
  PROVE DriftInv'
<1>1. ASSUME NEW d \in Clients, NEW b \in Agents, config'[d][b] = "enabled"
      PROVE config[d][b] = "enabled"
  BY <1>1 DEF PatchAgent, CatalogTypeOK
<1>2. SyncsSound' /\ LocksApart'
  BY DEF PatchAgent, DriftInv, SyncsSound, LocksApart, Locked
<1>3. LossSeen'
  BY <1>1 DEF PatchAgent, DriftInv, LossSeen
<1>4. DriftKnown'
  BY <1>1 DEF PatchAgent, DriftInv, DriftKnown
<1> QED
  BY <1>2, <1>3, <1>4 DEF DriftInv

\* A transaction that begins or reads the rows of its answer holds nothing.
LEMMA FreeDrift ==
  ASSUME CatalogTypeOK, DriftInv, UNCHANGED <<catalog, config, noted, slipped>>,
         NEW s \in Syncers, NEW x, Free(x), sync' = [sync EXCEPT ![s] = x]
  PROVE DriftInv'
<1>1. \A t \in Syncers : sync'[t] = sync[t] \/ Free(sync'[t])
  BY DEF CatalogTypeOK
<1> QED
  BY <1>1, QuietDrift

\* A catalog with no synchronisation under way holds no lock.
LEMMA NoSyncFree == Free(NoSync)
BY DEF Free, NoSync, Sound

\* No step of the catalog makes a client miss an event.
LEMMA CatalogStepDrift ==
  ASSUME CatalogTypeOK, DriftInv, CatalogStep
  PROVE DriftInv'
<1>1. CASE \E i \in Items : EngineChanges(i)
  BY <1>1, QuietDrift DEF EngineChanges
<1>2. ASSUME NEW s \in Syncers, NEW kind \in {"agents", "numbers"}, NEW answer,
             SyncBegins(s, kind, answer)
      PROVE DriftInv'
  <2>1. PICK x : x = [NoSync EXCEPT !.pc = "load", !.kind = kind, !.got = answer]
    OBVIOUS
  <2>2. Free(x)
    BY <2>1 DEF NoSync, Free, Sound
  <2> QED
    BY <1>2, <2>1, <2>2, FreeDrift DEF SyncBegins
<1>3. ASSUME NEW s \in Syncers, LoadSeen(s) PROVE DriftInv'
  <2>1. PICK x : x = [sync[s] EXCEPT !.pc = "mark",
                        !.new = {i \in sync[s].got : catalog[i] = "unknown"},
                        !.back = {i \in sync[s].got : catalog[i] = "missing"}]
    OBVIOUS
  <2>2. sync' = [sync EXCEPT ![s] = x]
    BY <1>3, <2>1 DEF LoadSeen
  <2>3. sync[s] \in Sync
    BY DEF CatalogTypeOK
  <2>4. Free(x)
    BY <2>1, <2>3 DEF DriftInv, SyncsSound, Free, Sound, Sync
  <2> QED
    BY <1>3, <2>2, <2>4, FreeDrift DEF LoadSeen
<1>4. ASSUME NEW s \in Syncers, SyncAborts(s) \/ SyncFails(s) PROVE DriftInv'
  BY <1>4, NoSyncFree, FreeDrift DEF SyncAborts, SyncFails, Ends
<1>5. ASSUME NEW s \in Syncers, SyncStep(s) PROVE DriftInv'
  BY <1>3, <1>4, <1>5, MarkDrift, DetectKeepsDrift, CommitKeepsDrift DEF SyncStep
<1>6. ASSUME NEW s \in Syncers, LoopLists(s) PROVE DriftInv'
  BY <1>2, <1>6 DEF LoopLists
<1>7. ASSUME NEW s \in Syncers, NEW kind \in {"agents", "numbers"},
             OperatorLists(s, kind) \/ AnswerMalformed(s, kind)
      PROVE DriftInv'
  BY <1>2, <1>7 DEF OperatorLists, AnswerMalformed
<1>8. ASSUME NEW o \in Operators, NEW c \in Clients,
             \/ \E wanted \in SUBSET Agents : LoadAgents(o, c, wanted)
             \/ \E wanted \in SUBSET Numbers : LoadNumbers(o, c, wanted)
      PROVE DriftInv'
  BY <1>8, QuietDrift DEF LoadAgents, LoadNumbers, LoadEdit
<1>9. ASSUME NEW o \in Operators, CommitNumbers(o) \/ EditRefused(o) PROVE DriftInv'
  BY <1>9, QuietDrift DEF CommitNumbers, EditRefused
<1> QED
  BY <1>1, <1>4, <1>5, <1>6, <1>7, <1>8, <1>9, CommitAgentsDrift, PatchDrift DEF CatalogStep

=============================================================================
