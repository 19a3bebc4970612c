--------------------------- MODULE TenancyProofs ---------------------------
(***************************************************************************)
(* Proofs about Tenancy: types, what becomes of minted keys, how long a    *)
(* key that was taken back is still admitted, which counters of the        *)
(* attempt limiter are left without a time to live, and how many attempts  *)
(* the limiter lets through.                                               *)
(***************************************************************************)
EXTENDS Tenancy, FiniteSetTheorems, WellFoundedInduction, TLAPS

-----------------------------------------------------------------------------
(* Shapes and types.                                                       *)

\* What a request holds follows from what it does next.
LEMMA JobShape ==
  ASSUME NEW j \in Job
  PROVE /\ j.pc \in {"incr", "expire"} => j \in LimitJob
        /\ j.pc = "find" => j \in FindJob
        /\ j.pc \in {"approve", "delete"} => j \in ClientJob
        /\ j.pc = "insert" => j \in InsertJob
        /\ j.pc = "status" => j \in StatusJob
        /\ j.pc = "mint" => j \in MintJob
        /\ j.pc \in {"link", "reply", "answered"} => j \in MintedJob
        /\ j.pc \in {"resolve", "revoke"} => j \in KeyJob
        /\ j.pc = "store" => j \in StoreJob
        /\ j.pc = "admitted" => j \in AdmittedJob
BY DEF Job, Idle, LimitJob, FindJob, ClientJob, InsertJob, StatusJob, MintJob, MintedJob,
   KeyJob, StoreJob, AdmittedJob

\* A request that moves on is typed if its new state is.
LEMMA GotoType ==
  ASSUME TypeOK, NEW r \in Requests, NEW s \in Job, Goto(r, s)
  PROVE job' \in [Requests -> Job]
BY DEF TypeOK, Goto

\* A request that begins is typed if its first state is.
LEMMA BeginType ==
  ASSUME TypeOK, NEW r \in Requests, NEW s \in Job, Begin(r, s)
  PROVE /\ job' \in [Requests -> Job]
        /\ spent' \in [requests : Nat, faults : Nat]
BY GotoType DEF TypeOK, Begin

\* So is what a commit leaves.
LEMMA CommitType ==
  ASSUME TypeOK, NEW cs \in [Clients -> ClientStatus], NEW ks \in [Keys -> KeyRow],
         Commit(cs, ks)
  PROVE /\ client' \in [Clients -> ClientStatus]
        /\ key' \in [Keys -> KeyRow]
        /\ ended' \in [Keys -> Times]
BY DEF TypeOK, LimitTypeOK, Commit

\* A key is minted for a client.
LEMMA MintedType ==
  ASSUME TypeOK, NEW k \in Keys, NEW c \in Clients
  PROVE Minted(k, c) \in [Keys -> KeyRow]
BY DEF TypeOK, Minted, KeyRow, KeyStatus

\* A cache with an entry put in or dropped is still a cache.
LEMMA CacheType ==
  ASSUME TypeOK, NEW p \in Procs
  PROVE /\ InvalidateAll(p) => cache' \in [Procs -> [Keys -> Entry \cup {NoEntry}]]
        /\ \A k \in Keys, e \in Entry \cup {NoEntry} :
             [cache EXCEPT ![p][k] = e] \in [Procs -> [Keys -> Entry \cup {NoEntry}]]
<1> DEFINE Kept == Entry \cup {NoEntry}
<1>1. cache \in [Procs -> [Keys -> Kept]] /\ NoEntry \in Kept
  BY DEF TypeOK
<1> HIDE DEF Kept
<1>2. InvalidateAll(p) => cache' \in [Procs -> [Keys -> Kept]]
  <2>1. [k \in Keys |-> NoEntry] \in [Keys -> Kept]
    BY <1>1
  <2> QED
    BY <1>1, <2>1 DEF InvalidateAll
<1>3. ASSUME NEW k \in Keys, NEW e \in Kept
      PROVE [cache EXCEPT ![p][k] = e] \in [Procs -> [Keys -> Kept]]
  <2>1. [cache[p] EXCEPT ![k] = e] \in [Keys -> Kept]
    BY <1>1, <1>3
  <2> QED
    BY <1>1, <2>1
<1> QED
  BY <1>2, <1>3 DEF Kept

\* A window of attempts is one before and after an attempt.
LEMMA MemoryType ==
  ASSUME TypeOK, NEW p \in Procs, NEW b \in Buckets, NEW kept, NEW over,
         MemoryHit(p, b, kept, over)
  PROVE /\ attempts' \in [Procs -> [Buckets -> [Times -> Nat]]]
        /\ resets' \in [Counters -> Nat]
<1> DEFINE window == InWindow(p, b, kept)
<1>1. window \in [Times -> Nat] /\ NoAttempts \in [Times -> Nat]
  BY DEF TypeOK, LimitTypeOK, InWindow, NoAttempts
<1>2. [window EXCEPT ![now] = @ + 1] \in [Times -> Nat]
  BY <1>1 DEF TypeOK, LimitTypeOK
<1>3. \A d \in Buckets : attempts[p][d] \in [Times -> Nat]
  BY DEF TypeOK, LimitTypeOK
<1> DEFINE hit == [d \in Buckets |->
                     IF d = b THEN IF over THEN window ELSE [window EXCEPT ![now] = @ + 1]
                     ELSE IF d \in kept THEN attempts[p][d] ELSE NoAttempts]
<1>4. hit \in [Buckets -> [Times -> Nat]]
  BY <1>1, <1>2, <1>3
<1>5. attempts' = [attempts EXCEPT ![p] = hit]
  BY DEF MemoryHit
<1>6. attempts' \in [Procs -> [Buckets -> [Times -> Nat]]]
  <2> HIDE DEF hit
  <2> QED
    BY <1>4, <1>5 DEF TypeOK, LimitTypeOK
<1>7. resets' \in [Counters -> Nat]
  BY DEF MemoryHit, TypeOK, LimitTypeOK, Counters
<1> QED
  BY <1>6, <1>7

\* An accepted attempt is counted where and when it was judged.
LEMMA AcceptType ==
  ASSUME TypeOK, NEW b \in Buckets, NEW x \in Counters, Accept(b, x)
  PROVE accepted' \in [Buckets -> [Counters -> [Times -> Nat]]]
<1>1. [accepted[b][x] EXCEPT ![now] = @ + 1] \in [Times -> Nat]
  BY DEF TypeOK, LimitTypeOK
<1>2. [accepted[b] EXCEPT ![x] = [accepted[b][x] EXCEPT ![now] = @ + 1]]
        \in [Counters -> [Times -> Nat]]
  BY <1>1 DEF TypeOK, LimitTypeOK
<1>3. accepted' = [accepted EXCEPT
        ![b] = [accepted[b] EXCEPT ![x] = [accepted[b][x] EXCEPT ![now] = @ + 1]]]
  BY DEF Accept
<1> QED
  BY <1>2, <1>3 DEF TypeOK, LimitTypeOK

\* Everything is typed at the start.
LEMMA InitType == Init => TypeOK
<1> SUFFICES ASSUME Init PROVE TypeOK
  OBVIOUS
<1>1. 0 \in Times /\ Counters = Procs \cup {"redis"}
  BY LimitAssumption DEF Times, Counters
<1>2. LimitTypeOK
  <2>1. NoAttempts \in [Times -> Nat]
    BY DEF NoAttempts
  <2> QED
    BY <1>1, <2>1 DEF Init, LimitInit, LimitTypeOK
<1>3. client \in [Clients -> ClientStatus] /\ key \in [Keys -> KeyRow] /\ shown \subseteq Keys
  BY DEF Init, ClientStatus, KeyRow, KeyStatus
<1> QED
  BY <1>1, <1>2, <1>3 DEF Init, TypeOK, Job

-----------------------------------------------------------------------------
(* How long a key that was taken back is still admitted.                   *)

\* The key was usable at time t, and ceased to be no earlier, if it did.
UsableAt(k, t) == t <= now /\ (Usable(k) \/ t <= ended[k])

InDatabase(k) == key[k].status # "unused"

\* A key has an owner from the commit that mints it.
RowsOwned == \A k \in Keys : InDatabase(k) <=> key[k].owner \in Clients

\* An entry repeats what a read has seen, and was stored after that.
EntriesHonest ==
  \A p \in Procs, k \in Keys :
    cache[p][k] # NoEntry => /\ cache[p][k].since <= cache[p][k].stored
                             /\ cache[p][k].stored <= now
                             /\ UsableAt(k, cache[p][k].since)
                             /\ InDatabase(k)

\* So does a resolution about to store one, and an admission bears its age; a
\* raw key is handed out for a row that exists.
RequestHonest(j) ==
  /\ j.pc \in {"store", "admitted", "link", "reply"} => InDatabase(j.key)
  /\ j.pc = "store" => UsableAt(j.key, j.since)
  /\ j.pc = "admitted" =>
       /\ j.at <= now
       /\ Usable(j.key) \/ j.at < ended[j.key] + CacheTTL + j.delay
  /\ j.pc = "answered" => j.key \in shown

RequestsHonest == \A r \in Requests : RequestHonest(job[r])

Honest == RowsOwned /\ EntriesHonest /\ RequestsHonest

-----------------------------------------------------------------------------
(* Every step keeps the types.                                             *)

\* A request from a cached key is typed: the entry was stored after its read.
LEMMA AdmittedType ==
  ASSUME TypeOK, NEW k \in Keys, NEW e \in Entry, e.since <= e.stored
  PROVE Admitted(k, e) \in Job
<1>1. e.stored - e.since \in Times
  BY LimitAssumption DEF Entry, Times
<1>2. now \in Times
  BY DEF TypeOK, LimitTypeOK
<1> QED
  BY <1>1, <1>2 DEF Admitted, Job, AdmittedJob

\* A request begins: of an operator or of a caller.
LEMMA BeginTypes ==
  ASSUME TypeOK, Honest, NEW r \in Requests, OperatorStep(r) \/ CallerStep(r)
  PROVE TypeOK'
<1> USE DEF tenantVars, handVars, limitVars
<1>1. ASSUME NEW s \in Job, Begin(r, s),
             UNCHANGED <<now, limitVars, tenantVars, handVars, redisUp>>,
             cache' \in [Procs -> [Keys -> Entry \cup {NoEntry}]]
      PROVE TypeOK'
  BY <1>1, BeginType DEF TypeOK, LimitTypeOK
<1>2. cache \in [Procs -> [Keys -> Entry \cup {NoEntry}]] /\ HostOf[r] \in Procs
      /\ NoEntry \in Entry \cup {NoEntry}
  BY TenancyAssumption DEF TypeOK
<1>3. ASSUME NEW c \in Clients, AdminCreate(r, c) PROVE TypeOK'
  <2>1. PICK new \in {"pending", "active"} :
          Begin(r, [pc |-> "insert", client |-> c, new |-> new])
    BY <1>3 DEF AdminCreate
  <2>2. [pc |-> "insert", client |-> c, new |-> new] \in Job
    BY DEF Job, InsertJob
  <2>3. UNCHANGED <<now, limitVars, tenantVars, cache, handVars, redisUp>>
    BY <1>3 DEF AdminCreate
  <2> QED
    BY <1>1, <1>2, <2>1, <2>2, <2>3
<1>4. ASSUME NEW c \in Clients, StartApprove(r, c) PROVE TypeOK'
  <2>1. [pc |-> "approve", client |-> c] \in Job
    BY DEF Job, ClientJob
  <2> QED
    BY <1>1, <1>2, <1>4, <2>1 DEF StartApprove
<1>5. ASSUME NEW c \in Clients, ChangeStatus(r, c) PROVE TypeOK'
  <2>1. PICK new \in {"rejected", "suspended", "active"} :
          /\ Begin(r, [pc |-> "status", client |-> c, seen |-> client[c], new |-> new])
          /\ IF new = "active" THEN UNCHANGED cache ELSE InvalidateAll(HostOf[r])
    BY <1>5 DEF ChangeStatus
  <2>2. [pc |-> "status", client |-> c, seen |-> client[c], new |-> new] \in Job
    BY <1>5 DEF Job, StatusJob, ChangeStatus, Exists, Rows
  <2>3. UNCHANGED <<now, limitVars, tenantVars, handVars, redisUp>>
    BY <1>5 DEF ChangeStatus
  <2> QED
    BY <1>1, <1>2, <2>1, <2>2, <2>3, CacheType
<1>6. ASSUME NEW c \in Clients, DeleteClient(r, c) PROVE TypeOK'
  <2>1. [pc |-> "delete", client |-> c] \in Job
    BY DEF Job, ClientJob
  <2> QED
    BY <1>1, <1>2, <1>6, <2>1, CacheType DEF DeleteClient
<1>7. ASSUME NEW c \in Clients, AdminIssue(r, c) PROVE TypeOK'
  <2>1. MintFor(c, FALSE) \in Job
    BY DEF Job, MintJob, MintFor
  <2> QED
    BY <1>1, <1>2, <1>7, <2>1 DEF AdminIssue
<1>8. ASSUME NEW k \in Keys, AdminRevoke(r, k) PROVE TypeOK'
  <2>1. [pc |-> "revoke", key |-> k] \in Job
    BY DEF Job, KeyJob
  <2> QED
    BY <1>1, <1>2, <1>8, <2>1, CacheType DEF AdminRevoke, InvalidateKey
<1>9. ASSUME NEW c \in Clients, ArriveLimited(r, c) PROVE TypeOK'
  <2>1. PICK purpose \in Purpose :
          Begin(r, [pc |-> "incr", client |-> c, purpose |-> purpose,
                    bucket |-> IF purpose = "register" THEN RegisterBucket
                               ELSE LookupBucket])
    BY <1>9 DEF ArriveLimited
  <2>2. [pc |-> "incr", client |-> c, purpose |-> purpose,
         bucket |-> IF purpose = "register" THEN RegisterBucket ELSE LookupBucket] \in Job
    BY TenancyAssumption DEF Job, LimitJob
  <2>3. UNCHANGED <<now, limitVars, tenantVars, cache, handVars, redisUp>>
    BY <1>9 DEF ArriveLimited
  <2> QED
    BY <1>1, <1>2, <2>1, <2>2, <2>3
<1>10. ASSUME NEW k \in Keys, Present(r, k) PROVE TypeOK'
  <2>1. UNCHANGED <<now, limitVars, tenantVars, cache, handVars, redisUp>>
    BY <1>10 DEF Present
  <2>2. CASE Cached(HostOf[r], k)
    <3>1. cache[HostOf[r]][k] \in Entry
      BY <1>2, <2>2 DEF Cached
    <3>2. Admitted(k, cache[HostOf[r]][k]) \in Job
      BY <1>2, <2>2, <3>1, AdmittedType DEF Cached, Honest, EntriesHonest
    <3> QED
      BY <1>1, <1>2, <1>10, <2>1, <2>2, <3>2 DEF Present
  <2>3. CASE ~Cached(HostOf[r], k)
    <3>1. [pc |-> "resolve", key |-> k] \in Job
      BY DEF Job, KeyJob
    <3> QED
      BY <1>1, <1>2, <1>10, <2>1, <2>3, <3>1 DEF Present
  <2> QED
    BY <2>2, <2>3
<1> QED
  BY <1>3, <1>4, <1>5, <1>6, <1>7, <1>8, <1>9, <1>10 DEF OperatorStep, CallerStep

\* An attempt is counted: in Redis, or in the memory of a process.
LEMMA LimiterTypes ==
  ASSUME TypeOK, NEW r \in Requests, RedisCounts(r) \/ RedisExpires(r) \/ RedisRaises(r)
  PROVE TypeOK'
<1> USE DEF tenantVars, handVars, limitVars
<1> DEFINE j == job[r]
<1>0. j \in LimitJob /\ job \in [Requests -> Job]
  BY JobShape DEF TypeOK, RedisCounts, RedisExpires, RedisRaises
<1>1. j.bucket \in Buckets /\ HostOf[r] \in Procs /\ Procs \subseteq Counters
      /\ "redis" \in Counters
  BY <1>0, TenancyAssumption DEF LimitJob, Counters
<1>2. /\ [pc |-> "find", client |-> j.client, purpose |-> j.purpose] \in Job
      /\ [j EXCEPT !.pc = "expire"] \in Job
      /\ Idle \in Job
  BY <1>0 DEF Job, LimitJob, FindJob
<1>3. ASSUME NEW x \in Counters,
             \/ Goto(r, Idle) /\ UNCHANGED accepted
             \/ Goto(r, [j EXCEPT !.pc = "expire"]) /\ UNCHANGED accepted
             \/ LetThrough(r) /\ Accept(j.bucket, x)
      PROVE /\ job' \in [Requests -> Job]
            /\ accepted' \in [Buckets -> [Counters -> [Times -> Nat]]]
  <2>1. accepted \in [Buckets -> [Counters -> [Times -> Nat]]]
    BY DEF TypeOK, LimitTypeOK
  <2> QED
    BY <1>1, <1>2, <1>3, <2>1, GotoType, AcceptType DEF LetThrough
<1>4. CASE RedisCounts(r)
  <2>1. /\ job' \in [Requests -> Job]
        /\ accepted' \in [Buckets -> [Counters -> [Times -> Nat]]]
    BY <1>1, <1>3, <1>4 DEF RedisCounts
  <2>2. counter' \in [Buckets -> Nat]
    BY <1>1, <1>4 DEF RedisCounts, Incr, TypeOK, LimitTypeOK
  <2> QED
    BY <1>4, <2>1, <2>2 DEF RedisCounts, TypeOK, LimitTypeOK
<1>5. CASE RedisExpires(r)
  <2>1. /\ job' \in [Requests -> Job]
        /\ accepted' \in [Buckets -> [Counters -> [Times -> Nat]]]
    BY <1>1, <1>3, <1>5 DEF RedisExpires
  <2>2. expiry' \in [Buckets -> Nat] /\ orphaned' \subseteq Buckets
    BY <1>1, <1>5, LimitAssumption DEF RedisExpires, Expire, TypeOK, LimitTypeOK, Times
  <2> QED
    BY <1>5, <2>1, <2>2 DEF RedisExpires, TypeOK, LimitTypeOK
<1>6. CASE RedisRaises(r)
  <2>1. PICK kept \in Retained(HostOf[r]), over \in BOOLEAN :
          /\ MemoryHit(HostOf[r], j.bucket, kept, over)
          /\ IF over THEN Goto(r, Idle) /\ UNCHANGED accepted
             ELSE LetThrough(r) /\ Accept(j.bucket, HostOf[r])
    BY <1>6 DEF RedisRaises
  <2>2. /\ job' \in [Requests -> Job]
        /\ accepted' \in [Buckets -> [Counters -> [Times -> Nat]]]
    BY <1>1, <1>3, <2>1
  <2>3. /\ attempts' \in [Procs -> [Buckets -> [Times -> Nat]]]
        /\ resets' \in [Counters -> Nat]
    BY <1>1, <2>1, MemoryType
  <2>4. counter' = counter \/ Incr(j.bucket)
    BY <1>6 DEF RedisRaises
  <2>5. counter' \in [Buckets -> Nat]
    <3>1. counter \in [Buckets -> Nat]
      BY DEF TypeOK, LimitTypeOK
    <3>2. Incr(j.bucket) => counter' \in [Buckets -> Nat]
      BY <1>1, <3>1 DEF Incr
    <3> QED
      BY <2>4, <3>1, <3>2
  <2>6. orphaned' \in {orphaned, orphaned \cup {j.bucket}}
    BY <1>6 DEF RedisRaises
  <2>7. orphaned' \subseteq Buckets
    BY <1>1, <2>6 DEF TypeOK, LimitTypeOK
  <2> QED
    BY <1>6, <2>2, <2>3, <2>5, <2>7 DEF RedisRaises, TypeOK, LimitTypeOK
<1> QED
  BY <1>4, <1>5, <1>6

\* A request of an operator or a tenant goes on.
LEMMA RequestTypes ==
  ASSUME TypeOK, Honest, NEW r \in Requests, RequestStep(r)
  PROVE TypeOK'
<1> USE DEF tenantVars, handVars, limitVars
<1> DEFINE j == job[r]
           Caches == [Procs -> [Keys -> Entry \cup {NoEntry}]]
<1>0. j \in Job /\ Idle \in Job /\ HostOf[r] \in Procs /\ cache \in Caches
      /\ client \in [Clients -> ClientStatus] /\ key \in [Keys -> KeyRow]
  BY TenancyAssumption DEF TypeOK, Job
<1>1. ASSUME NEW s \in Job, Goto(r, s), cache' \in Caches,
             UNCHANGED <<now, limitVars, tenantVars, handVars, redisUp, spent>>
      PROVE TypeOK'
  BY <1>1, GotoType DEF TypeOK, LimitTypeOK
<1>2. ASSUME NEW s \in Job, Goto(r, s), NEW cs \in [Clients -> ClientStatus],
             NEW ks \in [Keys -> KeyRow], Commit(cs, ks),
             approvals' \in [Clients -> Nat],
             UNCHANGED <<now, limitVars, cache, handVars, redisUp, spent>>
      PROVE TypeOK'
  BY <1>2, GotoType, CommitType DEF TypeOK, LimitTypeOK
<1>3. ASSUME NEW s \in Job, Goto(r, s), link' \in [Keys -> Nat], shown' \subseteq Keys,
             UNCHANGED <<now, limitVars, tenantVars, cache, unsaved, lost, redisUp, spent>>
      PROVE TypeOK'
  BY <1>3, GotoType DEF TypeOK, LimitTypeOK
<1>4. approvals \in [Clients -> Nat] /\ link \in [Keys -> Nat] /\ shown \subseteq Keys
  BY DEF TypeOK
<1>5. CASE FindToRegister(r) \/ CommitInsert(r)
  <2>1. j.client \in Clients
    BY <1>0, <1>5, JobShape DEF FindToRegister, CommitInsert, FindJob, InsertJob
  <2>2. CASE FindToRegister(r)
    <3>1. [pc |-> "insert", client |-> j.client, new |-> "pending"] \in Job
      BY <2>1 DEF Job, InsertJob
    <3> QED
      BY <1>0, <1>1, <2>2, <3>1 DEF FindToRegister
  <2>3. CASE CommitInsert(r)
    <3>1. j.new \in ClientStatus
      BY <1>0, <2>3, JobShape DEF CommitInsert, InsertJob, ClientStatus
    <3>2. (IF client[j.client] = "absent" THEN [client EXCEPT ![j.client] = j.new]
           ELSE client) \in [Clients -> ClientStatus]
      BY <1>0, <2>1, <3>1
    <3> QED
      BY <1>0, <1>2, <1>4, <2>3, <3>2 DEF CommitInsert
  <2> QED
    BY <1>5, <2>2, <2>3
<1>6. CASE CommitApprove(r) \/ ApproveFails(r)
  <2>1. j.client \in Clients
    BY <1>0, <1>6, JobShape DEF CommitApprove, ApproveFails, ClientJob
  <2>2. CASE CommitApprove(r)
    <3>1. PICK k \in Keys : /\ Commit([client EXCEPT ![j.client] = "active"],
                                       Minted(k, j.client))
                            /\ Goto(r, [pc |-> "link", client |-> j.client, key |-> k])
      BY <2>2 DEF CommitApprove
    <3>2. [pc |-> "link", client |-> j.client, key |-> k] \in Job
      BY <2>1 DEF Job, MintedJob
    <3>3. [client EXCEPT ![j.client] = "active"] \in [Clients -> ClientStatus]
      BY <1>0 DEF ClientStatus
    <3>4. approvals' \in [Clients -> Nat]
      BY <1>4, <2>1, <2>2 DEF CommitApprove
    <3> QED
      BY <1>2, <2>1, <2>2, <3>1, <3>2, <3>3, <3>4, MintedType DEF CommitApprove
  <2> QED
    BY <1>0, <1>1, <1>6, <2>2 DEF ApproveFails
<1>7. CASE StoreLink(r) \/ LinkFails(r) \/ Reply(r)
  <2>1. j \in MintedJob
    BY <1>0, <1>7, JobShape DEF StoreLink, LinkFails, Reply
  <2>2. [j EXCEPT !.pc = "reply"] \in Job /\ j.key \in Keys
    BY <2>1 DEF Job, MintedJob
  <2>3. now + LinkTTL \in Nat
    BY TenancyAssumption, LimitAssumption DEF TypeOK, LimitTypeOK, Times
  <2>4. CASE StoreLink(r)
    <3>1. link' \in [Keys -> Nat]
      BY <1>4, <2>3, <2>4 DEF StoreLink
    <3> QED
      BY <1>3, <1>4, <2>2, <2>4, <3>1 DEF StoreLink
  <2>5. CASE LinkFails(r)
    BY <1>0, <1>1, <2>2, <2>5 DEF LinkFails
  <2>6. CASE Reply(r)
    BY <1>0, <1>3, <1>4, <2>2, <2>6 DEF Reply
  <2> QED
    BY <1>7, <2>4, <2>5, <2>6
<1>8. CASE CommitStatus(r) \/ CommitDelete(r)
  <2>1. CASE CommitStatus(r)
    <3>1. j \in StatusJob
      BY <1>0, <2>1, JobShape DEF CommitStatus
    <3>2. [client EXCEPT ![j.client] = j.new] \in [Clients -> ClientStatus]
      BY <1>0, <3>1 DEF StatusJob, Rows, ClientStatus
    <3>3. approvals' \in [Clients -> Nat]
      BY <1>4, <2>1 DEF CommitStatus
    <3> QED
      BY <1>0, <1>2, <2>1, <3>2, <3>3 DEF CommitStatus
  <2>2. CASE CommitDelete(r)
    <3>1. [client EXCEPT ![j.client] = "deleted"] \in [Clients -> ClientStatus]
      BY <1>0 DEF ClientStatus
    <3>2. [k \in Keys |-> IF key[k].owner = j.client
                           THEN [key[k] EXCEPT !.status = "deleted"] ELSE key[k]]
            \in [Keys -> KeyRow]
      BY <1>0 DEF KeyRow, KeyStatus
    <3> QED
      BY <1>0, <1>2, <1>4, <2>2, <3>1, <3>2 DEF CommitDelete
  <2> QED
    BY <1>8, <2>1, <2>2
<1>9. CASE FindToLookup(r)
  <2>1. j.client \in Clients
    BY <1>0, <1>9, JobShape DEF FindToLookup, FindJob
  <2>2. MintFor(j.client, TRUE) \in Job
    BY <2>1 DEF MintFor, Job, MintJob
  <2> QED
    BY <1>0, <1>1, <1>9, <2>2 DEF FindToLookup
<1>10. CASE CommitMint(r) \/ AnswerFirst(r)
  <2>1. j.client \in Clients
    BY <1>0, <1>10, JobShape DEF CommitMint, AnswerFirst, MintJob
  <2>2. ASSUME NEW k \in Keys
        PROVE /\ [pc |-> "reply", client |-> j.client, key |-> k] \in Job
              /\ [pc |-> "answered", client |-> j.client, key |-> k] \in Job
    BY <2>1 DEF Job, MintedJob
  <2>3. CASE CommitMint(r) /\ Exists(j.client)
    BY <1>0, <1>2, <1>4, <2>1, <2>2, <2>3, MintedType DEF CommitMint
  <2>4. CASE CommitMint(r) /\ ~Exists(j.client)
    BY <1>0, <1>1, <1>4, <2>4 DEF CommitMint
  <2>5. CASE AnswerFirst(r)
    BY <1>3, <1>4, <2>2, <2>5 DEF AnswerFirst
  <2> QED
    BY <1>10, <2>3, <2>4, <2>5
<1>11. CASE CommitAnswered(r) \/ CommitFails(r)
  <2>1. j.client \in Clients /\ j.key \in Keys
    BY <1>0, <1>11, JobShape DEF CommitAnswered, CommitFails, MintedJob
  <2>2. CASE CommitAnswered(r)
    BY <1>0, <1>2, <1>4, <2>1, <2>2, MintedType DEF CommitAnswered
  <2>3. CASE CommitFails(r)
    <3>1. spent' \in [requests : Nat, faults : Nat]
      BY <2>3 DEF CommitFails, Fault, TypeOK
    <3>2. unsaved' \subseteq Keys
      BY <2>1, <2>3 DEF CommitFails, TypeOK
    <3>3. job' \in [Requests -> Job]
      BY <1>0, <2>3, GotoType DEF CommitFails
    <3> QED
      BY <2>3, <3>1, <3>2, <3>3 DEF CommitFails, TypeOK, LimitTypeOK
  <2> QED
    BY <1>11, <2>2, <2>3
<1>12. CASE CommitRevoke(r)
  <2>1. [key EXCEPT ![j.key].status = IF @ = "active" THEN "revoked" ELSE @]
          \in [Keys -> KeyRow]
    BY <1>0 DEF KeyRow, KeyStatus
  <2> QED
    BY <1>0, <1>2, <1>4, <1>12, <2>1 DEF CommitRevoke
<1>13. CASE LookUp(r)
  <2>1. j.key \in Keys /\ now \in Times
    BY <1>0, <1>13, JobShape DEF LookUp, KeyJob, TypeOK, LimitTypeOK
  <2>2. [pc |-> "store", key |-> j.key, since |-> now] \in Job
    BY <2>1 DEF Job, StoreJob
  <2> QED
    BY <1>0, <1>1, <1>13, <2>2 DEF LookUp
<1>14. CASE Store(r)
  <2>1. j \in StoreJob /\ now \in Times
    BY <1>0, <1>14, JobShape DEF Store, TypeOK, LimitTypeOK
  <2>2. PICK e : e = [since |-> j.since, stored |-> now]
    OBVIOUS
  <2>3. e \in Entry /\ e.since <= e.stored /\ j.key \in Keys
    BY <1>14, <2>1, <2>2 DEF Entry, StoreJob, Store, Honest, RequestsHonest, RequestHonest, UsableAt
  <2>4. Admitted(j.key, e) \in Job
    BY <2>3, AdmittedType
  <2>5. cache' = [cache EXCEPT ![HostOf[r]][j.key] = e]
    BY <1>14, <2>2 DEF Store
  <2>6. cache' \in Caches
    BY <1>0, <2>3, <2>5, CacheType
  <2> QED
    BY <1>1, <1>14, <2>2, <2>4, <2>6 DEF Store
<1>15. CASE StoreFails(r) \/ Finish(r)
  BY <1>0, <1>1, <1>15 DEF StoreFails, Finish
<1>16. CASE IssueOwn(r) \/ RevokeOwn(r)
  <2>1. j.key \in Keys
    BY <1>0, <1>16, JobShape DEF IssueOwn, RevokeOwn, AdmittedJob
  <2>2. CASE IssueOwn(r)
    <3>1. key[j.key].owner \in Clients
      BY <2>1, <2>2 DEF IssueOwn, Honest, RequestsHonest, RequestHonest, RowsOwned, InDatabase
    <3> QED
      BY <1>0, <1>1, <2>2, <3>1 DEF IssueOwn, MintFor, Job, MintJob
  <2>3. CASE RevokeOwn(r)
    <3>1. PICK k \in Keys : Goto(r, [pc |-> "revoke", key |-> k]) /\ InvalidateKey(HostOf[r], k)
      BY <2>3 DEF RevokeOwn
    <3>2. [pc |-> "revoke", key |-> k] \in Job
      BY DEF Job, KeyJob
    <3> QED
      BY <1>0, <1>1, <2>3, <3>1, <3>2, CacheType DEF RevokeOwn, InvalidateKey
  <2> QED
    BY <1>16, <2>2, <2>3
<1>17. CASE RedisCounts(r) \/ RedisExpires(r) \/ RedisRaises(r)
  BY <1>17, LimiterTypes
<1> QED
  BY <1>5, <1>6, <1>7, <1>8, <1>9, <1>10, <1>11, <1>12, <1>13, <1>14, <1>15, <1>16, <1>17
     DEF RequestStep

\* Time passes, Redis comes and goes, a link is burnt, a process dies.
LEMMA WorldTypes ==
  ASSUME TypeOK,
         \/ \E k \in Keys : BurnLink(k)
         \/ \E p \in Procs : Crash(p)
         \/ Tick \/ RedisGoes \/ RedisReturns
  PROVE TypeOK'
<1> USE DEF tenantVars, handVars, limitVars
<1>1. CASE \E k \in Keys : BurnLink(k)
  BY <1>1 DEF BurnLink, TypeOK, LimitTypeOK
<1>2. ASSUME NEW p \in Procs, Crash(p) PROVE TypeOK'
  <2> DEFINE Dying(pc) == {r \in Requests : HostOf[r] = p /\ job[r].pc \in pc}
  <2>1. spent' \in [requests : Nat, faults : Nat]
    BY <1>2 DEF Crash, Fault, TypeOK
  <2>2. job' \in [Requests -> Job]
    BY <1>2 DEF Crash, TypeOK, Job
  <2>3. cache' \in [Procs -> [Keys -> Entry \cup {NoEntry}]]
    BY <1>2, CacheType DEF Crash
  <2>4. /\ attempts' \in [Procs -> [Buckets -> [Times -> Nat]]]
        /\ resets' \in [Counters -> Nat]
    <3>1. [b \in Buckets |-> NoAttempts] \in [Buckets -> [Times -> Nat]]
      BY DEF NoAttempts
    <3>2. p \in Counters
      BY DEF Counters
    <3> HIDE DEF Dying
    <3> QED
      BY <1>2, <3>1, <3>2 DEF Crash, ForgetAttempts, TypeOK, LimitTypeOK
  <2>5. \A r \in Dying({"link", "reply", "answered"}) : job[r].key \in Keys
    BY JobShape DEF TypeOK, MintedJob
  <2>6. \A r \in Dying({"expire"}) : job[r].bucket \in Buckets
    BY JobShape DEF TypeOK, LimitJob
  <2>7. /\ lost' = lost \cup {job[r].key : r \in Dying({"link", "reply"})}
        /\ unsaved' = unsaved \cup {job[r].key : r \in Dying({"answered"})}
        /\ orphaned' = orphaned \cup
             {b \in {job[r].bucket : r \in Dying({"expire"})} : counter[b] > 0}
    BY <1>2 DEF Crash
  <2>8. lost' \subseteq Keys /\ unsaved' \subseteq Keys /\ orphaned' \subseteq Buckets
    BY <2>5, <2>6, <2>7 DEF TypeOK, LimitTypeOK
  <2> QED
    BY <1>2, <2>1, <2>2, <2>3, <2>4, <2>8 DEF Crash, TypeOK, LimitTypeOK
<1>3. CASE Tick
  <2>1. now' \in Times
    BY <1>3, LimitAssumption DEF Tick, TypeOK, LimitTypeOK, Times
  <2>2. counter' \in [Buckets -> Nat] /\ expiry' \in [Buckets -> Nat]
    BY <1>3 DEF Tick, ExpireKeys, TypeOK, LimitTypeOK
  <2>3. link' \in [Keys -> Nat]
    BY <1>3 DEF Tick, TypeOK
  <2> QED
    BY <1>3, <2>1, <2>2, <2>3 DEF Tick, TypeOK, LimitTypeOK
<1>4. CASE RedisGoes
  <2>1. spent' \in [requests : Nat, faults : Nat]
    BY <1>4 DEF RedisGoes, Fault, TypeOK
  <2> QED
    BY <1>4, <2>1 DEF RedisGoes, TypeOK, LimitTypeOK
<1>5. CASE RedisReturns
  <2>1. CASE UNCHANGED <<limitVars, link>>
    BY <1>5, <2>1 DEF RedisReturns, TypeOK, LimitTypeOK
  <2>2. CASE ForgetKeys /\ link' = [k \in Keys |-> 0] /\ UNCHANGED <<attempts, accepted>>
    <3>1. /\ counter' \in [Buckets -> Nat] /\ expiry' \in [Buckets -> Nat]
          /\ resets' \in [Counters -> Nat] /\ orphaned' \subseteq Buckets
      BY <2>2 DEF ForgetKeys, TypeOK, LimitTypeOK, Counters
    <3>2. link' \in [Keys -> Nat] /\ redisUp' \in BOOLEAN
      BY <1>5, <2>2 DEF RedisReturns
    <3> QED
      BY <1>5, <2>2, <3>1, <3>2 DEF RedisReturns, TypeOK, LimitTypeOK
  <2> QED
    BY <1>5, <2>1, <2>2 DEF RedisReturns
<1> QED
  BY <1>1, <1>2, <1>3, <1>4, <1>5

\* Every step keeps the types.
LEMMA NextType == TypeOK /\ Honest /\ [Next]_vars => TypeOK'
<1> SUFFICES ASSUME TypeOK, Honest, [Next]_vars PROVE TypeOK'
  OBVIOUS
<1>1. CASE UNCHANGED vars
  BY <1>1 DEF vars, limitVars, TypeOK, LimitTypeOK
<1> QED
  BY <1>1, BeginTypes, RequestTypes, WorldTypes DEF Next

-----------------------------------------------------------------------------
(* The invariant is inductive.                                             *)

\* Rows change only by commits, which note when a key ceases to be usable, and
\* what was minted or handed out stays so.
Noted == /\ now' >= now
         /\ shown \subseteq shown'
         /\ \A k \in Keys :
              /\ ended'[k] = IF Usable(k) /\ ~Usable(k)' THEN now ELSE ended[k]
              /\ InDatabase(k) => InDatabase(k)'

\* A step that leaves the rows alone has nothing to note.
LEMMA NothingToNote ==
  ASSUME TypeOK, RowsOwned, UNCHANGED tenantVars, now' >= now, shown \subseteq shown'
  PROVE Noted /\ RowsOwned'
BY DEF Noted, RowsOwned, InDatabase, Usable, tenantVars

\* A commit notes what it ends.
LEMMA CommitNotes ==
  ASSUME TypeOK, RowsOwned, NEW cs, NEW ks, Commit(cs, ks), UNCHANGED <<now, shown>>,
         \A k \in Keys : /\ InDatabase(k) => ks[k].status # "unused"
                         /\ ks[k].status # "unused" <=> ks[k].owner \in Clients
  PROVE Noted /\ RowsOwned'
<1>1. now' >= now
  BY LimitAssumption DEF TypeOK, LimitTypeOK, Times
<1> QED
  BY <1>1 DEF Commit, Noted, RowsOwned, InDatabase

\* A minted key is in the database, and has its owner.
LEMMA MintNotes ==
  ASSUME TypeOK, RowsOwned, NEW m \in Keys, NEW c \in Clients
  PROVE \A k \in Keys : /\ InDatabase(k) => Minted(m, c)[k].status # "unused"
                        /\ Minted(m, c)[k].status # "unused" <=> Minted(m, c)[k].owner \in Clients
BY DEF TypeOK, RowsOwned, InDatabase, Minted

\* Every step of the service does.
LEMMA NextNotes ==
  ASSUME TypeOK, RowsOwned, [Next]_vars
  PROVE Noted /\ RowsOwned'
<1> USE DEF handVars
<1>0. now' \in {now, now + 1} => now' >= now
  BY LimitAssumption DEF TypeOK, LimitTypeOK, Times
<1>1. CASE \/ UNCHANGED vars
           \/ \E r \in Requests : OperatorStep(r) \/ CallerStep(r)
           \/ \E k \in Keys : BurnLink(k)
           \/ \E p \in Procs : Crash(p)
           \/ Tick \/ RedisGoes \/ RedisReturns
  <2>1. UNCHANGED tenantVars /\ shown' = shown /\ now' \in {now, now + 1}
    BY <1>1 DEF vars, tenantVars, OperatorStep, CallerStep, AdminCreate, StartApprove,
       ChangeStatus, DeleteClient, AdminIssue, AdminRevoke, ArriveLimited, Present,
       BurnLink, Crash, Tick, RedisGoes, RedisReturns
  <2> QED
    BY <1>0, <2>1, NothingToNote
<1>2. ASSUME NEW r \in Requests, RequestStep(r) PROVE Noted /\ RowsOwned'
  <2> DEFINE j == job[r]
  <2>0. j \in Job /\ key \in [Keys -> KeyRow]
    BY DEF TypeOK
  <2>1. CASE \/ RedisCounts(r) \/ RedisExpires(r) \/ RedisRaises(r) \/ FindToRegister(r)
             \/ ApproveFails(r) \/ StoreLink(r) \/ LinkFails(r) \/ Reply(r)
             \/ FindToLookup(r) \/ AnswerFirst(r) \/ CommitFails(r) \/ LookUp(r)
             \/ Store(r) \/ StoreFails(r) \/ Finish(r) \/ IssueOwn(r) \/ RevokeOwn(r)
    <3>1. UNCHANGED tenantVars /\ shown \subseteq shown' /\ now' = now
      BY <2>1 DEF RedisCounts, RedisExpires, RedisRaises, FindToRegister, ApproveFails,
         StoreLink, LinkFails, Reply, FindToLookup, AnswerFirst, CommitFails, LookUp,
         Store, StoreFails, Finish, IssueOwn, RevokeOwn
    <3> QED
      BY <1>0, <3>1, NothingToNote
  <2>2. \A k \in Keys : /\ InDatabase(k) => key[k].status # "unused"
                        /\ key[k].status # "unused" <=> key[k].owner \in Clients
    BY DEF RowsOwned, InDatabase
  <2>3. CASE CommitInsert(r) \/ CommitStatus(r)
    BY <2>2, <2>3, CommitNotes DEF CommitInsert, CommitStatus
  <2>4. CASE CommitApprove(r)
    <3>1. j.client \in Clients
      BY <2>0, <2>4, JobShape DEF CommitApprove, ClientJob
    <3> QED
      BY <2>4, <3>1, MintNotes, CommitNotes DEF CommitApprove
  <2>5. CASE CommitDelete(r)
    <3>1. j.client \in Clients
      BY <2>0, <2>5, JobShape DEF CommitDelete, ClientJob
    <3>2. PICK ks : ks = [k \in Keys |-> IF key[k].owner = j.client
                                         THEN [key[k] EXCEPT !.status = "deleted"] ELSE key[k]]
      OBVIOUS
    <3>3. ASSUME NEW k \in Keys
          PROVE /\ InDatabase(k) => ks[k].status # "unused"
                /\ ks[k].status # "unused" <=> ks[k].owner \in Clients
      BY <2>0, <2>2, <3>1, <3>2 DEF KeyRow
    <3>4. Commit([client EXCEPT ![j.client] = "deleted"], ks) /\ UNCHANGED <<now, shown>>
      BY <2>5, <3>2 DEF CommitDelete
    <3> QED
      BY <3>3, <3>4, CommitNotes
  <2>6. CASE CommitMint(r)
    <3>1. j.client \in Clients
      BY <2>0, <2>6, JobShape DEF CommitMint, MintJob
    <3>2. CASE Exists(j.client)
      BY <2>6, <3>1, <3>2, MintNotes, CommitNotes DEF CommitMint
    <3>3. CASE ~Exists(j.client)
      BY <1>0, <2>6, <3>3, NothingToNote DEF CommitMint, tenantVars
    <3> QED
      BY <3>2, <3>3
  <2>7. CASE CommitAnswered(r)
    <3>1. j.client \in Clients /\ j.key \in Keys
      BY <2>0, <2>7, JobShape DEF CommitAnswered, MintedJob
    <3> QED
      BY <2>7, <3>1, MintNotes, CommitNotes DEF CommitAnswered
  <2>8. CASE CommitRevoke(r)
    <3>1. PICK ks : ks = [key EXCEPT ![j.key].status = IF @ = "active" THEN "revoked" ELSE @]
      OBVIOUS
    <3>2. ASSUME NEW k \in Keys
          PROVE /\ InDatabase(k) => ks[k].status # "unused"
                /\ ks[k].status # "unused" <=> ks[k].owner \in Clients
      BY <2>0, <2>2, <3>1 DEF KeyRow
    <3>3. Commit(client, ks) /\ UNCHANGED <<now, shown>>
      BY <2>8, <3>1 DEF CommitRevoke
    <3> QED
      BY <3>2, <3>3, CommitNotes
  <2> QED
    BY <1>2, <2>1, <2>3, <2>4, <2>5, <2>6, <2>7, <2>8 DEF RequestStep
<1> QED
  BY <1>1, <1>2 DEF Next

\* What was honest stays so where nothing is put in its place.
LEMMA StillHonest ==
  ASSUME TypeOK, TypeOK', Honest, Noted
  PROVE /\ \A r \in Requests : job'[r] = job[r] => RequestHonest(job[r])'
        /\ \A p \in Procs, k \in Keys :
             cache'[p][k] \in {cache[p][k], NoEntry} =>
               (cache'[p][k] # NoEntry => /\ cache'[p][k].since <= cache'[p][k].stored
                                          /\ cache'[p][k].stored <= now'
                                          /\ UsableAt(k, cache[p][k].since)'
                                          /\ InDatabase(k)')
<1>0. now \in Nat /\ now' \in Nat /\ now' >= now
  BY LimitAssumption DEF TypeOK, LimitTypeOK, Times, Noted
<1>1. ASSUME NEW k \in Keys, NEW t \in Times, UsableAt(k, t) PROVE UsableAt(k, t)'
  BY <1>0, <1>1, LimitAssumption DEF UsableAt, Noted, TypeOK, Times
<1>2. ASSUME NEW r \in Requests, job'[r] = job[r] PROVE RequestHonest(job[r])'
  <2>1. PICK j \in Job : j = job[r]
    BY DEF TypeOK
  <2>2. RequestHonest(j)
    BY <2>1 DEF Honest, RequestsHonest
  <2>3. j.pc \in {"store", "admitted", "link", "reply"} => j.key \in Keys
    BY JobShape DEF StoreJob, AdmittedJob, MintedJob
  <2>4. j.pc = "store" => j.since \in Times
    BY JobShape DEF StoreJob
  <2>5. ASSUME j.pc = "admitted"
        PROVE j.at <= now' /\ (Usable(j.key)' \/ j.at < ended'[j.key] + CacheTTL + j.delay)
    <3>1. j.at \in Nat /\ j.delay \in Nat /\ CacheTTL \in Nat /\ CacheTTL > 0
      BY <2>5, JobShape, LimitAssumption, TenancyAssumption DEF AdmittedJob, Times
    <3>2. ended[j.key] \in Nat /\ j.key \in Keys
      BY <2>3, <2>5, LimitAssumption DEF TypeOK, Times
    <3>3. ended'[j.key] = IF Usable(j.key) /\ ~Usable(j.key)' THEN now ELSE ended[j.key]
      BY <3>2 DEF Noted
    <3> QED
      BY <1>0, <2>2, <2>5, <3>1, <3>2, <3>3 DEF RequestHonest
  <2>6. RequestHonest(j)'
    BY <1>1, <2>2, <2>3, <2>4, <2>5 DEF RequestHonest, Noted
  <2> QED
    BY <1>2, <2>1, <2>6 DEF RequestHonest
<1>3. ASSUME NEW p \in Procs, NEW k \in Keys, cache'[p][k] = cache[p][k],
             cache[p][k] # NoEntry
      PROVE /\ cache[p][k].since <= cache[p][k].stored
            /\ cache[p][k].stored <= now'
            /\ UsableAt(k, cache[p][k].since)'
            /\ InDatabase(k)'
  <2>1. cache[p][k] \in Entry
    BY <1>3 DEF TypeOK
  <2>2. cache[p][k].since \in Times /\ cache[p][k].stored \in Nat
    BY <2>1, LimitAssumption DEF Entry, Times
  <2>3. /\ cache[p][k].since <= cache[p][k].stored
        /\ cache[p][k].stored <= now
        /\ UsableAt(k, cache[p][k].since)
        /\ InDatabase(k)
    BY <1>3 DEF Honest, EntriesHonest
  <2>4. UsableAt(k, cache[p][k].since)'
    <3>1. PICK t \in Times : t = cache[p][k].since
      BY <2>2
    <3>2. UsableAt(k, t)'
      BY <1>1, <2>3, <3>1
    <3> QED
      BY <1>3, <3>1, <3>2 DEF UsableAt
  <2> QED
    BY <1>0, <2>2, <2>3, <2>4 DEF Noted
<1> QED
  BY <1>2, <1>3

\* A request that moves on is honest if its new state is.
LEMMA MoveHonest ==
  ASSUME TypeOK, TypeOK', Honest, Noted, NEW r \in Requests, NEW s, Goto(r, s),
         RequestHonest(s)'
  PROVE RequestsHonest'
<1>1. ASSUME NEW q \in Requests PROVE RequestHonest(job[q])'
  <2>1. CASE q = r
    <3>1. job'[q] = s
      BY <2>1 DEF Goto, TypeOK
    <3> QED
      BY <3>1 DEF RequestHonest
  <2>2. CASE q # r
    BY <2>2, StillHonest DEF Goto, TypeOK
  <2> QED
    BY <2>1, <2>2
<1> QED
  BY <1>1 DEF RequestsHonest

\* Most states of a request say nothing of a key.
LEMMA QuietHonest ==
  ASSUME TypeOK, TypeOK', Honest, Noted, NEW r \in Requests, NEW s, Goto(r, s),
         s.pc \notin {"store", "admitted", "link", "reply", "answered"}
  PROVE RequestsHonest'
<1>1. RequestHonest(s)'
  BY DEF RequestHonest
<1> QED
  BY <1>1, MoveHonest

\* Caches that only lose entries stay honest.
LEMMA CacheHonest ==
  ASSUME TypeOK, TypeOK', Honest, Noted,
         \/ UNCHANGED cache
         \/ \E p \in Procs : InvalidateAll(p) \/ \E k \in Keys : InvalidateKey(p, k)
  PROVE EntriesHonest'
<1>1. ASSUME NEW p \in Procs, NEW k \in Keys PROVE cache'[p][k] \in {cache[p][k], NoEntry}
  BY DEF InvalidateAll, InvalidateKey, TypeOK
<1> QED
  BY <1>1, StillHonest DEF EntriesHonest, UsableAt

\* A request begins; one that presents a cached key inherits what its entry says.
LEMMA BeginHonest ==
  ASSUME TypeOK, TypeOK', Honest, Noted, NEW r \in Requests,
         OperatorStep(r) \/ CallerStep(r)
  PROVE EntriesHonest' /\ RequestsHonest'
<1>0. HostOf[r] \in Procs
  BY TenancyAssumption
<1>1. EntriesHonest'
  <2>1. UNCHANGED cache \/ InvalidateAll(HostOf[r])
          \/ \E k \in Keys : InvalidateKey(HostOf[r], k)
    BY DEF OperatorStep, CallerStep, AdminCreate, StartApprove, ChangeStatus,
       DeleteClient, AdminIssue, AdminRevoke, ArriveLimited, Present
  <2> QED
    BY <1>0, <2>1, CacheHonest
<1>2. CASE \E k \in Keys : Present(r, k) /\ Cached(HostOf[r], k)
  <2>1. PICK k \in Keys : Present(r, k) /\ Cached(HostOf[r], k)
    BY <1>2
  <2>2. PICK e : e = cache[HostOf[r]][k]
    OBVIOUS
  <2>3. /\ e \in Entry
        /\ now < e.stored + CacheTTL
        /\ UsableAt(k, e.since) /\ InDatabase(k)
    BY <1>0, <2>1, <2>2 DEF Cached, TypeOK, Honest, EntriesHonest
  <2>4. PICK s : s = Admitted(k, e)
    OBVIOUS
  <2>5. Goto(r, s) /\ UNCHANGED <<now, tenantVars>>
    BY <2>1, <2>2, <2>4 DEF Present, Begin
  <2>6. RequestHonest(s)'
    <3>1. now \in Nat /\ ended[k] \in Nat /\ CacheTTL \in Nat
          /\ e.stored \in Nat /\ e.since \in Nat
      BY <2>3, LimitAssumption, TenancyAssumption DEF TypeOK, LimitTypeOK, Times, Entry
    <3>2. s.pc = "admitted" /\ s.key = k /\ s.at = now /\ s.delay = e.stored - e.since
      BY <2>4 DEF Admitted
    <3>3. Usable(k) \/ s.at < ended[k] + CacheTTL + s.delay
      BY <2>3, <3>1, <3>2 DEF UsableAt
    <3> QED
      BY <2>3, <2>5, <3>1, <3>2, <3>3 DEF RequestHonest, InDatabase, Usable, tenantVars
  <2> QED
    BY <1>1, <2>5, <2>6, MoveHonest
<1>3. CASE ~\E k \in Keys : Present(r, k) /\ Cached(HostOf[r], k)
  <2> DEFINE Begins == \E s : /\ Goto(r, s)
                              /\ s.pc \in {"incr", "insert", "approve", "status", "delete",
                                           "mint", "revoke", "resolve"}
  <2>a. ASSUME NEW c \in Clients,
               AdminCreate(r, c) \/ StartApprove(r, c) \/ ChangeStatus(r, c)
        PROVE Begins
    BY <2>a DEF AdminCreate, StartApprove, ChangeStatus, Begin
  <2>b. ASSUME NEW c \in Clients,
               DeleteClient(r, c) \/ AdminIssue(r, c)
        PROVE Begins
    BY <2>b DEF DeleteClient, AdminIssue, Begin, MintFor
  <2>c. ASSUME NEW k \in Keys, AdminRevoke(r, k) \/ Present(r, k)
        PROVE Begins
    BY <1>3, <2>c DEF AdminRevoke, Present, Begin
  <2>d. ASSUME NEW c \in Clients, ArriveLimited(r, c)
        PROVE Begins
    <3>1. PICK purpose, bucket : Begin(r, [pc |-> "incr", client |-> c, purpose |-> purpose,
                                           bucket |-> bucket])
      BY <2>d DEF ArriveLimited
    <3> QED
      BY <3>1 DEF Begin
  <2>1. PICK s : Goto(r, s) /\ s.pc \in {"incr", "insert", "approve", "status", "delete",
                                       "mint", "revoke", "resolve"}
    BY <2>a, <2>b, <2>c, <2>d DEF OperatorStep, CallerStep
  <2>2. RequestHonest(s)'
    BY <2>1 DEF RequestHonest
  <2> QED
    BY <1>1, <2>1, <2>2, MoveHonest
<1> QED
  BY <1>2, <1>3

\* A resolution stores what it read, and admits on it.
LEMMA ResolveHonest ==
  ASSUME TypeOK, TypeOK', Honest, Noted, NEW r \in Requests, LookUp(r) \/ Store(r)
  PROVE EntriesHonest' /\ RequestsHonest'
<1> DEFINE j == job[r]
<1>0. j \in Job /\ RequestHonest(j) /\ HostOf[r] \in Procs /\ now \in Nat
  BY LimitAssumption, TenancyAssumption
     DEF TypeOK, LimitTypeOK, Times, Honest, RequestsHonest
<1>1. CASE LookUp(r)
  <2>1. EntriesHonest'
    BY <1>1, CacheHonest DEF LookUp
  <2>2. PICK s : Goto(r, s) /\ s = IF Usable(j.key)
                                   THEN [pc |-> "store", key |-> j.key, since |-> now]
                                   ELSE Idle
    BY <1>1 DEF LookUp
  <2>3. UNCHANGED <<now, tenantVars>>
    BY <1>1 DEF LookUp
  <2>4. RequestHonest(s)'
    <3>1. CASE Usable(j.key)
      <4>1. s.pc = "store" /\ s.key = j.key /\ s.since = now
        BY <2>2, <3>1
      <4> QED
        BY <1>0, <2>3, <3>1, <4>1
           DEF RequestHonest, UsableAt, InDatabase, Usable, tenantVars
    <3>2. CASE ~Usable(j.key)
      BY <2>2, <3>2 DEF RequestHonest, Idle
    <3> QED
      BY <3>1, <3>2
  <2> QED
    BY <2>1, <2>2, <2>4, MoveHonest
<1>2. CASE Store(r)
  <2>1. j \in StoreJob
    BY <1>0, <1>2, JobShape DEF Store
  <2>2. PICK k \in Keys, t \in Times : k = j.key /\ t = j.since
    BY <2>1 DEF StoreJob
  <2>3. PICK e : e = [since |-> t, stored |-> now]
    OBVIOUS
  <2>4. /\ cache' = [cache EXCEPT ![HostOf[r]][k] = e]
        /\ Goto(r, Admitted(k, e))
        /\ UNCHANGED <<now, tenantVars>>
    BY <1>2, <2>2, <2>3 DEF Store
  <2>5. UsableAt(k, t) /\ InDatabase(k) /\ t \in Nat /\ ended[k] \in Nat
    BY <1>0, <1>2, <2>2, LimitAssumption DEF Store, RequestHonest, TypeOK, Times
  <2>6. UsableAt(k, t)' /\ InDatabase(k)'
    BY <2>4, <2>5 DEF UsableAt, InDatabase, Usable, tenantVars
  <2>7. EntriesHonest'
    <3>1. ASSUME NEW p \in Procs, NEW m \in Keys, cache'[p][m] # NoEntry
          PROVE /\ cache'[p][m].since <= cache'[p][m].stored
                /\ cache'[p][m].stored <= now'
                /\ UsableAt(m, cache[p][m].since)'
                /\ InDatabase(m)'
      <4>1. CASE p = HostOf[r] /\ m = k
        <5>1. cache'[p][m] = e
          BY <2>4, <4>1 DEF TypeOK
        <5>2. e.since = t /\ e.stored = now /\ t <= now /\ now' = now
          BY <2>3, <2>4, <2>5 DEF UsableAt
        <5> QED
          BY <1>0, <2>6, <4>1, <5>1, <5>2 DEF UsableAt
      <4>2. CASE ~(p = HostOf[r] /\ m = k)
        <5>1. cache'[p][m] = cache[p][m]
          BY <2>4, <4>2 DEF TypeOK
        <5> QED
          BY <3>1, <5>1, StillHonest
      <4> QED
        BY <4>1, <4>2
    <3> QED
      BY <3>1 DEF EntriesHonest
  <2>8. PICK s : s = Admitted(k, e)
    OBVIOUS
  <2>9. RequestHonest(s)'
    <3>1. s.pc = "admitted" /\ s.key = k /\ s.at = now /\ s.delay = now - t
      BY <2>3, <2>8 DEF Admitted
    <3>2. Usable(k) \/ now < ended[k] + CacheTTL + (now - t)
      BY <1>0, <2>5, TenancyAssumption DEF UsableAt
    <3> QED
      BY <1>0, <2>4, <2>5, <3>1, <3>2 DEF RequestHonest, InDatabase, Usable, tenantVars
  <2> QED
    BY <2>4, <2>7, <2>8, <2>9, MoveHonest
<1> QED
  BY <1>1, <1>2

\* A raw key is on its way only once its row is committed, or its answer is out.
LEMMA HandOutHonest ==
  ASSUME TypeOK, TypeOK', Honest, Noted, NEW r \in Requests,
         CommitApprove(r) \/ StoreLink(r) \/ LinkFails(r) \/ CommitMint(r) \/ AnswerFirst(r)
  PROVE RequestsHonest'
<1> DEFINE j == job[r]
<1>0. j \in Job /\ RequestHonest(j) /\ key \in [Keys -> KeyRow]
  BY DEF TypeOK, Honest, RequestsHonest
<1>1. ASSUME NEW k \in Keys, NEW c \in Clients, NEW cs, Commit(cs, Minted(k, c)),
             Goto(r, [pc |-> "link", client |-> c, key |-> k])
               \/ Goto(r, [pc |-> "reply", client |-> c, key |-> k])
      PROVE RequestsHonest'
  <2>1. InDatabase(k)'
    BY <1>0, <1>1 DEF Commit, Minted, InDatabase
  <2>2. PICK s : Goto(r, s) /\ s.pc \in {"link", "reply"} /\ s.key = k
    BY <1>1
  <2>3. RequestHonest(s)'
    BY <2>1, <2>2 DEF RequestHonest, InDatabase
  <2> QED
    BY <2>2, <2>3, MoveHonest
<1>2. CASE CommitApprove(r)
  <2>1. j.client \in Clients
    BY <1>0, <1>2, JobShape DEF CommitApprove, ClientJob
  <2> QED
    BY <1>1, <1>2, <2>1 DEF CommitApprove
<1>3. CASE StoreLink(r) \/ LinkFails(r)
  <2>1. j \in MintedJob /\ InDatabase(j.key)
    BY <1>0, <1>3, JobShape DEF StoreLink, LinkFails, RequestHonest
  <2>2. PICK s, k : Goto(r, s) /\ s = [j EXCEPT !.pc = "reply"] /\ k = j.key
    BY <1>3 DEF StoreLink, LinkFails
  <2>3. s.pc = "reply" /\ s.key = k
    BY <2>1, <2>2 DEF MintedJob
  <2>4. InDatabase(k) /\ k \in Keys
    BY <2>1, <2>2 DEF MintedJob
  <2>5. RequestHonest(s)'
    BY <2>3, <2>4 DEF RequestHonest, Noted, InDatabase
  <2> QED
    BY <2>2, <2>5, MoveHonest
<1>4. CASE CommitMint(r)
  <2>1. j.client \in Clients
    BY <1>0, <1>4, JobShape DEF CommitMint, MintJob
  <2>2. CASE Exists(j.client)
    BY <1>1, <1>4, <2>1, <2>2 DEF CommitMint
  <2>3. CASE ~Exists(j.client)
    <3>1. Goto(r, Idle) /\ RequestHonest(Idle)'
      BY <1>4, <2>3 DEF CommitMint, RequestHonest, Idle
    <3> QED
      BY <3>1, MoveHonest
  <2> QED
    BY <2>2, <2>3
<1>5. CASE AnswerFirst(r)
  <2>1. PICK k, s : /\ k \in Keys /\ shown' = shown \cup {k} /\ Goto(r, s)
                    /\ s = [pc |-> "answered", client |-> j.client, key |-> k]
    BY <1>5 DEF AnswerFirst
  <2>2. RequestHonest(s)'
    BY <2>1 DEF RequestHonest
  <2> QED
    BY <2>1, <2>2, MoveHonest
<1> QED
  BY <1>2, <1>3, <1>4, <1>5

\* Every step keeps what rows, caches and requests say of each other.
LEMMA NextHonest ==
  ASSUME TypeOK, TypeOK', Honest, [Next]_vars
  PROVE Honest'
<1>1. Noted /\ RowsOwned'
  BY NextNotes DEF Honest
<1>2. ASSUME NEW r \in Requests, OperatorStep(r) \/ CallerStep(r)
      PROVE EntriesHonest' /\ RequestsHonest'
  BY <1>1, <1>2, BeginHonest
<1>3. ASSUME NEW r \in Requests, RequestStep(r)
      PROVE EntriesHonest' /\ RequestsHonest'
  <2>1. CASE LookUp(r) \/ Store(r)
    BY <1>1, <2>1, ResolveHonest
  <2>2. CASE ~(LookUp(r) \/ Store(r))
    <3>1. EntriesHonest'
      <4>1. UNCHANGED cache \/ \E k \in Keys : InvalidateKey(HostOf[r], k)
        BY <1>3, <2>2 DEF RequestStep, RedisCounts, RedisExpires, RedisRaises,
           FindToRegister, CommitInsert, CommitApprove, ApproveFails, StoreLink,
           LinkFails, Reply, CommitStatus, CommitDelete, FindToLookup, CommitMint,
           AnswerFirst, CommitAnswered, CommitFails, CommitRevoke, StoreFails, Finish,
           IssueOwn, RevokeOwn, handVars
      <4> QED
        BY <1>1, <4>1, CacheHonest, TenancyAssumption
    <3>2. RequestsHonest'
      <4>1. CASE CommitApprove(r) \/ StoreLink(r) \/ LinkFails(r) \/ CommitMint(r)
                   \/ AnswerFirst(r)
        BY <1>1, <4>1, HandOutHonest
      <4>2. CASE RedisCounts(r) \/ RedisExpires(r) \/ RedisRaises(r)
        <5>1. job[r] \in LimitJob
          BY <4>2, JobShape DEF RedisCounts, RedisExpires, RedisRaises, TypeOK
        <5>2. Idle.pc = "idle" /\ [job[r] EXCEPT !.pc = "expire"].pc = "expire"
          BY <5>1 DEF Idle, LimitJob
        <5>3. Goto(r, Idle) \/ Goto(r, [job[r] EXCEPT !.pc = "expire"]) \/ LetThrough(r)
          BY <4>2 DEF RedisCounts, RedisExpires, RedisRaises
        <5>4. LetThrough(r) => RequestsHonest'
          BY <1>1, QuietHonest DEF LetThrough
        <5> QED
          BY <1>1, <5>2, <5>3, <5>4, QuietHonest
      <4>3. CASE \/ FindToRegister(r) \/ CommitInsert(r) \/ ApproveFails(r) \/ Reply(r)
                 \/ CommitStatus(r) \/ CommitDelete(r) \/ CommitAnswered(r)
                 \/ CommitFails(r) \/ CommitRevoke(r) \/ StoreFails(r) \/ Finish(r)
        <5>1. CASE FindToRegister(r) /\ client[job[r].client] = "absent"
          BY <1>1, <5>1, QuietHonest DEF FindToRegister
        <5>2. Idle.pc = "idle"
          BY DEF Idle
        <5> QED
          BY <1>1, <4>3, <5>1, <5>2, QuietHonest
             DEF FindToRegister, CommitInsert, ApproveFails, Reply, CommitStatus,
                 CommitDelete, CommitAnswered, CommitFails, CommitRevoke, StoreFails, Finish
      <4>4. CASE FindToLookup(r) \/ IssueOwn(r) \/ RevokeOwn(r)
        <5>1. \A c, e : MintFor(c, e).pc = "mint"
          BY DEF MintFor
        <5>2. CASE FindToLookup(r) \/ IssueOwn(r)
          <6>1. Goto(r, Idle) \/ \E c, e : Goto(r, MintFor(c, e))
            BY <5>2 DEF FindToLookup, IssueOwn
          <6> QED
            BY <1>1, <5>1, <6>1, QuietHonest DEF Idle
        <5>3. CASE RevokeOwn(r)
          BY <1>1, <5>3, QuietHonest DEF RevokeOwn
        <5> QED
          BY <4>4, <5>2, <5>3
      <4> QED
        BY <1>3, <2>2, <4>1, <4>2, <4>3, <4>4 DEF RequestStep
    <3> QED
      BY <3>1, <3>2
  <2> QED
    BY <2>1, <2>2
<1>4. ASSUME NEW p \in Procs, Crash(p) PROVE EntriesHonest' /\ RequestsHonest'
  <2>1. EntriesHonest'
    BY <1>1, <1>4, CacheHonest DEF Crash
  <2>2. ASSUME NEW r \in Requests PROVE RequestHonest(job[r])'
    <3>1. job'[r] = job[r] \/ job'[r] = Idle
      BY <1>4 DEF Crash
    <3> QED
      BY <1>1, <3>1, StillHonest DEF RequestHonest, Idle
  <2> QED
    BY <2>1, <2>2 DEF RequestsHonest
<1>5. CASE UNCHANGED vars \/ Tick \/ RedisGoes \/ RedisReturns \/ \E k \in Keys : BurnLink(k)
  <2>1. UNCHANGED <<cache, job>>
    BY <1>5 DEF vars, Tick, RedisGoes, RedisReturns, BurnLink
  <2> QED
    BY <1>1, <2>1, CacheHonest, StillHonest DEF RequestsHonest, Honest
<1> QED
  BY <1>1, <1>2, <1>3, <1>4, <1>5 DEF Next, Honest

\* It holds at the start: the keys of earlier days have their owners.
LEMMA InitHonest == Init => Honest
<1> SUFFICES ASSUME Init PROVE Honest
  OBVIOUS
<1>1. RowsOwned
  BY NameAssumption DEF Init, RowsOwned, InDatabase
<1>2. EntriesHonest /\ RequestsHonest
  BY DEF Init, EntriesHonest, RequestsHonest, RequestHonest, Idle
<1> QED
  BY <1>1, <1>2 DEF Honest

-----------------------------------------------------------------------------
(* What the tenants' service promises.                                     *)

\* The types hold, and what rows, caches and requests say of each other.
LEMMA Invariance == Spec => [](TypeOK /\ Honest)
<1>1. Init => TypeOK /\ Honest
  BY InitType, InitHonest
<1>2. TypeOK /\ Honest /\ [Next]_vars => (TypeOK /\ Honest)'
  BY NextType, NextHonest
<1> QED
  BY <1>1, <1>2, PTL DEF Spec

\* Every variable keeps its type: in particular the age an admission bears is
\* one, because entries are stored after their reads.
THEOREM TypeCorrect == Spec => []TypeOK
BY Invariance, PTL

\* A key that was revoked, or whose client was suspended or removed, is admitted
\* for at most the lifetime of a cache entry after that, plus the time a
\* resolution took from its read to its store: whatever process holds the entry,
\* and however revocations, resolutions and crashes interleave.
THEOREM AdmissionInTime == Spec => []AdmittedInTime
<1>1. Honest => AdmittedInTime
  BY DEF Honest, RequestsHonest, RequestHonest, AdmittedInTime
<1> QED
  BY <1>1, Invariance, PTL

-----------------------------------------------------------------------------
(* What becomes of a minted key.                                           *)

\* A request that does not move, begin or die with its process stays as it is.
LEMMA RequestMoves ==
  ASSUME TypeOK, [Next]_vars, NEW r \in Requests
  PROVE job'[r] = job[r] \/ RequestStep(r) \/ Crash(HostOf[r]) \/ job[r] = Idle
<1>1. ASSUME NEW q \in Requests, OperatorStep(q) \/ CallerStep(q)
      PROVE job'[r] = job[r] \/ job[r] = Idle
  BY <1>1 DEF OperatorStep, CallerStep, AdminCreate, StartApprove, ChangeStatus,
     DeleteClient, AdminIssue, AdminRevoke, ArriveLimited, Present, Begin, Goto, TypeOK
<1>2. ASSUME NEW q \in Requests, RequestStep(q), q # r
      PROVE job'[r] = job[r]
  <2>1. \E s : Goto(q, s)
    BY <1>2 DEF RequestStep, RedisCounts, RedisExpires, RedisRaises, LetThrough,
       FindToRegister, CommitInsert, CommitApprove, ApproveFails, StoreLink, LinkFails,
       Reply, CommitStatus, CommitDelete, FindToLookup, CommitMint, AnswerFirst,
       CommitAnswered, CommitFails, CommitRevoke, LookUp, Store, StoreFails, Finish,
       IssueOwn, RevokeOwn
  <2> QED
    BY <1>2, <2>1 DEF Goto, TypeOK
<1>3. ASSUME NEW p \in Procs, Crash(p)
      PROVE job'[r] = job[r] \/ Crash(HostOf[r])
  BY <1>3 DEF Crash
<1>4. CASE UNCHANGED vars \/ Tick \/ RedisGoes \/ RedisReturns \/ \E k \in Keys : BurnLink(k)
  BY <1>4 DEF vars, Tick, RedisGoes, RedisReturns, BurnLink
<1> QED
  BY <1>1, <1>2, <1>3, <1>4 DEF Next

\* What was handed out, lost or left unsaved stays in the account.
LEMMA AccountGrows ==
  ASSUME [Next]_vars
  PROVE shown \subseteq shown' /\ unsaved \subseteq unsaved' /\ lost \subseteq lost'
<1> USE DEF handVars
<1>1. ASSUME NEW r \in Requests, OperatorStep(r) \/ CallerStep(r)
      PROVE UNCHANGED <<shown, unsaved, lost>>
  BY <1>1 DEF OperatorStep, CallerStep, AdminCreate, StartApprove, ChangeStatus,
     DeleteClient, AdminIssue, AdminRevoke, ArriveLimited, Present
<1>2. ASSUME NEW r \in Requests, RequestStep(r)
      PROVE shown \subseteq shown' /\ unsaved \subseteq unsaved' /\ lost \subseteq lost'
  BY <1>2 DEF RequestStep, RedisCounts, RedisExpires, RedisRaises, FindToRegister,
     CommitInsert, CommitApprove, ApproveFails, StoreLink, LinkFails, Reply,
     CommitStatus, CommitDelete, FindToLookup, CommitMint, AnswerFirst, CommitAnswered,
     CommitFails, CommitRevoke, LookUp, Store, StoreFails, Finish, IssueOwn, RevokeOwn
<1>3. CASE \/ UNCHANGED vars \/ Tick \/ RedisGoes \/ RedisReturns
           \/ \E k \in Keys : BurnLink(k)
           \/ \E p \in Procs : Crash(p)
  BY <1>3 DEF vars, Tick, RedisGoes, RedisReturns, BurnLink, Crash
<1> QED
  BY <1>1, <1>2, <1>3 DEF Next

\* A request that is to hand out a key goes on to do it, or dies.
LEMMA HandsOut ==
  ASSUME TypeOK, [Next]_vars, NEW r \in Requests, NEW k \in Keys,
         job[r].pc \in {"link", "reply"}, job[r].key = k
  PROVE k \in shown' \/ k \in lost' \/ Answering(k, {"link", "reply"})'
<1>1. job[r] \in MintedJob
  BY JobShape DEF TypeOK
<1>2. CASE job'[r] = job[r]
  BY <1>2 DEF Answering
<1>3. CASE RequestStep(r)
  <2>1. CASE StoreLink(r) \/ LinkFails(r)
    <3>1. job'[r] = [job[r] EXCEPT !.pc = "reply"]
      BY <2>1 DEF StoreLink, LinkFails, Goto, TypeOK
    <3>2. job'[r].pc = "reply" /\ job'[r].key = k
      BY <1>1, <3>1 DEF MintedJob
    <3> QED
      BY <3>2 DEF Answering
  <2>2. CASE Reply(r)
    BY <2>2 DEF Reply
  <2> QED
    BY <1>3, <2>1, <2>2
       DEF RequestStep, RedisCounts, RedisExpires, RedisRaises, FindToRegister,
           CommitInsert, CommitApprove, ApproveFails, CommitStatus, CommitDelete,
           FindToLookup, CommitMint, AnswerFirst, CommitAnswered, CommitFails,
           CommitRevoke, LookUp, Store, StoreFails, Finish, IssueOwn, RevokeOwn
<1>4. CASE Crash(HostOf[r])
  BY <1>4 DEF Crash
<1> QED
  BY <1>2, <1>3, <1>4, RequestMoves DEF Idle

\* A key comes into the database with a request that is to hand it out, or by an
\* answer that already did.
LEMMA ComesIn ==
  ASSUME TypeOK, Honest, [Next]_vars, NEW k \in Keys, ~InDatabase(k), InDatabase(k)'
  PROVE k \in shown' \/ Answering(k, {"link", "reply"})'
<1>1. CASE key' = key
  BY <1>1 DEF InDatabase
<1>2. CASE key' # key
  <2>1. PICK r \in Requests : CommitApprove(r) \/ CommitDelete(r) \/ CommitMint(r)
                               \/ CommitAnswered(r) \/ CommitRevoke(r)
    BY <1>2 DEF Next, vars, tenantVars, OperatorStep, CallerStep, RequestStep,
       AdminCreate, StartApprove, ChangeStatus, DeleteClient, AdminIssue, AdminRevoke,
       ArriveLimited, Present, RedisCounts, RedisExpires, RedisRaises, FindToRegister,
       CommitInsert, Commit, ApproveFails, StoreLink, LinkFails, Reply, CommitStatus,
       FindToLookup, AnswerFirst, CommitFails, LookUp, Store, StoreFails, Finish,
       IssueOwn, RevokeOwn, BurnLink, Crash, Tick, RedisGoes, RedisReturns
  <2>2. ASSUME NEW m \in Keys, NEW c, key' = Minted(m, c) PROVE k = m
    BY <2>2 DEF Minted, InDatabase, TypeOK
  <2>3. CASE CommitApprove(r) \/ CommitMint(r)
    <3>1. PICK m, s : /\ m \in Keys /\ key' = Minted(m, job[r].client)
                      /\ Goto(r, s) /\ s.pc \in {"link", "reply"} /\ s.key = m
      BY <1>2, <2>3 DEF CommitApprove, CommitMint, Commit
    <3>2. job'[r] = s /\ k = m
      BY <2>2, <3>1 DEF Goto, TypeOK
    <3> QED
      BY <3>1, <3>2 DEF Answering
  <2>4. CASE CommitAnswered(r)
    <3>1. job[r].key \in Keys
      BY <2>4, JobShape DEF CommitAnswered, TypeOK, MintedJob
    <3>2. job[r].key \in shown
      BY <2>4 DEF CommitAnswered, Honest, RequestsHonest, RequestHonest
    <3> QED
      BY <2>2, <2>4, <3>1, <3>2, AccountGrows DEF CommitAnswered, Commit
  <2>5. CASE CommitDelete(r)
    <3>1. job[r].client \in Clients
      BY <2>5, JobShape DEF CommitDelete, TypeOK, ClientJob
    <3>2. key'[k].status = key[k].status \/ key[k].owner = job[r].client
      BY <2>5 DEF CommitDelete, Commit
    <3> QED
      BY <3>1, <3>2 DEF Honest, RowsOwned, InDatabase
  <2>6. CASE CommitRevoke(r)
    <3>1. key[k] \in KeyRow
      BY DEF TypeOK
    <3>2. key'[k].status # "unused" => key[k].status # "unused"
      BY <2>6, <3>1 DEF CommitRevoke, Commit, TypeOK, KeyRow
    <3> QED
      BY <3>2 DEF InDatabase
  <2> QED
    BY <2>1, <2>3, <2>4, <2>5, <2>6
<1> QED
  BY <1>1, <1>2

\* No minted key goes astray but with a process that dies before it has handed
\* the key out: not when Redis fails, nor in any race of operators, tenants and
\* removals.
THEOREM MintedKeysHandedOut == Spec => []KeysHandedOut
<1>1. Init => KeysHandedOut
  BY DEF Init, KeysHandedOut
<1>2. TypeOK /\ Honest /\ KeysHandedOut /\ [Next]_vars => KeysHandedOut'
  <2> SUFFICES ASSUME TypeOK, Honest, KeysHandedOut, [Next]_vars,
                      NEW k \in Keys, InDatabase(k)'
               PROVE (k \in shown \cup lost \/ Answering(k, {"link", "reply"}))'
    BY DEF KeysHandedOut, InDatabase
  <2>1. CASE InDatabase(k)
    <3>1. k \in shown \cup lost \/ \E r \in Requests : job[r].pc \in {"link", "reply"}
                                                         /\ job[r].key = k
      BY <2>1 DEF KeysHandedOut, InDatabase, Answering
    <3> QED
      BY <3>1, AccountGrows, HandsOut
  <2>2. CASE ~InDatabase(k)
    BY <2>2, ComesIn
  <2> QED
    BY <2>1, <2>2
<1> QED
  BY <1>1, <1>2, Invariance, PTL DEF Spec

\* A request whose answer is out commits its key, or leaves it unsaved.
LEMMA AnswerSettled ==
  ASSUME TypeOK, [Next]_vars, NEW r \in Requests, NEW k \in Keys,
         job[r].pc = "answered", job[r].key = k
  PROVE InDatabase(k)' \/ k \in unsaved' \/ Answering(k, {"answered"})'
<1>1. CASE job'[r] = job[r]
  BY <1>1 DEF Answering
<1>2. CASE RequestStep(r)
  <2>1. CASE CommitAnswered(r)
    BY <2>1 DEF CommitAnswered, Commit, Minted, InDatabase, TypeOK
  <2>2. CASE CommitFails(r)
    BY <2>2 DEF CommitFails
  <2> QED
    BY <1>2, <2>1, <2>2
       DEF RequestStep, RedisCounts, RedisExpires, RedisRaises, FindToRegister,
           CommitInsert, CommitApprove, ApproveFails, StoreLink, LinkFails, Reply,
           CommitStatus, CommitDelete, FindToLookup, CommitMint, AnswerFirst,
           CommitRevoke, LookUp, Store, StoreFails, Finish, IssueOwn, RevokeOwn
<1>3. CASE Crash(HostOf[r])
  BY <1>3 DEF Crash
<1> QED
  BY <1>1, <1>2, <1>3, RequestMoves DEF Idle

\* A key is handed out or linked only by its request, which minted it or answers
\* ahead of its commit.
LEMMA HandedOutHonestly ==
  ASSUME TypeOK, Honest, [Next]_vars, NEW k \in Keys,
         ~(k \in shown \/ link[k] > 0), (k \in shown \/ link[k] > 0)'
  PROVE InDatabase(k) \/ Answering(k, {"answered"})'
<1> USE DEF handVars
<1>1. CASE UNCHANGED <<link, shown>>
  BY <1>1
<1>2. CASE Tick \/ RedisReturns \/ \E m \in Keys : BurnLink(m)
  <2>1. shown' = shown
    BY <1>2 DEF Tick, RedisReturns, BurnLink
  <2>2. link'[k] \in {0, link[k]}
    BY <1>2 DEF Tick, RedisReturns, BurnLink, TypeOK
  <2> QED
    BY <2>1, <2>2
<1>3. ASSUME NEW r \in Requests, StoreLink(r) \/ Reply(r)
      PROVE InDatabase(k)
  <2>1. job[r].key = k
    BY <1>3 DEF StoreLink, Reply, TypeOK
  <2> QED
    BY <1>3, <2>1 DEF StoreLink, Reply, Honest, RequestsHonest, RequestHonest
<1>4. ASSUME NEW r \in Requests, AnswerFirst(r)
      PROVE Answering(k, {"answered"})'
  <2>1. PICK m, s : /\ m \in Keys /\ shown' = shown \cup {m} /\ Goto(r, s)
                    /\ s.pc = "answered" /\ s.key = m
    BY <1>4 DEF AnswerFirst
  <2>2. k = m /\ job'[r] = s
    BY <1>4, <2>1 DEF AnswerFirst, Goto, TypeOK
  <2> QED
    BY <2>1, <2>2 DEF Answering
<1>5. ASSUME NEW r \in Requests, RequestStep(r)
      PROVE UNCHANGED <<link, shown>> \/ StoreLink(r) \/ Reply(r) \/ AnswerFirst(r)
  BY <1>5 DEF RequestStep, RedisCounts, RedisExpires, RedisRaises, FindToRegister,
     CommitInsert, CommitApprove, ApproveFails, LinkFails, CommitStatus, CommitDelete,
     FindToLookup, CommitMint, CommitAnswered, CommitFails, CommitRevoke, LookUp, Store,
     StoreFails, Finish, IssueOwn, RevokeOwn
<1>6. ASSUME NEW r \in Requests, OperatorStep(r) \/ CallerStep(r)
      PROVE UNCHANGED <<link, shown>>
  BY <1>6 DEF OperatorStep, CallerStep, AdminCreate, StartApprove, ChangeStatus,
     DeleteClient, AdminIssue, AdminRevoke, ArriveLimited, Present
<1>7. CASE UNCHANGED vars \/ RedisGoes \/ \E p \in Procs : Crash(p)
  BY <1>1, <1>7 DEF vars, RedisGoes, Crash
<1> QED
  BY <1>1, <1>2, <1>3, <1>4, <1>5, <1>6, <1>7 DEF Next

\* No tenant holds, and no claim link serves, a key that is not a row of the
\* database, but for answers sent before a commit that failed: the activation is
\* committed before its link is stored, whoever interferes.
THEOREM KeysHandedOutExist == Spec => []HandedOutKeysExist
<1>1. Init => HandedOutKeysExist
  BY DEF Init, HandedOutKeysExist
<1>2. TypeOK /\ Honest /\ HandedOutKeysExist /\ [Next]_vars => HandedOutKeysExist'
  <2> SUFFICES ASSUME TypeOK, Honest, HandedOutKeysExist, [Next]_vars,
                      NEW k \in Keys, (k \in shown \/ link[k] > 0)'
               PROVE InDatabase(k)' \/ k \in unsaved' \/ Answering(k, {"answered"})'
    BY DEF HandedOutKeysExist, InDatabase
  <2>1. InDatabase(k) => InDatabase(k)'
    BY NextNotes DEF Honest, Noted
  <2>2. CASE k \in shown \/ link[k] > 0
    <3>1. InDatabase(k) \/ k \in unsaved
            \/ \E r \in Requests : job[r].pc = "answered" /\ job[r].key = k
      BY <2>2 DEF HandedOutKeysExist, InDatabase, Answering
    <3> QED
      BY <2>1, <3>1, AccountGrows, AnswerSettled
  <2>3. CASE ~(k \in shown \/ link[k] > 0)
    BY <2>1, <2>3, HandedOutHonestly
  <2> QED
    BY <2>2, <2>3
<1> QED
  BY <1>1, <1>2, Invariance, PTL DEF Spec

-----------------------------------------------------------------------------
(* Counters without a time to live.                                        *)

\* A request that has opened a window goes on to set its end, or leaves the
\* bucket orphaned.
LEMMA WindowSettled ==
  ASSUME TypeOK, [Next]_vars, NEW r \in Requests, NEW b \in Buckets,
         job[r].pc = "expire", job[r].bucket = b, counter'[b] > 0, expiry'[b] = 0
  PROVE b \in orphaned' \/ \E q \in Requests : job'[q].pc = "expire" /\ job'[q].bucket = b
<1>1. CASE job'[r] = job[r]
  BY <1>1
<1>2. CASE RequestStep(r)
  <2>1. CASE RedisExpires(r)
    <3>1. counter' = counter
      BY <2>1 DEF RedisExpires
    <3>2. expiry'[b] = now + Window
      BY <2>1, <3>1 DEF RedisExpires, Expire, TypeOK, LimitTypeOK
    <3> QED
      BY <3>2, LimitAssumption DEF TypeOK, LimitTypeOK, Times
  <2>2. CASE RedisRaises(r)
    BY <2>2 DEF RedisRaises
  <2> QED
    BY <1>2, <2>1, <2>2
       DEF RequestStep, RedisCounts, FindToRegister, CommitInsert, CommitApprove,
           ApproveFails, StoreLink, LinkFails, Reply, CommitStatus, CommitDelete,
           FindToLookup, CommitMint, AnswerFirst, CommitAnswered, CommitFails,
           CommitRevoke, LookUp, Store, StoreFails, Finish, IssueOwn, RevokeOwn
<1>3. CASE Crash(HostOf[r])
  <2>1. counter' = counter
    BY <1>3 DEF Crash
  <2> QED
    BY <1>3, <2>1 DEF Crash
<1> QED
  BY <1>1, <1>2, <1>3, RequestMoves DEF Idle

\* A bucket is left without a time to live only by the request that opens its
\* window, or when that request's command fails.
LEMMA WindowOpened ==
  ASSUME TypeOK, [Next]_vars, NEW b \in Buckets, ~(counter[b] > 0 /\ expiry[b] = 0),
         counter'[b] > 0, expiry'[b] = 0
  PROVE b \in orphaned' \/ \E q \in Requests : job'[q].pc = "expire" /\ job'[q].bucket = b
<1> USE DEF limitVars
<1>0. counter[b] \in Nat /\ expiry[b] \in Nat
  BY DEF TypeOK, LimitTypeOK
<1>1. CASE UNCHANGED <<counter, expiry>>
  BY <1>1
<1>2. CASE Tick
  BY <1>0, <1>2 DEF Tick, ExpireKeys
<1>3. CASE RedisReturns
  BY <1>1, <1>3 DEF RedisReturns, ForgetKeys
<1>4. ASSUME NEW r \in Requests, RedisCounts(r)
      PROVE \E q \in Requests : job'[q].pc = "expire" /\ job'[q].bucket = b
  <2>1. job[r] \in LimitJob
    BY <1>4, JobShape DEF RedisCounts, TypeOK
  <2>2. expiry' = expiry /\ job[r].bucket = b /\ counter[b] = 0
    BY <1>0, <1>4 DEF RedisCounts, Incr, TypeOK, LimitTypeOK
  <2>3. job'[r] = [job[r] EXCEPT !.pc = "expire"]
    BY <1>4, <2>2 DEF RedisCounts, Goto, TypeOK
  <2>4. job'[r].pc = "expire" /\ job'[r].bucket = b
    BY <2>1, <2>2, <2>3 DEF LimitJob
  <2> QED
    BY <2>4
<1>5. ASSUME NEW r \in Requests, RedisExpires(r) PROVE FALSE
  <2>1. job[r].bucket \in Buckets
    BY <1>5, JobShape DEF RedisExpires, TypeOK, LimitJob
  <2>2. counter' = counter /\ expiry'[b] \in {expiry[b], now + Window}
    BY <1>5, <2>1 DEF RedisExpires, Expire, TypeOK, LimitTypeOK
  <2> QED
    BY <1>0, <2>2, LimitAssumption DEF TypeOK, LimitTypeOK, Times
<1>6. ASSUME NEW r \in Requests, RedisRaises(r) PROVE b \in orphaned'
  <2>1. /\ expiry' = expiry
        /\ \/ counter' = counter
           \/ job[r].pc = "incr" /\ Incr(job[r].bucket)
        /\ counter'[job[r].bucket] > 0 /\ counter[job[r].bucket] = 0
              => job[r].bucket \in orphaned'
    BY <1>6 DEF RedisRaises
  <2>2. counter[b] = 0 /\ Incr(job[r].bucket)
    BY <1>0, <2>1
  <2>3. b = job[r].bucket
    BY <2>2 DEF Incr, TypeOK, LimitTypeOK
  <2> QED
    BY <2>1, <2>2, <2>3
<1>7. ASSUME NEW r \in Requests, RequestStep(r)
      PROVE UNCHANGED <<counter, expiry>> \/ RedisCounts(r) \/ RedisExpires(r) \/ RedisRaises(r)
  BY <1>7 DEF RequestStep, FindToRegister, CommitInsert, CommitApprove, ApproveFails,
     StoreLink, LinkFails, Reply, CommitStatus, CommitDelete, FindToLookup, CommitMint,
     AnswerFirst, CommitAnswered, CommitFails, CommitRevoke, LookUp, Store, StoreFails,
     Finish, IssueOwn, RevokeOwn
<1>8. ASSUME NEW r \in Requests, OperatorStep(r) \/ CallerStep(r)
      PROVE UNCHANGED <<counter, expiry>>
  BY <1>8 DEF OperatorStep, CallerStep, AdminCreate, StartApprove, ChangeStatus,
     DeleteClient, AdminIssue, AdminRevoke, ArriveLimited, Present
<1>9. CASE \/ UNCHANGED vars \/ RedisGoes \/ \E k \in Keys : BurnLink(k)
           \/ \E p \in Procs : Crash(p)
  BY <1>1, <1>9 DEF vars, RedisGoes, Crash, BurnLink
<1> QED
  BY <1>1, <1>2, <1>3, <1>4, <1>5, <1>6, <1>7, <1>8, <1>9 DEF Next

\* A bucket stays orphaned until its counter is gone or has a time to live.
LEMMA OrphanKept ==
  ASSUME TypeOK, [Next]_vars, NEW b \in orphaned, counter'[b] > 0, expiry'[b] = 0
  PROVE b \in orphaned'
<1> USE DEF limitVars
<1>0. b \in Buckets
  BY DEF TypeOK, LimitTypeOK
<1>1. ASSUME NEW r \in Requests, RedisExpires(r) PROVE b \in orphaned'
  <2>1. CASE job[r].bucket = b
    <3>1. counter' = counter
      BY <1>1 DEF RedisExpires
    <3>2. expiry'[b] = now + Window
      BY <1>0, <1>1, <2>1, <3>1 DEF RedisExpires, Expire, TypeOK, LimitTypeOK
    <3> QED
      BY <3>2, LimitAssumption DEF TypeOK, LimitTypeOK, Times
  <2>2. CASE job[r].bucket # b
    BY <1>1, <2>2 DEF RedisExpires, Expire
  <2> QED
    BY <2>1, <2>2
<1>2. ASSUME NEW r \in Requests, RequestStep(r)
      PROVE orphaned \subseteq orphaned' \/ RedisExpires(r)
  BY <1>2 DEF RequestStep, RedisCounts, RedisRaises, FindToRegister, CommitInsert,
     CommitApprove, ApproveFails, StoreLink, LinkFails, Reply, CommitStatus, CommitDelete,
     FindToLookup, CommitMint, AnswerFirst, CommitAnswered, CommitFails, CommitRevoke,
     LookUp, Store, StoreFails, Finish, IssueOwn, RevokeOwn
<1>3. ASSUME NEW r \in Requests, OperatorStep(r) \/ CallerStep(r)
      PROVE orphaned' = orphaned
  BY <1>3 DEF OperatorStep, CallerStep, AdminCreate, StartApprove, ChangeStatus,
     DeleteClient, AdminIssue, AdminRevoke, ArriveLimited, Present
<1>4. CASE RedisReturns
  BY <1>0, <1>4 DEF RedisReturns, ForgetKeys
<1>5. CASE \/ UNCHANGED vars \/ Tick \/ RedisGoes \/ \E k \in Keys : BurnLink(k)
           \/ \E p \in Procs : Crash(p)
  BY <1>5 DEF vars, Tick, RedisGoes, BurnLink, Crash
<1> QED
  BY <1>1, <1>2, <1>3, <1>4, <1>5 DEF Next

\* No bucket is locked out for good while Redis answers: its counter has a time
\* to live, or the request that opened the window is about to set it, whatever
\* the other attempts, expiries and restarts do in between.
THEOREM CountersGetExpiry == Spec => []CountersExpire
<1>1. Init => CountersExpire
  BY DEF Init, LimitInit, CountersExpire
<1>2. TypeOK /\ CountersExpire /\ [Next]_vars => CountersExpire'
  <2> SUFFICES ASSUME TypeOK, CountersExpire, [Next]_vars, NEW b \in Buckets,
                      counter'[b] > 0, expiry'[b] = 0
               PROVE b \in orphaned' \/ \E q \in Requests : /\ job'[q].pc = "expire"
                                                            /\ job'[q].bucket = b
    BY DEF CountersExpire
  <2>1. CASE counter[b] > 0 /\ expiry[b] = 0
    BY <2>1, OrphanKept, WindowSettled DEF CountersExpire
  <2>2. CASE ~(counter[b] > 0 /\ expiry[b] = 0)
    BY <2>2, WindowOpened
  <2> QED
    BY <2>1, <2>2
<1> QED
  BY <1>1, <1>2, TypeCorrect, PTL DEF Spec

-----------------------------------------------------------------------------
(* How many attempts a span of time holds.                                 *)

\* Of some naturals with a bound one is the greatest.
LEMMA Greatest ==
  ASSUME NEW n \in Nat, NEW S \in SUBSET (0 .. n), S # {}
  PROVE \E x \in S : \A y \in S : x >= y
<1> DEFINE T == {m \in Nat : n - m \in S}
<1>1. T # {}
  <2>1. PICK x \in S : TRUE
    OBVIOUS
  <2>2. n - x \in T
    BY <2>1
  <2> QED
    BY <2>2
<1>2. PICK m \in T : \A k \in T : ~(<<k, m>> \in OpToRel(<, Nat))
  BY <1>1, WFMin, NatLessThanWellFounded
<1>0. m \in Nat /\ n - m \in S
  OBVIOUS
<1>3. \A k \in T : ~(k < m)
  BY <1>2 DEF OpToRel
<1>5. ASSUME NEW y \in S PROVE n - m >= y
  <2>1. n - y \in T
    OBVIOUS
  <2>2. ~(n - y < m)
    BY <1>3, <2>1
  <2> QED
    BY <1>0, <2>2
<1> QED
  BY <1>0, <1>5

\* The attempts of some ticks are finitely many.
LEMMA HitsFinite ==
  ASSUME NEW count \in [Times -> Nat], NEW ticks \in SUBSET Times
  PROVE IsFiniteSet(Hits(count, ticks)) /\ Cardinality(Hits(count, ticks)) \in Nat
<1> DEFINE f == [t \in ticks |-> {t} \X (1 .. count[t])]
           parts == {{t} \X (1 .. count[t]) : t \in ticks}
<1>1. IsFiniteSet(ticks)
  <2>1. 0 \in Int /\ MaxTime \in Int
    BY LimitAssumption
  <2>2. IsFiniteSet(Times)
    BY <2>1, FS_Interval DEF Times
  <2> QED
    BY <2>2, FS_Subset
<1>2. IsFiniteSet(parts)
  <2>1. f \in Surjection(ticks, parts)
    BY DEF Surjection
  <2> QED
    BY <1>1, <2>1, FS_Surjection
<1>3. \A part \in parts : IsFiniteSet(part)
  <2>1. ASSUME NEW t \in ticks PROVE IsFiniteSet({t} \X (1 .. count[t]))
    <3>1. IsFiniteSet({t})
      BY FS_Singleton
    <3>2. 1 \in Int /\ count[t] \in Int
      OBVIOUS
    <3>3. IsFiniteSet(1 .. count[t])
      BY <3>2, FS_Interval
    <3> QED
      BY <3>1, <3>3, FS_Product
  <2> QED
    BY <2>1
<1>4. Hits(count, ticks) = UNION parts
  BY DEF Hits
<1> HIDE DEF parts
<1>5. IsFiniteSet(Hits(count, ticks))
  BY <1>2, <1>3, <1>4, FS_UNION
<1> QED
  BY <1>5, FS_CardinalityType

\* What is counted, one attempt at a time.
LEMMA HitsMembers ==
  ASSUME NEW count, NEW ticks
  PROVE \A h : h \in Hits(count, ticks)
                 <=> \E t \in ticks : \E n \in 1 .. count[t] : h = <<t, n>>
BY DEF Hits

\* Fewer attempts on fewer ticks are not more attempts.
LEMMA HitsFewer ==
  ASSUME NEW f \in [Times -> Nat], NEW g \in [Times -> Nat],
         NEW S \in SUBSET Times, NEW T \in SUBSET Times,
         \A t \in S : f[t] > 0 => t \in T /\ f[t] <= g[t]
  PROVE Cardinality(Hits(f, S)) <= Cardinality(Hits(g, T))
<1>1. Hits(f, S) \subseteq Hits(g, T)
  <2> SUFFICES ASSUME NEW t \in S, NEW n \in 1 .. f[t]
               PROVE <<t, n>> \in Hits(g, T)
    BY HitsMembers
  <2>1. t \in T /\ n \in 1 .. g[t]
    OBVIOUS
  <2> QED
    BY <2>1, HitsMembers
<1> QED
  BY <1>1, HitsFinite, FS_Subset

\* One more attempt is one more in the spans that hold its tick.
LEMMA HitsMore ==
  ASSUME NEW f \in [Times -> Nat], NEW S \in SUBSET Times, NEW u \in Times
  PROVE Cardinality(Hits([f EXCEPT ![u] = @ + 1], S))
          = Cardinality(Hits(f, S)) + (IF u \in S THEN 1 ELSE 0)
<1> DEFINE g == [f EXCEPT ![u] = @ + 1]
           new == <<u, f[u] + 1>>
<1>1. g \in [Times -> Nat] /\ g[u] = f[u] + 1 /\ \A t \in Times : t # u => g[t] = f[t]
  OBVIOUS
<1> HIDE DEF g
<1>2. CASE u \in S
  <2>1. new \notin Hits(f, S)
    <3> SUFFICES ASSUME NEW t \in S, NEW n \in 1 .. f[t], new = <<t, n>> PROVE FALSE
      BY HitsMembers
    <3> QED
      OBVIOUS
  <2>2. Hits(f, S) \cup {new} \subseteq Hits(g, S)
    <3>1. ASSUME NEW t \in S, NEW n \in 1 .. f[t] PROVE <<t, n>> \in Hits(g, S)
      <4>1. n \in 1 .. g[t]
        BY <1>1
      <4> QED
        BY <4>1, HitsMembers
    <3>2. new \in Hits(g, S)
      <4>1. f[u] + 1 \in 1 .. g[u]
        BY <1>1
      <4> QED
        BY <1>2, <4>1, HitsMembers
    <3> QED
      BY <3>1, <3>2, HitsMembers
  <2>3. Hits(g, S) \subseteq Hits(f, S) \cup {new}
    <3> SUFFICES ASSUME NEW t \in S, NEW n \in 1 .. g[t]
                 PROVE <<t, n>> \in Hits(f, S) \cup {new}
      BY HitsMembers
    <3>1. CASE t = u /\ n = f[u] + 1
      BY <3>1
    <3>2. CASE ~(t = u /\ n = f[u] + 1)
      <4>1. n \in 1 .. f[t]
        BY <1>1, <3>2
      <4> QED
        BY <4>1, HitsMembers
    <3> QED
      BY <3>1, <3>2
  <2>4. Hits(g, S) = Hits(f, S) \cup {new}
    BY <2>2, <2>3
  <2> HIDE DEF new
  <2> QED
    BY <1>2, <2>1, <2>4, HitsFinite, FS_AddElement DEF g
<1>3. CASE u \notin S
  <2>1. \A t \in S : g[t] = f[t]
    BY <1>1, <1>3
  <2>2. \A h : h \in Hits(g, S) <=> h \in Hits(f, S)
    BY <2>1, HitsMembers
  <2>3. Hits(g, S) = Hits(f, S)
    BY <2>2
  <2> QED
    BY <1>3, <2>3, HitsFinite DEF g
<1> QED
  BY <1>2, <1>3

\* Where nothing was attempted nothing is counted.
LEMMA NothingCounted ==
  ASSUME NEW S \in SUBSET Times
  PROVE Cardinality(Hits(NoAttempts, S)) = 0
<1>1. Hits(NoAttempts, S) = {}
  <2>1. \A h : h \notin Hits(NoAttempts, S)
    BY HitsMembers DEF NoAttempts
  <2> QED
    BY <2>1
<1> QED
  BY <1>1, FS_EmptySet

-----------------------------------------------------------------------------
(* The invariant of the limiter.                                           *)

\* The span of Window ticks from t on is not over.
Lasts(t) == now < t + Window

\* What the losses of counts so far allow.
Allowed(x) == Limit * resets[x]

\* The attempts of a span that a process remembers.
Remembered(b, p, t) == Cardinality(Hits(attempts[p][b], Span(t)))

\* In a span that lasts a process remembers what it let through, but for what
\* it has lost, and it is never more than the limit.
MemoryTally ==
  \A p \in Procs, b \in Buckets, t \in Times :
    Lasts(t) =>
      /\ Remembered(b, p, t) <= Limit
      /\ AcceptedIn(b, p, t) <= Allowed(p) + Remembered(b, p, t)

\* Requests that have opened a window and are still to set its end.
Opening(b) == {r \in Requests : job[r].pc = "expire" /\ job[r].bucket = b}

Capped(n) == IF n <= Limit THEN n ELSE Limit

\* Every window but the present one was opened by a request of its own, which
\* set its end or was forgotten with it.
OpeningsFew(b) ==
  /\ IsFiniteSet(Opening(b))
  /\ Cardinality(Opening(b))
       <= resets["redis"] + (IF counter[b] > 0 /\ expiry[b] = 0 THEN 1 ELSE 0)

\* What Redis let through in a span that lasts, with what is about to be let
\* through, is what the present window has counted, and of the window before
\* all but the attempt that opened it.
RedisTally(b) ==
  \A t \in Times :
    Lasts(t) => AcceptedIn(b, "redis", t) + Cardinality(Opening(b))
                  <= Allowed("redis") + (Limit - 1) + Capped(counter[b])

\* Of a span that outlasts the present window, Redis has counted everything but
\* the attempt that set the window's end.
WindowTally(b) ==
  expiry[b] > 0 =>
    /\ counter[b] > 0
    /\ now < expiry[b]
    /\ \A t \in Times :
         t + Window > expiry[b] =>
           AcceptedIn(b, "redis", t) + Cardinality(Opening(b))
             <= Allowed("redis") + Capped(counter[b]) - 1

NothingAhead(b) == \A t \in Times : t > now => AcceptedIn(b, "redis", t) = 0

RedisTallies ==
  \A b \in Buckets : OpeningsFew(b) /\ RedisTally(b) /\ WindowTally(b) /\ NothingAhead(b)

Tallied == MemoryTally /\ RedisTallies

\* The numbers that are compared are natural numbers.
LEMMA TallyTypes ==
  ASSUME TypeOK
  PROVE /\ \A x \in Counters : Allowed(x) \in Nat /\ resets[x] \in Nat /\ resets[x] <= Allowed(x)
        /\ \A b \in Buckets, x \in Counters, t \in Times : AcceptedIn(b, x, t) \in Nat
        /\ \A b \in Buckets, p \in Procs, t \in Times : Remembered(b, p, t) \in Nat
        /\ "redis" \in Counters /\ Procs \subseteq Counters
<1>1. \A t \in Times : Span(t) \in SUBSET Times
  BY DEF Span
<1>2. ASSUME NEW n \in Nat PROVE Limit * n \in Nat /\ n <= Limit * n
  <2>1. Limit * n = n + (Limit - 1) * n
    BY LimitAssumption
  <2>2. (Limit - 1) * n \in Nat
    BY LimitAssumption
  <2> QED
    BY <2>1, <2>2
<1>3. \A x \in Counters : Allowed(x) \in Nat /\ resets[x] \in Nat /\ resets[x] <= Allowed(x)
  BY <1>2 DEF Allowed, TypeOK, LimitTypeOK
<1>4. \A b \in Buckets, x \in Counters, t \in Times : AcceptedIn(b, x, t) \in Nat
  BY <1>1, HitsFinite DEF AcceptedIn, TypeOK, LimitTypeOK
<1>5. \A b \in Buckets, p \in Procs, t \in Times : Remembered(b, p, t) \in Nat
  BY <1>1, HitsFinite DEF Remembered, TypeOK, LimitTypeOK
<1> QED
  BY <1>3, <1>4, <1>5 DEF Counters

\* So they are after a step.
LEMMA TallyTypesNext ==
  ASSUME TypeOK'
  PROVE /\ \A x \in Counters : Allowed(x)' \in Nat /\ resets'[x] \in Nat
        /\ \A b \in Buckets, x \in Counters, t \in Times : AcceptedIn(b, x, t)' \in Nat
        /\ \A b \in Buckets, p \in Procs, t \in Times : Remembered(b, p, t)' \in Nat
<1>1. \A t \in Times : Span(t) \in SUBSET Times
  BY DEF Span
<1>2. \A n \in Nat : Limit * n \in Nat
  BY LimitAssumption
<1>3. \A x \in Counters : Allowed(x)' \in Nat /\ resets'[x] \in Nat
  BY <1>2 DEF Allowed, TypeOK, LimitTypeOK
<1>4. \A b \in Buckets, x \in Counters, t \in Times : AcceptedIn(b, x, t)' \in Nat
  <2>1. \A b \in Buckets, x \in Counters : accepted'[b][x] \in [Times -> Nat]
    BY DEF TypeOK, LimitTypeOK
  <2> QED
    BY <1>1, <2>1, HitsFinite DEF AcceptedIn
<1>5. \A b \in Buckets, p \in Procs, t \in Times : Remembered(b, p, t)' \in Nat
  <2>1. \A b \in Buckets, p \in Procs : attempts'[p][b] \in [Times -> Nat]
    BY DEF TypeOK, LimitTypeOK
  <2> QED
    BY <1>1, <2>1, HitsFinite DEF Remembered
<1> QED
  BY <1>3, <1>4, <1>5

\* A loss of counts allows Limit attempts more.
LEMMA AllowedMore ==
  ASSUME TypeOK, NEW x \in Counters, resets'[x] = resets[x] + 1
  PROVE Allowed(x)' = Allowed(x) + Limit
BY LimitAssumption DEF Allowed, TypeOK, LimitTypeOK

\* An attempt is accepted once, in the spans that hold its tick.
LEMMA AcceptedMore ==
  ASSUME TypeOK, NEW b \in Buckets, NEW x \in Counters, Accept(b, x)
  PROVE \A c \in Buckets, y \in Counters, t \in Times :
          AcceptedIn(c, y, t)' = AcceptedIn(c, y, t)
            + (IF c = b /\ y = x /\ now \in Span(t) THEN 1 ELSE 0)
<1> SUFFICES ASSUME NEW c \in Buckets, NEW y \in Counters, NEW t \in Times
             PROVE AcceptedIn(c, y, t)' = AcceptedIn(c, y, t)
                     + (IF c = b /\ y = x /\ now \in Span(t) THEN 1 ELSE 0)
  OBVIOUS
<1>1. accepted[c][y] \in [Times -> Nat] /\ now \in Times /\ Span(t) \in SUBSET Times
  BY DEF TypeOK, LimitTypeOK, Span
<1>2. AcceptedIn(c, y, t) \in Nat
  BY TallyTypes
<1>3. CASE c = b /\ y = x
  <2>1. accepted'[c][y] = [accepted[c][y] EXCEPT ![now] = @ + 1]
    BY <1>3 DEF Accept, TypeOK, LimitTypeOK
  <2>2. AcceptedIn(c, y, t)' = Cardinality(Hits([accepted[c][y] EXCEPT ![now] = @ + 1], Span(t)))
    BY <2>1 DEF AcceptedIn
  <2> QED
    BY <1>1, <1>3, <2>2, HitsMore DEF AcceptedIn
<1>4. CASE ~(c = b /\ y = x)
  <2>1. accepted'[c][y] = accepted[c][y]
    BY <1>4 DEF Accept, TypeOK, LimitTypeOK
  <2>2. AcceptedIn(c, y, t)' = AcceptedIn(c, y, t)
    BY <2>1 DEF AcceptedIn
  <2> QED
    BY <1>2, <1>4, <2>2
<1> QED
  BY <1>3, <1>4

-----------------------------------------------------------------------------
(* The window of a process.                                                *)

\* A bucket with an attempt in a span that lasts is not dropped as stale.
LEMMA RecentlyTried ==
  ASSUME TypeOK, NEW p \in Procs, NEW b \in Buckets, NEW t \in Times, Lasts(t),
         NEW u \in Span(t), attempts[p][b][u] > 0
  PROVE b \in Fresh(p)
<1> DEFINE tried == {v \in Times : attempts[p][b][v] > 0}
<1>1. u \in tried /\ tried \in SUBSET (0 .. MaxTime) /\ MaxTime \in Nat
  BY LimitAssumption DEF Span, Times
<1>2. \E x \in tried : \A y \in tried : x >= y
  BY <1>1, Greatest
<1>3. Max(tried) \in tried /\ Max(tried) >= u
  BY <1>1, <1>2 DEF Max
<1>4. LastAttempt(p, b) = Max(tried)
  BY DEF LastAttempt
<1>5. /\ LastAttempt(p, b) \in Nat /\ u \in Nat /\ t \in Nat /\ now \in Nat
      /\ LastAttempt(p, b) >= u /\ u >= t
  BY <1>1, <1>3, <1>4, LimitAssumption DEF Span, Times, TypeOK, LimitTypeOK
<1>7. now - LastAttempt(p, b) < Window
  BY <1>5, LimitAssumption DEF Lasts
<1>6. b \in Tracked(p)
  BY DEF Tracked, Span
<1> QED
  BY <1>6, <1>7 DEF Fresh

\* An attempt is judged by at most Limit others.  If no bucket is evicted under
\* pressure, what a process remembers of a span that lasts grows by the attempt
\* it lets through; else its counts are lost, but not that attempt.
LEMMA MemoryRemembers ==
  ASSUME TypeOK, MemoryTally, NEW p \in Procs, NEW b \in Buckets, NEW kept, NEW over,
         MemoryHit(p, b, kept, over),
         NEW d \in Buckets, NEW t \in Times, Lasts(t)
  PROVE LET more == IF d = b /\ ~over /\ now \in Span(t) THEN 1 ELSE 0
        IN /\ Remembered(d, p, t)' <= Limit
           /\ \/ resets'[p] = resets[p] /\ Remembered(d, p, t)' = Remembered(d, p, t) + more
              \/ resets'[p] = resets[p] + 1 /\ Remembered(d, p, t)' >= more
<1> DEFINE window == InWindow(p, b, kept)
           before == attempts[p][d]
           after == attempts'[p][d]
           more == IF d = b /\ ~over /\ now \in Span(t) THEN 1 ELSE 0
           base == IF d = b THEN window
                   ELSE IF d \in kept THEN attempts[p][d] ELSE NoAttempts
<1>1. /\ window \in [Times -> Nat] /\ before \in [Times -> Nat]
      /\ base \in [Times -> Nat] /\ now \in Times /\ Span(t) \in SUBSET Times
      /\ over = (Total(window) >= Limit)
  BY DEF InWindow, NoAttempts, TypeOK, LimitTypeOK, Span, MemoryHit
<1>2. after = IF d = b /\ ~over THEN [base EXCEPT ![now] = @ + 1] ELSE base
  BY DEF MemoryHit, TypeOK, LimitTypeOK
<1>3. \A u \in Times : base[u] > 0 => base[u] <= before[u]
  BY <1>1 DEF InWindow, NoAttempts
<1>4. base = window \/ d # b
  OBVIOUS
<1> HIDE DEF base
<1>5. Cardinality(Hits(base, Span(t))) \in Nat
  BY <1>1, HitsFinite
<1>6. Remembered(d, p, t)' = Cardinality(Hits(base, Span(t))) + more
  <2>1. CASE d = b /\ ~over
    <3>1. Remembered(d, p, t)' = Cardinality(Hits([base EXCEPT ![now] = @ + 1], Span(t)))
      BY <1>2, <2>1 DEF Remembered
    <3> QED
      BY <1>1, <2>1, <3>1, HitsMore
  <2>2. CASE ~(d = b /\ ~over)
    BY <1>2, <1>5, <2>2 DEF Remembered
  <2> QED
    BY <2>1, <2>2
<1>7. Cardinality(Hits(base, Span(t))) <= Remembered(d, p, t)
  BY <1>1, <1>3, HitsFewer DEF Remembered
<1>8. Remembered(d, p, t)' <= Limit
  <2>1. CASE d = b /\ ~over
    <3>1. Cardinality(Hits(base, Span(t))) <= Total(window)
      BY <1>1, <1>4, <2>1, HitsFewer DEF Total
    <3>2. Total(window) \in Nat /\ Total(window) < Limit
      <4>1. Total(window) \in Nat
        BY <1>1, HitsFinite DEF Total
      <4>2. ~(Total(window) >= Limit)
        BY <1>1, <2>1
      <4> QED
        BY <4>1, <4>2, LimitAssumption
    <3> QED
      BY <1>5, <1>6, <3>1, <3>2, LimitAssumption
  <2>2. CASE ~(d = b /\ ~over)
    <3>1. Remembered(d, p, t) <= Limit /\ Remembered(d, p, t) \in Nat
      BY TallyTypes DEF MemoryTally
    <3> QED
      BY <1>5, <1>6, <1>7, <2>2, <3>1, LimitAssumption
  <2> QED
    BY <2>1, <2>2
<1>9. CASE kept = Fresh(p)
  <2>1. resets'[p] = resets[p]
    BY <1>9, TallyTypes DEF MemoryHit, TypeOK, LimitTypeOK
  <2>2. \A u \in Span(t) : before[u] > 0 => base[u] = before[u]
    <3> SUFFICES ASSUME NEW u \in Span(t), before[u] > 0 PROVE base[u] = before[u]
      OBVIOUS
    <3>1. d \in kept
      BY <1>9, RecentlyTried
    <3>2. u \in Times /\ now - u < Window
      BY <1>1, LimitAssumption DEF Span, Lasts, Times
    <3> QED
      BY <3>1, <3>2 DEF base, InWindow
  <2>3. Remembered(d, p, t) <= Cardinality(Hits(base, Span(t)))
    BY <1>1, <2>2, HitsFewer DEF Remembered
  <2> QED
    BY <1>5, <1>6, <1>7, <1>8, <2>1, <2>3, TallyTypes
<1>10. CASE kept # Fresh(p)
  <2>1. resets'[p] = resets[p] + 1
    BY <1>10, TallyTypes DEF MemoryHit, TypeOK, LimitTypeOK
  <2> QED
    BY <1>5, <1>6, <1>8, <2>1
<1> QED
  BY <1>9, <1>10

-----------------------------------------------------------------------------
(* Steps of the limiter.                                                   *)

\* A step that counts nothing and opens or closes no window.
Unlimited ==
  /\ UNCHANGED <<now, limitVars>>
  /\ \A r \in Requests : job[r].pc = "expire" \/ job'[r].pc = "expire" => job'[r] = job[r]

\* Whatever else the service does leaves the limiter alone.
LEMMA LimiterSteps ==
  ASSUME TypeOK, [Next]_vars
  PROVE \/ Unlimited
        \/ \E r \in Requests : RedisCounts(r) \/ RedisExpires(r) \/ RedisRaises(r)
        \/ Tick
        \/ RedisReturns
        \/ \E p \in Procs : Crash(p)
<1> USE DEF Unlimited
<1>1. ASSUME NEW r \in Requests, OperatorStep(r) \/ CallerStep(r) PROVE Unlimited
  <2>1. ASSUME NEW s, Begin(r, s), s.pc # "expire",
               UNCHANGED <<now, limitVars>>
        PROVE Unlimited
    BY <2>1 DEF Begin, Goto, Idle, TypeOK
  <2>2. ASSUME NEW c \in Clients, AdminCreate(r, c) \/ StartApprove(r, c) PROVE Unlimited
    BY <2>1, <2>2 DEF AdminCreate, StartApprove
  <2>3. ASSUME NEW c \in Clients, ChangeStatus(r, c) \/ DeleteClient(r, c) PROVE Unlimited
    BY <2>1, <2>3 DEF ChangeStatus, DeleteClient
  <2>4. ASSUME NEW c \in Clients, AdminIssue(r, c) \/ ArriveLimited(r, c) PROVE Unlimited
    BY <2>1, <2>4 DEF AdminIssue, MintFor, ArriveLimited
  <2>5. ASSUME NEW k \in Keys, AdminRevoke(r, k) \/ Present(r, k) PROVE Unlimited
    BY <2>1, <2>5 DEF AdminRevoke, Present, Admitted
  <2> QED
    BY <1>1, <2>2, <2>3, <2>4, <2>5 DEF OperatorStep, CallerStep
<1>2. ASSUME NEW r \in Requests, RequestStep(r)
      PROVE Unlimited \/ RedisCounts(r) \/ RedisExpires(r) \/ RedisRaises(r)
  <2>1. ASSUME NEW s, Goto(r, s), s.pc # "expire", job[r].pc # "expire",
               UNCHANGED <<now, limitVars>>
        PROVE Unlimited
    BY <2>1 DEF Goto, TypeOK
  <2>2. CASE FindToRegister(r) \/ CommitInsert(r) \/ ApproveFails(r) \/ CommitStatus(r)
             \/ CommitDelete(r) \/ CommitAnswered(r) \/ CommitFails(r) \/ CommitRevoke(r)
             \/ StoreFails(r) \/ Finish(r) \/ Reply(r)
    BY <2>1, <2>2 DEF FindToRegister, CommitInsert, ApproveFails, CommitStatus,
       CommitDelete, CommitAnswered, CommitFails, CommitRevoke, StoreFails, Finish, Reply,
       Idle
  <2>3. CASE CommitApprove(r) \/ CommitMint(r) \/ AnswerFirst(r)
    BY <2>1, <2>3 DEF CommitApprove, CommitMint, AnswerFirst, Idle
  <2>4. CASE StoreLink(r) \/ LinkFails(r)
    <3>1. job[r] \in MintedJob
      BY <2>4, JobShape DEF StoreLink, LinkFails, TypeOK
    <3>2. [job[r] EXCEPT !.pc = "reply"].pc # "expire" /\ job[r].pc # "expire"
      BY <3>1 DEF MintedJob
    <3> QED
      BY <2>1, <2>4, <3>2 DEF StoreLink, LinkFails
  <2>5. CASE FindToLookup(r) \/ LookUp(r) \/ Store(r) \/ IssueOwn(r)
    BY <2>1, <2>5 DEF FindToLookup, LookUp, Store, IssueOwn, MintFor, Admitted, Idle
  <2>6. CASE RevokeOwn(r)
    BY <2>1, <2>6 DEF RevokeOwn
  <2> QED
    BY <1>2, <2>2, <2>3, <2>4, <2>5, <2>6 DEF RequestStep
<1>3. CASE UNCHANGED vars \/ RedisGoes \/ \E k \in Keys : BurnLink(k)
  BY <1>3 DEF vars, limitVars, RedisGoes, BurnLink
<1> QED
  BY <1>1, <1>2, <1>3 DEF Next

\* The requests about to set the end of a window: one comes by the attempt that
\* opens it, and leaves when it is answered.
LEMMA OpeningMoves ==
  ASSUME TypeOK, NEW r \in Requests, NEW b \in Buckets
  PROVE /\ RedisCounts(r) =>
             Opening(b)' = IF job[r].bucket = b /\ counter[b] = 0 THEN Opening(b) \cup {r}
                           ELSE Opening(b)
        /\ RedisExpires(r) =>
             Opening(b)' = IF job[r].bucket = b THEN Opening(b) \ {r} ELSE Opening(b)
        /\ RedisRaises(r) => Opening(b)' \subseteq Opening(b)
        /\ (RedisExpires(r) /\ job[r].bucket = b) => r \in Opening(b)
        /\ RedisCounts(r) => r \notin Opening(b)
<1> DEFINE step == RedisCounts(r) \/ RedisExpires(r) \/ RedisRaises(r)
           waits(j) == j.pc = "expire" /\ j.bucket = b
<1>1. step => \A q \in Requests \ {r} : waits(job'[q]) <=> waits(job[q])
  BY DEF RedisCounts, RedisExpires, RedisRaises, LetThrough, Goto, TypeOK
<1>2. /\ \A q \in Requests : q \in Opening(b) <=> waits(job[q])
      /\ \A q \in Requests : q \in Opening(b)' <=> waits(job'[q])
      /\ Opening(b) \subseteq Requests /\ Opening(b)' \subseteq Requests
  BY DEF Opening
<1>3. ASSUME step
      PROVE Opening(b)' = IF waits(job'[r]) THEN Opening(b) \cup {r} ELSE Opening(b) \ {r}
  <2>1. \A q : q \in Opening(b)' <=>
                q \in (IF waits(job'[r]) THEN Opening(b) \cup {r} ELSE Opening(b) \ {r})
    <3> HIDE DEF waits
    <3> QED
      BY <1>1, <1>2, <1>3
  <2> QED
    BY <2>1
<1>4. ASSUME RedisCounts(r)
      PROVE /\ ~waits(job[r])
            /\ waits(job'[r]) <=> job[r].bucket = b /\ counter[b] = 0
  <2>1. job[r].pc = "incr" /\ job[r] \in LimitJob
    BY <1>4, JobShape DEF RedisCounts, TypeOK
  <2>2. CASE counter[job[r].bucket] = 0
    <3>1. job'[r] = [job[r] EXCEPT !.pc = "expire"]
      BY <1>4, <2>2 DEF RedisCounts, Goto, TypeOK
    <3>2. job'[r].pc = "expire" /\ job'[r].bucket = job[r].bucket
      BY <2>1, <3>1 DEF LimitJob
    <3> QED
      BY <2>1, <2>2, <3>2
  <2>3. CASE counter[job[r].bucket] # 0
    <3>1. job'[r].pc # "expire"
      BY <1>4, <2>3 DEF RedisCounts, LetThrough, Goto, TypeOK, Idle
    <3> QED
      BY <2>1, <2>3, <3>1
  <2> QED
    BY <2>2, <2>3
<1>5. ASSUME RedisExpires(r)
      PROVE job[r].pc = "expire" /\ ~waits(job'[r])
  BY <1>5 DEF RedisExpires, LetThrough, Goto, TypeOK, Idle
<1>6. ASSUME RedisRaises(r) PROVE ~waits(job'[r])
  BY <1>6 DEF RedisRaises, LetThrough, Goto, TypeOK, Idle
<1> HIDE DEF waits
<1>7. RedisCounts(r) =>
        /\ Opening(b)' = IF job[r].bucket = b /\ counter[b] = 0 THEN Opening(b) \cup {r}
                         ELSE Opening(b)
        /\ r \notin Opening(b)
  BY <1>2, <1>3, <1>4
<1>8. RedisExpires(r) =>
        /\ Opening(b)' = IF job[r].bucket = b THEN Opening(b) \ {r} ELSE Opening(b)
        /\ job[r].bucket = b => r \in Opening(b)
  BY <1>2, <1>3, <1>5 DEF waits
<1>9. RedisRaises(r) => Opening(b)' \subseteq Opening(b)
  BY <1>3, <1>6
<1> QED
  BY <1>7, <1>8, <1>9

-----------------------------------------------------------------------------
(* Every step keeps the tallies.                                           *)

\* A step that neither accepts nor forgets attempts keeps the sums.
LEMMA SumsKept ==
  ASSUME UNCHANGED <<accepted, resets>>
  PROVE /\ \A b \in Buckets, x \in Counters, t \in Times :
             AcceptedIn(b, x, t)' = AcceptedIn(b, x, t)
        /\ \A x \in Counters : Allowed(x)' = Allowed(x)
BY DEF AcceptedIn, Allowed

\* What is capped grows with what is counted, up to the limit.
LEMMA CappedFacts ==
  /\ \A n \in Nat : Capped(n) \in Nat /\ Capped(n) <= Limit
  /\ \A n \in Nat : Capped(n) <= Capped(n + 1)
  /\ \A n \in Nat : n + 1 <= Limit => Capped(n + 1) = Capped(n) + 1
  /\ \A n \in Nat \ {0} : Capped(n) >= 1
  /\ Capped(0) = 0
BY LimitAssumption DEF Capped

\* An attempt that Redis counts.
LEMMA CountedTally ==
  ASSUME TypeOK, RedisTallies, NEW r \in Requests, RedisCounts(r)
  PROVE RedisTallies'
<1> DEFINE c == job[r].bucket
<1>0. c \in Buckets
  BY JobShape DEF RedisCounts, TypeOK, LimitJob
<1> SUFFICES ASSUME NEW b \in Buckets
             PROVE (OpeningsFew(b) /\ RedisTally(b) /\ WindowTally(b) /\ NothingAhead(b))'
  BY DEF RedisTallies
<1>1. /\ OpeningsFew(b) /\ RedisTally(b) /\ WindowTally(b) /\ NothingAhead(b)
      /\ counter[b] \in Nat /\ expiry[b] \in Nat /\ now \in Nat /\ Window \in Nat
      /\ Limit \in Nat \ {0} /\ Times \subseteq Nat
  BY LimitAssumption DEF RedisTallies, TypeOK, LimitTypeOK, Times
<1>2. /\ now' = now /\ expiry' = expiry /\ resets' = resets
      /\ counter'[b] = IF b = c THEN counter[b] + 1 ELSE counter[b]
  BY <1>0 DEF RedisCounts, Incr, TypeOK, LimitTypeOK
<1>3. Allowed("redis")' = Allowed("redis")
  BY <1>2 DEF Allowed
<1>4. /\ "redis" \in Counters /\ Allowed("redis") \in Nat /\ resets["redis"] \in Nat
      /\ \A t \in Times : AcceptedIn(b, "redis", t) \in Nat
  BY TallyTypes
<1>5. IsFiniteSet(Opening(b)) /\ Cardinality(Opening(b)) \in Nat
  BY <1>1, FS_CardinalityType DEF OpeningsFew
<1>6. CASE b = c /\ counter[b] = 0
  <2>1. UNCHANGED accepted /\ counter'[b] = 1 /\ expiry[b] = 0
    BY <1>1, <1>2, <1>6 DEF RedisCounts, WindowTally
  <2>2. \A t \in Times : AcceptedIn(b, "redis", t)' = AcceptedIn(b, "redis", t)
    BY <2>1 DEF AcceptedIn
  <2>3. Opening(b)' = Opening(b) \cup {r} /\ r \notin Opening(b)
    BY <1>6, OpeningMoves
  <2>4. IsFiniteSet(Opening(b)') /\ Cardinality(Opening(b)') = Cardinality(Opening(b)) + 1
    BY <1>5, <2>3, FS_AddElement
  <2>5. OpeningsFew(b)'
    BY <1>1, <1>2, <1>4, <1>5, <1>6, <2>1, <2>4 DEF OpeningsFew
  <2>6. Capped(counter[b]) = 0 /\ Capped(counter'[b]) = 1
    BY <1>1, <1>6, <2>1 DEF Capped
  <2>7. RedisTally(b)'
    BY <1>1, <1>2, <1>3, <1>4, <1>5, <2>2, <2>4, <2>6 DEF RedisTally, Lasts
  <2>8. WindowTally(b)'
    BY <1>2, <2>1 DEF WindowTally
  <2>9. NothingAhead(b)'
    BY <1>1, <1>2, <2>2 DEF NothingAhead
  <2> QED
    BY <2>5, <2>7, <2>8, <2>9
<1>7. CASE ~(b = c /\ counter[b] = 0)
  <2>1. Opening(b)' = Opening(b)
    BY <1>7, OpeningMoves
  <2>2. \E more \in {0, 1} :
          /\ \A t \in Times : AcceptedIn(b, "redis", t)' <= AcceptedIn(b, "redis", t) + more
          /\ \A t \in Times : t > now => AcceptedIn(b, "redis", t)' = AcceptedIn(b, "redis", t)
          /\ Capped(counter'[b]) >= Capped(counter[b]) + more
          /\ \A t \in Times : AcceptedIn(b, "redis", t)' \in Nat
    <3>1. CASE UNCHANGED accepted
      <4>1. \A t \in Times : AcceptedIn(b, "redis", t)' = AcceptedIn(b, "redis", t)
        BY <3>1 DEF AcceptedIn
      <4>2. Capped(counter'[b]) >= Capped(counter[b]) + 0
        BY <1>1, <1>2, CappedFacts
      <4> QED
        BY <1>4, <4>1, <4>2
    <3>2. CASE ~UNCHANGED accepted
      <4>1. Accept(c, "redis") /\ ~OverLimit(counter[c] + 1)
        BY <3>2 DEF RedisCounts
      <4>2. \A t \in Times : AcceptedIn(b, "redis", t)' = AcceptedIn(b, "redis", t)
              + (IF b = c /\ now \in Span(t) THEN 1 ELSE 0)
        BY <1>0, <1>4, <4>1, AcceptedMore
      <4>3. \A t \in Times : t > now => now \notin Span(t)
        BY <1>1 DEF Span
      <4>4. CASE b = c
        <5>1. counter[b] + 1 <= Limit
          BY <1>1, <4>1, <4>4 DEF OverLimit
        <5>2. Capped(counter'[b]) = Capped(counter[b]) + 1
          BY <1>1, <1>2, <4>4, <5>1, CappedFacts
        <5>3. /\ \A t \in Times : AcceptedIn(b, "redis", t)' <= AcceptedIn(b, "redis", t) + 1
              /\ \A t \in Times : t > now => AcceptedIn(b, "redis", t)' = AcceptedIn(b, "redis", t)
              /\ \A t \in Times : AcceptedIn(b, "redis", t)' \in Nat
          BY <1>4, <4>2, <4>3
        <5>4. Capped(counter[b]) \in Nat
          BY <1>1, CappedFacts
        <5> QED
          BY <5>2, <5>3, <5>4
      <4>5. CASE b # c
        <5>1. \A t \in Times : AcceptedIn(b, "redis", t)' = AcceptedIn(b, "redis", t)
          BY <1>4, <4>2, <4>5
        <5>2. Capped(counter'[b]) >= Capped(counter[b]) + 0
          BY <1>1, <1>2, <4>5, CappedFacts
        <5> QED
          BY <1>4, <5>1, <5>2
      <4> QED
        BY <4>4, <4>5
    <3> QED
      BY <3>1, <3>2
  <2>3. PICK more \in {0, 1} :
          /\ \A t \in Times : AcceptedIn(b, "redis", t)' <= AcceptedIn(b, "redis", t) + more
          /\ \A t \in Times : t > now => AcceptedIn(b, "redis", t)' = AcceptedIn(b, "redis", t)
          /\ Capped(counter'[b]) >= Capped(counter[b]) + more
          /\ \A t \in Times : AcceptedIn(b, "redis", t)' \in Nat
    BY <2>2
  <2>4. /\ Capped(counter[b]) \in Nat /\ Capped(counter'[b]) \in Nat
        /\ counter'[b] >= counter[b] /\ (counter'[b] > 0 <=> counter[b] > 0)
        /\ counter'[b] \in Nat
    BY <1>1, <1>2, <1>7, CappedFacts
  <2>5. OpeningsFew(b)'
    BY <1>1, <1>2, <2>1, <2>4 DEF OpeningsFew
  <2>6. RedisTally(b)'
    BY <1>1, <1>2, <1>3, <1>4, <1>5, <2>1, <2>3, <2>4 DEF RedisTally, Lasts
  <2>7. WindowTally(b)'
    BY <1>1, <1>2, <1>3, <1>4, <1>5, <2>1, <2>3, <2>4 DEF WindowTally
  <2>8. NothingAhead(b)'
    BY <1>1, <1>2, <2>3 DEF NothingAhead
  <2> QED
    BY <2>5, <2>6, <2>7, <2>8
<1> QED
  BY <1>6, <1>7

\* The end of a window is set, and the attempt that opened it let through.
LEMMA ExpiresTally ==
  ASSUME TypeOK, RedisTallies, NEW r \in Requests, RedisExpires(r)
  PROVE RedisTallies'
<1> DEFINE c == job[r].bucket
<1>0. c \in Buckets
  BY JobShape DEF RedisExpires, TypeOK, LimitJob
<1> SUFFICES ASSUME NEW b \in Buckets
             PROVE (OpeningsFew(b) /\ RedisTally(b) /\ WindowTally(b) /\ NothingAhead(b))'
  BY DEF RedisTallies
<1>1. /\ OpeningsFew(b) /\ RedisTally(b) /\ WindowTally(b) /\ NothingAhead(b)
      /\ counter[b] \in Nat /\ expiry[b] \in Nat /\ now \in Nat /\ Window \in Nat \ {0}
      /\ Limit \in Nat \ {0} /\ Times \subseteq Nat
  BY LimitAssumption DEF RedisTallies, TypeOK, LimitTypeOK, Times
<1>2. /\ now' = now /\ counter' = counter /\ resets' = resets
      /\ expiry'[b] = IF b = c /\ counter[b] > 0 THEN now + Window ELSE expiry[b]
  BY <1>0 DEF RedisExpires, Expire, TypeOK, LimitTypeOK
<1>3. Allowed("redis")' = Allowed("redis")
  BY <1>2 DEF Allowed
<1>4. /\ "redis" \in Counters /\ Allowed("redis") \in Nat /\ resets["redis"] \in Nat
      /\ resets["redis"] <= Allowed("redis")
      /\ \A t \in Times : AcceptedIn(b, "redis", t) \in Nat
  BY TallyTypes
<1>5. IsFiniteSet(Opening(b)) /\ Cardinality(Opening(b)) \in Nat
  BY <1>1, FS_CardinalityType DEF OpeningsFew
<1>6. Accept(c, "redis")
  BY <1>1 DEF RedisExpires, OverLimit
<1>7. /\ \A t \in Times : AcceptedIn(b, "redis", t)' = AcceptedIn(b, "redis", t)
           + (IF b = c /\ now \in Span(t) THEN 1 ELSE 0)
      /\ \A t \in Times : t > now => now \notin Span(t)
  BY <1>0, <1>1, <1>4, <1>6, AcceptedMore DEF Span
<1>8. Capped(counter[b]) \in Nat /\ (counter[b] > 0 => Capped(counter[b]) >= 1)
  BY <1>1, CappedFacts
<1>9. CASE b # c
  <2>1. Opening(b)' = Opening(b)
    BY <1>9, OpeningMoves
  <2>2. \A t \in Times : AcceptedIn(b, "redis", t)' = AcceptedIn(b, "redis", t)
    BY <1>4, <1>7, <1>9
  <2>3. OpeningsFew(b)' /\ RedisTally(b)'
    BY <1>1, <1>2, <1>3, <1>9, <2>1, <2>2 DEF OpeningsFew, RedisTally, Lasts
  <2>4. WindowTally(b)' /\ NothingAhead(b)'
    BY <1>1, <1>2, <1>3, <1>9, <2>1, <2>2 DEF WindowTally, NothingAhead
  <2> QED
    BY <2>3, <2>4
<1>10. CASE b = c
  <2>1. Opening(b)' = Opening(b) \ {r} /\ r \in Opening(b)
    BY <1>10, OpeningMoves
  <2>2. IsFiniteSet(Opening(b)') /\ Cardinality(Opening(b)') = Cardinality(Opening(b)) - 1
    BY <1>5, <2>1, FS_RemoveElement
  <2>3. Cardinality(Opening(b)') \in Nat
    BY <2>2, FS_CardinalityType
  <2>4. Cardinality(Opening(b)') <= resets["redis"]
    BY <1>1, <1>4, <1>5, <2>2 DEF OpeningsFew
  <2>5. OpeningsFew(b)'
    BY <1>2, <1>4, <2>2, <2>3, <2>4 DEF OpeningsFew
  <2>6. RedisTally(b)'
    BY <1>1, <1>2, <1>3, <1>4, <1>5, <1>7, <1>8, <2>2 DEF RedisTally, Lasts
  <2>7. NothingAhead(b)'
    <3>1. ASSUME NEW t \in Times, t > now PROVE AcceptedIn(b, "redis", t)' = 0
      <4>1. now \notin Span(t) /\ AcceptedIn(b, "redis", t) = 0
        BY <1>1, <1>7, <3>1 DEF NothingAhead
      <4> QED
        BY <1>7, <4>1
    <3> QED
      BY <1>2, <3>1 DEF NothingAhead
  <2>8. WindowTally(b)'
    <3>1. CASE counter[b] > 0
      <4>1. expiry'[b] = now + Window
        BY <1>2, <1>10, <3>1
      <4>2. ASSUME NEW t \in Times, t + Window > now + Window
            PROVE AcceptedIn(b, "redis", t)' = 0
        BY <1>1, <1>2, <2>7, <4>2 DEF NothingAhead
      <4>3. Cardinality(Opening(b)') <= Allowed("redis") + Capped(counter[b]) - 1
        BY <1>4, <1>8, <2>3, <2>4, <3>1
      <4> QED
        BY <1>1, <1>2, <1>3, <2>3, <3>1, <4>1, <4>2, <4>3 DEF WindowTally
    <3>2. CASE ~(counter[b] > 0)
      BY <1>1, <1>2, <3>2 DEF WindowTally
    <3> QED
      BY <3>1, <3>2
  <2> QED
    BY <2>5, <2>6, <2>7, <2>8
<1> QED
  BY <1>9, <1>10

\* Fewer requests that open windows, a counter that has grown, and attempts of
\* processes, are no attempts let through by Redis.
LEMMA OtherTally ==
  ASSUME TypeOK, RedisTallies, now' = now, expiry' = expiry,
         resets'["redis"] = resets["redis"],
         \A b \in Buckets : /\ Opening(b)' \subseteq Opening(b)
                            /\ counter'[b] \in {counter[b], counter[b] + 1}
                            /\ accepted'[b]["redis"] = accepted[b]["redis"]
  PROVE RedisTallies'
<1> SUFFICES ASSUME NEW b \in Buckets
             PROVE (OpeningsFew(b) /\ RedisTally(b) /\ WindowTally(b) /\ NothingAhead(b))'
  BY DEF RedisTallies
<1>1. /\ OpeningsFew(b) /\ RedisTally(b) /\ WindowTally(b) /\ NothingAhead(b)
      /\ counter[b] \in Nat /\ expiry[b] \in Nat /\ now \in Nat /\ Window \in Nat \ {0}
      /\ Limit \in Nat \ {0} /\ Times \subseteq Nat
  BY LimitAssumption DEF RedisTallies, TypeOK, LimitTypeOK, Times
<1>2. Allowed("redis")' = Allowed("redis")
  BY DEF Allowed
<1>3. /\ Allowed("redis") \in Nat /\ resets["redis"] \in Nat
      /\ \A t \in Times : AcceptedIn(b, "redis", t) \in Nat
  BY TallyTypes
<1>4. \A t \in Times : AcceptedIn(b, "redis", t)' = AcceptedIn(b, "redis", t)
  BY DEF AcceptedIn
<1>5. /\ IsFiniteSet(Opening(b)') /\ Cardinality(Opening(b)') \in Nat
      /\ Cardinality(Opening(b)') <= Cardinality(Opening(b)) /\ Cardinality(Opening(b)) \in Nat
  BY <1>1, FS_Subset, FS_CardinalityType DEF OpeningsFew
<1>6. /\ Capped(counter[b]) \in Nat /\ Capped(counter'[b]) \in Nat
      /\ Capped(counter[b]) <= Capped(counter'[b])
      /\ counter'[b] \in Nat /\ counter'[b] >= counter[b]
  BY <1>1, CappedFacts
<1>7. OpeningsFew(b)'
  BY <1>1, <1>3, <1>5, <1>6 DEF OpeningsFew
<1>8. RedisTally(b)'
  BY <1>1, <1>2, <1>3, <1>4, <1>5, <1>6 DEF RedisTally, Lasts
<1>9. WindowTally(b)' /\ NothingAhead(b)'
  BY <1>1, <1>2, <1>3, <1>4, <1>5, <1>6 DEF WindowTally, NothingAhead
<1> QED
  BY <1>7, <1>8, <1>9

\* Time passes: a window that ends has counted all but one of the attempts that
\* the spans still under way hold.
LEMMA TickTally ==
  ASSUME TypeOK, RedisTallies, Tick
  PROVE RedisTallies'
<1> SUFFICES ASSUME NEW b \in Buckets
             PROVE (OpeningsFew(b) /\ RedisTally(b) /\ WindowTally(b) /\ NothingAhead(b))'
  BY DEF RedisTallies
<1>1. /\ OpeningsFew(b) /\ RedisTally(b) /\ WindowTally(b) /\ NothingAhead(b)
      /\ counter[b] \in Nat /\ expiry[b] \in Nat /\ now \in Nat /\ Window \in Nat \ {0}
      /\ Limit \in Nat \ {0} /\ Times \subseteq Nat
  BY LimitAssumption DEF RedisTallies, TypeOK, LimitTypeOK, Times
<1>2. /\ now' = now + 1 /\ UNCHANGED <<accepted, resets, job>>
      /\ counter'[b] = IF expiry[b] = now + 1 THEN 0 ELSE counter[b]
      /\ expiry'[b] = IF expiry[b] = now + 1 THEN 0 ELSE expiry[b]
  BY DEF Tick, ExpireKeys
<1>3. /\ Opening(b)' = Opening(b) /\ Allowed("redis")' = Allowed("redis")
      /\ \A t \in Times : AcceptedIn(b, "redis", t)' = AcceptedIn(b, "redis", t)
  BY <1>2 DEF Opening, Allowed, AcceptedIn
<1>4. /\ Allowed("redis") \in Nat /\ resets["redis"] \in Nat
      /\ \A t \in Times : AcceptedIn(b, "redis", t) \in Nat
      /\ Cardinality(Opening(b)) \in Nat
  BY <1>1, TallyTypes, FS_CardinalityType DEF OpeningsFew
<1>5. Capped(counter[b]) \in Nat /\ Capped(counter[b]) <= Limit /\ Capped(0) = 0
  BY <1>1, CappedFacts
<1>6. NothingAhead(b)'
  BY <1>1, <1>2, <1>3 DEF NothingAhead
<1>7. CASE expiry[b] = now + 1
  <2>1. counter'[b] = 0 /\ expiry'[b] = 0 /\ expiry[b] > 0
    BY <1>1, <1>2, <1>7
  <2>2. OpeningsFew(b)' /\ WindowTally(b)'
    BY <1>1, <1>2, <1>3, <2>1 DEF OpeningsFew, WindowTally
  <2>3. RedisTally(b)'
    <3>1. ASSUME NEW t \in Times, Lasts(t)'
          PROVE AcceptedIn(b, "redis", t) + Cardinality(Opening(b))
                  <= Allowed("redis") + (Limit - 1) + Capped(0)
      <4>1. t + Window > expiry[b]
        BY <1>2, <1>7, <3>1 DEF Lasts
      <4>2. AcceptedIn(b, "redis", t) + Cardinality(Opening(b))
              <= Allowed("redis") + Capped(counter[b]) - 1
        BY <1>1, <2>1, <4>1 DEF WindowTally
      <4> QED
        BY <1>1, <1>4, <1>5, <4>2
    <3> QED
      BY <1>3, <2>1, <3>1 DEF RedisTally
  <2> QED
    BY <1>6, <2>2, <2>3
<1>8. CASE expiry[b] # now + 1
  <2>1. counter'[b] = counter[b] /\ expiry'[b] = expiry[b]
    BY <1>2, <1>8
  <2>2. OpeningsFew(b)'
    BY <1>1, <1>2, <1>3, <2>1 DEF OpeningsFew
  <2>3. WindowTally(b)'
    BY <1>1, <1>2, <1>3, <1>8, <2>1 DEF WindowTally
  <2>4. RedisTally(b)'
    BY <1>1, <1>2, <1>3, <2>1 DEF RedisTally, Lasts
  <2> QED
    BY <1>6, <2>2, <2>3, <2>4
<1> QED
  BY <1>7, <1>8

\* Redis comes back with nothing left.
LEMMA ForgetTally ==
  ASSUME TypeOK, RedisTallies, ForgetKeys, UNCHANGED <<now, job, accepted>>
  PROVE RedisTallies'
<1> SUFFICES ASSUME NEW b \in Buckets
             PROVE (OpeningsFew(b) /\ RedisTally(b) /\ WindowTally(b) /\ NothingAhead(b))'
  BY DEF RedisTallies
<1>1. /\ OpeningsFew(b) /\ RedisTally(b) /\ WindowTally(b) /\ NothingAhead(b)
      /\ counter[b] \in Nat /\ now \in Nat /\ Window \in Nat
      /\ Limit \in Nat \ {0} /\ Times \subseteq Nat
  BY LimitAssumption DEF RedisTallies, TypeOK, LimitTypeOK, Times
<1>2. /\ Allowed("redis") \in Nat /\ resets["redis"] \in Nat /\ "redis" \in Counters
      /\ \A t \in Times : AcceptedIn(b, "redis", t) \in Nat
      /\ Cardinality(Opening(b)) \in Nat
  BY <1>1, TallyTypes, FS_CardinalityType DEF OpeningsFew
<1>3. counter'[b] = 0 /\ expiry'[b] = 0 /\ resets'["redis"] = resets["redis"] + 1
  BY <1>2 DEF ForgetKeys, TypeOK, LimitTypeOK
<1>4. Allowed("redis")' = Allowed("redis") + Limit
  BY <1>2, <1>3, AllowedMore
<1>5. /\ Opening(b)' = Opening(b)
      /\ \A t \in Times : AcceptedIn(b, "redis", t)' = AcceptedIn(b, "redis", t)
  BY DEF Opening, AcceptedIn
<1>6. Capped(counter[b]) \in Nat /\ Capped(counter[b]) <= Limit /\ Capped(0) = 0
  BY <1>1, CappedFacts
<1>7. OpeningsFew(b)' /\ WindowTally(b)' /\ NothingAhead(b)'
  BY <1>1, <1>2, <1>3, <1>5 DEF OpeningsFew, WindowTally, NothingAhead
<1>8. RedisTally(b)'
  BY <1>1, <1>2, <1>3, <1>4, <1>5, <1>6 DEF RedisTally, Lasts
<1> QED
  BY <1>7, <1>8

\* Every step keeps what is tallied of Redis.
LEMMA NextRedisTally ==
  ASSUME TypeOK, RedisTallies, [Next]_vars
  PROVE RedisTallies'
<1>1. "redis" \in Counters /\ \A p \in Procs : p \in Counters /\ p # "redis"
  BY RedisAssumption DEF Counters
<1>2. CASE Unlimited
  <2>1. \A b \in Buckets : Opening(b)' = Opening(b)
    BY <1>2 DEF Unlimited, Opening
  <2>2. now' = now /\ expiry' = expiry /\ resets' = resets /\ counter' = counter
        /\ accepted' = accepted
    BY <1>2 DEF Unlimited, limitVars
  <2> QED
    BY <2>1, <2>2, OtherTally
<1>3. ASSUME NEW r \in Requests, RedisRaises(r) PROVE RedisTallies'
  <2> DEFINE c == job[r].bucket
             p == HostOf[r]
  <2>1. c \in Buckets /\ p \in Procs
    BY <1>3, JobShape, TenancyAssumption DEF RedisRaises, TypeOK, LimitJob
  <2>2. now' = now /\ expiry' = expiry
    BY <1>3 DEF RedisRaises
  <2>3. resets'["redis"] = resets["redis"]
    BY <1>1, <1>3, <2>1 DEF RedisRaises, MemoryHit, TypeOK, LimitTypeOK
  <2>4. \A b \in Buckets : counter'[b] \in {counter[b], counter[b] + 1}
    BY <1>3, <2>1 DEF RedisRaises, Incr, TypeOK, LimitTypeOK
  <2>5. accepted' = accepted \/ Accept(c, p)
    BY <1>3 DEF RedisRaises
  <2>6. \A b \in Buckets : accepted'[b]["redis"] = accepted[b]["redis"]
    <3> SUFFICES ASSUME NEW b \in Buckets PROVE accepted'[b]["redis"] = accepted[b]["redis"]
      OBVIOUS
    <3> HIDE DEF c, p
    <3>1. CASE Accept(c, p)
      BY <1>1, <2>1, <3>1 DEF Accept, TypeOK, LimitTypeOK
    <3> QED
      BY <2>5, <3>1
  <2>7. \A b \in Buckets : Opening(b)' \subseteq Opening(b)
    BY <1>3, OpeningMoves
  <2> QED
    BY <2>2, <2>3, <2>4, <2>6, <2>7, OtherTally
<1>4. ASSUME NEW p \in Procs, Crash(p) PROVE RedisTallies'
  <2>1. now' = now /\ expiry' = expiry /\ counter' = counter /\ accepted' = accepted
    BY <1>4 DEF Crash
  <2>2. resets'["redis"] = resets["redis"]
    BY <1>1, <1>4 DEF Crash, ForgetAttempts, TypeOK, LimitTypeOK
  <2>3. \A b \in Buckets : Opening(b)' \subseteq Opening(b)
    BY <1>4 DEF Crash, Opening, Idle, TypeOK
  <2> QED
    BY <2>1, <2>2, <2>3, OtherTally
<1>5. CASE RedisReturns
  <2>1. now' = now /\ job' = job /\ accepted' = accepted
    BY <1>5 DEF RedisReturns, limitVars
  <2>2. CASE ForgetKeys
    BY <2>1, <2>2, ForgetTally
  <2>3. CASE ~ForgetKeys
    <3>1. Unlimited
      BY <1>5, <2>1, <2>3 DEF RedisReturns, Unlimited
    <3> QED
      BY <1>2, <3>1
  <2> QED
    BY <2>2, <2>3
<1> QED
  BY <1>2, <1>3, <1>4, <1>5, LimiterSteps, CountedTally, ExpiresTally, TickTally

\* What a step leaves of one process's window and losses.
LEMMA ProcessKept ==
  ASSUME MemoryTally, NEW q \in Procs,
         attempts'[q] = attempts[q], resets'[q] = resets[q], now' >= now,
         now \in Nat, now' \in Nat, Window \in Nat, Times \subseteq Nat,
         \A b \in Buckets, t \in Times : AcceptedIn(b, q, t)' = AcceptedIn(b, q, t)
  PROVE \A b \in Buckets, t \in Times :
          Lasts(t)' => /\ Remembered(b, q, t)' <= Limit
                       /\ AcceptedIn(b, q, t)' <= Allowed(q)' + Remembered(b, q, t)'
<1> SUFFICES ASSUME NEW b \in Buckets, NEW t \in Times, Lasts(t)'
             PROVE /\ Remembered(b, q, t)' <= Limit
                   /\ AcceptedIn(b, q, t)' <= Allowed(q)' + Remembered(b, q, t)'
  OBVIOUS
<1>1. Lasts(t)
  BY DEF Lasts
<1>2. Remembered(b, q, t)' = Remembered(b, q, t) /\ Allowed(q)' = Allowed(q)
  BY DEF Remembered, Allowed
<1> QED
  BY <1>1, <1>2 DEF MemoryTally

\* Every step keeps what is tallied of the processes.
LEMMA NextMemoryTally ==
  ASSUME TypeOK, MemoryTally, [Next]_vars
  PROVE MemoryTally'
<1> DEFINE Kept(q) ==
      \A b \in Buckets, t \in Times :
        Lasts(t)' => /\ Remembered(b, q, t)' <= Limit
                     /\ AcceptedIn(b, q, t)' <= Allowed(q)' + Remembered(b, q, t)'
<1> SUFFICES ASSUME NEW q \in Procs PROVE Kept(q)
  BY DEF MemoryTally
<1>0. /\ q \in Counters /\ q # "redis" /\ "redis" \in Counters
      /\ now \in Nat /\ Window \in Nat /\ Limit \in Nat \ {0} /\ Times \subseteq Nat
  BY RedisAssumption, LimitAssumption DEF Counters, TypeOK, LimitTypeOK, Times
<1>1. ASSUME attempts'[q] = attempts[q], resets'[q] = resets[q],
             now' \in {now, now + 1}, accepted' = accepted
      PROVE Kept(q)
  <2>1. \A b \in Buckets, t \in Times : AcceptedIn(b, q, t)' = AcceptedIn(b, q, t)
    BY <1>1 DEF AcceptedIn
  <2>2. now' >= now /\ now' \in Nat
    BY <1>0, <1>1
  <2> HIDE DEF Kept
  <2> QED
    BY <1>0, <1>1, <2>1, <2>2, ProcessKept DEF Kept
<1>2. CASE Unlimited
  BY <1>1, <1>2 DEF Unlimited, limitVars
<1>3. ASSUME NEW r \in Requests, RedisCounts(r) \/ RedisExpires(r) PROVE Kept(q)
  <2>1. attempts' = attempts /\ resets' = resets /\ now' = now
    BY <1>3 DEF RedisCounts, RedisExpires
  <2>2. job[r].bucket \in Buckets
    BY <1>3, JobShape DEF RedisCounts, RedisExpires, TypeOK, LimitJob
  <2>3. accepted' = accepted \/ Accept(job[r].bucket, "redis")
    BY <1>3 DEF RedisCounts, RedisExpires
  <2>4. accepted' = accepted
        \/ \A b \in Buckets, t \in Times : AcceptedIn(b, q, t)' = AcceptedIn(b, q, t)
    <3>1. CASE Accept(job[r].bucket, "redis")
      <4>1. \A b \in Buckets, t \in Times :
              AcceptedIn(b, q, t) \in Nat /\ AcceptedIn(b, q, t)' = AcceptedIn(b, q, t) + 0
        BY <1>0, <2>2, <3>1, AcceptedMore, TallyTypes
      <4> QED
        BY <4>1
    <3> QED
      BY <2>3, <3>1
  <2>5. CASE accepted' = accepted
    BY <1>1, <2>1, <2>5
  <2>6. CASE \A b \in Buckets, t \in Times : AcceptedIn(b, q, t)' = AcceptedIn(b, q, t)
    <3> HIDE DEF Kept
    <3> QED
      BY <1>0, <2>1, <2>6, ProcessKept DEF Kept
  <2> QED
    BY <2>4, <2>5, <2>6
<1>4. ASSUME NEW r \in Requests, RedisRaises(r) PROVE Kept(q)
  <2> DEFINE c == job[r].bucket
             p == HostOf[r]
  <2>1. c \in Buckets /\ p \in Procs /\ p \in Counters
    BY <1>4, JobShape, TenancyAssumption DEF RedisRaises, TypeOK, LimitJob, Counters
  <2>2. PICK kept \in Retained(p), over \in BOOLEAN :
          /\ MemoryHit(p, c, kept, over)
          /\ IF over THEN accepted' = accepted ELSE Accept(c, p)
    BY <1>4 DEF RedisRaises
  <2>3. now' = now
    BY <1>4 DEF RedisRaises
  <2>4. \A b \in Buckets, t \in Times :
          /\ AcceptedIn(b, q, t) \in Nat
          /\ AcceptedIn(b, q, t)' = AcceptedIn(b, q, t)
               + (IF b = c /\ q = p /\ ~over /\ now \in Span(t) THEN 1 ELSE 0)
    <3>1. CASE over
      <4>1. \A b \in Buckets, t \in Times : AcceptedIn(b, q, t)' = AcceptedIn(b, q, t)
        BY <2>2, <3>1 DEF AcceptedIn
      <4> QED
        BY <1>0, <3>1, <4>1, TallyTypes
    <3>2. CASE ~over
      <4>1. Accept(c, p)
        BY <2>2, <3>2
      <4>2. \A b \in Buckets, t \in Times :
              AcceptedIn(b, q, t)' = AcceptedIn(b, q, t)
                + (IF b = c /\ q = p /\ now \in Span(t) THEN 1 ELSE 0)
        BY <1>0, <2>1, <4>1, AcceptedMore
      <4> QED
        BY <1>0, <3>2, <4>2, TallyTypes
    <3> QED
      BY <3>1, <3>2
  <2>5. CASE q # p
    <3>1. attempts'[q] = attempts[q] /\ resets'[q] = resets[q]
      BY <1>0, <2>1, <2>2, <2>5 DEF MemoryHit, TypeOK, LimitTypeOK
    <3>2. \A b \in Buckets, t \in Times : AcceptedIn(b, q, t)' = AcceptedIn(b, q, t)
      BY <2>4, <2>5
    <3> HIDE DEF Kept
    <3> QED
      BY <1>0, <2>3, <3>1, <3>2, ProcessKept DEF Kept
  <2>6. CASE q = p
    <3> SUFFICES ASSUME NEW b \in Buckets, NEW t \in Times, Lasts(t)'
                 PROVE /\ Remembered(b, q, t)' <= Limit
                       /\ AcceptedIn(b, q, t)' <= Allowed(q)' + Remembered(b, q, t)'
      OBVIOUS
    <3> DEFINE more == IF b = c /\ ~over /\ now \in Span(t) THEN 1 ELSE 0
    <3>1. Lasts(t)
      BY <2>3 DEF Lasts
    <3>2. /\ Remembered(b, q, t)' <= Limit
          /\ \/ resets'[q] = resets[q] /\ Remembered(b, q, t)' = Remembered(b, q, t) + more
             \/ resets'[q] = resets[q] + 1 /\ Remembered(b, q, t)' >= more
      BY <2>1, <2>2, <2>6, <3>1, MemoryRemembers
    <3>3. /\ AcceptedIn(b, q, t)' = AcceptedIn(b, q, t) + more
          /\ AcceptedIn(b, q, t) <= Allowed(q) + Remembered(b, q, t)
          /\ Remembered(b, q, t) <= Limit
      BY <2>4, <2>6, <3>1 DEF MemoryTally
    <3>4. /\ AcceptedIn(b, q, t) \in Nat /\ Allowed(q) \in Nat
          /\ Remembered(b, q, t) \in Nat /\ more \in {0, 1}
      BY <1>0, TallyTypes
    <3> HIDE DEF more
    <3>5. CASE resets'[q] = resets[q] /\ Remembered(b, q, t)' = Remembered(b, q, t) + more
      <4>1. Allowed(q)' = Allowed(q)
        BY <3>5 DEF Allowed
      <4> QED
        BY <3>2, <3>3, <3>4, <3>5, <4>1
    <3>6. CASE resets'[q] = resets[q] + 1 /\ Remembered(b, q, t)' >= more
      <4>1. Allowed(q)' = Allowed(q) + Limit
        BY <1>0, <3>6, AllowedMore
      <4>2. Remembered(b, q, t)' \in Nat
        <5>1. attempts' \in [Procs -> [Buckets -> [Times -> Nat]]] /\ Span(t) \in SUBSET Times
          BY <2>1, <2>2, MemoryType DEF Span
        <5>2. attempts'[q][b] \in [Times -> Nat]
          BY <5>1
        <5> QED
          BY <5>1, <5>2, HitsFinite DEF Remembered
      <4> QED
        BY <1>0, <3>2, <3>3, <3>4, <3>6, <4>1, <4>2
    <3> QED
      BY <3>2, <3>5, <3>6
  <2> QED
    BY <2>5, <2>6
<1>5. ASSUME NEW p \in Procs, Crash(p) PROVE Kept(q)
  <2>1. now' = now /\ accepted' = accepted /\ ForgetAttempts(p)
    BY <1>5 DEF Crash
  <2>2. CASE q # p
    <3>1. attempts'[q] = attempts[q] /\ resets'[q] = resets[q]
      BY <1>0, <2>1, <2>2 DEF ForgetAttempts, TypeOK, LimitTypeOK
    <3> QED
      BY <1>1, <2>1, <3>1
  <2>3. CASE q = p
    <3> SUFFICES ASSUME NEW b \in Buckets, NEW t \in Times, Lasts(t)'
                 PROVE /\ Remembered(b, q, t)' <= Limit
                       /\ AcceptedIn(b, q, t)' <= Allowed(q)' + Remembered(b, q, t)'
      OBVIOUS
    <3>1. Lasts(t) /\ AcceptedIn(b, q, t)' = AcceptedIn(b, q, t)
      BY <2>1 DEF Lasts, AcceptedIn
    <3>2. attempts'[q][b] = NoAttempts /\ resets'[q] = resets[q] + 1
      BY <1>0, <2>1, <2>3 DEF ForgetAttempts, TypeOK, LimitTypeOK
    <3>3. Allowed(q)' = Allowed(q) + Limit
      BY <1>0, <3>2, AllowedMore
    <3>4. Remembered(b, q, t)' = 0
      BY <3>2, NothingCounted DEF Remembered, Span
    <3>5. /\ AcceptedIn(b, q, t) <= Allowed(q) + Remembered(b, q, t)
          /\ Remembered(b, q, t) <= Limit
          /\ AcceptedIn(b, q, t) \in Nat /\ Allowed(q) \in Nat /\ Remembered(b, q, t) \in Nat
      BY <1>0, <3>1, TallyTypes DEF MemoryTally
    <3> QED
      BY <1>0, <3>1, <3>3, <3>4, <3>5
  <2> QED
    BY <2>2, <2>3
<1>6. CASE Tick
  BY <1>1, <1>6 DEF Tick
<1>7. CASE RedisReturns
  <2>1. now' = now /\ attempts' = attempts /\ accepted' = accepted
    BY <1>7 DEF RedisReturns, limitVars
  <2>2. resets'[q] = resets[q]
    BY <1>0, <1>7 DEF RedisReturns, limitVars, ForgetKeys, TypeOK, LimitTypeOK
  <2> QED
    BY <1>1, <2>1, <2>2
<1> HIDE DEF Kept
<1> QED
  BY <1>2, <1>3, <1>4, <1>5, <1>6, <1>7, LimiterSteps

\* Nothing is tallied at the start.
LEMMA InitTallied == Init => Tallied /\ AttemptsBounded
<1> SUFFICES ASSUME Init PROVE Tallied /\ AttemptsBounded
  OBVIOUS
<1>1. /\ TypeOK
      /\ \A t \in Times : Span(t) \in SUBSET Times
      /\ \A b \in Buckets : counter[b] = 0 /\ expiry[b] = 0
      /\ \A b \in Buckets, p \in Procs : attempts[p][b] = NoAttempts
      /\ \A b \in Buckets, x \in Counters : accepted[b][x] = NoAttempts
  BY InitType DEF Span, Init, LimitInit
<1>2. /\ \A b \in Buckets, x \in Counters, t \in Times : AcceptedIn(b, x, t) = 0
      /\ \A b \in Buckets, p \in Procs, t \in Times : Remembered(b, p, t) = 0
  BY <1>1, NothingCounted DEF AcceptedIn, Remembered
<1>3. \A b \in Buckets :
        Opening(b) = {} /\ IsFiniteSet(Opening(b)) /\ Cardinality(Opening(b)) = 0
  <2> SUFFICES ASSUME NEW b \in Buckets PROVE Opening(b) = {}
    BY FS_EmptySet
  <2>1. \A r \in Requests : job[r].pc # "expire"
    BY DEF Init, Idle
  <2> QED
    BY <2>1 DEF Opening
<1>4. /\ \A x \in Counters : resets[x] \in Nat /\ Allowed(x) \in Nat
      /\ "redis" \in Counters /\ Procs \subseteq Counters
  BY <1>1, TallyTypes
<1>5. Limit \in Nat \ {0} /\ Capped(0) = 0
  BY LimitAssumption, CappedFacts
<1>6. MemoryTally
  BY <1>2, <1>4, <1>5 DEF MemoryTally
<1>7. RedisTallies
  <2> SUFFICES ASSUME NEW b \in Buckets
               PROVE OpeningsFew(b) /\ RedisTally(b) /\ WindowTally(b) /\ NothingAhead(b)
    BY DEF RedisTallies
  <2>1. OpeningsFew(b)
    BY <1>1, <1>3, <1>4 DEF OpeningsFew
  <2>2. RedisTally(b)
    BY <1>1, <1>2, <1>3, <1>4, <1>5 DEF RedisTally
  <2>3. WindowTally(b) /\ NothingAhead(b)
    BY <1>1, <1>2, <1>4 DEF WindowTally, NothingAhead
  <2> QED
    BY <2>1, <2>2, <2>3
<1>8. AttemptsBounded
  <2>1. ASSUME NEW x \in Counters PROVE Limit * (1 + resets[x]) \in Nat
    BY <1>4, <1>5
  <2> QED
    BY <1>2, <1>5, <2>1 DEF AttemptsBounded
<1> QED
  BY <1>6, <1>7, <1>8 DEF Tallied

\* An attempt is accepted at the present time, and losses are counted one by one.
LEMMA LimiterAccepts ==
  ASSUME TypeOK, [Next]_vars
  PROVE /\ accepted' = accepted
             \/ \E c \in Buckets, y \in Counters : now' = now /\ Accept(c, y)
        /\ \A x \in Counters : resets'[x] \in {resets[x], resets[x] + 1}
<1>1. "redis" \in Counters /\ Procs \subseteq Counters
  BY DEF Counters
<1>2. CASE Unlimited \/ Tick
  BY <1>2 DEF Unlimited, limitVars, Tick
<1>3. ASSUME NEW r \in Requests, RedisCounts(r) \/ RedisExpires(r)
      PROVE now' = now /\ resets' = resets
            /\ (accepted' = accepted \/ \E c \in Buckets, y \in Counters : Accept(c, y))
  <2>1. now' = now /\ resets' = resets
    BY <1>3 DEF RedisCounts, RedisExpires
  <2>2. job[r].bucket \in Buckets
    BY <1>3, JobShape DEF RedisCounts, RedisExpires, TypeOK, LimitJob
  <2>3. accepted' = accepted \/ Accept(job[r].bucket, "redis")
    BY <1>3 DEF RedisCounts, RedisExpires
  <2> QED
    BY <1>1, <2>1, <2>2, <2>3
<1>4. ASSUME NEW r \in Requests, RedisRaises(r)
      PROVE /\ now' = now
            /\ (accepted' = accepted \/ \E c \in Buckets, y \in Counters : Accept(c, y))
            /\ \A x \in Counters : resets'[x] \in {resets[x], resets[x] + 1}
  <2>1. job[r].bucket \in Buckets /\ HostOf[r] \in Counters
    BY <1>1, <1>4, JobShape, TenancyAssumption DEF RedisRaises, TypeOK, LimitJob
  <2>2. now' = now /\ (accepted' = accepted \/ Accept(job[r].bucket, HostOf[r]))
    BY <1>4 DEF RedisRaises
  <2>3. \A x \in Counters : resets'[x] \in {resets[x], resets[x] + 1}
    BY <1>4, <2>1 DEF RedisRaises, MemoryHit, TypeOK, LimitTypeOK
  <2> QED
    BY <2>1, <2>2, <2>3
<1>5. ASSUME NEW p \in Procs, Crash(p)
      PROVE accepted' = accepted
            /\ \A x \in Counters : resets'[x] \in {resets[x], resets[x] + 1}
  BY <1>1, <1>5 DEF Crash, ForgetAttempts, TypeOK, LimitTypeOK
<1>6. CASE RedisReturns
  BY <1>1, <1>6 DEF RedisReturns, limitVars, ForgetKeys, TypeOK, LimitTypeOK
<1> QED
  BY <1>2, <1>3, <1>4, <1>5, <1>6, LimiterSteps

\* A span that is over is not added to, and what losses allow is not taken back.
LEMMA LimitKept ==
  ASSUME TypeOK, TypeOK', Tallied', AttemptsBounded, [Next]_vars
  PROVE AttemptsBounded'
<1> SUFFICES ASSUME NEW b \in Buckets, NEW x \in Counters, NEW t \in Times
             PROVE AcceptedIn(b, x, t)'
                     <= Limit * (1 + resets'[x]) + (IF x = "redis" THEN Limit - 1 ELSE 0)
  BY DEF AttemptsBounded
<1> DEFINE extra == IF x = "redis" THEN Limit - 1 ELSE 0
<1>1. /\ now \in Nat /\ Window \in Nat \ {0} /\ Limit \in Nat \ {0} /\ t \in Nat /\ extra \in Nat
      /\ counter'[b] \in Nat /\ now' \in Nat
  BY LimitAssumption DEF Times, TypeOK, LimitTypeOK
<1>2. /\ resets[x] \in Nat /\ resets'[x] \in Nat /\ Allowed(x) \in Nat /\ Allowed(x)' \in Nat
      /\ AcceptedIn(b, x, t) \in Nat /\ AcceptedIn(b, x, t)' \in Nat
  BY TallyTypes, TallyTypesNext
<1>3. Limit * (1 + resets'[x]) = Allowed(x)' + Limit
  BY <1>1, <1>2 DEF Allowed
<1>4. CASE Lasts(t)'
  <2>1. CASE x = "redis"
    <3>1. AcceptedIn(b, x, t)' + Cardinality(Opening(b)')
            <= Allowed(x)' + (Limit - 1) + Capped(counter'[b])
      BY <1>4, <2>1 DEF Tallied, RedisTallies, RedisTally
    <3>2. Cardinality(Opening(b)') \in Nat
      BY FS_CardinalityType DEF Tallied, RedisTallies, OpeningsFew
    <3>3. Capped(counter'[b]) \in Nat /\ Capped(counter'[b]) <= Limit
      BY <1>1, CappedFacts
    <3> QED
      BY <1>1, <1>2, <1>3, <2>1, <3>1, <3>2, <3>3
  <2>2. CASE x # "redis"
    <3>1. x \in Procs
      BY <2>2 DEF Counters
    <3>2. /\ Remembered(b, x, t)' <= Limit
          /\ AcceptedIn(b, x, t)' <= Allowed(x)' + Remembered(b, x, t)'
      BY <1>4, <3>1 DEF Tallied, MemoryTally
    <3>3. Remembered(b, x, t)' \in Nat
      BY <3>1, TallyTypesNext
    <3> QED
      BY <1>1, <1>2, <1>3, <2>2, <3>2, <3>3
  <2> QED
    BY <2>1, <2>2
<1>5. CASE ~Lasts(t)'
  <2>1. AcceptedIn(b, x, t)' = AcceptedIn(b, x, t)
    <3>1. CASE accepted' = accepted
      BY <3>1 DEF AcceptedIn
    <3>2. CASE accepted' # accepted
      <4>1. PICK c \in Buckets, y \in Counters : now' = now /\ Accept(c, y)
        BY <3>2, LimiterAccepts
      <4>2. now \notin Span(t)
        BY <1>1, <1>5, <4>1 DEF Lasts, Span
      <4>3. AcceptedIn(b, x, t)' = AcceptedIn(b, x, t) + 0
        BY <4>1, <4>2, AcceptedMore
      <4> QED
        BY <1>2, <4>3
    <3> QED
      BY <3>1, <3>2
  <2>2. Allowed(x)' >= Allowed(x)
    <3>1. resets'[x] \in {resets[x], resets[x] + 1}
      BY LimiterAccepts
    <3>2. CASE resets'[x] = resets[x] + 1
      <4>1. Allowed(x)' = Allowed(x) + Limit
        BY <3>2, AllowedMore
      <4> QED
        BY <1>1, <1>2, <4>1
    <3>3. CASE resets'[x] = resets[x]
      BY <1>2, <3>3 DEF Allowed
    <3> QED
      BY <3>1, <3>2, <3>3
  <2>3. AcceptedIn(b, x, t) <= Limit * (1 + resets[x]) + extra
    BY DEF AttemptsBounded
  <2>4. Limit * (1 + resets[x]) = Allowed(x) + Limit
    BY <1>1, <1>2 DEF Allowed
  <2> HIDE DEF extra
  <2>5. AcceptedIn(b, x, t)' <= Allowed(x)' + Limit + extra
    BY <1>1, <1>2, <2>1, <2>2, <2>3, <2>4
  <2> QED
    BY <1>3, <2>5 DEF extra
<1> QED
  BY <1>4, <1>5

-----------------------------------------------------------------------------
(* What the limiter promises.                                              *)

\* In any span of Window ticks, a process lets Limit attempts of a bucket
\* through, and Redis, whose windows are fixed, at most twice as many less one,
\* and Limit more for each time counts were lost: for every number of processes,
\* buckets and requests, and wherever commands fail, processes die and windows end
\* between the command that counts an attempt and the one that sets the end.
THEOREM AttemptsWithinLimit == Spec => []AttemptsBounded
<1> DEFINE Inv == Tallied /\ AttemptsBounded
<1>1. Init => Inv
  BY InitTallied
<1>2. TypeOK /\ TypeOK' /\ Inv /\ [Next]_vars => Inv'
  <2> SUFFICES ASSUME TypeOK, TypeOK', Inv, [Next]_vars PROVE Inv'
    OBVIOUS
  <2>1. Tallied'
    BY NextRedisTally, NextMemoryTally DEF Tallied
  <2> QED
    BY <2>1, LimitKept
<1> QED
  BY <1>1, <1>2, TypeCorrect, PTL DEF Spec

=============================================================================
