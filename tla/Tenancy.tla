------------------------------- MODULE Tenancy -------------------------------
(***************************************************************************)
(* Tenants: how a client registers, is approved, suspended and removed,    *)
(* how API keys are minted, handed out once and revoked, and how a key is  *)
(* recognised, from a cache that each process keeps for itself.            *)
(*                                                                         *)
(* A request loads what it needs, changes it in memory, and commits when   *)
(* its handler has returned; it answers after the commit or, with recent   *)
(* FastAPI versions, just before it.                                       *)
(***************************************************************************)
EXTENDS RateLimit

CONSTANTS
  Clients,      \* clients, each with a name of its own
  Keys,         \* API keys
  Requests,     \* slots for requests being handled
  HostOf,       \* the process of a request slot
  RegisterBucket, LookupBucket,   \* the two buckets of a source address
  CacheTTL,     \* api_key_cache_ttl_seconds
  LinkTTL,      \* claim_link_ttl_hours
  MaxRequests,  \* bound: requests that may be started
  MaxFaults     \* bound: crashes, Redis outages and failed commits

ASSUME TenancyAssumption ==
  /\ HostOf \in [Requests -> Procs]
  /\ {RegisterBucket, LookupBucket} \subseteq Buckets
  /\ CacheTTL \in Nat \ {0}
  /\ LinkTTL \in Nat \ {0}
  /\ MaxRequests \in Nat
  /\ MaxFaults \in Nat
NoKey == "no key"
NoClient == "no client"
ASSUME NameAssumption == NoKey \notin Keys /\ NoClient \notin Clients

-----------------------------------------------------------------------------
ClientStatus == {"absent", "pending", "active", "rejected", "suspended", "deleted"}
Rows == {"pending", "active", "rejected", "suspended"}
KeyStatus == {"unused", "active", "revoked", "deleted"}
KeyRow == [owner : Clients \cup {NoClient}, status : KeyStatus]

\* A cached tenant: when its row was read and when it was put in the cache.
Entry == [since : Times, stored : Times]
NoEntry == [since |-> 0]

Idle == [pc |-> "idle"]
Purpose == {"register", "lookup"}
LimitJob == [pc : {"incr", "expire"}, bucket : Buckets, client : Clients, purpose : Purpose]
FindJob == [pc : {"find"}, client : Clients, purpose : Purpose]
ClientJob == [pc : {"approve", "delete"}, client : Clients]
InsertJob == [pc : {"insert"}, client : Clients, new : {"pending", "active"}]
StatusJob == [pc : {"status"}, client : Clients, seen : Rows, new : Rows]
MintJob == [pc : {"mint"}, client : Clients, explicit : BOOLEAN]
MintedJob == [pc : {"link", "reply", "answered"}, client : Clients, key : Keys]
KeyJob == [pc : {"resolve", "revoke"}, key : Keys]
StoreJob == [pc : {"store"}, key : Keys, since : Times]
AdmittedJob == [pc : {"admitted"}, key : Keys, at : Times, delay : Times]
Job == {Idle} \cup LimitJob \cup FindJob \cup ClientJob \cup InsertJob \cup StatusJob \cup MintJob
         \cup MintedJob \cup KeyJob \cup StoreJob \cup AdmittedJob

VARIABLES
  client,    \* clients: the status of each row
  key,       \* client_api_keys: owner and status of each row
  cache,     \* _cache of each process
  link,      \* claim links in Redis: when the link that holds a key expires, or 0
  redisUp,   \* Redis answers
  job,       \* requests being handled
  spent,     \* how much of the bounds is used
  shown,     \* keys whose raw value was handed out
  unsaved,   \* keys handed out by an answer whose commit failed
  lost,      \* keys whose raw value was lost with a process before it was handed out
  approvals, \* keys minted by approvals of each client since it was last rejected
  ended      \* when a key last ceased to be usable

tenantVars == <<client, key, ended, approvals>>
handVars == <<link, shown, unsaved, lost>>
vars == <<now, limitVars, client, key, cache, link, redisUp, job, spent, shown,
          unsaved, lost, approvals, ended>>

TypeOK ==
  /\ LimitTypeOK
  /\ client \in [Clients -> ClientStatus]
  /\ key \in [Keys -> KeyRow]
  /\ cache \in [Procs -> [Keys -> Entry \cup {NoEntry}]]
  /\ link \in [Keys -> Nat]
  /\ redisUp \in BOOLEAN
  /\ job \in [Requests -> Job]
  /\ spent \in [requests : Nat, faults : Nat]
  /\ shown \subseteq Keys /\ unsaved \subseteq Keys /\ lost \subseteq Keys
  /\ approvals \in [Clients -> Nat]
  /\ ended \in [Keys -> Times]

\* The service starts with the clients and keys of earlier days, if any.
Init ==
  /\ LimitInit
  /\ \E owner \in [Keys -> Clients \cup {NoClient}] :
       /\ client = [c \in Clients |-> IF \E k \in Keys : owner[k] = c THEN "active"
                                      ELSE "absent"]
       /\ key = [k \in Keys |-> [owner |-> owner[k],
                                 status |-> IF owner[k] = NoClient THEN "unused" ELSE "active"]]
       /\ shown = {k \in Keys : owner[k] # NoClient}
  /\ cache = [p \in Procs |-> [k \in Keys |-> NoEntry]]
  /\ link = [k \in Keys |-> 0]
  /\ redisUp = TRUE
  /\ job = [r \in Requests |-> Idle]
  /\ spent = [requests |-> 0, faults |-> 0]
  /\ unsaved = {} /\ lost = {}
  /\ approvals = [c \in Clients |-> 0]
  /\ ended = [k \in Keys |-> 0]

-----------------------------------------------------------------------------
Goto(r, state) == job' = [job EXCEPT ![r] = state]

Begin(r, state) ==
  /\ job[r] = Idle
  /\ spent.requests < MaxRequests
  /\ spent' = [spent EXCEPT !.requests = @ + 1]
  /\ Goto(r, state)

Fault == /\ spent.faults < MaxFaults
         /\ spent' = [spent EXCEPT !.faults = @ + 1]

Exists(c) == client[c] \in Rows
Usable(k) == key[k].status = "active" /\ client[key[k].owner] = "active"

\* A commit changes the rows of clients and keys; keys may cease to be usable.
Commit(clientRows, keyRows) ==
  /\ client' = clientRows
  /\ key' = keyRows
  /\ ended' = [k \in Keys |-> IF Usable(k) /\ ~Usable(k)' THEN now ELSE ended[k]]

\* A key nobody has drawn yet.
Unused(k) == key[k].status = "unused" /\ k \notin shown
             /\ \A r \in Requests : job[r].pc = "answered" => job[r].key # k
Minted(k, c) == [key EXCEPT ![k] = [owner |-> c, status |-> "active"]]

-----------------------------------------------------------------------------
(* The limiter in front of POST /v1/register and POST /v1/portal/lookup.   *)

ArriveLimited(r, c) ==
  /\ \E purpose \in Purpose :
       Begin(r, [pc |-> "incr", client |-> c, purpose |-> purpose,
                 bucket |-> IF purpose = "register" THEN RegisterBucket
                            ELSE LookupBucket])
  /\ UNCHANGED <<now, limitVars, tenantVars, cache, handVars, redisUp>>

\* The request goes on to look its client up.
LetThrough(r) == Goto(r, [pc |-> "find", client |-> job[r].client,
                            purpose |-> job[r].purpose])

\* Mutant: the time to live is set by the attempt that meets the limit.
RedisCountsLate(r) ==
  /\ job[r].pc = "incr" /\ redisUp
  /\ LET b == job[r].bucket
     IN /\ Incr(b)
        /\ IF counter[b] = Limit
             THEN Goto(r, [job[r] EXCEPT !.pc = "expire"]) /\ UNCHANGED accepted
             ELSE IF OverLimit(counter[b] + 1) THEN Goto(r, Idle) /\ UNCHANGED accepted
             ELSE LetThrough(r) /\ Accept(b, "redis")
  /\ UNCHANGED <<now, expiry, attempts, resets, orphaned, tenantVars, cache, handVars,
                 redisUp, spent>>

\* INCR; the first attempt of a window also sets its end.
RedisCounts(r) ==
  /\ job[r].pc = "incr" /\ redisUp
  /\ LET b == job[r].bucket
     IN /\ Incr(b)
        /\ IF counter[b] = 0
             THEN Goto(r, [job[r] EXCEPT !.pc = "expire"]) /\ UNCHANGED accepted
             ELSE IF OverLimit(counter[b] + 1) THEN Goto(r, Idle) /\ UNCHANGED accepted
             ELSE LetThrough(r) /\ Accept(b, "redis")
  /\ UNCHANGED <<now, expiry, attempts, resets, orphaned, tenantVars, cache, handVars,
                 redisUp, spent>>

RedisExpires(r) ==
  /\ job[r].pc = "expire" /\ redisUp
  /\ Expire(job[r].bucket)
  /\ IF OverLimit(1) THEN Goto(r, Idle) /\ UNCHANGED accepted
     ELSE LetThrough(r) /\ Accept(job[r].bucket, "redis")
  /\ UNCHANGED <<now, counter, attempts, resets, tenantVars, cache, handVars, redisUp,
                 spent>>

\* A Redis command fails, INCR perhaps after it was applied: the process judges
\* the attempt by its own window.
RedisRaises(r) ==
  /\ job[r].pc \in {"incr", "expire"} /\ ~redisUp
  /\ LET b == job[r].bucket
         p == HostOf[r]
     IN /\ \/ counter' = counter
           \/ job[r].pc = "incr" /\ Incr(b)
        /\ orphaned' = IF counter'[b] > 0 /\ (job[r].pc = "expire" \/ counter[b] = 0)
                         THEN orphaned \cup {b} ELSE orphaned
        /\ \E kept \in Retained(p), over \in BOOLEAN :
             /\ MemoryHit(p, b, kept, over)
             /\ IF over THEN Goto(r, Idle) /\ UNCHANGED accepted
                ELSE LetThrough(r) /\ Accept(b, p)
  /\ UNCHANGED <<now, expiry, tenantVars, cache, handVars, redisUp, spent>>

-----------------------------------------------------------------------------
(* Registration.                                                           *)

\* register_client: a name that is taken is answered like a new one.
FindToRegister(r) ==
  /\ job[r].pc = "find" /\ job[r].purpose = "register"
  /\ IF client[job[r].client] = "absent"
       THEN Goto(r, [pc |-> "insert", client |-> job[r].client, new |-> "pending"])
       ELSE Goto(r, Idle)
  /\ UNCHANGED <<now, limitVars, tenantVars, cache, handVars, redisUp, spent>>

\* POST /v1/admin/clients: a name that is taken is a conflict.
AdminCreate(r, c) ==
  /\ client[c] = "absent"
  /\ \E new \in {"pending", "active"} :
       Begin(r, [pc |-> "insert", client |-> c, new |-> new])
  /\ UNCHANGED <<now, limitVars, tenantVars, cache, handVars, redisUp>>

\* The unique name lets one of two insertions through.
CommitInsert(r) ==
  /\ job[r].pc = "insert"
  /\ LET c == job[r].client
     IN Commit(IF client[c] = "absent" THEN [client EXCEPT ![c] = job[r].new] ELSE client,
               key)
  /\ Goto(r, Idle)
  /\ UNCHANGED <<now, limitVars, approvals, cache, handVars, redisUp, spent>>

-----------------------------------------------------------------------------
(* Operator decisions.                                                     *)

InvalidateAll(p) == cache' = [cache EXCEPT ![p] = [k \in Keys |-> NoEntry]]
InvalidateKey(p, k) == cache' = [cache EXCEPT ![p][k] = NoEntry]

\* POST .../approve looks at the status it loads.
StartApprove(r, c) ==
  /\ client[c] \in {"pending", "rejected"}
  /\ Begin(r, [pc |-> "approve", client |-> c])
  /\ UNCHANGED <<now, limitVars, tenantVars, cache, handVars, redisUp>>

\* Mutant: the link is made before the commit, which then fails.
ApproveUncommitted(r) ==
  /\ job[r].pc = "approve"
  /\ \E k \in Keys : /\ Unused(k)
                     /\ Goto(r, [pc |-> "link", client |-> job[r].client, key |-> k])
  /\ UNCHANGED <<now, limitVars, tenantVars, cache, handVars, redisUp, spent>>

\* The activation and the first key are committed before Redis is asked for a
\* link.
CommitApprove(r) ==
  /\ job[r].pc = "approve"
  /\ LET c == job[r].client
     IN \E k \in Keys :
          /\ Exists(c) /\ Unused(k)
          /\ Commit([client EXCEPT ![c] = "active"], Minted(k, c))
          /\ approvals' = [approvals EXCEPT ![c] = @ + 1]
          /\ Goto(r, [pc |-> "link", client |-> c, key |-> k])
  /\ UNCHANGED <<now, limitVars, cache, handVars, redisUp, spent>>

\* The client was removed meanwhile: its row cannot be updated.
ApproveFails(r) ==
  /\ job[r].pc = "approve" /\ ~Exists(job[r].client)
  /\ Goto(r, Idle)
  /\ UNCHANGED <<now, limitVars, tenantVars, cache, handVars, redisUp, spent>>

StoreLink(r) ==
  /\ job[r].pc = "link" /\ redisUp
  /\ link' = [link EXCEPT ![job[r].key] = now + LinkTTL]
  /\ Goto(r, [job[r] EXCEPT !.pc = "reply"])
  /\ UNCHANGED <<now, limitVars, tenantVars, cache, shown, unsaved, lost, redisUp, spent>>

\* Mutant: a Redis error ends the request.
LinkErrorRaised(r) ==
  /\ job[r].pc = "link" /\ ~redisUp
  /\ Goto(r, Idle)
  /\ UNCHANGED <<now, limitVars, tenantVars, cache, handVars, redisUp, spent>>

\* A Redis error costs the link, not the key.
LinkFails(r) ==
  /\ job[r].pc = "link" /\ ~redisUp
  /\ Goto(r, [job[r] EXCEPT !.pc = "reply"])
  /\ UNCHANGED <<now, limitVars, tenantVars, cache, handVars, redisUp, spent>>

\* The answer carries the raw key, this once.
Reply(r) ==
  /\ job[r].pc = "reply"
  /\ shown' = shown \cup {job[r].key}
  /\ Goto(r, Idle)
  /\ UNCHANGED <<now, limitVars, tenantVars, cache, link, unsaved, lost, redisUp, spent>>

\* Mutant: the 404 for an unknown client is missing.
ChangeStatusUnchecked(r, c) ==
  /\ \E new \in {"rejected", "suspended", "active"} :
       /\ Begin(r, [pc |-> "status", client |-> c, seen |-> client[c], new |-> new])
       /\ IF new = "active" THEN UNCHANGED cache ELSE InvalidateAll(HostOf[r])
  /\ UNCHANGED <<now, limitVars, tenantVars, handVars, redisUp>>

\* POST .../reject, /suspend and /reactivate ask for no particular status; the
\* first two drop the cache of their process before they commit.
ChangeStatus(r, c) ==
  /\ Exists(c)
  /\ \E new \in {"rejected", "suspended", "active"} :
       /\ Begin(r, [pc |-> "status", client |-> c, seen |-> client[c], new |-> new])
       /\ IF new = "active" THEN UNCHANGED cache ELSE InvalidateAll(HostOf[r])
  /\ UNCHANGED <<now, limitVars, tenantVars, handVars, redisUp>>

\* The ORM writes a status that differs from the one it loaded.
CommitStatus(r) ==
  /\ job[r].pc = "status"
  /\ LET c == job[r].client
         writes == Exists(c) /\ job[r].new # job[r].seen
     IN /\ Commit(IF writes THEN [client EXCEPT ![c] = job[r].new] ELSE client, key)
        /\ approvals' = [approvals EXCEPT
             ![c] = IF writes /\ job[r].new = "rejected" THEN 0 ELSE @]
  /\ Goto(r, Idle)
  /\ UNCHANGED <<now, limitVars, cache, handVars, redisUp, spent>>

DeleteClient(r, c) ==
  /\ Exists(c)
  /\ Begin(r, [pc |-> "delete", client |-> c])
  /\ InvalidateAll(HostOf[r])
  /\ UNCHANGED <<now, limitVars, tenantVars, handVars, redisUp>>

\* The keys go with their client.  A key that was flushed and not yet committed
\* holds a lock on the client's row.
CommitDelete(r) ==
  /\ job[r].pc = "delete"
  /\ LET c == job[r].client
     IN /\ \A q \in Requests : job[q].pc = "answered" => job[q].client # c
        /\ Commit([client EXCEPT ![c] = "deleted"],
                  [k \in Keys |-> IF key[k].owner = c THEN [key[k] EXCEPT !.status = "deleted"]
                                  ELSE key[k]])
  /\ Goto(r, Idle)
  /\ UNCHANGED <<now, limitVars, approvals, cache, handVars, redisUp, spent>>

-----------------------------------------------------------------------------
(* Minting and revoking keys.                                              *)

MintFor(c, explicit) == [pc |-> "mint", client |-> c, explicit |-> explicit]

\* POST /v1/admin/clients/{id}/keys.
AdminIssue(r, c) ==
  /\ Exists(c)
  /\ Begin(r, MintFor(c, FALSE))
  /\ UNCHANGED <<now, limitVars, tenantVars, cache, handVars, redisUp>>

\* POST /v1/portal/lookup: an active client gets another key.
FindToLookup(r) ==
  /\ job[r].pc = "find" /\ job[r].purpose = "lookup"
  /\ Goto(r, IF client[job[r].client] = "active" THEN MintFor(job[r].client, TRUE) ELSE Idle)
  /\ UNCHANGED <<now, limitVars, tenantVars, cache, handVars, redisUp, spent>>

\* A client that is gone makes the insertion fail.
CommitMint(r) ==
  /\ job[r].pc = "mint"
  /\ LET c == job[r].client
     IN \/ /\ Exists(c)
           /\ \E k \in Keys : /\ Unused(k)
                              /\ Commit(client, Minted(k, c))
                              /\ Goto(r, [pc |-> "reply", client |-> c, key |-> k])
        \/ /\ ~Exists(c)
           /\ Goto(r, Idle)
           /\ UNCHANGED <<client, key, ended>>
  /\ UNCHANGED <<now, limitVars, approvals, cache, handVars, redisUp, spent>>

\* Where the commit is left to the session dependency, the answer may go first.
AnswerFirst(r) ==
  /\ job[r].pc = "mint" /\ ~job[r].explicit
  /\ Exists(job[r].client)
  /\ \E k \in Keys :
       /\ Unused(k)
       /\ shown' = shown \cup {k}
       /\ Goto(r, [pc |-> "answered", client |-> job[r].client, key |-> k])
  /\ UNCHANGED <<now, limitVars, tenantVars, cache, link, unsaved, lost, redisUp, spent>>

CommitAnswered(r) ==
  /\ job[r].pc = "answered"
  /\ Commit(client, Minted(job[r].key, job[r].client))
  /\ Goto(r, Idle)
  /\ UNCHANGED <<now, limitVars, approvals, cache, handVars, redisUp, spent>>

CommitFails(r) ==
  /\ job[r].pc = "answered"
  /\ Fault
  /\ unsaved' = unsaved \cup {job[r].key}
  /\ Goto(r, Idle)
  /\ UNCHANGED <<now, limitVars, tenantVars, cache, link, shown, lost, redisUp>>

\* revoke_key drops the cached entry of its process before it commits.
AdminRevoke(r, k) ==
  /\ key[k].status \in {"active", "revoked"}
  /\ Begin(r, [pc |-> "revoke", key |-> k])
  /\ InvalidateKey(HostOf[r], k)
  /\ UNCHANGED <<now, limitVars, tenantVars, handVars, redisUp>>

CommitRevoke(r) ==
  /\ job[r].pc = "revoke"
  /\ Commit(client, [key EXCEPT ![job[r].key].status = IF @ = "active" THEN "revoked" ELSE @])
  /\ Goto(r, Idle)
  /\ UNCHANGED <<now, limitVars, approvals, cache, handVars, redisUp, spent>>

\* POST /v1/claim/{token}: GETDEL.  The link is known from the answer only.
BurnLink(k) ==
  /\ link[k] > 0 /\ redisUp /\ k \in shown
  /\ link' = [link EXCEPT ![k] = 0]
  /\ UNCHANGED <<now, limitVars, tenantVars, cache, shown, unsaved, lost, redisUp, job, spent>>

-----------------------------------------------------------------------------
(* AuthMiddleware: requests that present a key.                            *)

\* Mutant: an entry never expires.
CachedForever(p, k) == cache[p][k] # NoEntry

Cached(p, k) == cache[p][k] # NoEntry /\ now < cache[p][k].stored + CacheTTL

Admitted(k, entry) ==
  [pc |-> "admitted", key |-> k, at |-> now, delay |-> entry.stored - entry.since]

Present(r, k) ==
  /\ k \in shown
  /\ Begin(r, IF Cached(HostOf[r], k) THEN Admitted(k, cache[HostOf[r]][k])
              ELSE [pc |-> "resolve", key |-> k])
  /\ UNCHANGED <<now, limitVars, tenantVars, cache, handVars, redisUp>>

\* The key and its client are read; 401 and 403 end the request.
LookUp(r) ==
  /\ job[r].pc = "resolve"
  /\ Goto(r, IF Usable(job[r].key) THEN [pc |-> "store", key |-> job[r].key, since |-> now]
             ELSE Idle)
  /\ UNCHANGED <<now, limitVars, tenantVars, cache, handVars, redisUp, spent>>

\* last_used_at has been committed: what was read is cached from now on.
Store(r) ==
  /\ job[r].pc = "store"
  /\ LET entry == [since |-> job[r].since, stored |-> now]
     IN /\ cache' = [cache EXCEPT ![HostOf[r]][job[r].key] = entry]
        /\ Goto(r, Admitted(job[r].key, entry))
  /\ UNCHANGED <<now, limitVars, tenantVars, handVars, redisUp, spent>>

\* The row is gone, last_used_at cannot be written.
StoreFails(r) ==
  /\ job[r].pc = "store" /\ key[job[r].key].status = "deleted"
  /\ Goto(r, Idle)
  /\ UNCHANGED <<now, limitVars, tenantVars, cache, handVars, redisUp, spent>>

\* What an admitted request does: nothing that matters here, POST /v1/me/keys,
\* or DELETE /v1/me/keys/{id}.
Finish(r) ==
  /\ job[r].pc = "admitted"
  /\ Goto(r, Idle)
  /\ UNCHANGED <<now, limitVars, tenantVars, cache, handVars, redisUp, spent>>

IssueOwn(r) ==
  /\ job[r].pc = "admitted" /\ Exists(key[job[r].key].owner)
  /\ Goto(r, MintFor(key[job[r].key].owner, FALSE))
  /\ UNCHANGED <<now, limitVars, tenantVars, cache, handVars, redisUp, spent>>

RevokeOwn(r) ==
  /\ job[r].pc = "admitted"
  /\ \E k \in Keys : /\ key[k].owner = key[job[r].key].owner
                     /\ key[k].status \in {"active", "revoked"}
                     /\ Goto(r, [pc |-> "revoke", key |-> k])
                     /\ InvalidateKey(HostOf[r], k)
  /\ UNCHANGED <<now, limitVars, tenantVars, handVars, redisUp, spent>>

-----------------------------------------------------------------------------
(* Time and failures.                                                      *)

Tick ==
  /\ now < MaxTime
  /\ now' = now + 1
  /\ ExpireKeys
  /\ link' = [k \in Keys |-> IF link[k] = now + 1 THEN 0 ELSE link[k]]
  /\ UNCHANGED <<attempts, accepted, resets, orphaned, tenantVars, cache, shown, unsaved,
                 lost, redisUp, job, spent>>

RedisGoes ==
  /\ redisUp
  /\ Fault
  /\ redisUp' = FALSE
  /\ UNCHANGED <<now, limitVars, tenantVars, cache, handVars, job>>

\* It was unreachable, or it was restarted and has nothing left.
RedisReturns ==
  /\ ~redisUp
  /\ redisUp' = TRUE
  /\ \/ UNCHANGED <<limitVars, link>>
     \/ /\ ForgetKeys
        /\ link' = [k \in Keys |-> 0]
        /\ UNCHANGED <<attempts, accepted>>
  /\ UNCHANGED <<now, tenantVars, cache, shown, unsaved, lost, job, spent>>

\* A process dies and is started again.
Crash(p) ==
  /\ Fault
  /\ LET dying(pc) == {r \in Requests : HostOf[r] = p /\ job[r].pc \in pc}
     IN /\ lost' = lost \cup {job[r].key : r \in dying({"link", "reply"})}
        /\ unsaved' = unsaved \cup {job[r].key : r \in dying({"answered"})}
        /\ orphaned' = orphaned \cup {b \in {job[r].bucket : r \in dying({"expire"})} : counter[b] > 0}
  /\ job' = [r \in Requests |-> IF HostOf[r] = p THEN Idle ELSE job[r]]
  /\ InvalidateAll(p)
  /\ ForgetAttempts(p)
  /\ UNCHANGED <<now, counter, expiry, accepted, tenantVars, link, shown, redisUp>>

-----------------------------------------------------------------------------
OperatorStep(r) ==
  \/ \E c \in Clients : \/ AdminCreate(r, c)
                        \/ StartApprove(r, c)
                        \/ ChangeStatus(r, c)
                        \/ DeleteClient(r, c)
                        \/ AdminIssue(r, c)
  \/ \E k \in Keys : AdminRevoke(r, k)

CallerStep(r) ==
  \/ \E c \in Clients : ArriveLimited(r, c)
  \/ \E k \in Keys : Present(r, k)

RequestStep(r) ==
  \/ RedisCounts(r) \/ RedisExpires(r) \/ RedisRaises(r)
  \/ FindToRegister(r) \/ CommitInsert(r)
  \/ CommitApprove(r) \/ ApproveFails(r) \/ StoreLink(r) \/ LinkFails(r) \/ Reply(r)
  \/ CommitStatus(r) \/ CommitDelete(r)
  \/ FindToLookup(r) \/ CommitMint(r) \/ AnswerFirst(r) \/ CommitAnswered(r)
  \/ CommitFails(r) \/ CommitRevoke(r)
  \/ LookUp(r) \/ Store(r) \/ StoreFails(r)
  \/ Finish(r) \/ IssueOwn(r) \/ RevokeOwn(r)

Next ==
  \/ \E r \in Requests : OperatorStep(r) \/ CallerStep(r) \/ RequestStep(r)
  \/ \E k \in Keys : BurnLink(k)
  \/ \E p \in Procs : Crash(p)
  \/ Tick \/ RedisGoes \/ RedisReturns

Spec == Init /\ [][Next]_vars

-----------------------------------------------------------------------------
(* Safety.                                                                 *)

\* A request is admitted with a key that had ceased to be usable only within
\* the lifetime of a cache entry, and that lifetime counts from when the entry
\* was stored, not from when it was read: whatever the caches of the other
\* processes hold, and whenever the invalidation and the commit of a revocation,
\* suspension or removal fall between a resolution's read and its store.
AdmittedInTime ==
  \A r \in Requests :
    job[r].pc = "admitted" =>
      Usable(job[r].key) \/ job[r].at < ended[job[r].key] + CacheTTL + job[r].delay

Answering(k, pc) == \E r \in Requests : job[r].pc \in pc /\ job[r].key = k

\* A raw key that was handed out, or waits behind a claim link, is a row of the
\* database: neither Redis nor an answer runs ahead of the approval's commit.
\* The only keys handed out in vain are those of answers sent before a commit
\* that then failed.
HandedOutKeysExist ==
  \A k \in Keys :
    k \in shown \/ link[k] > 0 =>
      key[k].status # "unused" \/ k \in unsaved \/ Answering(k, {"answered"})

\* No minted key goes astray: it was handed out, its request is about to hand it
\* out, or its process died before it could, whatever becomes of Redis.
KeysHandedOut ==
  \A k \in Keys :
    key[k].status # "unused" => k \in shown \cup lost \/ Answering(k, {"link", "reply"})

\* A bucket is not locked out for good: its counter has a time to live, or the
\* request that opened the window is about to set one.  The exception is an
\* EXPIRE that failed or was never sent, which nothing makes up for.
CountersExpire ==
  \A b \in Buckets :
    counter[b] > 0 /\ expiry[b] = 0 =>
      b \in orphaned \/ \E r \in Requests : job[r].pc = "expire" /\ job[r].bucket = b

-----------------------------------------------------------------------------
(* A claim of the repository's own documentation.                          *)

\* admin.py:10: a double approval is rejected, to prevent that a second key is
\* issued.  So approvals mint one key for a client, until it is rejected again.
ApprovedOnce == \A c \in Clients : approvals[c] <= 1

=============================================================================
