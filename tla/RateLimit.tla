------------------------------ MODULE RateLimit ------------------------------
(***************************************************************************)
(* The attempt limiter of the open endpoints: a Redis counter shared by    *)
(* all processes, whose time to live is set by a second command, and a     *)
(* window of timestamps in each process that takes over while Redis fails. *)
(*                                                                         *)
(* The module describes the two stores and what one command does to them;  *)
(* the requests that issue the commands belong to Tenancy.                 *)
(***************************************************************************)
EXTENDS Naturals, FiniteSets, FiniteSetsExt

CONSTANTS
  Procs,       \* operating-system processes
  Buckets,     \* what attempts are counted by: a source address and an endpoint
  Limit,       \* register_rate_limit_per_hour
  Window,      \* window_seconds
  MaxBuckets,  \* _MAX_BUCKETS
  MaxTime      \* bound: clock ticks

ASSUME LimitAssumption == /\ Limit \in Nat \ {0}
                          /\ Window \in Nat \ {0}
                          /\ MaxBuckets \in Nat \ {0}
                          /\ MaxTime \in Nat
ASSUME BucketAssumption == IsFiniteSet(Buckets)
ASSUME RedisAssumption == "redis" \notin Procs

Times == 0 .. MaxTime
Counters == Procs \cup {"redis"}

VARIABLES
  now,       \* the clock
  counter,   \* Redis: the count of each bucket, 0 when there is no key
  expiry,    \* Redis: when the key of a bucket expires, 0 when it never does
  attempts,  \* _attempts of each process: how many attempts at which time
  accepted,  \* attempts let through, by the store that judged them
  resets,    \* how often a store lost counts: restarts, evictions under pressure
  orphaned   \* buckets whose counter was left without a time to live

storeVars == <<counter, expiry, attempts>>
limitVars == <<counter, expiry, attempts, accepted, resets, orphaned>>

NoAttempts == [t \in Times |-> 0]

\* The attempts of some ticks, told apart, where each tick has a number of them.
Hits(count, ticks) == UNION {{t} \X (1 .. count[t]) : t \in ticks}

LimitTypeOK ==
  /\ now \in Times
  /\ counter \in [Buckets -> Nat]
  /\ expiry \in [Buckets -> Nat]
  /\ attempts \in [Procs -> [Buckets -> [Times -> Nat]]]
  /\ accepted \in [Buckets -> [Counters -> [Times -> Nat]]]
  /\ resets \in [Counters -> Nat]
  /\ orphaned \subseteq Buckets

LimitInit ==
  /\ now = 0
  /\ counter = [b \in Buckets |-> 0]
  /\ expiry = [b \in Buckets |-> 0]
  /\ attempts = [p \in Procs |-> [b \in Buckets |-> NoAttempts]]
  /\ accepted = [b \in Buckets |-> [x \in Counters |-> NoAttempts]]
  /\ resets = [x \in Counters |-> 0]
  /\ orphaned = {}

-----------------------------------------------------------------------------
(* Redis.                                                                  *)

Incr(b) == counter' = [counter EXCEPT ![b] = @ + 1]

\* EXPIRE: on a key that is gone it does nothing.
Expire(b) ==
  /\ expiry' = [expiry EXCEPT ![b] = IF counter[b] > 0 THEN now + Window ELSE @]
  /\ orphaned' = orphaned \ {b}

\* The keys whose time has come are gone when the clock reaches it.
ExpireKeys ==
  LET over == {b \in Buckets : expiry[b] = now + 1}
  IN /\ counter' = [b \in Buckets |-> IF b \in over THEN 0 ELSE counter[b]]
     /\ expiry' = [b \in Buckets |-> IF b \in over THEN 0 ELSE expiry[b]]

\* Redis keeps nothing on disk.
ForgetKeys ==
  /\ counter' = [b \in Buckets |-> 0]
  /\ expiry' = [b \in Buckets |-> 0]
  /\ resets' = [resets EXCEPT !["redis"] = @ + 1]
  /\ orphaned' = {}

\* Mutant: one attempt too many is let through.
OverLimitByOne(count) == count > Limit + 1

OverLimit(count) == count > Limit

-----------------------------------------------------------------------------
(* The window in the memory of a process.                                  *)

Tracked(p) == {b \in Buckets : \E t \in Times : attempts[p][b][t] > 0}
LastAttempt(p, b) == Max({t \in Times : attempts[p][b][t] > 0})

\* _evict_stale: lapsed buckets go; of more than MaxBuckets that remain the
\* oldest-touched ones go too.
Fresh(p) == {b \in Tracked(p) : now - LastAttempt(p, b) < Window}
Retained(p) ==
  {kept \in SUBSET Fresh(p) :
     /\ \A b \in kept, d \in Fresh(p) \ kept : LastAttempt(p, d) <= LastAttempt(p, b)
     /\ Cardinality(kept) = Min({Cardinality(Fresh(p)), MaxBuckets})}

\* The attempts of the last Window ticks.
InWindow(p, b, kept) ==
  [t \in Times |-> IF b \in kept /\ now - t < Window THEN attempts[p][b][t] ELSE 0]

Total(hits) == Cardinality(Hits(hits, Times))

\* _memory_hit: an attempt over the limit is not recorded.
MemoryHit(p, b, kept, over) ==
  LET window == InWindow(p, b, kept)
  IN /\ over = (Total(window) >= Limit)
     /\ attempts' = [attempts EXCEPT ![p] = [d \in Buckets |->
          IF d = b THEN IF over THEN window ELSE [window EXCEPT ![now] = @ + 1]
          ELSE IF d \in kept THEN attempts[p][d] ELSE NoAttempts]]
     /\ resets' = [resets EXCEPT ![p] = IF kept = Fresh(p) THEN @ ELSE @ + 1]

\* A process starts again with an empty dictionary.
ForgetAttempts(p) ==
  /\ attempts' = [attempts EXCEPT ![p] = [b \in Buckets |-> NoAttempts]]
  /\ resets' = [resets EXCEPT ![p] = @ + 1]

Accept(b, x) == accepted' = [accepted EXCEPT ![b][x][now] = @ + 1]

-----------------------------------------------------------------------------
Span(t) == {u \in Times : t <= u /\ u < t + Window}
AcceptedIn(b, x, t) == Cardinality(Hits(accepted[b][x], Span(t)))

\* What the limiter promises of any span of Window ticks: a process's window
\* lets Limit attempts through.  The Redis window is fixed, not sliding: two of
\* them may meet in the span, of the earlier one all but the attempt that opened
\* it.  Each loss of counts allows Limit more.
AttemptsBounded ==
  \A b \in Buckets, x \in Counters, t \in Times :
    AcceptedIn(b, x, t)
      <= Limit * (1 + resets[x]) + (IF x = "redis" THEN Limit - 1 ELSE 0)

=============================================================================
