---------------------------- MODULE RateLimiter ----------------------------
(***************************************************************************)
(* internal/middleware/ratelimit.go: the token buckets of one client in one *)
(* tier, the requests that draw on them, and the worker that drops buckets   *)
(* nobody uses.  A tier is a group of paths with a budget of its own.        *)
(*                                                                         *)
(* The map is a sync.Map: a request that found a bucket goes on using it     *)
(* after the worker has dropped it, while the next request makes a new one.  *)
(* Tokens are counted in shares that come whole with a tick of the clock.    *)
(***************************************************************************)
EXTENDS Integers, FiniteSets

CONSTANTS Buckets,    \* bucket objects
          Requests,   \* goroutines in Middleware
          None,
          APIRequests, AuthRequests, \* the configured requests per minute; 0, none
          Tiers,      \* the tiers looked at
          Minute,     \* ticks in a minute
          MaxIdle,    \* the idle time after which a bucket is dropped
          MaxTime     \* bound on the clock

VARIABLES now,
          tier,      \* the tier of the client's requests
          bucket,    \* bucket[k]: the object, or None before it is made
          limiters,  \* the bucket in the map, or None
          holds,     \* holds[r]: where request r is
          doomed,    \* the bucket the worker is about to drop, or None
          dropped,   \* buckets the worker dropped (history)
          admitted,  \* admitted[t]: requests let through by time t (history)
          strays     \* those let through by a doomed or dropped bucket (history)

vars == <<now, tier, bucket, limiters, holds, doomed, dropped, admitted, strays>>

Idle == [pc |-> "idle"]
Times == 0..MaxTime
Unit == 6 * Minute   \* shares of a token

PerMinute(n) == [rate |-> 6 * n, burst |-> n]
fraction(n) == [rate |-> (6 \div n) * APIRequests,
                burst |-> IF APIRequests < n THEN 1 ELSE APIRequests \div n]

\* Shares per tick, and the capacity of a bucket.  Every tier refills in six
\* minutes at most; the worker drops a bucket after ten.
limitFor(t) ==
    CASE t = "auth" -> IF AuthRequests > 0 THEN PerMinute(AuthRequests) ELSE fraction(6)
      [] t = "search" -> fraction(3)
      [] t \in {"dashboard", "api"} -> PerMinute(APIRequests)

Rate == limitFor(tier).rate
Burst == limitFor(tier).burst

TypeOK ==
    /\ now \in Times
    /\ tier \in Tiers
    /\ bucket \in [Buckets -> [tokens : 0..(Unit * Burst), lastRefill : Times] \cup {None}]
    /\ limiters \in Buckets \cup {None}
    /\ holds \in [Requests -> {Idle} \cup [pc : {"store", "allow"}, bucket : Buckets]]
    /\ doomed \in Buckets \cup {None}
    /\ dropped \subseteq Buckets
    /\ admitted \in [Times -> Nat]
    /\ strays \in [Times -> Nat]

Init ==
    /\ now = 0
    /\ tier \in Tiers
    /\ bucket = [k \in Buckets |-> None]
    /\ limiters = None
    /\ holds = [r \in Requests |-> Idle]
    /\ doomed = None
    /\ dropped = {}
    /\ admitted = [t \in Times |-> 0]
    /\ strays = [t \in Times |-> 0]

\* getLimiter: the bucket in the map ...
load(r) ==
    /\ holds[r].pc = "idle"
    /\ limiters # None
    /\ holds' = [holds EXCEPT ![r] = [pc |-> "allow", bucket |-> limiters]]
    /\ UNCHANGED <<now, tier, bucket, limiters, doomed, dropped, admitted, strays>>

\* ... or, if none was there, a new and full one ...
newRateLimiter(r, k) ==
    /\ holds[r].pc = "idle"
    /\ limiters = None
    /\ bucket[k] = None
    /\ bucket' = [bucket EXCEPT ![k] = [tokens |-> Unit * Burst, lastRefill |-> now]]
    /\ holds' = [holds EXCEPT ![r] = [pc |-> "store", bucket |-> k]]
    /\ UNCHANGED <<now, tier, limiters, doomed, dropped, admitted, strays>>

\* Mutant: Store.
storeAlways(r) ==
    /\ holds[r].pc = "store"
    /\ limiters' = holds[r].bucket
    /\ holds' = [holds EXCEPT ![r].pc = "allow"]
    /\ UNCHANGED <<now, tier, bucket, doomed, dropped, admitted, strays>>

\* ... unless another request has stored one meanwhile (LoadOrStore).
loadOrStore(r) ==
    /\ holds[r].pc = "store"
    /\ limiters' = IF limiters = None THEN holds[r].bucket ELSE limiters
    /\ holds' = [holds EXCEPT ![r] = [pc |-> "allow", bucket |-> limiters']]
    /\ UNCHANGED <<now, tier, bucket, doomed, dropped, admitted, strays>>

\* n more requests are let through, now.
more(f, n) == [t \in Times |-> IF t < now THEN f[t] ELSE f[t] + n]

\* allow: refill for the time passed, and take a token if there is one.
allow(r) ==
    /\ holds[r].pc = "allow"
    /\ LET k == holds[r].bucket
           full == bucket[k].tokens + Rate * (now - bucket[k].lastRefill)
           tokens == IF full > Unit * Burst THEN Unit * Burst ELSE full
           ok == IF tokens >= Unit THEN 1 ELSE 0
       IN  /\ bucket' = [bucket EXCEPT ![k] = [tokens |-> tokens - Unit * ok, lastRefill |-> now]]
           /\ admitted' = more(admitted, ok)
           /\ strays' = IF k \in dropped \cup {doomed} THEN more(strays, ok) ELSE strays
    /\ holds' = [holds EXCEPT ![r] = Idle]
    /\ UNCHANGED <<now, tier, limiters, doomed, dropped>>

\* A request finds or makes its bucket, and is let through or refused.
Middleware(r) ==
    \/ load(r) \/ loadOrStore(r) \/ allow(r)
    \/ \E k \in Buckets : newRateLimiter(r, k)

\* cleanupWorker looks at a bucket under the bucket's lock ...
inspect ==
    /\ doomed = None
    /\ limiters # None
    /\ now - bucket[limiters].lastRefill > MaxIdle
    /\ doomed' = limiters
    /\ UNCHANGED <<now, tier, bucket, limiters, holds, dropped, admitted, strays>>

\* ... and drops what the map has under the key, used again or not.
delete ==
    /\ doomed # None
    /\ limiters' = None
    /\ dropped' = dropped \cup {doomed}
    /\ doomed' = None
    /\ UNCHANGED <<now, tier, bucket, holds, admitted, strays>>

tick ==
    /\ now < MaxTime
    /\ now' = now + 1
    /\ UNCHANGED <<tier, bucket, limiters, holds, doomed, dropped, admitted, strays>>

Next ==
    \/ \E r \in Requests : Middleware(r)
    \/ inspect \/ delete \/ tick

Spec == Init /\ [][Next]_vars

-----------------------------------------------------------------------------
Within(f, from, to) == f[to] - (IF from = 0 THEN 0 ELSE f[from - 1])

\* In no stretch of time is a client let through more often than the burst and
\* the refill allow: neither first requests that race to make the bucket nor
\* the worker that drops it open a second budget.  Only what a bucket grants
\* after the worker has looked at it for the last time comes on top.
BudgetHolds ==
    \A from, to \in 0..now : from <= to =>
        Unit * Within(admitted, from, to)
            <= Unit * (Burst + Within(strays, from, to)) + Rate * (to - from)

-----------------------------------------------------------------------------
(* The buckets of a client, seen as one.                                   *)

Capacity == Unit * Burst

\* What the next request draws on: the bucket of the map, refilled, or the full one
\* that is made when it is not there.
level ==
    IF limiters = None \/ doomed # None THEN Capacity
    ELSE LET refilled == bucket[limiters].tokens + Rate * (now - bucket[limiters].lastRefill)
         IN  IF refilled > Capacity THEN Capacity ELSE refilled

\* What was granted, but for the strays.
granted == admitted[now] - strays[now]

OneBucket == INSTANCE TokenBucket WITH rate <- Rate, burst <- Burst

\* They grant as the bucket of TokenBucket does, which is never made again: neither first
\* requests that race (LoadOrStore) nor cleanupWorker open a second one.
ServesAsOneBucket == OneBucket!Spec
=============================================================================
