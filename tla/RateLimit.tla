----------------------------- MODULE RateLimit -----------------------------
(***************************************************************************)
(* The inbound rate limiter (app/rate_limit.py): an LRU of token buckets   *)
(* in memory. A token is 60 * Hz parts and the clock moves in ticks of     *)
(* 1 / Hz second, so that Refill tokens a minute are Refill parts a tick   *)
(* and the arithmetic is exact. Init, Next and the like carry the module's *)
(* name, so that a module may extend this one next to another (MCRuns).    *)
(***************************************************************************)
EXTENDS Naturals, Sequences

CONSTANTS
    Keys,           \* "bucket:address" keys
    MaxKeys,        \* MAX_TRACKED_KEYS
    Capacity,       \* tokens of a full bucket, at least one (parse_bucket_limit)
    Refill,         \* refill_per_minute, positive
    Hz,             \* clock ticks in a second
    MaxTime         \* bound: ticks

\* What parse_bucket_limit and the default store guarantee.
ASSUME RateLimitAssumption ==
    /\ MaxKeys \in Nat \ {0} /\ Capacity \in Nat \ {0} /\ Refill \in Nat \ {0}
    /\ Hz \in Nat \ {0} /\ MaxTime \in Nat

Token == 60 * Hz

VARIABLES
    now,            \* time.monotonic, in ticks
    buckets,        \* OrderedDict, least recently used first
    promise,        \* history: when a refused caller was told to come back
    grants,         \* history: when requests were let through, since the last eviction
    answer          \* the last Decision, and whether it was owed to the caller

inbound == <<now, buckets, promise, grants, answer>>

NoPromise == MaxTime + 60 * Hz * Token

Bucket == [key : Keys, parts : 0..Capacity * Token, at : 0..MaxTime]

RateLimitTypeOK ==
    /\ now \in 0..MaxTime
    /\ buckets \in Seq(Bucket)
    /\ Len(buckets) <= MaxKeys
    /\ \A i, j \in DOMAIN buckets : buckets[i].key = buckets[j].key => i = j
    /\ promise \in [Keys -> 0..NoPromise]
    /\ grants \in [Keys -> Seq(0..MaxTime)]
    /\ answer \in [allowed : BOOLEAN, owed : BOOLEAN]

RateLimitInit ==
    /\ now = 0
    /\ buckets = <<>>
    /\ promise = [k \in Keys |-> NoPromise]
    /\ grants = [k \in Keys |-> <<>>]
    /\ answer = [allowed |-> TRUE, owed |-> FALSE]

Smallest(a, b) == IF a < b THEN a ELSE b
Greatest(a, b) == IF a > b THEN a ELSE b
CeilDiv(a, b) == (a + b - 1) \div b

Known(k) == \E i \in DOMAIN buckets : buckets[i].key = k
IndexOf(k) == CHOOSE i \in DOMAIN buckets : buckets[i].key = k

\* The bucket as take finds it: full when new or evicted, refilled otherwise.
Refilled(k) ==
    LET bucket == buckets[IndexOf(k)] IN
    IF Known(k) THEN Smallest(Capacity * Token, bucket.parts + (now - bucket.at) * Refill)
    ELSE Capacity * Token

\* Mutant: the wait is rounded down.
RetryTooSoon(parts) == Greatest(1, (Token - parts) \div (Refill * Hz))

\* Seconds until the bucket holds one whole token.
RetryAfter(parts) == Greatest(1, CeilDiv(Token - parts, Refill * Hz))

Without(k) ==
    IF Known(k) THEN SubSeq(buckets, 1, IndexOf(k) - 1) \o SubSeq(buckets, IndexOf(k) + 1, Len(buckets))
    ELSE buckets

\* move_to_end, then the least recently used goes while there are too many.
Stored(k, parts) ==
    LET moved == Append(Without(k), [key |-> k, parts |-> parts, at |-> now])
    IN  IF Len(moved) > MaxKeys THEN Tail(moved) ELSE moved

HasToken(parts) == parts >= Token

Take(k) ==
    LET parts == Refilled(k)
        allowed == HasToken(parts)
        left == IF allowed THEN Greatest(Token, parts) - Token ELSE parts
        evicted == {j \in Keys : j # k /\ ~\E i \in DOMAIN buckets' : buckets'[i].key = j}
    IN  /\ buckets' = Stored(k, left)
        /\ answer' = [allowed |-> allowed, owed |-> now >= promise[k]]
        /\ promise' = [j \in Keys |->
                         CASE j = k /\ ~allowed -> now + RetryAfter(parts) * Hz
                           [] j = k /\ allowed -> NoPromise
                           [] OTHER -> promise[j]]
        /\ grants' = [j \in Keys |->
                        CASE j = k /\ allowed -> Append(grants[k], now)
                          [] j \in evicted -> <<>>
                          [] OTHER -> grants[j]]
        /\ now' = now

PassTime == now < MaxTime /\ now' = now + 1 /\ UNCHANGED <<buckets, promise, grants, answer>>

RateLimitNext == PassTime \/ \E k \in Keys : Take(k)
RateLimitSpec == RateLimitInit /\ [][RateLimitNext]_inbound

(***************************************************************************)
(* Properties.                                                             *)
(***************************************************************************)
\* The limiter keeps its word in both directions.  A caller who was refused and waits as
\* long as Retry-After said is served (Decision.retry_after); and however requests and
\* evictions interleave, a bucket that stays in the store lets through no more than it held
\* and what flowed in: n requests need n tokens out of Capacity plus the refill.
LimiterIsExact ==
    /\ RateLimitTypeOK
    /\ answer.owed => answer.allowed
    /\ \A k \in Keys : \A i, j \in DOMAIN grants[k] : i <= j =>
          (j - i + 1) * Token <= Capacity * Token + (grants[k][j] - grants[k][i]) * Refill
=============================================================================
