------------------------------ MODULE Outbound ------------------------------
(***************************************************************************)
(* Outbound calls: the TMDB client with its sliding-window limiter         *)
(* (ingest/tmdb/client.py), the retry loop the LLM and mail adapters share *)
(* (llm/retry.py), Resend's idempotency key (mail/resend.py), and the      *)
(* gateway that pools the clients (llm/gateway.py, mail/gateway.py).       *)
(* Time is in ticks; what is kept is the age of a request, not its date.   *)
(* Init, Next and the like carry the module's name, so that a module may   *)
(* extend this one next to another (MCRuns).                               *)
(***************************************************************************)
EXTENDS Naturals, Sequences

CONSTANTS
    Calls,          \* logical calls
    Kind,           \* [Calls -> {"tmdb", "llm", "mail"}]
    CallStages,         \* stages the gateway serves
    Provider,       \* [CallStages -> providers]
    Limit, Window,  \* requests allowed in a window, ticks of a window
    MaxAttempts,    \* tmdb_retry_max_attempts
    MaxRetries,     \* RetryPolicy.max_retries
    MaxWait,        \* max_backoff and max_retry_after
    MaxBusy         \* bound: answers 429 in a behaviour

\* What the settings and the callers guarantee.
ASSUME OutboundAssumption ==
    /\ Limit \in Nat \ {0} /\ Window \in Nat \ {0}
    /\ MaxWait \in Nat /\ MaxBusy \in Nat
    /\ Kind \in [Calls -> {"tmdb", "llm", "mail"}]

Limiters == {"shared"} \cup Calls

Least(a, b) == IF a < b THEN a ELSE b

VARIABLES
    call,           \* one record per logical call
    stamps,         \* per limiter, the ages of the requests it remembers
    copies,         \* the messages Resend delivered for a call
    keys,           \* the idempotency keys Resend has seen
    sent,           \* history: ages of TMDB requests younger than a window
    busy,           \* 429s so far
    gateway         \* built and released clients, closed flag

outbound == <<call, stamps, copies, keys, sent, busy, gateway>>

Waiting == {"asleep", "backoff"}
States == {"idle", "queue", "asleep", "flying", "backoff", "done", "raised"}

OutboundTypeOK ==
    /\ call \in [Calls -> [st : States, made : Nat, wait : 0..(Window + MaxWait)]]
    /\ stamps \in [Limiters -> Seq(0..Window)]
    /\ copies \in [Calls -> Nat]
    /\ keys \subseteq Calls \cup (Calls \X Nat)
    /\ sent \in Seq(0..(Window - 1))
    /\ busy \in 0..MaxBusy
    /\ gateway \in [closed : BOOLEAN, built : SUBSET {Provider[s] : s \in CallStages},
                    released : SUBSET {Provider[s] : s \in CallStages}, unwound : BOOLEAN]

OutboundInit ==
    /\ call = [c \in Calls |-> [st |-> "idle", made |-> 0, wait |-> 0]]
    /\ stamps = [l \in Limiters |-> <<>>]
    /\ copies = [c \in Calls |-> 0]
    /\ keys = {}
    /\ sent = <<>>
    /\ busy = 0
    /\ gateway = [closed |-> FALSE, built |-> {}, released |-> {}, unwound |-> FALSE]

Move(c, st, wait) == [call EXCEPT ![c].st = st, ![c].wait = wait]

(***************************************************************************)
(* The gateway: one client per provider, built by the first stage that     *)
(* asks for it and released in turn on the way out.                        *)
(***************************************************************************)
\* Mutant: the closed flag is not looked at.
OpenForever == TRUE

Open == ~gateway.closed

ForStage(s) ==
    /\ Open
    /\ gateway' = [gateway EXCEPT !.built = @ \cup {Provider[s]}]
    /\ UNCHANGED <<call, stamps, copies, keys, sent, busy>>

\* Flagged first, then unwound: each aclose is awaited, and one that raises
\* does not keep the others from being released.
Exit ==
    /\ ~gateway.closed
    /\ gateway' = [gateway EXCEPT !.closed = TRUE]
    /\ UNCHANGED <<call, stamps, copies, keys, sent, busy>>

Unwind ==
    /\ gateway.closed /\ ~gateway.unwound
    /\ \E left \in SUBSET (gateway.built \ gateway.released) :
          IF left = {} THEN gateway' = [gateway EXCEPT !.released = gateway.built, !.unwound = TRUE]
          ELSE gateway' = [gateway EXCEPT !.released = gateway.built \ left]
    /\ UNCHANGED <<call, stamps, copies, keys, sent, busy>>

(***************************************************************************)
(* The limiter. Clients built from the settings share one; a task that     *)
(* finds the window full sleeps with the lock in its hands.                *)
(***************************************************************************)
\* Mutant: every client has a window of its own.
OwnLimiter(c) == c

LimiterOf(c) == "shared"

LockFree(l) == \A c \in Calls : call[c].st = "asleep" => LimiterOf(c) # l

\* Taken off the front for as long as the oldest is a window old.
Dropped(ages) ==
    CHOOSE k \in 0..Len(ages) : /\ \A i \in 1..k : ages[i] >= Window
                                /\ k < Len(ages) => ages[k + 1] < Window

Recent(ages) == SubSeq(ages, Dropped(ages) + 1, Len(ages))
Purged(l) == Recent(stamps[l])

Send(c, kept) ==
    /\ stamps' = [stamps EXCEPT ![LimiterOf(c)] = Append(kept, 0)]
    /\ sent' = Append(sent, 0)
    /\ call' = Move(c, "flying", 0)

Acquire(c) ==
    /\ call[c].st = "queue"
    /\ LockFree(LimiterOf(c))
    /\ LET kept == Purged(LimiterOf(c)) IN
       IF Len(kept) >= Limit
       THEN /\ call' = Move(c, "asleep", Window - kept[1])
            /\ stamps' = [stamps EXCEPT ![LimiterOf(c)] = kept]
            /\ sent' = sent
       ELSE Send(c, kept)
    /\ UNCHANGED <<copies, keys, busy, gateway>>

Wake(c) ==
    /\ call[c].st = "asleep"
    /\ call[c].wait = 0
    /\ Send(c, Purged(LimiterOf(c)))
    /\ UNCHANGED <<copies, keys, busy, gateway>>

(***************************************************************************)
(* A call: sent, answered, retried. Each adapter counts in its own way.    *)
(***************************************************************************)
Retried(c) == IF Kind[c] = "tmdb" THEN "queue" ELSE "flying"

Begin(c) ==
    /\ call[c].st = "idle"
    /\ Kind[c] = "llm" => gateway.built # {} /\ Open
    /\ call' = [call EXCEPT ![c].st = Retried(c), ![c].made = IF Kind[c] = "tmdb" THEN 0 ELSE 1]
    /\ UNCHANGED <<stamps, copies, keys, sent, busy, gateway>>

\* One key for the logical send, whatever its attempts.
IdempotencyKey(c) == c

\* What Resend does with a message it takes in, whether or not it can say so.
Accept(c) ==
    IF Kind[c] # "mail" \/ IdempotencyKey(c) \in keys THEN UNCHANGED <<copies, keys>>
    ELSE /\ copies' = [copies EXCEPT ![c] = @ + 1]
         /\ keys' = keys \cup {IdempotencyKey(c)}

Succeed(c) ==
    /\ call[c].st = "flying"
    /\ Accept(c)
    /\ call' = Move(c, "done", 0)
    /\ UNCHANGED <<stamps, sent, busy, gateway>>

\* A failure another attempt would only repeat: any other 4xx, an answer
\* without an id, a body that does not decode.
FailForGood(c) ==
    /\ call[c].st = "flying"
    /\ \/ Accept(c)
       \/ UNCHANGED <<copies, keys>>
    /\ call' = Move(c, "raised", 0)
    /\ UNCHANGED <<stamps, sent, busy, gateway>>

Spent(c) ==
    IF Kind[c] = "tmdb" THEN call[c].made + 1 >= MaxAttempts ELSE call[c].made > MaxRetries

\* The wait is the provider's own, clamped, or the curve's.
DelayFor(c) == 1..MaxWait

Backoff(c, wait) == [call EXCEPT ![c] = [st |-> "backoff", made |-> @.made + 1, wait |-> wait]]

\* 5xx, a timeout or a lost connection: the request may have been carried out.
FailAndRetry(c) ==
    /\ call[c].st = "flying"
    /\ \/ Accept(c)
       \/ UNCHANGED <<copies, keys>>
    /\ IF Spent(c) THEN call' = Move(c, "raised", 0)
       ELSE \E wait \in DelayFor(c) : call' = Backoff(c, wait)
    /\ UNCHANGED <<stamps, sent, busy, gateway>>

\* 429: the TMDB client does not count it, the shared loop does.
TooManyRequests(c) ==
    /\ call[c].st = "flying"
    /\ busy < MaxBusy
    /\ busy' = busy + 1
    /\ IF Kind[c] = "tmdb"
       THEN \E wait \in DelayFor(c) : call' = Move(c, "backoff", wait)
       ELSE IF Spent(c) THEN call' = Move(c, "raised", 0)
       ELSE \E wait \in DelayFor(c) : call' = Backoff(c, wait)
    /\ UNCHANGED <<stamps, copies, keys, sent, gateway>>

TryAgain(c) ==
    /\ call[c].st = "backoff"
    /\ call[c].wait = 0
    /\ call' = Move(c, Retried(c), 0)
    /\ UNCHANGED <<stamps, copies, keys, sent, busy, gateway>>

\* The task is cancelled: asleep, it gives the lock back and leaves no stamp.
Cancel(c) ==
    /\ call[c].st \in {"queue", "asleep", "flying", "backoff"}
    /\ call' = Move(c, "raised", 0)
    /\ UNCHANGED <<stamps, copies, keys, sent, busy, gateway>>

Older(ages) == [i \in DOMAIN ages |-> Least(ages[i] + 1, Window)]

Tick ==
    /\ \E c \in Calls : call[c].st \notin {"idle", "done", "raised"}
    /\ stamps' = [l \in Limiters |-> Older(stamps[l])]
    /\ sent' = Recent(Older(sent))
    /\ call' = [c \in Calls |-> [call[c] EXCEPT !.wait = IF @ > 0 THEN @ - 1 ELSE 0]]
    /\ UNCHANGED <<copies, keys, busy, gateway>>

Step(c) ==
    \/ Acquire(c) \/ Wake(c) \/ Succeed(c) \/ FailForGood(c) \/ FailAndRetry(c)
    \/ TooManyRequests(c) \/ TryAgain(c)

OutboundNext ==
    \/ \E s \in CallStages : ForStage(s)
    \/ Exit \/ Unwind
    \/ \E c \in Calls : Begin(c) \/ Step(c) \/ Cancel(c)
    \/ Tick

OutboundSpec == OutboundInit /\ [][OutboundNext]_outbound
(***************************************************************************)
(* Properties.                                                             *)
(***************************************************************************)
\* However many clients and tasks call TMDB at once, sleep, wake late or are cancelled, no
\* window of Window ticks holds more than Limit requests; and a mail that was sent again after
\* an answer was lost is delivered once.
CallsAreExact ==
    /\ OutboundTypeOK
    /\ Len(sent) <= Limit
    /\ \A c \in Calls : copies[c] <= 1

\* What the gateway built it released: a stage that asks while the clients are
\* closing does not leave one open for ever.
NoClientLeaks == gateway.unwound => gateway.built = gateway.released
=============================================================================
