----------------------------- MODULE RateLimiter -----------------------------
(***************************************************************************)
(* One bucket of the RateLimiter, of any of its three algorithms.  The          *)
(* limiter's lock makes each check one step; the buckets of different keys       *)
(* share nothing.  Time is counted in ticks; rates are per tick.                *)
(***************************************************************************)
EXTENDS Selection, Integers, Functions

CONSTANTS
  Capacity,     \* ip_limit, user_limit or token_limit
  Rate,         \* ip_rate, ...: refill_rate or leak_rate
  Period,       \* config.refill_period
  Span,         \* config.window_seconds
  Cost,         \* the costs asked for
  Horizon       \* ticks the grants are remembered for

ASSUME LimiterAssumption ==
  /\ {Capacity, Rate, Period, Span, Horizon} \subseteq Nat \ {0}
  /\ Cost \subseteq Nat \ {0}
  /\ Horizon > Span

VARIABLES
  algorithm,    \* config.algorithm
  tokens,       \* tokens of the token bucket, capacity - water of the leaky one
  sinceRefill,  \* ticks since last_refill or last_leak
  requests,     \* _requests of the sliding window, as ages, the oldest first
  grants        \* history: what was granted, by age in ticks

limiterVars == <<algorithm, tokens, sinceRefill, requests, grants>>

Algorithm == {"token_bucket", "leaky_bucket", "sliding_window"}

\* Beyond it a refill fills every bucket.
MaxIdle == Capacity + Period

LimiterTypeOK ==
  /\ algorithm \in Algorithm
  /\ tokens \in 0..Capacity
  /\ sinceRefill \in 0..MaxIdle
  /\ requests \in Seq(0..Span + 1) /\ Len(requests) <= Capacity
  /\ grants \in [0..Horizon - 1 -> Nat]

LimiterInit ==
  /\ algorithm \in Algorithm
  /\ tokens = Capacity
  /\ sinceRefill = 0
  /\ requests = <<>>
  /\ grants = [a \in 0..Horizon - 1 |-> 0]

-----------------------------------------------------------------------------
UpTo(limit, n) == IF n <= limit THEN n ELSE limit

\* Mutant: last_refill is set on every call, refill or not.
RefillAlwaysStamps ==
  IF algorithm = "leaky_bucket" \/ sinceRefill >= Period
  THEN [tokens |-> UpTo(Capacity, tokens + sinceRefill * Rate), since |-> 0]
  ELSE [tokens |-> tokens, since |-> 0]

\* Mutant: last_refill stays when tokens are added.
RefillUnstamped ==
  [tokens |-> UpTo(Capacity, tokens + sinceRefill * Rate), since |-> sinceRefill]

\* refill waits for a whole period, leak does not.
Refilled ==
  IF algorithm = "leaky_bucket" \/ sinceRefill >= Period
  THEN [tokens |-> UpTo(Capacity, tokens + sinceRefill * Rate), since |-> 0]
  ELSE [tokens |-> tokens, since |-> sinceRefill]

\* Requests older than the window leave it.
Pruned == Minus(requests, {Span + 1})

Note(n) == grants' = [grants EXCEPT ![0] = @ + n]

\* try_consume of a bucket.
TakeTokens(cost) ==
  /\ algorithm # "sliding_window"
  /\ Refilled.tokens >= cost
  /\ tokens' = Refilled.tokens - cost
  /\ sinceRefill' = Refilled.since
  /\ Note(cost)
  /\ UNCHANGED <<algorithm, requests>>

\* A refused call refills, too.
RefuseTokens(cost) ==
  /\ algorithm # "sliding_window"
  /\ Refilled.tokens < cost
  /\ tokens' = Refilled.tokens
  /\ sinceRefill' = Refilled.since
  /\ UNCHANGED <<algorithm, requests, grants>>

\* try_consume of the sliding window counts calls, whatever they cost.
EnterWindow ==
  /\ algorithm = "sliding_window"
  /\ Len(Pruned) < Capacity
  /\ requests' = Append(Pruned, 0)
  /\ Note(1)
  /\ UNCHANGED <<algorithm, tokens, sinceRefill>>

RefuseWindow ==
  /\ algorithm = "sliding_window"
  /\ Len(Pruned) >= Capacity
  /\ requests' = Pruned
  /\ UNCHANGED <<algorithm, tokens, sinceRefill, grants>>

TickLimiter ==
  /\ sinceRefill' = UpTo(MaxIdle, sinceRefill + 1)
  /\ requests' = [i \in DOMAIN requests |-> UpTo(Span + 1, requests[i] + 1)]
  /\ grants' = [a \in 0..Horizon - 1 |-> IF a = 0 THEN 0 ELSE grants[a - 1]]
  /\ UNCHANGED <<algorithm, tokens>>

Grant == EnterWindow \/ \E cost \in Cost : TakeTokens(cost)

LimiterNext ==
  \/ Grant
  \/ \E cost \in Cost : RefuseTokens(cost)
  \/ RefuseWindow
  \/ TickLimiter

LimiterSpec == LimiterInit /\ [][LimiterNext]_limiterVars

\* Time passes, and a client that is let in often enough goes on asking.
LimiterFairness == WF_limiterVars(TickLimiter) /\ SF_limiterVars(Grant)

-----------------------------------------------------------------------------
(* Properties.                                                              *)

Granted(n) == SumFunctionOnSet(grants, 0..n - 1)

\* What each algorithm may let through within n ticks: a burst of the capacity
\* and the rate, and for the token bucket the refill of a period that began
\* before; the sliding window lets the capacity through in each window begun.
Allowed(n) ==
  CASE algorithm = "token_bucket" -> Capacity + Rate * (n + Period - 2)
    [] algorithm = "leaky_bucket" -> Capacity + Rate * (n - 1)
    [] algorithm = "sliding_window" -> Capacity * ((n + Span) \div (Span + 1))

\* However calls, refusals and idle times fall, no stretch of time sees more
\* granted than the limit allows.
RateHolds == \A n \in 1..Horizon : Granted(n) <= Allowed(n)

\* A client that keeps on asking, and is refused again and again, is granted
\* something in the end: refusals do not put off the refill.
PollingIsServed == []<>(grants[0] > 0)
=============================================================================
