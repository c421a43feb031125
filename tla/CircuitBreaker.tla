---------------------------- MODULE CircuitBreaker ----------------------------
(***************************************************************************)
(* One CircuitBreaker of the production stack.  call holds the breaker's      *)
(* reentrant lock while it runs the function, so that calls of two threads    *)
(* never overlap, but a function may call its own breaker again: `depth'      *)
(* calls are under way, and other threads get in when it is zero.             *)
(*                                                                          *)
(* Time is counted in ticks.  What the code keeps as time stamps is kept as    *)
(* ages: of the last failure, and of the outcomes within the window.          *)
(***************************************************************************)
EXTENDS Integers, Functions

CONSTANTS
  FailureThreshold,  \* failure_threshold
  RatePercent,       \* failure_rate_threshold, in percent
  MinVolume,         \* min_request_volume
  Cooldown, Decay, Window,     \* cooldown_seconds, decay_seconds, ...
  MaxProbes,         \* half_open_max_probes
  MaxFailures,       \* bound on the consecutive failures
  MaxRecent,         \* bound on the outcomes within the window
  MaxDepth,          \* bound on the calls within a call
  MaxAge             \* ages above it are not told apart

ASSUME BreakerAssumption ==
  /\ {FailureThreshold, MinVolume, Decay, Window, MaxProbes, MaxFailures,
      MaxRecent, MaxDepth, MaxAge} \subseteq Nat \ {0}
  /\ Cooldown \in Nat /\ RatePercent \in 0..100
  /\ Cooldown < MaxAge

VARIABLES
  bstate,     \* state
  failures,   \* metrics.consecutive_failures
  sinceFailure,   \* the age of metrics.last_failure_time
  recent,     \* the outcomes in the window: how many of each kind and age
  probes,     \* _half_open_probes
  depth,      \* calls whose function is running
  verdictLost,    \* history: a probe of this half-open phase decided nothing
  reenabled       \* history: closed by enable(), which keeps the failures

breakerVars ==
  <<bstate, failures, sinceFailure, recent, probes, depth, verdictLost, reenabled>>

BreakerState == {"closed", "open", "half_open", "disabled"}
Outcomes == [kind : {"success", "failure"}, age : 0..Window - 1]

BreakerTypeOK ==
  /\ bstate \in BreakerState
  /\ failures \in 0..MaxFailures
  /\ sinceFailure \in 0..MaxAge
  /\ recent \in [Outcomes -> 0..MaxRecent]
  /\ probes \in 0..MaxProbes
  /\ depth \in 0..MaxDepth
  /\ verdictLost \in BOOLEAN /\ reenabled \in BOOLEAN

\* last_failure_time is 0.0 at first, long ago.
BreakerInit ==
  /\ bstate = "closed"
  /\ failures = 0
  /\ sinceFailure = MaxAge
  /\ recent = [o \in Outcomes |-> 0]
  /\ probes = 0
  /\ depth = 0
  /\ verdictLost = FALSE /\ reenabled = FALSE

-----------------------------------------------------------------------------
(* What the metrics say.                                                    *)

Least(a, b) == IF a <= b THEN a ELSE b

Count(window, kinds) ==
  SumFunctionOnSet(window, {o \in Outcomes : o.kind \in kinds})

Volume(window) == Count(window, {"success", "failure"})

\* _should_open, with n consecutive failures.
ShouldOpen(n, window) ==
  \/ n >= FailureThreshold
  \/ /\ Volume(window) >= MinVolume
     /\ 100 * Count(window, {"failure"}) >= RatePercent * Volume(window)

\* window_failures.append or window_successes.append.
Noted(kind) ==
  [recent EXCEPT ![[kind |-> kind, age |-> 0]] = @ + 1]

\* Mutant: the time stamp is renewed when there is nothing to remove, too.
RenewedAlways ==
  LET removed == IF sinceFailure > Decay
                 THEN Least(failures, sinceFailure \div Decay) ELSE 0
  IN  [removed |-> removed,
       since |-> IF sinceFailure > Decay THEN 0 ELSE sinceFailure]

\* Mutant: more is removed than there is.
RemovedUnbounded ==
  LET removed == IF sinceFailure > Decay THEN sinceFailure \div Decay ELSE 0
  IN  [removed |-> removed, since |-> IF removed > 0 THEN 0 ELSE sinceFailure]

\* _check_decay: one failure is forgotten for each period of decay, and then
\* the last failure counts as a new one.
Decayed ==
  LET removed == IF sinceFailure > Decay
                 THEN Least(failures, sinceFailure \div Decay) ELSE 0
  IN  [removed |-> removed, since |-> IF removed > 0 THEN 0 ELSE sinceFailure]

-----------------------------------------------------------------------------
(* call, up to the function.                                                *)

Forget ==
  /\ failures' = failures - Decayed.removed
  /\ sinceFailure' = Decayed.since

\* The cool-down is over, seen after the decay.
CooledDown == Decayed.since > Cooldown

Admit == depth < MaxDepth /\ Forget

CallClosed ==
  /\ bstate = "closed"
  /\ Admit
  /\ depth' = depth + 1
  /\ UNCHANGED <<bstate, recent, probes, verdictLost, reenabled>>

\* The first call after the cool-down is the first probe.
CallOpen ==
  /\ bstate = "open"
  /\ Admit
  /\ CooledDown
  /\ bstate' = "half_open"
  /\ probes' = 1
  /\ depth' = depth + 1
  /\ verdictLost' = FALSE
  /\ UNCHANGED <<recent, reenabled>>

\* A later probe: an earlier one ended without a verdict, or is still running
\* and this call is made by its function.
CallHalfOpen ==
  /\ bstate = "half_open"
  /\ Admit
  /\ probes < MaxProbes
  /\ probes' = probes + 1
  /\ depth' = depth + 1
  /\ verdictLost' = TRUE
  /\ UNCHANGED <<bstate, recent, reenabled>>

\* total_rejections; the fallback is called or RuntimeError raised.
Reject ==
  /\ \/ bstate = "open" /\ ~CooledDown
     \/ bstate = "half_open" /\ probes >= MaxProbes
  /\ Admit
  /\ UNCHANGED <<bstate, recent, probes, depth, verdictLost, reenabled>>

\* self._execute does not exist: AttributeError, and the function is not run.
CallDisabled ==
  /\ bstate = "disabled"
  /\ Admit
  /\ UNCHANGED <<bstate, recent, probes, depth, verdictLost, reenabled>>

-----------------------------------------------------------------------------
(* call, after the function.                                                *)

\* Mutant: only a probe before the first one closes.
ProbeIsLast == probes < 1

\* A success closes a half-open breaker only if it was its first probe.
ProbeDecides == probes <= 1

FnReturns ==
  /\ depth > 0
  /\ Volume(recent) < MaxRecent
  /\ depth' = depth - 1
  /\ failures' = 0
  /\ recent' = Noted("success")
  /\ IF bstate = "half_open" /\ ProbeDecides
     THEN bstate' = "closed" /\ reenabled' = FALSE
     ELSE UNCHANGED <<bstate, reenabled>>
  /\ UNCHANGED <<sinceFailure, probes, verdictLost>>

\* A failure opens a closed breaker when there are enough, a half-open one
\* at once.
Trips(n, window) == ShouldOpen(n, window)

FnRaises ==
  /\ depth > 0
  /\ Volume(recent) < MaxRecent /\ failures < MaxFailures
  /\ depth' = depth - 1
  /\ failures' = failures + 1
  /\ sinceFailure' = 0
  /\ recent' = Noted("failure")
  /\ IF \/ bstate = "closed" /\ Trips(failures', recent')
        \/ bstate = "half_open"
     THEN bstate' = "open" /\ reenabled' = FALSE
     ELSE UNCHANGED <<bstate, reenabled>>
  /\ UNCHANGED <<probes, verdictLost>>

\* KeyboardInterrupt, SystemExit and CancelledError are no Exception: neither
\* a success nor a failure.
FnInterrupted ==
  /\ depth > 0
  /\ depth' = depth - 1
  /\ verdictLost' = (verdictLost \/ bstate = "half_open")
  /\ UNCHANGED <<bstate, failures, sinceFailure, recent, probes, reenabled>>

-----------------------------------------------------------------------------
(* The other operations, by threads that wait for the lock, and time.       *)

Disable ==
  /\ depth = 0
  /\ bstate' = "disabled"
  /\ UNCHANGED <<failures, sinceFailure, recent, probes, depth, verdictLost,
                 reenabled>>

\* enable() closes, with the failures there are.
Enable ==
  /\ depth = 0
  /\ bstate' = "closed"
  /\ reenabled' = TRUE
  /\ UNCHANGED <<failures, sinceFailure, recent, probes, depth, verdictLost>>

\* reset(): new metrics, closed; the probes stay counted.
ResetBreaker ==
  /\ depth = 0
  /\ bstate' = "closed"
  /\ failures' = 0
  /\ sinceFailure' = MaxAge
  /\ recent' = [o \in Outcomes |-> 0]
  /\ reenabled' = FALSE
  /\ UNCHANGED <<probes, depth, verdictLost>>

\* Outcomes as old as the window no longer count.
TickBreaker ==
  /\ sinceFailure' = Least(sinceFailure + 1, MaxAge)
  /\ recent' = [o \in Outcomes |->
                  IF o.age = 0 THEN 0 ELSE recent[[o EXCEPT !.age = @ - 1]]]
  /\ UNCHANGED <<bstate, failures, probes, depth, verdictLost, reenabled>>

CallBreaker ==
  CallClosed \/ CallOpen \/ CallHalfOpen \/ Reject \/ CallDisabled

FnEnds == FnReturns \/ FnRaises \/ FnInterrupted

BreakerNext ==
  \/ CallBreaker \/ FnEnds
  \/ Disable \/ Enable \/ ResetBreaker
  \/ TickBreaker

BreakerSpec == BreakerInit /\ [][BreakerNext]_breakerVars

\* Time passes, functions end, and clients go on calling.
BreakerFairness ==
  /\ WF_breakerVars(TickBreaker)
  /\ WF_breakerVars(FnEnds)
  /\ WF_breakerVars(CallOpen \/ Reject)

-----------------------------------------------------------------------------
(* Properties.                                                              *)

\* A closed breaker has not had failure_threshold failures in a row, whatever
\* phases, decays and calls within calls came before, unless enable() closed
\* it over them.
ClosedMeansHealthy ==
  bstate = "closed" /\ failures >= FailureThreshold => reenabled

\* Between calls a breaker is half-open only because one of its probes gave no
\* verdict: it was interrupted, or called the breaker itself.  Otherwise every
\* probe closes or opens it, and the probe budget is never needed.
HalfOpenNeedsLostProbe ==
  bstate = "half_open" /\ depth = 0 => verdictLost

\* The state is one the calls have earned, and never left over from earlier ones.
StateIsEarned == ClosedMeansHealthy /\ HalfOpenNeedsLostProbe

\* A breaker is left open only for as long as nobody calls it after the
\* cool-down: the decay, which renews the time of the last failure, can refuse
\* only as many late calls as there are failures to forget.
OpenEnds == bstate = "open" ~> bstate # "open"
=============================================================================
