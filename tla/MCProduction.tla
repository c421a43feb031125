----------------------------- MODULE MCProduction -----------------------------
(***************************************************************************)
(* Parts of the serving and streaming code that keep state of their own, most of which     *)
(* promise that something happens in the end.  None reads or writes what another keeps,      *)
(* so a behaviour of the whole is an interleaving of independent behaviours, and each        *)
(* behaviour here follows one part, `focus', while the others stand still.                    *)
(***************************************************************************)
EXTENDS CircuitBreaker, RateLimiter, GracefulDegradation, AsyncPrefetcher, L3DCache

VARIABLE focus

vars == <<focus, breakerVars, limiterVars, degradationVars, prefetchVars, arenaVars>>

Parts == {"breaker", "limiter", "degradation", "prefetch", "arena"}

Init ==
  /\ focus \in Parts
  /\ BreakerInit /\ LimiterInit /\ DegradationInit
  /\ PrefetchInit /\ ArenaInit
  /\ focus # "limiter" => algorithm = "token_bucket"

Next ==
  /\ UNCHANGED focus
  /\ IF focus = "breaker" THEN BreakerNext ELSE UNCHANGED breakerVars
  /\ IF focus = "limiter" THEN LimiterNext ELSE UNCHANGED limiterVars
  /\ IF focus = "degradation" THEN DegradationNext ELSE UNCHANGED degradationVars
  /\ IF focus = "prefetch" THEN PrefetchNext ELSE UNCHANGED prefetchVars
  /\ IF focus = "arena" THEN ArenaNext ELSE UNCHANGED arenaVars

Spec == Init /\ [][Next]_vars

\* What stands still owes no step, for nothing of it has begun; only a limiter would
\* have to let time pass.
FairSpec ==
  /\ Spec
  /\ BreakerFairness
  /\ DegradationFairness
  /\ ArenaFairness
  /\ focus = "limiter" => LimiterFairness

TypeOK ==
  /\ BreakerTypeOK /\ LimiterTypeOK /\ DegradationTypeOK
  /\ PrefetchTypeOK /\ ArenaTypeOK

\* PollingIsServed, of the behaviours that follow a limiter.
LimiterServes == focus = "limiter" => PollingIsServed
=============================================================================
