--------------------------- MODULE ProductionProofs ---------------------------
(***************************************************************************)
(* Theorems about the parts that MCProduction puts side by side: the circuit      *)
(* breaker, the two threads that degrade the service, the prefetcher, the engine's    *)
(* arena and a bucket of the rate limiter.  They share no state, and each part has       *)
(* its own section; the last puts their types together.                                 *)
(***************************************************************************)
EXTENDS MCProduction, DataLemmas

-----------------------------------------------------------------------------
(* The circuit breaker, for any thresholds, periods, probes and depths.      *)

Numbers ==
  failures \in Nat /\ sinceFailure \in Nat /\ depth \in Nat /\ verdictLost \in BOOLEAN

\* A half-open phase that has lost no verdict is in its first probe, which runs.
FirstProbeRuns == bstate = "half_open" /\ ~verdictLost => probes = 1 /\ depth >= 1

BreakerIInv == Numbers /\ ClosedMeansHealthy /\ FirstProbeRuns

\* The constants, one by one.
LEMMA BreakerParameters ==
  /\ FailureThreshold \in Nat \ {0} /\ Decay \in Nat \ {0} /\ MaxAge \in Nat \ {0}
  /\ MaxDepth \in Nat \ {0}
BY BreakerAssumption DEF BreakerAssumption

\* The decay never removes more failures than there are, and no new ones appear.
LEMMA ForgetLeavesFewer ==
  ASSUME Numbers, Forget
  PROVE  failures' \in Nat /\ failures' <= failures /\ sinceFailure' \in Nat
<1>1. /\ failures' = failures - Decayed.removed /\ sinceFailure' = Decayed.since
  BY DEF Forget
<1>2. CASE sinceFailure > Decay
  <2>1. sinceFailure \div Decay \in Nat
    BY <1>2, BreakerParameters DEF Numbers
  <2> DEFINE q == sinceFailure \div Decay
             r == Least(failures, q)
  <2>2. r \in Nat /\ r <= failures
    BY <2>1 DEF Least, Numbers
  <2>3. Decayed = [removed |-> r, since |-> IF r > 0 THEN 0 ELSE sinceFailure]
    BY <1>2 DEF Decayed
  <2> HIDE DEF r
  <2>4. failures' = failures - r /\ sinceFailure' \in {0, sinceFailure}
    BY <1>1, <2>3
  <2> QED  BY <2>2, <2>4 DEF Numbers
<1>3. CASE ~(sinceFailure > Decay)
  <2>1. Decayed = [removed |-> 0, since |-> sinceFailure]
    BY <1>3 DEF Decayed
  <2> QED  BY <1>1, <2>1 DEF Numbers
<1> QED  BY <1>2, <1>3

LEMMA BreakerInitEstablishes == BreakerInit => BreakerIInv
<1> SUFFICES ASSUME BreakerInit PROVE BreakerIInv
  OBVIOUS
<1>1. verdictLost \in BOOLEAN
  BY Zenon DEF BreakerInit
<1>2. failures = 0 /\ sinceFailure = MaxAge /\ depth = 0 /\ bstate = "closed"
  BY DEF BreakerInit
<1> QED  BY <1>1, <1>2, BreakerParameters DEF BreakerIInv, Numbers, ClosedMeansHealthy, FirstProbeRuns

\* The calls, up to the function: each forgets first.
LEMMA CallPreserves == BreakerIInv /\ CallBreaker => BreakerIInv'
<1> SUFFICES ASSUME BreakerIInv, CallBreaker PROVE BreakerIInv'
  OBVIOUS
<1>1. failures \in Nat /\ sinceFailure \in Nat /\ depth \in Nat
      /\ FailureThreshold \in Nat
  BY BreakerParameters DEF BreakerIInv, Numbers
<1>2. Forget
  BY DEF CallBreaker, CallClosed, CallOpen, CallHalfOpen, Reject, CallDisabled, Admit
<1>3. failures' \in Nat /\ failures' <= failures /\ sinceFailure' \in Nat
  BY <1>2, ForgetLeavesFewer DEF BreakerIInv
<1>4. CASE CallClosed
  BY <1>1, <1>3, <1>4
  DEF CallClosed, BreakerIInv, Numbers, ClosedMeansHealthy, FirstProbeRuns
<1>5. CASE CallOpen
  <2>1. verdictLost' \in BOOLEAN
    BY <1>5, Zenon DEF CallOpen
  <2>2. depth' = depth + 1 /\ probes' = 1 /\ bstate' = "half_open"
    BY <1>5 DEF CallOpen
  <2> QED  BY <1>1, <1>3, <2>1, <2>2 DEF BreakerIInv, Numbers, ClosedMeansHealthy, FirstProbeRuns
<1>6. CASE CallHalfOpen
  BY <1>1, <1>3, <1>6
  DEF CallHalfOpen, BreakerIInv, Numbers, ClosedMeansHealthy, FirstProbeRuns
<1>7. CASE Reject \/ CallDisabled
  BY <1>1, <1>3, <1>7
  DEF Reject, CallDisabled, BreakerIInv, Numbers, ClosedMeansHealthy, FirstProbeRuns
<1> QED  BY <1>4, <1>5, <1>6, <1>7 DEF CallBreaker

\* The end of the function, which is where a verdict falls.
LEMMA EndPreserves == BreakerIInv /\ FnEnds => BreakerIInv'
<1> SUFFICES ASSUME BreakerIInv, FnEnds PROVE BreakerIInv'
  OBVIOUS
<1>1. /\ failures \in Nat /\ sinceFailure \in Nat /\ depth \in Nat
      /\ FailureThreshold \in Nat \ {0}
  BY BreakerParameters DEF BreakerIInv, Numbers
<1>2. CASE FnReturns
  <2>1. depth' \in Nat /\ failures' = 0 /\ sinceFailure' = sinceFailure
    BY <1>1, <1>2 DEF FnReturns
  <2>2. verdictLost' = verdictLost
        /\ (bstate' = "half_open" => bstate = "half_open" /\ ~(probes <= 1))
    BY <1>2 DEF FnReturns, ProbeDecides
  <2>3. FirstProbeRuns'
    BY <2>2 DEF BreakerIInv, FirstProbeRuns
  <2> QED  BY <1>1, <2>1, <2>2, <2>3 DEF BreakerIInv, Numbers, ClosedMeansHealthy
<1>3. CASE FnRaises
  <2>1. depth' \in Nat /\ failures' = failures + 1 /\ sinceFailure' = 0
    BY <1>1, <1>3 DEF FnRaises
  <2>2. bstate' # "half_open"
    BY <1>3 DEF FnRaises
  <2>3. bstate' = "closed" => ~(failures' >= FailureThreshold)
    BY <1>3 DEF FnRaises, Trips, ShouldOpen
  <2>4. verdictLost' = verdictLost
    BY <1>3 DEF FnRaises
  <2> QED
    BY <1>1, <2>1, <2>2, <2>3, <2>4 DEF BreakerIInv, Numbers, ClosedMeansHealthy, FirstProbeRuns
<1>4. CASE FnInterrupted
  <2>1. /\ depth' \in Nat /\ UNCHANGED <<bstate, failures, sinceFailure, probes, reenabled>>
        /\ verdictLost' = (verdictLost \/ bstate = "half_open")
    BY <1>1, <1>4 DEF FnInterrupted
  <2>2. verdictLost' \in BOOLEAN /\ (bstate = "half_open" => verdictLost')
    BY <2>1, Zenon DEF BreakerIInv, Numbers
  <2> QED  BY <1>1, <2>1, <2>2 DEF BreakerIInv, Numbers, ClosedMeansHealthy, FirstProbeRuns
<1> QED  BY <1>2, <1>3, <1>4 DEF FnEnds

\* The operations of other threads, and time.
LEMMA OtherPreserves ==
  BreakerIInv /\ (Disable \/ Enable \/ ResetBreaker \/ TickBreaker) => BreakerIInv'
<1> SUFFICES ASSUME BreakerIInv, Disable \/ Enable \/ ResetBreaker \/ TickBreaker PROVE BreakerIInv'
  OBVIOUS
<1>1. /\ failures \in Nat /\ sinceFailure \in Nat /\ depth \in Nat
      /\ FailureThreshold \in Nat \ {0} /\ MaxAge \in Nat
  BY BreakerParameters DEF BreakerIInv, Numbers
<1>2. CASE Disable \/ Enable
  BY <1>1, <1>2 DEF Disable, Enable, BreakerIInv, Numbers, ClosedMeansHealthy, FirstProbeRuns
<1>3. CASE ResetBreaker
  BY <1>1, <1>3 DEF ResetBreaker, BreakerIInv, Numbers, ClosedMeansHealthy, FirstProbeRuns
<1>4. CASE TickBreaker
  <2>1. sinceFailure' \in Nat /\ UNCHANGED <<bstate, failures, probes, depth, verdictLost, reenabled>>
    BY <1>1, <1>4 DEF TickBreaker, Least
  <2> QED  BY <1>1, <2>1 DEF BreakerIInv, Numbers, ClosedMeansHealthy, FirstProbeRuns
<1> QED  BY <1>2, <1>3, <1>4

\* A closed breaker has not met its threshold unless it was enabled over it, and a breaker
\* stays half-open between calls only after a probe without a verdict.
THEOREM StateEarned == BreakerSpec => []StateIsEarned
<1>1. BreakerInit => BreakerIInv
  BY BreakerInitEstablishes
<1>2. BreakerIInv /\ [BreakerNext]_breakerVars => BreakerIInv'
  <2>1. BreakerIInv /\ UNCHANGED breakerVars => BreakerIInv'
    BY DEF breakerVars, BreakerIInv, Numbers, ClosedMeansHealthy, FirstProbeRuns
  <2> QED  BY <2>1, CallPreserves, EndPreserves, OtherPreserves DEF BreakerNext
<1>3. BreakerIInv => StateIsEarned
  BY DEF BreakerIInv, Numbers, FirstProbeRuns, StateIsEarned, HalfOpenNeedsLostProbe
<1> QED  BY <1>1, <1>2, <1>3, PTL DEF BreakerSpec
-----------------------------------------------------------------------------
(* The two threads that degrade the service, however their rounds overlap.    *)

\* The reasons a thread has found and not yet turned into a level to set.
Due(w) == IF phase[w] # "setting" THEN todo[w] ELSE IF todo[w] > 0 THEN todo[w] - 1 ELSE 0
AllDue == Due("monitor") + Due("healer")

DegradationTypes ==
  /\ level \in Level /\ evidence \in 0..Enough /\ byHand \in Nat
  /\ todo \in [Watcher -> 0..2] /\ pressure \in [Watcher -> 0..2]
  /\ phase \in [Watcher -> Phase] /\ target \in [Watcher -> Level]
  /\ \A w \in Watcher : /\ phase[w] # "setting" => target[w] <= MINIMAL
                        /\ phase[w] = "deciding" => todo[w] > 0
  /\ setting \subseteq {w \in Watcher : phase[w] = "setting"}

\* The level, and each that is about to be set, leaves of the evidence what is due;
\* the count of the evidence stops at Enough, which covers every level.
Covered ==
  byHand = 0 =>
    \/ evidence = Enough
    \/ /\ level + AllDue <= evidence
       /\ \A w \in Watcher : phase[w] = "setting" => target[w] + AllDue <= evidence

DegradationIInv == DegradationTypes /\ Covered

LEMMA DegradationInitEstablishes == DegradationInit => DegradationIInv
BY DEF DegradationInit, DegradationIInv, DegradationTypes, Covered, AllDue, Due, Watcher,
       Level, FULL, EMERGENCY, MINIMAL, Enough, Phase

LEMMA LessIsCovered ==
  ASSUME NEW v \in Nat, NEW less \in Nat, NEW more \in Nat, NEW found \in Nat,
         less <= more, v + more <= found
  PROVE  v + less <= found
OBVIOUS

\* A step of one thread that leaves the level alone and finds no new reasons.
LEMMA DueShrinks ==
  ASSUME DegradationIInv, DegradationTypes', NEW w \in Watcher,
         level' = level, evidence' = evidence, byHand' = byHand,
         Due(w)' <= Due(w),
         phase'[w] = "setting" => target'[w] + Due(w)' <= level + Due(w)
                                  \/ (phase[w] = "setting" /\ target'[w] = target[w]),
         \A v \in Watcher \ {w} : /\ phase'[v] = phase[v] /\ todo'[v] = todo[v]
                                  /\ target'[v] = target[v]
  PROVE  DegradationIInv'
<1>1. \A v \in Watcher : Due(v) \in Nat /\ Due(v)' \in Nat
  BY DEF DegradationIInv, DegradationTypes, Due
<1>2. \A v \in Watcher \ {w} : Due(v)' = Due(v)
  BY DEF Due
<1>3. AllDue' <= AllDue /\ AllDue' - AllDue = Due(w)' - Due(w)
      /\ AllDue \in Nat /\ AllDue' \in Nat
  <2>1. CASE w = "monitor"
    BY <1>1, <1>2, <2>1 DEF AllDue, Watcher
  <2>2. CASE w = "healer"
    BY <1>1, <1>2, <2>2 DEF AllDue, Watcher
  <2> QED  BY <2>1, <2>2 DEF Watcher
<1>4. /\ level \in Nat /\ evidence \in Nat
      /\ \A v \in Watcher : target[v] \in Nat /\ target'[v] \in Nat
  BY DEF DegradationIInv, DegradationTypes, Level, FULL, EMERGENCY, Enough
<1>5. Covered'
  <2> SUFFICES ASSUME byHand = 0, evidence # Enough
               PROVE  /\ level + AllDue' <= evidence
                      /\ \A v \in Watcher : phase'[v] = "setting" => target'[v] + AllDue' <= evidence
    BY DEF Covered, Enough
  <2>1. /\ level + AllDue <= evidence
        /\ \A v \in Watcher : phase[v] = "setting" => target[v] + AllDue <= evidence
    BY DEF DegradationIInv, Covered
  <2>2. level + AllDue' <= evidence
    BY <2>1, <1>3, <1>4, LessIsCovered
  <2>3. ASSUME NEW v \in Watcher, phase'[v] = "setting" PROVE target'[v] + AllDue' <= evidence
    <3>1. CASE v # w
      BY <3>1, <2>1, <2>3, <1>3, <1>4, LessIsCovered
    <3>2. CASE v = w /\ target'[w] + Due(w)' <= level + Due(w)
      BY <3>2, <2>1, <1>1, <1>3, <1>4
    <3>3. CASE v = w /\ phase[w] = "setting" /\ target'[w] = target[w]
      BY <3>3, <2>1, <1>3, <1>4, LessIsCovered
    <3> QED  BY <2>3, <3>1, <3>2, <3>3
  <2> QED  BY <2>2, <2>3
<1> QED  BY <1>5 DEF DegradationIInv

\* A thread that has found reasons has so much more to cover them.
LEMMA MeasureCovers ==
  ASSUME DegradationIInv, NEW w \in Watcher, Measure(w)
  PROVE  DegradationIInv'
<1>1. /\ phase[w] = "measuring" /\ phase'[w] \in {"deciding", "calm", "waiting"}
      /\ phase'[w] = "deciding" => pressure[w] > 0
      /\ phase' \in [Watcher -> Phase]
      /\ todo' \in [Watcher -> 0..2] /\ todo'[w] = pressure[w]
      /\ \A v \in Watcher \ {w} : phase'[v] = phase[v] /\ todo'[v] = todo[v]
      /\ UNCHANGED <<level, setting, pressure, target, byHand>>
      /\ evidence' = IF evidence + pressure[w] <= Enough THEN evidence + pressure[w] ELSE Enough
      /\ pressure[w] \in 0..2 /\ todo[w] \in 0..2
  BY DEF DegradationIInv, DegradationTypes, Measure, counted, Phase
<1>2. DegradationTypes'
  <2>1. evidence' \in 0..Enough
    BY <1>1 DEF DegradationIInv, DegradationTypes, Enough, EMERGENCY
  <2>2. \A v \in Watcher : /\ phase'[v] # "setting" => target'[v] <= MINIMAL
                           /\ phase'[v] = "deciding" => todo'[v] > 0
    BY <1>1 DEF DegradationIInv, DegradationTypes
  <2>3. setting' \subseteq {v \in Watcher : phase'[v] = "setting"}
    BY <1>1 DEF DegradationIInv, DegradationTypes
  <2> QED  BY <1>1, <2>1, <2>2, <2>3 DEF DegradationIInv, DegradationTypes
<1>3. \A v \in Watcher : Due(v) \in Nat /\ Due(v)' \in Nat
  BY <1>2 DEF DegradationIInv, DegradationTypes, Due
<1>4. Due(w)' = pressure[w] /\ \A v \in Watcher \ {w} : Due(v)' = Due(v)
  BY <1>1 DEF Due
<1>5. AllDue \in Nat /\ AllDue' \in Nat /\ AllDue' <= AllDue + pressure[w]
  <2>1. CASE w = "monitor"
    BY <1>1, <1>3, <1>4, <2>1 DEF AllDue, Watcher
  <2>2. CASE w = "healer"
    BY <1>1, <1>3, <1>4, <2>2 DEF AllDue, Watcher
  <2> QED  BY <2>1, <2>2 DEF Watcher
<1>6. Covered'
  <2> SUFFICES ASSUME byHand = 0, evidence' # Enough
               PROVE  /\ level + AllDue' <= evidence'
                      /\ \A v \in Watcher : phase'[v] = "setting" => target[v] + AllDue' <= evidence'
    BY <1>1 DEF Covered, Enough
  <2>1. evidence \in Nat /\ evidence' = evidence + pressure[w] /\ evidence # Enough
    BY <1>1 DEF DegradationIInv, DegradationTypes, Enough, EMERGENCY
  <2>2. /\ level + AllDue <= evidence
        /\ \A v \in Watcher : phase[v] = "setting" => target[v] + AllDue <= evidence
    BY <2>1 DEF DegradationIInv, Covered
  <2>3. ASSUME NEW x \in Nat, x + AllDue <= evidence PROVE x + AllDue' <= evidence'
    <3>1. x + (AllDue + pressure[w]) <= evidence'
      BY <2>1, <2>3, <1>1, <1>5
    <3> QED  BY <3>1, <2>1, <1>1, <1>5, LessIsCovered
  <2>4. level \in Nat /\ \A v \in Watcher : target[v] \in Nat
    BY DEF DegradationIInv, DegradationTypes, Level, FULL, EMERGENCY
  <2> QED  BY <1>1, <2>2, <2>3, <2>4
<1> QED  BY <1>2, <1>6 DEF DegradationIInv

\* The level becomes one that was covered already; nothing falls due.
LEMMA SetCovers ==
  ASSUME DegradationIInv, NEW w \in Watcher, EnterSet(w)
  PROVE  DegradationIInv'
<1>1. /\ phase[w] = "setting" /\ level' = target[w] /\ setting' = setting \cup {w}
      /\ UNCHANGED <<phase, todo, pressure, target, evidence, byHand>>
  BY DEF EnterSet, counted
<1>2. DegradationTypes'
  BY <1>1 DEF DegradationIInv, DegradationTypes
<1>3. AllDue' = AllDue
  BY <1>1 DEF AllDue, Due
<1> QED  BY <1>1, <1>2, <1>3 DEF DegradationIInv, Covered, Enough

\* A thread decides on the next level, or finds that there is nothing to do.
LEMMA DecisionCovers ==
  ASSUME DegradationIInv, MonitorAsks \/ HealerDecides
  PROVE  DegradationIInv'
<1>1. PICK w \in Watcher :
        /\ phase[w] = "deciding"
        /\ UNCHANGED <<level, evidence, byHand, setting, pressure>>
        /\ \/ /\ level < EMERGENCY /\ target' = [target EXCEPT ![w] = level + 1]
              /\ phase' = [phase EXCEPT ![w] = "setting"] /\ todo' = todo
           \/ /\ target[w] < MINIMAL /\ target' = [target EXCEPT ![w] = @ + 1]
              /\ phase' = phase /\ todo' = todo
           \/ /\ target' = target \/ target' = [target EXCEPT ![w] = FULL]
              /\ phase' = [phase EXCEPT ![w] = AfterReason(w)]
              /\ todo' = [todo EXCEPT ![w] = @ - 1]
  <2>1. CASE MonitorAsks
    <3>1. target["monitor"] <= MINIMAL /\ target["monitor"] \in Level
      <4>1. "monitor" \in Watcher /\ phase["monitor"] # "setting"
        BY <2>1 DEF MonitorAsks, Watcher
      <4> QED  BY <4>1 DEF DegradationIInv, DegradationTypes
    <3>2. level = target["monitor"] => level < EMERGENCY
      BY <3>1 DEF Level, FULL, MINIMAL, EMERGENCY
    <3> QED  BY <2>1, <3>2 DEF MonitorAsks, OneUp, OneLess, counted, Watcher
  <2>2. CASE HealerDecides
    BY <2>2 DEF HealerDecides, OneUp, OneLess, counted, Watcher
  <2> QED  BY <2>1, <2>2
<1>2. /\ level \in 0..3 /\ todo[w] \in 1..2 /\ target[w] \in 0..2
      /\ todo \in [Watcher -> 0..2] /\ phase \in [Watcher -> Phase] /\ target \in [Watcher -> 0..3]
  <2>1. /\ level \in 0..3 /\ todo \in [Watcher -> 0..2] /\ phase \in [Watcher -> Phase]
        /\ target \in [Watcher -> 0..3]
    BY DEF DegradationIInv, DegradationTypes, Level, FULL, EMERGENCY
  <2>2. phase[w] # "setting" /\ todo[w] > 0 /\ target[w] <= 2
    BY <1>1 DEF DegradationIInv, DegradationTypes, MINIMAL
  <2>3. todo[w] \in 0..2 /\ target[w] \in 0..3
    BY <2>1
  <2> QED  BY <2>1, <2>2, <2>3
<1>3. CASE /\ level < EMERGENCY /\ target' = [target EXCEPT ![w] = level + 1]
           /\ phase' = [phase EXCEPT ![w] = "setting"] /\ todo' = todo
  <2>1. DegradationTypes'
    BY <1>1, <1>2, <1>3
    DEF DegradationIInv, DegradationTypes, Level, FULL, MINIMAL, EMERGENCY, Phase, Enough
  <2>2. Due(w) = todo[w] /\ Due(w)' = todo[w] - 1 /\ target'[w] = level + 1
    BY <1>1, <1>2, <1>3 DEF Due
  <2> QED  BY <1>1, <1>2, <1>3, <2>1, <2>2, DueShrinks
<1>4. CASE /\ target[w] < MINIMAL /\ target' = [target EXCEPT ![w] = @ + 1]
           /\ phase' = phase /\ todo' = todo
  <2>1. DegradationTypes'
    BY <1>1, <1>2, <1>4
    DEF DegradationIInv, DegradationTypes, Level, FULL, MINIMAL, EMERGENCY, Phase, Enough
  <2>2. Due(w)' = Due(w) /\ Due(w) \in Nat /\ phase'[w] # "setting"
    BY <1>1, <1>2, <1>4 DEF Due
  <2> QED  BY <1>1, <1>2, <1>4, <2>1, <2>2, DueShrinks
<1>5. CASE /\ target' = target \/ target' = [target EXCEPT ![w] = FULL]
           /\ phase' = [phase EXCEPT ![w] = AfterReason(w)]
           /\ todo' = [todo EXCEPT ![w] = @ - 1]
  <2>1. /\ phase'[w] \in {"deciding", "waiting"} /\ todo'[w] = todo[w] - 1
        /\ phase'[w] = "deciding" => todo[w] > 1
        /\ phase' \in [Watcher -> Phase] /\ todo' \in [Watcher -> 0..2]
    BY <1>2, <1>5 DEF AfterReason, Phase
  <2>2. DegradationTypes'
    BY <1>1, <1>2, <1>5, <2>1
    DEF DegradationIInv, DegradationTypes, Level, FULL, MINIMAL, EMERGENCY, Enough
  <2>3. Due(w) = todo[w] /\ Due(w)' = todo[w] - 1 /\ phase'[w] # "setting"
    BY <1>1, <2>1 DEF Due
  <2> QED  BY <1>1, <1>2, <1>5, <2>2, <2>3, DueShrinks
<1> QED  BY <1>1, <1>3, <1>4, <1>5

LEMMA CalmCovers ==
  ASSUME DegradationIInv, NEW w \in Watcher, ReadCalm(w)
  PROVE  DegradationIInv'
<1>1. /\ phase[w] = "calm"
      /\ UNCHANGED <<level, evidence, byHand, setting, pressure, todo>>
      /\ \/ /\ target' = [target EXCEPT ![w] = FULL]
            /\ phase' = [phase EXCEPT ![w] = "setting"]
         \/ /\ target' = target /\ phase' = [phase EXCEPT ![w] = "waiting"]
  BY DEF ReadCalm, counted
<1>2. /\ level \in 0..3 /\ todo[w] \in 0..2
      /\ phase \in [Watcher -> Phase] /\ target \in [Watcher -> 0..3]
  BY DEF DegradationIInv, DegradationTypes, Level, FULL, EMERGENCY
<1>3. DegradationTypes'
  BY <1>1, <1>2
  DEF DegradationIInv, DegradationTypes, Level, FULL, MINIMAL, EMERGENCY, Phase, Enough
<1>4. Due(w) = todo[w] /\ Due(w)' <= todo[w] /\ Due(w)' \in Nat
  BY <1>1, <1>2 DEF Due
<1>5. phase'[w] = "setting" => target'[w] = 0
  BY <1>1, <1>2 DEF FULL
<1>6. phase'[w] = "setting" => target'[w] + Due(w)' <= level + Due(w)
  BY <1>2, <1>4, <1>5
<1> QED  BY <1>1, <1>2, <1>3, <1>4, <1>6, DueShrinks

LEMMA LeaveCovers ==
  ASSUME DegradationIInv, NEW w \in Watcher, LeaveSet(w)
  PROVE  DegradationIInv'
<1>1. /\ phase[w] = "setting"
      /\ UNCHANGED <<level, evidence, byHand, pressure>>
      /\ setting' = setting \ {w} /\ target' = [target EXCEPT ![w] = FULL]
      /\ \/ /\ todo[w] > 0 /\ phase' = [phase EXCEPT ![w] = AfterReason(w)]
            /\ todo' = [todo EXCEPT ![w] = @ - 1]
         \/ /\ ~(todo[w] > 0) /\ phase' = [phase EXCEPT ![w] = "waiting"] /\ todo' = todo
  BY DEF LeaveSet, OneLess, counted, DegradationIInv, DegradationTypes
<1>2. /\ todo \in [Watcher -> 0..2] /\ todo[w] \in 0..2
      /\ phase \in [Watcher -> Phase] /\ target \in [Watcher -> 0..3]
  BY DEF DegradationIInv, DegradationTypes, Level, FULL, EMERGENCY
<1>3. /\ phase'[w] \in {"deciding", "waiting"} /\ phase' \in [Watcher -> Phase]
      /\ phase'[w] = "deciding" => todo'[w] > 0
      /\ todo' \in [Watcher -> 0..2]
      /\ todo'[w] = IF todo[w] > 0 THEN todo[w] - 1 ELSE todo[w]
  BY <1>1, <1>2 DEF AfterReason, Phase
<1>4. DegradationTypes'
  BY <1>1, <1>2, <1>3
  DEF DegradationIInv, DegradationTypes, Level, FULL, MINIMAL, EMERGENCY, Enough
<1>5. Due(w)' = Due(w) /\ Due(w) \in Nat /\ phase'[w] # "setting"
  BY <1>1, <1>2, <1>3 DEF Due
<1> QED  BY <1>1, <1>2, <1>3, <1>4, <1>5, DueShrinks

\* Threads that begin, are told to stop or go round, and the load.
LEMMA RestCovers ==
  ASSUME DegradationIInv, NEW w \in Watcher,
         StartWatcher(w) \/ StopWatcher(w) \/ Loop(w) \/ PressureChanges(w)
  PROVE  DegradationIInv'
<1>1. /\ UNCHANGED <<level, evidence, byHand, setting, todo, target>>
      /\ \/ phase' = phase
         \/ /\ phase[w] \in {"dead", "begun", "waiting"}
            /\ \E q \in {"dead", "begun", "measuring"} : phase' = [phase EXCEPT ![w] = q]
  BY DEF StartWatcher, StopWatcher, Loop, AfterLoop, PressureChanges, counted
<1>2. pressure' \in [Watcher -> 0..2]
  <2>1. CASE PressureChanges(w)
    BY <2>1 DEF PressureChanges, Reasons, DegradationIInv, DegradationTypes
  <2>2. CASE StartWatcher(w) \/ StopWatcher(w) \/ Loop(w)
    BY <2>2 DEF StartWatcher, StopWatcher, Loop, DegradationIInv, DegradationTypes
  <2> QED  BY <2>1, <2>2
<1>3. /\ phase' \in [Watcher -> Phase] /\ todo[w] \in 0..2
      /\ \A v \in Watcher : /\ phase'[v] = "setting" <=> phase[v] = "setting"
                            /\ phase'[v] = "deciding" => phase[v] = "deciding"
  BY <1>1 DEF DegradationIInv, DegradationTypes, Phase
<1>4. DegradationTypes'
  BY <1>1, <1>2, <1>3 DEF DegradationIInv, DegradationTypes, Enough
<1>5. Due(w)' = Due(w) /\ Due(w) \in Nat
  BY <1>1, <1>3 DEF Due
<1>6. \A v \in Watcher \ {w} : phase'[v] = phase[v]
  BY <1>1 DEF DegradationIInv, DegradationTypes
<1> QED  BY <1>1, <1>3, <1>4, <1>5, <1>6, DueShrinks

\* A level set by hand ends what is said of the evidence.
LEMMA HandCovers ==
  ASSUME DegradationIInv, NEW l \in Level, SetByHand(l)
  PROVE  DegradationIInv'
<1>1. byHand' # 0 /\ byHand' \in Nat /\ level' \in Level
  BY DEF SetByHand, DegradationIInv, DegradationTypes
<1> QED  BY <1>1 DEF SetByHand, DegradationIInv, DegradationTypes, Covered, Enough

LEMMA DegradationStep ==
  DegradationIInv /\ [DegradationNext]_degradationVars => DegradationIInv'
<1>1. DegradationIInv /\ UNCHANGED degradationVars => DegradationIInv'
  BY DEF degradationVars, counted, DegradationIInv, DegradationTypes, Covered, AllDue, Due,
         Enough
<1>2. DegradationIInv /\ DegradationNext => DegradationIInv'
  BY MeasureCovers, SetCovers, DecisionCovers, CalmCovers, LeaveCovers, RestCovers, HandCovers
  DEF DegradationNext, Round
<1> QED  BY <1>1, <1>2

\* Left alone, the level is no higher than the number of reasons the two threads have
\* found, though each reads the level and sets the next in separate steps.
THEOREM LevelEarned == DegradationSpec => []LevelNeedsEvidence
<1>1. DegradationIInv => LevelNeedsEvidence
  <2> SUFFICES ASSUME DegradationIInv, byHand = 0 PROVE level <= evidence
    BY DEF LevelNeedsEvidence
  <2>1. /\ level \in 0..3 /\ evidence \in 0..3
        /\ Due("monitor") \in Nat /\ Due("healer") \in Nat
    BY DEF DegradationIInv, DegradationTypes, Level, FULL, EMERGENCY, Enough, Due, Watcher
  <2> QED  BY <2>1 DEF DegradationIInv, Covered, AllDue, Enough, EMERGENCY
<1> QED  BY <1>1, DegradationStep, DegradationInitEstablishes, PTL DEF DegradationSpec
-----------------------------------------------------------------------------
(* The prefetcher, for any number of layers, depth of the ring and buffer.    *)

PrefetchIInv ==
  /\ buffer \subseteq LayerIndex /\ pending \subseteq LayerIndex /\ reading \subseteq pending
  /\ died \in Nat
  /\ ReadOnce

LEMMA FiniteLayers ==
  ASSUME NEW S, S \subseteq LayerIndex
  PROVE  IsFiniteSet(S) /\ Cardinality(S) \in Nat
<1>1. IsFiniteSet(LayerIndex)
  BY PrefetchAssumption, FS_Interval DEF PrefetchAssumption, LayerIndex
<1> QED  BY <1>1, FS_Subset, FS_CardinalityType

\* The buffer keeps to its size, for a full one has a lowest layer to forget.
LEMMA TrimmedFits ==
  ASSUME NEW S, S \subseteq LayerIndex, Cardinality(S) <= BufferMax, NEW l \in LayerIndex
  PROVE  Trimmed(S \cup {l}) \subseteq S \cup {l}
         /\ Cardinality(Trimmed(S \cup {l})) <= BufferMax
<1> DEFINE T == S \cup {l}
           least == CHOOSE x \in T : \A k \in T : x <= k
<1>1. BufferMax \in Nat /\ IsFiniteSet(S) /\ Cardinality(S) \in Nat /\ IsFiniteSet(T)
      /\ Cardinality(T) \in Nat
  BY PrefetchAssumption, FiniteLayers DEF PrefetchAssumption
<1>2. Cardinality(T) <= BufferMax + 1
  BY <1>1, FS_AddElement
<1>3. least \in T
  <2>1. T \in SUBSET Nat /\ T # {}
    BY PrefetchAssumption DEF PrefetchAssumption, LayerIndex
  <2> QED  BY <2>1, LeastNumber
<1>4. Cardinality(T \ {least}) = Cardinality(T) - 1
  BY <1>1, <1>3, FS_RemoveElement
<1>5. Trimmed(T) = IF Cardinality(T) <= BufferMax THEN T ELSE T \ {least}
  BY DEF Trimmed
<1> HIDE DEF T, least
<1> QED  BY <1>1, <1>2, <1>4, <1>5 DEF T

LEMMA PrefetchStep ==
  PrefetchIInv /\ [PrefetchNext]_prefetchVars => PrefetchIInv'
<1> SUFFICES ASSUME PrefetchIInv, [PrefetchNext]_prefetchVars PROVE PrefetchIInv'
  OBVIOUS
<1>0. RingDepth \in Nat /\ BufferMax \in Nat
  BY PrefetchAssumption DEF PrefetchAssumption
<1> USE DEF PrefetchIInv, ReadOnce
<1>1. ASSUME NEW l \in LayerIndex, Prefetch(l) PROVE PrefetchIInv'
  <2>1. /\ l \notin buffer /\ l \notin pending /\ Cardinality(pending) < RingDepth
        /\ pending' = pending \cup {l} /\ reading' = reading \cup {l}
        /\ buffer' = buffer /\ died' = died
    BY <1>1 DEF Prefetch, Wanted
  <2>2. Cardinality(pending') = Cardinality(pending) + 1 /\ Cardinality(pending) \in Nat
    BY <2>1, FiniteLayers, FS_AddElement
  <2>3. pending' \ reading' = pending \ reading
    BY <2>1
  <2>4. Cardinality(pending') <= RingDepth
    BY <1>0, <2>1, <2>2
  <2>5. buffer' \cap pending' = {} /\ pending' \subseteq LayerIndex /\ reading' \subseteq pending'
    BY <2>1
  <2> QED  BY <2>1, <2>3, <2>4, <2>5
<1>2. ASSUME NEW l \in LayerIndex, ReadEnds(l) PROVE PrefetchIInv'
  <2>1. /\ l \in reading /\ reading' = reading \ {l} /\ pending' = pending \ {l}
        /\ buffer' = Trimmed(buffer \cup {l}) /\ died' = died
    BY <1>2 DEF ReadEnds
  <2>2. Cardinality(pending') <= Cardinality(pending) /\ Cardinality(pending) \in Nat
        /\ Cardinality(pending') \in Nat
    BY <2>1, FiniteLayers, FS_Subset
  <2>3. buffer' \subseteq buffer \cup {l} /\ Cardinality(buffer') <= BufferMax
    BY <2>1, TrimmedFits
  <2>4. pending' \ reading' = pending \ reading
    BY <2>1
  <2>5. Cardinality(pending') <= RingDepth
    BY <1>0, <2>2
  <2> QED  BY <2>1, <2>3, <2>4, <2>5
<1>3. ASSUME NEW l \in LayerIndex, ReadFails(l) PROVE PrefetchIInv'
  <2>1. /\ l \in reading /\ reading' = reading \ {l} /\ died' = died + 1
        /\ buffer' = buffer /\ pending' = pending
    BY <1>3 DEF ReadFails
  <2>2. pending' \ reading' = (pending \ reading) \cup {l} /\ l \notin pending \ reading
    BY <2>1
  <2>3. Cardinality(pending' \ reading') = Cardinality(pending \ reading) + 1
    BY <2>2, FiniteLayers, FS_AddElement
  <2> QED  BY <2>1, <2>3
<1>4. ASSUME NEW l \in LayerIndex, GetPrefetched(l) PROVE PrefetchIInv'
  <2>1. buffer' = buffer \ {l} /\ UNCHANGED <<pending, reading, died>>
    BY <1>4 DEF GetPrefetched
  <2>2. Cardinality(buffer') <= Cardinality(buffer) /\ Cardinality(buffer) \in Nat
        /\ Cardinality(buffer') \in Nat
    BY <2>1, FiniteLayers, FS_Subset
  <2>3. Cardinality(buffer') <= BufferMax
    BY <1>0, <2>2
  <2> QED  BY <2>1, <2>3
<1>5. CASE WaitPending \/ WaitOver \/ Close \/ WorkerEnds \/ UNCHANGED prefetchVars
  BY <1>5 DEF WaitPending, WaitOver, Close, WorkerEnds, prefetchVars
<1> QED  BY <1>1, <1>2, <1>3, <1>4, <1>5 DEF PrefetchNext

LEMMA PrefetchStarts == PrefetchInit => PrefetchIInv
<1> SUFFICES ASSUME PrefetchInit PROVE PrefetchIInv
  OBVIOUS
<1>1. Cardinality({}) = 0 /\ RingDepth \in Nat /\ BufferMax \in Nat
  BY FS_EmptySet, PrefetchAssumption DEF PrefetchAssumption
<1>2. /\ buffer = {} /\ pending = {} /\ reading = {} /\ died = 0 /\ pending \ reading = {}
  BY DEF PrefetchInit
<1> QED  BY <1>1, <1>2 DEF PrefetchIInv, ReadOnce

\* A layer is read by one thread at a time, and not while it lies in the buffer; ring and
\* buffer keep to their sizes, and a reader that died is what leaves a layer pending.
THEOREM LayersReadOnce == PrefetchSpec => []ReadOnce
<1>1. PrefetchIInv => ReadOnce
  BY DEF PrefetchIInv
<1> QED  BY <1>1, PrefetchStarts, PrefetchStep, PTL DEF PrefetchSpec
-----------------------------------------------------------------------------
(* The engine's arena, for any size and any layers.                           *)

\* The entries lie in the arena, each where bytes of its layer are; so no two overlap.
ArenaIInv ==
  /\ DOMAIN arena = 0..(ArenaSize - 1)
  /\ \A l \in Layers : /\ entries[l].offset \in Nat /\ entries[l].size \in Nat
                       /\ entries[l].offset + entries[l].size <= ArenaSize
  /\ storing # NoStore => storing.size \in Nat
  /\ LoadsWhatWasStored

\* The slot a store takes, if it finds one, is in the arena and meets no entry.
LEMMA SlotIsFree ==
  ASSUME ArenaIInv, NEW n \in Nat, Slots(n) # {}
  PROVE  FirstOf(Slots(n)) \in Nat /\ Gap(FirstOf(Slots(n)), n)
<1>1. \A i \in Slots(n) : i \in Nat /\ Gap(i, n)
  BY DEF Slots, ArenaIInv
<1>2. FirstOf(Slots(n)) \in Slots(n)
  <2>1. Slots(n) \in SUBSET Nat
    BY <1>1
  <2>2. \E i \in Slots(n) : \A j \in Slots(n) : i <= j
    BY <2>1, LeastNumber
  <2> QED  BY <2>2 DEF FirstOf
<1> QED  BY <1>1, <1>2

LEMMA StoreEndsKeeps ==
  ASSUME ArenaIInv, StoreEnds
  PROVE  ArenaIInv'
<1> DEFINE l == storing.layer
           n == storing.size
           offset == FirstOf(Slots(n))
           e == [offset |-> offset, size |-> n]
<1>1. n \in Nat /\ storing' = NoStore /\ ArenaSize \in Nat
  BY ArenaAssumption DEF StoreEnds, ArenaIInv, ArenaAssumption
<1>2. CASE Slots(n) = {}
  <2>1. UNCHANGED <<arena, entries>>
    BY <1>2 DEF StoreEnds
  <2> QED  BY <1>1, <2>1 DEF ArenaIInv, LoadsWhatWasStored, Layers
<1>3. CASE Slots(n) # {}
  <2>1. /\ offset \in Nat /\ offset + n <= ArenaSize
        /\ \A k \in Layers : Bytewise(entries[k]) \cap Bytewise(e) = {}
    BY <1>1, <1>3, SlotIsFree DEF Gap, Bytewise
  <2>2. /\ arena' = [i \in DOMAIN arena |-> IF i \in Bytewise(e) THEN l ELSE arena[i]]
        /\ entries' = [k \in Layers \cup {l} |-> IF k = l THEN e ELSE entries[k]]
    BY <1>3 DEF StoreEnds, With, Layers
  <2>3. e.offset = offset /\ e.size = n
    OBVIOUS
  <2>4. Bytewise(e) \subseteq DOMAIN arena
    BY <1>1, <2>1, <2>3 DEF Bytewise, ArenaIInv
  <2> HIDE DEF e
  <2>5. /\ Layers' = Layers \cup {l} /\ entries'[l] = e
        /\ \A k \in Layers \ {l} : entries'[k] = entries[k]
    BY <2>2 DEF Layers
  <2>6. ASSUME NEW k \in Layers', NEW i \in Bytewise(entries'[k])
        PROVE  arena'[i] = k
    <3>1. CASE k = l
      BY <3>1, <2>2, <2>4, <2>5, <2>6
    <3>2. CASE k # l
      <4>1. i \in Bytewise(entries[k]) /\ k \in Layers
        BY <3>2, <2>5, <2>6
      <4>2. i \notin Bytewise(e) /\ i \in DOMAIN arena
        BY <4>1, <2>1, <1>1 DEF ArenaIInv, Bytewise
      <4> QED  BY <4>1, <4>2, <2>2 DEF ArenaIInv, LoadsWhatWasStored
    <3> QED  BY <3>1, <3>2
  <2>7. LoadsWhatWasStored'
    BY <2>6 DEF LoadsWhatWasStored, Bytewise
  <2>8. DOMAIN arena' = 0..(ArenaSize - 1)
    BY <2>2 DEF ArenaIInv
  <2>9. ASSUME NEW k \in Layers'
        PROVE  /\ entries'[k].offset \in Nat /\ entries'[k].size \in Nat
               /\ entries'[k].offset + entries'[k].size <= ArenaSize
    BY <1>1, <2>1, <2>3, <2>5, <2>9 DEF ArenaIInv
  <2> QED  BY <1>1, <2>7, <2>8, <2>9 DEF ArenaIInv, Layers
<1> QED  BY <1>2, <1>3

LEMMA ArenaStep == ArenaIInv /\ [ArenaNext]_arenaVars => ArenaIInv'
<1> SUFFICES ASSUME ArenaIInv, [ArenaNext]_arenaVars PROVE ArenaIInv'
  OBVIOUS
<1>1. ASSUME NEW l, NEW n \in 1..(ArenaSize + 1), StoreStarts(l, n) PROVE ArenaIInv'
  <2>1. /\ UNCHANGED <<arena, entries>> /\ storing'.size = n /\ n \in Nat
    BY <1>1, ArenaAssumption DEF StoreStarts, ArenaAssumption
  <2> QED  BY <2>1 DEF ArenaIInv, LoadsWhatWasStored, Layers
<1>2. CASE EvictOldest
  <2>1. /\ entries' = [k \in Layers \ {Head(lruTicks)} |-> entries[k]]
        /\ UNCHANGED <<arena, storing>>
    BY <1>2 DEF EvictOldest, LessLayer, Layers
  <2>2. Layers' \subseteq Layers /\ \A k \in Layers' : entries'[k] = entries[k]
    BY <2>1 DEF Layers
  <2>3. LoadsWhatWasStored'
    BY <2>1, <2>2 DEF ArenaIInv, LoadsWhatWasStored, Bytewise
  <2> QED  BY <2>1, <2>2, <2>3 DEF ArenaIInv, Layers
<1>3. CASE StoreEnds
  BY <1>3, StoreEndsKeeps
<1>4. CASE (\E l \in CachedLayer : LoadLayer(l)) \/ UNCHANGED arenaVars
  BY <1>4 DEF LoadLayer, arenaVars, ArenaIInv, LoadsWhatWasStored, Layers
<1>5. CASE ClearArena
  BY <1>5 DEF ClearArena, ArenaIInv, LoadsWhatWasStored, Layers
<1> QED  BY <1>1, <1>2, <1>3, <1>4, <1>5 DEF ArenaNext

LEMMA ArenaStarts == ArenaInit => ArenaIInv
BY DEF ArenaInit, ArenaIInv, LoadsWhatWasStored, Layers, NoStore

\* What is loaded for a layer was stored for it, wherever first-fit, evictions and
\* repeated stores have left gaps.
THEOREM LoadsTheStored == ArenaSpec => []LoadsWhatWasStored
<1>1. ArenaIInv => LoadsWhatWasStored
  BY DEF ArenaIInv
<1> QED  BY <1>1, ArenaStarts, ArenaStep, PTL DEF ArenaSpec
-----------------------------------------------------------------------------
(* A bucket of the rate limiter: any algorithm, capacity, rate, period and span. *)

\* The constants, one by one.
LEMMA LimiterParameters ==
  /\ Capacity \in Nat \ {0} /\ Rate \in Nat \ {0} /\ Period \in Nat \ {0}
  /\ Span \in Nat \ {0} /\ Horizon \in Nat \ {0} /\ Horizon > Span
  /\ Cost \subseteq Nat \ {0}
BY LimiterAssumption DEF LimiterAssumption

\* What a history of grants comes to, up to an age.
GrantedOf(g, n) == SumFunctionOnSet(g, 0..n - 1)
Histories == [0..Horizon - 1 -> Nat]

LEMMA GrantsAdd ==
  ASSUME NEW g \in Histories
  PROVE  /\ GrantedOf(g, 0) = 0
         /\ \A n \in 0..Horizon : GrantedOf(g, n) \in Nat
         /\ \A n \in 1..Horizon : GrantedOf(g, n) = GrantedOf(g, n - 1) + g[n - 1]
<1>1. Horizon \in Nat \ {0}
  BY LimiterParameters
<1>2. GrantedOf(g, 0) = 0
  <2>1. 0..0 - 1 = {}
    OBVIOUS
  <2> QED  BY <2>1, SumOfNothing DEF GrantedOf
<1>3. \A n \in 0..Horizon : IsFiniteSet(0..n - 1) /\ \A a \in 0..n - 1 : g[a] \in Nat
  <2> TAKE n \in 0..Horizon
  <2>1. 0..n - 1 \subseteq 0..Horizon - 1 /\ n - 1 \in Int /\ 0 \in Int
    BY <1>1
  <2> QED  BY <2>1, FS_Interval DEF Histories
<1>4. \A n \in 0..Horizon : GrantedOf(g, n) \in Nat
  BY <1>3, SumIsNat DEF GrantedOf
<1>5. ASSUME NEW n \in 1..Horizon
      PROVE  GrantedOf(g, n) = GrantedOf(g, n - 1) + g[n - 1]
  <2> DEFINE earlier == 0..(n - 1) - 1
             last == n - 1
  <2>1. /\ last \in 0..Horizon /\ last \notin earlier /\ 0..n - 1 = earlier \cup {last}
        /\ n \in 0..Horizon
    BY <1>1
  <2>2. IsFiniteSet(earlier) /\ \A a \in earlier \cup {last} : g[a] \in Int
    BY <1>3, <2>1
  <2>3. GrantedOf(g, n) = SumFunctionOnSet(g, earlier \cup {last})
        /\ GrantedOf(g, n - 1) = SumFunctionOnSet(g, earlier)
    BY <2>1 DEF GrantedOf
  <2>4. g[last] \in Int /\ SumFunctionOnSet(g, earlier) \in Int
    <3>1. n - 1 \in 0..Horizon
      BY <1>1
    <3> QED  BY <1>4, <2>2, <2>3, <3>1
  <2> HIDE DEF earlier
  <2>5. SumFunctionOnSet(g, earlier \cup {last}) = g[last] + SumFunctionOnSet(g, earlier)
    BY <2>1, <2>2, SumPutIn
  <2> QED  BY <2>3, <2>4, <2>5
<1> QED  BY <1>2, <1>4, <1>5

\* A grant adds to all that covers the present.
LEMMA NoteAdds ==
  ASSUME NEW g \in Histories, NEW h \in Histories, NEW c \in Nat,
         h[0] = g[0] + c, \A a \in 0..Horizon - 1 : a # 0 => h[a] = g[a]
  PROVE  \A n \in 1..Horizon : GrantedOf(h, n) = GrantedOf(g, n) + c
<1>1. Horizon \in Nat \ {0}
  BY LimiterParameters
<1>3. ASSUME NEW n \in 1..Horizon PROVE GrantedOf(h, n) = GrantedOf(g, n) + c
  <2> DEFINE ages == 0..n - 1
  <2>1. IsFiniteSet(ages) /\ 0 \in ages /\ ages \subseteq 0..Horizon - 1 /\ n \in 0..Horizon
    BY <1>1, FS_Interval
  <2>2. \A a \in ages : g[a] \in Int /\ h[a] \in Int
    BY <1>1, <2>1 DEF Histories
  <2>3. \A a \in ages : a # 0 => h[a] = g[a]
    BY <2>1
  <2>4. GrantedOf(g, n) \in Nat
    BY <2>1, GrantsAdd
  <2>5. GrantedOf(g, n) = SumFunctionOnSet(g, ages) /\ GrantedOf(h, n) = SumFunctionOnSet(h, ages)
    BY DEF GrantedOf
  <2> HIDE DEF ages
  <2>6. SumFunctionOnSet(h, ages) = SumFunctionOnSet(g, ages) - g[0] + h[0]
    <3>1. PICK now : now = 0
      OBVIOUS
    <3>2. now \in ages /\ \A a \in ages : a # now => h[a] = g[a]
      BY <2>1, <2>3, <3>1
    <3>3. SumFunctionOnSet(h, ages) = SumFunctionOnSet(g, ages) - g[now] + h[now]
      <4>1. IsFiniteSet(ages)
        BY <2>1
      <4> QED  BY <4>1, <2>2, <3>2, SumChange
    <3> QED  BY <3>1, <3>3
  <2>7. g[0] \in Int
    BY <2>1, <2>2
  <2> QED  BY <2>4, <2>5, <2>6, <2>7
<1> QED  BY <1>3

\* Grants age by one tick.
Aged(g) == [a \in 0..Horizon - 1 |-> IF a = 0 THEN 0 ELSE g[a - 1]]

LEMMA AgedShifts ==
  ASSUME NEW g \in Histories
  PROVE  /\ Aged(g) \in Histories
         /\ \A n \in 1..Horizon : GrantedOf(Aged(g), n) = GrantedOf(g, n - 1)
<1> DEFINE h == Aged(g)
<1>1. Horizon \in Nat \ {0}
  BY LimiterParameters
<1>2. h \in Histories /\ h[0] = 0 /\ \A a \in 1..Horizon - 1 : h[a] = g[a - 1]
  BY <1>1 DEF Histories, Aged
<1> HIDE DEF h
<1> DEFINE Good(n) == GrantedOf(h, n) = GrantedOf(g, n - 1)
           B == {n \in 1..Horizon : ~ Good(n)}
<1>3. B = {}
  <2> SUFFICES ASSUME B # {} PROVE FALSE
    OBVIOUS
  <2>1. PICK n \in B : \A m \in B : n <= m
    <3>1. B \in SUBSET Nat
      OBVIOUS
    <3> HIDE DEF B
    <3> QED  BY <3>1, LeastNumber
  <2>2. n \in 1..Horizon
    OBVIOUS
  <2>3. GrantedOf(h, n) = GrantedOf(h, n - 1) + h[n - 1]
    BY <1>2, <2>2, GrantsAdd
  <2>4. n # 1
    <3>1. ASSUME n = 1 PROVE Good(1)
      <4>1. GrantedOf(h, 1) = GrantedOf(h, 0) + h[0] /\ GrantedOf(h, 0) = 0
            /\ GrantedOf(g, 0) = 0
        <5>1. 1 - 1 = 0
          OBVIOUS
        <5> QED  BY <2>3, <3>1, <5>1, <1>2, GrantsAdd
      <4> QED  BY <1>2, <4>1
    <3> QED  BY <3>1
  <2>5. n - 1 \in 1..Horizon /\ ~ (n <= n - 1)
    BY <1>1, <2>2, <2>4
  <2>6. Good(n - 1)
    BY <2>1, <2>5
  <2>7. GrantedOf(g, n - 1) = GrantedOf(g, n - 2) + g[n - 2]
    <3>1. (n - 1) - 1 = n - 2
      BY <2>2
    <3> QED  BY <2>5, <3>1, GrantsAdd
  <2>8. h[n - 1] = g[n - 2]
    BY <1>1, <1>2, <2>2, <2>4
  <2>9. GrantedOf(h, n - 1) = GrantedOf(g, n - 2)
    <3>1. (n - 1) - 1 = n - 2
      BY <2>2
    <3> QED  BY <2>6, <3>1
  <2> QED  BY <2>1, <2>3, <2>7, <2>8, <2>9
<1> QED  BY <1>2, <1>3 DEF h

LEMMA NothingGranted ==
  ASSUME NEW g \in Histories, \A a \in 0..Horizon - 1 : g[a] = 0, NEW n \in 0..Horizon
  PROVE  GrantedOf(g, n) = 0
<1>1. Horizon \in Nat \ {0}
  BY LimiterParameters
<1> DEFINE B == {k \in 0..Horizon : GrantedOf(g, k) # 0}
<1>2. B = {}
  <2> SUFFICES ASSUME B # {} PROVE FALSE
    OBVIOUS
  <2>1. PICK k \in B : \A m \in B : k <= m
    <3>1. B \in SUBSET Nat
      OBVIOUS
    <3> HIDE DEF B
    <3> QED  BY <3>1, LeastNumber
  <2>2. k \in 1..Horizon
    <3>1. k # 0
      BY GrantsAdd
    <3> QED  BY <1>1, <3>1
  <2>3. k - 1 \in 0..Horizon /\ k - 1 \in 0..Horizon - 1 /\ ~ (k <= k - 1)
    BY <1>1, <2>2
  <2>4. GrantedOf(g, k - 1) = 0
    BY <2>1, <2>3
  <2> QED  BY <2>2, <2>3, <2>4, GrantsAdd
<1> QED  BY <1>2

\* The tokens there would be now, and what the time since the last refill will add.
Potential == Refilled.tokens + Refilled.since * Rate

\* The requests of an age below n that are still remembered.
Seen(n) == {i \in 1..Len(requests) : requests[i] \in 0..(n - 1)}

\* What was granted and what could be granted at once stay below the limit; the window
\* remembers every grant of its span, and no span has more of them than it may have.
BucketCovers == \A n \in 1..Horizon : Granted(n) + Potential <= Allowed(n)
WindowRemembers == \A n \in 0..Span + 1 : Granted(n) = Cardinality(Seen(n))
WindowsHold ==
  \A n \in 0..Horizon : \A m \in 0..n :
    n - m <= Span + 1 => Granted(n) - Granted(m) <= Capacity

LimiterIInv ==
  /\ LimiterTypeOK
  /\ algorithm # "sliding_window" => BucketCovers
  /\ algorithm = "sliding_window" => WindowRemembers /\ WindowsHold

LEMMA GrantedIs == \A n : Granted(n) = GrantedOf(grants, n)
BY DEF Granted, GrantedOf

LEMMA Products ==
  /\ \A a \in Nat : a * Rate \in Nat /\ (a + 1) * Rate = a * Rate + Rate /\ Rate * a = a * Rate
  /\ \A a, b \in Nat : a <= b => a * Rate <= b * Rate
  /\ 0 * Rate = 0
BY LimiterParameters

\* The limit grows by the rate with each tick.
LEMMA AllowedGrows ==
  ASSUME algorithm # "sliding_window", algorithm \in Algorithm
  PROVE  /\ \A n \in Nat \ {0} : Allowed(n) \in Nat /\ Allowed(n + 1) = Allowed(n) + Rate
         /\ \A n \in Nat \ {0} : Capacity <= Allowed(n)
         /\ algorithm = "token_bucket" => Allowed(1) = Capacity + (Period - 1) * Rate
         /\ algorithm = "leaky_bucket" => Allowed(1) = Capacity
<1>1. Capacity \in Nat /\ Rate \in Nat /\ Period \in Nat \ {0}
  BY LimiterParameters
<1>2. CASE algorithm = "token_bucket"
  <2>1. \A n : Allowed(n) = Capacity + Rate * (n + Period - 2)
    BY <1>2 DEF Allowed
  <2>2. ASSUME NEW n \in Nat \ {0}
        PROVE  Allowed(n) \in Nat /\ Allowed(n + 1) = Allowed(n) + Rate /\ Capacity <= Allowed(n)
    <3>1. PICK k \in Nat : k = n + Period - 2
      BY <1>1
    <3>2. Rate * k \in Nat /\ Rate * (k + 1) = Rate * k + Rate
      BY <1>1
    <3>3. n + 1 + Period - 2 = k + 1
      BY <1>1, <3>1
    <3>4. Allowed(n) = Capacity + Rate * k /\ Allowed(n + 1) = Capacity + Rate * (k + 1)
      BY <2>1, <3>1, <3>3
    <3> QED  BY <1>1, <3>2, <3>4
  <2>3. Allowed(1) = Capacity + (Period - 1) * Rate
    <3>1. 1 + Period - 2 = Period - 1 /\ Rate * (Period - 1) = (Period - 1) * Rate
      BY <1>1
    <3> QED  BY <2>1, <3>1
  <2> QED  BY <1>2, <2>2, <2>3
<1>3. CASE algorithm = "leaky_bucket"
  <2>1. \A n : Allowed(n) = Capacity + Rate * (n - 1)
    BY <1>3 DEF Allowed
  <2>2. ASSUME NEW n \in Nat \ {0}
        PROVE  Allowed(n) \in Nat /\ Allowed(n + 1) = Allowed(n) + Rate /\ Capacity <= Allowed(n)
    <3>1. PICK k \in Nat : k = n - 1
      OBVIOUS
    <3>2. Rate * k \in Nat /\ Rate * (k + 1) = Rate * k + Rate
      BY <1>1
    <3>3. n + 1 - 1 = k + 1
      BY <1>1, <3>1
    <3>4. Allowed(n) = Capacity + Rate * k /\ Allowed(n + 1) = Capacity + Rate * (k + 1)
      BY <2>1, <3>1, <3>3
    <3> QED  BY <1>1, <3>2, <3>4
  <2>3. Allowed(1) = Capacity
    <3>1. 1 - 1 = 0 /\ Rate * 0 = 0
      BY <1>1
    <3> QED  BY <1>1, <2>1, <3>1
  <2> QED  BY <1>3, <2>2, <2>3
<1> QED  BY <1>2, <1>3 DEF Algorithm

\* What a refill leaves.
LEMMA RefillLeaves ==
  ASSUME LimiterTypeOK
  PROVE  /\ Refilled.tokens \in 0..Capacity /\ Refilled.since \in 0..MaxIdle
         /\ algorithm = "leaky_bucket" \/ sinceRefill >= Period =>
              /\ Refilled.tokens = UpTo(Capacity, tokens + sinceRefill * Rate)
              /\ Refilled.since = 0 /\ Potential = Refilled.tokens
         /\ ~ (algorithm = "leaky_bucket" \/ sinceRefill >= Period) =>
              /\ Refilled.tokens = tokens /\ Refilled.since = sinceRefill
              /\ Potential = tokens + sinceRefill * Rate
         /\ sinceRefill * Rate \in Nat
<1>1. /\ Capacity \in Nat /\ Rate \in Nat /\ Period \in Nat /\ tokens \in 0..Capacity
      /\ sinceRefill \in 0..MaxIdle /\ MaxIdle \in Nat /\ tokens \in Nat /\ sinceRefill \in Nat
  BY LimiterParameters DEF LimiterTypeOK, MaxIdle
<1>2. sinceRefill * Rate \in Nat /\ 0 * Rate = 0
  BY <1>1, Products
<1> DEFINE gain == sinceRefill * Rate
<1>3. CASE algorithm = "leaky_bucket" \/ sinceRefill >= Period
  <2>1. Refilled = [tokens |-> UpTo(Capacity, tokens + gain), since |-> 0]
    BY <1>3 DEF Refilled
  <2> HIDE DEF gain
  <2>2. UpTo(Capacity, tokens + gain) \in 0..Capacity
    BY <1>1, <1>2 DEF UpTo, gain
  <2>3. Refilled.tokens = UpTo(Capacity, tokens + gain) /\ Refilled.since = 0
    BY <2>1
  <2>4. Potential = Refilled.tokens
    BY <1>1, <1>2, <2>2, <2>3 DEF Potential
  <2> QED  BY <1>1, <1>2, <1>3, <2>2, <2>3, <2>4 DEF gain
<1>4. CASE ~ (algorithm = "leaky_bucket" \/ sinceRefill >= Period)
  <2>1. Refilled = [tokens |-> tokens, since |-> sinceRefill]
    BY <1>4 DEF Refilled
  <2>2. Refilled.tokens = tokens /\ Refilled.since = sinceRefill
    BY <2>1
  <2> QED  BY <1>1, <1>2, <1>4, <2>2 DEF Potential
<1> QED  BY <1>3, <1>4

\* A call takes its cost from the tokens and leaves the rest as it is.
LEMMA CallTakes ==
  ASSUME LimiterTypeOK, NEW cost \in Nat, Refilled.tokens >= cost,
         tokens' = Refilled.tokens - cost, sinceRefill' = Refilled.since,
         algorithm # "sliding_window", UNCHANGED algorithm
  PROVE  /\ tokens' \in 0..Capacity /\ sinceRefill' \in 0..MaxIdle
         /\ Potential' = Potential - cost /\ Potential \in Nat
<1>1. /\ Capacity \in Nat /\ Rate \in Nat /\ Period \in Nat \ {0} /\ Refilled.tokens \in 0..Capacity
      /\ sinceRefill \in Nat /\ tokens \in Nat /\ sinceRefill * Rate \in Nat
      /\ Refilled.since \in 0..MaxIdle
  BY LimiterParameters, RefillLeaves DEF LimiterTypeOK, MaxIdle
<1>2. tokens' \in 0..Capacity /\ sinceRefill' \in 0..MaxIdle
  BY <1>1
<1>3. CASE algorithm = "leaky_bucket" \/ sinceRefill >= Period
  <2>1. Potential = Refilled.tokens /\ sinceRefill' = 0
    BY <1>3, RefillLeaves
  <2>2. sinceRefill' * Rate = 0
    BY <2>1, Products
  <2>3. UpTo(Capacity, tokens' + sinceRefill' * Rate) = tokens'
    BY <1>1, <1>2, <2>2 DEF UpTo
  <2>4. Refilled' = [tokens |-> tokens', since |-> 0]
    BY <2>1, <2>3 DEF Refilled
  <2>5. Refilled'.tokens = tokens' /\ Refilled'.since = 0
    BY <2>4
  <2>6. Potential' = tokens'
    BY <1>2, <1>1, <2>5, Products DEF Potential
  <2> QED  BY <1>1, <1>2, <2>1, <2>6
<1>4. CASE ~ (algorithm = "leaky_bucket" \/ sinceRefill >= Period)
  <2>1. /\ Refilled.tokens = tokens /\ Refilled.since = sinceRefill
        /\ Potential = tokens + sinceRefill * Rate
    BY <1>4, RefillLeaves
  <2>2. Refilled' = [tokens |-> tokens', since |-> sinceRefill']
    BY <1>4, <2>1 DEF Refilled
  <2>3. Refilled'.tokens = tokens' /\ Refilled'.since = sinceRefill'
    BY <2>2
  <2>4. Potential' = tokens' + sinceRefill * Rate
    BY <2>1, <2>3 DEF Potential
  <2> QED  BY <1>1, <1>2, <2>1, <2>4
<1> QED  BY <1>3, <1>4

\* A tick adds the rate at most, and never more than a full bucket and the time that
\* can go by before a refill.
LEMMA TickGains ==
  ASSUME LimiterTypeOK, algorithm # "sliding_window", TickLimiter
  PROVE  /\ tokens' \in 0..Capacity /\ sinceRefill' \in 0..MaxIdle
         /\ Potential \in Nat /\ Potential' \in Nat
         /\ Potential' <= Potential + Rate /\ Potential' <= Allowed(1)
<1>1. /\ Capacity \in Nat /\ Rate \in Nat /\ Period \in Nat \ {0} /\ tokens \in 0..Capacity
      /\ sinceRefill \in 0..MaxIdle /\ MaxIdle \in Nat /\ MaxIdle >= Period
      /\ algorithm \in Algorithm
  BY LimiterParameters DEF LimiterTypeOK, MaxIdle
<1>2. tokens' = tokens /\ algorithm' = algorithm /\ sinceRefill' = UpTo(MaxIdle, sinceRefill + 1)
  BY DEF TickLimiter
<1>3. /\ sinceRefill' \in 0..MaxIdle /\ sinceRefill' \in {sinceRefill, sinceRefill + 1}
      /\ (sinceRefill >= Period => sinceRefill' >= Period)
      /\ sinceRefill \in Nat /\ sinceRefill' \in Nat
  BY <1>1, <1>2 DEF UpTo
<1> DEFINE gain == sinceRefill * Rate
           more == sinceRefill' * Rate
<1>4. gain \in Nat /\ more \in Nat /\ more <= gain + Rate
  <2>1. CASE sinceRefill' = sinceRefill
    BY <1>1, <1>3, <2>1, Products
  <2>2. CASE sinceRefill' = sinceRefill + 1
    <3>1. more = (sinceRefill + 1) * Rate
      BY <2>2
    <3> HIDE DEF more
    <3>2. gain \in Nat /\ more = gain + Rate
      BY <1>3, <3>1, Products
    <3> QED  BY <1>1, <3>2
  <2> QED  BY <1>3, <2>1, <2>2
<1>5. \A k \in Nat : sinceRefill' <= k => more <= k * Rate
  BY <1>3, Products
<1>6. /\ algorithm' = "leaky_bucket" \/ sinceRefill' >= Period =>
             Potential' = UpTo(Capacity, tokens' + more)
      /\ ~ (algorithm' = "leaky_bucket" \/ sinceRefill' >= Period) =>
             Potential' = tokens' + more
  <2>1. CASE algorithm' = "leaky_bucket" \/ sinceRefill' >= Period
    <3>1. Refilled' = [tokens |-> UpTo(Capacity, tokens' + more), since |-> 0]
      BY <2>1 DEF Refilled
    <3> HIDE DEF more
    <3>2. Refilled'.tokens = UpTo(Capacity, tokens' + more) /\ Refilled'.since = 0
      BY <3>1
    <3>3. UpTo(Capacity, tokens' + more) \in Nat
      BY <1>1, <1>2, <1>4 DEF UpTo
    <3> QED  BY <2>1, <3>2, <3>3, Products DEF Potential
  <2>2. CASE ~ (algorithm' = "leaky_bucket" \/ sinceRefill' >= Period)
    <3>1. Refilled' = [tokens |-> tokens', since |-> sinceRefill']
      BY <2>2 DEF Refilled
    <3>2. Refilled'.tokens = tokens' /\ Refilled'.since = sinceRefill'
      BY <3>1
    <3> QED  BY <2>2, <3>2 DEF Potential
  <2> QED  BY <2>1, <2>2
<1>7. /\ algorithm = "leaky_bucket" \/ sinceRefill >= Period =>
             Potential = UpTo(Capacity, tokens + gain)
      /\ ~ (algorithm = "leaky_bucket" \/ sinceRefill >= Period) =>
             Potential = tokens + gain
  BY RefillLeaves
<1> HIDE DEF gain, more
<1>8. Potential \in Nat /\ Potential' \in Nat /\ Potential' <= Potential + Rate
  BY <1>1, <1>2, <1>3, <1>4, <1>6, <1>7 DEF UpTo
<1>9. Potential' <= Allowed(1)
  <2>1. CASE algorithm = "leaky_bucket"
    <3>1. Allowed(1) = Capacity
      BY <1>1, <2>1, AllowedGrows
    <3> QED  BY <1>1, <1>2, <1>4, <1>6, <2>1, <3>1 DEF UpTo
  <2>2. CASE algorithm = "token_bucket"
    <3> DEFINE slack == (Period - 1) * Rate
    <3>1. Allowed(1) = Capacity + slack
      BY <1>1, <2>2, AllowedGrows
    <3>2. slack \in Nat /\ Period - 1 \in Nat
      BY <1>1
    <3>3. ~ (sinceRefill' >= Period) => more <= slack
      <4>1. ~ (sinceRefill' >= Period) => sinceRefill' <= Period - 1
        BY <1>1, <1>3
      <4> HIDE DEF more
      <4> QED  BY <1>5, <3>2, <4>1
    <3> HIDE DEF slack
    <3> QED  BY <1>1, <1>2, <1>4, <1>6, <2>2, <3>1, <3>2, <3>3 DEF UpTo
  <2> QED  BY <1>1, <2>1, <2>2 DEF Algorithm
<1> QED  BY <1>1, <1>2, <1>3, <1>8, <1>9

LEMMA LimiterInitEstablishes == LimiterInit => LimiterIInv
<1> SUFFICES ASSUME LimiterInit PROVE LimiterIInv
  OBVIOUS
<1>1. /\ Capacity \in Nat \ {0} /\ Horizon \in Nat \ {0} /\ Period \in Nat \ {0}
      /\ Span \in Nat /\ Span + 1 <= Horizon /\ MaxIdle \in Nat
  BY LimiterParameters DEF MaxIdle
<1>2. grants \in Histories /\ \A a \in 0..Horizon - 1 : grants[a] = 0
  BY <1>1 DEF LimiterInit, Histories
<1>3. LimiterTypeOK
  <2>1. grants \in [0..Horizon - 1 -> Nat]
    BY <1>2 DEF Histories
  <2>2. requests \in Seq(0..Span + 1) /\ Len(requests) <= Capacity
    BY <1>1 DEF LimiterInit
  <2> QED  BY <1>1, <2>1, <2>2 DEF LimiterInit, LimiterTypeOK
<1>4. \A n \in 0..Horizon : Granted(n) = 0
  BY <1>2, GrantedIs, NothingGranted
<1>5. ASSUME algorithm # "sliding_window" PROVE BucketCovers
  <2>1. Potential <= Capacity /\ Potential \in Nat
    <3>1. sinceRefill = 0 /\ tokens = Capacity /\ sinceRefill * Rate = 0
      BY Products DEF LimiterInit
    <3> QED  BY <1>1, <1>3, <3>1, RefillLeaves DEF UpTo
  <2>2. \A n \in Nat \ {0} : Capacity <= Allowed(n) /\ Allowed(n) \in Nat
    BY <1>3, <1>5, AllowedGrows DEF LimiterTypeOK
  <2> QED  BY <1>1, <1>4, <2>1, <2>2 DEF BucketCovers
<1>6. WindowRemembers /\ WindowsHold
  <2>1. \A n : Seen(n) = {}
    BY DEF LimiterInit, Seen
  <2>2. Cardinality({}) = 0
    BY FS_EmptySet
  <2> QED  BY <1>1, <1>4, <2>1, <2>2 DEF WindowRemembers, WindowsHold
<1> QED  BY <1>3, <1>5, <1>6 DEF LimiterIInv

\* A call that takes tokens, or none.
LEMMA CallKeeps ==
  ASSUME LimiterIInv, NEW cost \in Nat, Refilled.tokens >= cost,
         tokens' = Refilled.tokens - cost, sinceRefill' = Refilled.since,
         algorithm # "sliding_window", UNCHANGED <<algorithm, requests>>,
         Note(cost) \/ (cost = 0 /\ UNCHANGED grants)
  PROVE  LimiterIInv'
<1>1. LimiterTypeOK /\ BucketCovers /\ Horizon \in Nat \ {0} /\ grants \in Histories
  BY LimiterParameters DEF LimiterIInv, LimiterTypeOK, Histories
<1>2. /\ tokens' \in 0..Capacity /\ sinceRefill' \in 0..MaxIdle
      /\ Potential' = Potential - cost /\ Potential \in Nat
  BY <1>1, CallTakes
<1>3. grants' \in Histories /\ \A n \in 1..Horizon : Granted(n)' = Granted(n) + cost
  <2>1. CASE Note(cost)
    <3>1. grants' \in Histories /\ grants'[0] = grants[0] + cost
          /\ \A a \in 0..Horizon - 1 : a # 0 => grants'[a] = grants[a]
      BY <1>1, <2>1 DEF Note, Histories
    <3>2. \A n \in 1..Horizon : GrantedOf(grants', n) = GrantedOf(grants, n) + cost
      BY <1>1, <3>1, NoteAdds
    <3> QED  BY <3>1, <3>2 DEF Granted, GrantedOf
  <2>2. CASE cost = 0 /\ UNCHANGED grants
    <3>1. \A n \in 1..Horizon : Granted(n) \in Nat /\ Granted(n)' = Granted(n)
      <4>1. \A n \in 1..Horizon : GrantedOf(grants, n) \in Nat
        BY <1>1, GrantsAdd
      <4> QED  BY <2>2, <4>1 DEF Granted, GrantedOf
    <3> QED  BY <1>1, <2>2, <3>1
  <2> QED  BY <2>1, <2>2
<1>4. LimiterTypeOK'
  BY <1>1, <1>2, <1>3 DEF LimiterTypeOK, Histories
<1>5. BucketCovers'
  <2>1. \A n \in 1..Horizon : Granted(n) \in Nat /\ Allowed(n) \in Nat /\ Allowed(n)' = Allowed(n)
    <3>1. \A n \in 1..Horizon : GrantedOf(grants, n) \in Nat
      BY <1>1, GrantsAdd
    <3>2. \A n \in 1..Horizon : n \in Nat \ {0}
      BY <1>1
    <3>3. \A n \in Nat \ {0} : Allowed(n) \in Nat
      BY <1>1, AllowedGrows DEF LimiterTypeOK
    <3> QED  BY <3>1, <3>2, <3>3, GrantedIs DEF Allowed
  <2>2. \A n \in 1..Horizon : Granted(n) + Potential <= Allowed(n)
    BY <1>1 DEF BucketCovers
  <2> HIDE DEF Granted, Allowed, Potential
  <2>3. \A n \in 1..Horizon : Granted(n)' + Potential' <= Allowed(n)'
    BY <1>2, <1>3, <2>1, <2>2
  <2> QED  BY <2>3 DEF BucketCovers
<1> QED  BY <1>4, <1>5 DEF LimiterIInv

\* Time.
LEMMA TickKeeps == LimiterIInv /\ TickLimiter => LimiterIInv'
<1> SUFFICES ASSUME LimiterIInv, TickLimiter PROVE LimiterIInv'
  OBVIOUS
<1>1. /\ LimiterTypeOK /\ Horizon \in Nat \ {0} /\ grants \in Histories
      /\ Span \in Nat \ {0} /\ Capacity \in Nat /\ Span + 1 <= Horizon /\ MaxIdle \in Nat
      /\ Len(requests) \in Nat /\ \A i \in 1..Len(requests) : requests[i] \in 0..Span + 1
  BY LimiterParameters DEF LimiterIInv, LimiterTypeOK, Histories, MaxIdle
<1>2. grants' = Aged(grants) /\ UNCHANGED <<algorithm, tokens>>
  BY DEF TickLimiter, Aged
<1>3. grants' \in Histories /\ \A n \in 1..Horizon : Granted(n)' = Granted(n - 1)
  <2>1. Aged(grants) \in Histories
        /\ \A n \in 1..Horizon : GrantedOf(Aged(grants), n) = GrantedOf(grants, n - 1)
    BY <1>1, AgedShifts
  <2> QED  BY <1>2, <2>1 DEF Granted, GrantedOf
<1>4. Granted(0)' = 0 /\ Granted(0) = 0 /\ \A n \in 0..Horizon : Granted(n) \in Nat
  <2>1. GrantedOf(grants', 0) = 0 /\ GrantedOf(grants, 0) = 0
    BY <1>1, <1>3, GrantsAdd
  <2>2. \A n \in 0..Horizon : GrantedOf(grants, n) \in Nat
    BY <1>1, GrantsAdd
  <2> QED  BY <2>1, <2>2 DEF Granted, GrantedOf
<1>5. /\ requests' \in Seq(0..Span + 1) /\ Len(requests') = Len(requests)
      /\ \A i \in 1..Len(requests) : requests'[i] = UpTo(Span + 1, requests[i] + 1)
  <2>1. requests' = [i \in 1..Len(requests) |-> UpTo(Span + 1, requests[i] + 1)]
    BY <1>1 DEF TickLimiter, LimiterTypeOK
  <2>2. \A i \in 1..Len(requests) : UpTo(Span + 1, requests[i] + 1) \in 0..Span + 1
    BY <1>1 DEF UpTo
  <2> QED  BY <1>1, <2>1, <2>2
<1>6. LimiterTypeOK'
  <2>1. sinceRefill' \in 0..MaxIdle
    <3>1. sinceRefill \in 0..MaxIdle /\ sinceRefill' = UpTo(MaxIdle, sinceRefill + 1)
      BY <1>1 DEF TickLimiter, LimiterTypeOK
    <3> QED  BY <1>1, <3>1 DEF UpTo
  <2> QED  BY <1>1, <1>2, <1>3, <1>5, <2>1 DEF LimiterTypeOK, Histories
<1>7. ASSUME algorithm # "sliding_window" PROVE BucketCovers'
  <2>1. /\ Potential \in Nat /\ Potential' \in Nat
        /\ Potential' <= Potential + Rate /\ Potential' <= Allowed(1)
    BY <1>1, <1>7, TickGains
  <2>2. /\ \A n \in Nat \ {0} : Allowed(n) \in Nat /\ Allowed(n + 1) = Allowed(n) + Rate
        /\ \A n : Allowed(n)' = Allowed(n)
    BY <1>1, <1>2, <1>7, AllowedGrows DEF LimiterTypeOK, Allowed
  <2>3. \A n \in 1..Horizon : Granted(n) + Potential <= Allowed(n)
    BY <1>7 DEF LimiterIInv, BucketCovers
  <2>4. Rate \in Nat
    BY LimiterParameters
  <2> HIDE DEF Granted, Allowed, Potential
  <2>5. ASSUME NEW n \in 1..Horizon PROVE Granted(n)' + Potential' <= Allowed(n)
    <3>1. CASE n = 1
      <4>1. Granted(n)' = 0
        <5>1. n - 1 = 0
          BY <3>1
        <5> QED  BY <1>3, <1>4, <5>1
      <4> QED  BY <2>1, <2>2, <3>1, <4>1
    <3>2. CASE n # 1
      <4>1. n - 1 \in 1..Horizon /\ n - 1 \in Nat \ {0} /\ n - 1 \in 0..Horizon /\ (n - 1) + 1 = n
        BY <1>1, <3>2
      <4>2. Granted(n)' = Granted(n - 1) /\ Allowed(n) = Allowed(n - 1) + Rate
            /\ Granted(n - 1) + Potential <= Allowed(n - 1)
            /\ Granted(n - 1) \in Nat /\ Allowed(n - 1) \in Nat
        BY <1>3, <1>4, <2>2, <2>3, <4>1
      <4> QED  BY <2>1, <2>4, <4>2
    <3> QED  BY <3>1, <3>2
  <2>6. \A n \in 1..Horizon : Granted(n)' + Potential' <= Allowed(n)'
    BY <2>2, <2>5
  <2> QED  BY <2>6 DEF BucketCovers
<1>8. ASSUME algorithm = "sliding_window" PROVE WindowRemembers' /\ WindowsHold'
  <2>1. WindowRemembers /\ WindowsHold
    BY <1>8 DEF LimiterIInv
  <2>2. ASSUME NEW n \in 0..Span + 1 PROVE Granted(n)' = Cardinality(Seen(n)')
    <3>1. CASE n = 0
      <4>1. Seen(n)' = {}
        BY <1>5, <3>1 DEF Seen
      <4> QED  BY <1>4, <3>1, <4>1, FS_EmptySet
    <3>2. CASE n # 0
      <4>1. n - 1 \in 0..Span + 1 /\ n \in 1..Horizon
        BY <1>1, <3>2
      <4>2. Seen(n)' = Seen(n - 1)
        <5>1. \A i \in 1..Len(requests) :
                UpTo(Span + 1, requests[i] + 1) \in 0..(n - 1)
                  <=> requests[i] \in 0..((n - 1) - 1)
          BY <1>1, <3>2 DEF UpTo
        <5> QED  BY <1>5, <5>1 DEF Seen
      <4> QED  BY <1>3, <2>1, <4>1, <4>2 DEF WindowRemembers
    <3> QED  BY <3>1, <3>2
  <2> HIDE DEF Granted
  <2>3. ASSUME NEW n \in 0..Horizon, NEW m \in 0..n, n - m <= Span + 1
        PROVE  Granted(n)' - Granted(m)' <= Capacity
    <3>1. CASE n = 0
      BY <1>1, <1>4, <3>1
    <3>2. CASE n # 0
      <4>1. n \in 1..Horizon /\ n - 1 \in 0..Horizon /\ Granted(n)' = Granted(n - 1)
        BY <1>1, <1>3, <3>2
      <4>2. PICK e \in 0..(n - 1) : (n - 1) - e <= Span + 1 /\ Granted(m)' = Granted(e)
        <5>1. CASE m = 0
          <6>1. 0 \in 0..(n - 1) /\ (n - 1) - 0 <= Span + 1
            BY <1>1, <2>3, <4>1, <5>1
          <6> QED  BY <1>4, <5>1, <6>1
        <5>2. CASE m # 0
          <6>1. m - 1 \in 0..(n - 1) /\ (n - 1) - (m - 1) <= Span + 1 /\ m \in 1..Horizon
            BY <1>1, <2>3, <4>1, <5>2
          <6> QED  BY <1>3, <6>1
        <5> QED  BY <5>1, <5>2
      <4> QED  BY <2>1, <4>1, <4>2 DEF WindowsHold
    <3> QED  BY <3>1, <3>2
  <2>4. WindowRemembers'
    BY <2>2 DEF WindowRemembers
  <2>5. WindowsHold'
    BY <2>3 DEF WindowsHold
  <2> QED  BY <2>4, <2>5
<1> QED  BY <1>2, <1>6, <1>7, <1>8 DEF LimiterIInv

\* What the window forgets is older than any span.
LEMMA PrunedKeepsSeen ==
  ASSUME LimiterTypeOK
  PROVE  /\ Pruned \in Seq(0..Span + 1) /\ Len(Pruned) <= Len(requests) /\ Len(Pruned) \in Nat
         /\ \A n \in 0..Span + 1 :
              Cardinality({i \in 1..Len(Pruned) : Pruned[i] \in 0..(n - 1)}) = Cardinality(Seen(n))
<1>1. requests \in Seq(0..Span + 1) /\ Span \in Nat
  BY LimiterParameters DEF LimiterTypeOK
<1> DEFINE ages == 0..Span + 1
           gone == {Span + 1}
<1>2. requests \in Seq(ages) /\ Pruned = Minus(requests, gone)
  BY <1>1 DEF Pruned
<1>3. \A n \in 0..Span + 1 : (0..(n - 1)) \cap gone = {}
  BY <1>1
<1> HIDE DEF ages, gone
<1>4. Pruned \in Seq(ages) /\ Len(Pruned) <= Len(requests)
  BY <1>2, MinusFacts
<1>5. ASSUME NEW n \in 0..Span + 1
      PROVE  Cardinality({i \in 1..Len(Pruned) : Pruned[i] \in 0..(n - 1)}) = Cardinality(Seen(n))
  <2> DEFINE young == 0..(n - 1)
  <2>1. young \cap gone = {}
    BY <1>3
  <2> HIDE DEF young
  <2>2. Cardinality(Places(Pruned, young)) = Cardinality(Places(requests, young))
    BY <1>2, <2>1, MinusFacts
  <2> QED  BY <2>2 DEF young, Seen, Places
<1> QED  BY <1>1, <1>4, <1>5 DEF ages

LEMMA WindowKeeps == LimiterIInv /\ (EnterWindow \/ RefuseWindow) => LimiterIInv'
<1> SUFFICES ASSUME LimiterIInv, EnterWindow \/ RefuseWindow PROVE LimiterIInv'
  OBVIOUS
<1>1. /\ LimiterTypeOK /\ Horizon \in Nat \ {0} /\ grants \in Histories
      /\ Span \in Nat \ {0} /\ Capacity \in Nat /\ Span + 1 <= Horizon
      /\ Len(requests) \in Nat /\ Len(requests) <= Capacity
  BY LimiterParameters DEF LimiterIInv, LimiterTypeOK, Histories
<1>2. algorithm = "sliding_window" /\ UNCHANGED <<algorithm, tokens, sinceRefill>>
  BY DEF EnterWindow, RefuseWindow
<1>3. WindowRemembers /\ WindowsHold
  BY <1>2 DEF LimiterIInv
<1>4. /\ Pruned \in Seq(0..Span + 1) /\ Len(Pruned) <= Len(requests) /\ Len(Pruned) \in Nat
      /\ \A n \in 0..Span + 1 :
           Cardinality({i \in 1..Len(Pruned) : Pruned[i] \in 0..(n - 1)}) = Cardinality(Seen(n))
  BY <1>1, PrunedKeepsSeen
<1>5. Granted(0) = 0 /\ \A n \in 0..Horizon : Granted(n) \in Nat
  <2>1. GrantedOf(grants, 0) = 0 /\ \A n \in 0..Horizon : GrantedOf(grants, n) \in Nat
    BY <1>1, GrantsAdd
  <2> QED  BY <2>1 DEF Granted, GrantedOf
<1>6. CASE RefuseWindow
  <2>1. requests' = Pruned /\ UNCHANGED grants
    BY <1>6 DEF RefuseWindow
  <2>2. \A n : Granted(n)' = Granted(n)
    BY <2>1 DEF Granted
  <2>3. LimiterTypeOK'
    BY <1>1, <1>2, <1>4, <2>1 DEF LimiterTypeOK
  <2>4. \A n \in 0..Span + 1 : Cardinality(Seen(n)') = Cardinality(Seen(n))
    BY <1>4, <2>1 DEF Seen
  <2> HIDE DEF Granted, Seen
  <2>5. WindowRemembers' /\ WindowsHold'
    BY <1>3, <2>2, <2>4 DEF WindowRemembers, WindowsHold
  <2> QED  BY <1>2, <2>3, <2>5 DEF LimiterIInv
<1>7. CASE EnterWindow
  <2>1. requests' = Append(Pruned, 0) /\ Note(1) /\ Len(Pruned) < Capacity
    BY <1>7 DEF EnterWindow
  <2>2. /\ requests' \in Seq(0..Span + 1) /\ Len(requests') = Len(Pruned) + 1
        /\ requests'[Len(Pruned) + 1] = 0
        /\ \A i \in 1..Len(Pruned) : requests'[i] = Pruned[i]
    BY <1>1, <1>4, <2>1
  <2>3. grants' \in Histories /\ grants'[0] = grants[0] + 1
        /\ \A a \in 0..Horizon - 1 : a # 0 => grants'[a] = grants[a]
    BY <1>1, <2>1 DEF Note, Histories
  <2>4. Granted(0)' = 0 /\ \A n \in 1..Horizon : Granted(n)' = Granted(n) + 1
    <3>1. GrantedOf(grants', 0) = 0
      BY <2>3, GrantsAdd
    <3>2. PICK c \in Nat : c = 1
      OBVIOUS
    <3>3. grants'[0] = grants[0] + c
      BY <2>3, <3>2
    <3>4. \A n \in 1..Horizon : GrantedOf(grants', n) = GrantedOf(grants, n) + c
      BY <1>1, <2>3, <3>3, NoteAdds
    <3> QED  BY <3>1, <3>2, <3>4 DEF Granted, GrantedOf
  <2>5. LimiterTypeOK'
    BY <1>1, <1>2, <1>4, <2>1, <2>2, <2>3 DEF LimiterTypeOK, Histories
  <2>6. ASSUME NEW n \in 0..Span + 1
        PROVE  Granted(n)' = Cardinality(Seen(n)') /\ Cardinality(Seen(n)') <= Capacity
    <3>1. CASE n = 0
      <4>1. Seen(n)' = {}
        BY <2>2, <3>1 DEF Seen
      <4> QED  BY <1>1, <2>4, <3>1, <4>1, FS_EmptySet
    <3>2. CASE n # 0
      <4> DEFINE before == {i \in 1..Len(Pruned) : Pruned[i] \in 0..(n - 1)}
                 place == Len(Pruned) + 1
      <4>1. Seen(n)' = before \cup {place} /\ place \notin before
            /\ before \subseteq 1..Len(Pruned)
        <5>1. 1..Len(requests') = 1..Len(Pruned) \cup {place} /\ place \notin 1..Len(Pruned)
          BY <1>4, <2>2
        <5>2. 0 \in 0..(n - 1)
          BY <3>2
        <5> QED  BY <2>2, <5>1, <5>2 DEF Seen
      <4>2. Cardinality(before) = Granted(n) /\ n \in 1..Horizon
        <5>1. Cardinality(before) = Cardinality(Seen(n))
          BY <1>4
        <5>2. Cardinality(Seen(n)) = Granted(n)
          BY <1>3 DEF WindowRemembers
        <5> QED  BY <1>1, <3>2, <5>1, <5>2
      <4>3. IsFiniteSet(1..Len(Pruned)) /\ Cardinality(1..Len(Pruned)) = Len(Pruned)
        BY <1>4, FirstNumbers
      <4> HIDE DEF before, place, Granted
      <4>4. IsFiniteSet(before) /\ Cardinality(before) <= Len(Pruned)
        BY <4>1, <4>3, FS_Subset
      <4>5. Cardinality(Seen(n)') = Cardinality(before) + 1
        BY <4>1, <4>4, FS_AddElement
      <4>6. Cardinality(before) \in Nat
        BY <4>4, FS_CardinalityType
      <4> QED  BY <1>1, <1>4, <2>1, <2>4, <4>2, <4>4, <4>5, <4>6
    <3> QED  BY <3>1, <3>2
  <2> HIDE DEF Granted, Seen
  <2>7. ASSUME NEW n \in 0..Horizon, NEW m \in 0..n, n - m <= Span + 1
        PROVE  Granted(n)' - Granted(m)' <= Capacity
    <3>1. CASE m = 0
      <4>1. n \in 0..Span + 1
        BY <1>1, <2>7, <3>1
      <4>2. Granted(n)' <= Capacity /\ Granted(n)' \in Nat
        <5>1. Granted(n)' \in Nat
          <6>1. CASE n = 0
            BY <2>4, <6>1
          <6>2. CASE n # 0
            <7>1. n \in 1..Horizon
              BY <6>2
            <7> QED  BY <1>5, <2>4, <7>1
          <6> QED  BY <6>1, <6>2
        <5> QED  BY <2>6, <4>1, <5>1
      <4> QED  BY <1>1, <2>4, <3>1, <4>2
    <3>2. CASE m # 0
      <4>1. n \in 1..Horizon /\ m \in 1..Horizon /\ n \in 0..Horizon /\ m \in 0..Horizon
        BY <1>1, <3>2
      <4>2. Granted(n)' = Granted(n) + 1 /\ Granted(m)' = Granted(m) + 1
            /\ Granted(n) \in Nat /\ Granted(m) \in Nat
        BY <1>5, <2>4, <4>1
      <4>3. Granted(n) - Granted(m) <= Capacity
        BY <1>3, <2>7 DEF WindowsHold
      <4> QED  BY <1>1, <4>2, <4>3
    <3> QED  BY <3>1, <3>2
  <2>8. WindowRemembers' /\ WindowsHold'
    BY <2>6, <2>7 DEF WindowRemembers, WindowsHold
  <2> QED  BY <1>2, <2>5, <2>8 DEF LimiterIInv
<1> QED  BY <1>6, <1>7

LEMMA LimiterStep == LimiterIInv /\ [LimiterNext]_limiterVars => LimiterIInv'
<1> SUFFICES ASSUME LimiterIInv, [LimiterNext]_limiterVars PROVE LimiterIInv'
  OBVIOUS
<1>1. CASE EnterWindow \/ RefuseWindow
  BY <1>1, WindowKeeps
<1>2. ASSUME NEW cost \in Cost, TakeTokens(cost) PROVE LimiterIInv'
  <2>1. cost \in Nat
    BY LimiterParameters
  <2> QED  BY <1>2, <2>1, CallKeeps DEF TakeTokens
<1>3. ASSUME NEW cost \in Cost, RefuseTokens(cost) PROVE LimiterIInv'
  <2>1. PICK none \in Nat : none = 0
    OBVIOUS
  <2>2. Refilled.tokens \in Nat
    BY LimiterParameters, RefillLeaves DEF LimiterIInv
  <2>3. Refilled.tokens >= none /\ tokens' = Refilled.tokens - none
    BY <1>3, <2>1, <2>2 DEF RefuseTokens
  <2> QED  BY <1>3, <2>1, <2>3, CallKeeps DEF RefuseTokens
<1>4. CASE TickLimiter
  BY <1>4, TickKeeps
<1>5. CASE UNCHANGED limiterVars
  BY <1>5 DEF limiterVars, LimiterIInv, LimiterTypeOK, BucketCovers, WindowRemembers,
              WindowsHold, Granted, Potential, Refilled, Allowed, Seen
<1> QED  BY <1>1, <1>2, <1>3, <1>4, <1>5 DEF LimiterNext, Grant

\* Windows of a span after one another hold their capacity each.
LEMMA WindowsAddUp ==
  ASSUME LimiterIInv, algorithm = "sliding_window", NEW n \in 1..Horizon
  PROVE  Granted(n) <= Allowed(n)
<1>1. /\ Horizon \in Nat \ {0} /\ Span \in Nat \ {0} /\ Capacity \in Nat /\ WindowsHold
      /\ grants \in Histories
  BY LimiterParameters DEF LimiterIInv, LimiterTypeOK, Histories
<1>2. Granted(0) = 0 /\ \A k \in 0..Horizon : Granted(k) \in Nat
  <2>1. GrantedOf(grants, 0) = 0 /\ \A k \in 0..Horizon : GrantedOf(grants, k) \in Nat
    BY <1>1, GrantsAdd
  <2> QED  BY <2>1 DEF Granted, GrantedOf
<1> DEFINE width == Span + 1
<1>3. width \in Nat \ {0}
  BY <1>1
<1>4. ASSUME NEW k \in 0..Horizon, NEW j \in 0..k, k - j <= width
      PROVE  Granted(k) - Granted(j) <= Capacity
  BY <1>1, <1>4 DEF WindowsHold
<1> HIDE DEF width, Granted
<1> DEFINE Good(q) == \A k \in 0..Horizon : k <= q * width => Granted(k) <= q * Capacity
           B == {q \in Nat : ~ Good(q)}
<1>5. B = {}
  <2> SUFFICES ASSUME B # {} PROVE FALSE
    OBVIOUS
  <2>1. PICK q \in B : \A p \in B : q <= p
    <3>1. B \in SUBSET Nat
      OBVIOUS
    <3> HIDE DEF B
    <3> QED  BY <3>1, LeastNumber
  <2>2. q \in Nat /\ ~ Good(q)
    OBVIOUS
  <2>3. PICK k \in 0..Horizon : k <= q * width /\ ~ (Granted(k) <= q * Capacity)
    BY <2>2
  <2>4. CASE q = 0
    <3>1. 0 * width = 0 /\ 0 * Capacity = 0
      BY <1>1, <1>3
    <3>2. k = 0
      BY <2>3, <2>4, <3>1
    <3> QED  BY <1>2, <2>3, <2>4, <3>1, <3>2
  <2>5. CASE q # 0
    <3>1. PICK p \in Nat : q = p + 1
      <4>1. q - 1 \in Nat /\ q = (q - 1) + 1
        BY <2>2, <2>5
      <4> QED  BY <4>1
    <3>2. p \notin B
      BY <2>1, <3>1
    <3> DEFINE whole == p * width
               held == p * Capacity
    <3>3. \A e \in 0..Horizon : e <= whole => Granted(e) <= held
      BY <3>2
    <3>4. /\ whole \in Nat /\ held \in Nat
          /\ q * width = whole + width /\ q * Capacity = held + Capacity
      <4>1. \A a \in Nat : p * a \in Nat /\ (p + 1) * a = p * a + a
        OBVIOUS
      <4> QED  BY <1>1, <1>3, <3>1, <4>1
    <3> HIDE DEF whole, held
    <3>5. k <= whole + width /\ ~ (Granted(k) <= held + Capacity)
      BY <2>3, <3>4
    <3>6. PICK j \in 0..k : k - j <= width /\ j <= whole
      <4>1. CASE k <= width
        <5>1. 0 \in 0..k /\ k - 0 <= width /\ 0 <= whole
          BY <3>4, <4>1
        <5> QED  BY <5>1
      <4>2. CASE ~ (k <= width)
        <5>1. k - width \in 0..k /\ k - (k - width) <= width /\ k - width <= whole
          BY <1>3, <3>4, <3>5, <4>2
        <5> QED  BY <5>1
      <4> QED  BY <4>1, <4>2
    <3>7. Granted(j) <= held /\ j \in 0..Horizon
      <4>1. j \in 0..Horizon
        BY <1>1, <3>6
      <4> QED  BY <3>3, <3>6, <4>1
    <3>8. Granted(k) - Granted(j) <= Capacity
      BY <1>4, <3>6
    <3>9. Granted(j) \in Nat /\ Granted(k) \in Nat
      BY <1>2, <3>7
    <3> QED  BY <1>1, <3>4, <3>5, <3>7, <3>8, <3>9
  <2> QED  BY <2>4, <2>5
<1> DEFINE total == n + Span
           begun == total \div width
<1>6. total \in Nat /\ n \in Nat
  BY <1>1
<1>7. begun \in Nat /\ n <= begun * width
  <2> HIDE DEF total
  <2>1. begun \in Nat /\ total < width * begun + width
    BY <1>3, <1>6
  <2>2. width * begun \in Nat /\ begun * width = width * begun
    BY <1>3, <2>1
  <2> HIDE DEF begun
  <2>3. n + Span < width * begun + width /\ width = Span + 1
    BY <2>1 DEF total, width
  <2> QED  BY <1>1, <1>6, <2>1, <2>2, <2>3
<1>8. Allowed(n) = Capacity * begun
  BY DEF Allowed, width
<1> HIDE DEF begun
<1>9. Granted(n) <= begun * Capacity
  <2>1. begun \notin B /\ n \in 0..Horizon
    BY <1>1, <1>5
  <2> QED  BY <1>7, <2>1
<1>10. begun * Capacity = Capacity * begun
  BY <1>1, <1>7
<1> QED  BY <1>8, <1>9, <1>10

LEMMA RateFollows == LimiterIInv => RateHolds
<1> SUFFICES ASSUME LimiterIInv, NEW n \in 1..Horizon PROVE Granted(n) <= Allowed(n)
  BY DEF RateHolds
<1>1. CASE algorithm = "sliding_window"
  BY <1>1, WindowsAddUp
<1>2. CASE algorithm # "sliding_window"
  <2>1. /\ LimiterTypeOK /\ Horizon \in Nat \ {0} /\ grants \in Histories
        /\ Granted(n) + Potential <= Allowed(n)
    BY <1>2, LimiterParameters DEF LimiterIInv, LimiterTypeOK, Histories, BucketCovers
  <2>2. Potential \in Nat
    <3>1. /\ Capacity \in Nat /\ Rate \in Nat /\ tokens \in Nat /\ sinceRefill \in Nat
          /\ sinceRefill * Rate \in Nat /\ Refilled.tokens \in Nat
      BY <2>1, LimiterParameters, RefillLeaves DEF LimiterTypeOK, MaxIdle
    <3> QED  BY <2>1, <3>1, RefillLeaves
  <2>3. Granted(n) \in Nat
    <3>1. GrantedOf(grants, n) \in Nat
      BY <2>1, GrantsAdd
    <3> QED  BY <3>1 DEF Granted, GrantedOf
  <2>4. Allowed(n) \in Nat
    <3>1. n \in Nat \ {0}
      BY <2>1
    <3> QED  BY <1>2, <2>1, <3>1, AllowedGrows DEF LimiterTypeOK
  <2> HIDE DEF Granted, Potential, Allowed
  <2> QED  BY <2>1, <2>2, <2>3, <2>4
<1> QED  BY <1>1, <1>2

\* No stretch of time sees more granted than the limit allows, whichever algorithm the
\* bucket has and however calls, refusals and idle times fall.
THEOREM RateIsHeld == LimiterSpec => []RateHolds
<1>1. LimiterInit => LimiterIInv
  BY LimiterInitEstablishes
<1>2. LimiterIInv /\ [LimiterNext]_limiterVars => LimiterIInv'
  BY LimiterStep
<1>3. LimiterIInv => RateHolds
  BY RateFollows
<1> QED  BY <1>1, <1>2, <1>3, PTL DEF LimiterSpec
-----------------------------------------------------------------------------
(* Types of all the parts, and so of MCProduction, for every value of its constants. *)

LEMMA FiniteOutcomes == IsFiniteSet(Outcomes)
<1> DEFINE kinds == {"success", "failure"}
           ages == 0..Window - 1
           P == kinds \X ages
           f == [p \in P |-> [kind |-> p[1], age |-> p[2]]]
<1>1. IsFiniteSet(P)
  <2>1. Window \in Nat /\ Window - 1 \in Int
    BY BreakerAssumption DEF BreakerAssumption
  <2>2. IsFiniteSet(ages)
    BY <2>1, FS_Interval
  <2>3. IsFiniteSet({"success"}) /\ IsFiniteSet({"success"} \cup {"failure"})
    BY FS_Singleton, FS_AddElement
  <2>4. kinds = {"success"} \cup {"failure"}
    OBVIOUS
  <2> HIDE DEF kinds, ages
  <2> QED  BY <2>2, <2>3, <2>4, FS_Product
<1>2. f \in [P -> Outcomes]
  BY DEF Outcomes
<1>3. ASSUME NEW o \in Outcomes PROVE \E p \in P : f[p] = o
  <2>1. <<o.kind, o.age>> \in P
    BY DEF Outcomes
  <2>2. f[<<o.kind, o.age>>] = o
    BY <2>1 DEF Outcomes
  <2> QED  BY <2>1, <2>2
<1>4. f \in Surjection(P, Outcomes)
  <2> HIDE DEF P, f
  <2> QED  BY <1>2, <1>3 DEF Surjection
<1> HIDE DEF P, f
<1> QED  BY <1>1, <1>4, FS_Surjection

\* No outcome has been noted more often than all of them together.
LEMMA VolumeCovers ==
  ASSUME NEW r \in [Outcomes -> Nat]
  PROVE  \A o \in Outcomes : r[o] <= Volume(r)
<1>1. Volume(r) = SumFunctionOnSet(r, Outcomes)
  <2>1. {o \in Outcomes : o.kind \in {"success", "failure"}} = Outcomes
    BY DEF Outcomes
  <2> QED  BY <2>1 DEF Volume, Count
<1>2. ASSUME NEW o \in Outcomes PROVE r[o] <= SumFunctionOnSet(r, Outcomes)
  <2> DEFINE rest == Outcomes \ {o}
  <2>1. IsFiniteSet(Outcomes) /\ IsFiniteSet(rest)
    BY FiniteOutcomes, FS_RemoveElement
  <2>2. \A x \in Outcomes : r[x] \in Nat /\ r[x] \in Int
    OBVIOUS
  <2>3. SumFunctionOnSet(r, Outcomes) = r[o] + SumFunctionOnSet(r, Outcomes \ {o})
    BY <2>1, <2>2, SumTakeOut
  <2>4. SumFunctionOnSet(r, rest) \in Nat
    <3>1. \A x \in rest : r[x] \in Nat
      BY <2>2
    <3> HIDE DEF rest
    <3> QED  BY <2>1, <3>1, SumIsNat
  <2> QED  BY <2>2, <2>3, <2>4
<1> QED  BY <1>1, <1>2

LEMMA BreakerTypes == BreakerTypeOK /\ [BreakerNext]_breakerVars => BreakerTypeOK'
<1> SUFFICES ASSUME BreakerTypeOK, [BreakerNext]_breakerVars PROVE BreakerTypeOK'
  OBVIOUS
<1>1. /\ FailureThreshold \in Nat \ {0} /\ MaxFailures \in Nat \ {0} /\ MaxRecent \in Nat \ {0}
      /\ MaxDepth \in Nat \ {0} /\ MaxAge \in Nat \ {0} /\ MaxProbes \in Nat \ {0}
      /\ Window \in Nat \ {0}
  BY BreakerAssumption DEF BreakerAssumption
<1>2. /\ bstate \in BreakerState /\ failures \in 0..MaxFailures /\ sinceFailure \in 0..MaxAge
      /\ recent \in [Outcomes -> 0..MaxRecent] /\ probes \in 0..MaxProbes /\ depth \in 0..MaxDepth
      /\ verdictLost \in BOOLEAN /\ reenabled \in BOOLEAN
  BY DEF BreakerTypeOK
<1>3. Forget => failures' \in 0..MaxFailures /\ sinceFailure' \in 0..MaxAge
  <2> SUFFICES ASSUME Forget PROVE failures' \in 0..MaxFailures /\ sinceFailure' \in 0..MaxAge
    OBVIOUS
  <2>1. Numbers
    BY <1>1, <1>2 DEF Numbers
  <2>2. failures' \in Nat /\ failures' <= failures /\ sinceFailure' \in Nat
    BY <2>1, ForgetLeavesFewer
  <2>3. sinceFailure' \in {0, sinceFailure}
    BY DEF Forget, Decayed
  <2> QED  BY <1>1, <1>2, <2>2, <2>3
<1>4. CASE CallBreaker
  <2>1. Forget /\ recent' = recent
    BY <1>4 DEF CallBreaker, CallClosed, CallOpen, CallHalfOpen, Reject, CallDisabled, Admit
  <2>2. bstate' \in BreakerState /\ depth' \in 0..MaxDepth /\ probes' \in 0..MaxProbes
    BY <1>1, <1>2, <1>4
    DEF CallBreaker, CallClosed, CallOpen, CallHalfOpen, Reject, CallDisabled, Admit, BreakerState
  <2>3. verdictLost' \in BOOLEAN /\ reenabled' \in BOOLEAN
    BY <1>2, <1>4, Zenon
    DEF CallBreaker, CallClosed, CallOpen, CallHalfOpen, Reject, CallDisabled
  <2> QED  BY <1>2, <1>3, <2>1, <2>2, <2>3 DEF BreakerTypeOK
<1>5. ASSUME NEW kind \in {"success", "failure"}, Volume(recent) < MaxRecent, recent' = Noted(kind)
      PROVE  recent' \in [Outcomes -> 0..MaxRecent]
  <2> DEFINE o == [kind |-> kind, age |-> 0]
  <2>1. o \in Outcomes
    BY <1>1 DEF Outcomes
  <2>2. recent' = [recent EXCEPT ![o] = @ + 1]
    BY <1>5 DEF Noted
  <2> HIDE DEF o
  <2>3. recent \in [Outcomes -> Nat]
    BY <1>1, <1>2
  <2>4. recent[o] <= Volume(recent)
    BY <2>1, <2>3, VolumeCovers
  <2>5. Volume(recent) \in Int
    <3>1. \A x \in Outcomes : recent[x] \in Int
      BY <1>1, <1>2
    <3>2. SumFunctionOnSet(recent, {x \in Outcomes : x.kind \in {"success", "failure"}}) \in Int
      <4> DEFINE S == {x \in Outcomes : x.kind \in {"success", "failure"}}
      <4>1. S \subseteq Outcomes /\ IsFiniteSet(S)
        <5>1. S \subseteq Outcomes
          OBVIOUS
        <5> HIDE DEF S
        <5> QED  BY <5>1, FiniteOutcomes, FS_Subset
      <4> HIDE DEF S
      <4>2. SumFunctionOnSet(recent, S) \in Int
        BY <3>1, <4>1, SumIsInt
      <4> QED  BY <4>2 DEF S
    <3> QED  BY <3>2 DEF Volume, Count
  <2>6. recent[o] + 1 \in 0..MaxRecent
    BY <1>1, <1>2, <1>5, <2>1, <2>4, <2>5
  <2> QED  BY <1>2, <2>2, <2>6
<1>6. CASE FnReturns
  <2>1. recent' \in [Outcomes -> 0..MaxRecent]
    BY <1>5, <1>6 DEF FnReturns
  <2>2. reenabled' \in BOOLEAN /\ verdictLost' \in BOOLEAN
    BY <1>2, <1>6, Zenon DEF FnReturns
  <2>3. bstate' \in BreakerState /\ depth' \in 0..MaxDepth /\ probes' = probes
        /\ failures' = 0 /\ sinceFailure' = sinceFailure
    BY <1>1, <1>2, <1>6 DEF FnReturns, BreakerState
  <2> QED  BY <1>1, <1>2, <2>1, <2>2, <2>3 DEF BreakerTypeOK
<1>7. CASE FnRaises
  <2>1. recent' \in [Outcomes -> 0..MaxRecent]
    BY <1>5, <1>7 DEF FnRaises
  <2>2. reenabled' \in BOOLEAN /\ verdictLost' \in BOOLEAN
    BY <1>2, <1>7, Zenon DEF FnRaises
  <2>3. bstate' \in BreakerState /\ depth' \in 0..MaxDepth /\ probes' = probes
        /\ failures' = failures + 1 /\ failures < MaxFailures /\ sinceFailure' = 0
    BY <1>1, <1>2, <1>7 DEF FnRaises, BreakerState
  <2> QED  BY <1>1, <1>2, <2>1, <2>2, <2>3 DEF BreakerTypeOK
<1>8. CASE FnInterrupted
  <2>1. verdictLost' \in BOOLEAN
    BY <1>2, <1>8, Zenon DEF FnInterrupted
  <2> QED  BY <1>1, <1>2, <1>8, <2>1 DEF FnInterrupted, BreakerTypeOK
<1>9. CASE Disable \/ Enable \/ ResetBreaker
  <2>1. reenabled' \in BOOLEAN
    BY <1>2, <1>9, Zenon DEF Disable, Enable, ResetBreaker
  <2>2. recent' \in [Outcomes -> 0..MaxRecent]
    BY <1>1, <1>2, <1>9 DEF Disable, Enable, ResetBreaker
  <2> QED
    BY <1>1, <1>2, <1>9, <2>1, <2>2 DEF Disable, Enable, ResetBreaker, BreakerTypeOK, BreakerState
<1>10. CASE TickBreaker
  <2>1. sinceFailure' \in 0..MaxAge
    BY <1>1, <1>2, <1>10 DEF TickBreaker, Least
  <2>2. \A o \in Outcomes : o.age # 0 => [o EXCEPT !.age = @ - 1] \in Outcomes
    BY <1>1 DEF Outcomes
  <2>3. recent' \in [Outcomes -> 0..MaxRecent]
    <3>1. ASSUME NEW o \in Outcomes
          PROVE  (IF o.age = 0 THEN 0 ELSE recent[[o EXCEPT !.age = @ - 1]]) \in 0..MaxRecent
      <4> DEFINE younger == [o EXCEPT !.age = @ - 1]
      <4>1. o.age # 0 => younger \in Outcomes
        BY <2>2
      <4> HIDE DEF younger
      <4>2. o.age # 0 => recent[younger] \in 0..MaxRecent
        BY <1>2, <4>1
      <4>3. 0 \in 0..MaxRecent
        BY <1>1
      <4>4. (IF o.age = 0 THEN 0 ELSE recent[younger]) \in 0..MaxRecent
        BY <4>2, <4>3
      <4> QED  BY <4>4 DEF younger
    <3> QED  BY <1>10, <3>1 DEF TickBreaker
  <2> QED  BY <1>2, <1>10, <2>1, <2>3 DEF TickBreaker, BreakerTypeOK
<1>11. CASE UNCHANGED breakerVars
  BY <1>2, <1>11 DEF breakerVars, BreakerTypeOK
<1> QED  BY <1>4, <1>6, <1>7, <1>8, <1>9, <1>10, <1>11 DEF BreakerNext, FnEnds

LEMMA BreakerStartsTyped == BreakerInit => BreakerTypeOK
<1> SUFFICES ASSUME BreakerInit PROVE BreakerTypeOK
  OBVIOUS
<1>1. /\ MaxFailures \in Nat /\ MaxRecent \in Nat /\ MaxDepth \in Nat /\ MaxAge \in Nat
      /\ MaxProbes \in Nat
  BY BreakerAssumption DEF BreakerAssumption
<1>2. verdictLost \in BOOLEAN /\ reenabled \in BOOLEAN
  BY Zenon DEF BreakerInit
<1> QED  BY <1>1, <1>2 DEF BreakerInit, BreakerTypeOK, BreakerState

\* What DegradationTypeOK says beyond DegradationTypes.
DegradationMore ==
  /\ policy \in Level /\ stopping \in [Watcher -> BOOLEAN]
  /\ spawns \in 0..MaxThreadStarts /\ byHand \in 0..MaxByHand
  /\ todo["monitor"] <= 1 /\ pressure["monitor"] <= 1

LEMMA DegradationTyped == DegradationTypes /\ DegradationMore => DegradationTypeOK
<1> SUFFICES ASSUME DegradationTypes, DegradationMore PROVE DegradationTypeOK
  OBVIOUS
<1>1. \A w \in Watcher : todo[w] \in Reasons(w) /\ pressure[w] \in Reasons(w)
  BY DEF DegradationTypes, DegradationMore, Reasons, Watcher
<1>2. setting \subseteq Watcher
  BY DEF DegradationTypes
<1> QED  BY <1>1, <1>2 DEF DegradationTypes, DegradationMore, DegradationTypeOK

LEMMA DegradationTypesKept ==
  ASSUME DegradationIInv, DegradationMore, [DegradationNext]_degradationVars
  PROVE  DegradationMore'
<1>1. /\ MaxByHand \in Nat /\ MaxThreadStarts \in Nat /\ DegradationTypes
      /\ policy \in Level /\ stopping \in [Watcher -> BOOLEAN]
      /\ spawns \in 0..MaxThreadStarts /\ byHand \in 0..MaxByHand
      /\ todo["monitor"] <= 1 /\ pressure["monitor"] <= 1
  BY DegradationAssumption DEF DegradationAssumption, DegradationIInv, DegradationMore
<1>2. /\ todo \in [Watcher -> 0..2] /\ pressure \in [Watcher -> 0..2]
      /\ target \in [Watcher -> Level] /\ "monitor" \in Watcher
      /\ setting \subseteq {w \in Watcher : phase[w] = "setting"}
      /\ \A w \in Watcher : phase[w] = "deciding" => todo[w] > 0
  BY <1>1 DEF DegradationTypes, Watcher
<1>3. ASSUME NEW w \in Watcher, StartWatcher(w) \/ StopWatcher(w) PROVE DegradationMore'
  <2>1. stopping' \in [Watcher -> BOOLEAN]
    BY <1>1, <1>3 DEF StartWatcher, StopWatcher
  <2> QED  BY <1>1, <1>3, <2>1 DEF StartWatcher, StopWatcher, DegradationMore, counted
<1>4. ASSUME NEW w \in Watcher, PressureChanges(w) PROVE DegradationMore'
  <2>1. PICK n \in Reasons(w) : pressure' = [pressure EXCEPT ![w] = n]
    BY <1>4 DEF PressureChanges
  <2>2. pressure'["monitor"] <= 1
    BY <1>1, <1>2, <2>1 DEF Reasons
  <2> QED  BY <1>1, <1>4, <2>2 DEF PressureChanges, DegradationMore, counted
<1>5. ASSUME NEW w \in Watcher, Measure(w) PROVE DegradationMore'
  <2>1. todo' = [todo EXCEPT ![w] = pressure[w]]
    BY <1>5 DEF Measure
  <2>2. todo'["monitor"] <= 1
    BY <1>1, <1>2, <2>1
  <2> QED  BY <1>1, <1>5, <2>2 DEF Measure, DegradationMore, counted
<1>6. ASSUME NEW w \in Watcher, OneLess(w) PROVE todo'["monitor"] <= 1
  <2>1. todo' = [todo EXCEPT ![w] = todo[w] - 1]
    BY <1>6 DEF OneLess
  <2>2. todo'["monitor"] \in {todo["monitor"], todo["monitor"] - 1} /\ todo["monitor"] \in 0..2
    BY <1>2, <2>1
  <2> QED  BY <1>1, <2>2
<1>7. ASSUME NEW w \in Watcher, Loop(w) \/ ReadCalm(w) \/ EnterSet(w) PROVE DegradationMore'
  BY <1>1, <1>7 DEF Loop, ReadCalm, EnterSet, DegradationMore, counted
<1>8. ASSUME NEW w \in Watcher, LeaveSet(w) PROVE DegradationMore'
  <2>1. todo'["monitor"] <= 1
    BY <1>1, <1>6, <1>8 DEF LeaveSet
  <2>2. policy' \in Level
    BY <1>2, <1>8 DEF LeaveSet
  <2> QED  BY <1>1, <1>8, <2>1, <2>2 DEF LeaveSet, DegradationMore, counted
<1>9. CASE MonitorAsks
  <2>1. todo'["monitor"] <= 1
    BY <1>1, <1>2, <1>6, <1>9 DEF MonitorAsks
  <2> QED  BY <1>1, <1>9, <2>1 DEF MonitorAsks, DegradationMore, counted
<1>10. CASE HealerDecides
  <2>1. todo'["monitor"] <= 1
    BY <1>1, <1>6, <1>10 DEF HealerDecides, Watcher
  <2> QED  BY <1>1, <1>10, <2>1 DEF HealerDecides, DegradationMore, counted
<1>11. ASSUME NEW l \in Level, SetByHand(l) PROVE DegradationMore'
  BY <1>1, <1>11 DEF SetByHand, DegradationMore
<1>12. CASE UNCHANGED degradationVars
  BY <1>1, <1>12 DEF degradationVars, DegradationMore, counted
<1> QED
  BY <1>3, <1>4, <1>5, <1>7, <1>8, <1>9, <1>10, <1>11, <1>12 DEF DegradationNext, Round

LEMMA DegradationStartsTyped == DegradationInit => DegradationMore
BY DegradationAssumption
DEF DegradationAssumption, DegradationInit, DegradationMore, Level, FULL, EMERGENCY, Watcher

-----------------------------------------------------------------------------
PrefetchMore ==
  /\ died \in 0..MaxReadErrors
  /\ engine \in {"runs", "waits"}
  /\ worker \in {"runs", "closing", "ended"}

LEMMA PrefetchTypesKept ==
  ASSUME PrefetchMore, [PrefetchNext]_prefetchVars
  PROVE  PrefetchMore'
<1>1. MaxReadErrors \in Nat
  BY PrefetchAssumption DEF PrefetchAssumption
<1>2. ASSUME NEW l \in LayerIndex, Prefetch(l) \/ ReadEnds(l) \/ GetPrefetched(l)
      PROVE  PrefetchMore'
  BY <1>2 DEF PrefetchMore, Prefetch, ReadEnds, GetPrefetched
<1>3. ASSUME NEW l \in LayerIndex, ReadFails(l) PROVE PrefetchMore'
  BY <1>1, <1>3 DEF PrefetchMore, ReadFails
<1>4. CASE WaitPending \/ WaitOver \/ Close \/ WorkerEnds
  BY <1>4 DEF PrefetchMore, WaitPending, WaitOver, Close, WorkerEnds
<1>5. CASE UNCHANGED prefetchVars
  BY <1>5 DEF PrefetchMore, prefetchVars
<1> QED  BY <1>2, <1>3, <1>4, <1>5 DEF PrefetchNext

-----------------------------------------------------------------------------
\* The order of last use names each entry once, and what is counted as used covers the
\* entries; a layer that is stored again is counted twice.
ArenaMore ==
  /\ Layers \subseteq CachedLayer
  /\ lruTicks \in Seq(CachedLayer) /\ IsInjective(lruTicks) /\ Range(lruTicks) = Layers
  /\ storing # NoStore => storing.layer \in CachedLayer
  /\ usedBytes \in 0..ArenaSize /\ SizesOf(entries) <= usedBytes

LEMMA SizesIs ==
  ASSUME NEW table
  PROVE  SizesOf(table) = SumFunctionOnSet([l \in DOMAIN table |-> table[l].size], DOMAIN table)
BY DEF SizesOf, SumFunction

LEMMA SizesAreNat ==
  ASSUME NEW table, IsFiniteSet(DOMAIN table), \A l \in DOMAIN table : table[l].size \in Nat
  PROVE  SizesOf(table) \in Nat
<1> DEFINE f == [l \in DOMAIN table |-> table[l].size]
<1>1. \A l \in DOMAIN table : f[l] \in Nat
  OBVIOUS
<1>2. SizesOf(table) = SumFunctionOnSet(f, DOMAIN table)
  BY SizesIs
<1> HIDE DEF f
<1> QED  BY <1>1, <1>2, SumIsNat

LEMMA SizesWithout ==
  ASSUME NEW table, IsFiniteSet(DOMAIN table), \A l \in DOMAIN table : table[l].size \in Nat,
         NEW k \in DOMAIN table
  PROVE  SizesOf(table) = SizesOf(LessLayer(table, k)) + table[k].size
<1> DEFINE f == [l \in DOMAIN table |-> table[l].size]
           rest == LessLayer(table, k)
           g == [l \in DOMAIN rest |-> rest[l].size]
           S == DOMAIN table
<1>1. DOMAIN rest = S \ {k} /\ \A l \in S \ {k} : rest[l] = table[l]
  BY DEF LessLayer
<1>2. /\ \A l \in S : f[l] \in Int
      /\ \A l \in S \ {k} : g[l] = f[l] /\ f[l] \in Int
      /\ f[k] = table[k].size
  BY <1>1
<1>3. SizesOf(table) = SumFunctionOnSet(f, S) /\ SizesOf(rest) = SumFunctionOnSet(g, S \ {k})
  <2>1. SizesOf(rest) = SumFunctionOnSet(g, DOMAIN rest)
    BY SizesIs
  <2> QED  BY <1>1, <2>1, SizesIs
<1> HIDE DEF f, rest, g, S
<1>4. IsFiniteSet(S) /\ IsFiniteSet(S \ {k}) /\ k \in S
  BY FS_RemoveElement DEF S
<1>5. SumFunctionOnSet(f, S) = f[k] + SumFunctionOnSet(f, S \ {k})
  BY <1>2, <1>4, SumTakeOut
<1>6. SumFunctionOnSet(g, S \ {k}) = SumFunctionOnSet(f, S \ {k})
  BY <1>2, <1>4, SumOfSame
<1>7. SumFunctionOnSet(f, S \ {k}) \in Int /\ f[k] \in Int
  BY <1>2, <1>4, SumIsInt
<1> QED  BY <1>2, <1>3, <1>5, <1>6, <1>7 DEF rest

LEMMA SizesWith ==
  ASSUME NEW table, IsFiniteSet(DOMAIN table), \A l \in DOMAIN table : table[l].size \in Nat,
         NEW k, NEW e, e.size \in Nat
  PROVE  SizesOf(With(table, k, e)) <= SizesOf(table) + e.size
<1> DEFINE more == With(table, k, e)
           less == LessLayer(table, k)
           S == DOMAIN table
<1>1. /\ DOMAIN more = S \cup {k} /\ more[k] = e
      /\ \A l \in S : l # k => more[l] = table[l]
      /\ DOMAIN less = S \ {k} /\ \A l \in S \ {k} : less[l] = table[l]
  BY DEF With, LessLayer
<1>2. IsFiniteSet(DOMAIN more) /\ IsFiniteSet(S \ {k}) /\ k \in DOMAIN more
      /\ \A l \in DOMAIN more : more[l].size \in Nat
  <2>1. IsFiniteSet(S \cup {k}) /\ IsFiniteSet(S \ {k})
    BY FS_AddElement, FS_RemoveElement
  <2>2. \A l \in S \cup {k} : more[l].size \in Nat
    BY <1>1
  <2> HIDE DEF more, S
  <2> QED  BY <1>1, <2>1, <2>2
<1>3. LessLayer(more, k) = less
  BY <1>1 DEF LessLayer
<1> HIDE DEF more, less
<1>4. SizesOf(more) = SizesOf(less) + e.size
  BY <1>1, <1>2, <1>3, SizesWithout
<1>5. SizesOf(less) \in Nat
  BY <1>1, <1>2, SizesAreNat
<1>6. SizesOf(less) <= SizesOf(table) /\ SizesOf(table) \in Nat
  <2>1. SizesOf(table) \in Nat
    BY SizesAreNat
  <2>2. CASE k \in S
    <3>1. SizesOf(table) = SizesOf(less) + table[k].size /\ table[k].size \in Nat
      BY <2>2, SizesWithout DEF less
    <3> QED  BY <1>5, <2>1, <3>1
  <2>3. CASE k \notin S
    <3>1. S \ {k} = S /\ SizesOf(less) = SumFunctionOnSet([l \in S |-> less[l].size], S)
      <4>1. S \ {k} = S
        BY <2>3
      <4> QED  BY <1>1, <4>1, SizesIs
    <3>2. [l \in S |-> less[l].size] = [l \in S |-> table[l].size]
      BY <1>1, <3>1
    <3>3. SizesOf(table) = SumFunctionOnSet([l \in S |-> table[l].size], S)
      BY SizesIs
    <3> QED  BY <2>1, <3>1, <3>2, <3>3
  <2> QED  BY <2>1, <2>2, <2>3
<1> QED  BY <1>4, <1>5, <1>6 DEF more

\* Using a layer puts it last, and names each layer once.
LEMMA UsedLast ==
  ASSUME ArenaMore, NEW l \in CachedLayer
  PROVE  /\ LastUsed(lruTicks, l) \in Seq(CachedLayer) /\ IsInjective(LastUsed(lruTicks, l))
         /\ Range(LastUsed(lruTicks, l)) = Layers \cup {l}
<1> DEFINE others == Minus(lruTicks, {l})
<1>1. /\ others \in Seq(CachedLayer) /\ IsInjective(others) /\ Range(others) = Layers \ {l}
  BY MinusFacts DEF ArenaMore
<1> HIDE DEF others
<1>2. l \notin Range(others) /\ (Layers \ {l}) \cup {l} = Layers \cup {l}
  BY <1>1
<1>3. /\ Append(others, l) \in Seq(CachedLayer) /\ IsInjective(Append(others, l))
      /\ Range(Append(others, l)) = Range(others) \cup {l}
  BY <1>1, <1>2, AppendNew
<1> QED  BY <1>1, <1>2, <1>3 DEF LastUsed, others

LEMMA ArenaFacts ==
  ASSUME ArenaIInv, ArenaMore
  PROVE  /\ IsFiniteSet(Layers) /\ Cardinality(Layers) = Len(lruTicks) /\ Len(lruTicks) \in Nat
         /\ \A l \in DOMAIN entries : entries[l].size \in Nat
         /\ SizesOf(entries) \in Nat
<1>1. IsFiniteSet(Layers) /\ Cardinality(Layers) = Len(lruTicks) /\ Len(lruTicks) \in Nat
  BY OnceEach DEF ArenaMore
<1>2. \A l \in DOMAIN entries : entries[l].size \in Nat
  BY DEF ArenaIInv, Layers
<1>3. SizesOf(entries) \in Nat
  BY <1>1, <1>2, SizesAreNat DEF Layers
<1> QED  BY <1>1, <1>2, <1>3

LEMMA EvictKeepsCount == ASSUME ArenaIInv, ArenaMore, EvictOldest PROVE ArenaMore'
<1> DEFINE oldest == Head(lruTicks)
           left == LessLayer(entries, oldest)
<1>1. /\ entries' = left /\ lruTicks' = Tail(lruTicks) /\ storing' = storing
      /\ usedBytes' = usedBytes - entries[oldest].size /\ Layers # {}
  BY DEF EvictOldest
<1>2. /\ lruTicks \in Seq(CachedLayer) /\ IsInjective(lruTicks) /\ Range(lruTicks) = Layers
      /\ Layers \subseteq CachedLayer /\ usedBytes \in 0..ArenaSize
      /\ SizesOf(entries) <= usedBytes /\ ArenaSize \in Nat
  BY ArenaAssumption DEF ArenaMore, ArenaAssumption
<1>3. /\ IsFiniteSet(Layers) /\ \A l \in DOMAIN entries : entries[l].size \in Nat
      /\ SizesOf(entries) \in Nat /\ Len(lruTicks) \in Nat /\ DOMAIN lruTicks = 1..Len(lruTicks)
  BY <1>2, ArenaFacts, LenProperties
<1>4. Len(lruTicks) # 0
  <2>1. Len(lruTicks) = 0 => Range(lruTicks) = {}
    BY <1>3 DEF Range
  <2> QED  BY <1>1, <1>2, <2>1
<1>5. 1 \in 0..Len(lruTicks) /\ oldest = lruTicks[1] /\ oldest \in Layers
      /\ Tail(lruTicks) = SubSeq(lruTicks, 2, Len(lruTicks))
  <2>1. oldest = lruTicks[1] /\ 1 \in DOMAIN lruTicks
    BY <1>2, <1>3, <1>4
  <2>2. lruTicks[1] \in Range(lruTicks)
    BY <2>1 DEF Range
  <2>3. Tail(lruTicks) = SubSeq(lruTicks, 2, Len(lruTicks))
    BY <1>2, <1>3, <1>4
  <2> QED  BY <1>2, <1>3, <1>4, <2>1, <2>2, <2>3
<1>6. /\ Tail(lruTicks) \in Seq(CachedLayer) /\ IsInjective(Tail(lruTicks))
      /\ Range(Tail(lruTicks)) = Layers \ {oldest}
  <2>1. PICK one \in 0..Len(lruTicks) : one = 1
    BY <1>5
  <2>2. /\ SubSeq(lruTicks, one + 1, Len(lruTicks)) \in Seq(CachedLayer)
        /\ IsInjective(SubSeq(lruTicks, one + 1, Len(lruTicks)))
        /\ Range(SubSeq(lruTicks, one + 1, Len(lruTicks)))
             = Range(lruTicks) \ Range(SubSeq(lruTicks, 1, one))
    BY <1>2, CutInTwo
  <2>3. one + 1 = 2
    BY <2>1
  <2>4. Range(SubSeq(lruTicks, 1, one)) = {oldest}
    <3>1. Len(SubSeq(lruTicks, 1, one)) = 1 /\ SubSeq(lruTicks, 1, one)[1] = lruTicks[1]
          /\ DOMAIN SubSeq(lruTicks, 1, one) = 1..1
      BY <1>2, <1>3, <1>4, <2>1
    <3> QED  BY <1>5, <3>1 DEF Range
  <2> QED  BY <1>2, <1>5, <2>2, <2>3, <2>4
<1>7. SizesOf(entries) = SizesOf(left) + entries[oldest].size
  BY <1>3, <1>5, SizesWithout DEF Layers
<1>8. SizesOf(left) \in Nat /\ entries[oldest].size \in Nat
  <2>1. DOMAIN left = Layers \ {oldest} /\ \A l \in DOMAIN left : left[l] = entries[l]
    BY DEF LessLayer, Layers
  <2>2. IsFiniteSet(DOMAIN left)
    <3> HIDE DEF left, oldest
    <3>1. IsFiniteSet(Layers) /\ DOMAIN left = Layers \ {oldest}
      BY <1>3, <2>1
    <3> QED  BY <3>1, FS_RemoveElement
  <2>3. \A l \in DOMAIN left : left[l].size \in Nat
    BY <1>3, <2>1 DEF Layers
  <2> HIDE DEF left
  <2>4. SizesOf(left) \in Nat
    BY <2>2, <2>3, SizesAreNat
  <2> QED  BY <1>3, <1>5, <2>4 DEF Layers
<1>9. Layers' = Layers \ {oldest}
  BY <1>1 DEF LessLayer, Layers
<1> HIDE DEF left, oldest
<1>10. SizesOf(entries)' <= usedBytes' /\ usedBytes' \in 0..ArenaSize
  <2>1. SizesOf(entries)' = SizesOf(left)
    BY <1>1, SizesIs
  <2> QED  BY <1>1, <1>2, <1>3, <1>7, <1>8, <2>1
<1> QED  BY <1>1, <1>2, <1>6, <1>9, <1>10 DEF ArenaMore

LEMMA StoreKeepsCount == ASSUME ArenaIInv, ArenaMore, StoreEnds PROVE ArenaMore'
<1> DEFINE l == storing.layer
           n == storing.size
           e == [offset |-> FirstOf(Slots(n)), size |-> n]
<1>1. /\ storing' = NoStore /\ n \in Nat /\ l \in CachedLayer /\ usedBytes + n <= ArenaSize
      /\ ArenaSize \in Nat
  BY ArenaAssumption DEF StoreEnds, ArenaIInv, ArenaMore, ArenaAssumption
<1>2. CASE Slots(n) = {}
  <2>1. UNCHANGED <<entries, lruTicks, usedBytes>>
    BY <1>2 DEF StoreEnds
  <2>2. SizesOf(entries)' = SizesOf(entries) /\ Layers' = Layers
    BY <2>1 DEF Layers, SizesOf
  <2> QED  BY <1>1, <2>1, <2>2 DEF ArenaMore
<1>3. CASE Slots(n) # {}
  <2>1. /\ entries' = With(entries, l, e) /\ lruTicks' = LastUsed(lruTicks, l)
        /\ usedBytes' = usedBytes + n
    BY <1>3 DEF StoreEnds
  <2>2. e.size = n
    OBVIOUS
  <2> HIDE DEF e, l, n
  <2>3. Layers' = Layers \cup {l}
    BY <2>1 DEF Layers, With
  <2>4. /\ lruTicks' \in Seq(CachedLayer) /\ IsInjective(lruTicks')
        /\ Range(lruTicks') = Layers \cup {l}
    BY <1>1, <2>1, UsedLast
  <2>5. /\ IsFiniteSet(DOMAIN entries) /\ \A k \in DOMAIN entries : entries[k].size \in Nat
        /\ SizesOf(entries) \in Nat
    BY ArenaFacts DEF Layers
  <2>6. SizesOf(With(entries, l, e)) <= SizesOf(entries) + n
    BY <1>1, <2>2, <2>5, SizesWith
  <2>7. SizesOf(With(entries, l, e)) \in Nat
    <3> DEFINE more == With(entries, l, e)
    <3>1. DOMAIN more = DOMAIN entries \cup {l} /\ \A k \in DOMAIN more : more[k].size \in Nat
      BY <1>1, <2>2, <2>5 DEF With
    <3>2. IsFiniteSet(DOMAIN more)
      <4>1. IsFiniteSet(DOMAIN entries \cup {l})
        BY <2>5, FS_AddElement
      <4> QED  BY <3>1, <4>1
    <3> HIDE DEF more
    <3>3. SizesOf(more) \in Nat
      BY <3>1, <3>2, SizesAreNat
    <3> QED  BY <3>3 DEF more
  <2>8. SizesOf(entries)' = SizesOf(With(entries, l, e))
    BY <2>1 DEF SizesOf
  <2>9. usedBytes \in 0..ArenaSize /\ SizesOf(entries) <= usedBytes /\ Layers \subseteq CachedLayer
    BY DEF ArenaMore
  <2> HIDE DEF SizesOf
  <2>10. SizesOf(entries)' <= usedBytes' /\ usedBytes' \in 0..ArenaSize
    BY <1>1, <2>1, <2>5, <2>6, <2>7, <2>8, <2>9
  <2> QED  BY <1>1, <2>3, <2>4, <2>9, <2>10 DEF ArenaMore
<1> QED  BY <1>2, <1>3

LEMMA ArenaTypesKept ==
  ASSUME ArenaIInv, ArenaMore, [ArenaNext]_arenaVars
  PROVE  ArenaMore'
<1>1. ASSUME NEW l \in CachedLayer, NEW n \in 1..(ArenaSize + 1), StoreStarts(l, n)
      PROVE  ArenaMore'
  <2>1. UNCHANGED <<entries, lruTicks, usedBytes>> /\ storing'.layer = l
    BY <1>1 DEF StoreStarts
  <2> QED  BY <2>1 DEF ArenaMore, Layers, SizesOf
<1>2. ASSUME NEW l \in CachedLayer, LoadLayer(l) PROVE ArenaMore'
  <2>1. /\ l \in Layers /\ lruTicks' = LastUsed(lruTicks, l)
        /\ UNCHANGED <<entries, usedBytes, storing>>
    BY <1>2 DEF LoadLayer
  <2>2. Layers \cup {l} = Layers
    BY <2>1
  <2>3. /\ lruTicks' \in Seq(CachedLayer) /\ IsInjective(lruTicks') /\ Range(lruTicks') = Layers
    BY <2>1, <2>2, UsedLast
  <2> QED  BY <2>1, <2>3 DEF ArenaMore, Layers, SizesOf
<1>3. CASE ClearArena
  <2>1. entries' = <<>> /\ lruTicks' = <<>> /\ usedBytes' = 0 /\ storing' = storing
    BY <1>3 DEF ClearArena
  <2>2. Layers' = {} /\ SizesOf(entries)' = 0
    <3>1. DOMAIN entries' = {}
      BY <2>1
    <3>2. SizesOf(entries)'
            = SumFunctionOnSet([k \in DOMAIN entries' |-> entries'[k].size], DOMAIN entries')
      BY DEF SizesOf, SumFunction
    <3> QED  BY <3>1, <3>2, SumOfNothing DEF Layers
  <2>3. lruTicks' \in Seq(CachedLayer) /\ IsInjective(lruTicks') /\ Range(lruTicks') = {}
    BY <2>1 DEF IsInjective, Range
  <2>4. ArenaSize \in Nat
    BY ArenaAssumption DEF ArenaAssumption
  <2> QED  BY <2>1, <2>2, <2>3, <2>4 DEF ArenaMore
<1>4. CASE UNCHANGED arenaVars
  BY <1>4 DEF arenaVars, ArenaMore, Layers, SizesOf
<1> QED  BY <1>1, <1>2, <1>3, <1>4, EvictKeepsCount, StoreKeepsCount DEF ArenaNext

LEMMA ArenaStartsTyped == ArenaInit => ArenaMore
<1> SUFFICES ASSUME ArenaInit PROVE ArenaMore
  OBVIOUS
<1>1. entries = <<>> /\ lruTicks = <<>> /\ usedBytes = 0 /\ storing = NoStore
  BY DEF ArenaInit
<1>2. Layers = {} /\ SizesOf(entries) = 0
  <2>1. DOMAIN entries = {}
    BY <1>1
  <2> QED  BY <2>1, SizesIs, SumOfNothing DEF Layers
<1>3. lruTicks \in Seq(CachedLayer) /\ IsInjective(lruTicks) /\ Range(lruTicks) = {}
  BY <1>1 DEF IsInjective, Range
<1>4. ArenaSize \in Nat
  BY ArenaAssumption DEF ArenaAssumption
<1> QED  BY <1>1, <1>2, <1>3, <1>4 DEF ArenaMore

LEMMA ArenaTyped == ArenaIInv /\ ArenaMore => ArenaTypeOK
<1> SUFFICES ASSUME ArenaIInv, ArenaMore PROVE ArenaTypeOK
  OBVIOUS
<1>1. ToSet(lruTicks) = Layers /\ Len(lruTicks) = Cardinality(Layers)
  BY ArenaFacts DEF ArenaMore, ToSet, Range
<1>2. \A l \in Layers : Bytewise(entries[l]) \subseteq DOMAIN arena
  BY ArenaAssumption DEF ArenaAssumption, ArenaIInv, Bytewise
<1> QED  BY <1>1, <1>2 DEF ArenaMore, ArenaTypeOK

\* A store has room in an empty arena.
StoreFits == storing # NoStore => storing.size \in Nat /\ storing.size <= ArenaSize

\* A store whose loop has bytes to free and no entry to evict.
Stuck == storing # NoStore /\ usedBytes + storing.size > ArenaSize /\ Layers = {}

ArenaGoesOn == ArenaIInv /\ ArenaMore /\ StoreFits

LEMMA ArenaGoesOnKept == ArenaGoesOn /\ [ArenaNext]_arenaVars => ArenaGoesOn'
<1> SUFFICES ASSUME ArenaGoesOn, [ArenaNext]_arenaVars PROVE ArenaGoesOn'
  OBVIOUS
<1>1. ArenaIInv /\ ArenaMore /\ StoreFits
  BY DEF ArenaGoesOn
<1>2. ArenaIInv' /\ ArenaMore'
  BY <1>1, ArenaStep, ArenaTypesKept
<1>3. ASSUME NEW l \in CachedLayer, NEW n \in 1..(ArenaSize + 1), StoreStarts(l, n)
      PROVE  StoreFits'
  <2>1. storing' = [layer |-> l, size |-> n] /\ n <= ArenaSize
    BY <1>3 DEF StoreStarts
  <2>2. n \in Nat
    BY ArenaAssumption DEF ArenaAssumption
  <2> QED  BY <2>1, <2>2 DEF StoreFits
<1>4. ASSUME storing' = storing \/ storing' = NoStore PROVE StoreFits'
  BY <1>1, <1>4 DEF StoreFits
<1>5. ASSUME EvictOldest \/ StoreEnds \/ (\E l \in CachedLayer : LoadLayer(l)) \/ ClearArena
             \/ UNCHANGED arenaVars
      PROVE  storing' = storing \/ storing' = NoStore
  BY <1>5 DEF EvictOldest, StoreEnds, LoadLayer, ClearArena, arenaVars
<1> QED  BY <1>2, <1>3, <1>4, <1>5 DEF ArenaNext, ArenaGoesOn

LEMMA ArenaGoesOnStarts == ArenaInit => ArenaGoesOn
<1>1. ArenaInit => StoreFits
  BY DEF ArenaInit, StoreFits
<1> QED  BY <1>1, ArenaStarts, ArenaStartsTyped DEF ArenaGoesOn

\* A store's loop that finds nothing left to evict has met a counter that had drifted above
\* the entries: without repeated stores no store can get stuck with the lock held.
THEOREM StuckByDrift == ArenaSpec => [](Stuck => usedBytes > SizesOf(entries))
<1>1. ArenaGoesOn => (Stuck => usedBytes > SizesOf(entries))
  <2> SUFFICES ASSUME ArenaGoesOn, Stuck PROVE usedBytes > SizesOf(entries)
    OBVIOUS
  <2>1. /\ usedBytes + storing.size > ArenaSize /\ storing.size \in Nat
        /\ storing.size <= ArenaSize /\ usedBytes \in Nat /\ ArenaSize \in Nat
    BY ArenaAssumption DEF ArenaGoesOn, StoreFits, Stuck, ArenaMore, ArenaAssumption
  <2>2. DOMAIN entries = {}
    BY DEF Stuck, Layers
  <2>3. SizesOf(entries) = 0
    BY <2>2, SizesIs, SumOfNothing
  <2> QED  BY <2>1, <2>3
<1> QED  BY <1>1, ArenaGoesOnStarts, ArenaGoesOnKept, PTL DEF ArenaSpec

\* Each pass of the loop of store evicts an entry, the one at the head of the order of use:
\* the order and the table never part, so that the loop comes to an end or gets stuck.
THEOREM EveryEvictionFrees ==
  ArenaSpec => [][EvictOldest => Cardinality(Layers') < Cardinality(Layers)]_arenaVars
<1>1. ASSUME ArenaGoesOn, EvictOldest
      PROVE  Cardinality(Layers') < Cardinality(Layers)
  <2> DEFINE oldest == Head(lruTicks)
  <2>1. /\ IsFiniteSet(Layers) /\ Cardinality(Layers) = Len(lruTicks) /\ Len(lruTicks) \in Nat
        /\ lruTicks \in Seq(CachedLayer) /\ Range(lruTicks) = Layers /\ Layers # {}
    BY <1>1, ArenaFacts DEF ArenaGoesOn, ArenaMore, EvictOldest
  <2>2. Len(lruTicks) # 0
    BY <2>1, FS_EmptySet
  <2>3. lruTicks # <<>> /\ oldest = lruTicks[1] /\ 1 \in DOMAIN lruTicks
    BY <2>1, <2>2
  <2>4. oldest \in Layers
    BY <2>1, <2>3 DEF Range
  <2>5. Layers' = Layers \ {oldest}
    BY <1>1 DEF EvictOldest, LessLayer, Layers
  <2>6. Cardinality(Layers \ {oldest}) = Cardinality(Layers) - 1
    BY <2>1, <2>4, FS_RemoveElement
  <2> QED  BY <2>1, <2>5, <2>6
<1>2. ArenaGoesOn /\ [ArenaNext]_arenaVars
        => [EvictOldest => Cardinality(Layers') < Cardinality(Layers)]_arenaVars
  BY <1>1
<1> QED  BY <1>2, ArenaGoesOnStarts, ArenaGoesOnKept, PTL DEF ArenaSpec

-----------------------------------------------------------------------------
\* Each part keeps its types by itself.
LEMMA BreakerTyped == BreakerInit /\ [][BreakerNext]_breakerVars => []BreakerTypeOK
BY BreakerStartsTyped, BreakerTypes, PTL

LEMMA LimiterTyped == LimiterInit /\ [][LimiterNext]_limiterVars => []LimiterTypeOK
<1>1. LimiterIInv => LimiterTypeOK
  BY DEF LimiterIInv
<1> QED  BY <1>1, LimiterInitEstablishes, LimiterStep, PTL

LEMMA DegradationAllTyped ==
  DegradationInit /\ [][DegradationNext]_degradationVars => []DegradationTypeOK
<1> DEFINE Both == DegradationIInv /\ DegradationMore
<1>1. DegradationInit => Both
  BY DegradationInitEstablishes, DegradationStartsTyped
<1>2. Both /\ [DegradationNext]_degradationVars => Both'
  <2>1. ASSUME Both, [DegradationNext]_degradationVars PROVE DegradationIInv'
    BY <2>1, DegradationStep
  <2>2. ASSUME Both, [DegradationNext]_degradationVars PROVE DegradationMore'
    BY <2>2, DegradationTypesKept
  <2> QED  BY <2>1, <2>2
<1>3. Both => DegradationTypeOK
  BY DegradationTyped DEF DegradationIInv
<1> QED  BY <1>1, <1>2, <1>3, PTL

LEMMA PrefetchTyped == PrefetchInit /\ [][PrefetchNext]_prefetchVars => []PrefetchTypeOK
<1> DEFINE Both == PrefetchIInv /\ PrefetchMore
<1>1. PrefetchInit => Both
  <2>1. PrefetchInit => PrefetchMore
    BY PrefetchAssumption DEF PrefetchAssumption, PrefetchInit, PrefetchMore
  <2> QED  BY <2>1, PrefetchStarts
<1>2. Both /\ [PrefetchNext]_prefetchVars => Both'
  <2>1. ASSUME Both, [PrefetchNext]_prefetchVars PROVE PrefetchIInv'
    BY <2>1, PrefetchStep
  <2>2. ASSUME Both, [PrefetchNext]_prefetchVars PROVE PrefetchMore'
    BY <2>2, PrefetchTypesKept
  <2> QED  BY <2>1, <2>2
<1>3. Both => PrefetchTypeOK
  BY DEF PrefetchIInv, PrefetchMore, PrefetchTypeOK
<1> QED  BY <1>1, <1>2, <1>3, PTL

LEMMA ArenaAllTyped == ArenaInit /\ [][ArenaNext]_arenaVars => []ArenaTypeOK
<1> DEFINE Both == ArenaIInv /\ ArenaMore
<1>1. ArenaInit => Both
  BY ArenaStarts, ArenaStartsTyped
<1>2. Both /\ [ArenaNext]_arenaVars => Both'
  <2>1. ASSUME Both, [ArenaNext]_arenaVars PROVE ArenaIInv'
    BY <2>1, ArenaStep
  <2>2. ASSUME Both, [ArenaNext]_arenaVars PROVE ArenaMore'
    BY <2>2, ArenaTypesKept
  <2> QED  BY <2>1, <2>2
<1>3. Both => ArenaTypeOK
  BY ArenaTyped
<1> QED  BY <1>1, <1>2, <1>3, PTL

\* Side by side every part behaves as it does alone, so that each keeps its types whatever
\* the others do.
THEOREM ProductionTypeCorrect == Spec => []TypeOK
<1>1. Init => BreakerInit /\ LimiterInit /\ DegradationInit /\ PrefetchInit /\ ArenaInit
  BY DEF Init
<1>2. [Next]_vars => /\ [BreakerNext]_breakerVars /\ [LimiterNext]_limiterVars
                     /\ [DegradationNext]_degradationVars
                     /\ [PrefetchNext]_prefetchVars /\ [ArenaNext]_arenaVars
  <2>1. Next => /\ [BreakerNext]_breakerVars /\ [LimiterNext]_limiterVars
                /\ [DegradationNext]_degradationVars
                /\ [PrefetchNext]_prefetchVars /\ [ArenaNext]_arenaVars
    BY DEF Next
  <2>2. UNCHANGED vars => /\ UNCHANGED breakerVars /\ UNCHANGED limiterVars
                          /\ UNCHANGED degradationVars
                          /\ UNCHANGED prefetchVars /\ UNCHANGED arenaVars
    BY DEF vars
  <2> QED  BY <2>1, <2>2
<1>3. /\ BreakerTypeOK /\ LimiterTypeOK /\ DegradationTypeOK /\ PrefetchTypeOK /\ ArenaTypeOK
      => TypeOK
  BY DEF TypeOK
<1> QED
  BY <1>1, <1>2, <1>3, BreakerTyped, LimiterTyped, DegradationAllTyped,
     PrefetchTyped, ArenaAllTyped, PTL DEF Spec
=============================================================================
