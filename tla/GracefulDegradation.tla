------------------------- MODULE GracefulDegradation -------------------------
(***************************************************************************)
(* The degradation level of the production stack and the two threads that       *)
(* move it on their own: the monitor of GracefulDegradation and the healer of    *)
(* SelfHealingSystem.  Each measures, reads the level, and sets another in        *)
(* separate steps; only set_level takes the lock.  The monitor asks for one level   *)
(* after the other and reads anew each time; the healer reads once for each of its   *)
(* reasons, of which it may have two.  An operator sets any level.                *)
(*                                                                          *)
(* ProductionService starts and stops both threads, which end only when they      *)
(* see their stop event.                                                        *)
(***************************************************************************)
EXTENDS Integers

CONSTANTS
  MaxByHand,    \* bound on the levels set by hand
  MaxThreadStarts     \* bound on the starts of the threads

ASSUME DegradationAssumption == MaxByHand \in Nat /\ MaxThreadStarts \in Nat \ {0}

Watcher == {"monitor", "healer"}

\* DegradationLevel
FULL == 0
MINIMAL == 2
EMERGENCY == 3
Level == FULL..EMERGENCY

\* What a thread can find wrong: the monitor takes all its reasons for one, the healer
\* has DEGRADE_LEVEL for memory and for errors.
Reasons(w) == IF w = "monitor" THEN 0..1 ELSE 0..2

VARIABLES
  level, policy,    \* policy is the level whose policy is installed
  setting,          \* who is inside set_level, which holds _lock: {} or {w}
  pressure,         \* of each thread: how many reasons it would find now
  phase,            \* of each thread
  todo,             \* of each thread: the reasons found and not dealt with
  target,           \* the level a thread is about to set, or the monitor to ask for
  stopping,         \* of each thread: its _stop_event
  spawns, byHand,   \* counters for the bounds
  evidence          \* history: how many reasons the threads have found

counted == <<spawns, byHand>>
degradationVars == <<level, policy, setting, pressure, phase, todo, target,
                     stopping, spawns, byHand, evidence>>

Phase == {"dead", "begun", "measuring", "calm", "deciding", "setting", "waiting"}

\* Beyond it more evidence makes no difference.
Enough == EMERGENCY

DegradationTypeOK ==
  /\ level \in Level /\ policy \in Level
  /\ setting \subseteq Watcher
  /\ \A w \in Watcher : {pressure[w], todo[w]} \subseteq Reasons(w)
  /\ phase \in [Watcher -> Phase]
  /\ target \in [Watcher -> Level]
  /\ stopping \in [Watcher -> BOOLEAN]
  /\ spawns \in 0..MaxThreadStarts /\ byHand \in 0..MaxByHand
  /\ evidence \in 0..Enough

DegradationInit ==
  /\ level = FULL /\ policy = FULL
  /\ setting = {}
  /\ pressure = [w \in Watcher |-> 0]
  /\ phase = [w \in Watcher |-> "dead"]
  /\ todo = [w \in Watcher |-> 0]
  /\ target = [w \in Watcher |-> FULL]
  /\ stopping = [w \in Watcher |-> FALSE]
  /\ spawns = 0 /\ byHand = 0
  /\ evidence = 0

-----------------------------------------------------------------------------
(* Threads.                                                                 *)

\* start_auto_monitoring, start: a thread that has been told to stop and has
\* not ended yet counts as running, and is not started again.
StartWatcher(w) ==
  /\ spawns < MaxThreadStarts
  /\ spawns' = spawns + 1
  /\ IF phase[w] = "dead"
     THEN /\ stopping' = [stopping EXCEPT ![w] = FALSE]
          /\ phase' = [phase EXCEPT ![w] = "begun"]
     ELSE UNCHANGED <<stopping, phase>>
  /\ UNCHANGED <<level, policy, setting, pressure, todo, target, byHand, evidence>>

\* stop_auto_monitoring, stop: nobody waits for the thread.
StopWatcher(w) ==
  /\ stopping' = [stopping EXCEPT ![w] = TRUE]
  /\ UNCHANGED <<level, policy, setting, pressure, phase, todo, target, counted,
                 evidence>>

\* while not self._stop_event.is_set()
AfterLoop(w) == IF stopping[w] THEN "dead" ELSE "measuring"

\* A new thread, and one whose wait ends with the interval or with the event.
Loop(w) ==
  /\ phase[w] \in {"begun", "waiting"}
  /\ phase' = [phase EXCEPT ![w] = AfterLoop(w)]
  /\ UNCHANGED <<level, policy, setting, pressure, todo, target, stopping, counted,
                 evidence>>

-----------------------------------------------------------------------------
(* A round: measure, read the level, set another.                           *)

\* The healer does nothing without a reason; the monitor goes on to see
\* whether it must recover.
Measure(w) ==
  /\ phase[w] = "measuring"
  /\ phase' = [phase EXCEPT ![w] =
                 IF pressure[w] > 0 THEN "deciding"
                 ELSE IF w = "monitor" THEN "calm" ELSE "waiting"]
  /\ todo' = [todo EXCEPT ![w] = pressure[w]]
  /\ evidence' = IF evidence + pressure[w] <= Enough THEN evidence + pressure[w]
                 ELSE Enough
  /\ UNCHANGED <<level, policy, setting, pressure, target, stopping, counted>>

\* Mutant: an emergency is left by hand only.
RecoversFrom == Level \ {FULL, EMERGENCY}

\* The levels from which a calm monitor goes back to FULL.
RecoverFrom == Level \ {FULL}

\* if not reasons: if self.level != FULL: set_level(FULL)
ReadCalm(w) ==
  /\ phase[w] = "calm"
  /\ IF level \in RecoverFrom
     THEN /\ target' = [target EXCEPT ![w] = FULL]
          /\ phase' = [phase EXCEPT ![w] = "setting"]
     ELSE /\ phase' = [phase EXCEPT ![w] = "waiting"]
          /\ UNCHANGED target
  /\ UNCHANGED <<level, policy, setting, pressure, todo, stopping, counted,
                 evidence>>

\* Mutant: two levels at a time.
TwoUp(l) == IF l < EMERGENCY - 1 THEN l + 2 ELSE EMERGENCY

\* The next level, for the monitor and the healer alike.
OneUp(l) == l + 1

\* The reasons a thread has after one more was dealt with, and where it goes.
OneLess(w) == todo' = [todo EXCEPT ![w] = @ - 1]
AfterReason(w) == IF todo[w] > 1 THEN "deciding" ELSE "waiting"

\* if self.level == FULL ... elif ... REDUCED ... elif ... MINIMAL: between two of the
\* readings the level may change, so that none of the three holds.
MonitorAsks ==
  /\ phase["monitor"] = "deciding"
  /\ IF level = target["monitor"]
     THEN /\ target' = [target EXCEPT !["monitor"] = OneUp(level)]
          /\ phase' = [phase EXCEPT !["monitor"] = "setting"]
          /\ UNCHANGED todo
     ELSE IF target["monitor"] < MINIMAL
     THEN target' = [target EXCEPT !["monitor"] = @ + 1] /\ UNCHANGED <<phase, todo>>
     ELSE /\ target' = [target EXCEPT !["monitor"] = FULL]
          /\ phase' = [phase EXCEPT !["monitor"] = AfterReason("monitor")]
          /\ OneLess("monitor")
  /\ UNCHANGED <<level, policy, setting, pressure, stopping, counted, evidence>>

\* remediate: from_level = self.degradation.level
HealerDecides ==
  /\ phase["healer"] = "deciding"
  /\ IF level < EMERGENCY
     THEN /\ target' = [target EXCEPT !["healer"] = OneUp(level)]
          /\ phase' = [phase EXCEPT !["healer"] = "setting"]
          /\ UNCHANGED todo
     ELSE /\ phase' = [phase EXCEPT !["healer"] = AfterReason("healer")]
          /\ OneLess("healer")
          /\ UNCHANGED target
  /\ UNCHANGED <<level, policy, setting, pressure, stopping, counted, evidence>>

\* with self._lock
LockFree == setting = {}

\* set_level: the level, and then the policy.
EnterSet(w) ==
  /\ phase[w] = "setting" /\ w \notin setting
  /\ LockFree
  /\ setting' = setting \cup {w}
  /\ level' = target[w]
  /\ UNCHANGED <<policy, pressure, phase, todo, target, stopping, counted, evidence>>

LeaveSet(w) ==
  /\ w \in setting
  /\ policy' = target[w]
  /\ setting' = setting \ {w}
  /\ IF todo[w] > 0
     THEN phase' = [phase EXCEPT ![w] = AfterReason(w)] /\ OneLess(w)
     ELSE phase' = [phase EXCEPT ![w] = "waiting"] /\ UNCHANGED todo
  /\ target' = [target EXCEPT ![w] = FULL]
  /\ UNCHANGED <<level, pressure, stopping, counted, evidence>>

-----------------------------------------------------------------------------
\* set_level by hand; its two assignments are one step here.
SetByHand(l) ==
  /\ byHand < MaxByHand
  /\ LockFree
  /\ byHand' = byHand + 1
  /\ level' = l /\ policy' = l
  /\ UNCHANGED <<setting, pressure, phase, todo, target, stopping, spawns, evidence>>

\* The load changes.
PressureChanges(w) ==
  /\ \E n \in Reasons(w) \ {pressure[w]} : pressure' = [pressure EXCEPT ![w] = n]
  /\ UNCHANGED <<level, policy, setting, phase, todo, target, stopping, counted,
                 evidence>>

Round(w) ==
  \/ Loop(w) \/ Measure(w) \/ ReadCalm(w)
  \/ w = "monitor" /\ MonitorAsks
  \/ w = "healer" /\ HealerDecides
  \/ EnterSet(w) \/ LeaveSet(w)

DegradationNext ==
  \/ \E w \in Watcher : StartWatcher(w) \/ StopWatcher(w) \/ PressureChanges(w)
                       \/ Round(w)
  \/ \E l \in Level : SetByHand(l)

DegradationSpec == DegradationInit /\ [][DegradationNext]_degradationVars

\* Threads run, and the lock goes to those who wait for it.
DegradationFairness ==
  \A w \in Watcher : /\ WF_degradationVars(Round(w))
                     /\ SF_degradationVars(EnterSet(w))

-----------------------------------------------------------------------------
(* Properties.                                                              *)

\* Without a hand in it the level is no higher than the number of reasons the
\* threads found for it, however the rounds of the two threads overlap.
LevelNeedsEvidence == byHand = 0 => level <= evidence

Calm ==
  /\ \A w \in Watcher : pressure[w] = 0
  /\ phase["monitor"] # "dead"
  /\ ~stopping["monitor"]

\* Once the pressure has gone for good and the monitor goes on running, the
\* level comes back to FULL and stays there, also after an emergency and after
\* the healer's last step on an old measurement.
CalmRecovers == <>[]Calm => <>[](level = FULL)

=============================================================================
