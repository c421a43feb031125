---------------------------- MODULE ServiceManager ----------------------------
(***************************************************************************)
(* The lifecycle of ServiceManager: start, stop and restart, called by the main  *)
(* thread and by the signal handlers that start installs, and the watchdog        *)
(* threads, one more with each start, that bounce the components when they         *)
(* believe the service hangs.  No lock guards the state, so each statement that    *)
(* reads or writes it is a step of its own.                                        *)
(*                                                                          *)
(* A signal handler runs in the main thread, which stands still meanwhile.        *)
(* Nothing calls acquire_in_flight, so draining returns at once.  Nothing reads    *)
(* the pid file but the log.                                                       *)
(***************************************************************************)
EXTENDS Integers

CONSTANTS
  MaxRestarts,    \* max_restarts
  MaxStarts,      \* bound on the calls of start
  MaxSignals      \* bound on the signals

ASSUME ServiceAssumption ==
  MaxRestarts \in Nat \ {0} /\ MaxStarts \in Nat /\ MaxSignals \in Nat

VARIABLES
  svc,            \* state
  running,        \* _running
  stopEvent,      \* _stop_event is set
  components,     \* whether the components were started or stopped last
  caller,         \* of "main" and "handler": the statement it has come to
  thenStart,      \* of each caller: start follows, the stop being a restart's
  watchdog,       \* of each watchdog thread: the statement it has come to
  tally,          \* of each watchdog: _restart_count as its += has read it
  spawned,        \* watchdog threads made so far
  aged,           \* watchdog_timeout has passed since _start_time
  restartCount,   \* _restart_count
  windowOver,     \* restart_window has passed since _first_restart_time
  starts, signals,    \* counters for the bounds
  raced,          \* history: two watchdogs counted at once in this restart window
  bounces,        \* history: automatic restarts granted in this window until they raced
  crossed         \* history: a call cut into another, or a stop into a bounce

callerVars == <<caller, thenStart>>
rateVars == <<tally, restartCount, windowOver, bounces, raced>>
watchdogVars == <<watchdog, spawned>>
callVars == <<starts, signals>>
serviceVars == <<svc, running, stopEvent, components, callerVars, watchdogVars,
                 rateVars, aged, callVars, crossed>>

ServiceState ==
  {"stopped", "starting", "running", "stopping", "restarting", "crashed"}
Caller == {"main", "handler"}
Watchdog == 1..MaxStarts

StartPlace == {"installed", "starting", "cleared", "set", "begun", "started", "announced"}
StopPlace == {"stopping", "unset", "draining", "stopped"}
CallPlace == {"idle", "restarting", "again"} \cup StartPlace \cup StopPlace

\* The counts within the limit.  Those beyond are all alike, and one stands for all.
InLimit == 0..MaxRestarts

\* In _check_restart_rate; in _handle_crash or on the way to it.
Counting == {"counting", "first", "one", "window", "reset", "storing", "comparing"}
Acting == {"on", "hung", "backoff", "bounced", "back"} \cup Counting
WatchPlace == {"none", "loop", "asleep", "awake", "ended"} \cup Acting

ServiceTypeOK ==
  /\ svc \in ServiceState
  /\ running \in BOOLEAN /\ stopEvent \in BOOLEAN
  /\ components \in {"up", "down"}
  /\ caller \in [Caller -> CallPlace]
  /\ thenStart \in [Caller -> BOOLEAN]
  /\ watchdog \in [Watchdog -> WatchPlace]
  /\ tally \in [Watchdog -> InLimit \cup {MaxRestarts + 1}]
  /\ spawned \in 0..MaxStarts /\ starts \in 0..MaxStarts
  /\ signals \in 0..MaxSignals
  /\ aged \in BOOLEAN /\ windowOver \in BOOLEAN
  /\ restartCount \in InLimit \cup {MaxRestarts + 1} /\ bounces \in Nat
  /\ raced \in BOOLEAN /\ crossed \in BOOLEAN

\* Both times start at 0, long ago.
ServiceInit ==
  /\ svc = "stopped"
  /\ running = FALSE /\ stopEvent = FALSE
  /\ components = "down"
  /\ caller = [c \in Caller |-> "idle"]
  /\ thenStart = [c \in Caller |-> FALSE]
  /\ watchdog = [i \in Watchdog |-> "none"]
  /\ tally = [i \in Watchdog |-> 0]
  /\ spawned = 0
  /\ aged = TRUE
  /\ restartCount = 0 /\ windowOver = TRUE
  /\ starts = 0 /\ signals = 0
  /\ bounces = 0 /\ raced = FALSE /\ crossed = FALSE

CallersIdle == \A c \in Caller : caller[c] = "idle"
NobodyActs == \A i \in Watchdog : watchdog[i] \notin Acting

-----------------------------------------------------------------------------
(* Callers.                                                                 *)

Alone(c) == c = "main" => caller["handler"] = "idle"

Moves(c, from, to) ==
  /\ caller[c] = from /\ Alone(c)
  /\ caller' = [caller EXCEPT ![c] = to]

\* start, called by the main thread or at the end of a restart: a running service is left
\* alone.  Else, up to the signal handlers; what crossed before matters no more once a
\* start has the service to itself.
Start(c) ==
  /\ starts < MaxStarts
  /\ \E from \in {"idle", "again"} :
       /\ from = "idle" => c = "main"
       /\ IF svc = "running"
            THEN Moves(c, from, "idle") /\ UNCHANGED <<starts, crossed>>
            ELSE /\ Moves(c, from, "installed")
                 /\ starts' = starts + 1
                 /\ crossed' = (crossed /\ ~(NobodyActs /\ \A d \in Caller \ {c} : caller[d] = "idle"))
  /\ UNCHANGED <<svc, running, stopEvent, components, thenStart, watchdogVars, rateVars,
                 aged, signals>>

\* Mutant: the stop event of the last stop stays set.
EventKept == UNCHANGED stopEvent

\* _stop_event.clear()
EventCleared == stopEvent' = FALSE

\* The assignments of start before and after the components, and the components, of which
\* what one raises is only logged.
StartGoesOn(c) ==
  /\ \/ /\ Moves(c, "installed", "starting") /\ svc' = "starting"
        /\ UNCHANGED <<running, stopEvent, components, aged>>
     \/ /\ Moves(c, "starting", "cleared") /\ EventCleared
        /\ UNCHANGED <<svc, running, components, aged>>
     \/ /\ Moves(c, "cleared", "set") /\ running' = TRUE
        /\ UNCHANGED <<svc, stopEvent, components, aged>>
     \/ /\ Moves(c, "set", "begun") /\ aged' = FALSE
        /\ UNCHANGED <<svc, running, stopEvent, components>>
     \/ /\ Moves(c, "begun", "started") /\ components' = "up"
        /\ UNCHANGED <<svc, running, stopEvent, aged>>
     \/ /\ Moves(c, "started", "announced") /\ svc' = "running"
        /\ UNCHANGED <<running, stopEvent, components, aged>>
  /\ UNCHANGED <<thenStart, watchdogVars, rateVars, callVars, crossed>>

\* The watchdog thread starts.
Spawn(c) ==
  /\ Moves(c, "announced", "idle")
  /\ spawned' = spawned + 1
  /\ watchdog' = [watchdog EXCEPT ![spawned + 1] = "loop"]
  /\ UNCHANGED <<svc, running, stopEvent, components, thenStart, rateVars, aged, callVars,
                 crossed>>

\* restart, up to its call of stop.
Restart(c) ==
  /\ starts < MaxStarts
  /\ Moves(c, "idle", "restarting")
  /\ svc' = "restarting"
  /\ thenStart' = [thenStart EXCEPT ![c] = TRUE]

\* stop, up to its first assignment: it is one stop too many when the service is stopped.
Stop(c) ==
  \/ /\ Moves(c, "idle", "stopping")
     /\ svc # "stopped" /\ svc' = "stopping"
     /\ thenStart' = [thenStart EXCEPT ![c] = FALSE]
  \/ /\ Moves(c, "restarting", IF svc = "stopped" THEN "again" ELSE "stopping")
     /\ svc' = IF svc = "stopped" THEN svc ELSE "stopping"
     /\ UNCHANGED thenStart

\* The main thread stops or restarts the service, or goes on with a restart; a handler does
\* once its signal has come.
MainStops ==
  /\ \/ Restart("main") /\ UNCHANGED crossed
     \/ Stop("main") /\ crossed' = (crossed \/ ~NobodyActs)
  /\ UNCHANGED <<running, stopEvent, components, watchdogVars, rateVars, aged, callVars>>

\* SIGTERM and SIGINT stop, SIGHUP restarts, whatever the main thread is doing.
\* The handlers are there once start has been called.
Signal ==
  /\ starts > 0 /\ signals < MaxSignals
  /\ caller["handler"] = "idle"
  /\ signals' = signals + 1
  /\ Restart("handler") \/ Stop("handler")
  /\ crossed' = (crossed \/ caller["main"] # "idle" \/ ~NobodyActs)
  /\ UNCHANGED <<running, stopEvent, components, watchdogVars, rateVars, aged, starts>>

HandlerStops ==
  /\ caller["handler"] = "restarting"
  /\ Stop("handler")
  /\ crossed' = (crossed \/ ~NobodyActs)
  /\ UNCHANGED <<running, stopEvent, components, watchdogVars, rateVars, aged, callVars>>

\* The rest of stop; a restart goes on with start.
StopGoesOn(c) ==
  /\ \/ /\ Moves(c, "stopping", "unset") /\ running' = FALSE
        /\ UNCHANGED <<svc, stopEvent, components>>
     \/ /\ Moves(c, "unset", "draining") /\ stopEvent' = TRUE
        /\ UNCHANGED <<svc, running, components>>
     \/ /\ Moves(c, "draining", "stopped") /\ components' = "down"
        /\ UNCHANGED <<svc, running, stopEvent>>
     \/ /\ Moves(c, "stopped", IF thenStart[c] THEN "again" ELSE "idle") /\ svc' = "stopped"
        /\ UNCHANGED <<running, stopEvent, components>>
  /\ UNCHANGED <<thenStart, watchdogVars, rateVars, aged, callVars, crossed>>

-----------------------------------------------------------------------------
(* Watchdogs.                                                               *)

Goes(i, from, to) ==
  /\ watchdog[i] = from
  /\ watchdog' = [watchdog EXCEPT ![i] = to]

\* Mutant: the service is looked at before the sleep and not after it.
OnBeforeSleep == TRUE

\* After the sleep: the service is not stopped and not being restarted.
StillOn == svc = "running"

\* _last_component_activity is the time of the start: a service that has been
\* up for watchdog_timeout hangs.
Hangs == aged

\* _watchdog_loop: its condition, and after the sleep one look after the other.
WatchdogLooks(i) ==
  /\ \/ Goes(i, "loop", IF running /\ ~stopEvent THEN "asleep" ELSE "ended")
     \/ Goes(i, "asleep", IF running THEN "awake" ELSE "ended")
     \/ Goes(i, "awake", IF StillOn THEN "on" ELSE "loop")
     \/ Goes(i, "on", IF Hangs THEN "hung" ELSE "loop")
  /\ UNCHANGED <<svc, running, stopEvent, components, callerVars, spawned, rateVars, aged,
                 callVars, crossed>>

\* _handle_crash, up to the call of _check_restart_rate.
Crash(i) ==
  /\ Goes(i, "hung", "counting")
  /\ svc' = "crashed"
  /\ raced' = (raced \/ \E j \in Watchdog \ {i} : watchdog[j] \in Counting)
  /\ UNCHANGED <<running, stopEvent, components, callerVars, spawned, tally, restartCount,
                 windowOver, bounces, aged, callVars, crossed>>

\* _first_restart_time = now: the window begins, with n restarts granted.
WindowBegins(i, n) ==
  /\ windowOver' = FALSE
  /\ bounces' = n
  /\ raced' = (raced /\ \E j \in Watchdog \ {i} : watchdog[j] \in Counting)

Granted == bounces' = IF raced THEN bounces ELSE bounces + 1

\* Mutant: one restart more than the limit.
LimitPassed(n) == n > MaxRestarts + 1

LimitExceeded(n) == n > MaxRestarts

\* _check_restart_rate.  The first restart stamps the time and then sets the count; the
\* first of a new window does so the other way round; any other adds one to what it read.
CheckRestartRate(i) ==
  /\ \/ /\ Goes(i, "counting", IF restartCount = 0 THEN "first" ELSE "window")
        /\ UNCHANGED rateVars
     \/ /\ Goes(i, "first", "one")
        /\ WindowBegins(i, 0)
        /\ UNCHANGED <<tally, restartCount>>
     \/ /\ Goes(i, "one", "backoff")
        /\ restartCount' = 1 /\ Granted
        /\ UNCHANGED <<tally, windowOver, raced>>
     \/ /\ windowOver
        /\ Goes(i, "window", "reset")
        /\ restartCount' = 1
        /\ UNCHANGED <<tally, windowOver, bounces, raced>>
     \/ /\ Goes(i, "reset", "backoff")
        /\ WindowBegins(i, 1)
        /\ UNCHANGED <<tally, restartCount>>
     \/ /\ ~windowOver
        /\ Goes(i, "window", "storing")
        /\ tally' = [tally EXCEPT ![i] = restartCount]
        /\ UNCHANGED <<restartCount, windowOver, bounces, raced>>
     \/ /\ Goes(i, "storing", "comparing")
        /\ restartCount' = IF tally[i] \in InLimit THEN tally[i] + 1 ELSE tally[i]
        /\ tally' = [tally EXCEPT ![i] = 0]
        /\ UNCHANGED <<windowOver, bounces, raced>>
     \/ /\ LimitExceeded(restartCount)
        /\ Goes(i, "comparing", "loop")
        /\ UNCHANGED rateVars
     \/ /\ ~LimitExceeded(restartCount)
        /\ Goes(i, "comparing", "backoff")
        /\ Granted
        /\ UNCHANGED <<tally, restartCount, windowOver, raced>>
  /\ UNCHANGED <<svc, running, stopEvent, components, callerVars, spawned, aged, callVars,
                 crossed>>

\* The rest of _handle_crash: it does not look whether the service was stopped.
Bounce(i) ==
  /\ \/ Goes(i, "backoff", "bounced") /\ components' = "down" /\ UNCHANGED svc
     \/ Goes(i, "bounced", "back") /\ components' = "up" /\ UNCHANGED svc
     \/ Goes(i, "back", "loop") /\ svc' = "running" /\ UNCHANGED components
  /\ UNCHANGED <<running, stopEvent, callerVars, spawned, rateVars, aged, callVars, crossed>>

\* Time passes: the watchdog's timeout, or the restart window.
ClockRuns ==
  /\ \/ aged' = TRUE /\ UNCHANGED windowOver
     \/ windowOver' = TRUE /\ UNCHANGED aged
  /\ UNCHANGED <<svc, running, stopEvent, components, callerVars, watchdogVars, tally,
                 restartCount, bounces, raced, callVars, crossed>>

CallerStep(c) == Start(c) \/ StartGoesOn(c) \/ Spawn(c) \/ StopGoesOn(c)

WatchdogStep(i) == WatchdogLooks(i) \/ Crash(i) \/ CheckRestartRate(i) \/ Bounce(i)

ServiceNext ==
  \/ MainStops \/ Signal \/ HandlerStops
  \/ \E c \in Caller : CallerStep(c)
  \/ \E i \in Watchdog : WatchdogStep(i)
  \/ ClockRuns

ServiceSpec == ServiceInit /\ [][ServiceNext]_serviceVars

-----------------------------------------------------------------------------
(* Properties.                                                              *)

Alive(i) == watchdog[i] \notin {"none", "ended"}

\* A service that is on has a watchdog once every call has returned, whatever watchdogs of
\* earlier starts do; except when a call cut into another and has left the stop event set
\* for a service that goes on running.
Watched ==
  CallersIdle /\ running /\ (crossed => ~stopEvent) => \E i \in Watchdog : Alive(i)

\* However many watchdogs there are, whatever calls come in between and whichever of them
\* counted last, they restart the components at most max_restarts times in a restart window;
\* except when two of them counted a crash at the same moment, which loses one.
RestartBudget == ~raced => bounces <= MaxRestarts

\* The automatic restarts neither fall asleep nor run away.
WatchedWithinBudget == Watched /\ RestartBudget

\* When no call and no bounce is under way, the state that is reported is the one the
\* service is in: STOPPED if and only if its components are down and its threads told to
\* end.  So a watchdog that slept through a stop does not bring the service back.  Only a
\* call that cut into another, or a stop into a bounce, upsets this, until the next start.
StateIsTrue ==
  CallersIdle /\ NobodyActs /\ ~crossed =>
    /\ svc \in {"stopped", "running", "crashed"}
    /\ svc = "stopped" <=> components = "down"
    /\ svc = "stopped" <=> ~running
=============================================================================
