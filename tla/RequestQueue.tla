----------------------------- MODULE RequestQueue -----------------------------
(***************************************************************************)
(* RequestQueue of the serving layer: a bounded priority queue of requests,  *)
(* each with a future its client waits on, and asyncio tasks that take one    *)
(* request at a time and run a handler under a semaphore.  Everything         *)
(* between two awaits is one action; the queue's own lock is never waited      *)
(* for, because no critical section awaits.                                  *)
(*                                                                          *)
(* Requests are numbered in the order they were enqueued (created_at).        *)
(***************************************************************************)
EXTENDS Naturals, Sequences, SequencesExt, FiniteSets

CONSTANTS
  MaxRequests,     \* bound on the requests enqueued
  MaxQueued,       \* max_queued
  MaxConcurrent,   \* permits of the semaphore
  MaxRejected,     \* bound on the refused requests
  Priority,        \* a set of numbers, 0 the most urgent
  Task             \* the asyncio tasks that call process_next

ASSUME NumberAssumption ==
  {MaxRequests, MaxQueued, MaxConcurrent, MaxRejected} \subseteq Nat
ASSUME PriorityAssumption == Priority \subseteq Nat
ASSUME TaskAssumption == IsFiniteSet(Task)

Request == 1..MaxRequests

VARIABLES
  queue,           \* _queue, a heap
  priority,        \* of the requests enqueued
  future,          \* of each request
  late,            \* requests older than their timeout
  permits,         \* of the semaphore
  active,          \* _active_requests
  pc,              \* of each task: "idle", "acquiring" or "handling"
  held,            \* the request a task has, or none: {} or {r}
  enqueued, dequeued, timedout, rejected,     \* the counters of stats()
  cancelled,       \* history: requests removed by cancel
  abandoned        \* history: requests whose task was cancelled

counters == <<enqueued, dequeued, timedout, rejected>>
vars == <<queue, priority, future, late, permits, active, pc, held, enqueued,
          dequeued, timedout, rejected, cancelled, abandoned>>

Outcome == {"result", "exception", "timeout", "cancelled"}
Queued == Range(queue)

TypeOK ==
  /\ queue \in Seq(Request) /\ Len(queue) <= MaxQueued
  /\ priority \in [1..enqueued -> Priority]
  /\ future \in [Request -> Outcome \cup {"none", "pending"}]
  /\ late \subseteq Request
  /\ permits \in 0..MaxConcurrent
  /\ permits + Cardinality({k \in Task : pc[k] = "handling"}) = MaxConcurrent
  /\ active \subseteq Request
  /\ pc \in [Task -> {"idle", "acquiring", "handling"}]
  /\ held \in [Task -> SUBSET Request]
  /\ \A k \in Task : IF pc[k] = "idle" THEN held[k] = {}
                                       ELSE \E r \in Request : held[k] = {r}
  /\ enqueued \in 0..MaxRequests
  /\ {dequeued, timedout, rejected} \subseteq Nat
  /\ cancelled \subseteq Request /\ abandoned \subseteq Request

Init ==
  /\ queue = <<>>
  /\ priority = <<>>
  /\ future = [r \in Request |-> "none"]
  /\ late = {}
  /\ permits = MaxConcurrent
  /\ active = {}
  /\ pc = [k \in Task |-> "idle"]
  /\ held = [k \in Task |-> {}]
  /\ enqueued = 0 /\ dequeued = 0 /\ timedout = 0 /\ rejected = 0
  /\ cancelled = {} /\ abandoned = {}

-----------------------------------------------------------------------------
(* QueuedRequest.__lt__, and what heapq makes of a queue.                   *)

Before(prio, r, s) == prio[r] < prio[s] \/ (prio[r] = prio[s] /\ r < s)

\* The lists that heapq may leave of the requests S.
Heaps(prio, S) ==
  {q \in SetToSeqs(S) :
     \A i \in 2..Len(q) : ~Before(prio, q[i], q[i \div 2])}

\* Mutant: the future is not looked at first.
SettleAnyway(S, outcome) ==
  future' = [r \in Request |-> IF r \in S THEN outcome ELSE future[r]]

\* Settling a future that is done already would raise; all check first.
Settle(S, outcome) ==
  future' = [r \in Request |->
    IF r \in S /\ future[r] = "pending" THEN outcome ELSE future[r]]

-----------------------------------------------------------------------------
Enqueue(p) ==
  LET r == enqueued + 1
  IN  /\ enqueued < MaxRequests
      /\ Len(queue) < MaxQueued
      /\ enqueued' = r
      /\ priority' = Append(priority, p)
      /\ queue' \in Heaps(priority', Queued \cup {r})
      /\ future' = [future EXCEPT ![r] = "pending"]
      /\ UNCHANGED <<late, permits, active, pc, held, dequeued, timedout,
                     rejected, cancelled, abandoned>>

Reject ==
  /\ Len(queue) >= MaxQueued
  /\ rejected < MaxRejected
  /\ rejected' = rejected + 1
  /\ UNCHANGED <<queue, priority, future, late, permits, active, pc, held,
                 enqueued, dequeued, timedout, cancelled, abandoned>>

\* Time passes.
Expire(r) ==
  /\ r \in Queued \ late
  /\ late' = late \cup {r}
  /\ UNCHANGED <<queue, priority, future, permits, active, pc, held, counters,
                 cancelled, abandoned>>

\* Mutant: an expired head is dropped without telling its client.
DropSilently(expired) ==
  /\ timedout' = timedout + Cardinality(expired)
  /\ UNCHANGED future

\* The expired requests at the head of the queue are answered with a timeout.
DropExpired(expired) ==
  /\ timedout' = timedout + Cardinality(expired)
  /\ Settle(expired, "timeout")

\* The requests that are expired and before every other.
ExpiredHeads ==
  {r \in Queued \cap late : \A s \in Queued \ late : Before(priority, r, s)}

\* process_next, up to its first await: dequeue, which gives nothing when only
\* expired requests are queued, or none.  The future of the request that is
\* taken is not looked at.
Dequeue(k) ==
  LET rest == Queued \ ExpiredHeads
  IN  /\ pc[k] = "idle"
      /\ DropExpired(ExpiredHeads)
      /\ \/ /\ rest = {}
            /\ queue' = <<>>
            /\ UNCHANGED <<active, pc, held, dequeued>>
         \/ \E r \in rest :
              /\ \A s \in rest \ {r} : Before(priority, r, s)
              /\ queue' \in Heaps(priority, rest \ {r})
              /\ active' = active \cup {r}
              /\ dequeued' = dequeued + 1
              /\ pc' = [pc EXCEPT ![k] = "acquiring"]
              /\ held' = [held EXCEPT ![k] = {r}]
      /\ UNCHANGED <<priority, late, permits, enqueued, rejected, cancelled,
                     abandoned>>

Acquire(k) ==
  /\ pc[k] = "acquiring"
  /\ permits > 0
  /\ permits' = permits - 1
  /\ pc' = [pc EXCEPT ![k] = "handling"]
  /\ UNCHANGED <<queue, priority, future, late, active, held, counters,
                 cancelled, abandoned>>

\* Mutant: the permit is lost when the task leaves.
LeaveWithPermit(k) ==
  /\ pc' = [pc EXCEPT ![k] = "idle"]
  /\ held' = [held EXCEPT ![k] = {}]
  /\ active' = active \ held[k]
  /\ UNCHANGED permits

\* Mutant: no finally clause takes the request off the active ones.
LeaveActive(k) ==
  /\ pc' = [pc EXCEPT ![k] = "idle"]
  /\ held' = [held EXCEPT ![k] = {}]
  /\ permits' = permits + 1
  /\ UNCHANGED active

\* Leaving the try block and the semaphore.
Leave(k) ==
  /\ pc' = [pc EXCEPT ![k] = "idle"]
  /\ held' = [held EXCEPT ![k] = {}]
  /\ active' = active \ held[k]
  /\ permits' = permits + 1

\* The handler returns, or raises.
Handled(k) ==
  /\ pc[k] = "handling"
  /\ \E outcome \in {"result", "exception"} : Settle(held[k], outcome)
  /\ Leave(k)
  /\ UNCHANGED <<queue, priority, late, counters, cancelled, abandoned>>

\* The task is cancelled.  CancelledError is no Exception: the future stays
\* as it is, and before the try block the request stays among the active ones.
TaskCancelled(k) ==
  /\ pc[k] # "idle"
  /\ abandoned' = abandoned \cup held[k]
  /\ \/ pc[k] = "handling" /\ Leave(k)
     \/ /\ pc[k] = "acquiring"
        /\ pc' = [pc EXCEPT ![k] = "idle"]
        /\ held' = [held EXCEPT ![k] = {}]
        /\ UNCHANGED <<active, permits>>
  /\ UNCHANGED <<queue, priority, future, late, counters, cancelled>>

\* Mutant: the list is left as pop leaves it.
Removed(r) == {SelectSeq(queue, LAMBDA s : s # r)}

\* pop(i), then heapify.
Without(r) == Heaps(priority, Queued \ {r})

Cancel(r) ==
  /\ r \in Queued
  /\ queue' \in Without(r)
  /\ cancelled' = cancelled \cup {r}
  /\ Settle({r}, "cancelled")
  /\ UNCHANGED <<priority, late, permits, active, pc, held, counters, abandoned>>

\* The client cancels its future, or stops waiting for it with wait_for.
ClientGivesUp(r) ==
  /\ future[r] = "pending"
  /\ future' = [future EXCEPT ![r] = "cancelled"]
  /\ UNCHANGED <<queue, priority, late, permits, active, pc, held, counters,
                 cancelled, abandoned>>

TaskStep(k) == Acquire(k) \/ Handled(k)

Next ==
  \/ \E p \in Priority : Enqueue(p)
  \/ Reject
  \/ \E r \in Request : Expire(r) \/ Cancel(r) \/ ClientGivesUp(r)
  \/ \E k \in Task : Dequeue(k) \/ TaskStep(k) \/ TaskCancelled(k)

Spec == Init /\ [][Next]_vars

\* The semaphore wakes its waiters in turn, and handlers end.
FairSpec == Spec /\ \A k \in Task : SF_vars(Acquire(k)) /\ WF_vars(Handled(k))

-----------------------------------------------------------------------------
(* Properties.                                                              *)

\* peek() and dequeue look at the first element only: it is before every other
\* request, whatever was pushed, taken and removed from the middle.
HeadIsFirst ==
  \A i \in 2..Len(queue) : Before(priority, queue[1], queue[i])

\* A client that still waits has its request in the queue or with a task,
\* unless the task that had it was cancelled.
NobodyForgotten ==
  \A r \in Request : future[r] = "pending" =>
    \/ r \in Queued
    \/ \E k \in Task : held[k] = {r}
    \/ r \in abandoned

\* A future is settled once: a result that comes after a timeout, a cancel or
\* a client's own cancellation changes nothing.
OneOutcome ==
  [][\A r \in Request : future[r] \in Outcome => future'[r] = future[r]]_vars

\* The requests reported as active are those a task has, and those of tasks
\* that were cancelled while they waited for the semaphore.
ActiveIsTrue ==
  /\ UNION {held[k] : k \in Task} \subseteq active
  /\ active \subseteq (UNION {held[k] : k \in Task}) \cup abandoned

\* The counters of stats() and the queue's size account for every request.
StatsAddUp ==
  enqueued = Len(queue) + dequeued + timedout + Cardinality(cancelled)

\* What stats() reports is so.
StatsAreTrue == ActiveIsTrue /\ StatsAddUp

\* A task does not wait for the semaphore for ever.
Acquires == \A k \in Task : pc[k] = "acquiring" ~> pc[k] # "acquiring"
=============================================================================
