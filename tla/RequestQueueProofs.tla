-------------------------- MODULE RequestQueueProofs --------------------------
(***************************************************************************)
(* Theorems about RequestQueue, for any number of requests, tasks, permits and     *)
(* priorities: the heap, the owners of a request, its future and the statistics.    *)
(***************************************************************************)
EXTENDS RequestQueue, FiniteSetTheorems, SequenceTheorems, WellFoundedInduction, TLAPS

USE NumberAssumption, PriorityAssumption, TaskAssumption

\* The queue is a heap of distinct requests.
QueueInv ==
  /\ Queued \subseteq 1..enqueued
  /\ Cardinality(Queued) = Len(queue)
  /\ \A i, j \in 1..Len(queue) : queue[i] = queue[j] => i = j
  /\ \A i \in 2..Len(queue) : ~Before(priority, queue[i], queue[i \div 2])

\* A request has one owner: the queue, one task, or nobody once it was cancelled; and
\* nothing has been settled of a request that is still to come.
OwnersInv ==
  /\ \A k \in Task : held[k] \subseteq (1..enqueued) \ Queued
  /\ \A j, k \in Task : j # k => held[j] \cap held[k] = {}
  /\ cancelled \subseteq (1..enqueued) \ Queued
  /\ \A r \in Request : r > enqueued => future[r] = "none"

IInv == TypeOK /\ QueueInv /\ OwnersInv /\ NobodyForgotten /\ ActiveIsTrue /\ StatsAddUp

-----------------------------------------------------------------------------
(* Numbers and heaps.                                                        *)

\* A set of numbers has a least one.
LEMMA LeastNumber ==
  ASSUME NEW T \in SUBSET Nat, T # {}
  PROVE  \E x \in T : \A y \in T : x <= y
<1> DEFINE R == OpToRel(<, Nat)
<1>1. IsWellFoundedOn(R, Nat)
  BY NatLessThanWellFounded
<1>2. R = {ss \in Nat \X Nat : ss[1] < ss[2]}
  BY DEF OpToRel
<1> HIDE DEF R
<1>3. PICK x \in T : \A y \in T : ~ (<<y, x>> \in R)
  BY <1>1, WFMin
<1>4. ASSUME NEW y \in T PROVE x <= y
  <2>1. x \in Nat /\ y \in Nat
    OBVIOUS
  <2>2. ~ (y < x)
    BY <1>2, <1>3, <2>1
  <2> QED  BY <2>1, <2>2
<1> QED  BY <1>4

\* Before is a strict total order of requests.
LEMMA BeforeIsOrder ==
  ASSUME NEW prio, NEW a \in Nat, NEW b \in Nat,
         prio[a] \in Nat, prio[b] \in Nat
  PROVE  /\ a # b => Before(prio, a, b) \/ Before(prio, b, a)
         /\ \A c \in Nat : prio[c] \in Nat /\ Before(prio, a, b) /\ Before(prio, b, c)
                            => Before(prio, a, c)
BY DEF Before

\* In a list whose elements are no smaller than those at half their position, the first
\* is the smallest.
LEMMA RootIsFirst ==
  ASSUME NEW n \in Nat, NEW prio \in [1..n -> Nat], NEW q \in Seq(1..n),
         \A i, j \in 1..Len(q) : q[i] = q[j] => i = j,
         \A i \in 2..Len(q) : ~Before(prio, q[i], q[i \div 2])
  PROVE  \A i \in 2..Len(q) : Before(prio, q[1], q[i])
<1> DEFINE T == {i \in 2..Len(q) : ~Before(prio, q[1], q[i])}
<1>0. Len(q) \in Nat /\ \A i \in 1..Len(q) : q[i] \in Nat /\ prio[q[i]] \in Nat
  BY ElementOfSeq, LenProperties
<1>1. SUFFICES ASSUME T # {} PROVE FALSE
  OBVIOUS
<1>2. T \in SUBSET Nat
  BY <1>0
<1>3. PICK i \in T : \A j \in T : i <= j
  BY <1>1, <1>2, LeastNumber
<1>4. i \in 2..Len(q) /\ i \div 2 \in 1..(i - 1) /\ i \div 2 \in 1..Len(q) /\ i \in 1..Len(q)
      /\ 1 \in 1..Len(q)
  BY <1>0
<1> HIDE DEF T
<1> DEFINE h == i \div 2
<1>5. ~Before(prio, q[i], q[h]) /\ q[i] # q[h]
  BY <1>4
<1>h. h \in 1..Len(q) /\ h < i /\ h \in Nat /\ i \in Nat
  BY <1>0, <1>4
<1> HIDE DEF h
<1>num. /\ q[h] \in Nat /\ q[i] \in Nat /\ q[1] \in Nat
        /\ prio[q[h]] \in Nat /\ prio[q[i]] \in Nat /\ prio[q[1]] \in Nat
  BY <1>0, <1>4, <1>h
<1>6. Before(prio, q[h], q[i])
  BY <1>5, <1>num, BeforeIsOrder
<1>7. CASE h = 1
  BY <1>3, <1>6, <1>7 DEF T
<1>8. CASE h # 1
  <2>1. h \in 2..Len(q) /\ h \notin T
    BY <1>0, <1>3, <1>h, <1>8
  <2>2. Before(prio, q[1], q[h])
    BY <2>1 DEF T
  <2>3. Before(prio, q[1], q[i])
    BY <2>2, <1>6, <1>num, BeforeIsOrder
  <2> QED  BY <2>3, <1>3 DEF T
<1> QED  BY <1>7, <1>8

\* What heapq leaves of a set is a list of its elements, each once.
LEMMA HeapFacts ==
  ASSUME NEW S, IsFiniteSet(S), NEW prio, NEW q \in Heaps(prio, S)
  PROVE  /\ q \in Seq(S) /\ Len(q) = Cardinality(S) /\ Range(q) = S
         /\ \A i, j \in 1..Len(q) : q[i] = q[j] => i = j
         /\ \A i \in 2..Len(q) : ~Before(prio, q[i], q[i \div 2])
<1> DEFINE n == Cardinality(S)
<1>1. n \in Nat
  BY FS_CardinalityType
<1>2. /\ q \in [1..n -> S] /\ \A i, j \in 1..n : i # j => q[i] # q[j]
      /\ \A i \in 2..Len(q) : ~Before(prio, q[i], q[i \div 2])
  BY DEF Heaps, SetToSeqs
<1>3. q \in Seq(S) /\ Len(q) = n
  BY <1>1, <1>2
<1>4. q \in Surjection(1..n, S)
  <2>1. q \in Injection(1..n, S)
    BY <1>2 DEF Injection, IsInjective
  <2>2. IsFiniteSet(1..n) /\ Cardinality(1..n) = n
    BY <1>1, FS_Interval
  <2> QED  BY <2>1, <2>2, FS_Injection
<1>5. Range(q) = S
  BY <1>2, <1>4 DEF Surjection, Range
<1> QED  BY <1>2, <1>3, <1>5

-----------------------------------------------------------------------------
(* What the invariant says of sets and their sizes.                          *)

LEMMA Numbers == MaxRequests \in Nat /\ MaxQueued \in Nat /\ MaxConcurrent \in Nat
OBVIOUS

LEMMA Sizes ==
  ASSUME IInv
  PROVE  /\ IsFiniteSet(Queued) /\ IsFiniteSet(cancelled)
         /\ Len(queue) \in Nat /\ Cardinality(Queued) = Len(queue)
         /\ Cardinality(cancelled) \in Nat
         /\ enqueued \in 0..MaxRequests /\ enqueued \in Nat
         /\ dequeued \in Nat /\ timedout \in Nat
<1>0. enqueued \in 0..MaxRequests /\ enqueued \in Nat
  BY Numbers DEF IInv, TypeOK
<1>1. IsFiniteSet(1..enqueued)
  BY <1>0, FS_Interval
<1>2. Queued \in SUBSET (1..enqueued) /\ cancelled \in SUBSET (1..enqueued)
  BY DEF IInv, QueueInv, OwnersInv
<1>3. IsFiniteSet(Queued) /\ IsFiniteSet(cancelled) /\ Cardinality(cancelled) \in Nat
  BY <1>1, <1>2, FS_Subset, FS_CardinalityType
<1>4. Len(queue) \in Nat
  BY LenProperties DEF IInv, TypeOK
<1>5. dequeued \in Nat /\ timedout \in Nat
  BY DEF IInv, TypeOK
<1> QED  BY <1>0, <1>3, <1>4, <1>5 DEF IInv, QueueInv

\* A step that replaces the queue by a heap of some of the requests enqueued.
LEMMA HeapStep ==
  ASSUME enqueued' \in 0..MaxRequests, NEW S \in SUBSET (1..enqueued'),
         queue' \in Heaps(priority', S)
  PROVE  /\ QueueInv' /\ Queued' = S
         /\ queue' \in Seq(Request) /\ Len(queue') = Cardinality(S)
<1>1. IsFiniteSet(S)
  <2>1. enqueued' \in Int /\ 1 \in Int
    BY Numbers
  <2>2. IsFiniteSet(1..enqueued')
    BY <2>1, FS_Interval
  <2> QED  BY <2>2, FS_Subset
<1>2. /\ queue' \in Seq(S) /\ Len(queue') = Cardinality(S) /\ Range(queue') = S
      /\ \A i, j \in 1..Len(queue') : queue'[i] = queue'[j] => i = j
      /\ \A i \in 2..Len(queue') : ~Before(priority', queue'[i], queue'[i \div 2])
  BY <1>1, HeapFacts
<1>3. S \subseteq Request
  BY DEF Request
<1>4. queue' \in Seq(Request)
  BY <1>2, <1>3, SeqMonotonic
<1> QED  BY <1>2, <1>4 DEF QueueInv, Queued

\* The sets named in ActiveIsTrue, element by element.
LEMMA ActiveElements ==
  /\ ActiveIsTrue <=>
       /\ \A k \in Task : held[k] \subseteq active
       /\ \A r \in active : (\E k \in Task : r \in held[k]) \/ r \in abandoned
  /\ ActiveIsTrue' <=>
       /\ \A k \in Task : held'[k] \subseteq active'
       /\ \A r \in active' : (\E k \in Task : r \in held'[k]) \/ r \in abandoned'
<1>1. ASSUME NEW h, NEW act, NEW gone
      PROVE  /\ UNION {h[k] : k \in Task} \subseteq act <=> \A k \in Task : h[k] \subseteq act
             /\ act \subseteq (UNION {h[k] : k \in Task}) \cup gone
                  <=> \A r \in act : (\E k \in Task : r \in h[k]) \/ r \in gone
  <2> DEFINE U == UNION {h[k] : k \in Task}
  <2>1. \A r : r \in U <=> \E k \in Task : r \in h[k]
    OBVIOUS
  <2> HIDE DEF U
  <2>2. U \subseteq act <=> \A k \in Task : h[k] \subseteq act
    BY <2>1
  <2>3. act \subseteq U \cup gone <=> \A r \in act : (\E k \in Task : r \in h[k]) \/ r \in gone
    BY <2>1
  <2> QED  BY <2>2, <2>3 DEF U
<1> QED  BY <1>1 DEF ActiveIsTrue

LEMMA InitEstablishes == Init => IInv
<1> SUFFICES ASSUME Init PROVE IInv
  OBVIOUS
<1> USE DEF Init
<1>1. Queued = {} /\ Len(queue) = 0 /\ queue \in Seq(Request)
  BY EmptySeq DEF Queued, Range
<1>2. {k \in Task : pc[k] = "handling"} = {}
  OBVIOUS
<1>3. Cardinality({}) = 0
  BY FS_EmptySet
<1>4. TypeOK
  <2>1. priority \in [1..enqueued -> Priority]
    BY EmptySeq, LenProperties
  <2>2. /\ future \in [Request -> Outcome \cup {"none", "pending"}]
        /\ pc \in [Task -> {"idle", "acquiring", "handling"}]
        /\ held \in [Task -> SUBSET Request]
        /\ \A k \in Task : pc[k] = "idle" /\ held[k] = {}
    OBVIOUS
  <2>3. /\ permits \in 0..MaxConcurrent /\ enqueued \in 0..MaxRequests
        /\ permits + Cardinality({k \in Task : pc[k] = "handling"}) = MaxConcurrent
    <3>1. Cardinality({k \in Task : pc[k] = "handling"}) = 0
      BY <1>2, <1>3
    <3> QED  BY <3>1, Numbers
  <2>4. Len(queue) <= MaxQueued
    BY <1>1, Numbers
  <2> QED  BY <1>1, <2>1, <2>2, <2>3, <2>4 DEF TypeOK
<1>5. QueueInv /\ OwnersInv /\ NobodyForgotten /\ ActiveIsTrue /\ StatsAddUp
  BY <1>1, <1>3 DEF QueueInv, OwnersInv, NobodyForgotten, ActiveIsTrue, StatsAddUp
<1> QED  BY <1>4, <1>5 DEF IInv

LEMMA StutterPreserves == IInv /\ UNCHANGED vars => IInv'
<1> SUFFICES ASSUME IInv, UNCHANGED vars PROVE IInv'
  OBVIOUS
<1> USE DEF vars, IInv
<1>1. TypeOK'
  BY DEF TypeOK
<1>2. QueueInv' /\ OwnersInv'
  BY DEF QueueInv, OwnersInv, Queued
<1>3. NobodyForgotten' /\ StatsAddUp'
  BY DEF NobodyForgotten, StatsAddUp, Queued
<1>4. ActiveIsTrue'
  BY DEF ActiveIsTrue
<1> QED  BY <1>1, <1>2, <1>3, <1>4

-----------------------------------------------------------------------------
(* One lemma for each operation that changes the queue.                      *)

LEMMA EnqueuePreserves ==
  ASSUME IInv, NEW p \in Priority, Enqueue(p)
  PROVE  IInv'
<1> DEFINE r == enqueued + 1
<1>1. /\ enqueued < MaxRequests /\ Len(queue) < MaxQueued /\ enqueued' = r
      /\ priority' = Append(priority, p)
      /\ queue' \in Heaps(priority', Queued \cup {r})
      /\ future' = [future EXCEPT ![r] = "pending"]
      /\ UNCHANGED <<late, permits, active, pc, held, dequeued, timedout,
                     rejected, cancelled, abandoned>>
  BY DEF Enqueue
<1>2. enqueued \in Nat /\ MaxRequests \in Nat /\ r \in Request /\ r \notin 1..enqueued
  BY <1>1, Sizes DEF IInv, TypeOK, Request
<1>3. enqueued' \in 0..MaxRequests /\ 1..enqueued' = (1..enqueued) \cup {r}
  BY <1>1, <1>2
<1>4. Queued \subseteq 1..enqueued
  BY DEF IInv, QueueInv
<1>5. /\ QueueInv' /\ Queued' = Queued \cup {r}
      /\ queue' \in Seq(Request) /\ Len(queue') = Cardinality(Queued \cup {r})
  <2>1. Queued \cup {r} \in SUBSET (1..enqueued')
    BY <1>3, <1>4
  <2> QED  BY <1>1, <1>3, <2>1, HeapStep
<1>6. Len(queue') = Len(queue) + 1
  <2>1. r \notin Queued
    BY <1>2, <1>4
  <2> QED  BY <2>1, <1>5, Sizes, FS_AddElement
<1> HIDE DEF r
<1>7. TypeOK'
  <2>1. priority' \in [1..enqueued' -> Priority]
    <3>1. priority \in Seq(Priority) /\ Len(priority) = enqueued
      BY <1>2 DEF IInv, TypeOK
    <3>2. priority' \in Seq(Priority) /\ Len(priority') = enqueued'
      BY <3>1, <1>1, <1>2 DEF r
    <3> QED  BY <3>2, LenProperties
  <2>2. future' \in [Request -> Outcome \cup {"none", "pending"}]
    BY <1>1 DEF IInv, TypeOK
  <2>3. Len(queue') <= MaxQueued
    BY <1>1, <1>6, Sizes
  <2> QED  BY <1>1, <1>3, <1>5, <2>1, <2>2, <2>3 DEF IInv, TypeOK
<1>8. OwnersInv'
  <2>1. \A k \in Task : held[k] \subseteq (1..enqueued) \ Queued
    BY DEF IInv, OwnersInv
  <2>2. \A s \in Request : s > enqueued' => future'[s] = "none"
    BY <1>1, <1>2 DEF IInv, OwnersInv, TypeOK, r, Request
  <2>3. \A k \in Task : held'[k] \subseteq (1..enqueued') \ Queued'
    BY <1>1, <1>2, <1>3, <1>5, <2>1
  <2>4. cancelled' \subseteq (1..enqueued') \ Queued'
    BY <1>1, <1>2, <1>3, <1>5 DEF IInv, OwnersInv
  <2>5. \A j, k \in Task : j # k => held'[j] \cap held'[k] = {}
    BY <1>1 DEF IInv, OwnersInv
  <2> QED  BY <2>2, <2>3, <2>4, <2>5 DEF OwnersInv
<1>9. NobodyForgotten'
  BY <1>1, <1>5 DEF IInv, NobodyForgotten, TypeOK
<1>10. ActiveIsTrue'
  BY <1>1 DEF IInv, ActiveIsTrue
<1>11. StatsAddUp'
  <2>1. enqueued = Len(queue) + dequeued + timedout + Cardinality(cancelled)
    BY DEF IInv, StatsAddUp
  <2>2. /\ enqueued' = enqueued + 1 /\ Len(queue') = Len(queue) + 1
        /\ dequeued' = dequeued /\ timedout' = timedout /\ cancelled' = cancelled
    BY <1>1, <1>6 DEF r
  <2> QED  BY <2>1, <2>2, Sizes DEF StatsAddUp
<1> QED  BY <1>5, <1>7, <1>8, <1>9, <1>10, <1>11 DEF IInv

LEMMA CancelPreserves ==
  ASSUME IInv, NEW r \in Request, Cancel(r)
  PROVE  IInv'
<1>1. /\ r \in Queued /\ queue' \in Heaps(priority', Queued \ {r})
      /\ cancelled' = cancelled \cup {r}
      /\ future' = [s \in Request |->
           IF s \in {r} /\ future[s] = "pending" THEN "cancelled" ELSE future[s]]
      /\ UNCHANGED <<priority, late, permits, active, pc, held, enqueued, dequeued, timedout,
                     rejected, abandoned>>
  BY DEF Cancel, Without, Settle, counters
<1>2. Queued \subseteq 1..enqueued
  BY DEF IInv, QueueInv
<1>3. /\ QueueInv' /\ Queued' = Queued \ {r}
      /\ queue' \in Seq(Request) /\ Len(queue') = Cardinality(Queued \ {r})
  <2>1. enqueued' \in 0..MaxRequests /\ Queued \ {r} \in SUBSET (1..enqueued')
    BY <1>1, <1>2 DEF IInv, TypeOK
  <2> QED  BY <1>1, <2>1, HeapStep
<1>4. Len(queue') = Len(queue) - 1
  BY <1>1, <1>3, Sizes, FS_RemoveElement
<1>5. Cardinality(cancelled') = Cardinality(cancelled) + 1
  <2>1. r \notin cancelled
    BY <1>1 DEF IInv, OwnersInv
  <2> QED  BY <2>1, <1>1, Sizes, FS_AddElement
<1>6. TypeOK'
  <2>1. future' \in [Request -> Outcome \cup {"none", "pending"}]
    BY <1>1 DEF IInv, TypeOK, Outcome
  <2>2. Len(queue') <= MaxQueued
    BY <1>4, Sizes DEF IInv, TypeOK
  <2> QED  BY <1>1, <1>3, <2>1, <2>2 DEF IInv, TypeOK
<1>7. OwnersInv'
  <2>1. \A s \in Request : s > enqueued' => future'[s] = "none"
    BY <1>1 DEF IInv, OwnersInv
  <2> QED  BY <1>1, <1>2, <1>3, <2>1 DEF IInv, OwnersInv
<1>8. NobodyForgotten'
  BY <1>1, <1>3 DEF IInv, NobodyForgotten
<1>9. ActiveIsTrue'
  BY <1>1 DEF IInv, ActiveIsTrue
<1>10. StatsAddUp'
  BY <1>1, <1>4, <1>5, Sizes DEF IInv, StatsAddUp, TypeOK
<1> QED  BY <1>3, <1>6, <1>7, <1>8, <1>9, <1>10 DEF IInv

\* The expired heads and what they leave are parts of the queue, and their sizes add up.
LEMMA DequeueRest ==
  ASSUME IInv, NEW k \in Task, Dequeue(k)
  PROVE  /\ ExpiredHeads \in SUBSET Queued /\ IsFiniteSet(ExpiredHeads)
         /\ IsFiniteSet(Queued \ ExpiredHeads)
         /\ Cardinality(ExpiredHeads) \in Nat
         /\ Cardinality(Queued \ ExpiredHeads) = Len(queue) - Cardinality(ExpiredHeads)
<1>1. ExpiredHeads \in SUBSET Queued
  BY DEF ExpiredHeads
<1>2. IsFiniteSet(ExpiredHeads) /\ IsFiniteSet(Queued \ ExpiredHeads)
  BY <1>1, Sizes, FS_Subset
<1>3. Cardinality(ExpiredHeads) \in Nat
  BY <1>2, FS_CardinalityType
<1>4. Cardinality(Queued \ ExpiredHeads)
        = Cardinality(Queued) - Cardinality(Queued \cap ExpiredHeads)
  BY Sizes, FS_Difference
<1>5. Queued \cap ExpiredHeads = ExpiredHeads
  BY <1>1
<1> QED  BY <1>1, <1>2, <1>3, <1>4, <1>5, Sizes

LEMMA DequeuePreserves ==
  ASSUME IInv, NEW k \in Task, Dequeue(k)
  PROVE  IInv'
<1> DEFINE gone == ExpiredHeads
           rest == Queued \ ExpiredHeads
<1>1. /\ pc[k] = "idle" /\ timedout' = timedout + Cardinality(gone)
      /\ future' = [s \in Request |->
           IF s \in gone /\ future[s] = "pending" THEN "timeout" ELSE future[s]]
      /\ UNCHANGED <<priority, late, permits, enqueued, rejected, cancelled, abandoned>>
  BY DEF Dequeue, DropExpired, Settle
<1>2. \/ /\ rest = {} /\ queue' = <<>> /\ UNCHANGED <<active, pc, held, dequeued>>
      \/ \E r \in rest :
           /\ queue' \in Heaps(priority, rest \ {r})
           /\ active' = active \cup {r}
           /\ dequeued' = dequeued + 1
           /\ pc' = [pc EXCEPT ![k] = "acquiring"]
           /\ held' = [held EXCEPT ![k] = {r}]
  BY DEF Dequeue
<1>3. /\ gone \in SUBSET Queued /\ IsFiniteSet(rest) /\ Cardinality(gone) \in Nat
      /\ Cardinality(rest) = Len(queue) - Cardinality(gone)
      /\ rest = Queued \ gone
  BY DequeueRest
<1> HIDE DEF gone, rest
<1>4. Queued \subseteq 1..enqueued /\ 1..enqueued \subseteq Request
  BY Sizes, Numbers DEF IInv, QueueInv, Request
<1>5. future' \in [Request -> Outcome \cup {"none", "pending"}]
  BY <1>1 DEF IInv, TypeOK, Outcome
<1>6. timedout' \in Nat /\ Len(queue) <= MaxQueued
  BY <1>1, <1>3, Sizes DEF IInv, TypeOK
<1>7. \A s \in Request : future'[s] = "pending" => future[s] = "pending" /\ s \notin gone
  BY <1>1
<1>8. \A s \in Request : s > enqueued' => future'[s] = "none"
  BY <1>1 DEF IInv, OwnersInv
<1>9. enqueued = Len(queue) + dequeued + timedout + Cardinality(cancelled)
  BY DEF IInv, StatsAddUp
<1>10. CASE rest = {} /\ queue' = <<>> /\ UNCHANGED <<active, pc, held, dequeued>>
  <2>1. Queued' = {} /\ Len(queue') = 0 /\ queue' \in Seq(Request)
    BY <1>10, EmptySeq DEF Queued, Range
  <2>2. Cardinality(gone) = Len(queue)
    <3>1. Cardinality(rest) = 0
      BY <1>10, FS_EmptySet
    <3> QED  BY <3>1, <1>3, Sizes
  <2>3. TypeOK'
    BY <1>1, <1>5, <1>6, <1>10, <2>1, Numbers DEF IInv, TypeOK
  <2>4. QueueInv'
    <3>1. Cardinality({}) = 0
      BY FS_EmptySet
    <3>2. 1..0 = {} /\ 2..0 = {}
      OBVIOUS
    <3> QED  BY <2>1, <3>1, <3>2 DEF QueueInv
  <2>5. OwnersInv'
    BY <1>1, <1>8, <1>10, <2>1 DEF IInv, OwnersInv
  <2>6. NobodyForgotten'
    BY <1>1, <1>3, <1>7, <1>10 DEF IInv, NobodyForgotten
  <2>7. ActiveIsTrue'
    BY <1>1, <1>10 DEF IInv, ActiveIsTrue
  <2>8. StatsAddUp'
    <3>1. dequeued' = dequeued /\ enqueued' = enqueued /\ cancelled' = cancelled
      BY <1>1, <1>10
    <3> QED  BY <1>1, <1>9, <2>1, <2>2, <3>1, Sizes DEF StatsAddUp
  <2> QED  BY <2>3, <2>4, <2>5, <2>6, <2>7, <2>8 DEF IInv
<1>11. ASSUME NEW r \in rest,
              queue' \in Heaps(priority, rest \ {r}),
              active' = active \cup {r},
              dequeued' = dequeued + 1,
              pc' = [pc EXCEPT ![k] = "acquiring"],
              held' = [held EXCEPT ![k] = {r}]
       PROVE  IInv'
  <2>1. r \in Queued /\ r \in 1..enqueued /\ r \in Request /\ r \notin gone
    BY <1>3, <1>4
  <2>2. /\ QueueInv' /\ Queued' = rest \ {r}
        /\ queue' \in Seq(Request) /\ Len(queue') = Cardinality(rest \ {r})
    <3>1. enqueued' \in 0..MaxRequests /\ rest \ {r} \in SUBSET (1..enqueued')
          /\ priority' = priority
      BY <1>1, <1>3, <1>4, Sizes
    <3>2. queue' \in Heaps(priority', rest \ {r})
      BY <1>11, <3>1
    <3> QED  BY <3>1, <3>2, HeapStep
  <2>3. Len(queue') = Len(queue) - Cardinality(gone) - 1 /\ Len(queue') \in Nat
    <3>1. Cardinality(rest \ {r}) = Cardinality(rest) - 1
      BY <1>3, <1>11, FS_RemoveElement
    <3>2. Len(queue') \in Nat
      BY <2>2, LenProperties
    <3> QED  BY <3>1, <3>2, <1>3, <2>2
  <2>4. /\ \A j \in Task : held[j] \subseteq (1..enqueued) \ Queued
        /\ \A i, j \in Task : i # j => held[i] \cap held[j] = {}
        /\ held[k] = {}
    BY <1>1 DEF IInv, OwnersInv, TypeOK
  <2>5. \A j \in Task : held'[j] = IF j = k THEN {r} ELSE held[j]
    BY <1>11 DEF IInv, TypeOK
  <2>6. pc' \in [Task -> {"idle", "acquiring", "handling"}]
        /\ \A j \in Task : pc'[j] = IF j = k THEN "acquiring" ELSE pc[j]
    BY <1>11 DEF IInv, TypeOK
  <2>7. TypeOK'
    <3>1. {j \in Task : pc'[j] = "handling"} = {j \in Task : pc[j] = "handling"}
      BY <1>1, <2>6
    <3>2. permits' \in 0..MaxConcurrent
          /\ permits' + Cardinality({j \in Task : pc'[j] = "handling"}) = MaxConcurrent
      BY <1>1, <3>1 DEF IInv, TypeOK
    <3>3. \A j \in Task : IF pc'[j] = "idle" THEN held'[j] = {}
                                             ELSE \E s \in Request : held'[j] = {s}
      BY <2>1, <2>5, <2>6 DEF IInv, TypeOK
    <3>4. Len(queue') <= MaxQueued /\ dequeued' \in Nat
      BY <1>3, <1>6, <1>11, <2>3, Sizes, Numbers
    <3>5. active' \subseteq Request /\ held' \in [Task -> SUBSET Request]
      BY <1>11, <2>1 DEF IInv, TypeOK
    <3> QED  BY <1>1, <1>5, <1>6, <2>2, <2>6, <3>2, <3>3, <3>4, <3>5 DEF IInv, TypeOK
  <2>8. OwnersInv'
    <3>1. \A j \in Task : held'[j] \subseteq (1..enqueued') \ Queued'
      BY <1>1, <1>3, <2>1, <2>2, <2>4, <2>5
    <3>2. \A i, j \in Task : i # j => held'[i] \cap held'[j] = {}
      BY <2>1, <2>4, <2>5
    <3>3. cancelled' \subseteq (1..enqueued') \ Queued'
      BY <1>1, <1>3, <2>2 DEF IInv, OwnersInv
    <3> QED  BY <1>8, <3>1, <3>2, <3>3 DEF OwnersInv
  <2>9. NobodyForgotten'
    <3> SUFFICES ASSUME NEW s \in Request, future'[s] = "pending"
                 PROVE  s \in Queued' \/ (\E j \in Task : held'[j] = {s}) \/ s \in abandoned'
      BY DEF NobodyForgotten
    <3>1. CASE s = r
      BY <2>5, <3>1
    <3>2. CASE s # r /\ s \in Queued
      BY <1>3, <1>7, <2>2, <3>2
    <3>3. CASE \E j \in Task : held[j] = {s}
      <4>1. PICK j \in Task : held[j] = {s}
        BY <3>3
      <4>2. j # k
        BY <2>4, <4>1
      <4> QED  BY <4>1, <4>2, <2>5
    <3>4. CASE s \in abandoned
      BY <1>1, <3>4
    <3> QED  BY <1>7, <3>1, <3>2, <3>3, <3>4 DEF IInv, NobodyForgotten
  <2>10. ActiveIsTrue'
    <3>1. /\ \A j \in Task : held[j] \subseteq active
          /\ \A s \in active : (\E j \in Task : s \in held[j]) \/ s \in abandoned
      BY ActiveElements DEF IInv
    <3>2. \A j \in Task : held'[j] \subseteq active'
      BY <1>11, <2>5, <3>1
    <3>3. ASSUME NEW s \in active' PROVE (\E j \in Task : s \in held'[j]) \/ s \in abandoned'
      <4>1. CASE s = r
        BY <2>5, <4>1
      <4>2. CASE s \in active
        <5>1. CASE s \in abandoned
          BY <1>1, <5>1
        <5>2. ASSUME NEW j \in Task, s \in held[j] PROVE s \in held'[j]
          BY <2>4, <2>5, <5>2
        <5> QED  BY <3>1, <4>2, <5>1, <5>2
      <4> QED  BY <1>11, <4>1, <4>2
    <3> QED  BY <3>2, <3>3, ActiveElements
  <2>11. StatsAddUp'
    <3>1. /\ timedout' = timedout + Cardinality(gone) /\ dequeued' = dequeued + 1
          /\ enqueued' = enqueued /\ cancelled' = cancelled
      BY <1>1, <1>11
    <3>2. enqueued \in Int /\ dequeued \in Int /\ timedout \in Int /\ Len(queue) \in Int
          /\ Cardinality(cancelled) \in Int /\ Cardinality(gone) \in Int
      BY <1>3, Sizes
    <3>3. ASSUME NEW e \in Int, NEW l \in Int, NEW d \in Int, NEW t \in Int, NEW c \in Int,
                 NEW g \in Int, e = l + d + t + c
          PROVE  e = (l - g - 1) + (d + 1) + (t + g) + c
      BY <3>3
    <3>4. enqueued = (Len(queue) - Cardinality(gone) - 1) + (dequeued + 1)
                       + (timedout + Cardinality(gone)) + Cardinality(cancelled)
      BY <1>9, <3>2, <3>3
    <3>5. enqueued = Len(queue') + dequeued' + timedout' + Cardinality(cancelled)
      BY <2>3, <3>1, <3>4
    <3> QED  BY <3>1, <3>5 DEF StatsAddUp
  <2> QED  BY <2>2, <2>7, <2>8, <2>9, <2>10, <2>11 DEF IInv
<1> QED  BY <1>2, <1>10, <1>11

-----------------------------------------------------------------------------
(* The operations that leave the queue alone.                                *)

\* QueueInv and StatsAddUp read the queue, its numbers and the cancelled requests only.
LEMMA QueueUntouched ==
  ASSUME IInv, UNCHANGED <<queue, priority, enqueued, dequeued, timedout, cancelled>>
  PROVE  QueueInv' /\ StatsAddUp' /\ Queued' = Queued
<1>1. Queued' = Queued
  BY DEF Queued
<1> QED  BY <1>1 DEF IInv, QueueInv, StatsAddUp

LEMMA RejectPreserves == ASSUME IInv, Reject PROVE IInv'
<1>1. /\ rejected' = rejected + 1
      /\ UNCHANGED <<queue, priority, future, late, permits, active, pc, held,
                     enqueued, dequeued, timedout, cancelled, abandoned>>
  BY DEF Reject
<1>2. QueueInv' /\ StatsAddUp' /\ Queued' = Queued
  BY <1>1, QueueUntouched
<1>3. TypeOK'
  BY <1>1 DEF IInv, TypeOK
<1>4. OwnersInv' /\ NobodyForgotten' /\ ActiveIsTrue'
  BY <1>1, <1>2 DEF IInv, OwnersInv, NobodyForgotten, ActiveIsTrue
<1> QED  BY <1>2, <1>3, <1>4 DEF IInv

LEMMA ExpirePreserves == ASSUME IInv, NEW r \in Request, Expire(r) PROVE IInv'
<1>1. /\ late' = late \cup {r}
      /\ UNCHANGED <<queue, priority, future, permits, active, pc, held, enqueued, dequeued,
                     timedout, rejected, cancelled, abandoned>>
  BY DEF Expire, counters
<1>2. QueueInv' /\ StatsAddUp' /\ Queued' = Queued
  BY <1>1, QueueUntouched
<1>3. TypeOK'
  BY <1>1 DEF IInv, TypeOK
<1>4. OwnersInv' /\ NobodyForgotten' /\ ActiveIsTrue'
  BY <1>1, <1>2 DEF IInv, OwnersInv, NobodyForgotten, ActiveIsTrue
<1> QED  BY <1>2, <1>3, <1>4 DEF IInv

LEMMA ClientGivesUpPreserves ==
  ASSUME IInv, NEW r \in Request, ClientGivesUp(r)
  PROVE  IInv'
<1>1. /\ future[r] = "pending" /\ future' = [future EXCEPT ![r] = "cancelled"]
      /\ UNCHANGED <<queue, priority, late, permits, active, pc, held, enqueued, dequeued,
                     timedout, rejected, cancelled, abandoned>>
  BY DEF ClientGivesUp, counters
<1>2. QueueInv' /\ StatsAddUp' /\ Queued' = Queued
  BY <1>1, QueueUntouched
<1>3. TypeOK'
  BY <1>1 DEF IInv, TypeOK, Outcome
<1>4. OwnersInv'
  BY <1>1, <1>2 DEF IInv, OwnersInv, TypeOK
<1>5. NobodyForgotten'
  <2>1. \A s \in Request : future'[s] = "pending" => future[s] = "pending"
    BY <1>1 DEF IInv, TypeOK
  <2> QED  BY <1>1, <1>2, <2>1 DEF IInv, NobodyForgotten
<1>6. ActiveIsTrue'
  BY <1>1 DEF IInv, ActiveIsTrue
<1> QED  BY <1>2, <1>3, <1>4, <1>5, <1>6 DEF IInv

\* The permits and the tasks that hold one, when one task enters or leaves.
LEMMA PermitsMove ==
  ASSUME IInv, NEW k \in Task
  PROVE  /\ pc[k] = "acquiring" /\ pc' = [pc EXCEPT ![k] = "handling"] =>
              Cardinality({j \in Task : pc'[j] = "handling"})
                = Cardinality({j \in Task : pc[j] = "handling"}) + 1
         /\ pc[k] = "handling" /\ pc' = [pc EXCEPT ![k] = "idle"] =>
              /\ Cardinality({j \in Task : pc'[j] = "handling"})
                   = Cardinality({j \in Task : pc[j] = "handling"}) - 1
              /\ permits < MaxConcurrent
         /\ pc[k] = "acquiring" /\ pc' = [pc EXCEPT ![k] = "idle"] =>
              {j \in Task : pc'[j] = "handling"} = {j \in Task : pc[j] = "handling"}
         /\ permits \in Nat /\ Cardinality({j \in Task : pc[j] = "handling"}) \in Nat
<1> DEFINE H == {j \in Task : pc[j] = "handling"}
           G == {j \in Task : pc'[j] = "handling"}
<1>1. IsFiniteSet(H) /\ Cardinality(H) \in Nat
  BY FS_Subset, FS_CardinalityType
<1>2. pc \in [Task -> {"idle", "acquiring", "handling"}]
  BY DEF IInv, TypeOK
<1>3. permits \in Nat /\ permits + Cardinality(H) = MaxConcurrent
  BY Numbers DEF IInv, TypeOK
<1>4. ASSUME pc[k] = "acquiring", pc' = [pc EXCEPT ![k] = "handling"]
      PROVE  Cardinality(G) = Cardinality(H) + 1
  <2>1. G = H \cup {k} /\ k \notin H
    BY <1>2, <1>4
  <2> QED  BY <2>1, <1>1, FS_AddElement
<1>5. ASSUME pc[k] = "handling", pc' = [pc EXCEPT ![k] = "idle"]
      PROVE  Cardinality(G) = Cardinality(H) - 1 /\ permits < MaxConcurrent
  <2>1. G = H \ {k} /\ k \in H
    BY <1>2, <1>5
  <2>2. Cardinality(G) = Cardinality(H) - 1
    BY <2>1, <1>1, FS_RemoveElement
  <2>3. Cardinality(H) # 0
    BY <2>1, <1>1, FS_EmptySet
  <2> HIDE DEF H, G
  <2>4. permits < MaxConcurrent
    BY <1>1, <1>3, <2>3, Numbers
  <2> QED  BY <2>2, <2>4
<1>6. ASSUME pc[k] = "acquiring", pc' = [pc EXCEPT ![k] = "idle"]
      PROVE  G = H
  BY <1>2, <1>6
<1> QED  BY <1>1, <1>3, <1>4, <1>5, <1>6

LEMMA AcquirePreserves == ASSUME IInv, NEW k \in Task, Acquire(k) PROVE IInv'
<1>1. /\ pc[k] = "acquiring" /\ permits > 0 /\ permits' = permits - 1
      /\ pc' = [pc EXCEPT ![k] = "handling"]
      /\ UNCHANGED <<queue, priority, future, late, active, held, enqueued, dequeued,
                     timedout, rejected, cancelled, abandoned>>
  BY DEF Acquire, counters
<1>2. QueueInv' /\ StatsAddUp' /\ Queued' = Queued
  BY <1>1, QueueUntouched
<1>3. TypeOK'
  <2>1. permits' \in 0..MaxConcurrent
        /\ permits' + Cardinality({j \in Task : pc'[j] = "handling"}) = MaxConcurrent
    <3>1. permits \in 0..MaxConcurrent
          /\ permits + Cardinality({j \in Task : pc[j] = "handling"}) = MaxConcurrent
      BY DEF IInv, TypeOK
    <3>2. /\ Cardinality({j \in Task : pc'[j] = "handling"})
               = Cardinality({j \in Task : pc[j] = "handling"}) + 1
          /\ Cardinality({j \in Task : pc[j] = "handling"}) \in Nat
      BY <1>1, PermitsMove
    <3> QED  BY <1>1, <3>1, <3>2, Numbers
  <2>2. pc' \in [Task -> {"idle", "acquiring", "handling"}]
    BY <1>1 DEF IInv, TypeOK
  <2>3. \A j \in Task : IF pc'[j] = "idle" THEN held'[j] = {}
                                           ELSE \E s \in Request : held'[j] = {s}
    BY <1>1 DEF IInv, TypeOK
  <2> QED  BY <1>1, <2>1, <2>2, <2>3 DEF IInv, TypeOK
<1>4. OwnersInv'
  BY <1>1, <1>2 DEF IInv, OwnersInv
<1>5. NobodyForgotten'
  BY <1>1, <1>2 DEF IInv, NobodyForgotten
<1>6. ActiveIsTrue'
  BY <1>1 DEF IInv, ActiveIsTrue
<1> QED  BY <1>2, <1>3, <1>4, <1>5, <1>6 DEF IInv

\* A task that goes back to waiting for work gives its request up: its future is settled or
\* it is counted as abandoned, and so it is if it stays among the active ones.
LEMMA LeavingPreserves ==
  ASSUME IInv, NEW k \in Task,
         UNCHANGED <<queue, priority, late, enqueued, dequeued, timedout, rejected, cancelled>>,
         pc[k] # "idle", pc' = [pc EXCEPT ![k] = "idle"], held' = [held EXCEPT ![k] = {}],
         \/ pc[k] = "handling" /\ permits' = permits + 1
         \/ pc[k] = "acquiring" /\ permits' = permits,
         future' \in [Request -> Outcome \cup {"none", "pending"}],
         \A s \in Request : s > enqueued => future'[s] = "none",
         \A s \in Request : future'[s] = "pending" =>
           future[s] = "pending" /\ (held[k] = {s} => s \in abandoned'),
         abandoned \subseteq abandoned', abandoned' \subseteq Request,
         \/ active' = active \ held[k]
         \/ active' = active /\ held[k] \subseteq abandoned'
  PROVE  IInv'
<1>1. QueueInv' /\ StatsAddUp' /\ Queued' = Queued
  BY QueueUntouched
<1>2. \A j \in Task : held'[j] = IF j = k THEN {} ELSE held[j]
  BY DEF IInv, TypeOK
<1>3. \A i, j \in Task : i # j => held[i] \cap held[j] = {}
  BY DEF IInv, OwnersInv
<1>4. TypeOK'
  <2>1. permits' \in 0..MaxConcurrent
        /\ permits' + Cardinality({j \in Task : pc'[j] = "handling"}) = MaxConcurrent
    <3>1. permits \in 0..MaxConcurrent
          /\ permits + Cardinality({j \in Task : pc[j] = "handling"}) = MaxConcurrent
      BY DEF IInv, TypeOK
    <3>2. CASE pc[k] = "handling" /\ permits' = permits + 1
      <4>1. /\ Cardinality({j \in Task : pc'[j] = "handling"})
                 = Cardinality({j \in Task : pc[j] = "handling"}) - 1
            /\ permits < MaxConcurrent
            /\ Cardinality({j \in Task : pc[j] = "handling"}) \in Nat
        BY <3>2, PermitsMove
      <4> QED  BY <3>1, <3>2, <4>1, Numbers
    <3>3. CASE pc[k] = "acquiring" /\ permits' = permits
      <4>1. {j \in Task : pc'[j] = "handling"} = {j \in Task : pc[j] = "handling"}
        BY <3>3, PermitsMove
      <4> QED  BY <3>1, <3>3, <4>1
    <3> QED  BY <3>2, <3>3
  <2>2. pc' \in [Task -> {"idle", "acquiring", "handling"}]
        /\ held' \in [Task -> SUBSET Request] /\ active' \subseteq Request
    BY DEF IInv, TypeOK
  <2>3. \A j \in Task : IF pc'[j] = "idle" THEN held'[j] = {}
                                           ELSE \E s \in Request : held'[j] = {s}
    BY DEF IInv, TypeOK
  <2> QED  BY <2>1, <2>2, <2>3 DEF IInv, TypeOK
<1>5. OwnersInv'
  BY <1>1, <1>2 DEF IInv, OwnersInv
<1>6. NobodyForgotten'
  <2> SUFFICES ASSUME NEW s \in Request, future'[s] = "pending"
               PROVE  s \in Queued \/ (\E j \in Task : held'[j] = {s}) \/ s \in abandoned'
    BY <1>1 DEF NobodyForgotten
  <2>1. CASE s \in Queued \/ s \in abandoned
    BY <2>1
  <2>2. ASSUME NEW j \in Task, held[j] = {s} PROVE held'[j] = {s} \/ s \in abandoned'
    BY <1>2, <2>2
  <2>3. s \in Queued \/ (\E j \in Task : held[j] = {s}) \/ s \in abandoned
    BY DEF IInv, NobodyForgotten
  <2> QED  BY <2>1, <2>2, <2>3
<1>7. ActiveIsTrue'
  <2>1. /\ \A j \in Task : held[j] \subseteq active
        /\ \A s \in active : (\E j \in Task : s \in held[j]) \/ s \in abandoned
    BY ActiveElements DEF IInv
  <2>2. \A j \in Task : held'[j] \subseteq active'
    BY <1>2, <1>3, <2>1
  <2>3. ASSUME NEW s \in active' PROVE (\E j \in Task : s \in held'[j]) \/ s \in abandoned'
    <3>1. s \in active /\ (s \in held[k] => s \in abandoned')
      BY <2>3
    <3>2. ASSUME NEW j \in Task, s \in held[j] PROVE s \in held'[j] \/ s \in abandoned'
      BY <1>2, <3>1, <3>2
    <3> QED  BY <2>1, <3>1, <3>2
  <2> QED  BY <2>2, <2>3, ActiveElements
<1> QED  BY <1>1, <1>4, <1>5, <1>6, <1>7 DEF IInv

LEMMA HandledPreserves == ASSUME IInv, NEW k \in Task, Handled(k) PROVE IInv'
<1>1. /\ pc[k] = "handling" /\ pc' = [pc EXCEPT ![k] = "idle"]
      /\ held' = [held EXCEPT ![k] = {}] /\ active' = active \ held[k]
      /\ permits' = permits + 1
      /\ UNCHANGED <<queue, priority, late, enqueued, dequeued, timedout, rejected, cancelled,
                     abandoned>>
  BY DEF Handled, Leave, counters
<1>2. PICK outcome \in {"result", "exception"} :
        future' = [s \in Request |->
          IF s \in held[k] /\ future[s] = "pending" THEN outcome ELSE future[s]]
  BY DEF Handled, Settle
<1>3. future' \in [Request -> Outcome \cup {"none", "pending"}]
  BY <1>2 DEF IInv, TypeOK, Outcome
<1>4. \A s \in Request : s > enqueued => future'[s] = "none"
  BY <1>2 DEF IInv, OwnersInv
<1>5. \A s \in Request : future'[s] = "pending" => future[s] = "pending" /\ held[k] # {s}
  BY <1>2
<1>6. abandoned' \subseteq Request
  BY <1>1 DEF IInv, TypeOK
<1> QED  BY <1>1, <1>3, <1>4, <1>5, <1>6, LeavingPreserves

LEMMA TaskCancelledPreserves == ASSUME IInv, NEW k \in Task, TaskCancelled(k) PROVE IInv'
<1>1. /\ pc[k] # "idle" /\ pc' = [pc EXCEPT ![k] = "idle"] /\ held' = [held EXCEPT ![k] = {}]
      /\ abandoned' = abandoned \cup held[k]
      /\ \/ pc[k] = "handling" /\ permits' = permits + 1 /\ active' = active \ held[k]
         \/ pc[k] = "acquiring" /\ permits' = permits /\ active' = active
      /\ UNCHANGED <<queue, priority, future, late, enqueued, dequeued, timedout, rejected,
                     cancelled>>
  BY DEF TaskCancelled, Leave, counters
<1>2. future' \in [Request -> Outcome \cup {"none", "pending"}]
  BY <1>1 DEF IInv, TypeOK
<1>3. \A s \in Request : s > enqueued => future'[s] = "none"
  BY <1>1 DEF IInv, OwnersInv
<1>4. \A s \in Request : future'[s] = "pending" =>
        future[s] = "pending" /\ (held[k] = {s} => s \in abandoned')
  BY <1>1
<1>5. abandoned \subseteq abandoned' /\ abandoned' \subseteq Request
      /\ held[k] \subseteq abandoned'
  BY <1>1 DEF IInv, TypeOK
<1> QED  BY <1>1, <1>2, <1>3, <1>4, <1>5, LeavingPreserves

-----------------------------------------------------------------------------
LEMMA StepPreserves == IInv /\ [Next]_vars => IInv'
<1> SUFFICES ASSUME IInv, [Next]_vars PROVE IInv'
  OBVIOUS
<1>1. ASSUME NEW p \in Priority, Enqueue(p) PROVE IInv'
  BY <1>1, EnqueuePreserves
<1>2. CASE Reject
  BY <1>2, RejectPreserves
<1>3. ASSUME NEW r \in Request, Expire(r) PROVE IInv'
  BY <1>3, ExpirePreserves
<1>4. ASSUME NEW r \in Request, Cancel(r) PROVE IInv'
  BY <1>4, CancelPreserves
<1>5. ASSUME NEW r \in Request, ClientGivesUp(r) PROVE IInv'
  BY <1>5, ClientGivesUpPreserves
<1>6. ASSUME NEW k \in Task, Dequeue(k) PROVE IInv'
  BY <1>6, DequeuePreserves
<1>7. ASSUME NEW k \in Task, Acquire(k) PROVE IInv'
  BY <1>7, AcquirePreserves
<1>8. ASSUME NEW k \in Task, Handled(k) PROVE IInv'
  BY <1>8, HandledPreserves
<1>9. ASSUME NEW k \in Task, TaskCancelled(k) PROVE IInv'
  BY <1>9, TaskCancelledPreserves
<1>10. CASE UNCHANGED vars
  BY <1>10, StutterPreserves
<1> QED
  BY <1>1, <1>2, <1>3, <1>4, <1>5, <1>6, <1>7, <1>8, <1>9, <1>10 DEF Next, TaskStep

\* IInv is inductive: every step of the specification keeps it.
THEOREM Invariance == Spec => []IInv
<1>1. Init => IInv
  BY InitEstablishes
<1>2. IInv /\ [Next]_vars => IInv'
  BY StepPreserves
<1> QED  BY <1>1, <1>2, PTL DEF Spec

\* The lists, sets, counters and permits of the queue keep their types and bounds: the
\* queue's limit, and permits that add up with the tasks that hold one.
THEOREM TypeCorrect == Spec => []TypeOK
<1>1. IInv => TypeOK
  BY DEF IInv
<1> QED  BY <1>1, Invariance, PTL

\* peek and dequeue, which look at the first element only, find the request that is before
\* every other.
THEOREM HeadFirst == Spec => []HeadIsFirst
<1>1. IInv => HeadIsFirst
  <2> SUFFICES ASSUME IInv PROVE HeadIsFirst
    OBVIOUS
  <2>1. enqueued \in Nat
    BY Sizes
  <2>2. priority \in [1..enqueued -> Nat]
    BY DEF IInv, TypeOK
  <2>3. queue \in Seq(1..enqueued)
    <3>1. queue \in [1..Len(queue) -> Request] /\ Len(queue) \in Nat
      BY LenProperties DEF IInv, TypeOK
    <3>2. \A i \in 1..Len(queue) : queue[i] \in Queued
      BY <3>1 DEF Queued, Range
    <3>3. queue \in [1..Len(queue) -> 1..enqueued]
      BY <3>1, <3>2 DEF IInv, QueueInv
    <3>4. ASSUME NEW n \in Nat, NEW T, NEW q \in [1..n -> T] PROVE q \in Seq(T)
      OBVIOUS
    <3> QED  BY <3>1, <3>3, <3>4
  <2>4. /\ \A i, j \in 1..Len(queue) : queue[i] = queue[j] => i = j
        /\ \A i \in 2..Len(queue) : ~Before(priority, queue[i], queue[i \div 2])
    BY DEF IInv, QueueInv
  <2> QED  BY <2>1, <2>2, <2>3, <2>4, RootIsFirst DEF HeadIsFirst
<1> QED  BY <1>1, Invariance, PTL

\* A client that waits is known to the queue or to a task, or its task was cancelled.
THEOREM NobodyIsForgotten == Spec => []NobodyForgotten
<1>1. IInv => NobodyForgotten
  BY DEF IInv
<1> QED  BY <1>1, Invariance, PTL

\* stats() tells the active requests and accounts for every request enqueued.
THEOREM StatsTrue == Spec => []StatsAreTrue
<1>1. IInv => StatsAreTrue
  BY DEF IInv, StatsAreTrue
<1> QED  BY <1>1, Invariance, PTL

\* No operation changes a future that is settled: enqueue writes one that is still to come,
\* and the others look at it first.
THEOREM SettledOnce == Spec => OneOutcome
<1> DEFINE Kept == \A r \in Request : future[r] \in Outcome => future'[r] = future[r]
<1>1. IInv /\ [Next]_vars => [Kept]_vars
  <2> SUFFICES ASSUME IInv, Next PROVE Kept
    OBVIOUS
  <2>1. future \in [Request -> Outcome \cup {"none", "pending"}]
    BY DEF IInv, TypeOK
  <2>2. ASSUME NEW p \in Priority, Enqueue(p) PROVE Kept
    <3>1. /\ enqueued < MaxRequests /\ enqueued \in Nat
          /\ future' = [future EXCEPT ![enqueued + 1] = "pending"]
      BY <2>2, Sizes DEF Enqueue
    <3>2. enqueued + 1 \in Request /\ enqueued + 1 > enqueued
      BY <3>1, Numbers DEF Request
    <3>3. future[enqueued + 1] = "none"
      BY <3>2 DEF IInv, OwnersInv
    <3> QED  BY <2>1, <3>1, <3>3 DEF Outcome
  <2>3. ASSUME NEW S, NEW outcome, Settle(S, outcome) PROVE Kept
    BY <2>3 DEF Settle, Outcome
  <2>4. ASSUME NEW k \in Task, Dequeue(k) PROVE Kept
    BY <2>3, <2>4 DEF Dequeue, DropExpired
  <2>5. ASSUME NEW k \in Task, Handled(k) PROVE Kept
    BY <2>3, <2>5 DEF Handled
  <2>6. ASSUME NEW r \in Request, Cancel(r) PROVE Kept
    BY <2>3, <2>6 DEF Cancel
  <2>7. ASSUME NEW r \in Request, ClientGivesUp(r) PROVE Kept
    BY <2>1, <2>7 DEF ClientGivesUp, Outcome
  <2>8. CASE UNCHANGED future
    BY <2>8
  <2>9. Reject \/ (\E r \in Request : Expire(r))
          \/ (\E k \in Task : Acquire(k) \/ TaskCancelled(k)) => UNCHANGED future
    BY DEF Reject, Expire, Acquire, TaskCancelled
  <2> QED  BY <2>2, <2>4, <2>5, <2>6, <2>7, <2>8, <2>9 DEF Next, TaskStep
<1> QED  BY <1>1, Invariance, PTL DEF Spec, OneOutcome
=============================================================================
