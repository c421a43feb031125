--------------------------- MODULE AsyncPrefetcher ---------------------------
(***************************************************************************)
(* AsyncPrefetcher of inference/streaming_engine.py: a thread per layer that is      *)
(* read ahead, a small buffer of finished layers, and a worker thread that only       *)
(* waits.  Every access is under one lock; between them a thread reads the file, and   *)
(* may fail both ways of opening it.  The engine is one thread: while it waits it       *)
(* asks for nothing.  Layers are numbered; a layer's bytes are never told apart.        *)
(***************************************************************************)
EXTENDS Naturals, FiniteSets

CONSTANTS
  NLayers,
  RingDepth,        \* ring_depth
  BufferMax,        \* _buffer_max
  MaxReadErrors       \* bound: reads that fail

ASSUME PrefetchAssumption ==
  /\ NLayers \in Nat /\ RingDepth \in Nat \ {0} /\ BufferMax \in Nat \ {0}
  /\ MaxReadErrors \in Nat

VARIABLES
  buffer,           \* _buffer: the layers read and not yet taken
  pending,          \* _pending
  reading,          \* the layers some thread is reading
  died,         \* how many readers died of an error
  engine,           \* what the engine's thread does: "runs", or "waits" in wait_pending
  worker            \* the worker: "runs", "closing" once close was called, "ended"

prefetchVars == <<buffer, pending, reading, died, engine, worker>>

LayerIndex == 0..(NLayers - 1)

PrefetchInit ==
  /\ buffer = {} /\ pending = {} /\ reading = {}
  /\ died = 0
  /\ engine = "runs"
  /\ worker = "runs"

\* Mutant: a layer that lies in the buffer is asked for again.
WantedAgain(l) == l \notin pending /\ Cardinality(pending) < RingDepth

Wanted(l) == l \notin buffer \cup pending /\ Cardinality(pending) < RingDepth

\* The engine asks for a layer; after close too, in a thread nobody waits for.
Prefetch(l) ==
  /\ engine = "runs"
  /\ Wanted(l)
  /\ pending' = pending \cup {l}
  /\ reading' = reading \cup {l}
  /\ UNCHANGED <<buffer, died, engine, worker>>

\* The buffer forgets its lowest layers first, not the ones it has had longest.
Trimmed(layers) ==
  IF Cardinality(layers) <= BufferMax THEN layers
  ELSE layers \ {CHOOSE l \in layers : \A k \in layers : l <= k}

ReadEnds(l) ==
  /\ l \in reading
  /\ reading' = reading \ {l}
  /\ pending' = pending \ {l}
  /\ buffer' = Trimmed(buffer \cup {l})
  /\ UNCHANGED <<died, engine, worker>>

\* Both ways of opening the file fail: the thread dies, the layer stays pending.
ReadFails(l) ==
  /\ l \in reading
  /\ died < MaxReadErrors
  /\ died' = died + 1
  /\ reading' = reading \ {l}
  /\ UNCHANGED <<buffer, pending, engine, worker>>

GetPrefetched(l) ==
  /\ engine = "runs"
  /\ l \in buffer
  /\ buffer' = buffer \ {l}
  /\ UNCHANGED <<pending, reading, died, engine, worker>>

WaitPending ==
  /\ engine = "runs"
  /\ pending # {}
  /\ engine' = "waits"
  /\ UNCHANGED <<buffer, pending, reading, died, worker>>

WaitOver ==
  /\ engine = "waits"
  /\ pending = {}
  /\ engine' = "runs"
  /\ UNCHANGED <<buffer, pending, reading, died, worker>>

Close ==
  /\ engine = "runs" /\ worker = "runs"
  /\ worker' = "closing"
  /\ UNCHANGED <<buffer, pending, reading, died, engine>>

\* The worker wakes up, at the latest after its timeout, and sees that it is over.
WorkerEnds ==
  /\ worker = "closing"
  /\ worker' = "ended"
  /\ UNCHANGED <<buffer, pending, reading, died, engine>>

PrefetchNext ==
  \/ \E l \in LayerIndex : Prefetch(l) \/ ReadEnds(l) \/ ReadFails(l) \/ GetPrefetched(l)
  \/ WaitPending \/ WaitOver
  \/ Close \/ WorkerEnds

PrefetchSpec == PrefetchInit /\ [][PrefetchNext]_prefetchVars

-----------------------------------------------------------------------------
PrefetchTypeOK ==
  /\ buffer \subseteq LayerIndex /\ pending \subseteq LayerIndex
  /\ reading \subseteq pending
  /\ died \in 0..MaxReadErrors
  /\ engine \in {"runs", "waits"}
  /\ worker \in {"runs", "closing", "ended"}

\* A layer is never read while it lies in the buffer, by two threads at once or by more
\* threads than the ring is deep, and a layer stays pending without a reader only if its
\* reader died.
ReadOnce ==
  /\ buffer \cap pending = {}
  /\ Cardinality(pending) <= RingDepth
  /\ Cardinality(buffer) <= BufferMax
  /\ Cardinality(pending \ reading) = died

=============================================================================
