------------------------------ MODULE L3DCache ------------------------------
(***************************************************************************)
(* L3DCache of inference/streaming_engine.py: layers of compressed coefficients in    *)
(* one arena of bytes, placed first-fit and evicted by last use.  One lock is held by   *)
(* each operation, so that only the loop of `store' that evicts takes more than one      *)
(* step.  A byte of the arena is known by the layer it was stored for.                     *)
(***************************************************************************)
EXTENDS Selection, FiniteSets, SequencesExt, Functions

CONSTANTS
  CachedLayer,
  ArenaSize         \* max_bytes

ASSUME ArenaAssumption == ArenaSize \in Nat \ {0}

VARIABLES
  arena,            \* _arena
  entries,          \* _entries: where each layer lies and how long it is
  lruTicks,         \* _lru_ticks, as the order of last use
  usedBytes,        \* used_bytes
  storing           \* the store whose loop evicts, or Nothing

arenaVars == <<arena, entries, lruTicks, usedBytes, storing>>

NoStore == <<>>
NoLayer == "zero"
Layers == DOMAIN entries
LastUsed(order, l) == Append(Minus(order, {l}), l)
Bytewise(e) == e.offset..(e.offset + e.size - 1)
SizesOf(table) == SumFunction([l \in DOMAIN table |-> table[l].size])

ArenaInit ==
  /\ arena = [i \in 0..(ArenaSize - 1) |-> NoLayer]
  /\ entries = <<>>
  /\ lruTicks = <<>>
  /\ usedBytes = 0
  /\ storing = NoStore

\* _find_free_slot: the first gap before, between or behind the entries that is large
\* enough.
Gap(offset, needed) ==
  /\ offset + needed <= ArenaSize
  /\ \A l \in Layers : Bytewise(entries[l]) \cap (offset..(offset + needed - 1)) = {}
\* Mutant: a slot is good when its first byte is free.
SlotsByStart(needed) ==
  {offset \in {0} \cup {entries[l].offset + entries[l].size : l \in Layers} :
     Gap(offset, 1) /\ offset + needed <= ArenaSize}

Slots(needed) ==
  {offset \in {0} \cup {entries[l].offset + entries[l].size : l \in Layers} : Gap(offset, needed)}
FirstOf(slots) == CHOOSE i \in slots : \A j \in slots : i <= j

\* Mutant: a store larger than the arena is not turned away.
StoreStartsAny(l, needed) ==
  /\ storing = NoStore
  /\ storing' = [layer |-> l, size |-> needed]
  /\ UNCHANGED <<arena, entries, lruTicks, usedBytes>>

StoreStarts(l, needed) ==
  /\ storing = NoStore
  /\ needed <= ArenaSize
  /\ storing' = [layer |-> l, size |-> needed]
  /\ UNCHANGED <<arena, entries, lruTicks, usedBytes>>

LessLayer(table, l) == [k \in DOMAIN table \ {l} |-> table[k]]

\* _evict_oldest; when there is no entry, the loop goes round without doing anything.
EvictOldest ==
  LET oldest == Head(lruTicks) IN
  /\ storing # NoStore
  /\ usedBytes + storing.size > ArenaSize
  /\ Layers # {}
  /\ entries' = LessLayer(entries, oldest)
  /\ lruTicks' = Tail(lruTicks)
  /\ usedBytes' = usedBytes - entries[oldest].size
  /\ UNCHANGED <<arena, storing>>

\* The layer is written where there is room.  A layer that was there already is counted
\* once more, and its former place is forgotten, not freed from the count.
With(table, l, e) == [k \in DOMAIN table \cup {l} |-> IF k = l THEN e ELSE table[k]]

StoreEnds ==
  LET l == storing.layer
      slots == Slots(storing.size)
      offset == FirstOf(slots)
      e == [offset |-> offset, size |-> storing.size]
  IN
  /\ storing # NoStore
  /\ usedBytes + storing.size <= ArenaSize
  /\ storing' = NoStore
  /\ IF slots = {} THEN UNCHANGED <<arena, entries, lruTicks, usedBytes>>
     ELSE /\ arena' = [i \in DOMAIN arena |-> IF i \in Bytewise(e) THEN l ELSE arena[i]]
          /\ entries' = With(entries, l, e)
          /\ lruTicks' = LastUsed(lruTicks, l)
          /\ usedBytes' = usedBytes + storing.size

LoadLayer(l) ==
  /\ storing = NoStore
  /\ l \in Layers
  /\ lruTicks' = LastUsed(lruTicks, l)
  /\ UNCHANGED <<arena, entries, usedBytes, storing>>

ClearArena ==
  /\ storing = NoStore
  /\ entries' = <<>>
  /\ lruTicks' = <<>>
  /\ usedBytes' = 0
  /\ UNCHANGED <<arena, storing>>

ArenaNext ==
  \/ \E l \in CachedLayer, n \in 1..(ArenaSize + 1) : StoreStarts(l, n)
  \/ EvictOldest \/ StoreEnds
  \/ \E l \in CachedLayer : LoadLayer(l)
  \/ ClearArena

\* A store that was started goes on: it holds the lock.
ArenaFairness == WF_arenaVars(EvictOldest) /\ WF_arenaVars(StoreEnds)

ArenaSpec == ArenaInit /\ [][ArenaNext]_arenaVars /\ ArenaFairness

-----------------------------------------------------------------------------
ArenaTypeOK ==
  /\ Layers \subseteq CachedLayer
  /\ \A l \in Layers : Bytewise(entries[l]) \subseteq DOMAIN arena
  /\ ToSet(lruTicks) = Layers /\ Len(lruTicks) = Cardinality(Layers)
  /\ usedBytes \in 0..ArenaSize

\* load returns bytes of that layer only: no store wrote over another layer's entry,
\* wherever evictions and repeated stores left gaps.
LoadsWhatWasStored ==
  \A l \in Layers : \A i \in Bytewise(entries[l]) : arena[i] = l

\* A store ends, unless the counter has drifted: then its loop may find nothing left to
\* evict and run for ever, with the lock held.
StoreFinishes == storing # NoStore ~> (storing = NoStore \/ usedBytes > SizesOf(entries))
=============================================================================
