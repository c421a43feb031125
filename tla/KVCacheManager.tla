---------------------------- MODULE KVCacheManager ----------------------------
(***************************************************************************)
(* KVCacheManager, the key/value cache of the inference engine, as several   *)
(* threads use it through KVCacheIntelligenceEngine.  store, evict, clear,   *)
(* retrieve and prefetch_upcoming run under one re-entrant lock;             *)
(* retrieve_all and the engine's auto-tuning run outside it.                 *)
(*                                                                          *)
(* Key and value vectors are the number of the store call they came with; 0  *)
(* is a vector no caller stored (a prefetch dummy, a placeholder, a wrong    *)
(* decode).  Sizes are in units of a compressed entry's placeholder.         *)
(***************************************************************************)
EXTENDS Integers, FiniteSets, FiniteSetsExt, Functions

CONSTANTS
  Thread, Layer,
  Position,        \* token positions, numbers
  MaxStores,       \* bound on the store calls of a behaviour
  Method,          \* compression methods tuning may reach: "none", "int8", "int4"
  Full, Stub,      \* byte_size of an uncompressed and of a compressed entry
  Limit,           \* cache_size_limit_gb
  Floor,           \* layers of this many entries are left alone (4 in the code)
  Policy,          \* "any": some entry; "window": StreamingLLMEviction
  Sinks, Keep,     \* its sink_tokens, and window_size - sink_tokens
  Free             \* no thread: the lock is free

ASSUME PositionAssumption ==
  /\ Position \subseteq Nat /\ IsFiniteSet(Position)
  /\ \A p \in Position : 0..p \subseteq Position
ASSUME LayerAssumption == IsFiniteSet(Layer)
ASSUME SizeAssumption ==
  /\ {Full, Stub, Limit} \subseteq Nat \ {0}
  /\ Floor \in Nat /\ MaxStores \in Nat /\ Sinks \in Nat /\ Keep \in Nat
\* Tuning is off, or chooses among all of them.
ASSUME MethodAssumption == Method \in {{"none"}, {"none", "int8", "int4"}}
ASSUME ThreadAssumption == Free \notin Thread

VARIABLES
  cache,           \* _caches: per layer, position -> entry
  packed,          \* _compressed: per layer, position -> encoded vectors
  total,           \* _total_bytes
  method,          \* config.compression_method
  ssd,             \* _ssd_paths: per layer, position -> file (named by a position)
  disk,            \* the files: per layer, file -> vectors
  version,         \* _retrieve_all_version
  memo,            \* _retrieve_all_cache: per layer {} or {[data, ver]}
  lock, pc, job,   \* the lock's holder, and what each thread is doing
  writes,          \* store calls so far
  latest,          \* history: the last value stored per position since clear
  rewritten        \* history: a cached position was stored again since clear

kept == <<cache, packed, total>>
tier == <<ssd, disk>>
vars == <<cache, packed, total, method, ssd, disk, version, memo, lock, pc, job,
          writes, latest, rewritten>>

Value == 0..MaxStores
Partial(S, T) == UNION {[D -> T] : D \in SUBSET S}
Nothing == [p \in {} |-> 0]

\* A dictionary after table[p] = x, and one with the items of another it does not have.
Put(table, p, x) == [q \in DOMAIN table \cup {p} |-> IF q = p THEN x ELSE table[q]]
With(table, more) ==
  [q \in DOMAIN table \cup DOMAIN more |-> IF q \in DOMAIN table THEN table[q] ELSE more[q]]

Entry == [val: Value, compressed: BOOLEAN]
Packet == [val: Value, by: Method]
Memo == [data: Partial(Position, Value), ver: Nat]
NoJob == [layer |-> CHOOSE l \in Layer : TRUE, at |-> 0, todo |-> {},
          data |-> Nothing]

\* The steps of a thread that hold the lock.
Inside == {"enforcing", "dropping", "prefetching"}

TypeOK ==
  /\ cache \in [Layer -> Partial(Position, Entry)]
  /\ packed \in [Layer -> Partial(Position, Packet)]
  /\ total \in Nat
  /\ method \in Method
  /\ ssd \in [Layer -> Partial(Position, Position)]
  /\ disk \in [Layer -> Partial(Position, Value)]
  /\ version \in Nat
  /\ \A l \in Layer : memo[l] = {} \/ \E m \in memo[l] : memo[l] = {m}
  /\ lock \in Thread \cup {Free}
  /\ pc \in [Thread -> Inside \cup {"idle", "probed", "fetched"}]
  /\ \A t \in Thread : lock = t <=> pc[t] \in Inside
  /\ writes \in 0..MaxStores

-----------------------------------------------------------------------------
(* Sizes, pressure and the method it selects.                               *)

Size(e) == IF e.compressed THEN Stub ELSE Full
BytesOf(c) ==
  LET stubs == {p \in DOMAIN c : c[p].compressed}
  IN  Stub * Cardinality(stubs) + Full * Cardinality(DOMAIN c \ stubs)
Memory(ch) == SumFunction([l \in Layer |-> BytesOf(ch[l])])

\* _get_cache_pressure() > k/10; the pressure is 1 at a hundredth of the limit.
PressureOver(k) == 1000 * Memory(cache) > k * Limit

\* _select_compression_method, with the methods that share a codec identified.
SelectMethod ==
  CASE method = "none"  -> "none"
    [] method # "none" /\ PressureOver(8)  -> "int4"
    [] method # "none" /\ ~PressureOver(8) /\ PressureOver(4) -> "int8"
    [] OTHER -> method

\* KVCacheIntelligenceEngine._select_method_for_pressure.
MethodForPressure ==
  IF 1000 * Memory(cache) >= 8 * Limit THEN "int4"
  ELSE IF 1000 * Memory(cache) >= 5 * Limit THEN "int8"
  ELSE "none"

-----------------------------------------------------------------------------
(* Eviction.                                                                *)

Largest(S, n) == {p \in S : Cardinality({q \in S : q > p}) < n}

\* The sets that n calls of select_eviction may take from the positions ps.
\* StreamingLLMEviction takes the newest one while more than Keep lie behind
\* the sinks, and then returns -1, which ends the eviction.
Removals(ps, n) ==
  IF Policy = "any"
    THEN {S \in SUBSET ps : Cardinality(S) = Min({n, Cardinality(ps)})}
    ELSE LET c == {p \in ps : p >= Sinks}
         IN  {Largest(c, Min({n, Max({0, Cardinality(c) - Keep})}))}

Without(f, S) == Restrict(f, DOMAIN f \ S)

\* Mutant: the freed bytes are not taken off the total.
DropUncounted(l, S) ==
  /\ cache' = [cache EXCEPT ![l] = Without(@, S)]
  /\ packed' = [packed EXCEPT ![l] = Without(@, S)]
  /\ ssd' = [ssd EXCEPT ![l] = Without(@, S)]
  /\ disk' = [disk EXCEPT ![l] = Without(@, {ssd[l][p] : p \in S \cap DOMAIN ssd[l]})]
  /\ UNCHANGED total

\* What evict does with the entries its policy chose: they leave every table,
\* and their tier file is removed.
Drop(l, S) ==
  /\ cache' = [cache EXCEPT ![l] = Without(@, S)]
  /\ packed' = [packed EXCEPT ![l] = Without(@, S)]
  /\ ssd' = [ssd EXCEPT ![l] = Without(@, S)]
  /\ disk' = [disk EXCEPT ![l] = Without(@, {ssd[l][p] : p \in S \cap DOMAIN ssd[l]})]
  /\ total' = Max({0, total - BytesOf(Restrict(cache[l], S))})

-----------------------------------------------------------------------------
Init ==
  /\ cache = [l \in Layer |-> Nothing]
  /\ packed = [l \in Layer |-> Nothing]
  /\ total = 0
  /\ method = "none"
  /\ ssd = [l \in Layer |-> Nothing]
  /\ disk = [l \in Layer |-> Nothing]
  /\ version = 0
  /\ memo = [l \in Layer |-> {}]
  /\ lock = Free
  /\ pc = [t \in Thread |-> "idle"]
  /\ job = [t \in Thread |-> NoJob]
  /\ writes = 0
  /\ latest = [l \in Layer |-> Nothing]
  /\ rewritten = FALSE

-----------------------------------------------------------------------------
(* store.                                                                   *)

\* _tier_check: over about half of the limit, some entry of a layer of three
\* or more is copied to a file named after the position being stored.
TierCheck(l, pos) ==
  IF 1000 * Memory(cache') > 477 * Limit /\ Cardinality(DOMAIN cache'[l]) >= 3
    THEN \E p \in DOMAIN cache'[l] :
           /\ ssd' = [ssd EXCEPT ![l] = Put(@, p, pos)]
           /\ disk' = [disk EXCEPT ![l] = Put(@, pos, cache'[l][p].val)]
    ELSE UNCHANGED tier

\* Mutant: a packet of an earlier store is kept.
PacketsKept(l, pos, m, val) ==
  IF m = "none" THEN packed[l] ELSE With(packed[l], Put(Nothing, pos, [val |-> val, by |-> m]))

\* The compressed vectors of a layer after a store.
Packets(l, pos, m, val) ==
  IF m = "none" THEN packed[l] ELSE Put(packed[l], pos, [val |-> val, by |-> m])

\* Mutant: store does not invalidate the cached results of retrieve_all.
InvalidateNothing == UNCHANGED version

Invalidate == version' = version + 1

\* The size the loop of _enforce_limit evicts down to.
Target(bytes) == bytes - (4 * Limit) \div 5

\* _auto_tune may turn compression on at every fiftieth step.
Tuned == {method} \cup ({"int8"} \cap IF method = "none" THEN Method ELSE {})

\* Mutant: an early return that does not release the lock.
LeaveLocked(t) ==
  /\ pc' = [pc EXCEPT ![t] = "idle"]
  /\ job' = [job EXCEPT ![t] = NoJob]
  /\ UNCHANGED lock

Leave(t) ==
  /\ lock' = Free
  /\ pc' = [pc EXCEPT ![t] = "idle"]
  /\ job' = [job EXCEPT ![t] = NoJob]

Continue(t, place, j) ==
  /\ lock' = t
  /\ pc' = [pc EXCEPT ![t] = place]
  /\ job' = [job EXCEPT ![t] = j]

\* After a store: a store of prefetch_upcoming is followed by an eviction.
StoreDone(t, j) ==
  /\ method' \in Tuned
  /\ IF j.todo = {} THEN Leave(t) ELSE Continue(t, "dropping", j)

\* store up to the loop of _enforce_limit.  The method is selected before the
\* entry is there; an entry stored over another is counted again.
Insert(t, l, pos, val, todo) ==
  LET m == SelectMethod
      e == [val |-> IF m = "none" THEN val ELSE 0, compressed |-> m # "none"]
      j == [NoJob EXCEPT !.layer = l, !.todo = todo, !.at = Target(total')]
  IN  /\ writes < MaxStores
      /\ writes' = writes + 1
      /\ cache' = [cache EXCEPT ![l] = Put(@, pos, e)]
      /\ packed' = [packed EXCEPT ![l] = Packets(l, pos, m, val)]
      /\ total' = total + Size(e)
      /\ Invalidate
      /\ TierCheck(l, pos)
      /\ \/ total' > Limit /\ Continue(t, "enforcing", j) /\ UNCHANGED method
         \/ total' <= Limit /\ StoreDone(t, j)
      /\ rewritten' = (rewritten \/ pos \in DOMAIN cache[l])
      /\ latest' = [latest EXCEPT ![l] = Put(@, pos, val)]
      /\ UNCHANGED memo

Store(t, l, pos) ==
  /\ lock = Free
  /\ pc[t] = "idle"
  /\ Insert(t, l, pos, writes + 1, {})

\* An iteration of _enforce_limit: a tenth of the largest layer goes.
Busiest == {l \in Layer : \A k \in Layer :
              Cardinality(DOMAIN cache[k]) <= Cardinality(DOMAIN cache[l])}

Crowded(l) == Cardinality(DOMAIN cache[l]) > Floor

EnforceStep(t) ==
  /\ pc[t] = "enforcing"
  /\ total > job[t].at
  /\ \E l \in Busiest :
       /\ Crowded(l)
       /\ \E S \in Removals(DOMAIN cache[l],
                            Max({1, Cardinality(DOMAIN cache[l]) \div 10})) :
            Drop(l, S)
  /\ UNCHANGED <<method, version, memo, lock, pc, job, writes, latest, rewritten>>

\* Mutant: the loop has no exit but its target, and spins.
EnforceToTheEnd(t) ==
  /\ pc[t] = "enforcing"
  /\ IF total <= job[t].at THEN StoreDone(t, job[t]) ELSE UNCHANGED <<method, lock, pc, job>>
  /\ UNCHANGED <<kept, tier, version, memo, writes, latest, rewritten>>

EnforceDone(t) ==
  /\ pc[t] = "enforcing"
  /\ total <= job[t].at \/ \E l \in Busiest : ~Crowded(l)
  /\ StoreDone(t, job[t])
  /\ UNCHANGED <<kept, tier, version, memo, writes, latest, rewritten>>

-----------------------------------------------------------------------------
(* prefetch_upcoming for one token: in every layer a dummy is stored after   *)
(* the last position, and an entry of the policy's choice evicted.           *)

Prefetch(t) ==
  LET todo == {l \in Layer : DOMAIN cache[l] # {}}
  IN  /\ lock = Free
      /\ pc[t] = "idle"
      /\ todo # {}
      /\ writes + Cardinality(todo) <= MaxStores
      /\ \A l \in todo : Max(DOMAIN cache[l]) + 1 \in Position
      /\ Continue(t, "prefetching", [NoJob EXCEPT !.todo = todo])
      /\ UNCHANGED <<kept, method, tier, version, memo, writes, latest, rewritten>>

PrefetchStore(t) ==
  /\ pc[t] = "prefetching"
  /\ \E l \in job[t].todo :
       /\ DOMAIN cache[l] # {}
       /\ Insert(t, l, Max(DOMAIN cache[l]) + 1, 0, job[t].todo)

PrefetchDrop(t) ==
  LET l == job[t].layer
      todo == job[t].todo \ {l}
  IN  /\ pc[t] = "dropping"
      /\ \E S \in Removals(DOMAIN cache[l], 1) : Drop(l, S)
      /\ IF todo = {} THEN Leave(t)
                      ELSE Continue(t, "prefetching", [NoJob EXCEPT !.todo = todo])
      /\ UNCHANGED <<method, version, memo, writes, latest, rewritten>>

-----------------------------------------------------------------------------
(* The other operations.                                                    *)

\* The data of an entry as retrieve decodes it now: with the method selected
\* now, whatever it was compressed with.
Decoded(l, p) ==
  IF cache[l][p].compressed /\ p \in DOMAIN packed[l]
    THEN IF packed[l][p].by = SelectMethod THEN packed[l][p].val ELSE 0
    ELSE cache[l][p].val

Evict(t, l, n) ==
  /\ lock = Free
  /\ pc[t] = "idle"
  /\ DOMAIN cache[l] # {}
  /\ \E S \in Removals(DOMAIN cache[l], n) : Drop(l, S)
  /\ UNCHANGED <<method, version, memo, lock, pc, job, writes, latest, rewritten>>

\* clear: the files of the tier stay behind.
Clear(t) ==
  /\ lock = Free
  /\ pc[t] = "idle"
  /\ cache' = [l \in Layer |-> Nothing]
  /\ packed' = [l \in Layer |-> Nothing]
  /\ total' = 0
  /\ ssd' = [l \in Layer |-> Nothing]
  /\ version' = 0
  /\ memo' = [l \in Layer |-> {}]
  /\ latest' = [l \in Layer |-> Nothing]
  /\ rewritten' = FALSE
  /\ UNCHANGED <<method, disk, lock, pc, job, writes>>

\* The engine's _maybe_auto_tune, before a store and outside the lock: the
\* method for the pressure, or none when the accuracy has degraded.
AutoTune(t) ==
  /\ pc[t] = "idle"
  /\ method' \in Method \cap {MethodForPressure, "none"}
  /\ UNCHANGED <<kept, tier, version, memo, lock, pc, job, writes, latest, rewritten>>

\* What retrieve_all would return without looking at the layer.
Served(l) == {m \in memo[l] : m.ver = version}

\* retrieve_all, first without the lock: the cached result is out of date, the
\* range of positions is taken.
Probe(t, l) ==
  /\ pc[t] = "idle"
  /\ DOMAIN cache[l] # {}
  /\ Served(l) = {}
  /\ pc' = [pc EXCEPT ![t] = "probed"]
  /\ job' = [job EXCEPT ![t] =
       [NoJob EXCEPT !.layer = l,
                     !.data = [p \in Min(DOMAIN cache[l])..Max(DOMAIN cache[l]) |-> 0]]]
  /\ UNCHANGED <<kept, tier, method, version, memo, lock, writes, latest, rewritten>>

\* retrieve: what the tier has of the missing positions is put into the cache,
\* and what is there is decoded.
OnTier(l) == {p \in DOMAIN ssd[l] : ssd[l][p] \in DOMAIN disk[l]}

Loaded(l, range) ==
  [p \in (range \cap OnTier(l)) \ DOMAIN cache[l] |->
     [val |-> disk[l][ssd[l][p]], compressed |-> FALSE]]

Fetch(t) ==
  LET l == job[t].layer
      range == DOMAIN job[t].data
      loaded == Loaded(l, range)
  IN  /\ pc[t] = "probed"
      /\ lock = Free
      /\ cache' = [cache EXCEPT ![l] = With(@, loaded)]
      /\ job' = [job EXCEPT ![t].data =
           With([p \in range \cap DOMAIN cache[l] |-> Decoded(l, p)],
                [p \in DOMAIN loaded |-> loaded[p].val])]
      /\ pc' = [pc EXCEPT ![t] = "fetched"]
      /\ UNCHANGED <<packed, total, tier, method, version, memo, lock, writes,
                     latest, rewritten>>

\* A decode with the wrong codec may raise; the tier's entries stay loaded.
FetchRaises(t) ==
  LET l == job[t].layer
      range == DOMAIN job[t].data
  IN  /\ pc[t] = "probed"
      /\ lock = Free
      /\ \E p \in range \cap DOMAIN cache[l] :
           /\ cache[l][p].compressed
           /\ p \in DOMAIN packed[l] /\ packed[l][p].by # SelectMethod
      /\ pc' = [pc EXCEPT ![t] = "idle"]
      /\ job' = [job EXCEPT ![t] = NoJob]
      /\ cache' = [cache EXCEPT ![l] = With(@, Loaded(l, range))]
      /\ UNCHANGED <<packed, total, tier, method, version, memo, lock, writes,
                     latest, rewritten>>

\* The result is cached under the version of now, not that of the fetch.
Memoize(t) ==
  /\ pc[t] = "fetched"
  /\ memo' = [memo EXCEPT ![job[t].layer] = {[data |-> job[t].data, ver |-> version]}]
  /\ pc' = [pc EXCEPT ![t] = "idle"]
  /\ job' = [job EXCEPT ![t] = NoJob]
  /\ UNCHANGED <<kept, tier, method, version, lock, writes, latest, rewritten>>

-----------------------------------------------------------------------------
LockedStep(t) ==
  EnforceStep(t) \/ EnforceDone(t) \/ PrefetchStore(t) \/ PrefetchDrop(t)

ThreadStep(t) ==
  \/ \E l \in Layer, pos \in Position : Store(t, l, pos)
  \/ Prefetch(t)
  \/ \E l \in Layer, n \in 1..2 : Evict(t, l, n)
  \/ Clear(t)
  \/ AutoTune(t)
  \/ \E l \in Layer : Probe(t, l)
  \/ Fetch(t)
  \/ FetchRaises(t)
  \/ Memoize(t)

Next == \E t \in Thread : ThreadStep(t) \/ LockedStep(t)

Spec == Init /\ [][Next]_vars

\* The thread that holds the lock goes on.
FairSpec == Spec /\ \A t \in Thread : WF_vars(LockedStep(t))

-----------------------------------------------------------------------------
(* Properties.                                                              *)

\* Every cached vector is the one stored last for its position, however
\* compressed and uncompressed stores, evictions and clears alternate; and no
\* table remembers a position the cache has forgotten.  In particular the tier
\* only holds copies of what is in memory: an evicted position is never there.
NewestIsKept ==
  \A l \in Layer :
    /\ DOMAIN packed[l] \cup DOMAIN ssd[l] \subseteq DOMAIN cache[l]
    /\ \A p \in DOMAIN cache[l] :
         LET e == cache[l][p]
         IN  IF e.compressed
               THEN p \in DOMAIN packed[l] /\ packed[l][p].val = latest[l][p]
               ELSE e.val = latest[l][p]

\* The byte counter that eviction goes by never falls short of the memory in
\* use, and is exact as long as no position was stored twice.  Whenever no store
\* is under way it is within the limit, or no layer has more entries than are
\* always left alone.
MemoryBounded ==
  /\ total >= Memory(cache)
  /\ ~rewritten => total = Memory(cache)
  /\ lock = Free => total <= Limit \/ \A l \in Layer : ~Crowded(l)

\* What retrieve_all would return at once holds every cached position, none
\* with a vector older than the last one stored.
ServedIsNewest ==
  \A l \in Layer : \A m \in Served(l) : \A p \in DOMAIN cache[l] :
    p \in DOMAIN m.data /\ m.data[p] \in {0, latest[l][p]}

\* A store that has taken the lock gives it back.
StoreReturns == \A t \in Thread : lock = t ~> lock = Free

\* The docstring of CacheCompressor.decompress: the method is the one "used
\* during compress".  (Refuted: retrieve passes the one selected now.)
DecodesWithItsMethod ==
  \A l \in Layer : \A p \in DOMAIN packed[l] \cap DOMAIN cache[l] :
    cache[l][p].compressed => packed[l][p].by = SelectMethod
=============================================================================
