------------------------- MODULE KVCacheManagerProofs -------------------------
(***************************************************************************)
(* KVCacheManager for any threads, layers, positions, methods and limits: the types, *)
(* NewestIsKept and, with the hypotheses they need, MemoryBounded and ServedIsNewest. *)
(***************************************************************************)
EXTENDS KVCacheManager, DataLemmas

\* Each table has a row for every layer.
Tables ==
  /\ DOMAIN cache = Layer /\ DOMAIN packed = Layer /\ DOMAIN ssd = Layer
  /\ DOMAIN latest = Layer
  /\ cache = [l \in Layer |-> cache[l]] /\ packed = [l \in Layer |-> packed[l]]
  /\ ssd = [l \in Layer |-> ssd[l]] /\ latest = [l \in Layer |-> latest[l]]

\* One layer of NewestIsKept, of rows c of the cache, k of the packets, s of the tier's
\* index and v of the values stored last, which knows every position in the cache.
Agree(c, k, s, v) ==
  /\ DOMAIN k \cup DOMAIN s \subseteq DOMAIN c
  /\ DOMAIN c \subseteq DOMAIN v
  /\ \A p \in DOMAIN c :
       IF c[p].compressed THEN p \in DOMAIN k /\ k[p].val = v[p] ELSE c[p].val = v[p]

IInv == Tables /\ \A l \in Layer : Agree(cache[l], packed[l], ssd[l], latest[l])

-----------------------------------------------------------------------------
\* Rows that agree still do without the positions S.
LEMMA WithoutAgrees ==
  ASSUME NEW c, NEW k, NEW s, NEW v, NEW S, Agree(c, k, s, v)
  PROVE  Agree(Without(c, S), Without(k, S), Without(s, S), v)
BY DEF Agree, Without, Restrict

\* A store replaces what the rows say of its position, and the tier may copy an entry.
LEMMA InsertAgrees ==
  ASSUME NEW c, NEW k, NEW s, NEW v, NEW pos, NEW m, NEW val, NEW s2, NEW e, NEW k2,
         Agree(c, k, s, v),
         e = [val |-> IF m = "none" THEN val ELSE 0, compressed |-> m # "none"],
         k2 = IF m = "none" THEN k ELSE Put(k, pos, [val |-> val, by |-> m]),
         DOMAIN s2 \subseteq DOMAIN s \cup DOMAIN c \cup {pos}
  PROVE  Agree(Put(c, pos, e), k2, s2, Put(v, pos, val))
<1> DEFINE c2 == Put(c, pos, e)
           v2 == Put(v, pos, val)
           x == [val |-> val, by |-> m]
<1>1. /\ DOMAIN c2 = DOMAIN c \cup {pos} /\ c2[pos] = e
      /\ \A p \in DOMAIN c : p # pos => c2[p] = c[p]
  BY DEF Put
<1>2. /\ DOMAIN v2 = DOMAIN v \cup {pos} /\ v2[pos] = val
      /\ \A p \in DOMAIN v : p # pos => v2[p] = v[p]
  BY DEF Put
<1> HIDE DEF c2, v2
<1>3. /\ DOMAIN k \cup DOMAIN s \subseteq DOMAIN c /\ DOMAIN c \subseteq DOMAIN v
      /\ \A p \in DOMAIN c :
           IF c[p].compressed THEN p \in DOMAIN k /\ k[p].val = v[p] ELSE c[p].val = v[p]
  BY DEF Agree
<1>4. e.compressed = (m # "none") /\ e.val = IF m = "none" THEN val ELSE 0
  OBVIOUS
<1>5. /\ DOMAIN k \subseteq DOMAIN k2 /\ DOMAIN k2 \subseteq DOMAIN k \cup {pos}
      /\ \A p \in DOMAIN k : p # pos => k2[p] = k[p]
      /\ m # "none" => pos \in DOMAIN k2 /\ k2[pos].val = val
  <2>1. CASE m = "none"
    BY <2>1
  <2>2. CASE m # "none"
    <3>1. k2 = [q \in DOMAIN k \cup {pos} |-> IF q = pos THEN x ELSE k[q]]
      BY <2>2 DEF Put
    <3>2. x.val = val
      OBVIOUS
    <3> HIDE DEF x
    <3> QED  BY <3>1, <3>2
  <2> QED  BY <2>1, <2>2
<1>6. DOMAIN k2 \cup DOMAIN s2 \subseteq DOMAIN c2 /\ DOMAIN c2 \subseteq DOMAIN v2
  BY <1>1, <1>2, <1>3, <1>5
<1>7. ASSUME NEW p \in DOMAIN c2
      PROVE  IF c2[p].compressed THEN p \in DOMAIN k2 /\ k2[p].val = v2[p]
                                 ELSE c2[p].val = v2[p]
  <2>1. CASE p = pos
    BY <1>1, <1>2, <1>4, <1>5, <2>1
  <2>2. CASE p # pos
    <3>1. p \in DOMAIN c /\ c2[p] = c[p] /\ v2[p] = v[p]
      BY <1>1, <1>2, <1>3, <2>2
    <3>2. p \in DOMAIN k => k2[p] = k[p]
      BY <1>5, <2>2
    <3> QED  BY <1>3, <1>5, <3>1, <3>2
  <2> QED  BY <2>1, <2>2
<1> QED  BY <1>6, <1>7 DEF Agree, c2, v2

\* Nothing comes back from the tier: what its index holds is in the cache.
LEMMA LoadAgrees ==
  ASSUME NEW l, NEW range, Agree(cache[l], packed[l], ssd[l], latest[l])
  PROVE  Agree(With(cache[l], Loaded(l, range)), packed[l], ssd[l], latest[l])
<1> DEFINE c2 == With(cache[l], Loaded(l, range))
<1>1. (range \cap OnTier(l)) \ DOMAIN cache[l] = {}
  BY DEF OnTier, Agree
<1>2. DOMAIN Loaded(l, range) = {}
  BY <1>1 DEF Loaded
<1>3. DOMAIN c2 = DOMAIN cache[l] /\ \A p \in DOMAIN cache[l] : c2[p] = cache[l][p]
  BY <1>2 DEF With
<1> HIDE DEF c2
<1>4. Agree(c2, packed[l], ssd[l], latest[l])
  BY <1>3 DEF Agree
<1> QED  BY <1>4 DEF c2

\* A step that changes the rows of one layer at most.
LEMMA RowStep ==
  ASSUME IInv, Tables', NEW l, NEW c2, NEW k2, NEW s2, NEW v2,
         \A j \in Layer : cache'[j] = IF j = l THEN c2 ELSE cache[j],
         \A j \in Layer : packed'[j] = IF j = l THEN k2 ELSE packed[j],
         \A j \in Layer : ssd'[j] = IF j = l THEN s2 ELSE ssd[j],
         \A j \in Layer : latest'[j] = IF j = l THEN v2 ELSE latest[j],
         l \in Layer => Agree(c2, k2, s2, v2)
  PROVE  IInv'
<1>1. ASSUME NEW j \in Layer PROVE Agree(cache'[j], packed'[j], ssd'[j], latest'[j])
  <2>1. CASE j = l
    BY <2>1
  <2>2. CASE j # l
    BY <2>2 DEF IInv
  <2> QED  BY <2>1, <2>2
<1> QED  BY <1>1 DEF IInv

LEMMA InitEstablishes == Init => IInv
<1> SUFFICES ASSUME Init PROVE IInv
  OBVIOUS
<1>1. Tables
  BY DEF Init, Tables
<1>2. ASSUME NEW l \in Layer PROVE Agree(cache[l], packed[l], ssd[l], latest[l])
  BY DEF Init, Agree, Nothing
<1> QED  BY <1>1, <1>2 DEF IInv

-----------------------------------------------------------------------------
(* One lemma for each operation that changes a table.                        *)

LEMMA InsertPreserves ==
  ASSUME IInv, NEW t, NEW l, NEW pos, NEW val, NEW todo, Insert(t, l, pos, val, todo)
  PROVE  IInv'
<1> DEFINE m == SelectMethod
           e == [val |-> IF m = "none" THEN val ELSE 0, compressed |-> m # "none"]
           c2 == Put(cache[l], pos, e)
           k2 == IF m = "none" THEN packed[l]
                               ELSE Put(packed[l], pos, [val |-> val, by |-> m])
           v2 == Put(latest[l], pos, val)
<1>1. /\ cache' = [cache EXCEPT ![l] = c2] /\ packed' = [packed EXCEPT ![l] = k2]
      /\ latest' = [latest EXCEPT ![l] = v2] /\ TierCheck(l, pos)
  BY DEF Insert, Packets
<1>2. Tables
  BY DEF IInv
<1>3. ASSUME l \in Layer
      PROVE  Agree(cache[l], packed[l], ssd[l], latest[l])
  BY <1>3 DEF IInv
<1>4. DOMAIN c2 = DOMAIN cache[l] \cup {pos}
  BY DEF Put
<1>5. \A s2 : DOMAIN s2 \subseteq DOMAIN ssd[l] \cup DOMAIN cache[l] \cup {pos} /\ l \in Layer
                => Agree(c2, k2, s2, v2)
  BY <1>3, InsertAgrees
<1> HIDE DEF c2, k2, v2, m, e
<1>6. /\ \A j \in Layer : cache'[j] = IF j = l THEN c2 ELSE cache[j]
      /\ \A j \in Layer : packed'[j] = IF j = l THEN k2 ELSE packed[j]
      /\ \A j \in Layer : latest'[j] = IF j = l THEN v2 ELSE latest[j]
      /\ DOMAIN cache' = Layer /\ DOMAIN packed' = Layer /\ DOMAIN latest' = Layer
      /\ cache' = [j \in Layer |-> cache'[j]] /\ packed' = [j \in Layer |-> packed'[j]]
      /\ latest' = [j \in Layer |-> latest'[j]]
  BY <1>1, <1>2 DEF Tables
<1>7. CASE UNCHANGED tier
  <2>1. Tables' /\ \A j \in Layer : ssd'[j] = IF j = l THEN ssd[l] ELSE ssd[j]
    BY <1>2, <1>6, <1>7 DEF Tables, tier
  <2>2. l \in Layer => Agree(c2, k2, ssd[l], v2)
    BY <1>5
  <2> QED  BY <1>6, <2>1, <2>2, RowStep
<1>8. ASSUME NEW p \in DOMAIN cache'[l], ssd' = [ssd EXCEPT ![l] = Put(@, p, pos)]
      PROVE  IInv'
  <2> DEFINE s2 == Put(ssd[l], p, pos)
  <2>1. DOMAIN s2 = DOMAIN ssd[l] \cup {p}
    BY DEF Put
  <2> HIDE DEF s2
  <2>2. Tables' /\ \A j \in Layer : ssd'[j] = IF j = l THEN s2 ELSE ssd[j]
    BY <1>2, <1>6, <1>8 DEF Tables, s2
  <2>3. l \in Layer => DOMAIN s2 \subseteq DOMAIN ssd[l] \cup DOMAIN cache[l] \cup {pos}
    BY <1>4, <1>6, <1>8, <2>1
  <2>4. l \in Layer => Agree(c2, k2, s2, v2)
    BY <1>5, <2>3
  <2> QED  BY <1>6, <2>2, <2>4, RowStep
<1> QED  BY <1>1, <1>7, <1>8 DEF TierCheck

LEMMA DropPreserves ==
  ASSUME IInv, NEW l, NEW S, Drop(l, S), UNCHANGED latest
  PROVE  IInv'
<1> DEFINE c2 == Without(cache[l], S)
           k2 == Without(packed[l], S)
           s2 == Without(ssd[l], S)
<1>1. /\ cache' = [cache EXCEPT ![l] = c2] /\ packed' = [packed EXCEPT ![l] = k2]
      /\ ssd' = [ssd EXCEPT ![l] = s2]
  BY DEF Drop
<1>2. l \in Layer => Agree(c2, k2, s2, latest[l])
  BY WithoutAgrees DEF IInv
<1> HIDE DEF c2, k2, s2
<1>3. /\ Tables'
      /\ \A j \in Layer : cache'[j] = IF j = l THEN c2 ELSE cache[j]
      /\ \A j \in Layer : packed'[j] = IF j = l THEN k2 ELSE packed[j]
      /\ \A j \in Layer : ssd'[j] = IF j = l THEN s2 ELSE ssd[j]
      /\ \A j \in Layer : latest'[j] = IF j = l THEN latest[l] ELSE latest[j]
  BY <1>1 DEF IInv, Tables
<1> QED  BY <1>2, <1>3, RowStep

LEMMA ClearPreserves == ASSUME IInv, NEW t, Clear(t) PROVE IInv'
<1>1. /\ cache' = [l \in Layer |-> Nothing] /\ packed' = [l \in Layer |-> Nothing]
      /\ ssd' = [l \in Layer |-> Nothing] /\ latest' = [l \in Layer |-> Nothing]
  BY DEF Clear
<1>2. Tables'
  BY <1>1 DEF Tables
<1>3. ASSUME NEW l \in Layer PROVE Agree(cache'[l], packed'[l], ssd'[l], latest'[l])
  BY <1>1 DEF Agree, Nothing
<1> QED  BY <1>2, <1>3 DEF IInv

LEMMA FetchPreserves ==
  ASSUME IInv, NEW t, Fetch(t) \/ FetchRaises(t)
  PROVE  IInv'
<1> DEFINE l == job[t].layer
           c2 == With(cache[l], Loaded(l, DOMAIN job[t].data))
<1>1. cache' = [cache EXCEPT ![l] = c2] /\ UNCHANGED <<packed, ssd, latest>>
  BY DEF Fetch, FetchRaises, tier
<1>2. l \in Layer => Agree(c2, packed[l], ssd[l], latest[l])
  BY LoadAgrees DEF IInv
<1> HIDE DEF l, c2
<1>3. /\ Tables'
      /\ \A j \in Layer : cache'[j] = IF j = l THEN c2 ELSE cache[j]
      /\ \A j \in Layer : packed'[j] = IF j = l THEN packed[l] ELSE packed[j]
      /\ \A j \in Layer : ssd'[j] = IF j = l THEN ssd[l] ELSE ssd[j]
      /\ \A j \in Layer : latest'[j] = IF j = l THEN latest[l] ELSE latest[j]
  BY <1>1 DEF IInv, Tables
<1> QED  BY <1>2, <1>3, RowStep

LEMMA UntouchedPreserves == IInv /\ UNCHANGED <<cache, packed, ssd, latest>> => IInv'
BY DEF IInv, Tables

LEMMA StepPreserves == IInv /\ [Next]_vars => IInv'
<1> SUFFICES ASSUME IInv, [Next]_vars PROVE IInv'
  OBVIOUS
<1>1. ASSUME NEW t \in Thread, LockedStep(t) PROVE IInv'
  <2>1. CASE EnforceStep(t)
    BY <2>1, DropPreserves DEF EnforceStep
  <2>2. CASE EnforceDone(t)
    BY <2>2, UntouchedPreserves DEF EnforceDone, kept, tier
  <2>3. CASE PrefetchStore(t)
    BY <2>3, InsertPreserves DEF PrefetchStore
  <2>4. CASE PrefetchDrop(t)
    BY <2>4, DropPreserves DEF PrefetchDrop
  <2> QED  BY <1>1, <2>1, <2>2, <2>3, <2>4 DEF LockedStep
<1>2. ASSUME NEW t \in Thread, ThreadStep(t) PROVE IInv'
  <2>1. CASE \E l \in Layer, pos \in Position : Store(t, l, pos)
    BY <2>1, InsertPreserves DEF Store
  <2>2. CASE \E l \in Layer, n \in 1..2 : Evict(t, l, n)
    BY <2>2, DropPreserves DEF Evict
  <2>3. CASE Clear(t)
    BY <2>3, ClearPreserves
  <2>4. CASE Fetch(t) \/ FetchRaises(t)
    BY <2>4, FetchPreserves
  <2>5. CASE Prefetch(t) \/ AutoTune(t) \/ (\E l \in Layer : Probe(t, l)) \/ Memoize(t)
    BY <2>5, UntouchedPreserves DEF Prefetch, AutoTune, Probe, Memoize, kept, tier
  <2> QED  BY <1>2, <2>1, <2>2, <2>3, <2>4, <2>5 DEF ThreadStep
<1>3. CASE UNCHANGED vars
  BY <1>3, UntouchedPreserves DEF vars
<1> QED  BY <1>1, <1>2, <1>3 DEF Next

\* However stores, evictions, prefetches, clears, tiering and fetches of several threads
\* fall, an entry is the value stored last for its position, and no table knows a position
\* that is not in the cache.
THEOREM NewestKept == Spec => []NewestIsKept
<1>1. Init => IInv
  BY InitEstablishes
<1>2. IInv /\ [Next]_vars => IInv'
  BY StepPreserves
<1>3. IInv => NewestIsKept
  BY DEF IInv, Agree, NewestIsKept
<1> QED  BY <1>1, <1>2, <1>3, PTL DEF Spec

-----------------------------------------------------------------------------
(* Tables whose rows know some of the positions, and how the operations leave them. *)

LEMMA Constants ==
  /\ Position \subseteq Nat /\ IsFiniteSet(Position)
  /\ \A p \in Position : 0..p \subseteq Position
  /\ Full \in Nat /\ Stub \in Nat /\ Limit \in Nat
  /\ Full > 0 /\ Stub > 0 /\ Limit > 0
  /\ Floor \in Nat /\ MaxStores \in Nat
  /\ IsFiniteSet(Layer) /\ Free \notin Thread
BY PositionAssumption, LayerAssumption, SizeAssumption, ThreadAssumption

LEMMA PartialIs ==
  ASSUME NEW S, NEW T, NEW f
  PROVE  f \in Partial(S, T)
           <=> /\ f = [x \in DOMAIN f |-> f[x]] /\ DOMAIN f \subseteq S
               /\ \A x \in DOMAIN f : f[x] \in T
<1>1. ASSUME f \in Partial(S, T)
      PROVE  /\ f = [x \in DOMAIN f |-> f[x]] /\ DOMAIN f \subseteq S
             /\ \A x \in DOMAIN f : f[x] \in T
  <2>1. PICK D \in SUBSET S : f \in [D -> T]
    BY <1>1 DEF Partial
  <2> QED  BY <2>1
<1>2. ASSUME f = [x \in DOMAIN f |-> f[x]], DOMAIN f \subseteq S,
             \A x \in DOMAIN f : f[x] \in T
      PROVE  f \in Partial(S, T)
  <2>1. f \in [DOMAIN f -> T] /\ DOMAIN f \in SUBSET S
    BY <1>2
  <2> HIDE <1>2
  <2> QED  BY <2>1 DEF Partial
<1> QED  BY <1>1, <1>2

LEMMA NothingIsPartial == ASSUME NEW S, NEW T PROVE Nothing \in Partial(S, T)
<1>1. DOMAIN Nothing = {} /\ Nothing = [x \in DOMAIN Nothing |-> Nothing[x]]
  BY DEF Nothing
<1> QED  BY <1>1, PartialIs

LEMMA PutIsPartial ==
  ASSUME NEW S, NEW T, NEW f \in Partial(S, T), NEW p \in S, NEW x \in T
  PROVE  /\ Put(f, p, x) \in Partial(S, T)
         /\ DOMAIN Put(f, p, x) = DOMAIN f \cup {p}
<1> DEFINE g == Put(f, p, x)
<1>1. DOMAIN f \subseteq S /\ \A q \in DOMAIN f : f[q] \in T
  BY PartialIs
<1>2. /\ DOMAIN g = DOMAIN f \cup {p} /\ g = [q \in DOMAIN g |-> g[q]]
      /\ \A q \in DOMAIN g : g[q] = IF q = p THEN x ELSE f[q]
  BY DEF Put
<1> HIDE DEF g
<1>3. g \in Partial(S, T)
  BY <1>1, <1>2, PartialIs
<1> QED  BY <1>2, <1>3 DEF g

LEMMA WithoutIsPartial ==
  ASSUME NEW S, NEW T, NEW f \in Partial(S, T), NEW D
  PROVE  /\ Without(f, D) \in Partial(S, T)
         /\ DOMAIN Without(f, D) = DOMAIN f \ D
         /\ \A p \in DOMAIN f \ D : Without(f, D)[p] = f[p]
<1> DEFINE g == Without(f, D)
<1>1. DOMAIN f \subseteq S /\ \A q \in DOMAIN f : f[q] \in T
  BY PartialIs
<1>2. /\ DOMAIN g = DOMAIN f \ D /\ g = [q \in DOMAIN g |-> g[q]]
      /\ \A q \in DOMAIN g : g[q] = f[q]
  BY DEF Without, Restrict
<1> HIDE DEF g
<1>3. g \in Partial(S, T)
  BY <1>1, <1>2, PartialIs
<1> QED  BY <1>2, <1>3 DEF g

\* The last position of a layer, and the ones between the first and the last.
LEMMA LastPosition ==
  ASSUME NEW D, D \subseteq Position, D # {}
  PROVE  /\ Max(D) \in D /\ \A p \in D : p <= Max(D)
         /\ Min(D) \in D /\ \A p \in D : Min(D) <= p
         /\ D \subseteq Min(D)..Max(D)
<1>1. D \in SUBSET Nat /\ D \in SUBSET Position /\ IsFiniteSet(Position)
  BY Constants
<1>2. IsFiniteSet(D)
  BY <1>1, FS_Subset
<1>3. \E x \in D : \A y \in D : y <= x
  <2>1. D \subseteq Nat /\ D # {} /\ IsFiniteSet(D)
    BY <1>1, <1>2
  <2> QED  BY <2>1, GreatestNumber
<1>4. \E x \in D : \A y \in D : x <= y
  BY <1>1, LeastNumber
<1>5. \E x \in D : \A y \in D : x >= y
  BY <1>1, <1>3
<1>6. Max(D) \in D /\ \A y \in D : Max(D) >= y
  BY <1>5 DEF Max
<1>7. Min(D) \in D /\ \A y \in D : Min(D) <= y
  BY <1>4 DEF Min
<1> HIDE DEF Max, Min
<1>8. \A p \in D : p <= Max(D) /\ p \in Nat /\ Max(D) \in Nat /\ Min(D) \in Nat
  BY <1>1, <1>6, <1>7
<1> QED  BY <1>6, <1>7, <1>8

\* There is a position after the last one of a layer.
RoomAfter(D) == D = {} \/ Max(D) + 1 \in Position

LEMMA LessNeedsLess ==
  ASSUME NEW D, D \subseteq Position, RoomAfter(D), NEW E, E \subseteq D
  PROVE  RoomAfter(E)
<1> SUFFICES ASSUME E # {} PROVE Max(E) + 1 \in Position
  BY DEF RoomAfter
<1>1. Max(D) + 1 \in Position /\ D # {}
  BY DEF RoomAfter
<1>2. Max(D) \in Nat /\ Max(E) \in Nat /\ Max(E) <= Max(D)
  <2>1. Max(D) \in D /\ \A p \in D : p <= Max(D)
    BY <1>1, LastPosition
  <2>2. Max(E) \in E
    BY LastPosition
  <2> QED  BY <2>1, <2>2, Constants
<1> HIDE DEF Max
<1>3. Max(E) + 1 \in 0..(Max(D) + 1)
  BY <1>2
<1> QED  BY <1>1, <1>3, Constants

-----------------------------------------------------------------------------
(* The bytes of the entries.                                                  *)

Stubs(c) == {p \in DOMAIN c : c[p].compressed}
Others(c) == DOMAIN c \ Stubs(c)

LEMMA Distributes ==
  ASSUME NEW k \in Nat, NEW a \in Nat, NEW b \in Nat
  PROVE  k * a \in Nat /\ k * (a + b) = k * a + k * b /\ k * 0 = 0 /\ k * 1 = k
OBVIOUS

LEMMA BytesAre ==
  ASSUME NEW c, IsFiniteSet(DOMAIN c)
  PROVE  /\ BytesOf(c) = Stub * Cardinality(Stubs(c)) + Full * Cardinality(Others(c))
         /\ BytesOf(c) \in Nat
         /\ IsFiniteSet(Stubs(c)) /\ IsFiniteSet(Others(c))
         /\ Cardinality(Stubs(c)) \in Nat /\ Cardinality(Others(c)) \in Nat
<1>1. Stubs(c) \in SUBSET DOMAIN c /\ Others(c) \in SUBSET DOMAIN c
  BY DEF Stubs, Others
<1>2. IsFiniteSet(Stubs(c)) /\ IsFiniteSet(Others(c))
  BY <1>1, FS_Subset
<1>3. Cardinality(Stubs(c)) \in Nat /\ Cardinality(Others(c)) \in Nat
  BY <1>2, FS_CardinalityType
<1>4. BytesOf(c) = Stub * Cardinality(Stubs(c)) + Full * Cardinality(Others(c))
  BY DEF BytesOf, Stubs, Others
<1> DEFINE x == Cardinality(Stubs(c))
           y == Cardinality(Others(c))
<1>5. x \in Nat /\ y \in Nat /\ BytesOf(c) = Stub * x + Full * y
  BY <1>3, <1>4
<1>6. BytesOf(c) \in Nat
  <2> HIDE DEF x, y
  <2>1. Stub * x \in Nat /\ Full * y \in Nat
    BY <1>5, Constants, Distributes
  <2> QED  BY <1>5, <2>1
<1> QED  BY <1>2, <1>3, <1>4, <1>6

\* The bytes of a table are those of its parts.
LEMMA BytesOfParts ==
  ASSUME NEW c, NEW d, NEW e, IsFiniteSet(DOMAIN c),
         DOMAIN c = DOMAIN d \cup DOMAIN e, DOMAIN d \cap DOMAIN e = {},
         \A p \in DOMAIN d : d[p] = c[p], \A p \in DOMAIN e : e[p] = c[p]
  PROVE  BytesOf(c) = BytesOf(d) + BytesOf(e)
<1>1. DOMAIN d \in SUBSET DOMAIN c /\ DOMAIN e \in SUBSET DOMAIN c
  OBVIOUS
<1>2. IsFiniteSet(DOMAIN d) /\ IsFiniteSet(DOMAIN e)
  BY <1>1, FS_Subset
<1>3. /\ Stubs(c) = Stubs(d) \cup Stubs(e) /\ Stubs(d) \cap Stubs(e) = {}
      /\ Others(c) = Others(d) \cup Others(e) /\ Others(d) \cap Others(e) = {}
  BY DEF Stubs, Others
<1> DEFINE x == Cardinality(Stubs(d))
           y == Cardinality(Stubs(e))
           v == Cardinality(Others(d))
           w == Cardinality(Others(e))
<1>4. /\ BytesOf(d) = Stub * x + Full * v /\ x \in Nat /\ v \in Nat
      /\ IsFiniteSet(Stubs(d)) /\ IsFiniteSet(Others(d))
  BY <1>2, BytesAre
<1>5. /\ BytesOf(e) = Stub * y + Full * w /\ y \in Nat /\ w \in Nat
      /\ IsFiniteSet(Stubs(e)) /\ IsFiniteSet(Others(e))
  BY <1>2, BytesAre
<1>6. Cardinality(Stubs(c)) = x + y /\ Cardinality(Others(c)) = v + w
  <2>1. Cardinality({}) = 0
    BY FS_EmptySet
  <2>2. Cardinality(Stubs(d) \cup Stubs(e)) = x + y - Cardinality(Stubs(d) \cap Stubs(e))
    BY <1>4, <1>5, FS_Union
  <2>3. Cardinality(Others(d) \cup Others(e))
          = v + w - Cardinality(Others(d) \cap Others(e))
    BY <1>4, <1>5, FS_Union
  <2>4. /\ Cardinality(Stubs(c)) = x + y - 0
        /\ Cardinality(Others(c)) = v + w - 0
    <3> HIDE DEF x, y, v, w
    <3> QED  BY <1>3, <2>1, <2>2, <2>3
  <2> HIDE DEF x, y, v, w
  <2> QED  BY <1>4, <1>5, <2>4
<1>7. BytesOf(c) = Stub * (x + y) + Full * (v + w)
  BY <1>6, BytesAre
<1> HIDE DEF x, y, v, w
<1>8. /\ Stub * (x + y) = Stub * x + Stub * y /\ Full * (v + w) = Full * v + Full * w
      /\ Stub * x \in Nat /\ Stub * y \in Nat /\ Full * v \in Nat /\ Full * w \in Nat
  BY <1>4, <1>5, Constants, Distributes
<1> QED  BY <1>4, <1>5, <1>7, <1>8

LEMMA BytesOfOne ==
  ASSUME NEW c, NEW p, DOMAIN c = {p}, c[p].compressed \in BOOLEAN
  PROVE  BytesOf(c) = Size(c[p])
<1>0. IsFiniteSet(DOMAIN c) /\ Cardinality({p}) = 1 /\ Cardinality({}) = 0
  BY FS_Singleton, FS_EmptySet
<1>1. BytesOf(c) = Stub * Cardinality(Stubs(c)) + Full * Cardinality(Others(c))
  BY <1>0, BytesAre
<1>2. CASE c[p].compressed
  <2>1. Stubs(c) = {p} /\ Others(c) = {}
    BY <1>2 DEF Stubs, Others
  <2>2. BytesOf(c) = Stub * 1 + Full * 0
    BY <1>0, <1>1, <2>1
  <2> QED  BY <1>2, <2>2, Constants DEF Size
<1>3. CASE ~ c[p].compressed
  <2>1. Stubs(c) = {} /\ Others(c) = {p}
    BY <1>3 DEF Stubs, Others
  <2>2. BytesOf(c) = Stub * 0 + Full * 1
    BY <1>0, <1>1, <2>1
  <2> QED  BY <1>3, <2>2, Constants DEF Size
<1> QED  BY <1>2, <1>3

LEMMA BytesOfNothing == BytesOf(Nothing) = 0
<1>1. DOMAIN Nothing = {}
  BY DEF Nothing
<1>2. IsFiniteSet(DOMAIN Nothing) /\ Cardinality({}) = 0
  BY <1>1, FS_EmptySet
<1>3. Stubs(Nothing) = {} /\ Others(Nothing) = {}
  BY <1>1 DEF Stubs, Others
<1>4. BytesOf(Nothing) = Stub * 0 + Full * 0
  BY <1>2, <1>3, BytesAre
<1> QED  BY <1>4, Constants

\* What an eviction frees is what the layer does without.
LEMMA BytesWithout ==
  ASSUME NEW c, IsFiniteSet(DOMAIN c), NEW S, S \subseteq DOMAIN c
  PROVE  /\ BytesOf(c) = BytesOf(Without(c, S)) + BytesOf(Restrict(c, S))
         /\ BytesOf(Without(c, S)) \in Nat /\ BytesOf(Restrict(c, S)) \in Nat
<1> DEFINE d == Without(c, S)
           e == Restrict(c, S)
<1>1. /\ DOMAIN d = DOMAIN c \ S /\ \A p \in DOMAIN d : d[p] = c[p]
      /\ DOMAIN e = S /\ \A p \in DOMAIN e : e[p] = c[p]
  BY DEF Without, Restrict
<1> HIDE DEF d, e
<1>2. BytesOf(c) = BytesOf(d) + BytesOf(e)
  <2>1. DOMAIN c = DOMAIN d \cup DOMAIN e /\ DOMAIN d \cap DOMAIN e = {}
    BY <1>1
  <2> QED  BY <1>1, <2>1, BytesOfParts
<1>3. DOMAIN d \in SUBSET DOMAIN c /\ DOMAIN e \in SUBSET DOMAIN c
  BY <1>1
<1>4. IsFiniteSet(DOMAIN d) /\ IsFiniteSet(DOMAIN e)
  BY <1>3, FS_Subset
<1>5. BytesOf(d) \in Nat /\ BytesOf(e) \in Nat
  BY <1>4, BytesAre
<1> QED  BY <1>2, <1>5 DEF d, e

\* A store adds at most its entry, and exactly that at a position that was free.
LEMMA BytesPut ==
  ASSUME NEW c, IsFiniteSet(DOMAIN c), NEW pos, NEW e, e.compressed \in BOOLEAN
  PROVE  /\ BytesOf(Put(c, pos, e)) <= BytesOf(c) + Size(e)
         /\ pos \notin DOMAIN c => BytesOf(Put(c, pos, e)) = BytesOf(c) + Size(e)
         /\ BytesOf(Put(c, pos, e)) \in Nat /\ BytesOf(c) \in Nat
<1> DEFINE h == Put(c, pos, e)
           d == Without(c, {pos})
           one == [p \in {pos} |-> e]
<1>1. /\ DOMAIN h = DOMAIN c \cup {pos} /\ h[pos] = e
      /\ \A p \in DOMAIN c \ {pos} : h[p] = c[p]
      /\ DOMAIN d = DOMAIN c \ {pos} /\ \A p \in DOMAIN d : d[p] = c[p]
      /\ DOMAIN one = {pos} /\ one[pos] = e
  BY DEF Put, Without, Restrict
<1>2. IsFiniteSet(DOMAIN h)
  BY <1>1, FS_AddElement
<1> HIDE DEF h, d, one
<1>3. BytesOf(one) = Size(e)
  BY <1>1, BytesOfOne
<1>4. BytesOf(h) = BytesOf(d) + BytesOf(one)
  <2>1. /\ DOMAIN h = DOMAIN d \cup DOMAIN one /\ DOMAIN d \cap DOMAIN one = {}
        /\ \A p \in DOMAIN d : d[p] = h[p]
        /\ \A p \in DOMAIN one : one[p] = h[p]
    BY <1>1
  <2> QED  BY <1>2, <2>1, BytesOfParts
<1>5. /\ BytesOf(c) \in Nat /\ BytesOf(h) \in Nat /\ Size(e) \in Nat
  BY <1>2, BytesAre, Constants DEF Size
<1>6. BytesOf(d) \in Nat /\ BytesOf(d) <= BytesOf(c)
  <2>1. CASE pos \in DOMAIN c
    <3>1. BytesOf(c) = BytesOf(d) + BytesOf(Restrict(c, {pos}))
          /\ BytesOf(d) \in Nat /\ BytesOf(Restrict(c, {pos})) \in Nat
      BY <2>1, BytesWithout DEF d
    <3> QED  BY <1>5, <3>1
  <2>2. CASE pos \notin DOMAIN c
    <3>1. {} \subseteq DOMAIN c /\ DOMAIN c = DOMAIN d
      BY <1>1, <2>2
    <3>2. Stubs(d) = Stubs(c) /\ Others(d) = Others(c)
      BY <1>1, <3>1 DEF Stubs, Others
    <3>3. BytesOf(d) = BytesOf(c)
      BY <3>1, <3>2, BytesAre
    <3> QED  BY <1>5, <3>3
  <2> QED  BY <2>1, <2>2
<1>7. pos \notin DOMAIN c => BytesOf(h) = BytesOf(c) + Size(e)
  <2> SUFFICES ASSUME pos \notin DOMAIN c PROVE BytesOf(h) = BytesOf(c) + BytesOf(one)
    BY <1>3
  <2>1. /\ DOMAIN h = DOMAIN c \cup DOMAIN one /\ DOMAIN c \cap DOMAIN one = {}
        /\ \A p \in DOMAIN c : c[p] = h[p]
        /\ \A p \in DOMAIN one : one[p] = h[p]
    BY <1>1
  <2> QED  BY <1>2, <2>1, BytesOfParts
<1>8. BytesOf(h) <= BytesOf(c) + Size(e)
  BY <1>3, <1>4, <1>5, <1>6
<1> QED  BY <1>5, <1>7, <1>8 DEF h

-----------------------------------------------------------------------------
(* The threads and the lock: who holds it, and what a job of each kind knows. *)

JobFits(place, j) ==
  /\ DOMAIN j = {"layer", "at", "todo", "data"}
  /\ place \in {"enforcing", "dropping", "probed", "fetched"} => j.layer \in Layer
  /\ place \in Inside => j.todo \subseteq Layer /\ j.at \in Int

Control ==
  /\ lock \in Thread \cup {Free}
  /\ pc \in [Thread -> Inside \cup {"idle", "probed", "fetched"}]
  /\ \A t \in Thread : lock = t <=> pc[t] \in Inside
  /\ DOMAIN job = Thread
  /\ \A t \in Thread : JobFits(pc[t], job[t])

\* A prefetch only has layers to store in that have a position left; the layer it has
\* just stored in may have none.
RoomFor(place, j) ==
  place \in Inside =>
    \A l \in j.todo : \/ RoomAfter(DOMAIN cache[l])
                      \/ place # "prefetching" /\ l = j.layer

Rooms == \A t \in Thread : RoomFor(pc[t], job[t])

LEMMA NoJobIs ==
  /\ JobFits("idle", NoJob) /\ NoJob.todo = {} /\ NoJob.at = 0 /\ NoJob.data = Nothing
  /\ DOMAIN NoJob = {"layer", "at", "todo", "data"}
BY DEF NoJob, JobFits, Inside

\* A thread gives the lock back, or never had it.
LEMMA LeaveKeeps ==
  ASSUME Control, NEW t \in Thread, lock \in {t, Free}, Leave(t)
  PROVE  Control' /\ \A s \in Thread : pc'[s] \notin Inside
<1>1. lock' = Free /\ pc' = [pc EXCEPT ![t] = "idle"] /\ job' = [job EXCEPT ![t] = NoJob]
  BY DEF Leave
<1>2. /\ pc \in [Thread -> Inside \cup {"idle", "probed", "fetched"}]
      /\ \A s \in Thread : lock = s <=> pc[s] \in Inside
      /\ DOMAIN job = Thread /\ \A s \in Thread : JobFits(pc[s], job[s])
  BY DEF Control
<1>3. \A s \in Thread : pc'[s] \notin Inside
  BY <1>1, <1>2, Constants DEF Inside
<1>4. pc' \in [Thread -> Inside \cup {"idle", "probed", "fetched"}]
  BY <1>1, <1>2
<1>5. DOMAIN job' = Thread /\ \A s \in Thread : JobFits(pc'[s], job'[s])
  <2>1. \A s \in Thread \ {t} : pc'[s] = pc[s] /\ job'[s] = job[s]
    BY <1>1, <1>2
  <2>2. pc'[t] = "idle" /\ job'[t] = NoJob /\ DOMAIN job' = Thread
    BY <1>1, <1>2
  <2> QED  BY <1>2, <2>1, <2>2, NoJobIs
<1> QED  BY <1>1, <1>3, <1>4, <1>5, Constants DEF Control

\* A thread goes on under the lock: no other one has it.
LEMMA ContinueKeeps ==
  ASSUME Control, NEW t \in Thread, lock \in {t, Free}, NEW place \in Inside, NEW j,
         Continue(t, place, j), JobFits(place, j)
  PROVE  /\ Control' /\ pc'[t] = place /\ job'[t] = j
         /\ \A s \in Thread \ {t} : pc'[s] \notin Inside
<1>1. lock' = t /\ pc' = [pc EXCEPT ![t] = place] /\ job' = [job EXCEPT ![t] = j]
  BY DEF Continue
<1>2. /\ pc \in [Thread -> Inside \cup {"idle", "probed", "fetched"}]
      /\ \A s \in Thread : lock = s <=> pc[s] \in Inside
      /\ DOMAIN job = Thread /\ \A s \in Thread : JobFits(pc[s], job[s])
  BY DEF Control
<1>3. pc'[t] = place /\ job'[t] = j /\ DOMAIN job' = Thread
  BY <1>1, <1>2
<1>4. \A s \in Thread \ {t} : pc'[s] = pc[s] /\ job'[s] = job[s]
  BY <1>1, <1>2
<1>5. \A s \in Thread \ {t} : pc'[s] \notin Inside
  BY <1>2, <1>4, Constants
<1>6. pc' \in [Thread -> Inside \cup {"idle", "probed", "fetched"}]
  BY <1>1, <1>2
<1>7. \A s \in Thread : JobFits(pc'[s], job'[s])
  BY <1>2, <1>3, <1>4
<1>8. \A s \in Thread : lock' = s <=> pc'[s] \in Inside
  BY <1>1, <1>3, <1>5
<1> QED  BY <1>1, <1>3, <1>5, <1>6, <1>7, <1>8 DEF Control

\* A thread that does not hold the lock takes a step outside.
LEMMA OutsideKeeps ==
  ASSUME Control, NEW t \in Thread, NEW place \in {"idle", "probed", "fetched"}, NEW j,
         pc[t] \notin Inside, JobFits(place, j), UNCHANGED lock,
         pc' = [pc EXCEPT ![t] = place], job' = [job EXCEPT ![t] = j]
  PROVE  /\ Control' /\ pc'[t] = place /\ job'[t] = j
         /\ \A s \in Thread \ {t} : pc'[s] = pc[s] /\ job'[s] = job[s]
<1>2. /\ pc \in [Thread -> Inside \cup {"idle", "probed", "fetched"}]
      /\ \A s \in Thread : lock = s <=> pc[s] \in Inside
      /\ DOMAIN job = Thread /\ \A s \in Thread : JobFits(pc[s], job[s])
      /\ lock \in Thread \cup {Free}
  BY DEF Control
<1>3. pc'[t] = place /\ job'[t] = j /\ DOMAIN job' = Thread
  BY <1>2
<1>4. \A s \in Thread \ {t} : pc'[s] = pc[s] /\ job'[s] = job[s]
  BY <1>2
<1>5. pc' \in [Thread -> Inside \cup {"idle", "probed", "fetched"}]
  BY <1>2
<1>6. \A s \in Thread : JobFits(pc'[s], job'[s])
  BY <1>2, <1>3, <1>4
<1>7. place \notin Inside
  BY DEF Inside
<1>8. \A s \in Thread : lock' = s <=> pc'[s] \in Inside
  BY <1>2, <1>3, <1>4, <1>7
<1> QED  BY <1>2, <1>3, <1>4, <1>5, <1>6, <1>8 DEF Control

\* Rows get no longer, and a job goes on or has room for what it has left to do.
LEMMA RoomsKept ==
  ASSUME Control, Rooms,
         \A l \in Layer : /\ DOMAIN cache[l] \subseteq Position
                          /\ DOMAIN cache'[l] \subseteq DOMAIN cache[l],
         \A s \in Thread : pc'[s] \in Inside =>
           \/ pc'[s] = pc[s] /\ job'[s] = job[s]
           \/ /\ job'[s].todo \subseteq Layer
              /\ \A l \in job'[s].todo :
                   RoomAfter(DOMAIN cache[l]) \/ (pc'[s] # "prefetching" /\ l = job'[s].layer)
  PROVE  Rooms'
<1>1. ASSUME NEW l \in Layer, RoomAfter(DOMAIN cache[l])
      PROVE  RoomAfter(DOMAIN cache'[l])
  BY <1>1, LessNeedsLess
<1>2. ASSUME NEW s \in Thread, pc'[s] \in Inside, NEW l \in job'[s].todo
      PROVE  RoomAfter(DOMAIN cache'[l]) \/ (pc'[s] # "prefetching" /\ l = job'[s].layer)
  <2>1. CASE pc'[s] = pc[s] /\ job'[s] = job[s]
    <3>1. l \in Layer
      BY <1>2, <2>1 DEF Control, JobFits
    <3>2. RoomAfter(DOMAIN cache[l]) \/ (pc[s] # "prefetching" /\ l = job[s].layer)
      BY <1>2, <2>1 DEF Rooms, RoomFor
    <3> QED  BY <1>1, <2>1, <3>1, <3>2
  <2>2. CASE ~ (pc'[s] = pc[s] /\ job'[s] = job[s])
    <3>1. /\ l \in Layer
          /\ RoomAfter(DOMAIN cache[l]) \/ (pc'[s] # "prefetching" /\ l = job'[s].layer)
      BY <1>2, <2>2
    <3> QED  BY <1>1, <3>1
  <2> QED  BY <2>1, <2>2
<1> QED  BY <1>2 DEF Rooms, RoomFor

-----------------------------------------------------------------------------
(* The types of the data.                                                     *)

Data ==
  /\ cache \in [Layer -> Partial(Position, Entry)]
  /\ packed \in [Layer -> Partial(Position, Packet)]
  /\ total \in Nat
  /\ method \in Method
  /\ ssd \in [Layer -> Partial(Position, Position)]
  /\ disk \in [Layer -> Partial(Position, Value)]
  /\ version \in Nat
  /\ DOMAIN memo = Layer
  /\ \A l \in Layer : memo[l] = {} \/ \E m \in memo[l] : memo[l] = {m}
  /\ writes \in 0..MaxStores

TypeIInv == IInv /\ Control /\ Rooms /\ Data

LEMMA RowsOfCache ==
  ASSUME Data, NEW l \in Layer
  PROVE  /\ cache[l] \in Partial(Position, Entry)
         /\ DOMAIN cache[l] \subseteq Position /\ IsFiniteSet(DOMAIN cache[l])
         /\ \A p \in DOMAIN cache[l] : cache[l][p] \in Entry
         /\ BytesOf(cache[l]) \in Nat
<1>1. cache[l] \in Partial(Position, Entry)
  BY DEF Data
<1>2. DOMAIN cache[l] \subseteq Position /\ \A p \in DOMAIN cache[l] : cache[l][p] \in Entry
  BY <1>1, PartialIs
<1>3. DOMAIN cache[l] \in SUBSET Position /\ IsFiniteSet(Position)
  BY <1>2, Constants
<1>4. IsFiniteSet(DOMAIN cache[l])
  BY <1>3, FS_Subset
<1>5. BytesOf(cache[l]) \in Nat
  BY <1>4, BytesAre
<1> QED  BY <1>1, <1>2, <1>4, <1>5

LEMMA RemovalsAreIn == ASSUME NEW ps, NEW n, NEW S \in Removals(ps, n) PROVE S \subseteq ps
BY DEF Removals, Largest

LEMMA MaxWithZero == ASSUME NEW x \in Int PROVE Max({0, x}) = IF x > 0 THEN x ELSE 0
<1> DEFINE m == IF x > 0 THEN x ELSE 0
<1>1. m \in {0, x} /\ \A y \in {0, x} : m >= y
  OBVIOUS
<1>2. \A z \in {0, x} : (\A y \in {0, x} : z >= y) => z = m
  OBVIOUS
<1>3. Max({0, x}) \in {0, x} /\ \A y \in {0, x} : Max({0, x}) >= y
  BY <1>1 DEF Max
<1> HIDE DEF Max
<1> QED  BY <1>2, <1>3

\* A table after one of its rows was replaced.
LEMMA RowReplaced ==
  ASSUME NEW T, NEW f \in [Layer -> T], NEW l \in Layer, NEW row \in T
  PROVE  /\ [f EXCEPT ![l] = row] \in [Layer -> T] /\ [f EXCEPT ![l] = row][l] = row
         /\ \A k \in Layer \ {l} : [f EXCEPT ![l] = row][k] = f[k]
OBVIOUS

LEMMA DropTyped ==
  ASSUME Data, NEW l \in Layer, NEW S, S \subseteq DOMAIN cache[l], Drop(l, S),
         UNCHANGED <<method, version, memo, writes>>
  PROVE  /\ Data'
         /\ cache'[l] = Without(cache[l], S) /\ DOMAIN cache'[l] = DOMAIN cache[l] \ S
         /\ \A k \in Layer \ {l} : cache'[k] = cache[k]
         /\ \A k \in Layer : DOMAIN cache'[k] \subseteq DOMAIN cache[k]
         /\ total' = IF total > BytesOf(Restrict(cache[l], S))
                       THEN total - BytesOf(Restrict(cache[l], S)) ELSE 0
<1> DEFINE freed == BytesOf(Restrict(cache[l], S))
           c == Without(cache[l], S)
           k == Without(packed[l], S)
           s == Without(ssd[l], S)
           d == Without(disk[l], {ssd[l][p] : p \in S \cap DOMAIN ssd[l]})
<1>1. /\ cache' = [cache EXCEPT ![l] = c] /\ packed' = [packed EXCEPT ![l] = k]
      /\ ssd' = [ssd EXCEPT ![l] = s] /\ disk' = [disk EXCEPT ![l] = d]
      /\ total' = Max({0, total - freed})
  BY DEF Drop
<1>2. /\ cache \in [Layer -> Partial(Position, Entry)]
      /\ packed \in [Layer -> Partial(Position, Packet)]
      /\ ssd \in [Layer -> Partial(Position, Position)]
      /\ disk \in [Layer -> Partial(Position, Value)]
      /\ total \in Nat
  BY DEF Data
<1>3. c \in Partial(Position, Entry) /\ DOMAIN c = DOMAIN cache[l] \ S
  <2>1. c \in Partial(Position, Entry)
    BY <1>2, WithoutIsPartial
  <2>2. DOMAIN c = DOMAIN cache[l] \ S
    BY DEF Without, Restrict
  <2> QED  BY <2>1, <2>2
<1>4. k \in Partial(Position, Packet)
  BY <1>2, WithoutIsPartial
<1>5. s \in Partial(Position, Position)
  BY <1>2, WithoutIsPartial
<1>6. d \in Partial(Position, Value)
  <2> DEFINE gone == {ssd[l][p] : p \in S \cap DOMAIN ssd[l]}
  <2> HIDE DEF gone
  <2>1. Without(disk[l], gone) \in Partial(Position, Value)
    BY <1>2, WithoutIsPartial
  <2> QED  BY <2>1 DEF gone
<1>7. freed \in Nat
  <2>1. IsFiniteSet(DOMAIN cache[l])
    BY RowsOfCache
  <2> QED  BY <2>1, BytesWithout
<1> HIDE DEF freed, c, k, s, d
<1>8. total' = (IF total > freed THEN total - freed ELSE 0) /\ total' \in Nat
  <2>1. total - freed \in Int
    BY <1>2, <1>7
  <2>2. Max({0, total - freed}) = IF total - freed > 0 THEN total - freed ELSE 0
    BY <2>1, MaxWithZero
  <2> HIDE DEF Max
  <2> QED  BY <1>1, <1>2, <1>7, <2>2
<1>9. /\ cache' \in [Layer -> Partial(Position, Entry)] /\ cache'[l] = c
      /\ \A j \in Layer \ {l} : cache'[j] = cache[j]
  BY <1>1, <1>2, <1>3, RowReplaced
<1>10. /\ packed' \in [Layer -> Partial(Position, Packet)]
       /\ ssd' \in [Layer -> Partial(Position, Position)]
       /\ disk' \in [Layer -> Partial(Position, Value)]
  BY <1>1, <1>2, <1>4, <1>5, <1>6, RowReplaced
<1>11. Data'
  BY <1>8, <1>9, <1>10 DEF Data
<1>12. \A j \in Layer : DOMAIN cache'[j] \subseteq DOMAIN cache[j]
  BY <1>3, <1>9
<1> QED  BY <1>3, <1>8, <1>9, <1>11, <1>12 DEF freed, c

LEMMA SelectsMethods ==
  ASSUME method \in Method
  PROVE  SelectMethod \in Method /\ Method \subseteq {"none", "int8", "int4"}
<1>1. Method = {"none"} \/ Method = {"none", "int8", "int4"}
  BY MethodAssumption
<1>2. CASE method = "none"
  BY <1>1, <1>2 DEF SelectMethod
<1>3. CASE method # "none"
  <2>1. Method = {"none", "int8", "int4"}
    BY <1>1, <1>3
  <2>2. CASE PressureOver(8)
    BY <1>3, <2>1, <2>2 DEF SelectMethod
  <2>3. CASE ~ PressureOver(8) /\ PressureOver(4)
    BY <1>3, <2>1, <2>3 DEF SelectMethod
  <2>4. CASE ~ PressureOver(8) /\ ~ PressureOver(4)
    BY <1>3, <2>1, <2>4 DEF SelectMethod
  <2> QED  BY <2>1, <2>2, <2>3, <2>4
<1> QED  BY <1>2, <1>3

LEMMA TunedIsMethod == ASSUME method \in Method PROVE Tuned \subseteq Method
BY DEF Tuned

\* What a store does to the bytes, its layer and the other ones.
LEMMA InsertTyped ==
  ASSUME Data, NEW t, NEW l \in Layer, NEW pos \in Position,
         NEW val, writes < MaxStores => val \in Value, NEW todo,
         Insert(t, l, pos, val, todo)
  PROVE  /\ Data'
         /\ \A k \in Layer \ {l} : cache'[k] = cache[k]
         /\ DOMAIN cache'[l] = DOMAIN cache[l] \cup {pos}
         /\ \E e \in Entry : cache'[l] = Put(cache[l], pos, e) /\ total' = total + Size(e)
<1> DEFINE m == SelectMethod
           v == IF m = "none" THEN val ELSE 0
           e == [val |-> v, compressed |-> m # "none"]
           c == Put(cache[l], pos, e)
           k == Packets(l, pos, m, val)
<1>1. /\ writes < MaxStores /\ writes' = writes + 1
      /\ cache' = [cache EXCEPT ![l] = c]
      /\ packed' = [packed EXCEPT ![l] = k]
      /\ total' = total + Size(e)
      /\ version' = version + 1
      /\ TierCheck(l, pos)
      /\ UNCHANGED memo
  BY DEF Insert, Invalidate
<1>2. /\ cache \in [Layer -> Partial(Position, Entry)]
      /\ packed \in [Layer -> Partial(Position, Packet)]
      /\ ssd \in [Layer -> Partial(Position, Position)]
      /\ disk \in [Layer -> Partial(Position, Value)]
      /\ total \in Nat /\ version \in Nat /\ writes \in 0..MaxStores /\ method \in Method
  BY DEF Data
<1>3. val \in Value /\ v \in Value /\ m \in Method
  BY <1>1, <1>2, SelectsMethods, Constants DEF Value
<1> HIDE DEF m, v
<1>4. e \in Entry /\ Size(e) \in Nat
  BY <1>3, Constants DEF Entry, Size
<1> HIDE DEF e
<1>5. c \in Partial(Position, Entry) /\ DOMAIN c = DOMAIN cache[l] \cup {pos}
  <2>1. cache[l] \in Partial(Position, Entry)
    BY <1>2
  <2>2. c \in Partial(Position, Entry)
    BY <1>4, <2>1, PutIsPartial
  <2>3. DOMAIN c = DOMAIN cache[l] \cup {pos}
    BY DEF Put
  <2> QED  BY <2>2, <2>3
<1>6. k \in Partial(Position, Packet)
  <2>1. packed[l] \in Partial(Position, Packet)
    BY <1>2
  <2>2. CASE m = "none"
    BY <2>1, <2>2 DEF Packets
  <2>3. CASE m # "none"
    <3> DEFINE x == [val |-> val, by |-> m]
    <3>1. x \in Packet
      BY <1>3 DEF Packet
    <3> HIDE DEF x
    <3>2. Put(packed[l], pos, x) \in Partial(Position, Packet)
      BY <2>1, <3>1, PutIsPartial
    <3> QED  BY <2>3, <3>2 DEF Packets, x
  <2> QED  BY <2>2, <2>3
<1> HIDE DEF k
<1>7. /\ cache' \in [Layer -> Partial(Position, Entry)] /\ cache'[l] = c
      /\ \A j \in Layer \ {l} : cache'[j] = cache[j]
  BY <1>1, <1>2, <1>5, RowReplaced
<1>8. packed' \in [Layer -> Partial(Position, Packet)]
  BY <1>1, <1>2, <1>6, RowReplaced
<1>9. /\ ssd' \in [Layer -> Partial(Position, Position)]
      /\ disk' \in [Layer -> Partial(Position, Value)]
  <2>1. CASE UNCHANGED tier
    BY <1>2, <2>1 DEF tier
  <2>2. ASSUME NEW p \in DOMAIN cache'[l],
               ssd' = [ssd EXCEPT ![l] = Put(@, p, pos)],
               disk' = [disk EXCEPT ![l] = Put(@, pos, cache'[l][p].val)]
        PROVE  /\ ssd' \in [Layer -> Partial(Position, Position)]
               /\ disk' \in [Layer -> Partial(Position, Value)]
    <3> DEFINE x == cache'[l][p].val
               s2 == Put(ssd[l], p, pos)
               d2 == Put(disk[l], pos, x)
    <3>1. p \in Position /\ x \in Value
      <4>1. p \in DOMAIN c /\ x = c[p].val
        BY <1>7, <2>2
      <4>2. p \in Position /\ c[p] \in Entry
        BY <1>5, <4>1, PartialIs
      <4> QED  BY <4>1, <4>2 DEF Entry
    <3>2. ssd' = [ssd EXCEPT ![l] = s2] /\ disk' = [disk EXCEPT ![l] = d2]
      BY <2>2
    <3> HIDE DEF x
    <3>3. ssd[l] \in Partial(Position, Position) /\ disk[l] \in Partial(Position, Value)
      BY <1>2
    <3>4. s2 \in Partial(Position, Position)
      BY <3>1, <3>3, PutIsPartial
    <3>5. d2 \in Partial(Position, Value)
      BY <3>1, <3>3, PutIsPartial
    <3> HIDE DEF s2, d2
    <3> QED  BY <1>2, <3>2, <3>4, <3>5, RowReplaced
  <2> QED  BY <1>1, <2>1, <2>2 DEF TierCheck
<1>10. total' \in Nat /\ version' \in Nat /\ writes' \in 0..MaxStores
  BY <1>1, <1>2, <1>4, Constants
<1>14. method' \in Method
  BY <1>2, TunedIsMethod DEF Insert, StoreDone
<1>11. Data'
  BY <1>1, <1>7, <1>8, <1>9, <1>10, <1>14 DEF Data
<1>12. DOMAIN cache'[l] = DOMAIN cache[l] \cup {pos}
  BY <1>5, <1>7
<1>13. cache'[l] = Put(cache[l], pos, e) /\ total' = total + Size(e)
  BY <1>1, <1>7
<1> HIDE DEF c
<1> QED  BY <1>4, <1>7, <1>11, <1>12, <1>13

\* What a store does to the threads: it holds the lock, or leaves.
LEMMA InsertControl ==
  ASSUME Data, Control, Rooms, NEW t \in Thread, lock \in {t, Free}, NEW l \in Layer,
         NEW pos, NEW val, NEW todo \in SUBSET Layer,
         \A k \in todo : RoomAfter(DOMAIN cache[k]),
         Insert(t, l, pos, val, todo), total' \in Nat,
         \A k \in Layer \ {l} : cache'[k] = cache[k]
  PROVE  /\ Control' /\ Rooms' /\ method' \in Method
         /\ \A s \in Thread : s # t => pc'[s] \notin Inside
         /\ \/ total' > Limit /\ pc'[t] = "enforcing" /\ job'[t].at = Target(total')
            \/ total' <= Limit /\ pc'[t] \in {"idle", "dropping"}
<1> DEFINE at == Target(total')
           j == [NoJob EXCEPT !.layer = l, !.todo = todo, !.at = at]
<1>1. /\ method \in Method
      /\ \/ total' > Limit /\ Continue(t, "enforcing", j) /\ UNCHANGED method
         \/ total' <= Limit /\ StoreDone(t, j)
  BY DEF Insert, Data
<1>2. at \in Int
  BY Constants DEF Target
<1> HIDE DEF at
<1>3. /\ DOMAIN j = {"layer", "at", "todo", "data"}
      /\ j.layer = l /\ j.todo = todo /\ j.at = at
  BY NoJobIs
<1> HIDE DEF j
<1>4. JobFits("enforcing", j) /\ JobFits("dropping", j)
  BY <1>2, <1>3 DEF JobFits
<1>5. ASSUME NEW place \in {"enforcing", "dropping"}, Continue(t, place, j)
      PROVE  /\ Control' /\ Rooms' /\ pc'[t] = place /\ job'[t] = j
             /\ \A s \in Thread : s # t => pc'[s] \notin Inside
  <2>1. place \in Inside /\ JobFits(place, j)
    BY <1>4 DEF Inside
  <2>2. /\ Control' /\ pc'[t] = place /\ job'[t] = j
        /\ \A s \in Thread \ {t} : pc'[s] \notin Inside
    BY <1>5, <2>1, ContinueKeeps
  <2>3. ASSUME NEW s \in Thread, pc'[s] \in Inside, NEW k \in job'[s].todo
        PROVE  RoomAfter(DOMAIN cache'[k]) \/ (pc'[s] # "prefetching" /\ k = job'[s].layer)
    <3>1. s = t /\ k \in todo /\ pc'[s] # "prefetching" /\ job'[s].layer = l
      BY <1>3, <2>2, <2>3
    <3>2. CASE k = l
      BY <3>1, <3>2
    <3>3. CASE k # l
      BY <3>1, <3>3
    <3> QED  BY <3>2, <3>3
  <2> QED  BY <2>2, <2>3 DEF Rooms, RoomFor
<1>6. ASSUME Leave(t)
      PROVE  /\ Control' /\ Rooms' /\ pc'[t] = "idle"
             /\ \A s \in Thread : pc'[s] \notin Inside
  <2>1. Control' /\ \A s \in Thread : pc'[s] \notin Inside
    BY <1>6, LeaveKeeps
  <2>2. pc'[t] = "idle"
    BY <1>6 DEF Leave, Control
  <2> QED  BY <2>1, <2>2 DEF Rooms, RoomFor
<1>7. CASE total' > Limit /\ Continue(t, "enforcing", j) /\ UNCHANGED method
  BY <1>1, <1>3, <1>5, <1>7 DEF at
<1>8. CASE total' <= Limit /\ StoreDone(t, j)
  <2>1. method' \in Method
    BY <1>1, <1>8, TunedIsMethod DEF StoreDone
  <2>2. Leave(t) \/ Continue(t, "dropping", j)
    BY <1>8 DEF StoreDone
  <2> QED  BY <1>5, <1>6, <1>8, <2>1, <2>2
<1> QED  BY <1>1, <1>7, <1>8

-----------------------------------------------------------------------------
(* The type invariant, one lemma for each kind of step.                        *)

\* The stores of callers and of prefetches, and what they are given.
LEMMA StoresGiven ==
  ASSUME Data, Control, Rooms, NEW t \in Thread,
         (\E l \in Layer, pos \in Position : Store(t, l, pos)) \/ PrefetchStore(t)
  PROVE  /\ lock \in {t, Free} /\ pc[t] \in {"idle", "prefetching"}
         /\ \E l \in Layer, pos \in Position, val \in Nat, todo \in SUBSET Layer :
              /\ Insert(t, l, pos, val, todo)
              /\ writes < MaxStores => val \in Value
              /\ \A k \in todo : RoomAfter(DOMAIN cache[k])
<1>1. CASE \E l \in Layer, pos \in Position : Store(t, l, pos)
  <2>1. PICK l \in Layer, pos \in Position : Store(t, l, pos)
    BY <1>1
  <2>2. lock = Free /\ pc[t] = "idle" /\ Insert(t, l, pos, writes + 1, {})
    BY <2>1 DEF Store
  <2>3. writes + 1 \in Nat /\ (writes < MaxStores => writes + 1 \in Value)
    BY Constants DEF Data, Value
  <2>4. {} \in SUBSET Layer /\ \A k \in {} : RoomAfter(DOMAIN cache[k])
    OBVIOUS
  <2> QED  BY <2>2, <2>3, <2>4
<1>2. CASE PrefetchStore(t)
  <2> DEFINE todo == job[t].todo
  <2>1. PICK l \in todo : /\ DOMAIN cache[l] # {}
                          /\ Insert(t, l, Max(DOMAIN cache[l]) + 1, 0, todo)
    BY <1>2 DEF PrefetchStore
  <2>2. pc[t] = "prefetching" /\ pc[t] \in Inside /\ lock = t
    BY <1>2 DEF PrefetchStore, Inside, Control
  <2>3. todo \in SUBSET Layer
    BY <2>2 DEF Control, JobFits
  <2>4. \A k \in todo : RoomAfter(DOMAIN cache[k])
    BY <2>2 DEF Rooms, RoomFor
  <2> HIDE DEF todo
  <2>5. Max(DOMAIN cache[l]) + 1 \in Position
    BY <2>1, <2>4 DEF RoomAfter
  <2>6. 0 \in Value /\ 0 \in Nat
    BY Constants DEF Value
  <2> QED  BY <2>1, <2>2, <2>3, <2>4, <2>5, <2>6
<1> QED  BY <1>1, <1>2

LEMMA StoresTyped ==
  ASSUME TypeIInv, NEW t \in Thread,
         (\E l \in Layer, pos \in Position : Store(t, l, pos)) \/ PrefetchStore(t)
  PROVE  Control' /\ Rooms' /\ Data'
<1>1. Data /\ Control /\ Rooms
  BY DEF TypeIInv
<1>2. PICK l \in Layer, pos \in Position, val \in Nat, todo \in SUBSET Layer :
        /\ Insert(t, l, pos, val, todo)
        /\ writes < MaxStores => val \in Value
        /\ \A k \in todo : RoomAfter(DOMAIN cache[k])
  BY <1>1, StoresGiven
<1>3. lock \in {t, Free}
  BY <1>1, StoresGiven
<1>4. Data' /\ \A k \in Layer \ {l} : cache'[k] = cache[k]
  BY <1>1, <1>2, InsertTyped
<1>5. total' \in Nat
  BY <1>4 DEF Data
<1>6. Control' /\ Rooms'
  BY <1>1, <1>2, <1>3, <1>4, <1>5, InsertControl
<1> QED  BY <1>4, <1>6

\* An eviction leaves the threads alone.
LEMMA EvictionsTyped ==
  ASSUME TypeIInv, NEW t \in Thread,
         EnforceStep(t) \/ \E l \in Layer, n \in 1..2 : Evict(t, l, n)
  PROVE  /\ Control' /\ Rooms' /\ Data'
         /\ UNCHANGED <<pc, job, latest, rewritten, version, memo>>
         /\ \E l \in Layer : \E S \in SUBSET DOMAIN cache[l] :
              Drop(l, S) /\ (pc[t] = "enforcing" => Crowded(l))
<1>1. /\ UNCHANGED <<method, version, memo, lock, pc, job, writes, latest, rewritten>>
      /\ \E l \in Layer : \E S \in SUBSET DOMAIN cache[l] :
           Drop(l, S) /\ (pc[t] = "enforcing" => Crowded(l))
  <2>1. CASE EnforceStep(t)
    <3>1. PICK l \in Busiest : /\ Crowded(l)
                               /\ \E S \in Removals(DOMAIN cache[l],
                                    Max({1, Cardinality(DOMAIN cache[l]) \div 10})) : Drop(l, S)
      BY <2>1 DEF EnforceStep
    <3>2. l \in Layer
      BY DEF Busiest
    <3> DEFINE n == Max({1, Cardinality(DOMAIN cache[l]) \div 10})
    <3>3. PICK S \in Removals(DOMAIN cache[l], n) : Drop(l, S)
      BY <3>1
    <3> HIDE DEF n
    <3>4. S \in SUBSET DOMAIN cache[l]
      BY RemovalsAreIn
    <3>5. UNCHANGED <<method, version, memo, lock, pc, job, writes, latest, rewritten>>
      BY <2>1 DEF EnforceStep
    <3> QED  BY <3>1, <3>2, <3>3, <3>4, <3>5
  <2>2. CASE \E l \in Layer, n \in 1..2 : Evict(t, l, n)
    <3>1. PICK l \in Layer, n \in 1..2 : Evict(t, l, n)
      BY <2>2
    <3>2. PICK S \in Removals(DOMAIN cache[l], n) : Drop(l, S)
      BY <3>1 DEF Evict
    <3>3. S \in SUBSET DOMAIN cache[l]
      BY RemovalsAreIn
    <3>4. /\ pc[t] = "idle"
          /\ UNCHANGED <<method, version, memo, lock, pc, job, writes, latest, rewritten>>
      BY <3>1 DEF Evict
    <3> QED  BY <3>2, <3>3, <3>4
  <2> QED  BY <2>1, <2>2
<1>2. PICK l \in Layer : \E S \in SUBSET DOMAIN cache[l] : Drop(l, S)
  BY <1>1
<1>7. PICK S \in SUBSET DOMAIN cache[l] : Drop(l, S)
  BY <1>2
<1>3. Control' /\ Data /\ Control /\ Rooms
  BY <1>1 DEF TypeIInv, Control
<1>4. Data' /\ \A k \in Layer : DOMAIN cache'[k] \subseteq DOMAIN cache[k]
  BY <1>1, <1>7, <1>3, DropTyped
<1>5. \A k \in Layer : DOMAIN cache[k] \subseteq Position
  BY <1>3, RowsOfCache
<1>6. Rooms'
  BY <1>1, <1>3, <1>4, <1>5, RoomsKept
<1> QED  BY <1>1, <1>3, <1>4, <1>6

\* The eviction after a store of a prefetch.
LEMMA PrefetchDropTyped ==
  ASSUME TypeIInv, NEW t \in Thread, PrefetchDrop(t)
  PROVE  /\ Control' /\ Rooms' /\ Data'
         /\ UNCHANGED <<latest, rewritten, version, memo>>
         /\ pc[t] = "dropping" /\ pc'[t] \in {"idle", "prefetching"}
         /\ \A s \in Thread : s # t => pc'[s] \notin Inside
         /\ \A s \in Thread : s # t => pc'[s] = pc[s] /\ job'[s] = job[s]
         /\ \E l \in Layer : \E S \in SUBSET DOMAIN cache[l] : Drop(l, S)
<1> DEFINE l == job[t].layer
           todo == job[t].todo \ {l}
           j == [NoJob EXCEPT !.todo = todo]
<1>1. Data /\ Control /\ Rooms
  BY DEF TypeIInv
<1>2. /\ pc[t] = "dropping" /\ pc[t] \in Inside /\ lock = t /\ l \in Layer
      /\ todo \subseteq Layer
  BY <1>1 DEF PrefetchDrop, Inside, Control, JobFits
<1>3. PICK S \in Removals(DOMAIN cache[l], 1) : Drop(l, S)
  BY DEF PrefetchDrop
<1>4. S \in SUBSET DOMAIN cache[l]
  BY RemovalsAreIn
<1>5. /\ UNCHANGED <<method, version, memo, writes, latest, rewritten>>
      /\ Leave(t) \/ Continue(t, "prefetching", j)
  BY DEF PrefetchDrop
<1>6. \A k \in todo : RoomAfter(DOMAIN cache[k])
  BY <1>1, <1>2 DEF Rooms, RoomFor
<1>7. DOMAIN j = {"layer", "at", "todo", "data"} /\ j.todo = todo /\ j.at \in Int
  BY NoJobIs
<1> HIDE DEF l, todo, j
<1>8. Data' /\ \A k \in Layer : DOMAIN cache'[k] \subseteq DOMAIN cache[k]
  BY <1>1, <1>2, <1>3, <1>4, <1>5, DropTyped
<1>9. \A k \in Layer : DOMAIN cache[k] \subseteq Position
  BY <1>1, RowsOfCache
<1>10. /\ Control' /\ pc'[t] \in {"idle", "prefetching"}
       /\ \A s \in Thread : s # t => pc'[s] \notin Inside
       /\ \A s \in Thread : pc'[s] \in Inside => job'[s].todo = todo
  <2>1. CASE Leave(t)
    <3>1. Control' /\ \A s \in Thread : pc'[s] \notin Inside
      BY <1>1, <1>2, <2>1, LeaveKeeps
    <3>2. pc'[t] = "idle"
      BY <1>1, <2>1 DEF Leave, Control
    <3> QED  BY <3>1, <3>2
  <2>2. CASE Continue(t, "prefetching", j)
    <3>1. JobFits("prefetching", j) /\ "prefetching" \in Inside
      BY <1>2, <1>7 DEF JobFits, Inside
    <3>2. /\ Control' /\ pc'[t] = "prefetching" /\ job'[t] = j
          /\ \A s \in Thread \ {t} : pc'[s] \notin Inside
      BY <1>1, <1>2, <2>2, <3>1, ContinueKeeps
    <3> QED  BY <1>7, <3>2
  <2> QED  BY <1>5, <2>1, <2>2
<1>11. Rooms'
  <2>1. \A s \in Thread : pc'[s] \in Inside =>
          job'[s].todo \subseteq Layer /\ \A k \in job'[s].todo : RoomAfter(DOMAIN cache[k])
    BY <1>2, <1>6, <1>10
  <2> QED  BY <1>1, <1>8, <1>9, <2>1, RoomsKept
<1>12. \A s \in Thread : s # t => pc'[s] = pc[s] /\ job'[s] = job[s]
  BY <1>1, <1>5 DEF Control, Leave, Continue
<1> QED  BY <1>2, <1>3, <1>4, <1>5, <1>8, <1>10, <1>11, <1>12

\* The loop ends: the thread leaves, or goes on to the eviction of its prefetch.
LEMMA EnforceDoneTyped ==
  ASSUME TypeIInv, NEW t \in Thread, EnforceDone(t)
  PROVE  /\ Control' /\ Rooms' /\ Data'
         /\ UNCHANGED <<cache, total, latest, rewritten, version, memo>>
         /\ pc[t] = "enforcing" /\ pc'[t] \in {"idle", "dropping"}
         /\ \A s \in Thread : s # t => pc'[s] \notin Inside
         /\ \A s \in Thread : s # t => pc'[s] = pc[s] /\ job'[s] = job[s]
<1>1. Data /\ Control /\ Rooms
  BY DEF TypeIInv
<1>2. /\ pc[t] = "enforcing" /\ pc[t] \in Inside /\ lock = t /\ job[t].layer \in Layer
      /\ JobFits("enforcing", job[t])
  BY <1>1 DEF EnforceDone, Inside, Control, JobFits
<1>3. /\ UNCHANGED <<cache, packed, total, ssd, disk, version, memo, writes, latest, rewritten>>
      /\ method' \in Tuned /\ (Leave(t) \/ Continue(t, "dropping", job[t]))
  BY DEF EnforceDone, StoreDone, kept, tier
<1>4. Data'
  BY <1>1, <1>3, TunedIsMethod DEF Data
<1>5. JobFits("dropping", job[t]) /\ "dropping" \in Inside
  BY <1>2 DEF JobFits, Inside
<1>6. CASE Leave(t)
  <2>1. Control' /\ \A s \in Thread : pc'[s] \notin Inside
    BY <1>1, <1>2, <1>6, LeaveKeeps
  <2>2. pc'[t] = "idle" /\ \A s \in Thread : s # t => pc'[s] = pc[s] /\ job'[s] = job[s]
    BY <1>1, <1>6 DEF Leave, Control
  <2>3. Rooms'
    BY <2>1 DEF Rooms, RoomFor
  <2> QED  BY <1>2, <1>3, <1>4, <2>1, <2>2, <2>3
<1>7. CASE Continue(t, "dropping", job[t])
  <2>1. /\ Control' /\ pc'[t] = "dropping" /\ job'[t] = job[t]
        /\ \A s \in Thread \ {t} : pc'[s] \notin Inside
    BY <1>1, <1>2, <1>5, <1>7, ContinueKeeps
  <2>2. \A s \in Thread : s # t => pc'[s] = pc[s] /\ job'[s] = job[s]
    BY <1>1, <1>7 DEF Continue, Control
  <2>3. ASSUME NEW s \in Thread, pc'[s] \in Inside, NEW k \in job'[s].todo
        PROVE  RoomAfter(DOMAIN cache'[k]) \/ (pc'[s] # "prefetching" /\ k = job'[s].layer)
    <3>1. s = t /\ k \in job[t].todo
      BY <2>1, <2>3
    <3>2. RoomAfter(DOMAIN cache[k]) \/ k = job[t].layer
      BY <1>1, <1>2, <3>1 DEF Rooms, RoomFor
    <3> QED  BY <1>3, <2>1, <3>1, <3>2
  <2>4. Rooms'
    BY <2>3 DEF Rooms, RoomFor
  <2> QED  BY <1>2, <1>3, <1>4, <2>1, <2>2, <2>4
<1> QED  BY <1>3, <1>6, <1>7

\* A prefetch takes the lock when every layer it will store in has a position left.
LEMMA PrefetchTyped ==
  ASSUME TypeIInv, NEW t \in Thread, Prefetch(t)
  PROVE  /\ Control' /\ Rooms' /\ Data'
         /\ UNCHANGED <<cache, total, latest, rewritten, version, memo>>
         /\ pc[t] = "idle" /\ pc'[t] = "prefetching"
         /\ \A s \in Thread : s # t => pc'[s] \notin Inside
         /\ \A s \in Thread : s # t => pc'[s] = pc[s] /\ job'[s] = job[s]
<1> DEFINE todo == {l \in Layer : DOMAIN cache[l] # {}}
           j == [NoJob EXCEPT !.todo = todo]
<1>1. Data /\ Control /\ Rooms
  BY DEF TypeIInv
<1>2. /\ lock = Free /\ pc[t] = "idle" /\ Continue(t, "prefetching", j)
      /\ \A l \in todo : Max(DOMAIN cache[l]) + 1 \in Position
      /\ UNCHANGED <<cache, packed, total, method, ssd, disk, version, memo, writes,
                     latest, rewritten>>
  BY DEF Prefetch, kept, tier
<1>3. todo \subseteq Layer
  OBVIOUS
<1> HIDE DEF todo
<1>4. DOMAIN j = {"layer", "at", "todo", "data"} /\ j.todo = todo /\ j.at \in Int
  BY NoJobIs
<1> HIDE DEF j
<1>5. JobFits("prefetching", j) /\ "prefetching" \in Inside
  BY <1>3, <1>4 DEF JobFits, Inside
<1>6. /\ Control' /\ pc'[t] = "prefetching" /\ job'[t] = j
      /\ \A s \in Thread \ {t} : pc'[s] \notin Inside
  BY <1>1, <1>2, <1>5, ContinueKeeps
<1>7. \A s \in Thread : s # t => pc'[s] = pc[s] /\ job'[s] = job[s]
  BY <1>1, <1>2 DEF Continue, Control
<1>8. ASSUME NEW s \in Thread, pc'[s] \in Inside, NEW k \in job'[s].todo
      PROVE  RoomAfter(DOMAIN cache'[k])
  <2>1. k \in todo
    BY <1>4, <1>6, <1>8
  <2>2. Max(DOMAIN cache[k]) + 1 \in Position
    BY <1>2, <2>1
  <2> QED  BY <1>2, <2>2 DEF RoomAfter
<1>9. Rooms'
  BY <1>8 DEF Rooms, RoomFor
<1>10. Data'
  BY <1>1, <1>2 DEF Data
<1> QED  BY <1>2, <1>6, <1>7, <1>9, <1>10

LEMMA ClearTyped ==
  ASSUME TypeIInv, NEW t \in Thread, Clear(t)
  PROVE  Control' /\ Rooms' /\ Data' /\ \A s \in Thread : pc'[s] \notin Inside
<1>1. Data /\ Control /\ Rooms
  BY DEF TypeIInv
<1>2. /\ lock = Free /\ cache' = [l \in Layer |-> Nothing]
      /\ packed' = [l \in Layer |-> Nothing] /\ ssd' = [l \in Layer |-> Nothing]
      /\ total' = 0 /\ version' = 0 /\ memo' = [l \in Layer |-> {}]
      /\ UNCHANGED <<method, disk, lock, pc, job, writes>>
  BY DEF Clear
<1>3. Data'
  <2>1. /\ Nothing \in Partial(Position, Entry) /\ Nothing \in Partial(Position, Packet)
        /\ Nothing \in Partial(Position, Position)
    BY NothingIsPartial
  <2> QED  BY <1>1, <1>2, <2>1 DEF Data
<1>4. Control' /\ \A s \in Thread : pc'[s] \notin Inside
  BY <1>1, <1>2, Constants DEF Control
<1>5. Rooms'
  BY <1>4 DEF Rooms, RoomFor
<1> QED  BY <1>3, <1>4, <1>5

\* Since nothing comes back from the tier, a fetch leaves the cache as it is.
LEMMA FetchLeavesCache ==
  ASSUME TypeIInv, NEW t \in Thread, pc[t] = "probed"
  PROVE  /\ job[t].layer \in Layer
         /\ DOMAIN Loaded(job[t].layer, DOMAIN job[t].data) = {}
         /\ [cache EXCEPT ![job[t].layer] =
               With(@, Loaded(job[t].layer, DOMAIN job[t].data))] = cache
<1> DEFINE l == job[t].layer
           range == DOMAIN job[t].data
           c == With(cache[l], Loaded(l, range))
<1>1. Data /\ Control /\ IInv
  BY DEF TypeIInv
<1>2. l \in Layer
  BY <1>1 DEF Control, JobFits
<1> HIDE DEF l, range
<1>3. cache[l] = [x \in DOMAIN cache[l] |-> cache[l][x]]
  <2>1. cache[l] \in Partial(Position, Entry)
    BY <1>1, <1>2 DEF Data
  <2> QED  BY <2>1, PartialIs
<1>4. (range \cap OnTier(l)) \ DOMAIN cache[l] = {}
  BY <1>1, <1>2 DEF OnTier, Agree, IInv
<1>5. DOMAIN Loaded(l, range) = {}
  BY <1>4 DEF Loaded
<1>6. c = cache[l]
  BY <1>3, <1>5 DEF With
<1> HIDE DEF c
<1>7. [cache EXCEPT ![l] = c] = cache
  BY <1>1, <1>6 DEF Data
<1> QED  BY <1>2, <1>5, <1>7 DEF l, range, c

\* The steps outside the lock change nothing of the tables but what a thread remembers.
LEMMA OutsideTyped ==
  ASSUME TypeIInv, NEW t \in Thread,
         \/ AutoTune(t) \/ (\E l \in Layer : Probe(t, l))
         \/ Fetch(t) \/ FetchRaises(t) \/ Memoize(t)
  PROVE  /\ Control' /\ Rooms' /\ Data'
         /\ UNCHANGED <<cache, total, latest, rewritten, version>>
         /\ pc[t] \notin Inside /\ pc'[t] \notin Inside
         /\ \A s \in Thread : s # t => pc'[s] = pc[s] /\ job'[s] = job[s]
<1>1. Data /\ Control /\ Rooms
  BY DEF TypeIInv
<1>2. /\ pc[t] \in {"idle", "probed", "fetched"} /\ pc[t] \notin Inside
      /\ JobFits(pc[t], job[t]) /\ DOMAIN job = Thread /\ pc = [s \in Thread |-> pc[s]]
  BY <1>1 DEF AutoTune, Probe, Fetch, FetchRaises, Memoize, Inside, Control
<1>3. /\ UNCHANGED <<packed, total, ssd, disk, version, lock, writes, latest, rewritten>>
      /\ UNCHANGED cache
  <2>1. CASE Fetch(t) \/ FetchRaises(t)
    BY <2>1, FetchLeavesCache DEF Fetch, FetchRaises, tier
  <2>2. CASE AutoTune(t) \/ (\E l \in Layer : Probe(t, l)) \/ Memoize(t)
    BY <2>2 DEF AutoTune, Probe, Memoize, kept, tier
  <2> QED  BY <2>1, <2>2
<1>4. Data'
  <2>1. CASE AutoTune(t) \/ (\E l \in Layer : Probe(t, l)) \/ Fetch(t) \/ FetchRaises(t)
    <3>1. method' \in Method /\ UNCHANGED memo
      BY <1>1, <2>1 DEF AutoTune, Probe, Fetch, FetchRaises, Data
    <3> QED  BY <1>1, <1>3, <3>1 DEF Data
  <2>2. CASE Memoize(t)
    <3> DEFINE x == [data |-> job[t].data, ver |-> version]
    <3>1. UNCHANGED method /\ memo' = [memo EXCEPT ![job[t].layer] = {x}]
      BY <2>2 DEF Memoize
    <3> HIDE DEF x
    <3>2. DOMAIN memo' = Layer
      BY <1>1, <3>1 DEF Data
    <3>3. ASSUME NEW l \in Layer
          PROVE  memo'[l] = {} \/ \E m \in memo'[l] : memo'[l] = {m}
      <4>1. memo'[l] = memo[l] \/ memo'[l] = {x}
        BY <1>1, <3>1 DEF Data
      <4> QED  BY <1>1, <4>1 DEF Data
    <3> QED  BY <1>1, <1>3, <3>1, <3>2, <3>3 DEF Data
  <2> QED  BY <2>1, <2>2
<1>5. ASSUME ~ AutoTune(t)
      PROVE  \E place \in {"idle", "probed", "fetched"} : \E j :
               /\ JobFits(place, j)
               /\ pc' = [pc EXCEPT ![t] = place] /\ job' = [job EXCEPT ![t] = j]
  <2>2. CASE \E l \in Layer : Probe(t, l)
    <3>1. PICK l \in Layer : Probe(t, l)
      BY <2>2
    <3> DEFINE d == [p \in Min(DOMAIN cache[l])..Max(DOMAIN cache[l]) |-> 0]
               j == [NoJob EXCEPT !.layer = l, !.data = d]
    <3>2. pc' = [pc EXCEPT ![t] = "probed"] /\ job' = [job EXCEPT ![t] = j]
      BY <3>1 DEF Probe
    <3> HIDE DEF d
    <3>3. DOMAIN j = {"layer", "at", "todo", "data"} /\ j.layer = l
      BY NoJobIs
    <3> HIDE DEF j
    <3>4. JobFits("probed", j)
      BY <3>3 DEF JobFits, Inside
    <3> QED  BY <3>2, <3>4
  <2>3. CASE Fetch(t)
    <3> DEFINE d == With([p \in DOMAIN job[t].data \cap DOMAIN cache[job[t].layer] |->
                             Decoded(job[t].layer, p)],
                         [p \in DOMAIN Loaded(job[t].layer, DOMAIN job[t].data) |->
                             Loaded(job[t].layer, DOMAIN job[t].data)[p].val])
               j == [job[t] EXCEPT !.data = d]
    <3>1. /\ pc' = [pc EXCEPT ![t] = "fetched"] /\ job' = [job EXCEPT ![t].data = d]
          /\ pc[t] = "probed"
      BY <2>3 DEF Fetch
    <3> HIDE DEF d
    <3>2. job' = [job EXCEPT ![t] = j]
      BY <3>1
    <3>3. DOMAIN j = {"layer", "at", "todo", "data"} /\ j.layer = job[t].layer
      BY <1>2 DEF JobFits
    <3>4. job[t].layer \in Layer
      BY <1>2, <3>1 DEF JobFits
    <3> HIDE DEF j
    <3>5. JobFits("fetched", j)
      BY <3>3, <3>4 DEF JobFits, Inside
    <3> QED  BY <3>1, <3>2, <3>5
  <2>4. CASE FetchRaises(t) \/ Memoize(t)
    <3>1. pc' = [pc EXCEPT ![t] = "idle"] /\ job' = [job EXCEPT ![t] = NoJob]
      BY <2>4 DEF FetchRaises, Memoize
    <3> QED  BY <3>1, NoJobIs
  <2> QED  BY <1>5, <2>2, <2>3, <2>4
<1>8. /\ Control' /\ pc'[t] \notin Inside
      /\ \A s \in Thread \ {t} : pc'[s] = pc[s] /\ job'[s] = job[s]
  <2>1. CASE AutoTune(t)
    <3>1. UNCHANGED <<lock, pc, job>>
      BY <2>1 DEF AutoTune
    <3> QED  BY <1>1, <1>2, <3>1 DEF Control
  <2>2. CASE ~ AutoTune(t)
    <3>0. PICK place \in {"idle", "probed", "fetched"} : \E j :
            /\ JobFits(place, j)
            /\ pc' = [pc EXCEPT ![t] = place] /\ job' = [job EXCEPT ![t] = j]
      BY <1>5, <2>2
    <3>1. PICK j : /\ JobFits(place, j)
                   /\ pc' = [pc EXCEPT ![t] = place] /\ job' = [job EXCEPT ![t] = j]
      BY <3>0
    <3>2. UNCHANGED lock
      BY <1>3
    <3>3. /\ Control' /\ pc'[t] = place
          /\ \A s \in Thread \ {t} : pc'[s] = pc[s] /\ job'[s] = job[s]
      BY <1>1, <1>2, <3>1, <3>2, OutsideKeeps
    <3> QED  BY <3>3 DEF Inside
  <2> QED  BY <2>1, <2>2
<1>10. Rooms'
  <2>1. \A l \in Layer : /\ DOMAIN cache[l] \subseteq Position
                         /\ DOMAIN cache'[l] \subseteq DOMAIN cache[l]
    BY <1>1, <1>3, RowsOfCache
  <2>2. \A s \in Thread : pc'[s] \in Inside => pc'[s] = pc[s] /\ job'[s] = job[s]
    BY <1>8
  <2> QED  BY <1>1, <2>1, <2>2, RoomsKept
<1> QED  BY <1>2, <1>3, <1>4, <1>8, <1>10

LEMMA InitTyped == Init => TypeIInv
<1> SUFFICES ASSUME Init PROVE TypeIInv
  OBVIOUS
<1>1. IInv
  BY InitEstablishes
<1>2. Control
  <2>1. /\ lock = Free /\ pc = [t \in Thread |-> "idle"] /\ job = [t \in Thread |-> NoJob]
    BY DEF Init
  <2> QED  BY <2>1, NoJobIs, Constants DEF Control, Inside
<1>3. Rooms
  BY DEF Init, Rooms, RoomFor, Inside
<1>4. Data
  <2>1. /\ Nothing \in Partial(Position, Entry) /\ Nothing \in Partial(Position, Packet)
        /\ Nothing \in Partial(Position, Position) /\ Nothing \in Partial(Position, Value)
    BY NothingIsPartial
  <2>2. "none" \in Method
    BY MethodAssumption
  <2>3. 0 \in 0..MaxStores
    BY Constants
  <2> QED  BY <2>1, <2>2, <2>3 DEF Init, Data
<1> QED  BY <1>1, <1>2, <1>3, <1>4 DEF TypeIInv

LEMMA StepTyped == TypeIInv /\ [Next]_vars => TypeIInv'
<1> SUFFICES ASSUME TypeIInv, [Next]_vars PROVE TypeIInv'
  OBVIOUS
<1>1. IInv'
  BY StepPreserves DEF TypeIInv
<1>2. ASSUME NEW t \in Thread, ThreadStep(t) \/ LockedStep(t)
      PROVE  Control' /\ Rooms' /\ Data'
  <2>1. CASE (\E l \in Layer, pos \in Position : Store(t, l, pos)) \/ PrefetchStore(t)
    BY <2>1, StoresTyped
  <2>2. CASE EnforceStep(t) \/ \E l \in Layer, n \in 1..2 : Evict(t, l, n)
    BY <2>2, EvictionsTyped
  <2>3. CASE EnforceDone(t)
    BY <2>3, EnforceDoneTyped
  <2>4. CASE PrefetchDrop(t)
    BY <2>4, PrefetchDropTyped
  <2>5. CASE Prefetch(t)
    BY <2>5, PrefetchTyped
  <2>6. CASE Clear(t)
    BY <2>6, ClearTyped
  <2>7. CASE \/ AutoTune(t) \/ (\E l \in Layer : Probe(t, l))
             \/ Fetch(t) \/ FetchRaises(t) \/ Memoize(t)
    BY <2>7, OutsideTyped
  <2> QED  BY <1>2, <2>1, <2>2, <2>3, <2>4, <2>5, <2>6, <2>7 DEF ThreadStep, LockedStep
<1>3. CASE UNCHANGED vars
  <2>1. Control'
    BY <1>3 DEF vars, TypeIInv, Control
  <2>2. Rooms'
    BY <1>3 DEF vars, TypeIInv, Rooms, RoomFor
  <2>3. Data'
    BY <1>3 DEF vars, TypeIInv, Data
  <2> QED  BY <1>1, <2>1, <2>2, <2>3 DEF TypeIInv
<1> QED  BY <1>1, <1>2, <1>3 DEF Next, TypeIInv

\* The tables only hold entries, packets and files of positions, and a thread is inside
\* the manager exactly while it holds the lock: with any number of threads and layers,
\* although a prefetch stores behind the last position of a layer that evictions change.
THEOREM TypeCorrect == Spec => []TypeOK
<1>1. TypeIInv => TypeOK
  BY DEF TypeIInv, TypeOK, Data, Control
<1> QED  BY <1>1, InitTyped, StepTyped, PTL DEF Spec

-----------------------------------------------------------------------------
(* The bytes: the counter never falls short, and comes back below the limit.     *)

\* An entry is not so large that what enforcing the limit leaves could still be over it.
EntriesFit == Full <= (4 * Limit) \div 5 /\ Stub <= (4 * Limit) \div 5

NoneCrowded == \A l \in Layer : ~ Crowded(l)
Calm == total <= Limit \/ NoneCrowded

\* One layer has an entry more than is left alone, and no other layer has.
OneOver ==
  \E l \in Layer : /\ Cardinality(DOMAIN cache[l]) = Floor + 1
                   /\ \A k \in Layer \ {l} : ~ Crowded(k)

\* What the loop of _enforce_limit has still to do.
Enforcing(t) == job[t].at <= Limit \/ NoneCrowded \/ (OneOver /\ total > job[t].at)

MemoryIInv ==
  /\ total >= Memory(cache)
  /\ ~ rewritten => total = Memory(cache)
  /\ \A t \in Thread : pc[t] = "enforcing" => Enforcing(t)
  /\ (\A t \in Thread : pc[t] # "enforcing") => Calm

LEMMA MemoryIs ==
  ASSUME NEW ch \in [Layer -> Partial(Position, Entry)]
  PROVE  /\ Memory(ch) = SumFunctionOnSet([l \in Layer |-> BytesOf(ch[l])], Layer)
         /\ Memory(ch) \in Nat /\ \A l \in Layer : BytesOf(ch[l]) \in Nat
<1> DEFINE f == [l \in Layer |-> BytesOf(ch[l])]
<1>1. ASSUME NEW l \in Layer PROVE f[l] \in Nat
  <2>1. DOMAIN ch[l] \in SUBSET Position
    <3>1. ch[l] \in Partial(Position, Entry)
      OBVIOUS
    <3> QED  BY <3>1, PartialIs
  <2>2. IsFiniteSet(DOMAIN ch[l])
    BY <2>1, Constants, FS_Subset
  <2>3. BytesOf(ch[l]) \in Nat
    BY <2>2, BytesAre
  <2> QED  BY <2>3
<1>2. Memory(ch) = SumFunctionOnSet(f, DOMAIN f) /\ DOMAIN f = Layer
  BY DEF Memory, SumFunction
<1>3. \A l \in Layer : BytesOf(ch[l]) \in Nat
  BY <1>1
<1> HIDE DEF f
<1>4. SumFunctionOnSet(f, Layer) \in Nat
  BY <1>1, Constants, SumIsNat
<1> QED  BY <1>2, <1>3, <1>4 DEF f

\* The memory after a step that changed one row.
LEMMA MemoryOfChange ==
  ASSUME NEW ch \in [Layer -> Partial(Position, Entry)],
         NEW dh \in [Layer -> Partial(Position, Entry)], NEW l \in Layer,
         \A k \in Layer \ {l} : dh[k] = ch[k]
  PROVE  Memory(dh) = Memory(ch) - BytesOf(ch[l]) + BytesOf(dh[l])
<1> DEFINE f == [k \in Layer |-> BytesOf(ch[k])]
           g == [k \in Layer |-> BytesOf(dh[k])]
<1>1. Memory(ch) = SumFunctionOnSet(f, Layer) /\ \A k \in Layer : f[k] \in Int
  BY MemoryIs
<1>2. Memory(dh) = SumFunctionOnSet(g, Layer) /\ \A k \in Layer : g[k] \in Int
  BY MemoryIs
<1>3. \A k \in Layer : k # l => g[k] = f[k]
  OBVIOUS
<1>4. f[l] = BytesOf(ch[l]) /\ g[l] = BytesOf(dh[l])
  OBVIOUS
<1>5. IsFiniteSet(Layer)
  BY Constants
<1> HIDE DEF f, g
<1>6. SumFunctionOnSet(g, Layer) = SumFunctionOnSet(f, Layer) - f[l] + g[l]
  BY <1>1, <1>2, <1>3, <1>5, SumChange
<1> QED  BY <1>1, <1>2, <1>4, <1>6

LEMMA MemoryOfNothing == Memory([l \in Layer |-> Nothing]) = 0
<1> DEFINE ch == [l \in Layer |-> Nothing]
           f == [l \in Layer |-> BytesOf(ch[l])]
<1>1. ch \in [Layer -> Partial(Position, Entry)]
  BY NothingIsPartial
<1>2. \A l \in Layer : f[l] = 0
  BY BytesOfNothing
<1>3. Memory(ch) = SumFunctionOnSet(f, Layer)
  <2> HIDE DEF ch
  <2> QED  BY <1>1, MemoryIs
<1> HIDE DEF f
<1>4. SumFunctionOnSet(f, Layer) = 0
  BY <1>2, Constants, SumOfZeros
<1> QED  BY <1>3, <1>4

LEMMA Counted ==
  ASSUME Data
  PROVE  \A l \in Layer : Cardinality(DOMAIN cache[l]) \in Nat /\ IsFiniteSet(DOMAIN cache[l])
<1>1. ASSUME NEW l \in Layer
      PROVE  Cardinality(DOMAIN cache[l]) \in Nat /\ IsFiniteSet(DOMAIN cache[l])
  <2>1. IsFiniteSet(DOMAIN cache[l])
    BY RowsOfCache
  <2> QED  BY <2>1, FS_CardinalityType
<1> QED  BY <1>1

\* The thread that may take the lock finds no other one at the loop.
LEMMA OthersOutside ==
  ASSUME Control, NEW t \in Thread, lock \in {t, Free}
  PROVE  \A s \in Thread : s # t => pc[s] \notin Inside
BY Constants DEF Control

\* An eviction takes exactly the bytes of its entries off the counter.
LEMMA DropMemory ==
  ASSUME Data, total >= Memory(cache), NEW l \in Layer, NEW S \in SUBSET DOMAIN cache[l],
         Drop(l, S), UNCHANGED <<method, version, memo, writes>>
  PROVE  /\ total' <= total /\ total - total' = Memory(cache) - Memory(cache')
         /\ total' >= Memory(cache')
         /\ NoneCrowded => NoneCrowded'
         /\ \A k \in Layer \ {l} : cache'[k] = cache[k]
         /\ Cardinality(DOMAIN cache'[l]) \in Nat
         /\ \/ DOMAIN cache'[l] = DOMAIN cache[l] /\ total' = total
            \/ Cardinality(DOMAIN cache'[l]) < Cardinality(DOMAIN cache[l])
<1> DEFINE freed == BytesOf(Restrict(cache[l], S))
<1>1. /\ Data'
      /\ cache'[l] = Without(cache[l], S) /\ DOMAIN cache'[l] = DOMAIN cache[l] \ S
      /\ \A k \in Layer \ {l} : cache'[k] = cache[k]
      /\ total' = IF total > freed THEN total - freed ELSE 0
  BY DropTyped
<1>2. IsFiniteSet(DOMAIN cache[l])
  BY RowsOfCache
<1>3. BytesOf(cache[l]) = BytesOf(cache'[l]) + freed
      /\ BytesOf(cache'[l]) \in Nat /\ freed \in Nat
  <2>1. BytesOf(cache[l]) = BytesOf(Without(cache[l], S)) + freed
        /\ BytesOf(Without(cache[l], S)) \in Nat /\ freed \in Nat
    BY <1>2, BytesWithout
  <2> QED  BY <1>1, <2>1
<1>4. /\ cache \in [Layer -> Partial(Position, Entry)]
      /\ cache' \in [Layer -> Partial(Position, Entry)] /\ total \in Nat
  BY <1>1 DEF Data
<1>5. Memory(cache') = Memory(cache) - BytesOf(cache[l]) + BytesOf(cache'[l])
  BY <1>1, <1>4, MemoryOfChange
<1>6. Memory(cache) \in Nat /\ Memory(cache') \in Nat /\ BytesOf(cache[l]) \in Nat
  BY <1>4, MemoryIs
<1>7. S = {} => freed = 0
  <2> SUFFICES ASSUME S = {} PROVE freed = 0
    OBVIOUS
  <2>1. DOMAIN Restrict(cache[l], S) = {}
    BY DEF Restrict
  <2>2. IsFiniteSet(DOMAIN Restrict(cache[l], S)) /\ Cardinality({}) = 0
    BY <2>1, FS_EmptySet
  <2>3. Stubs(Restrict(cache[l], S)) = {} /\ Others(Restrict(cache[l], S)) = {}
    BY <2>1 DEF Stubs, Others
  <2>4. freed = Stub * 0 + Full * 0
    BY <2>2, <2>3, BytesAre
  <2> QED  BY <2>4, Constants
<1> HIDE DEF freed
<1>8. /\ total' = total - freed /\ total' <= total
      /\ total - total' = Memory(cache) - Memory(cache') /\ total' >= Memory(cache')
  <2> DEFINE before == Memory(cache)
             after == Memory(cache')
             x == BytesOf(cache[l])
             y == BytesOf(cache'[l])
  <2>1. /\ after = before - x + y /\ x = y + freed /\ total >= before
        /\ before \in Nat /\ after \in Nat /\ x \in Nat /\ y \in Nat /\ freed \in Nat
        /\ total \in Nat /\ total' = IF total > freed THEN total - freed ELSE 0
    BY <1>1, <1>3, <1>4, <1>5, <1>6
  <2> HIDE DEF before, after, x, y
  <2>2. /\ total' = total - freed /\ total' <= total
        /\ total - total' = before - after /\ total' >= after
    BY <2>1
  <2> QED  BY <2>2 DEF before, after
<1>9. \A k \in Layer : Cardinality(DOMAIN cache[k]) \in Nat
  BY Counted
<1>10. DOMAIN cache[l] \ S \in SUBSET DOMAIN cache[l]
  OBVIOUS
<1>11. /\ Cardinality(DOMAIN cache'[l]) <= Cardinality(DOMAIN cache[l])
       /\ Cardinality(DOMAIN cache'[l]) = Cardinality(DOMAIN cache[l])
            => DOMAIN cache'[l] = DOMAIN cache[l]
       /\ Cardinality(DOMAIN cache'[l]) \in Nat
  <2>1. /\ Cardinality(DOMAIN cache[l] \ S) <= Cardinality(DOMAIN cache[l])
        /\ Cardinality(DOMAIN cache[l]) = Cardinality(DOMAIN cache[l] \ S)
             => DOMAIN cache[l] = DOMAIN cache[l] \ S
        /\ IsFiniteSet(DOMAIN cache[l] \ S)
    BY <1>2, <1>10, FS_Subset
  <2> QED  BY <1>1, <2>1, FS_CardinalityType
<1>12. NoneCrowded => NoneCrowded'
  BY <1>1, <1>9, <1>11, Constants DEF NoneCrowded, Crowded
<1>13. CASE DOMAIN cache'[l] = DOMAIN cache[l]
  <2>1. S = {}
    BY <1>1, <1>13
  <2>2. total' = total
    BY <1>4, <1>7, <1>8, <2>1
  <2> QED  BY <1>1, <1>8, <1>11, <1>12, <1>13, <2>2
<1>14. CASE DOMAIN cache'[l] # DOMAIN cache[l]
  <2>1. Cardinality(DOMAIN cache'[l]) < Cardinality(DOMAIN cache[l])
    BY <1>9, <1>11, <1>14
  <2> QED  BY <1>1, <1>8, <1>11, <1>12, <2>1
<1> QED  BY <1>13, <1>14

LEMMA InitMemory == Init => MemoryIInv
<1> SUFFICES ASSUME Init PROVE MemoryIInv
  OBVIOUS
<1>1. total = 0 /\ Memory(cache) = 0
  BY MemoryOfNothing DEF Init
<1>2. \A t \in Thread : pc[t] = "idle"
  BY DEF Init
<1>3. Calm
  BY <1>1, Constants DEF Calm
<1> QED  BY <1>1, <1>2, <1>3 DEF MemoryIInv

\* A store adds its entry to the counter, and to the memory at most that.
LEMMA StoresMemory ==
  ASSUME TypeIInv, MemoryIInv, EntriesFit, NEW t \in Thread,
         (\E l \in Layer, pos \in Position : Store(t, l, pos)) \/ PrefetchStore(t)
  PROVE  MemoryIInv'
<1>1. Data /\ Control /\ Rooms
  BY DEF TypeIInv
<1>2. PICK l \in Layer, pos \in Position, val \in Nat, todo \in SUBSET Layer :
        /\ Insert(t, l, pos, val, todo)
        /\ writes < MaxStores => val \in Value
        /\ \A k \in todo : RoomAfter(DOMAIN cache[k])
  BY <1>1, StoresGiven
<1>3. lock \in {t, Free} /\ pc[t] \in {"idle", "prefetching"}
  BY <1>1, StoresGiven
<1>4. /\ Data' /\ DOMAIN cache'[l] = DOMAIN cache[l] \cup {pos}
      /\ \A k \in Layer \ {l} : cache'[k] = cache[k]
      /\ \E e \in Entry : cache'[l] = Put(cache[l], pos, e) /\ total' = total + Size(e)
  <2>1. Insert(t, l, pos, val, todo) /\ (writes < MaxStores => val \in Value)
    BY <1>2
  <2>2. Data' /\ \A k \in Layer \ {l} : cache'[k] = cache[k]
    BY <1>1, <2>1, InsertTyped
  <2>3. DOMAIN cache'[l] = DOMAIN cache[l] \cup {pos}
    BY <1>1, <2>1, InsertTyped
  <2>4. \E e \in Entry : cache'[l] = Put(cache[l], pos, e) /\ total' = total + Size(e)
    BY <1>1, <2>1, InsertTyped
  <2> QED  BY <2>2, <2>3, <2>4
<1>5. PICK e \in Entry : cache'[l] = Put(cache[l], pos, e) /\ total' = total + Size(e)
  BY <1>4
<1>6. total' \in Nat /\ total \in Nat
  BY <1>1, <1>4 DEF Data
<1>7. /\ \A s \in Thread : s # t => pc'[s] \notin Inside
      /\ \/ total' > Limit /\ pc'[t] = "enforcing" /\ job'[t].at = Target(total')
         \/ total' <= Limit /\ pc'[t] \in {"idle", "dropping"}
  BY <1>1, <1>2, <1>3, <1>4, <1>6, InsertControl
<1>8. Calm
  <2>1. \A s \in Thread : pc[s] # "enforcing"
    BY <1>1, <1>3, OthersOutside DEF Inside
  <2> QED  BY <2>1 DEF MemoryIInv
<1>9. e.compressed \in BOOLEAN /\ Size(e) \in Nat /\ Size(e) <= (4 * Limit) \div 5
  BY Constants DEF Entry, Size, EntriesFit
<1> DEFINE added == Size(e)
           before == Memory(cache)
           after == Memory(cache')
<1>10. /\ before \in Nat /\ after \in Nat /\ after <= before + added
       /\ pos \notin DOMAIN cache[l] => after = before + added
  <2>1. /\ cache \in [Layer -> Partial(Position, Entry)]
        /\ cache' \in [Layer -> Partial(Position, Entry)]
    BY <1>1, <1>4 DEF Data
  <2>2. after = before - BytesOf(cache[l]) + BytesOf(cache'[l])
        /\ before \in Nat /\ after \in Nat
    BY <1>4, <2>1, MemoryOfChange, MemoryIs
  <2>3. IsFiniteSet(DOMAIN cache[l])
    BY <1>1, RowsOfCache
  <2>4. /\ BytesOf(cache'[l]) <= BytesOf(cache[l]) + added
        /\ pos \notin DOMAIN cache[l] => BytesOf(cache'[l]) = BytesOf(cache[l]) + added
        /\ BytesOf(cache'[l]) \in Nat /\ BytesOf(cache[l]) \in Nat
    BY <1>5, <1>9, <2>3, BytesPut
  <2> DEFINE x == BytesOf(cache[l])
             y == BytesOf(cache'[l])
  <2> HIDE DEF added, before, after, x, y
  <2>5. after = before - x + y /\ y <= x + added /\ x \in Nat /\ y \in Nat
        /\ (pos \notin DOMAIN cache[l] => y = x + added)
    BY <2>2, <2>4 DEF x, y
  <2>6. added \in Nat
    BY <1>9 DEF added
  <2> QED  BY <2>2, <2>5, <2>6
<1>11. total >= before /\ (~ rewritten => total = before)
  BY DEF MemoryIInv
<1>12. ~ rewritten' => ~ rewritten /\ pos \notin DOMAIN cache[l]
  BY <1>2 DEF Insert
<1> HIDE DEF added, before, after
<1>13. total' >= after /\ (~ rewritten' => total' = after)
  <2>1. total' = total + added /\ added \in Nat
    BY <1>5, <1>9 DEF added
  <2> QED  BY <1>6, <1>10, <1>11, <1>12, <2>1
<1>14. CASE total' <= Limit /\ pc'[t] \in {"idle", "dropping"}
  <2>1. \A s \in Thread : pc'[s] # "enforcing"
    BY <1>7, <1>14 DEF Inside
  <2>2. Calm'
    BY <1>14 DEF Calm
  <2> QED  BY <1>13, <2>1, <2>2 DEF MemoryIInv, after
<1>15. CASE total' > Limit /\ pc'[t] = "enforcing" /\ job'[t].at = Target(total')
  <2> DEFINE at == job'[t].at
             room == (4 * Limit) \div 5
  <2>1. at = total' - room /\ room \in Int /\ room > 0
    BY <1>15, Constants DEF Target, EntriesFit
  <2>2. total' = total + added /\ added \in Nat /\ added <= room
    BY <1>5, <1>9 DEF added
  <2> HIDE DEF at, room
  <2>3. ASSUME total <= Limit PROVE Enforcing(t)'
    <3>1. at <= Limit
      BY <1>6, <2>1, <2>2, <2>3, Constants
    <3> QED  BY <3>1 DEF at, Enforcing
  <2>4. ASSUME NoneCrowded PROVE Enforcing(t)'
    <3>1. total' > at
      <4> DEFINE later == total'
      <4>1. later \in Nat /\ room \in Int /\ room > 0 /\ at = later - room
        BY <1>6, <2>1
      <4> HIDE DEF later
      <4>2. later > at
        BY <4>1
      <4> QED  BY <4>2 DEF later
    <3>2. \A k \in Layer \ {l} : ~ (Cardinality(DOMAIN cache'[k]) > Floor)
      BY <1>4, <2>4 DEF NoneCrowded, Crowded
    <3>3. /\ Cardinality(DOMAIN cache'[l]) \in Nat
          /\ Cardinality(DOMAIN cache'[l]) <= Cardinality(DOMAIN cache[l]) + 1
          /\ Cardinality(DOMAIN cache[l]) \in Nat
      <4>1. Cardinality(DOMAIN cache[l]) \in Nat /\ IsFiniteSet(DOMAIN cache[l])
        BY <1>1, Counted
      <4>2. Cardinality(DOMAIN cache[l] \cup {pos}) =
              IF pos \in DOMAIN cache[l] THEN Cardinality(DOMAIN cache[l])
                                         ELSE Cardinality(DOMAIN cache[l]) + 1
        BY <4>1, FS_AddElement
      <4> QED  BY <1>4, <4>1, <4>2
    <3>4. ~ (Cardinality(DOMAIN cache[l]) > Floor)
      BY <2>4 DEF NoneCrowded, Crowded
    <3>5. CASE Cardinality(DOMAIN cache'[l]) = Floor + 1
      <4>1. OneOver'
        BY <3>2, <3>5 DEF OneOver, Crowded
      <4> QED  BY <3>1, <4>1 DEF Enforcing, at
    <3>6. CASE Cardinality(DOMAIN cache'[l]) # Floor + 1
      <4>1. ~ (Cardinality(DOMAIN cache'[l]) > Floor)
        BY <3>3, <3>4, <3>6, Constants
      <4>2. NoneCrowded'
        BY <3>2, <4>1 DEF NoneCrowded, Crowded
      <4> QED  BY <4>2 DEF Enforcing
    <3> QED  BY <3>5, <3>6
  <2>5. Enforcing(t)'
    BY <1>8, <2>3, <2>4 DEF Calm
  <2>6. \A s \in Thread : pc'[s] = "enforcing" => s = t
    BY <1>7 DEF Inside
  <2>7. \A s \in Thread : pc'[s] = "enforcing" => Enforcing(s)'
    BY <2>5, <2>6
  <2>8. ~ \A s \in Thread : pc'[s] # "enforcing"
    BY <1>15
  <2> QED  BY <1>13, <2>7, <2>8 DEF MemoryIInv, after
<1> QED  BY <1>7, <1>14, <1>15

\* What an eviction leaves of the invariant, whoever evicts.
LEMMA DropFacts ==
  ASSUME Data, MemoryIInv, NEW l \in Layer,
         NEW S \in SUBSET DOMAIN cache[l], Drop(l, S),
         UNCHANGED <<method, version, memo, writes, rewritten>>
  PROVE  /\ total' <= total /\ total \in Nat /\ total' \in Nat
         /\ total' >= Memory(cache') /\ (~ rewritten' => total' = Memory(cache'))
         /\ NoneCrowded => NoneCrowded'
         /\ \A k \in Layer \ {l} : cache'[k] = cache[k]
         /\ Cardinality(DOMAIN cache'[l]) \in Nat
         /\ \/ DOMAIN cache'[l] = DOMAIN cache[l] /\ total' = total
            \/ Cardinality(DOMAIN cache'[l]) < Cardinality(DOMAIN cache[l])
         /\ Data'
<1>1. total >= Memory(cache) /\ (~ rewritten => total = Memory(cache))
  BY DEF MemoryIInv
<1>2. UNCHANGED <<method, version, memo, writes>>
  OBVIOUS
<1>3. /\ total' <= total /\ total - total' = Memory(cache) - Memory(cache')
      /\ total' >= Memory(cache') /\ (NoneCrowded => NoneCrowded')
      /\ \A k \in Layer \ {l} : cache'[k] = cache[k]
      /\ Cardinality(DOMAIN cache'[l]) \in Nat
      /\ \/ DOMAIN cache'[l] = DOMAIN cache[l] /\ total' = total
         \/ Cardinality(DOMAIN cache'[l]) < Cardinality(DOMAIN cache[l])
  BY <1>1, <1>2, DropMemory
<1>4. Data'
  BY <1>2, DropTyped
<1>5. /\ cache \in [Layer -> Partial(Position, Entry)]
      /\ cache' \in [Layer -> Partial(Position, Entry)]
      /\ total \in Nat /\ total' \in Nat
  BY <1>4 DEF Data
<1>6. Memory(cache) \in Nat /\ Memory(cache') \in Nat
  BY <1>5, MemoryIs
<1>7. ~ rewritten' => total' = Memory(cache')
  BY <1>1, <1>3, <1>5, <1>6
<1> QED  BY <1>3, <1>4, <1>5, <1>7

\* An eviction that no loop is waiting for.
LEMMA CalmDrop ==
  ASSUME Data, MemoryIInv, \A s \in Thread : pc[s] # "enforcing",
         \A s \in Thread : pc'[s] # "enforcing", NEW l \in Layer,
         NEW S \in SUBSET DOMAIN cache[l], Drop(l, S),
         UNCHANGED <<method, version, memo, writes, rewritten>>
  PROVE  MemoryIInv'
<1>1. /\ total' <= total /\ total \in Nat /\ total' \in Nat
      /\ total' >= Memory(cache') /\ (~ rewritten' => total' = Memory(cache'))
      /\ NoneCrowded => NoneCrowded'
  BY DropFacts
<1>2. Calm
  BY DEF MemoryIInv
<1>3. Calm'
  BY <1>1, <1>2, Constants DEF Calm
<1> QED  BY <1>1, <1>3 DEF MemoryIInv

\* An iteration of the loop: it empties the one layer that was over, or goes on.
LEMMA EnforceStepMemory ==
  ASSUME TypeIInv, MemoryIInv, NEW t \in Thread, EnforceStep(t)
  PROVE  MemoryIInv'
<1>1. Data /\ Control
  BY DEF TypeIInv
<1>2. /\ pc[t] = "enforcing" /\ lock = t /\ total > job[t].at
      /\ UNCHANGED <<method, version, memo, writes, pc, job, rewritten>>
  BY <1>1 DEF EnforceStep, Control, Inside
<1>3. PICK l \in Layer : \E S \in SUBSET DOMAIN cache[l] :
                           Drop(l, S) /\ (pc[t] = "enforcing" => Crowded(l))
  BY EvictionsTyped
<1>4. PICK S \in SUBSET DOMAIN cache[l] : Drop(l, S) /\ Crowded(l)
  BY <1>2, <1>3
<1>5. UNCHANGED <<method, version, memo, writes, rewritten>>
  BY <1>2
<1>6. /\ total' >= Memory(cache') /\ (~ rewritten' => total' = Memory(cache'))
      /\ Data'
      /\ \A k \in Layer \ {l} : cache'[k] = cache[k]
      /\ Cardinality(DOMAIN cache'[l]) \in Nat
      /\ \/ DOMAIN cache'[l] = DOMAIN cache[l] /\ total' = total
         \/ Cardinality(DOMAIN cache'[l]) < Cardinality(DOMAIN cache[l])
  BY <1>1, <1>4, <1>5, DropFacts
<1>7. \A s \in Thread : pc'[s] = "enforcing" => s = t
  BY <1>1, <1>2, OthersOutside DEF Inside
<1>8. ASSUME ~ (job[t].at <= Limit)
      PROVE  Enforcing(t)'
  <2>1. Enforcing(t)
    BY <1>2 DEF MemoryIInv
  <2>2. ~ NoneCrowded
    BY <1>4 DEF NoneCrowded
  <2>3. OneOver
    BY <1>8, <2>1, <2>2 DEF Enforcing
  <2>4. PICK m \in Layer : /\ Cardinality(DOMAIN cache[m]) = Floor + 1
                           /\ \A k \in Layer \ {m} : ~ Crowded(k)
    BY <2>3 DEF OneOver
  <2>5. m = l
    BY <1>4, <2>4
  <2>6. CASE DOMAIN cache'[l] = DOMAIN cache[l] /\ total' = total
    <3>1. Cardinality(DOMAIN cache'[l]) = Floor + 1
      BY <2>4, <2>5, <2>6
    <3>2. \A k \in Layer \ {l} : ~ Crowded(k)'
      BY <1>6, <2>4, <2>5 DEF Crowded
    <3>3. OneOver'
      BY <3>1, <3>2 DEF OneOver
    <3>4. total' > job'[t].at
      BY <1>2, <2>6
    <3> QED  BY <3>3, <3>4 DEF Enforcing
  <2>7. CASE Cardinality(DOMAIN cache'[l]) < Cardinality(DOMAIN cache[l])
    <3>2. ~ (Cardinality(DOMAIN cache'[l]) > Floor)
      BY <1>6, <2>4, <2>5, <2>7, Constants
    <3>3. \A k \in Layer : ~ (Cardinality(DOMAIN cache'[k]) > Floor)
      BY <1>6, <2>4, <2>5, <3>2 DEF Crowded
    <3>4. NoneCrowded'
      BY <3>3 DEF NoneCrowded, Crowded
    <3> QED  BY <3>4 DEF Enforcing
  <2> QED  BY <1>6, <2>6, <2>7
<1>9. Enforcing(t)'
  <2>1. CASE job[t].at <= Limit
    BY <1>2, <2>1 DEF Enforcing
  <2> QED  BY <1>8, <2>1
<1>10. ~ \A s \in Thread : pc'[s] # "enforcing"
  BY <1>2
<1>11. \A s \in Thread : pc'[s] = "enforcing" => Enforcing(s)'
  BY <1>7, <1>9
<1> QED  BY <1>6, <1>10, <1>11 DEF MemoryIInv

\* The loop ends at its target, or when no layer has more than is left alone.
LEMMA EnforceDoneMemory ==
  ASSUME TypeIInv, MemoryIInv, NEW t \in Thread, EnforceDone(t)
  PROVE  MemoryIInv'
<1>1. Data /\ Control
  BY DEF TypeIInv
<1>2. /\ UNCHANGED <<cache, total, rewritten>>
      /\ pc[t] = "enforcing" /\ pc'[t] \in {"idle", "dropping"}
      /\ \A s \in Thread : s # t => pc'[s] \notin Inside
  BY EnforceDoneTyped
<1>3. \A s \in Thread : pc'[s] # "enforcing"
  BY <1>2 DEF Inside
<1>4. Enforcing(t)
  BY <1>2 DEF MemoryIInv
<1>5. \A l \in Layer : Cardinality(DOMAIN cache[l]) \in Nat
  BY <1>1, Counted
<1>6. ASSUME NEW l \in Busiest, ~ Crowded(l)
      PROVE  NoneCrowded
  <2>1. l \in Layer /\ \A k \in Layer : Cardinality(DOMAIN cache[k]) <= Cardinality(DOMAIN cache[l])
    BY DEF Busiest
  <2> QED  BY <1>5, <1>6, <2>1, Constants DEF NoneCrowded, Crowded
<1>7. total \in Nat /\ job[t].at \in Int
  BY <1>1, <1>2 DEF Data, Control, JobFits, Inside
<1>8. Calm
  <2>1. CASE total <= job[t].at
    <3>1. ~ (total > job[t].at)
      BY <1>7, <2>1
    <3>2. job[t].at <= Limit => total <= Limit
      BY <1>7, <2>1, Constants
    <3> QED  BY <1>4, <3>1, <3>2 DEF Enforcing, Calm
  <2>2. CASE \E l \in Busiest : ~ Crowded(l)
    BY <1>6, <2>2 DEF Calm
  <2> QED  BY <2>1, <2>2 DEF EnforceDone
<1>9. Calm'
  BY <1>2, <1>8 DEF Calm, NoneCrowded, Crowded
<1>10. total' >= Memory(cache') /\ (~ rewritten' => total' = Memory(cache'))
  BY <1>2 DEF MemoryIInv
<1> QED  BY <1>3, <1>9, <1>10 DEF MemoryIInv

\* Steps that leave the cache and the counter alone, and no loop any further.
LEMMA QuietMemory ==
  ASSUME MemoryIInv, UNCHANGED <<cache, total, rewritten>>,
         \A s \in Thread : pc'[s] = "enforcing" => pc[s] = "enforcing" /\ job'[s] = job[s],
         \A s \in Thread : pc[s] = "enforcing" => pc'[s] = "enforcing"
  PROVE  MemoryIInv'
<1>1. total' >= Memory(cache') /\ (~ rewritten' => total' = Memory(cache'))
  BY DEF MemoryIInv
<1>2. NoneCrowded' = NoneCrowded /\ OneOver' = OneOver
  BY DEF NoneCrowded, OneOver, Crowded
<1>3. ASSUME NEW s \in Thread, pc'[s] = "enforcing" PROVE Enforcing(s)'
  <2>1. Enforcing(s) /\ job'[s] = job[s]
    BY <1>3 DEF MemoryIInv
  <2> QED  BY <1>2, <2>1 DEF Enforcing
<1>4. (\A s \in Thread : pc'[s] # "enforcing") => Calm'
  BY <1>2 DEF MemoryIInv, Calm
<1> QED  BY <1>1, <1>3, <1>4 DEF MemoryIInv

LEMMA StepMemory ==
  ASSUME EntriesFit
  PROVE  TypeIInv /\ MemoryIInv /\ [Next]_vars => MemoryIInv'
<1> SUFFICES ASSUME TypeIInv, MemoryIInv, [Next]_vars PROVE MemoryIInv'
  OBVIOUS
<1>1. Data /\ Control
  BY DEF TypeIInv
<1>2. ASSUME NEW t \in Thread, ThreadStep(t) \/ LockedStep(t)
      PROVE  MemoryIInv'
  <2>1. CASE (\E l \in Layer, pos \in Position : Store(t, l, pos)) \/ PrefetchStore(t)
    BY <2>1, StoresMemory
  <2>2. CASE EnforceStep(t)
    BY <2>2, EnforceStepMemory
  <2>3. CASE EnforceDone(t)
    BY <2>3, EnforceDoneMemory
  <2>4. CASE \E l \in Layer, n \in 1..2 : Evict(t, l, n)
    <3>1. lock = Free /\ UNCHANGED <<method, version, memo, writes, rewritten, pc>>
      BY <2>4 DEF Evict
    <3>2. \A s \in Thread : pc[s] # "enforcing" /\ pc'[s] # "enforcing"
      BY <1>1, <3>1, Constants DEF Control, Inside
    <3>3. PICK l \in Layer : \E S \in SUBSET DOMAIN cache[l] : Drop(l, S)
      BY <2>4, EvictionsTyped
    <3>4. PICK S \in SUBSET DOMAIN cache[l] : Drop(l, S)
      BY <3>3
    <3> QED  BY <1>1, <3>1, <3>2, <3>4, CalmDrop
  <2>5. CASE PrefetchDrop(t)
    <3>1. /\ UNCHANGED <<method, version, memo, writes, rewritten>>
          /\ pc[t] = "dropping" /\ pc'[t] \in {"idle", "prefetching"}
          /\ \A s \in Thread : s # t => pc'[s] \notin Inside
          /\ \E l \in Layer : \E S \in SUBSET DOMAIN cache[l] : Drop(l, S)
      BY <2>5, PrefetchDropTyped DEF PrefetchDrop
    <3>2. lock = t
      BY <1>1, <3>1 DEF Control, Inside
    <3>3. \A s \in Thread : pc[s] # "enforcing" /\ pc'[s] # "enforcing"
      BY <1>1, <3>1, <3>2, OthersOutside DEF Inside
    <3>4. PICK l \in Layer : \E S \in SUBSET DOMAIN cache[l] : Drop(l, S)
      BY <3>1
    <3>5. PICK S \in SUBSET DOMAIN cache[l] : Drop(l, S)
      BY <3>4
    <3>6. UNCHANGED <<method, version, memo, writes, rewritten>>
      BY <3>1
    <3> QED  BY <1>1, <3>3, <3>5, <3>6, CalmDrop
  <2>6. CASE Prefetch(t)
    <3>1. /\ UNCHANGED <<cache, total, rewritten>>
          /\ pc[t] = "idle" /\ pc'[t] = "prefetching"
          /\ \A s \in Thread : s # t => pc'[s] = pc[s] /\ job'[s] = job[s]
      BY <2>6, PrefetchTyped
    <3>2. UNCHANGED <<cache, total, rewritten>>
      BY <3>1
    <3> QED  BY <3>1, <3>2, QuietMemory
  <2>7. CASE Clear(t)
    <3>1. /\ cache' = [l \in Layer |-> Nothing] /\ total' = 0
      BY <2>7 DEF Clear
    <3>2. \A s \in Thread : pc'[s] # "enforcing"
      BY <2>7, ClearTyped DEF Inside
    <3>3. total' = Memory(cache')
      BY <3>1, MemoryOfNothing
    <3>4. Calm'
      BY <3>1, Constants DEF Calm
    <3> QED  BY <3>1, <3>2, <3>3, <3>4 DEF MemoryIInv
  <2>8. CASE \/ AutoTune(t) \/ (\E l \in Layer : Probe(t, l))
             \/ Fetch(t) \/ FetchRaises(t) \/ Memoize(t)
    <3>1. /\ UNCHANGED <<cache, total, rewritten>>
          /\ pc[t] # "enforcing" /\ pc'[t] # "enforcing"
          /\ \A s \in Thread : s # t => pc'[s] = pc[s] /\ job'[s] = job[s]
      BY <2>8, OutsideTyped DEF Inside
    <3>2. UNCHANGED <<cache, total, rewritten>>
      BY <3>1
    <3> QED  BY <3>1, <3>2, QuietMemory
  <2> QED  BY <1>2, <2>1, <2>2, <2>3, <2>4, <2>5, <2>6, <2>7, <2>8 DEF ThreadStep, LockedStep
<1>3. CASE UNCHANGED vars
  <2>1. UNCHANGED <<cache, total, rewritten>> /\ UNCHANGED <<pc, job>>
    BY <1>3 DEF vars
  <2>2. UNCHANGED <<cache, total, rewritten>>
    BY <2>1
  <2> QED  BY <2>1, <2>2, QuietMemory
<1> QED  BY <1>2, <1>3 DEF Next

\* When a single entry takes at most four fifths of the limit, the byte counter never falls
\* short of the memory in use, is exact until a position is stored over, and is back within
\* the limit, or no layer has more entries than are left alone, whenever the lock is free:
\* whichever entries the policies choose, and although the loop of _enforce_limit stops at a
\* target that it took from the counter before its first eviction.
THEOREM BoundKept == EntriesFit => (Spec => []MemoryBounded)
<1> SUFFICES ASSUME EntriesFit PROVE Spec => []MemoryBounded
  OBVIOUS
<1>1. Init => TypeIInv /\ MemoryIInv
  BY InitTyped, InitMemory
<1>2. TypeIInv /\ MemoryIInv /\ [Next]_vars => (TypeIInv /\ MemoryIInv)'
  BY StepTyped, StepMemory
<1>3. TypeIInv /\ MemoryIInv => MemoryBounded
  <2> SUFFICES ASSUME TypeIInv, MemoryIInv PROVE MemoryBounded
    OBVIOUS
  <2>1. ASSUME lock = Free PROVE Calm
    <3>1. \A s \in Thread : pc[s] # "enforcing"
      BY <2>1, Constants DEF TypeIInv, Control, Inside
    <3> QED  BY <3>1 DEF MemoryIInv
  <2> QED  BY <2>1 DEF MemoryBounded, MemoryIInv, Calm, NoneCrowded
<1> QED  BY <1>1, <1>2, <1>3, PTL DEF Spec

-----------------------------------------------------------------------------
(* What retrieve_all serves, for one thread.                                  *)

OneThread == \A s, t \in Thread : s = t

\* A result that has, for every cached position, the vector stored last or a decode that
\* went wrong.
Good(l, data) == \A p \in DOMAIN cache[l] : p \in DOMAIN data /\ data[p] \in {0, latest[l][p]}

ServedIInv ==
  /\ \A l \in Layer : \A m \in memo[l] :
       m.ver \in Nat /\ m.ver <= version /\ (m.ver = version => Good(l, m.data))
  /\ \A t \in Thread : pc[t] = "probed" =>
       DOMAIN cache[job[t].layer] \subseteq DOMAIN job[t].data
  /\ \A t \in Thread : pc[t] = "fetched" => Good(job[t].layer, job[t].data)

LEMMA InitServed == Init => ServedIInv
BY DEF Init, ServedIInv

\* The positions of a layer only become fewer, and nothing else that is served changes.
LEMMA FewerServed ==
  ASSUME ServedIInv, UNCHANGED <<latest, version, memo>>,
         \A l \in Layer : DOMAIN cache'[l] \subseteq DOMAIN cache[l],
         \A s \in Thread : pc'[s] \notin {"probed", "fetched"}
  PROVE  ServedIInv'
<1>1. ASSUME NEW l \in Layer, NEW m \in memo'[l]
      PROVE  m.ver \in Nat /\ m.ver <= version' /\ (m.ver = version' => Good(l, m.data)')
  BY <1>1 DEF ServedIInv, Good
<1> QED  BY <1>1 DEF ServedIInv

LEMMA StoresServed ==
  ASSUME TypeIInv, ServedIInv, OneThread, NEW t \in Thread,
         (\E l \in Layer, pos \in Position : Store(t, l, pos)) \/ PrefetchStore(t)
  PROVE  ServedIInv'
<1>1. Data /\ Control /\ Rooms
  BY DEF TypeIInv
<1>2. PICK l \in Layer, pos \in Position, val \in Nat, todo \in SUBSET Layer :
        /\ Insert(t, l, pos, val, todo)
        /\ writes < MaxStores => val \in Value
        /\ \A k \in todo : RoomAfter(DOMAIN cache[k])
  BY <1>1, StoresGiven
<1>3. version' = version + 1 /\ UNCHANGED memo /\ version \in Nat
  BY <1>1, <1>2 DEF Insert, Invalidate, Data
<1>4. pc'[t] \in {"idle", "dropping", "enforcing"}
  <2>1. Leave(t) \/ \E j : Continue(t, "dropping", j) \/ Continue(t, "enforcing", j)
    BY <1>2 DEF Insert, StoreDone
  <2> QED  BY <1>1, <2>1 DEF Leave, Continue, Control
<1>5. \A s \in Thread : pc'[s] \notin {"probed", "fetched"}
  BY <1>4 DEF OneThread
<1>6. ASSUME NEW k \in Layer, NEW m \in memo'[k]
      PROVE  m.ver \in Nat /\ m.ver <= version' /\ m.ver # version'
  BY <1>3, <1>6 DEF ServedIInv
<1> QED  BY <1>5, <1>6 DEF ServedIInv

LEMMA ProbeServed ==
  ASSUME TypeIInv, ServedIInv, OneThread, NEW t \in Thread, NEW l \in Layer, Probe(t, l)
  PROVE  ServedIInv'
<1> DEFINE d == [p \in Min(DOMAIN cache[l])..Max(DOMAIN cache[l]) |-> 0]
           j == [NoJob EXCEPT !.layer = l, !.data = d]
<1>1. Data /\ Control
  BY DEF TypeIInv
<1>2. /\ UNCHANGED <<cache, latest, version, memo>> /\ DOMAIN cache[l] # {}
      /\ pc' = [pc EXCEPT ![t] = "probed"] /\ job' = [job EXCEPT ![t] = j]
  BY DEF Probe, kept
<1>3. DOMAIN cache[l] \subseteq DOMAIN d
  <2>1. DOMAIN cache[l] \subseteq Min(DOMAIN cache[l])..Max(DOMAIN cache[l])
    BY <1>1, <1>2, RowsOfCache, LastPosition
  <2> HIDE DEF Min, Max
  <2> QED  BY <2>1
<1> HIDE DEF d
<1>4. j.layer = l /\ j.data = d
  BY NoJobIs
<1> HIDE DEF j
<1>5. pc'[t] = "probed" /\ job'[t] = j
  BY <1>1, <1>2 DEF Control
<1>6. \A s \in Thread : s = t
  BY DEF OneThread
<1>7. \A k \in Layer : \A m \in memo'[k] :
        m.ver \in Nat /\ m.ver <= version' /\ (m.ver = version' => Good(k, m.data)')
  BY <1>2 DEF ServedIInv, Good
<1>8. \A s \in Thread : DOMAIN cache'[job'[s].layer] \subseteq DOMAIN job'[s].data
  BY <1>2, <1>3, <1>4, <1>5, <1>6
<1>9. \A s \in Thread : pc'[s] # "fetched"
  BY <1>5, <1>6
<1> QED  BY <1>7, <1>8, <1>9 DEF ServedIInv

\* A decode gives the vector stored last, or a wrong one.
LEMMA DecodesNewest ==
  ASSUME IInv, NEW l \in Layer, NEW p \in DOMAIN cache[l]
  PROVE  Decoded(l, p) \in {0, latest[l][p]}
<1>1. Agree(cache[l], packed[l], ssd[l], latest[l])
  BY DEF IInv
<1>2. CASE cache[l][p].compressed
  <2>1. p \in DOMAIN packed[l] /\ packed[l][p].val = latest[l][p]
    BY <1>1, <1>2 DEF Agree
  <2> HIDE DEF SelectMethod
  <2> QED  BY <1>2, <2>1 DEF Decoded
<1>3. CASE ~ cache[l][p].compressed
  <2>1. cache[l][p].val = latest[l][p]
    BY <1>1, <1>3 DEF Agree
  <2> QED  BY <1>3, <2>1 DEF Decoded
<1> QED  BY <1>2, <1>3

LEMMA FetchServed ==
  ASSUME TypeIInv, ServedIInv, OneThread, NEW t \in Thread, Fetch(t)
  PROVE  ServedIInv'
<1> DEFINE l == job[t].layer
           range == DOMAIN job[t].data
           loaded == Loaded(l, range)
           d == With([p \in range \cap DOMAIN cache[l] |-> Decoded(l, p)],
                     [p \in DOMAIN loaded |-> loaded[p].val])
<1>1. Data /\ Control /\ IInv
  BY DEF TypeIInv
<1>2. /\ pc[t] = "probed" /\ job' = [job EXCEPT ![t].data = d]
      /\ pc' = [pc EXCEPT ![t] = "fetched"]
      /\ cache' = [cache EXCEPT ![l] = With(@, loaded)]
      /\ UNCHANGED <<latest, version, memo>>
  BY DEF Fetch
<1>3. UNCHANGED cache /\ DOMAIN loaded = {} /\ l \in Layer
  BY <1>2, FetchLeavesCache
<1>4. DOMAIN cache[l] \subseteq range
  BY <1>2 DEF ServedIInv
<1>5. \A p \in DOMAIN cache[l] : p \in DOMAIN d /\ d[p] = Decoded(l, p)
  <2> HIDE DEF l, range, loaded
  <2> QED  BY <1>3, <1>4 DEF With
<1>6. \A p \in DOMAIN cache[l] : Decoded(l, p) \in {0, latest[l][p]}
  BY <1>1, <1>3, DecodesNewest
<1> HIDE DEF d, range, loaded
<1>7. pc'[t] = "fetched" /\ job'[t].data = d /\ job'[t].layer = l
  BY <1>1, <1>2 DEF Control, JobFits
<1>8. \A s \in Thread : s = t
  BY DEF OneThread
<1>9. \A k \in Layer : \A m \in memo'[k] :
        m.ver \in Nat /\ m.ver <= version' /\ (m.ver = version' => Good(k, m.data)')
  BY <1>2, <1>3 DEF ServedIInv, Good
<1>10. Good(job[t].layer, job[t].data)'
  <2> HIDE DEF l
  <2>1. Good(l, d)
    BY <1>5, <1>6 DEF Good
  <2> QED  BY <1>2, <1>3, <1>7, <2>1 DEF Good
<1>11. \A s \in Thread : pc'[s] # "probed"
  BY <1>7, <1>8
<1> QED  BY <1>8, <1>9, <1>10, <1>11 DEF ServedIInv

LEMMA MemoizeServed ==
  ASSUME TypeIInv, ServedIInv, OneThread, NEW t \in Thread, Memoize(t)
  PROVE  ServedIInv'
<1> DEFINE x == [data |-> job[t].data, ver |-> version]
<1>1. Data /\ Control
  BY DEF TypeIInv
<1>2. /\ pc[t] = "fetched" /\ memo' = [memo EXCEPT ![job[t].layer] = {x}]
      /\ pc' = [pc EXCEPT ![t] = "idle"] /\ UNCHANGED <<cache, latest, version>>
  BY DEF Memoize, kept
<1>3. x.data = job[t].data /\ x.ver = version /\ version \in Nat
  BY <1>1 DEF Data
<1> HIDE DEF x
<1>4. \A s \in Thread : pc'[s] = "idle"
  BY <1>1, <1>2 DEF OneThread, Control
<1>5. ASSUME NEW l \in Layer, NEW m \in memo'[l]
      PROVE  m.ver \in Nat /\ m.ver <= version' /\ (m.ver = version' => Good(l, m.data)')
  <2>1. CASE m \in memo[l]
    BY <1>2, <2>1 DEF ServedIInv, Good
  <2>2. CASE m \notin memo[l]
    <3>1. m = x /\ l = job[t].layer
      BY <1>1, <1>2, <1>5, <2>2 DEF Data
    <3>2. Good(l, m.data)
      BY <1>2, <1>3, <3>1 DEF ServedIInv
    <3>3. Good(l, m.data)'
      BY <1>2, <3>2 DEF Good
    <3> QED  BY <1>2, <1>3, <3>1, <3>3
  <2> QED  BY <2>1, <2>2
<1> QED  BY <1>4, <1>5 DEF ServedIInv

LEMMA StepServed ==
  ASSUME OneThread
  PROVE  TypeIInv /\ ServedIInv /\ [Next]_vars => ServedIInv'
<1> SUFFICES ASSUME TypeIInv, ServedIInv, [Next]_vars PROVE ServedIInv'
  OBVIOUS
<1>1. Data /\ Control
  BY DEF TypeIInv
<1>2. ASSUME NEW t \in Thread, ThreadStep(t) \/ LockedStep(t)
      PROVE  ServedIInv'
  <2>0. \A s \in Thread : s = t
    BY DEF OneThread
  <2>1. CASE (\E l \in Layer, pos \in Position : Store(t, l, pos)) \/ PrefetchStore(t)
    BY <2>1, StoresServed
  <2>2. CASE EnforceStep(t) \/ \E l \in Layer, n \in 1..2 : Evict(t, l, n)
    <3>1. /\ UNCHANGED <<pc, latest, version, memo>>
          /\ \E l \in Layer : \E S \in SUBSET DOMAIN cache[l] : Drop(l, S)
      BY <2>2, EvictionsTyped
    <3>2. pc[t] \in {"enforcing", "idle"} /\ UNCHANGED <<method, version, memo, writes>>
      BY <2>2 DEF EnforceStep, Evict
    <3>3. PICK l \in Layer : \E S \in SUBSET DOMAIN cache[l] : Drop(l, S)
      BY <3>1
    <3>4. PICK S \in SUBSET DOMAIN cache[l] : Drop(l, S)
      BY <3>3
    <3>5. \A k \in Layer : DOMAIN cache'[k] \subseteq DOMAIN cache[k]
      BY <1>1, <3>2, <3>4, DropTyped
    <3>6. UNCHANGED <<latest, version, memo>>
          /\ \A s \in Thread : pc'[s] \notin {"probed", "fetched"}
      BY <2>0, <3>1, <3>2
    <3> QED  BY <3>5, <3>6, FewerServed
  <2>3. CASE EnforceDone(t) \/ Prefetch(t)
    <3>1. /\ UNCHANGED <<cache, latest, version, memo>>
          /\ pc'[t] \notin {"probed", "fetched"}
      BY <2>3, EnforceDoneTyped, PrefetchTyped
    <3>2. /\ UNCHANGED <<latest, version, memo>>
          /\ \A l \in Layer : DOMAIN cache'[l] \subseteq DOMAIN cache[l]
          /\ \A s \in Thread : pc'[s] \notin {"probed", "fetched"}
      BY <2>0, <3>1
    <3> QED  BY <3>2, FewerServed
  <2>4. CASE PrefetchDrop(t)
    <3>1. /\ UNCHANGED <<latest, version, memo>> /\ pc'[t] \in {"idle", "prefetching"}
          /\ \E l \in Layer : \E S \in SUBSET DOMAIN cache[l] : Drop(l, S)
      BY <2>4, PrefetchDropTyped
    <3>2. UNCHANGED <<method, version, memo, writes>>
      BY <2>4 DEF PrefetchDrop
    <3>3. PICK l \in Layer : \E S \in SUBSET DOMAIN cache[l] : Drop(l, S)
      BY <3>1
    <3>4. PICK S \in SUBSET DOMAIN cache[l] : Drop(l, S)
      BY <3>3
    <3>5. \A k \in Layer : DOMAIN cache'[k] \subseteq DOMAIN cache[k]
      BY <1>1, <3>2, <3>4, DropTyped
    <3>6. UNCHANGED <<latest, version, memo>>
          /\ \A s \in Thread : pc'[s] \notin {"probed", "fetched"}
      BY <2>0, <3>1
    <3> QED  BY <3>5, <3>6, FewerServed
  <2>5. CASE Clear(t)
    <3>1. memo' = [l \in Layer |-> {}] /\ pc' = pc /\ pc[t] = "idle"
      BY <2>5 DEF Clear
    <3> QED  BY <2>0, <3>1 DEF ServedIInv
  <2>6. CASE AutoTune(t) \/ FetchRaises(t)
    <3>1. /\ UNCHANGED <<latest, version, memo>> /\ pc'[t] = "idle"
      BY <1>1, <2>6 DEF AutoTune, FetchRaises, Control
    <3>2. UNCHANGED cache
      BY <2>6, OutsideTyped
    <3>3. UNCHANGED <<latest, version, memo>>
          /\ (\A l \in Layer : DOMAIN cache'[l] \subseteq DOMAIN cache[l])
          /\ \A s \in Thread : pc'[s] \notin {"probed", "fetched"}
      BY <2>0, <3>1, <3>2
    <3> QED  BY <3>3, FewerServed
  <2>7. CASE \E l \in Layer : Probe(t, l)
    BY <2>7, ProbeServed
  <2>8. CASE Fetch(t)
    BY <2>8, FetchServed
  <2>9. CASE Memoize(t)
    BY <2>9, MemoizeServed
  <2> QED  BY <1>2, <2>1, <2>2, <2>3, <2>4, <2>5, <2>6, <2>7, <2>8, <2>9
           DEF ThreadStep, LockedStep
<1>3. CASE UNCHANGED vars
  BY <1>3 DEF vars, ServedIInv, Good
<1> QED  BY <1>2, <1>3 DEF Next

\* With one thread, what retrieve_all returns without looking at a layer holds every cached
\* position of it, none with a vector older than the last one stored: whatever stores,
\* evictions, prefetches and clears came between, and whichever codec read it.  (Two threads
\* can break it: the result is cached under the version of the moment it is put away.)
THEOREM ServedNewest == OneThread => (Spec => []ServedIsNewest)
<1> SUFFICES ASSUME OneThread PROVE Spec => []ServedIsNewest
  OBVIOUS
<1>1. Init => TypeIInv /\ ServedIInv
  BY InitTyped, InitServed
<1>2. TypeIInv /\ ServedIInv /\ [Next]_vars => (TypeIInv /\ ServedIInv)'
  BY StepTyped, StepServed
<1>3. TypeIInv /\ ServedIInv => ServedIsNewest
  BY DEF ServedIInv, Good, ServedIsNewest, Served
<1> QED  BY <1>1, <1>2, <1>3, PTL DEF Spec

-----------------------------------------------------------------------------
(* The loop of _enforce_limit comes to an end.                                *)

LEMMA LargerOfTwo ==
  ASSUME NEW x \in Int, NEW y \in Int
  PROVE  /\ Max({x, y}) \in {x, y} /\ Max({x, y}) >= x
         /\ Min({x, y}) \in {x, y}
<1>1. \E z \in {x, y} : \A w \in {x, y} : z >= w
  BY x >= y \/ y >= x
<1>2. \E z \in {x, y} : \A w \in {x, y} : z <= w
  BY x <= y \/ y <= x
<1>3. Max({x, y}) \in {x, y} /\ \A w \in {x, y} : Max({x, y}) >= w
  BY <1>1 DEF Max
<1>4. Min({x, y}) \in {x, y}
  BY <1>2 DEF Min
<1> QED  BY <1>3, <1>4

\* A policy that may choose any entries chooses one at least, if there is one.
LEMMA SomethingGoes ==
  ASSUME Policy = "any", NEW ps, IsFiniteSet(ps), ps # {}, NEW n \in Nat,
         NEW S \in Removals(ps, Max({1, n}))
  PROVE  S # {}
<1> DEFINE k == Cardinality(ps)
           m == Max({1, n})
<1>1. k \in Nat /\ k >= 1
  BY FS_CardinalityType, FS_EmptySet
<1>2. m \in {1, n} /\ m >= 1
  BY LargerOfTwo
<1> HIDE DEF k, m
<1>3. m \in Int /\ k \in Int
  BY <1>1, <1>2
<1>4. Min({m, k}) \in {m, k}
  BY <1>3, LargerOfTwo
<1>5. Cardinality(S) = Min({m, k})
  BY DEF Removals, k, m
<1>6. Cardinality(S) # 0
  BY <1>1, <1>2, <1>4, <1>5
<1> QED  BY <1>6, FS_EmptySet

\* What a pass of the loop leaves: no layer has more, and one has an entry less.
Freeing ==
  /\ \A l \in Layer : DOMAIN cache'[l] \subseteq DOMAIN cache[l]
  /\ \E l \in Layer : Cardinality(DOMAIN cache'[l]) < Cardinality(DOMAIN cache[l])

\* When the policy may name any entries, and so names one, each pass of the loop in
\* _enforce_limit removes an entry, wherever the counter has drifted to: the loop, during
\* which nobody else has the lock, ends.  (The window policy may name none, and then does
\* not.)
THEOREM EveryPassFrees ==
  Policy = "any" => (Spec => [][\A t \in Thread : EnforceStep(t) => Freeing]_vars)
<1> SUFFICES ASSUME Policy = "any"
             PROVE  Spec => [][\A t \in Thread : EnforceStep(t) => Freeing]_vars
  OBVIOUS
<1>1. ASSUME TypeIInv, NEW t \in Thread, EnforceStep(t)
      PROVE  Freeing
  <2>1. PICK l \in Busiest :
          /\ Crowded(l)
          /\ \E S \in Removals(DOMAIN cache[l], Max({1, Cardinality(DOMAIN cache[l]) \div 10})) :
               Drop(l, S)
    BY <1>1 DEF EnforceStep
  <2> DEFINE n == Cardinality(DOMAIN cache[l])
  <2>2. PICK S \in Removals(DOMAIN cache[l], Max({1, n \div 10})) : Drop(l, S)
    BY <2>1
  <2>3. l \in Layer /\ IsFiniteSet(DOMAIN cache[l])
    BY <1>1, RowsOfCache DEF TypeIInv, Busiest
  <2>4. n \in Nat /\ n > Floor /\ Floor \in Nat
    BY <2>1, <2>3, FS_CardinalityType, Constants DEF Crowded
  <2>5. DOMAIN cache[l] # {}
    BY <2>4, FS_EmptySet
  <2>6. n \div 10 \in Nat
    BY <2>4
  <2> HIDE DEF n
  <2>7. S # {} /\ S \subseteq DOMAIN cache[l]
    BY <2>2, <2>3, <2>5, <2>6, SomethingGoes, RemovalsAreIn
  <2>8. Data /\ UNCHANGED <<method, version, memo, writes>>
    BY <1>1 DEF EnforceStep, TypeIInv
  <2>9. /\ DOMAIN cache'[l] = DOMAIN cache[l] \ S
        /\ \A k \in Layer : DOMAIN cache'[k] \subseteq DOMAIN cache[k]
    BY <2>2, <2>3, <2>7, <2>8, DropTyped
  <2>10. DOMAIN cache'[l] \in SUBSET DOMAIN cache[l] /\ DOMAIN cache'[l] # DOMAIN cache[l]
    BY <2>7, <2>9
  <2>11. Cardinality(DOMAIN cache'[l]) < Cardinality(DOMAIN cache[l])
    BY <2>3, <2>10, FS_Subset, FS_CardinalityType
  <2> QED  BY <2>3, <2>9, <2>11 DEF Freeing
<1>2. TypeIInv /\ [Next]_vars
        => [\A t \in Thread : EnforceStep(t) => Freeing]_vars
  BY <1>1
<1>3. Init => TypeIInv
  BY InitTyped
<1>4. TypeIInv /\ [Next]_vars => TypeIInv'
  BY StepTyped
<1> QED  BY <1>2, <1>3, <1>4, PTL DEF Spec
=============================================================================
