---------------------------- MODULE ModelManager ----------------------------
(***************************************************************************)
(* ModelManager of serving/model_manager.py.  One lock is held by every operation   *)
(* from end to end (it is reentrant: hot_swap calls load), so that each is one      *)
(* action.  An engine may fail to be built.  `used' lists the models by last_used.   *)
(***************************************************************************)
EXTENDS Selection, FiniteSets, SequencesExt, Functions

CONSTANTS
  Model,            \* model ids
  Size,             \* what _estimate_model_size may find
  MaxModels,        \* _max_models
  MaxMemory         \* _max_memory_bytes, 0 for no limit

ASSUME ModelsAssumption == MaxModels \in Nat \ {0} /\ MaxMemory \in Nat /\ Size \subseteq Nat

VARIABLES
  models,           \* _models: the size of each model loaded
  used,             \* their order by last_used, the most recent last
  totalBytes        \* _total_loaded_bytes

modelVars == <<models, used, totalBytes>>

Loaded == DOMAIN models
Sum(table) == SumFunction(table)
Only(ids) == [m \in ids |-> models[m]]
Later(order, m) == Append(Minus(order, {m}), m)

ModelsInit ==
  /\ models = <<>>
  /\ used = <<>>
  /\ totalBytes = 0

\* _evict_if_needed takes the least recently used until there is room for one more; only
\* then, and only if it took one, it goes on until the counter meets the memory limit.
AfterFirst(order, i) == SubSeq(order, i + 1, Len(order))
Freed(order, i) == Sum(Only(ToSet(SubSeq(order, 1, i))))
Fits(bytes, order) == MaxMemory = 0 \/ bytes <= MaxMemory \/ order = <<>>

Evicted(order, bytes) ==
  IF Len(order) < MaxModels THEN 0
  ELSE LET enough == {i \in 1..Len(order) :
                        /\ Len(AfterFirst(order, i)) < MaxModels
                        /\ Fits(bytes - Freed(order, i), AfterFirst(order, i))}
       IN CHOOSE i \in enough : \A j \in enough : i <= j

\* load of m over the models of an order, for which `bytes' are counted; when the engine
\* cannot be built, the models evicted for it stay away.
LoadOver(order, bytes, m, size) ==
  LET n == Evicted(order, bytes)
      left == AfterFirst(order, n)
  IN
  /\ models' = [k \in ToSet(left) \cup {m} |-> IF k = m THEN size ELSE models[k]]
  /\ used' = Append(left, m)
  /\ totalBytes' = bytes - Freed(order, n) + size

LoadFails ==
  LET n == Evicted(used, totalBytes)
      left == AfterFirst(used, n)
  IN
  /\ models' = Only(ToSet(left))
  /\ used' = left
  /\ totalBytes' = totalBytes - Freed(used, n)

Load(m) ==
  /\ m \notin Loaded
  /\ (\E size \in Size : LoadOver(used, totalBytes, m, size)) \/ LoadFails

\* get, and load of a model that is there.
Hit(m) ==
  /\ m \in Loaded
  /\ used' = Later(used, m)
  /\ UNCHANGED <<models, totalBytes>>

Unload(m) ==
  /\ m \in Loaded
  /\ models' = Only(Loaded \ {m})
  /\ used' = Minus(used, {m})
  /\ totalBytes' = totalBytes - models[m]

\* Mutant: a failed swap puts the old entry back but not its bytes.
HotSwapForgetsBytes(m) ==
  /\ m \in Loaded
  /\ \/ \E size \in Size :
          LoadOver(Minus(used, {m}), totalBytes - models[m], m, size)
     \/ /\ UNCHANGED <<models, used>>
        /\ totalBytes' = totalBytes - models[m]

\* hot_swap of a loaded model: it is taken out, the new one is loaded, and if that
\* fails the old one is put back with its last_used.  Of a model that is not loaded it
\* is a load.
HotSwap(m) ==
  LET others == Minus(used, {m})
      bytes == totalBytes - models[m]
      n == Evicted(others, bytes)
      gone == ToSet(SubSeq(others, 1, n))
  IN
  /\ m \in Loaded
  /\ \/ \E size \in Size : LoadOver(others, bytes, m, size)
     \/ /\ models' = Only(Loaded \ gone)
        /\ used' = Minus(used, gone)
        /\ totalBytes' = bytes - Freed(others, n) + models[m]

ModelsNext == \E m \in Model : Load(m) \/ Hit(m) \/ Unload(m) \/ HotSwap(m)

ModelsSpec == ModelsInit /\ [][ModelsNext]_modelVars

-----------------------------------------------------------------------------
\* The order of use lists each loaded model once.
ModelsTypeOK ==
  /\ Loaded \subseteq Model
  /\ models \in [Loaded -> Size]
  /\ used \in Seq(Model) /\ ToSet(used) = Loaded /\ Len(used) = Cardinality(Loaded)
  /\ totalBytes \in Nat

\* Whatever was evicted, swapped or put back after a failure, the bytes counted are
\* those of the models in the table, and the table is within its limit.
ModelsAddUp ==
  /\ totalBytes = Sum(models)
  /\ Cardinality(Loaded) <= MaxModels

=============================================================================
