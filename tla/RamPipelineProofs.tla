-------------------------- MODULE RamPipelineProofs --------------------------
(***************************************************************************)
(* Theorems about runs of the RAM pipeline, for any number of tensors,        *)
(* workers and runs, and any order in which the pools finish their tasks.     *)
(***************************************************************************)
EXTENDS RamPipeline, TLAPS

USE NAssumption, WorkersAssumption, MaxRunsAssumption

\* While a pool works, a tensor is done with exactly when its outcome has been
\* collected: by now loaded or failed, later compressed or failed.
PoolInv ==
  /\ pc = "loading" =>
       /\ compressed = {}
       /\ loaded \cap failures = {}
       /\ \A t \in Tensor : task[t] # "none"
       /\ \A t \in Tensor : task[t] = "seen" <=> t \in loaded \cup failures
  /\ pc = "compressing" =>
       /\ compressed \cap failures = {}
       /\ \A t \in Tensor :
            task[t] \in {"none", "seen"} <=> t \in compressed \cup failures
  /\ pc \in {"loading", "compressing"} =>
       outcome = "running" /\ counted = {} /\ pos = 1
  /\ pc = "draining" => outcome = "raising"

\* The compressed tensors and the failures are the two parts of the model, and
\* the loop has written the compressed ones before pos.
WriteInv ==
  /\ pc \in {"writing", "wrote"} \cup Sealing =>
       /\ compressed \cap failures = {}
       /\ compressed \cup failures = Tensor
       /\ staged = counted
       /\ open
  /\ pc \in {"writing", "wrote"} => outcome = "running" /\ listed = {}
  /\ pc = "writing" => counted = {t \in compressed : t < pos}
  /\ pc = "wrote" => counted = {t \in compressed : t <= pos} /\ pos \in compressed
  /\ pc \in Sealing => outcome \in {"running", "raising"}
  /\ pc \in Sealing /\ outcome = "running" => counted = compressed
  /\ pc = "published" => listed = staged

IdleInv ==
  /\ pc = "idle" => outcome \notin {"running", "raising"}
  /\ outcome = "returned" => pc = "idle"

IInv == TypeOK /\ PoolInv /\ WriteInv /\ IdleInv /\ EveryTensorOnce

-----------------------------------------------------------------------------

LEMMA InitEstablishes == Init => IInv
<1> SUFFICES ASSUME Init PROVE IInv
  OBVIOUS
<1> USE DEF Init, Out!ArchiveInit
<1>1. TypeOK
  <2>1. 1 \in 1..(N + 1) /\ 0 \in 0..MaxRuns
    OBVIOUS
  <2> QED  BY <2>1 DEF TypeOK, Out!ArchiveTypeOK, Future
<1>2. PoolInv /\ WriteInv /\ IdleInv /\ EveryTensorOnce
  BY DEF PoolInv, WriteInv, IdleInv, EveryTensorOnce, Sealing
<1> QED  BY <1>1, <1>2 DEF IInv

LEMMA StutterPreserves == IInv /\ UNCHANGED vars => IInv'
  BY DEF vars, IInv, TypeOK, PoolInv, WriteInv, IdleInv, EveryTensorOnce,
         Out!ArchiveTypeOK

\* A run starts with every tensor queued and nothing done.
LEMMA StartPreserves == IInv /\ Start => IInv'
<1> SUFFICES ASSUME IInv, Start PROVE IInv'
  OBVIOUS
<1> USE DEF Start, fileVars
<1>1. task' \in [Tensor -> Future] /\ \A t \in Tensor : task'[t] = "queued"
  BY DEF Submitted, Future
<1>2. TypeOK'
  BY <1>1 DEF IInv, TypeOK, Out!ArchiveTypeOK, Pooling
<1>3. PoolInv'
  BY <1>1 DEF PoolInv
<1>4. WriteInv' /\ IdleInv' /\ EveryTensorOnce'
  BY DEF WriteInv, IdleInv, EveryTensorOnce, Sealing
<1> QED  BY <1>2, <1>3, <1>4 DEF IInv

\* The pool's threads only move futures between states that are not collected.
LEMMA PoolStepPreserves == IInv /\ PoolStep => IInv'
<1> SUFFICES ASSUME IInv, PoolStep PROVE IInv'
  OBVIOUS
<1>1. PICK t \in Tensor, s \in {"running", "ok", "error"} :
        /\ task[t] \in {"queued", "running"}
        /\ task' = [task EXCEPT ![t] = s]
  BY DEF PoolStep, WorkerTakes, WorkerEnds
<1>2. UNCHANGED <<fileVars, pc, outcome, resultVars, pos, counted, runs>>
  BY DEF PoolStep, WorkerTakes, WorkerEnds
<1>3. TypeOK'
  BY <1>1, <1>2 DEF IInv, TypeOK, Future, fileVars, resultVars, Out!ArchiveTypeOK
<1>4. PoolInv'
  <2>1. \A u \in Tensor : (task'[u] = "seen" <=> task[u] = "seen")
                          /\ (task'[u] = "none" <=> task[u] = "none")
    BY <1>1 DEF IInv, TypeOK
  <2> QED  BY <1>2, <2>1 DEF IInv, PoolInv, resultVars
<1>5. WriteInv' /\ IdleInv' /\ EveryTensorOnce'
  BY <1>2 DEF IInv, WriteInv, IdleInv, EveryTensorOnce, fileVars, resultVars
<1> QED  BY <1>3, <1>4, <1>5 DEF IInv

\* The main thread takes one outcome.
LEMMA CollectPreserves ==
  ASSUME IInv, NEW t \in Tensor, Collect(t)
  PROVE  IInv'
<1> USE DEF Collect, fileVars
<1>1. TypeOK'
  BY DEF IInv, TypeOK, Future, Out!ArchiveTypeOK
<1>2. PoolInv'
  <2>1. task \in [Tensor -> Future] /\ task' = [task EXCEPT ![t] = "seen"]
    BY DEF IInv, TypeOK
  <2>2. CASE pc = "loading"
    <3>1. t \notin loaded \cup failures
      BY <2>2 DEF IInv, PoolInv
    <3>2. loaded' \cup failures' = loaded \cup failures \cup {t}
          /\ loaded' \cap failures' = {} /\ compressed' = {}
      BY <2>2, <3>1 DEF IInv, PoolInv
    <3> QED  BY <2>1, <2>2, <3>2 DEF IInv, PoolInv
  <2>3. CASE pc = "compressing"
    <3>1. t \notin compressed \cup failures
      BY <2>3 DEF IInv, PoolInv
    <3>2. compressed' \cup failures' = compressed \cup failures \cup {t}
          /\ compressed' \cap failures' = {}
      BY <2>3, <3>1 DEF IInv, PoolInv
    <3> QED  BY <2>1, <2>3, <3>2 DEF IInv, PoolInv
  <2> QED  BY <2>2, <2>3
<1>3. WriteInv' /\ IdleInv' /\ EveryTensorOnce'
  BY DEF IInv, WriteInv, IdleInv, EveryTensorOnce, PoolInv, Sealing
<1> QED  BY <1>1, <1>2, <1>3 DEF IInv
LEMMA EndLoadingPreserves == IInv /\ EndLoading => IInv'
<1> SUFFICES ASSUME IInv, EndLoading PROVE IInv'
  OBVIOUS
<1> USE DEF EndLoading, fileVars, resultVars
<1>1. /\ task' \in [Tensor -> Future]
      /\ \A t \in Tensor : task'[t] = IF t \in loaded THEN "queued" ELSE "none"
  BY DEF Submitted, Future
<1>2. TypeOK'
  BY <1>1 DEF IInv, TypeOK, Out!ArchiveTypeOK, Pooling
<1>3. \A t \in Tensor : t \in loaded <=> t \notin failures
  BY DEF IInv, PoolInv, AllSeen
<1>4. PoolInv'
  BY <1>1, <1>3 DEF IInv, PoolInv
<1>5. WriteInv' /\ IdleInv' /\ EveryTensorOnce'
  BY DEF IInv, WriteInv, IdleInv, EveryTensorOnce, PoolInv, Sealing
<1> QED  BY <1>2, <1>4, <1>5 DEF IInv

\* Leaving the pools by an exception, or never opening the output.
LEMMA PoolExitPreserves ==
  IInv /\ (InterruptPool \/ Drained \/ OpenOutputFails) => IInv'
<1> SUFFICES ASSUME IInv, InterruptPool \/ Drained \/ OpenOutputFails
             PROVE  IInv'
  OBVIOUS
<1> USE DEF InterruptPool, Drained, OpenOutputFails, fileVars, resultVars
<1>1. TypeOK'
  BY DEF IInv, TypeOK, Out!ArchiveTypeOK, Pooling
<1>2. PoolInv' /\ WriteInv' /\ IdleInv' /\ EveryTensorOnce'
  BY DEF IInv, PoolInv, WriteInv, IdleInv, EveryTensorOnce, Sealing
<1> QED  BY <1>1, <1>2 DEF IInv

\* When the last outcome has been collected every tensor has one.
LEMMA OpenOutputPreserves == IInv /\ OpenOutput => IInv'
<1> SUFFICES ASSUME IInv, OpenOutput PROVE IInv'
  OBVIOUS
<1> USE DEF OpenOutput, Out!Begin, resultVars
<1>1. TypeOK'
  BY DEF IInv, TypeOK, Out!ArchiveTypeOK
<1>2. compressed \cap failures = {} /\ compressed \cup failures = Tensor
  BY DEF IInv, TypeOK, PoolInv, AllSeen
<1>3. counted = {} /\ pos = 1 /\ outcome = "running"
  BY DEF IInv, PoolInv
<1>4. {t \in compressed : t < 1} = {}
  <2>1. \A t \in compressed : ~(t < 1)
    BY DEF IInv, TypeOK, Tensor
  <2> QED  BY <2>1
<1>5. WriteInv'
  BY <1>2, <1>3, <1>4 DEF WriteInv, Sealing
<1>6. PoolInv' /\ IdleInv' /\ EveryTensorOnce'
  BY <1>3 DEF PoolInv, IdleInv, EveryTensorOnce
<1> QED  BY <1>1, <1>5, <1>6 DEF IInv

-----------------------------------------------------------------------------
(* The writing loop.                                                        *)

LEMMA SkipFailedPreserves == IInv /\ SkipFailed => IInv'
<1> SUFFICES ASSUME IInv, SkipFailed PROVE IInv'
  OBVIOUS
<1> USE DEF SkipFailed, fileVars, resultVars
<1>1. pos \in Tensor /\ pos' = pos + 1 /\ compressed \subseteq Tensor
  BY DEF IInv, TypeOK
<1>2. TypeOK'
  BY <1>1 DEF IInv, TypeOK, Out!ArchiveTypeOK, Tensor
<1>3. {t \in compressed : t < pos'} = {t \in compressed : t < pos}
  <2>1. \A t \in compressed : t < pos' <=> t < pos
    BY <1>1 DEF Tensor
  <2> QED  BY <2>1
<1>4. WriteInv'
  BY <1>3 DEF IInv, WriteInv, Sealing
<1>5. PoolInv' /\ IdleInv' /\ EveryTensorOnce'
  BY DEF IInv, PoolInv, IdleInv, EveryTensorOnce
<1> QED  BY <1>2, <1>4, <1>5 DEF IInv

LEMMA WriteTensorPreserves == IInv /\ WriteTensor => IInv'
<1> SUFFICES ASSUME IInv, WriteTensor PROVE IInv'
  OBVIOUS
<1> USE DEF WriteTensor, Out!Stage, resultVars
<1>1. pos \in compressed /\ compressed \subseteq Tensor
  BY DEF IInv, TypeOK
<1>2. TypeOK'
  BY <1>1 DEF IInv, TypeOK, Out!ArchiveTypeOK
<1>3. {t \in compressed : t <= pos} = {t \in compressed : t < pos} \cup {pos}
  <2>1. \A t \in compressed : t <= pos <=> (t < pos \/ t = pos)
    BY <1>1 DEF Tensor
  <2> QED  BY <1>1, <2>1
<1>4. WriteInv'
  BY <1>1, <1>3 DEF IInv, WriteInv, Sealing
<1>5. PoolInv' /\ IdleInv' /\ EveryTensorOnce'
  BY DEF IInv, PoolInv, WriteInv, IdleInv, EveryTensorOnce
<1> QED  BY <1>2, <1>4, <1>5 DEF IInv

LEMMA NotifyPreserves == IInv /\ Notify => IInv'
<1> SUFFICES ASSUME IInv, Notify PROVE IInv'
  OBVIOUS
<1> USE DEF Notify, fileVars, resultVars
<1>1. pos \in compressed /\ compressed \subseteq Tensor /\ pos' = pos + 1
  BY DEF IInv, TypeOK, WriteInv
<1>2. TypeOK'
  BY <1>1 DEF IInv, TypeOK, Out!ArchiveTypeOK, Tensor
<1>3. {t \in compressed : t < pos'} = {t \in compressed : t <= pos}
  <2>1. \A t \in compressed : t < pos' <=> t <= pos
    BY <1>1 DEF Tensor
  <2> QED  BY <2>1
<1>4. WriteInv'
  BY <1>3 DEF IInv, WriteInv, Sealing
<1>5. PoolInv' /\ IdleInv' /\ EveryTensorOnce'
  BY DEF IInv, PoolInv, IdleInv, EveryTensorOnce
<1> QED  BY <1>2, <1>4, <1>5 DEF IInv

LEMMA EndWritingPreserves == IInv /\ (WritingRaises \/ EndWriting) => IInv'
<1> SUFFICES ASSUME IInv, WritingRaises \/ EndWriting PROVE IInv'
  OBVIOUS
<1> USE DEF WritingRaises, EndWriting, fileVars, resultVars
<1>1. TypeOK'
  BY DEF IInv, TypeOK, Out!ArchiveTypeOK, Sealing
<1>2. ASSUME EndWriting PROVE counted = compressed
  <2>1. counted = {t \in compressed : t < N + 1} /\ compressed \subseteq Tensor
    BY <1>2 DEF IInv, TypeOK, WriteInv
  <2>2. \A t \in compressed : t < N + 1
    BY <2>1 DEF Tensor
  <2> QED  BY <2>1, <2>2
<1>3. WriteInv'
  BY <1>2 DEF IInv, WriteInv, Sealing
<1>4. PoolInv' /\ IdleInv' /\ EveryTensorOnce'
  BY DEF IInv, PoolInv, WriteInv, IdleInv, EveryTensorOnce
<1> QED  BY <1>1, <1>3, <1>4 DEF IInv

-----------------------------------------------------------------------------
(* finalize, and the end of a run.                                          *)

LEMMA SealPreserves == IInv /\ (SyncBlocks \/ PublishIndex) => IInv'
<1> SUFFICES ASSUME IInv, SyncBlocks \/ PublishIndex PROVE IInv'
  OBVIOUS
<1> USE DEF SyncBlocks, PublishIndex, Out!Forget, Out!Publish, resultVars
<1>1. TypeOK'
  BY DEF IInv, TypeOK, Out!ArchiveTypeOK, Sealing
<1>2. WriteInv'
  BY DEF IInv, WriteInv, Sealing
<1>3. PoolInv' /\ IdleInv' /\ EveryTensorOnce'
  BY DEF IInv, PoolInv, WriteInv, IdleInv, EveryTensorOnce, Sealing
<1> QED  BY <1>1, <1>2, <1>3 DEF IInv

LEMMA CommitPreserves == IInv /\ CommitFile => IInv'
<1> SUFFICES ASSUME IInv, CommitFile PROVE IInv'
  OBVIOUS
<1> USE DEF CommitFile, Out!Commit, resultVars
<1>1. TypeOK'
  BY DEF IInv, TypeOK, Out!ArchiveTypeOK
<1>2. PoolInv' /\ WriteInv' /\ IdleInv'
  BY DEF PoolInv, WriteInv, IdleInv, Sealing
<1>3. EveryTensorOnce'
  <2>1. pc \in Sealing
    BY DEF Sealing
  <2>2. /\ compressed \cap failures = {} /\ compressed \cup failures = Tensor
        /\ listed = staged /\ staged = counted
        /\ outcome = "running" => counted = compressed
    BY <2>1 DEF IInv, WriteInv
  <2> QED  BY <2>2 DEF EveryTensorOnce
<1> QED  BY <1>1, <1>2, <1>3 DEF IInv

\* A leaked writer is dropped outside the writing of a run.
LEMMA DropPreserves == IInv /\ Drop => IInv'
<1> SUFFICES ASSUME IInv, Drop PROVE IInv'
  OBVIOUS
<1> USE DEF Drop, Out!Stop, resultVars
<1>1. TypeOK'
  BY DEF IInv, TypeOK, Out!ArchiveTypeOK
<1>2. PoolInv'
  BY DEF IInv, PoolInv
<1>3. WriteInv' /\ IdleInv' /\ EveryTensorOnce'
  BY DEF IInv, WriteInv, IdleInv, EveryTensorOnce, Pooling, Sealing
<1> QED  BY <1>1, <1>2, <1>3 DEF IInv

\* The run ends without returning.
LEMMA StopPreserves == IInv /\ (FinalizeFails \/ Kill \/ PowerFails) => IInv'
<1> SUFFICES ASSUME IInv, FinalizeFails \/ Kill \/ PowerFails PROVE IInv'
  OBVIOUS
<1>1. /\ pc' = "idle" /\ outcome' \in {"leaked", "killed"}
      /\ UNCHANGED <<task, resultVars, pos, counted, runs>>
  BY DEF FinalizeFails, Kill, PowerFails
<1>2. Out!ArchiveTypeOK'
  BY DEF IInv, TypeOK, FinalizeFails, Kill, PowerFails, fileVars,
         Out!ArchiveTypeOK, Out!Stop, Out!PowerFails
<1>3. TypeOK'
  BY <1>1, <1>2 DEF IInv, TypeOK, resultVars
<1>4. PoolInv' /\ WriteInv' /\ IdleInv' /\ EveryTensorOnce'
  BY <1>1 DEF PoolInv, WriteInv, IdleInv, EveryTensorOnce, Sealing
<1> QED  BY <1>3, <1>4 DEF IInv

-----------------------------------------------------------------------------

LEMMA StepPreserves == IInv /\ [Next]_vars => IInv'
<1> SUFFICES ASSUME IInv, [Next]_vars PROVE IInv'
  OBVIOUS
<1>1. CASE Start
  BY <1>1, StartPreserves
<1>2. CASE PoolStep
  BY <1>2, PoolStepPreserves
<1>3. CASE MainStep
  BY <1>3, CollectPreserves, EndLoadingPreserves, PoolExitPreserves,
     OpenOutputPreserves, SkipFailedPreserves, WriteTensorPreserves,
     NotifyPreserves, EndWritingPreserves, SealPreserves, CommitPreserves,
     StopPreserves DEF MainStep
<1>4. CASE InterruptPool
  BY <1>4, PoolExitPreserves
<1>5. CASE Kill \/ PowerFails
  BY <1>5, StopPreserves
<1>6. CASE Drop
  BY <1>6, DropPreserves
<1>7. CASE UNCHANGED vars
  BY <1>7, StutterPreserves
<1> QED  BY <1>1, <1>2, <1>3, <1>4, <1>5, <1>6, <1>7 DEF Next

\* The strengthened invariant holds in every behaviour of the RAM pipeline.
THEOREM Invariance == Spec => []IInv
<1>1. Init => IInv
  BY InitEstablishes
<1>2. IInv /\ [Next]_vars => IInv'
  BY StepPreserves
<1> QED  BY <1>1, <1>2, PTL DEF Spec

\* The state of the pools, the loop and the report is well formed.
THEOREM TypeCorrect == Spec => []TypeOK
<1>1. IInv => TypeOK
  BY DEF IInv
<1> QED  BY <1>1, Invariance, PTL

\* When compress_model returns in RAM mode, the readable tensors and the
\* reported failures are the two parts of the model, whatever the number of
\* workers and the order in which their tasks ended.
THEOREM TensorOnce == Spec => []EveryTensorOnce
<1>1. IInv => EveryTensorOnce
  BY DEF IInv
<1> QED  BY <1>1, Invariance, PTL

\* A run gives up the former output only when each tensor was compressed or
\* has failed.
THEOREM FormerOutputSurvives == Spec => OldOutputSurvives
<1> DEFINE Step == listed' # listed /\ outcome' # "killed" =>
                     compressed' \cup failures' = Tensor
<1>1. IInv /\ [Next]_vars => [Step]_vars
  <2> SUFFICES ASSUME IInv, Next, listed' # listed, outcome' # "killed"
               PROVE  compressed' \cup failures' = Tensor
    BY DEF vars
  <2>1. CASE OpenOutput
    BY <2>1 DEF IInv, TypeOK, PoolInv, AllSeen, OpenOutput, resultVars
  <2>2. CASE PublishIndex
    BY <2>2 DEF IInv, WriteInv, PublishIndex, Sealing, resultVars
  <2>3. \/ OpenOutput
        \/ PublishIndex
    BY DEF Next, Start, PoolStep, WorkerTakes, WorkerEnds, MainStep, Collect,
           EndLoading, Drained, OpenOutputFails, SkipFailed, WriteTensor,
           Notify, WritingRaises, EndWriting, SyncBlocks, CommitFile,
           FinalizeFails, InterruptPool, Drop, Kill, PowerFails, fileVars,
           Out!Stage, Out!Forget, Out!Commit, Out!Stop
  <2> QED  BY <2>1, <2>2, <2>3
<1> QED  BY <1>1, Invariance, PTL DEF Spec, OldOutputSurvives
=============================================================================
