----------------------- MODULE StreamingPipelineProofs -----------------------
(***************************************************************************)
(* Theorems about runs of the streaming pipeline, for any number of tensors, *)
(* any checkpoint interval and any number of runs, kills and power failures. *)
(***************************************************************************)
EXTENDS StreamingPipeline, TLAPS

USE NAssumption, IntervalAssumption, MaxRunsAssumption

\* The file, place by place.
FileInv ==
  /\ pc = "idle" /\ open => outcome = "leaked"
  /\ pc \in {"opened", "loop", "wrote", "finally", "synced"} =>
       open /\ listed = {}
  /\ pc = "published" => open /\ listed = staged
  /\ pc = "cleanup" => ~open /\ listed = staged /\ kept = staged
  /\ outcome = "returned" => pc = "idle" /\ listed = staged /\ kept = staged

\* A tensor the run has taken is staged, failed or skipped.
Taken == staged \cup failures \cup 1..done

\* The loop has taken every tensor before pos and staged none from pos on; in
\* "wrote" it has just staged pos.  Processed never passes what is taken.
LoopInv ==
  /\ pc = "opened" => pos = 1
  /\ pc \in {"opened", "loop"} =>
       /\ 1..(pos - 1) \subseteq Taken
       /\ \A t \in staged : t < pos
       /\ processed < pos \/ processed <= done
  /\ pc = "wrote" =>
       /\ pos \in (done + 1)..N
       /\ pos \in staged
       /\ 1..(pos - 1) \subseteq Taken
       /\ \A t \in staged : t <= pos
       /\ processed \in 1..pos
  /\ outcome \in {"returning", "returned"} => Tensor \subseteq Taken
  /\ outcome = "returning" =>
       pc \in {"finally", "synced", "published", "cleanup"}

\* A tensor is counted at most once per run, in the report and in the
\* checkpoint; a checkpoint names at least one tensor.
CreditInv ==
  /\ pc \in {"opened", "loop", "wrote"} =>
       \A t \in Tensor : t \notin staged => credit[t] < runs
  /\ \A t \in Tensor : credit[t] <= runs
  /\ \A c \in ckpt : c.done > 0 /\ \A t \in Tensor : c.credit[t] <= runs

IInv == TypeOK /\ FileInv /\ LoopInv /\ CreditInv /\ FreshTotalsMatchFile

-----------------------------------------------------------------------------

LEMMA InitEstablishes == Init => IInv
<1> SUFFICES ASSUME Init PROVE IInv
  OBVIOUS
<1> USE DEF Init, Out!ArchiveInit, NoCredit
<1>1. TypeOK
  <2>1. NoCredit \in [Tensor -> 0..MaxRuns]
    OBVIOUS
  <2>2. 1 \in 1..(N + 1) /\ 0 \in 0..N /\ 0 \in 0..MaxRuns
    OBVIOUS
  <2> QED  BY <2>1, <2>2 DEF TypeOK, Out!ArchiveTypeOK, Place
<1>2. FileInv
  BY DEF FileInv
<1>3. LoopInv
  BY DEF LoopInv
<1>4. CreditInv
  BY DEF CreditInv
<1>5. FreshTotalsMatchFile
  BY DEF FreshTotalsMatchFile
<1> QED  BY <1>1, <1>2, <1>3, <1>4, <1>5 DEF IInv

\* What a run starts from: nothing, or an earlier run's checkpoint.
LEMMA StartInputs ==
  ASSUME IInv, NEW resume \in BOOLEAN, Start(resume)
  PROVE  /\ done' \in 0..N
         /\ processed' = done'
         /\ credit' \in [Tensor -> 0..MaxRuns]
         /\ \A t \in Tensor : credit'[t] <= runs
         /\ done' = 0 => credit' = NoCredit
<1>1. CASE done' = 0 /\ processed' = 0 /\ credit' = NoCredit
  <2>1. NoCredit \in [Tensor -> 0..MaxRuns] /\ 0 \in 0..N
    BY DEF NoCredit
  <2>2. \A t \in Tensor : NoCredit[t] <= runs
    BY DEF NoCredit, IInv, TypeOK
  <2> QED  BY <1>1, <2>1, <2>2
<1>2. CASE \E c \in ckpt : done' = c.done /\ processed' = c.done
                           /\ credit' = c.credit
  <2> PICK c \in ckpt : done' = c.done /\ processed' = c.done
                        /\ credit' = c.credit
    BY <1>2
  <2>1. c \in Checkpoint
    BY DEF IInv, TypeOK
  <2>2. c.done \in 0..N /\ c.credit \in [Tensor -> 0..MaxRuns]
    BY <2>1 DEF Checkpoint
  <2>3. c.done > 0 /\ \A t \in Tensor : c.credit[t] <= runs
    BY DEF IInv, CreditInv
  <2> QED  BY <2>2, <2>3
<1> QED  BY <1>1, <1>2 DEF Start

LEMMA StartPreserves ==
  ASSUME IInv, NEW resume \in BOOLEAN, Start(resume)
  PROVE  IInv'
<1>1. TypeOK'
  <2>1. Out!ArchiveTypeOK' /\ ckpt' \in SUBSET Checkpoint /\ failures' = {}
    BY DEF IInv, TypeOK, Out!ArchiveTypeOK, Start, Out!Begin
  <2>2. runs' \in 0..MaxRuns /\ pos' \in 1..(N + 1) /\ processed' \in 0..N
    BY StartInputs DEF IInv, TypeOK, Start
  <2>3. pc' \in Place /\ outcome' = "running"
    BY DEF Start, Place
  <2> QED  BY <2>1, <2>2, <2>3, StartInputs DEF TypeOK
<1>2. FileInv'
  BY DEF FileInv, Start, Out!Begin
<1>3. LoopInv'
  BY StartInputs DEF LoopInv, Taken, Start, Out!Begin
<1>4. CreditInv'
  <2>1. runs \in Nat /\ runs' = runs + 1
    BY DEF IInv, TypeOK, Start
  <2>2. \A t \in Tensor : credit'[t] < runs' /\ credit'[t] <= runs'
    <3> SUFFICES ASSUME NEW t \in Tensor
                 PROVE  credit'[t] < runs' /\ credit'[t] <= runs'
      OBVIOUS
    <3>1. credit'[t] \in Nat /\ credit'[t] <= runs
      BY StartInputs
    <3> QED  BY <2>1, <3>1
  <2>3. \A c \in ckpt' : c.done > 0 /\ \A t \in Tensor : c.credit[t] <= runs'
    <3> SUFFICES ASSUME NEW c \in ckpt
                 PROVE  c.done > 0 /\ \A t \in Tensor : c.credit[t] <= runs'
      BY DEF Start
    <3>1. c.done > 0 /\ \A t \in Tensor : c.credit[t] <= runs
      BY DEF IInv, CreditInv
    <3>2. \A t \in Tensor : c.credit[t] \in Nat
      BY DEF IInv, TypeOK, Checkpoint
    <3> QED  BY <2>1, <3>1, <3>2
  <2> QED  BY <2>2, <2>3 DEF CreditInv
<1>5. FreshTotalsMatchFile'
  BY StartInputs DEF FreshTotalsMatchFile, NoCredit, Start, Out!Begin
<1> QED  BY <1>1, <1>2, <1>3, <1>4, <1>5 DEF IInv

\* Steps that move only the program counter, the outcome or the position.
LEMMA CompressFailsPreserves ==
  ASSUME IInv, CompressFails
  PROVE  IInv'
<1> USE DEF CompressFails, fileVars
<1>0. /\ pos \in 1..N /\ pos > done /\ pos \in Tensor
      /\ failures' = failures \cup {pos} /\ pos' = pos + 1
      /\ done \in 0..N /\ processed \in 0..N
  BY DEF IInv, TypeOK, Tensor
<1>1. TypeOK'
  <2>1. failures' \subseteq Tensor /\ pos' \in 1..(N + 1)
    BY <1>0 DEF IInv, TypeOK
  <2> QED  BY <2>1 DEF IInv, TypeOK, Out!ArchiveTypeOK
<1>2. FileInv'
  BY DEF IInv, FileInv
<1>3. LoopInv'
  <2>1. 1..pos \subseteq Taken'
    <3>1. 1..pos = 1..(pos - 1) \cup {pos}
      BY <1>0
    <3>2. 1..(pos - 1) \subseteq Taken
      BY DEF IInv, LoopInv
    <3> QED  BY <1>0, <3>1, <3>2 DEF Taken
  <2>2. \A t \in staged : t < pos + 1
    BY <1>0 DEF IInv, LoopInv, TypeOK, Out!ArchiveTypeOK, Tensor
  <2>3. processed < pos + 1
    BY <1>0 DEF IInv, LoopInv
  <2>4. Taken \subseteq Taken'
    BY DEF Taken
  <2> QED  BY <1>0, <2>1, <2>2, <2>3, <2>4 DEF IInv, LoopInv
<1>4. CreditInv'
  BY DEF IInv, CreditInv
<1>5. FreshTotalsMatchFile'
  BY DEF IInv, FreshTotalsMatchFile
<1> QED  BY <1>1, <1>2, <1>3, <1>4, <1>5 DEF IInv

LEMMA SkipPreserves ==
  ASSUME IInv, SkipCompleted
  PROVE  IInv'
<1> USE DEF SkipCompleted, fileVars
<1>0. /\ pos \in 1..N /\ pos <= done /\ pos' = pos + 1
      /\ done \in 0..N /\ processed \in 0..N
  BY DEF IInv, TypeOK
<1>1. TypeOK'
  <2>1. pos' \in 1..(N + 1)
    BY <1>0
  <2> QED  BY <2>1 DEF IInv, TypeOK, Out!ArchiveTypeOK
<1>2. FileInv'
  BY DEF IInv, FileInv
<1>3. LoopInv'
  <2>1. 1..pos \subseteq Taken'
    BY <1>0 DEF Taken
  <2>2. \A t \in staged : t < pos + 1
    BY <1>0 DEF IInv, LoopInv, TypeOK, Out!ArchiveTypeOK, Tensor
  <2>3. processed < pos + 1 \/ processed <= done
    BY <1>0 DEF IInv, LoopInv
  <2>4. Taken' = Taken
    BY DEF Taken
  <2> QED  BY <1>0, <2>1, <2>2, <2>3, <2>4 DEF IInv, LoopInv
<1>4. CreditInv'
  BY DEF IInv, CreditInv
<1>5. FreshTotalsMatchFile'
  BY DEF IInv, FreshTotalsMatchFile
<1> QED  BY <1>1, <1>2, <1>3, <1>4, <1>5 DEF IInv

\* The tensor staged was not staged before in this run, so that its bytes are
\* in the totals at most once per run.
LEMMA CompressTensorPreserves ==
  ASSUME IInv, CompressTensor
  PROVE  IInv'
<1> USE DEF CompressTensor, Out!Stage
<1>0. /\ pos \in 1..N /\ pos > done /\ pos \in Tensor
      /\ pos \in (done + 1)..N
      /\ staged' = staged \cup {pos} /\ processed' = processed + 1
      /\ done \in 0..N /\ processed \in 0..N
      /\ credit \in [Tensor -> 0..MaxRuns] /\ runs \in 0..MaxRuns
      /\ staged \subseteq Tensor
  BY DEF IInv, TypeOK, Out!ArchiveTypeOK, Tensor
<1>a. pos \notin staged /\ \A t \in staged : t < pos
  BY <1>0 DEF IInv, LoopInv, Tensor
<1>b. credit[pos] < runs /\ credit[pos] \in Nat
  BY <1>0, <1>a DEF IInv, CreditInv
<1>c. credit' = [credit EXCEPT ![pos] = credit[pos] + 1]
  OBVIOUS
<1>1. TypeOK'
  <2>1. credit' \in [Tensor -> 0..MaxRuns]
    <3>1. credit[pos] + 1 \in 0..MaxRuns
      BY <1>0, <1>b
    <3> QED  BY <1>0, <1>c, <3>1
  <2>2. processed' \in 0..N
    BY <1>0 DEF IInv, LoopInv
  <2>3. Out!ArchiveTypeOK'
    BY <1>0 DEF IInv, TypeOK, Out!ArchiveTypeOK
  <2> QED  BY <2>1, <2>2, <2>3 DEF IInv, TypeOK, Place
<1>2. FileInv'
  BY DEF IInv, FileInv
<1>3. LoopInv'
  <2>1. 1..(pos - 1) \subseteq Taken'
    BY DEF IInv, LoopInv, Taken
  <2>2. \A t \in staged' : t <= pos
    BY <1>0, <1>a DEF Tensor
  <2>3. processed' \in 1..pos
    BY <1>0 DEF IInv, LoopInv
  <2>4. outcome' \notin {"returning", "returned"}
    BY DEF IInv, LoopInv, FileInv
  <2> QED  BY <1>0, <2>1, <2>2, <2>3, <2>4 DEF LoopInv
<1>4. CreditInv'
  <2>1. \A t \in Tensor : credit'[t] <= runs
                          /\ (t \notin staged' => credit'[t] < runs)
    <3> SUFFICES ASSUME NEW t \in Tensor
                 PROVE  credit'[t] <= runs
                        /\ (t \notin staged' => credit'[t] < runs)
      OBVIOUS
    <3>1. CASE t = pos
      BY <1>0, <1>b, <1>c, <3>1
    <3>2. CASE t # pos
      <4>1. credit'[t] = credit[t]
        BY <1>0, <1>c, <3>2
      <4> QED  BY <4>1, <1>0, <3>2 DEF IInv, CreditInv
    <3> QED  BY <3>1, <3>2
  <2> QED  BY <2>1 DEF IInv, CreditInv
<1>5. FreshTotalsMatchFile'
  <2> SUFFICES ASSUME done = 0
               PROVE  credit' = [t \in Tensor |-> IF t \in staged' THEN 1 ELSE 0]
    BY DEF FreshTotalsMatchFile
  <2>1. credit = [t \in Tensor |-> IF t \in staged THEN 1 ELSE 0]
    BY DEF IInv, FreshTotalsMatchFile
  <2>2. credit[pos] + 1 = 1
    BY <2>1, <1>0, <1>a
  <2> QED  BY <2>1, <2>2, <1>0, <1>c
<1> QED  BY <1>1, <1>2, <1>3, <1>4, <1>5 DEF IInv

\* A late failure: the tensor is in the file and the totals, and in failures.
LEMMA NotifyFailsPreserves ==
  ASSUME IInv, NotifyFails
  PROVE  IInv'
<1> USE DEF NotifyFails, fileVars
<1>0. /\ pos \in 1..N /\ pos \in Tensor /\ pos \in staged
      /\ pos' = pos + 1 /\ staged' = staged
      /\ done \in 0..N /\ processed \in 1..pos
      /\ staged \subseteq Tensor
      /\ 1..(pos - 1) \subseteq Taken /\ \A t \in staged : t <= pos
  BY DEF IInv, TypeOK, LoopInv, Tensor, Out!ArchiveTypeOK
<1>1. TypeOK'
  <2>1. failures' \subseteq Tensor /\ pos' \in 1..(N + 1)
    BY <1>0 DEF IInv, TypeOK
  <2> QED  BY <2>1 DEF IInv, TypeOK, Out!ArchiveTypeOK, Place
<1>2. FileInv'
  BY DEF IInv, FileInv
<1>3. LoopInv'
  <2>1. 1..pos \subseteq Taken'
    BY <1>0 DEF Taken
  <2>2. \A t \in staged : t < pos + 1
    BY <1>0 DEF Tensor
  <2>3. Taken \subseteq Taken'
    BY DEF Taken
  <2> QED  BY <1>0, <2>1, <2>2, <2>3 DEF IInv, LoopInv
<1>4. CreditInv'
  BY DEF IInv, CreditInv
<1>5. FreshTotalsMatchFile'
  BY DEF IInv, FreshTotalsMatchFile
<1> QED  BY <1>1, <1>2, <1>3, <1>4, <1>5 DEF IInv

LEMMA SaveCheckpointPreserves ==
  ASSUME IInv, SaveCheckpoint
  PROVE  IInv'
<1> USE DEF SaveCheckpoint, fileVars
<1>0. /\ pos \in 1..N /\ pos \in Tensor /\ pos \in staged
      /\ pos' = pos + 1 /\ staged' = staged
      /\ done \in 0..N /\ processed \in 1..pos /\ processed \in 0..N
      /\ staged \subseteq Tensor
      /\ 1..(pos - 1) \subseteq Taken /\ \A t \in staged : t <= pos
      /\ credit \in [Tensor -> 0..MaxRuns]
  BY DEF IInv, TypeOK, LoopInv, Tensor, Out!ArchiveTypeOK
<1>a. \/ ckpt' = ckpt
      \/ ckpt' = {[done |-> processed, credit |-> credit]}
  OBVIOUS
<1>b. [done |-> processed, credit |-> credit] \in Checkpoint
  BY <1>0 DEF Checkpoint
<1>1. TypeOK'
  <2>1. ckpt' \in SUBSET Checkpoint
    BY <1>a, <1>b DEF IInv, TypeOK
  <2>2. pos' \in 1..(N + 1)
    BY <1>0
  <2> QED  BY <2>1, <2>2 DEF IInv, TypeOK, Out!ArchiveTypeOK, Place
<1>2. FileInv'
  BY DEF IInv, FileInv
<1>3. LoopInv'
  <2>1. 1..pos \subseteq Taken'
    BY <1>0 DEF Taken
  <2>2. \A t \in staged : t < pos + 1
    BY <1>0 DEF Tensor
  <2>3. Taken' = Taken
    BY DEF Taken
  <2> QED  BY <1>0, <2>1, <2>2, <2>3 DEF IInv, LoopInv
<1>4. CreditInv'
  <2>1. \A c \in ckpt' : c.done > 0 /\ \A t \in Tensor : c.credit[t] <= runs
    BY <1>0, <1>a DEF IInv, CreditInv
  <2> QED  BY <2>1 DEF IInv, CreditInv
<1>5. FreshTotalsMatchFile'
  BY DEF IInv, FreshTotalsMatchFile
<1> QED  BY <1>1, <1>2, <1>3, <1>4, <1>5 DEF IInv

\* The loop ends with every tensor taken; an interrupt promises nothing.
LEMMA LeaveLoopPreserves ==
  ASSUME IInv, OpenModel \/ EndLoop \/ Interrupt
  PROVE  IInv'
<1> USE DEF OpenModel, EndLoop, Interrupt, fileVars, runVars
<1>1. TypeOK'
  BY DEF IInv, TypeOK, Out!ArchiveTypeOK, Place
<1>2. FileInv'
  BY DEF IInv, FileInv
<1>3. LoopInv'
  <2>1. Taken' = Taken
    BY DEF Taken
  <2>2. CASE OpenModel
    BY <2>1, <2>2 DEF IInv, LoopInv
  <2>3. CASE EndLoop
    <3>1. Tensor \subseteq Taken
      BY <2>3 DEF IInv, LoopInv, Tensor
    <3> QED  BY <2>1, <2>3, <3>1 DEF IInv, LoopInv
  <2>4. CASE Interrupt
    BY <2>1, <2>4 DEF IInv, LoopInv
  <2> QED  BY <2>2, <2>3, <2>4
<1>4. CreditInv'
  BY DEF IInv, CreditInv
<1>5. FreshTotalsMatchFile'
  BY DEF IInv, FreshTotalsMatchFile
<1> QED  BY <1>1, <1>2, <1>3, <1>4, <1>5 DEF IInv

LEMMA FinalizePreserves ==
  ASSUME IInv, SyncBlocks \/ PublishIndex \/ CommitFile
  PROVE  IInv'
<1> USE DEF SyncBlocks, PublishIndex, CommitFile, Out!Forget, Out!Publish,
        Out!Commit, runVars
<1>1. TypeOK'
  BY DEF IInv, TypeOK, Out!ArchiveTypeOK, Place
<1>2. FileInv'
  <2>1. outcome # "returned"
    BY DEF IInv, FileInv
  <2> QED  BY <2>1 DEF IInv, FileInv
<1>3. LoopInv'
  <2>1. Taken' = Taken
    BY DEF Taken
  <2> QED  BY <2>1 DEF IInv, LoopInv
<1>4. CreditInv'
  BY DEF IInv, CreditInv
<1>5. FreshTotalsMatchFile'
  BY DEF IInv, FreshTotalsMatchFile
<1> QED  BY <1>1, <1>2, <1>3, <1>4, <1>5 DEF IInv

LEMMA RemoveCheckpointPreserves ==
  ASSUME IInv, RemoveCheckpoint
  PROVE  IInv'
<1> USE DEF RemoveCheckpoint, fileVars
<1>0. ckpt' \subseteq ckpt
  OBVIOUS
<1>1. TypeOK'
  BY <1>0 DEF IInv, TypeOK, Out!ArchiveTypeOK, Place
<1>2. FileInv'
  BY DEF IInv, FileInv
<1>3. LoopInv'
  <2>1. Taken' = Taken
    BY DEF Taken
  <2> QED  BY <2>1 DEF IInv, LoopInv
<1>4. CreditInv'
  BY <1>0 DEF IInv, CreditInv
<1>5. FreshTotalsMatchFile'
  BY DEF IInv, FreshTotalsMatchFile
<1> QED  BY <1>1, <1>2, <1>3, <1>4, <1>5 DEF IInv

\* However a run is cut off, what is left of it is true.
LEMMA CutOffPreserves ==
  ASSUME IInv, OpenModelFails \/ FinalizeFails \/ Kill \/ PowerFails
  PROVE  IInv'
<1> USE DEF OpenModelFails, FinalizeFails, Kill, PowerFails, Out!Stop,
        Out!PowerFails, fileVars
<1>a. Out!ArchiveTypeOK'
  <2>1. CASE OpenModelFails \/ FinalizeFails \/ Kill
    BY <2>1 DEF IInv, TypeOK, Out!ArchiveTypeOK
  <2>2. CASE PowerFails
    BY <2>2 DEF IInv, TypeOK, Out!ArchiveTypeOK
  <2> QED  BY <2>1, <2>2
<1>0. /\ pc' = "idle" /\ open' \in BOOLEAN /\ outcome' \in {"leaked", "killed"}
      /\ (open' => outcome' = "leaked")
      /\ staged' = staged /\ ckpt' \in {ckpt, {}}
      /\ listed' \subseteq Tensor /\ kept' \subseteq Tensor
      /\ UNCHANGED <<pos, done, processed, failures, credit, runs>>
  <2>1. CASE OpenModelFails \/ FinalizeFails
    BY <1>a, <2>1 DEF Out!ArchiveTypeOK
  <2>2. CASE Kill \/ PowerFails
    BY <1>a, <2>2 DEF Out!ArchiveTypeOK
  <2> QED  BY <2>1, <2>2
<1> USE <1>0
<1> HIDE DEF OpenModelFails, FinalizeFails, Kill, PowerFails, Out!Stop,
        Out!PowerFails, fileVars
<1>1. TypeOK'
  BY DEF IInv, TypeOK, Out!ArchiveTypeOK, Place
<1>2. FileInv'
  BY DEF IInv, FileInv
<1>3. LoopInv'
  BY DEF IInv, LoopInv
<1>4. CreditInv'
  BY DEF IInv, CreditInv
<1>5. FreshTotalsMatchFile'
  BY DEF IInv, FreshTotalsMatchFile
<1> QED  BY <1>1, <1>2, <1>3, <1>4, <1>5 DEF IInv

\* A leaked writer is dropped.
LEMMA DropPreserves ==
  ASSUME IInv, Drop
  PROVE  IInv'
<1> USE DEF Drop, Out!Stop, runVars
<1>1. TypeOK'
  BY DEF IInv, TypeOK, Out!ArchiveTypeOK
<1>2. FileInv'
  BY DEF IInv, FileInv
<1>3. LoopInv' /\ CreditInv'
  BY DEF IInv, LoopInv, CreditInv, Taken
<1>4. FreshTotalsMatchFile'
  BY DEF IInv, FreshTotalsMatchFile
<1> QED  BY <1>1, <1>2, <1>3, <1>4 DEF IInv

LEMMA StutterPreserves ==
  ASSUME IInv, UNCHANGED vars
  PROVE  IInv'
<1> USE DEF vars
<1>1. TypeOK'
  BY DEF IInv, TypeOK, Out!ArchiveTypeOK
<1>2. FileInv'
  BY DEF IInv, FileInv
<1>3. LoopInv' /\ CreditInv'
  BY DEF IInv, LoopInv, CreditInv, Taken
<1>4. FreshTotalsMatchFile'
  BY DEF IInv, FreshTotalsMatchFile
<1> QED  BY <1>1, <1>2, <1>3, <1>4 DEF IInv

-----------------------------------------------------------------------------

LEMMA StepPreserves == IInv /\ [Next]_vars => IInv'
<1> SUFFICES ASSUME IInv, [Next]_vars PROVE IInv'
  OBVIOUS
<1>1. CASE \E resume \in BOOLEAN : Start(resume)
  BY <1>1, StartPreserves
<1>2. CASE OpenModel \/ EndLoop \/ Interrupt
  BY <1>2, LeaveLoopPreserves
<1>3. CASE SkipCompleted
  BY <1>3, SkipPreserves
<1>4. CASE CompressFails
  BY <1>4, CompressFailsPreserves
<1>5. CASE CompressTensor
  BY <1>5, CompressTensorPreserves
<1>6. CASE NotifyFails
  BY <1>6, NotifyFailsPreserves
<1>7. CASE SaveCheckpoint
  BY <1>7, SaveCheckpointPreserves
<1>8. CASE SyncBlocks \/ PublishIndex \/ CommitFile
  BY <1>8, FinalizePreserves
<1>9. CASE RemoveCheckpoint
  BY <1>9, RemoveCheckpointPreserves
<1>10. CASE OpenModelFails \/ FinalizeFails \/ Drop \/ Kill \/ PowerFails
  BY <1>10, CutOffPreserves, DropPreserves
<1>11. CASE UNCHANGED vars
  BY <1>11, StutterPreserves
<1> QED  BY <1>1, <1>2, <1>3, <1>4, <1>5, <1>6, <1>7, <1>8, <1>9, <1>10,
            <1>11 DEF Next, RunStep

\* The strengthened invariant holds in every behaviour of the pipeline.
THEOREM Invariance == Spec => []IInv
<1>1. Init => IInv
  BY InitEstablishes
<1>2. IInv /\ [Next]_vars => IInv'
  BY StepPreserves
<1> QED  BY <1>1, <1>2, PTL DEF Spec

\* The state of the pipeline, its checkpoint included, is well formed: no run
\* counts a tensor twice, and no counter passes the number of tensors.
THEOREM TypeCorrect == Spec => []TypeOK
<1>1. IInv => TypeOK
  BY DEF IInv
<1> QED  BY <1>1, Invariance, PTL

\* When compress_model returns, every tensor is readable in the output, is in
\* report.failures, or was named by the checkpoint the run went on from.
THEOREM Accounted == Spec => []EveryTensorAccounted
<1>1. IInv => EveryTensorAccounted
  <2> SUFFICES ASSUME IInv, outcome = "returned", pc = "idle"
               PROVE  /\ Tensor = listed \cup failures \cup 1..done
                      /\ listed = kept
    BY DEF EveryTensorAccounted
  <2>1. listed = staged /\ kept = staged
    BY DEF IInv, FileInv
  <2>2. Tensor \subseteq staged \cup failures \cup 1..done
    BY DEF IInv, LoopInv, Taken
  <2>3. staged \subseteq Tensor /\ failures \subseteq Tensor
        /\ 1..done \subseteq Tensor
    BY DEF IInv, TypeOK, Out!ArchiveTypeOK, Tensor
  <2> QED  BY <2>1, <2>2, <2>3
<1> QED  BY <1>1, Invariance, PTL

\* A fresh run without failures returns the whole model, counted once.
THEOREM FreshRunComplete == Spec => []FreshRunIsComplete
<1>1. IInv => FreshRunIsComplete
  <2> SUFFICES ASSUME IInv, outcome = "returned", done = 0, failures = {}
               PROVE  /\ listed = Tensor
                      /\ credit = [t \in Tensor |-> 1]
    BY DEF FreshRunIsComplete
  <2>1. listed = staged /\ staged \subseteq Tensor
    BY DEF IInv, FileInv, TypeOK, Out!ArchiveTypeOK
  <2>2. Tensor \subseteq staged
    BY DEF IInv, LoopInv, Taken
  <2>3. credit = [t \in Tensor |-> IF t \in staged THEN 1 ELSE 0]
    BY DEF IInv, FreshTotalsMatchFile
  <2> QED  BY <2>1, <2>2, <2>3
<1> QED  BY <1>1, Invariance, PTL

\* The totals of a fresh run are those of the blocks in its file, at every
\* step of the run and after it.
THEOREM FreshTotals == Spec => []FreshTotalsMatchFile
<1>1. IInv => FreshTotalsMatchFile
  BY DEF IInv
<1> QED  BY <1>1, Invariance, PTL
-----------------------------------------------------------------------------
\* A run that neither resumed nor failed counts every tensor it has taken.
CleanInv ==
  done = 0 /\ failures = {} =>
    /\ pc \in {"opened", "loop"} => processed = pos - 1
    /\ pc = "wrote" => processed = pos

LEMMA CleanStep == IInv /\ CleanInv /\ [Next]_vars => CleanInv'
<1> SUFFICES ASSUME IInv, CleanInv, [Next]_vars PROVE CleanInv'
  OBVIOUS
<1> USE DEF CleanInv
<1>0. pos \in Nat /\ done \in Nat /\ processed \in Nat
  BY DEF IInv, TypeOK
<1>1. ASSUME NEW resume \in BOOLEAN, Start(resume) PROVE CleanInv'
  <2>1. pos' = 1 /\ processed' = done'
    BY <1>1, StartInputs DEF Start
  <2>2. pc' = "opened"
    BY <1>1 DEF Start
  <2> QED  BY <2>1, <2>2
<1>2. CASE OpenModel \/ EndLoop \/ Interrupt
  BY <1>2 DEF OpenModel, EndLoop, Interrupt, runVars
<1>3. CASE SkipCompleted
  <2>1. pos \in 1..(N + 1) /\ done # 0
    BY <1>0, <1>3 DEF SkipCompleted, IInv, TypeOK
  <2> QED  BY <1>3, <2>1 DEF SkipCompleted
<1>4. CASE CompressFails \/ NotifyFails
  BY <1>4 DEF CompressFails, NotifyFails
<1>5. CASE CompressTensor
  BY <1>0, <1>5 DEF CompressTensor
<1>6. CASE SaveCheckpoint
  BY <1>0, <1>6 DEF SaveCheckpoint
<1>7. CASE SyncBlocks \/ PublishIndex \/ CommitFile
  BY <1>7 DEF SyncBlocks, PublishIndex, CommitFile, runVars
<1>8. CASE RemoveCheckpoint \/ OpenModelFails \/ FinalizeFails \/ Drop \/ Kill
           \/ PowerFails
  BY <1>8 DEF RemoveCheckpoint, OpenModelFails, FinalizeFails, Drop, Kill,
     PowerFails, runVars
<1>9. CASE UNCHANGED vars
  BY <1>9 DEF vars
<1> QED  BY <1>1, <1>2, <1>3, <1>4, <1>5, <1>6, <1>7, <1>8, <1>9 DEF Next, RunStep

\* The checkpoint of a clean run names exactly the tensors that are in its file, with
\* their totals: only a save writes one, and then the run has staged 1..processed.
THEOREM CleanCheckpoints == Spec => CleanCheckpointIsTrue
<1> DEFINE True ==
      \E c \in ckpt' :
        /\ 1..c.done = staged
        /\ c.credit = [t \in Tensor |-> IF t \in staged THEN 1 ELSE 0]
<1>1. Init => CleanInv
  BY DEF Init, CleanInv
<1>2. IInv /\ CleanInv /\ [Next]_vars
        => [ckpt' # ckpt /\ ckpt' # {} /\ done = 0 /\ failures = {} => True]_vars
  <2> SUFFICES ASSUME IInv, CleanInv, Next, ckpt' # ckpt, ckpt' # {},
                      done = 0, failures = {}
               PROVE  True
    BY DEF vars
  <2>1. CASE SaveCheckpoint
    <3> DEFINE c == [done |-> processed, credit |-> credit]
    <3>1. pc = "wrote" /\ ckpt' = {c}
      BY <2>1 DEF SaveCheckpoint
    <3>2. /\ processed = pos /\ pos \in Nat /\ staged \subseteq Tensor
          /\ pos \in staged /\ 1..(pos - 1) \subseteq Taken /\ \A t \in staged : t <= pos
      BY <3>1 DEF CleanInv, IInv, LoopInv, TypeOK, Out!ArchiveTypeOK
    <3>3. Taken = staged
      BY DEF Taken
    <3>4. 1..processed = staged
      <4>1. pos \in 1..N /\ staged \subseteq 1..N
        BY <3>2 DEF Tensor
      <4>2. staged \subseteq 1..pos
        BY <3>2, <4>1
      <4>3. 1..pos = 1..(pos - 1) \cup {pos}
        BY <4>1
      <4>4. 1..pos \subseteq staged
        BY <3>2, <3>3, <4>3
      <4> QED  BY <3>2, <4>2, <4>4
    <3>5. credit = [t \in Tensor |-> IF t \in staged THEN 1 ELSE 0]
      BY DEF IInv, FreshTotalsMatchFile
    <3>6. c.done = processed /\ c.credit = credit /\ c \in ckpt'
      BY <3>1
    <3> HIDE DEF c
    <3> QED  BY <3>4, <3>5, <3>6
  <2>2. CASE \E resume \in BOOLEAN : Start(resume)
    BY <2>2 DEF Start
  <2>3. CASE OpenModel \/ OpenModelFails \/ SkipCompleted \/ CompressFails
             \/ CompressTensor \/ NotifyFails \/ EndLoop \/ Interrupt
             \/ SyncBlocks \/ PublishIndex \/ CommitFile \/ FinalizeFails \/ Drop
             \/ Kill
    BY <2>3 DEF OpenModel, OpenModelFails, SkipCompleted, CompressFails,
       CompressTensor, NotifyFails, EndLoop, Interrupt, SyncBlocks, PublishIndex,
       CommitFile, FinalizeFails, Drop, Kill
  <2>4. CASE RemoveCheckpoint \/ PowerFails
    BY <2>4 DEF RemoveCheckpoint, PowerFails
  <2> QED  BY <2>1, <2>2, <2>3, <2>4 DEF Next, RunStep
<1> QED  BY <1>1, <1>2, CleanStep, Invariance, PTL DEF Spec, CleanCheckpointIsTrue
=============================================================================
