-------------------------- MODULE StreamingPipeline --------------------------
(***************************************************************************)
(* UnifiedStreamingPipeline in streaming mode: runs of _compress_streaming   *)
(* over one model and one output path, with the checkpoint file beside it.   *)
(* The output file is the abstract Archive that SSDWriter implements; the    *)
(* checkpoint file and the archive survive the process, all else is lost     *)
(* with it.                                                                  *)
(*                                                                          *)
(* Tensors are numbered in the order the loop takes them (sorted_names, by   *)
(* size), so that sorted_names[:k] is 1..k.  Byte totals are kept as the     *)
(* number of times each tensor's bytes are in them.                          *)
(***************************************************************************)
EXTENDS Naturals

CONSTANTS
  N,               \* number of tensors in the model
  Interval,        \* _CHECKPOINT_INTERVAL (25 in the code)
  MaxRuns          \* bound on the runs of one behaviour

ASSUME NAssumption == N \in Nat
ASSUME IntervalAssumption == Interval \in Nat \ {0}
ASSUME MaxRunsAssumption == MaxRuns \in Nat

Tensor == 1..N

VARIABLES
  open, staged, listed, kept,        \* the output file: see Archive
  ckpt,            \* checkpoint file: {} or {[done, credit]}
  pc,              \* where the run is
  outcome,         \* how the last run ended, or "running"
  pos,             \* the loop's tensor
  done,            \* completed_tensors of this run is 1..done
  processed,       \* tensors counted as processed
  failures,        \* report.failures
  credit,          \* how often a tensor is in total_orig and total_comp
  runs             \* runs started

fileVars == <<open, staged, listed, kept>>
vars == <<open, staged, listed, kept, ckpt, pc, outcome, pos, done, processed,
          failures, credit, runs>>

Out == INSTANCE Archive

Checkpoint == [done: 0..N, credit: [Tensor -> 0..MaxRuns]]

\* "opened" to "cleanup" are the places of a run between two steps.
Place == {"idle", "opened", "loop", "wrote", "finally", "synced", "published",
          "cleanup"}

TypeOK ==
  /\ Out!ArchiveTypeOK
  /\ ckpt \in SUBSET Checkpoint
  /\ pc \in Place
  /\ outcome \in {"none", "running", "returning", "raising", "returned",
                  "raised", "leaked", "killed"}
  /\ pos \in 1..(N + 1)
  /\ done \in 0..N
  /\ processed \in 0..N
  /\ failures \subseteq Tensor
  /\ credit \in [Tensor -> 0..MaxRuns]
  /\ runs \in 0..MaxRuns

NoCredit == [t \in Tensor |-> 0]

Init ==
  /\ Out!ArchiveInit
  /\ ckpt = {}
  /\ pc = "idle"
  /\ outcome = "none"
  /\ pos = 1
  /\ done = 0
  /\ processed = 0
  /\ failures = {}
  /\ credit = NoCredit
  /\ runs = 0

runVars == <<outcome, pos, done, processed, failures, credit, runs>>

-----------------------------------------------------------------------------
(* A run.                                                                   *)

\* The checkpoint of an earlier run is loaded only when the caller asks to
\* resume, and not when it cannot be read; the output file is emptied anyway.
Start(resume) ==
  /\ pc = "idle"
  /\ runs < MaxRuns
  /\ runs' = runs + 1
  /\ pc' = "opened"
  /\ outcome' = "running"
  /\ pos' = 1
  /\ failures' = {}
  /\ \/ /\ done' = 0
        /\ processed' = 0
        /\ credit' = NoCredit
     \/ \E c \in ckpt :
          /\ resume
          /\ done' = c.done
          /\ processed' = c.done
          /\ credit' = c.credit
  /\ Out!Begin
  /\ UNCHANGED ckpt

\* MemoryMappedTensorEngine(model_path) comes after the truncation and before
\* the try block: when it raises, nothing finalizes or closes the file.
OpenModel ==
  /\ pc = "opened"
  /\ pc' = "loop"
  /\ UNCHANGED <<fileVars, ckpt, runVars>>

OpenModelFails ==
  /\ pc = "opened"
  /\ pc' = "idle"
  /\ outcome' = "leaked"
  /\ UNCHANGED <<fileVars, ckpt, pos, done, processed, failures, credit, runs>>

SkipCompleted ==
  /\ pc = "loop"
  /\ pos <= done
  /\ pos' = pos + 1
  /\ UNCHANGED <<fileVars, ckpt, pc, outcome, done, processed, failures,
                 credit, runs>>

\* Mutant: the exception is logged and the tensor not noted.
CompressFailsSilently ==
  /\ pc = "loop"
  /\ pos \in (done + 1)..N
  /\ pos' = pos + 1
  /\ UNCHANGED <<fileVars, ckpt, pc, outcome, done, processed, failures,
                 credit, runs>>

\* Mutant: the totals are counted before the tensor is written.
CompressFailsCounted ==
  /\ pc = "loop"
  /\ pos \in (done + 1)..N
  /\ failures' = failures \cup {pos}
  /\ pos' = pos + 1
  /\ credit' = [credit EXCEPT ![pos] = @ + 1]
  /\ UNCHANGED <<fileVars, ckpt, pc, outcome, done, processed, runs>>

\* Reading, compressing or writing the tensor raises: it is noted and the loop
\* goes on.
CompressFails ==
  /\ pc = "loop"
  /\ pos \in (done + 1)..N
  /\ failures' = failures \cup {pos}
  /\ pos' = pos + 1
  /\ UNCHANGED <<fileVars, ckpt, pc, outcome, done, processed, credit, runs>>

\* write_tensor_block has returned, and the totals are counted.
CompressTensor ==
  /\ pc = "loop"
  /\ pos \in (done + 1)..N
  /\ Out!Stage(pos)
  /\ processed' = processed + 1
  /\ credit' = [credit EXCEPT ![pos] = @ + 1]
  /\ pc' = "wrote"
  /\ UNCHANGED <<ckpt, outcome, pos, done, failures, runs>>

\* progress_callback (or what follows it) raises: the tensor is already in the
\* file and in the totals, and becomes a failure as well.
NotifyFails ==
  /\ pc = "wrote"
  /\ failures' = failures \cup {pos}
  /\ pos' = pos + 1
  /\ pc' = "loop"
  /\ UNCHANGED <<fileVars, ckpt, outcome, done, processed, credit, runs>>

\* Mutant: the checkpoint is one name short.
SaveCheckpointShort ==
  /\ pc = "wrote"
  /\ pos' = pos + 1
  /\ pc' = "loop"
  /\ IF processed % Interval = 0
       THEN ckpt' \in {ckpt, {[done |-> processed - 1, credit |-> credit]}}
       ELSE UNCHANGED ckpt
  /\ UNCHANGED <<fileVars, outcome, done, processed, failures, credit, runs>>

\* Every Interval tensors the first `processed' names of the order are saved
\* as completed, by writing a temporary file and renaming it.  A failed save
\* is only logged.
SaveCheckpoint ==
  /\ pc = "wrote"
  /\ pos' = pos + 1
  /\ pc' = "loop"
  /\ IF processed % Interval = 0
       THEN ckpt' \in {ckpt, {[done |-> processed, credit |-> credit]}}
       ELSE UNCHANGED ckpt
  /\ UNCHANGED <<fileVars, outcome, done, processed, failures, credit, runs>>

\* Mutant: the loop stops before its last tensor.
EndLoopEarly ==
  /\ pc = "loop"
  /\ pos >= N
  /\ pc' = "finally"
  /\ outcome' = "returning"
  /\ UNCHANGED <<fileVars, ckpt, pos, done, processed, failures, credit, runs>>

EndLoop ==
  /\ pc = "loop"
  /\ pos = N + 1
  /\ pc' = "finally"
  /\ outcome' = "returning"
  /\ UNCHANGED <<fileVars, ckpt, pos, done, processed, failures, credit, runs>>

\* Mutant: no finally clause.
InterruptUncaught ==
  /\ pc \in {"loop", "wrote"}
  /\ pc' = "idle"
  /\ outcome' = "raised"
  /\ UNCHANGED <<fileVars, ckpt, pos, done, processed, failures, credit, runs>>

\* KeyboardInterrupt (or another BaseException) is not caught by the loop: the
\* finally clause seals what is there.
Interrupt ==
  /\ pc \in {"loop", "wrote"}
  /\ pc' = "finally"
  /\ outcome' = "raising"
  /\ UNCHANGED <<fileVars, ckpt, pos, done, processed, failures, credit, runs>>

\* writer.__exit__, in the three steps of finalize a reader can tell apart.
SyncBlocks ==
  /\ pc = "finally"
  /\ pc' = "synced"
  /\ Out!Forget
  /\ UNCHANGED <<ckpt, runVars>>

PublishIndex ==
  /\ pc = "synced"
  /\ pc' = "published"
  /\ Out!Publish
  /\ UNCHANGED <<ckpt, runVars>>

CommitFile ==
  /\ pc = "published"
  /\ pc' = "cleanup"
  /\ Out!Commit
  /\ UNCHANGED <<ckpt, runVars>>

\* finalize raises: it has not closed the file, and the rest of the finally
\* clause is skipped.
FinalizeFails ==
  /\ pc \in {"finally", "synced", "published"}
  /\ pc' = "idle"
  /\ outcome' = "leaked"
  /\ UNCHANGED <<fileVars, ckpt, pos, done, processed, failures, credit, runs>>

\* The checkpoint goes unless a tensor failed, even after an interrupt; an
\* error of os.remove is ignored.
RemoveCheckpoint ==
  /\ pc = "cleanup"
  /\ pc' = "idle"
  /\ outcome' = IF outcome = "returning" THEN "returned" ELSE "raised"
  /\ ckpt' \in IF failures = {} THEN {{}, ckpt} ELSE {ckpt}
  /\ UNCHANGED <<fileVars, pos, done, processed, failures, credit, runs>>

-----------------------------------------------------------------------------
(* The environment.                                                         *)

\* The interpreter drops the writer of a run that leaked it, and with it the
\* file object: when the exception is forgotten, or never.
Drop ==
  /\ pc = "idle"
  /\ Out!Stop
  /\ UNCHANGED <<ckpt, pc, runVars>>

Kill ==
  /\ pc # "idle"
  /\ pc' = "idle"
  /\ outcome' = "killed"
  /\ \/ Out!Stop
     \/ /\ ~open
        /\ UNCHANGED fileVars
  /\ UNCHANGED <<ckpt, pos, done, processed, failures, credit, runs>>

\* The renamed checkpoint was never fsynced and may be gone.
PowerFails ==
  /\ runs > 0
  /\ pc' = "idle"
  /\ outcome' = "killed"
  /\ Out!PowerFails
  /\ ckpt' \in {ckpt, {}}
  /\ UNCHANGED <<pos, done, processed, failures, credit, runs>>

RunStep ==
  \/ OpenModel
  \/ OpenModelFails
  \/ SkipCompleted
  \/ CompressFails
  \/ CompressTensor
  \/ NotifyFails
  \/ SaveCheckpoint
  \/ EndLoop
  \/ Interrupt
  \/ SyncBlocks
  \/ PublishIndex
  \/ CommitFile
  \/ FinalizeFails
  \/ RemoveCheckpoint

Next ==
  \/ \E resume \in BOOLEAN : Start(resume)
  \/ RunStep
  \/ Drop
  \/ Kill
  \/ PowerFails

Spec == Init /\ [][Next]_vars

\* A run that is neither killed nor cut off by a power failure goes on.
FairSpec == Spec /\ WF_vars(RunStep)

-----------------------------------------------------------------------------
(* Properties.                                                              *)

\* Nothing is dropped in silence: when compress_model returns, every tensor is
\* readable in the output, reported as a failure, or was taken from the
\* checkpoint as completed; and what is readable is on the disk.
EveryTensorAccounted ==
  outcome = "returned" /\ pc = "idle" =>
    /\ Tensor = listed \cup failures \cup 1..done
    /\ listed = kept

\* A run that did not resume and reports no failure has the whole model in its
\* output, each tensor counted once in the report's totals.
FreshRunIsComplete ==
  outcome = "returned" /\ done = 0 /\ failures = {} =>
    /\ listed = Tensor
    /\ credit = [t \in Tensor |-> 1]

\* The totals of a run that did not resume are those of the blocks it wrote,
\* wherever a callback raised or the loop was interrupted.
FreshTotalsMatchFile ==
  done = 0 => credit = [t \in Tensor |-> IF t \in staged THEN 1 ELSE 0]

\* A checkpoint saved by a run that neither resumed nor failed on a tensor
\* names exactly the tensors in its file, with their totals.
CleanCheckpointIsTrue ==
  [][ckpt' # ckpt /\ ckpt' # {} /\ done = 0 /\ failures = {} =>
       \E c \in ckpt' :
         /\ 1..c.done = staged
         /\ c.credit = [t \in Tensor |-> IF t \in staged THEN 1 ELSE 0]]_vars

\* The finally clause reaches the writer: an output file that was opened is
\* closed again, with or without its index, whatever the loop, the callbacks or
\* an interrupt raise.  Only an exception between opening the output and the
\* try block, or one out of finalize itself, leaks it.
FileIsClosed == open ~> ~open \/ outcome = "leaked"

\* The message a resumed run prints: "Resuming from checkpoint: n tensors
\* done".  The tensors it goes on from are in the file it returns.  (Refuted:
\* the file was emptied when the run started.)
ResumedTensorsAreInOutput ==
  outcome = "returned" => 1..done \subseteq listed
=============================================================================
