----------------------------- MODULE RamPipeline -----------------------------
(***************************************************************************)
(* UnifiedStreamingPipeline in RAM mode (_compress_in_ram): one thread pool  *)
(* loads all tensors, another compresses them, and then the main thread      *)
(* opens the output and writes the results in the model's order.  The output *)
(* file is the abstract Archive that SSDWriter implements.                   *)
(*                                                                          *)
(* Tensors are numbered in the order of the model's header.                  *)
(***************************************************************************)
EXTENDS Naturals, FiniteSets

CONSTANTS
  N,               \* number of tensors in the model
  Workers,         \* threads of a pool (up to 8 in the code)
  MaxRuns          \* bound on the runs of one behaviour

ASSUME NAssumption == N \in Nat
ASSUME WorkersAssumption == Workers \in Nat \ {0}
ASSUME MaxRunsAssumption == MaxRuns \in Nat

Tensor == 1..N

VARIABLES
  open, staged, listed, kept,        \* the output file: see Archive
  pc,              \* where the main thread is
  outcome,         \* how the last run ended, or "running"
  task,            \* the futures of the current pool
  loaded,          \* tensors
  compressed,      \* compressed_results
  failures,        \* report.failures
  pos,             \* the writing loop's tensor
  counted,         \* tensors whose bytes are in the report's totals
  runs             \* runs started

fileVars == <<open, staged, listed, kept>>
resultVars == <<loaded, compressed, failures>>
vars == <<open, staged, listed, kept, pc, outcome, task, loaded, compressed,
          failures, pos, counted, runs>>

Out == INSTANCE Archive

\* "draining": an exception waits for the pool to finish.
Pooling == {"loading", "compressing", "draining"}
Sealing == {"finally", "synced", "published"}
Future == {"none", "queued", "running", "ok", "error", "seen"}

TypeOK ==
  /\ Out!ArchiveTypeOK
  /\ pc \in {"idle", "writing", "wrote"} \cup Pooling \cup Sealing
  /\ outcome \in {"none", "running", "raising", "returned", "raised", "leaked",
                  "killed"}
  /\ task \in [Tensor -> Future]
  /\ loaded \subseteq Tensor
  /\ compressed \subseteq Tensor
  /\ failures \subseteq Tensor
  /\ pos \in 1..(N + 1)
  /\ counted \subseteq Tensor
  /\ runs \in 0..MaxRuns

Init ==
  /\ Out!ArchiveInit
  /\ pc = "idle"
  /\ outcome = "none"
  /\ task = [t \in Tensor |-> "none"]
  /\ loaded = {}
  /\ compressed = {}
  /\ failures = {}
  /\ pos = 1
  /\ counted = {}
  /\ runs = 0

-----------------------------------------------------------------------------
(* The thread pools.                                                        *)

Submitted(S) == [t \in Tensor |-> IF t \in S THEN "queued" ELSE "none"]
Busy == {t \in Tensor : task[t] \in {"queued", "running"}}

\* Mutant: the output is opened first, as in streaming mode.
StartOpensOutput ==
  /\ pc = "idle"
  /\ runs < MaxRuns
  /\ runs' = runs + 1
  /\ pc' = "loading"
  /\ outcome' = "running"
  /\ task' = Submitted(Tensor)
  /\ loaded' = {}
  /\ compressed' = {}
  /\ failures' = {}
  /\ pos' = 1
  /\ counted' = {}
  /\ Out!Begin

Start ==
  /\ pc = "idle"
  /\ runs < MaxRuns
  /\ runs' = runs + 1
  /\ pc' = "loading"
  /\ outcome' = "running"
  /\ task' = Submitted(Tensor)
  /\ loaded' = {}
  /\ compressed' = {}
  /\ failures' = {}
  /\ pos' = 1
  /\ counted' = {}
  /\ UNCHANGED fileVars

\* A pool takes its tasks in the order they were submitted.
WorkerTakes ==
  /\ pc \in Pooling
  /\ Cardinality({t \in Tensor : task[t] = "running"}) < Workers
  /\ \E t \in Tensor :
       /\ task[t] = "queued"
       /\ \A s \in Tensor : task[s] = "queued" => t <= s
       /\ task' = [task EXCEPT ![t] = "running"]
  /\ UNCHANGED <<fileVars, pc, outcome, resultVars, pos, counted, runs>>

\* io.read or _compress_with_oracle returns or raises.
WorkerEnds ==
  /\ pc \in Pooling
  /\ \E t \in Tensor, result \in {"ok", "error"} :
       /\ task[t] = "running"
       /\ task' = [task EXCEPT ![t] = result]
  /\ UNCHANGED <<fileVars, pc, outcome, resultVars, pos, counted, runs>>

\* Mutant: a tensor that failed to compress is only logged.
CollectQuietly(t) ==
  /\ pc \in {"loading", "compressing"}
  /\ task[t] \in {"ok", "error"}
  /\ task' = [task EXCEPT ![t] = "seen"]
  /\ loaded' = loaded \cup IF pc = "loading" /\ task[t] = "ok" THEN {t} ELSE {}
  /\ compressed' =
       compressed \cup IF pc = "compressing" /\ task[t] = "ok" THEN {t} ELSE {}
  /\ failures' =
       failures \cup IF pc = "loading" /\ task[t] = "error" THEN {t} ELSE {}
  /\ UNCHANGED <<fileVars, pc, outcome, pos, counted, runs>>

\* as_completed hands the futures to the main thread in any order.
Collect(t) ==
  /\ pc \in {"loading", "compressing"}
  /\ task[t] \in {"ok", "error"}
  /\ task' = [task EXCEPT ![t] = "seen"]
  /\ loaded' = loaded \cup IF pc = "loading" /\ task[t] = "ok" THEN {t} ELSE {}
  /\ compressed' =
       compressed \cup IF pc = "compressing" /\ task[t] = "ok" THEN {t} ELSE {}
  /\ failures' = failures \cup IF task[t] = "error" THEN {t} ELSE {}
  /\ UNCHANGED <<fileVars, pc, outcome, pos, counted, runs>>

AllSeen == \A t \in Tensor : task[t] \in {"none", "seen"}

\* Mutant: the second pool waits for every tensor of the model.
EndLoadingOfAll ==
  /\ pc = "loading"
  /\ loaded = Tensor
  /\ AllSeen
  /\ pc' = "compressing"
  /\ task' = Submitted(loaded)
  /\ UNCHANGED <<fileVars, outcome, resultVars, pos, counted, runs>>

EndLoading ==
  /\ pc = "loading"
  /\ AllSeen
  /\ pc' = "compressing"
  /\ task' = Submitted(loaded)
  /\ UNCHANGED <<fileVars, outcome, resultVars, pos, counted, runs>>

\* KeyboardInterrupt while the main thread waits: leaving the with block waits
\* for every task, queued ones included.
InterruptPool ==
  /\ pc \in {"loading", "compressing"}
  /\ pc' = "draining"
  /\ outcome' = "raising"
  /\ UNCHANGED <<fileVars, task, resultVars, pos, counted, runs>>

Drained ==
  /\ pc = "draining"
  /\ Busy = {}
  /\ pc' = "idle"
  /\ outcome' = "raised"
  /\ UNCHANGED <<fileVars, task, resultVars, pos, counted, runs>>

-----------------------------------------------------------------------------
(* Writing.                                                                 *)

OpenOutput ==
  /\ pc = "compressing"
  /\ AllSeen
  /\ pc' = "writing"
  /\ Out!Begin
  /\ UNCHANGED <<outcome, task, resultVars, pos, counted, runs>>

OpenOutputFails ==
  /\ pc = "compressing"
  /\ AllSeen
  /\ pc' = "idle"
  /\ outcome' = "raised"
  /\ UNCHANGED <<fileVars, task, resultVars, pos, counted, runs>>

SkipFailed ==
  /\ pc = "writing"
  /\ pos \in Tensor \ compressed
  /\ pos' = pos + 1
  /\ UNCHANGED <<fileVars, pc, outcome, task, resultVars, counted, runs>>

WriteTensor ==
  /\ pc = "writing"
  /\ pos \in compressed
  /\ Out!Stage(pos)
  /\ counted' = counted \cup {pos}
  /\ pc' = "wrote"
  /\ UNCHANGED <<outcome, task, resultVars, pos, runs>>

\* progress_callback returns.
Notify ==
  /\ pc = "wrote"
  /\ pos' = pos + 1
  /\ pc' = "writing"
  /\ UNCHANGED <<fileVars, outcome, task, resultVars, counted, runs>>

\* write_tensor_block or progress_callback raises, or the loop is interrupted:
\* nothing catches it, and the finally clause seals what is there.
WritingRaises ==
  /\ pc \in {"writing", "wrote"}
  /\ pos <= N
  /\ pc' = "finally"
  /\ outcome' = "raising"
  /\ UNCHANGED <<fileVars, task, resultVars, pos, counted, runs>>

EndWriting ==
  /\ pc = "writing"
  /\ pos = N + 1
  /\ pc' = "finally"
  /\ UNCHANGED <<fileVars, outcome, task, resultVars, pos, counted, runs>>

\* writer.__exit__, in the three steps of finalize a reader can tell apart.
SyncBlocks ==
  /\ pc = "finally"
  /\ pc' = "synced"
  /\ Out!Forget
  /\ UNCHANGED <<outcome, task, resultVars, pos, counted, runs>>

PublishIndex ==
  /\ pc = "synced"
  /\ pc' = "published"
  /\ Out!Publish
  /\ UNCHANGED <<outcome, task, resultVars, pos, counted, runs>>

CommitFile ==
  /\ pc = "published"
  /\ pc' = "idle"
  /\ outcome' = IF outcome = "running" THEN "returned" ELSE "raised"
  /\ Out!Commit
  /\ UNCHANGED <<task, resultVars, pos, counted, runs>>

\* finalize raises, and has not closed the file.
FinalizeFails ==
  /\ pc \in Sealing
  /\ pc' = "idle"
  /\ outcome' = "leaked"
  /\ UNCHANGED <<fileVars, task, resultVars, pos, counted, runs>>

-----------------------------------------------------------------------------
\* The interpreter drops the writer that an earlier run leaked, if it ever does.
Drop ==
  /\ pc \in {"idle"} \cup Pooling
  /\ Out!Stop
  /\ UNCHANGED <<pc, outcome, task, resultVars, pos, counted, runs>>

Kill ==
  /\ pc # "idle"
  /\ pc' = "idle"
  /\ outcome' = "killed"
  /\ \/ Out!Stop
     \/ /\ ~open
        /\ UNCHANGED fileVars
  /\ UNCHANGED <<task, resultVars, pos, counted, runs>>

PowerFails ==
  /\ runs > 0
  /\ pc' = "idle"
  /\ outcome' = "killed"
  /\ Out!PowerFails
  /\ UNCHANGED <<task, resultVars, pos, counted, runs>>

PoolStep == WorkerTakes \/ WorkerEnds

MainStep ==
  \/ \E t \in Tensor : Collect(t)
  \/ EndLoading
  \/ Drained
  \/ OpenOutput
  \/ OpenOutputFails
  \/ SkipFailed
  \/ WriteTensor
  \/ Notify
  \/ WritingRaises
  \/ EndWriting
  \/ SyncBlocks
  \/ PublishIndex
  \/ CommitFile
  \/ FinalizeFails

Next == Start \/ PoolStep \/ MainStep \/ InterruptPool \/ Drop \/ Kill \/ PowerFails

Spec == Init /\ [][Next]_vars

\* Tasks end, and a main thread that can go on does.
FairSpec == Spec /\ WF_vars(PoolStep) /\ WF_vars(MainStep)

-----------------------------------------------------------------------------
(* Properties.                                                              *)

\* When compress_model returns, every tensor is either readable in the output
\* and counted in the totals, or reported as a failure, never both; and what is
\* readable is on the disk.
EveryTensorOnce ==
  outcome = "returned" =>
    /\ listed \cup failures = Tensor
    /\ listed \cap failures = {}
    /\ counted = listed
    /\ listed = kept

\* The former output is given up, the power staying on, only when each tensor
\* has been compressed or has failed: a run interrupted before leaves it whole.
OldOutputSurvives ==
  [][listed' # listed /\ outcome' # "killed" =>
       compressed' \cup failures' = Tensor]_vars

\* Every run ends, however its tasks fail.
RunEnds == pc # "idle" ~> pc = "idle"
=============================================================================
