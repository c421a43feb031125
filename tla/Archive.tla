------------------------------- MODULE Archive -------------------------------
(***************************************************************************)
(* What an output .ssf file promises to whoever reads it back, without the *)
(* pages it is made of.  A writing session truncates the file, stages       *)
(* tensors one by one, publishes all of them at once (the header patch of   *)
(* SSDWriter.finalize) and commits (the last fsync).  `listed' is what a    *)
(* reader of the file can get now, `kept' what it could get after the power *)
(* has failed.                                                              *)
(***************************************************************************)
EXTENDS Naturals

CONSTANT Tensor          \* tensor names of the model being compressed

VARIABLES
  open,                  \* a writer holds the file
  staged,                \* tensors whose block the current session has written
  listed,                \* tensors a reader of the file gets
  kept                   \* tensors a reader gets if the power fails first

archiveVars == <<open, staged, listed, kept>>

ArchiveInit ==
  /\ open = FALSE
  /\ staged = {}
  /\ listed = {}
  /\ kept = {}

\* SSDWriter.__enter__: open(path, "w+b") empties whatever was there.
Begin ==
  /\ open' = TRUE
  /\ staged' = {}
  /\ listed' = {}
  /\ UNCHANGED kept

\* SSDWriter.write_tensor_block: the block is in the file, nothing names it.
Stage(t) ==
  /\ open
  /\ listed = {}
  /\ staged' = staged \cup {t}
  /\ UNCHANGED <<open, listed, kept>>

\* The first fsync of finalize: the old content cannot come back any more.
Forget ==
  /\ open
  /\ kept' = listed
  /\ UNCHANGED <<open, staged, listed>>

\* finalize patches the header: every staged tensor appears at once.
Publish ==
  /\ open
  /\ listed' = staged
  /\ UNCHANGED <<open, staged, kept>>

\* The last fsync and close of finalize.
Commit ==
  /\ open
  /\ open' = FALSE
  /\ kept' = listed
  /\ UNCHANGED <<staged, listed>>

\* The process dies: the file stays as it is.
Stop ==
  /\ open
  /\ open' = FALSE
  /\ UNCHANGED <<staged, listed, kept>>

\* The machine loses power: a reader finds what was kept or, of what is not yet kept, any
\* part; a committed file it finds as it was.
PowerFails ==
  /\ open' = FALSE
  /\ listed' \in IF listed = kept THEN {kept} ELSE {kept} \cup SUBSET listed
  /\ kept' = listed'
  /\ UNCHANGED staged

ArchiveNext ==
  \/ Begin
  \/ \E t \in Tensor : Stage(t)
  \/ Forget
  \/ Publish
  \/ Commit
  \/ Stop
  \/ PowerFails

ArchiveSpec == ArchiveInit /\ [][ArchiveNext]_archiveVars

ArchiveTypeOK ==
  /\ open \in BOOLEAN
  /\ staged \subseteq Tensor
  /\ listed \subseteq Tensor
  /\ kept \subseteq Tensor
=============================================================================
