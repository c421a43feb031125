------------------------------ MODULE SSDWriter ------------------------------
(***************************************************************************)
(* SSDWriter, the progressive container writer of the streaming pipeline.   *)
(*                                                                         *)
(* `cached' is the file as any process reads it (the page cache), `durable' *)
(* what the last fsync guarantees.  A killed process loses its memory only; *)
(* a power failure also loses any part of what was written since the last   *)
(* fsync, and, before the first fsync of a session, may undo its truncation.*)
(***************************************************************************)
EXTENDS SSFFile

VARIABLES
  phase,           \* progress of the session: see Phase
  index,           \* SSDWriter._index: lives in memory until finalize
  tell,            \* the file position, in tensor pages
  cached,          \* the file
  durable,         \* the file as of its last fsync
  renewed          \* the current session has reached its first fsync

vars == <<phase, index, tell, cached, durable, renewed>>

\* The phases between the steps of finalize, in its order.
Finalizing == {"synced", "indexed", "described", "headed", "sealed"}
Writing == {"open"} \cup Finalizing
\* "raised": finalize has raised, and nothing has closed the file.
Phase == Writing \cup {"raised", "closed", "final", "stopped"}

TypeOK ==
  /\ phase \in Phase
  /\ index \in Seq(Entry)
  /\ tell \in 0..MaxBlocks
  /\ cached \in File
  /\ durable \in File
  /\ renewed \in BOOLEAN

Init ==
  /\ phase = "closed"
  /\ index = <<>>
  /\ tell = 0
  /\ cached = Blank
  /\ durable = Blank
  /\ renewed = TRUE

-----------------------------------------------------------------------------
(* The writer.                                                             *)

\* Mutant: the file is opened "r+b", and the old archive shows through.
EnterWithoutTruncation ==
  /\ phase \notin Writing
  /\ phase' = "open"
  /\ index' = <<>>
  /\ tell' = 0
  /\ renewed' = FALSE
  /\ UNCHANGED <<cached, durable>>

\* __enter__: open "w+b" truncates, 256 zero bytes take the header's place.
Enter ==
  /\ phase \notin Writing
  /\ phase' = "open"
  /\ index' = <<>>
  /\ tell' = 0
  /\ cached' = Blank
  /\ renewed' = FALSE
  /\ UNCHANGED durable

\* write_tensor_block: align, write, flush, then the in-memory index entry.
WriteTensorBlock(t) ==
  /\ phase = "open"
  /\ tell < MaxBlocks
  /\ tell' = tell + 1
  /\ cached' = [cached EXCEPT !.block[tell + 1] = t]
  /\ index' = Append(index,
                [name |-> t, data_offset |-> tell + 1, checksum |-> t])
  /\ UNCHANGED <<phase, durable, renewed>>

\* The write or its flush raises (a full disk): some bytes may have landed,
\* no entry is added, and the next block is aligned after them.
WriteFails ==
  /\ phase = "open"
  /\ tell < MaxBlocks
  /\ tell' = tell + 1
  /\ UNCHANGED <<phase, index, cached, durable, renewed>>

\* Mutant: finalize flushes but does not fsync before the index.
FsyncBlocksOnlyFlush ==
  /\ phase = "open"
  /\ phase' = "synced"
  /\ UNCHANGED <<index, tell, cached, durable, renewed>>

\* finalize, step by step in its order: first the blocks reach the disk.
FsyncBlocks ==
  /\ phase = "open"
  /\ phase' = "synced"
  /\ durable' = cached
  /\ renewed' = TRUE
  /\ UNCHANGED <<index, tell, cached>>

WriteIndex ==
  /\ phase = "synced"
  /\ phase' = "indexed"
  /\ cached' = [cached EXCEPT !.index = index]
  /\ UNCHANGED <<index, tell, durable, renewed>>

WriteMetadata ==
  /\ phase = "indexed"
  /\ phase' = "described"
  /\ cached' = [cached EXCEPT !.meta = "whole"]
  /\ UNCHANGED <<index, tell, durable, renewed>>

PatchHeader ==
  /\ phase = "described"
  /\ phase' = "headed"
  /\ cached' = [cached EXCEPT !.header = TRUE]
  /\ UNCHANGED <<index, tell, durable, renewed>>

\* The checksum is of the bytes read back, so it covers the patched header.
WriteFooter ==
  /\ phase = "headed"
  /\ phase' = "sealed"
  /\ cached' = [cached EXCEPT !.footer = {BodyOf(cached)}]
  /\ UNCHANGED <<index, tell, durable, renewed>>

FsyncAndClose ==
  /\ phase = "sealed"
  /\ phase' = "final"
  /\ durable' = cached
  /\ UNCHANGED <<index, tell, cached, renewed>>

-----------------------------------------------------------------------------
(* The environment.                                                        *)

\* A step of finalize raises and the exception leaves __exit__: what was written
\* stays, _finalized and _f too, and the rest of the session never happens.
FinalizeRaises ==
  /\ phase \in Writing
  /\ phase' = "raised"
  /\ UNCHANGED <<index, tell, cached, durable, renewed>>

\* The process is killed: flushed bytes stay.
Stop ==
  /\ phase \in Writing \cup {"raised"}
  /\ phase' = "stopped"
  /\ UNCHANGED <<index, tell, cached, durable, renewed>>

PowerLoss ==
  /\ phase' = "stopped"
  /\ \/ /\ renewed
        /\ cached' \in Survivors(cached, durable)
     \/ /\ ~renewed
        /\ cached' \in Survivors(cached, Blank) \cup {durable}
  /\ durable' = cached'
  /\ renewed' = TRUE
  /\ UNCHANGED <<index, tell>>

Next ==
  \/ Enter
  \/ \E t \in Tensor : WriteTensorBlock(t)
  \/ WriteFails
  \/ FsyncBlocks
  \/ WriteIndex
  \/ WriteMetadata
  \/ PatchHeader
  \/ WriteFooter
  \/ FsyncAndClose
  \/ FinalizeRaises
  \/ Stop
  \/ PowerLoss

Spec == Init /\ [][Next]_vars

-----------------------------------------------------------------------------
(* Properties.                                                             *)

\* Whatever was interrupted, by a kill, a full disk or a power failure, every
\* entry of SSFReader's index that is whole finds the bytes written for it: finalize
\* writes the index only after the blocks are on the disk.  (An entry may itself be torn;
\* see TornOnlyInTheWindow.)
ListedIsReadable ==
  \A i \in DOMAIN ReaderIndex(cached) :
    LET e == ReaderIndex(cached)[i] IN
    e.checksum # Zeros => cached.block[e.data_offset] = e.name

\* Between the patch of the header and the last fsync a power failure can leave a header
\* that is on the disk before the index and metadata it points to are.
InWindow == cached.header /\ ~durable.header

\* Only then: no other step, and no power failure at any other time, leaves a file that
\* SSFReader cannot open or of which it lists a tensor that it cannot read.
TornOnlyInTheWindow ==
  [][Damaged(cached)' \/ Damaged(durable)'
       => Damaged(cached) \/ Damaged(durable) \/ InWindow]_vars

\* verify() tells a sealed file from all others: it refuses the file until the footer is
\* there, the header being patched or not, and whatever a power failure has torn; what it
\* accepts has all its regions, and all the entries of the session that sealed it.  A
\* file that finalize has completed it accepts, and that file no longer changes when the
\* power fails.
VerifiedIsWhole ==
  /\ Verify(cached) =>
       /\ cached.meta = "whole" /\ ~Damaged(cached)
       /\ phase \notin Writing \ {"sealed"}
       /\ phase \in {"sealed", "raised", "final"} => cached.index = index
  /\ phase = "final" => Verify(cached) /\ durable = cached

\* What write_tensor_block's docstring says of a block it has returned from:
\* that it survives a crash up to this point.  (Refuted: the index that names
\* the block exists only in memory until finalize.)
BlockSurvivesCrash ==
  phase = "stopped" =>
    \A i \in DOMAIN index : index[i].name \in Readable(cached)

\* The container is an implementation of the archive its users rely on.
Promise == INSTANCE Archive WITH
  open <- phase \in Writing \cup {"raised"},
  staged <- {index[i].name : i \in DOMAIN index},
  listed <- Readable(cached),
  kept <- Readable(durable)

ImplementsArchive == Promise!ArchiveSpec
=============================================================================
