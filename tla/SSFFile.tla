------------------------------- MODULE SSFFile -------------------------------
(***************************************************************************)
(* An .ssf container as its writers lay it out and as SSFReader reads it: a  *)
(* 256-byte header, page-aligned tensor blocks, the index, the metadata and  *)
(* a footer with the checksum of everything before it.  Bytes are abstracted *)
(* to what the reader's checks tell apart.                                   *)
(***************************************************************************)
EXTENDS Naturals, Sequences

CONSTANTS
  Tensor,          \* tensor names
  MaxBlocks,       \* bound on the tensor pages of a file
  Junk,            \* bytes that are no compressed tensor (zeros, torn writes)
  Zeros            \* a name or a checksum whose bytes never reached the disk

ASSUME MaxBlocksAssumption == MaxBlocks \in Nat
ASSUME JunkAssumption == Junk \notin Tensor
ASSUME ZerosAssumption == Zeros \notin Tensor \cup {Junk}

Slot == 1..MaxBlocks

\* TensorIndexEntry without shape, method and quality: where the block is and
\* which compressed bytes (by SHA-256) it must hold.  Entries carry no checksum of
\* their own, so that zeros in the place of one are read as an entry, too.
Entry == [name: Tensor \cup {Zeros}, data_offset: Slot, checksum: Tensor \cup {Zeros}]

\* The gzip stream behind the index: zeros, all of it, or a part.
Meta == {"none", "whole", "torn"}

\* What the footer's checksum covers.  An index that was never written, that
\* does not parse or that is empty is <<>>: SSFReader keeps _index = None.
Body == [header: BOOLEAN, block: [Slot -> Tensor \cup {Junk}],
         index: Seq(Entry), meta: Meta]

BodyOf(f) ==
  [header |-> f.header, block |-> f.block, index |-> f.index, meta |-> f.meta]

\* The footer is {}, or {b} when it holds the checksum of body b.
File == [header: BOOLEAN, block: [Slot -> Tensor \cup {Junk}],
         index: Seq(Entry), meta: Meta, footer: SUBSET Body]

Blank == [header |-> FALSE, block |-> [s \in Slot |-> Junk],
          index |-> <<>>, meta |-> "none", footer |-> {}]

-----------------------------------------------------------------------------
(* SSFReader, as a function of the file.                                   *)

\* _open: zeros for metadata are "not a gzipped file", which is caught; a stream that
\* begins well and breaks off raises EOFError or zlib.error, which is not.
Opens(f) == ~(f.header /\ f.meta = "torn")

\* A header that does not unpack leaves the reader without an index.
ReaderIndex(f) == IF f.header /\ Opens(f) THEN f.index ELSE <<>>

TensorNames(f) == {ReaderIndex(f)[i].name : i \in DOMAIN ReaderIndex(f)}

\* TensorIndex.get: _by_name holds the last entry added under a name.
Lookup(f, t) ==
  LET at == {i \in DOMAIN ReaderIndex(f) : ReaderIndex(f)[i].name = t}
  IN  ReaderIndex(f)[CHOOSE i \in at : \A j \in at : j <= i]

ChecksumOK(f, e) == f.block[e.data_offset] = e.checksum

\* get_tensor: the bytes, or nothing when it raises KeyError or ValueError.
GetTensor(f, t) ==
  IF t \in TensorNames(f) /\ ChecksumOK(f, Lookup(f, t))
  THEN {f.block[Lookup(f, t).data_offset]} ELSE {}

Readable(f) == {t \in TensorNames(f) : GetTensor(f, t) = {t}}

\* A reader cannot be made, or lists what it cannot read.
Damaged(f) == ~Opens(f) \/ TensorNames(f) # Readable(f)

\* Mutant: the checksum in the footer is not compared.
VerifyWithoutFooter(f) ==
  /\ Opens(f) /\ f.header
  /\ \A i \in DOMAIN ReaderIndex(f) : ChecksumOK(f, ReaderIndex(f)[i])

\* verify(): header, every entry of the index (when there is one), and the
\* checksum in the footer.
Verify(f) ==
  /\ Opens(f) /\ f.header
  /\ \A i \in DOMAIN ReaderIndex(f) : ChecksumOK(f, ReaderIndex(f)[i])
  /\ f.footer = {BodyOf(f)}

-----------------------------------------------------------------------------
(* What a power failure leaves of a file, when `safe' was fsynced and `now'  *)
(* is what was written since: of every region that differs, any part of the  *)
(* new bytes.  The header fits one sector, and a part of a block or of the    *)
(* footer fails its checksum; a part of the index or of the metadata may be   *)
(* read all the same.                                                         *)
Left(new, old, lost) == IF new = old THEN {new} ELSE {new, lost}

\* An entry whose pages were lost: all of it, which parses as an entry without name, or
\* its end, where the checksum is.
TornEntry(e) == {e, [e EXCEPT !.checksum = Zeros],
                 [e EXCEPT !.name = Zeros, !.checksum = Zeros]}

\* An index of which some pages were lost: it does not parse (ValueError, struct.error,
\* IndexError are caught), or entries of it come out torn.
Torn(ix) ==
  {<<>>} \cup {jx \in [DOMAIN ix -> UNION {TornEntry(ix[k]) : k \in DOMAIN ix}] :
               \A k \in DOMAIN ix : jx[k] \in TornEntry(ix[k])}

Survivors(now, safe) ==
  [header: Left(now.header, safe.header, FALSE),
   block: {b \in [Slot -> Tensor \cup {Junk}] :
             \A s \in Slot : b[s] \in Left(now.block[s], safe.block[s], Junk)},
   index: IF now.index = safe.index THEN {now.index} ELSE Torn(now.index),
   meta: IF now.meta = "whole" /\ safe.meta # "whole" THEN Meta ELSE {now.meta},
   footer: Left(now.footer, safe.footer, {})]
=============================================================================
