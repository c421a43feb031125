--------------------------- MODULE SSDWriterProofs ---------------------------
(***************************************************************************)
(* Theorems about SSDWriter for any tensors and any number of blocks, and   *)
(* that it implements Archive.                                              *)
(***************************************************************************)
EXTENDS SSDWriter, WellFoundedInduction, TLAPS

USE MaxBlocksAssumption, JunkAssumption, ZerosAssumption

\* Every entry of f's index that is not torn finds its bytes in f.
IndexIsGood(f) ==
  \A i \in DOMAIN f.index : f.index[i].checksum # Zeros =>
    /\ f.index[i].checksum = f.index[i].name
    /\ f.block[f.index[i].data_offset] = f.index[i].name

\* The same of the index in memory, whose blocks all lie before tell, so that
\* the next block overwrites none of them.
SessionIsGood ==
  \A i \in DOMAIN index :
    /\ index[i].name \in Tensor /\ index[i].checksum = index[i].name
    /\ index[i].data_offset \in 1..tell
    /\ cached.block[index[i].data_offset] = index[i].name

\* Why a power failure cannot separate the index from its blocks: once a
\* session has fsynced, its blocks are durable; until then it has no index.
BlocksBeforeIndex ==
  /\ renewed => durable.block = cached.block
  /\ ~renewed => cached.index = <<>>
  /\ phase = "open" => ~renewed
  /\ phase \in Finalizing => renewed

IInv ==
  /\ TypeOK
  /\ IndexIsGood(cached)
  /\ IndexIsGood(durable)
  /\ phase \in Writing => SessionIsGood
  /\ BlocksBeforeIndex

LEMMA BlankTyped == Blank \in File /\ IndexIsGood(Blank)
  BY DEF Blank, File, Body, IndexIsGood, Entry, Meta

\* What is left of an index is an index, and its whole entries are those that were there.
LEMMA TornFacts ==
  ASSUME NEW ix \in Seq(Entry), NEW jx \in Torn(ix)
  PROVE  /\ jx \in Seq(Entry) /\ DOMAIN jx \subseteq DOMAIN ix
         /\ \A i \in DOMAIN jx : jx[i].checksum # Zeros => jx[i] = ix[i]
<1>1. CASE jx = <<>>
  BY <1>1
<1>2. CASE jx # <<>>
  <2>1. /\ jx \in [DOMAIN ix -> UNION {TornEntry(ix[k]) : k \in DOMAIN ix}]
        /\ \A k \in DOMAIN ix : jx[k] \in TornEntry(ix[k])
    BY <1>2 DEF Torn
  <2>2. ASSUME NEW k \in DOMAIN ix
        PROVE  jx[k] \in Entry /\ (jx[k].checksum # Zeros => jx[k] = ix[k])
    <3>1. ix[k] \in Entry /\ jx[k] \in TornEntry(ix[k])
      BY <2>1
    <3> QED  BY <3>1 DEF TornEntry, Entry
  <2>3. DOMAIN jx = 1..Len(ix) /\ Len(ix) \in Nat
    BY <2>1
  <2>4. jx \in [1..Len(ix) -> Entry]
    BY <2>1, <2>2, <2>3
  <2>5. jx \in Seq(Entry)
    BY <2>3, <2>4
  <2> QED  BY <2>1, <2>2, <2>5
<1> QED  BY <1>1, <1>2

\* What a power failure leaves is a file, and its blocks and index are those
\* there were, up to what was not yet fsynced.
LEMMA SurvivorFacts ==
  ASSUME NEW now \in File, NEW safe \in File, NEW f \in Survivors(now, safe)
  PROVE  /\ f \in File
         /\ f.header => now.header
         /\ f.footer \in {now.footer, {}}
         /\ DOMAIN f.index \subseteq DOMAIN now.index
         /\ \A i \in DOMAIN f.index : f.index[i].checksum # Zeros => f.index[i] = now.index[i]
         /\ now.block = safe.block => f.block = now.block
<1>1. f.index \in Seq(Entry) /\ now.index \in Seq(Entry) /\ f.index \in Torn(now.index) \cup {now.index}
  <2>1. now.index \in Seq(Entry) /\ f.index \in Torn(now.index) \cup {now.index}
    BY DEF Survivors, File
  <2> QED  BY <2>1, TornFacts
<1>2. /\ f.header \in {now.header, FALSE} /\ f.meta \in Meta \cup {now.meta}
      /\ f.footer \in {now.footer, {}}
      /\ f.block \in [Slot -> Tensor \cup {Junk}]
      /\ \A s \in Slot : f.block[s] \in Left(now.block[s], safe.block[s], Junk)
  BY DEF Survivors, Left
<1>3. f = [header |-> f.header, block |-> f.block, index |-> f.index,
           meta |-> f.meta, footer |-> f.footer]
  BY DEF Survivors
<1>4. f \in File
  <2>1. f.header \in BOOLEAN /\ f.meta \in Meta
    BY <1>2 DEF File
  <2>2. f.footer \in SUBSET Body
    BY <1>2 DEF File
  <2> QED  BY <1>1, <1>2, <1>3, <2>1, <2>2 DEF File
<1>5. now.block = safe.block => f.block = now.block
  <2> SUFFICES ASSUME now.block = safe.block PROVE f.block = now.block
    OBVIOUS
  <2>1. now.block \in [Slot -> Tensor \cup {Junk}]
    BY DEF File
  <2>2. \A s \in Slot : f.block[s] = now.block[s]
    BY <1>2 DEF Left
  <2> QED  BY <1>2, <2>1, <2>2
<1>6. /\ DOMAIN f.index \subseteq DOMAIN now.index
      /\ \A i \in DOMAIN f.index : f.index[i].checksum # Zeros => f.index[i] = now.index[i]
  BY <1>1, TornFacts
<1>7. (f.header => now.header) /\ f.footer \in {now.footer, {}}
  BY <1>2 DEF File
<1> QED  BY <1>4, <1>5, <1>6, <1>7

\* When nothing was written since the last fsync, nothing changes.
LEMMA NothingToLose ==
  ASSUME NEW now \in File, NEW f \in Survivors(now, now)
  PROVE  f = now
<1>1. /\ f = [header |-> f.header, block |-> f.block, index |-> f.index,
              meta |-> f.meta, footer |-> f.footer]
      /\ f.header = now.header /\ f.index = now.index
      /\ f.footer = now.footer /\ f.meta = now.meta
      /\ f.block \in [Slot -> Tensor \cup {Junk}]
      /\ \A s \in Slot : f.block[s] = now.block[s]
  BY DEF Survivors, Left
<1>2. now.block \in [Slot -> Tensor \cup {Junk}]
  BY DEF File
<1>3. f.block = now.block
  BY <1>1, <1>2
<1>4. now = [header |-> now.header, block |-> now.block, index |-> now.index,
             meta |-> now.meta, footer |-> now.footer]
  BY DEF File
<1> QED  BY <1>1, <1>3, <1>4

LEMMA InitEstablishes == Init => IInv
  BY BlankTyped DEF Init, IInv, TypeOK, Phase, Writing, Finalizing,
     BlocksBeforeIndex, SessionIsGood

LEMMA WritePreserves ==
  ASSUME IInv, NEW t \in Tensor, WriteTensorBlock(t)
  PROVE  IInv'
<1> USE DEF WriteTensorBlock
<1> DEFINE e == [name |-> t, data_offset |-> tell + 1, checksum |-> t]
<1>1. e \in Entry /\ tell + 1 \in Slot /\ tell \in Nat
  BY DEF IInv, TypeOK, Entry, Slot
<1>2. TypeOK'
  <2>1. index' \in Seq(Entry) /\ tell' \in 0..MaxBlocks
    BY <1>1 DEF IInv, TypeOK
  <2>2. cached' \in File
    BY <1>1 DEF IInv, TypeOK, File
  <2> QED  BY <2>1, <2>2 DEF IInv, TypeOK
<1>3. cached'.index = <<>> /\ ~renewed'
  BY DEF IInv, TypeOK, BlocksBeforeIndex, File
<1>4. IndexIsGood(cached')
  BY <1>3 DEF IndexIsGood
<1>5. SessionIsGood'
  <2> SUFFICES ASSUME NEW i \in DOMAIN index'
               PROVE  /\ index'[i].name \in Tensor /\ index'[i].checksum = index'[i].name
                      /\ index'[i].data_offset \in 1..tell'
                      /\ cached'.block[index'[i].data_offset] = index'[i].name
    BY DEF SessionIsGood
  <2>1. SessionIsGood
    BY DEF IInv, Writing
  <2>2. /\ cached'.block = [cached.block EXCEPT ![tell + 1] = t]
        /\ cached.block \in [Slot -> Tensor \cup {Junk}]
    BY DEF IInv, TypeOK, File
  <2>3. CASE i = Len(index) + 1
    <3>1. index'[i] = e
      BY <2>3 DEF IInv, TypeOK
    <3> QED  BY <1>1, <2>2, <3>1
  <2>4. CASE i # Len(index) + 1
    <3>1. i \in DOMAIN index /\ index'[i] = index[i] /\ index[i] \in Entry
      BY <1>1, <2>4 DEF IInv, TypeOK
    <3>2. index[i].data_offset \in 1..tell /\ index[i].data_offset \in Slot
      BY <2>1, <3>1 DEF SessionIsGood, Entry
    <3> QED  BY <1>1, <2>1, <2>2, <3>1, <3>2 DEF SessionIsGood
  <2> QED  BY <2>3, <2>4
<1>6. BlocksBeforeIndex' /\ IndexIsGood(durable)'
  BY <1>3 DEF IInv, BlocksBeforeIndex, Finalizing, IndexIsGood
<1> QED  BY <1>2, <1>4, <1>5, <1>6 DEF IInv, IndexIsGood

\* The steps of finalize rewrite regions other than the blocks; the index they
\* write is the one whose blocks are in the file.
LEMMA FinalizePreserves ==
  ASSUME IInv,
         \/ FsyncBlocks \/ WriteIndex \/ WriteMetadata
         \/ PatchHeader \/ WriteFooter \/ FsyncAndClose
  PROVE  IInv'
<1>1. CASE FsyncBlocks
  BY <1>1 DEF FsyncBlocks, IInv, TypeOK, Phase, Writing, Finalizing,
     BlocksBeforeIndex, SessionIsGood, IndexIsGood
<1>2. CASE WriteIndex
  <2> USE <1>2 DEF WriteIndex
  <2>1. /\ cached' \in File /\ cached'.index = index
        /\ cached'.block = cached.block
    BY DEF IInv, TypeOK, File
  <2>2. SessionIsGood /\ SessionIsGood'
    BY <2>1 DEF IInv, Writing, Finalizing, SessionIsGood
  <2>3. IndexIsGood(cached) ' /\ IndexIsGood(durable)'
    BY <2>1, <2>2 DEF IInv, IndexIsGood, SessionIsGood
  <2>4. TypeOK' /\ BlocksBeforeIndex'
    BY <2>1 DEF IInv, TypeOK, Phase, Writing, Finalizing, BlocksBeforeIndex
  <2> QED  BY <2>2, <2>3, <2>4 DEF IInv
<1>3. CASE WriteMetadata \/ PatchHeader \/ WriteFooter
  <2>1. /\ cached' \in File /\ cached'.index = cached.index
        /\ cached'.block = cached.block
    <3>1. cached \in File /\ BodyOf(cached) \in Body
      BY DEF IInv, TypeOK, File, Body, BodyOf
    <3>2. CASE WriteMetadata \/ PatchHeader
      BY <3>1, <3>2 DEF WriteMetadata, PatchHeader, File, Meta
    <3>3. CASE WriteFooter
      <4>1. {BodyOf(cached)} \in SUBSET Body
        BY <3>1
      <4> QED  BY <3>1, <3>3, <4>1 DEF WriteFooter, File
    <3> QED  BY <1>3, <3>2, <3>3
  <2>2. SessionIsGood' /\ IndexIsGood(cached)' /\ IndexIsGood(durable)'
    BY <1>3, <2>1 DEF WriteMetadata, PatchHeader, WriteFooter, IInv, Writing,
       Finalizing, SessionIsGood, IndexIsGood
  <2>3. TypeOK' /\ BlocksBeforeIndex'
    BY <1>3, <2>1 DEF WriteMetadata, PatchHeader, WriteFooter, IInv, TypeOK,
       Phase, Writing, Finalizing, BlocksBeforeIndex
  <2> QED  BY <2>2, <2>3 DEF IInv
<1>4. CASE FsyncAndClose
  BY <1>4 DEF FsyncAndClose, IInv, TypeOK, Phase, Writing, Finalizing,
     BlocksBeforeIndex, IndexIsGood
<1> QED  BY <1>1, <1>2, <1>3, <1>4

LEMMA PowerLossPreserves ==
  ASSUME IInv, PowerLoss
  PROVE  IInv'
<1> USE DEF PowerLoss
<1>1. cached \in File /\ durable \in File /\ Blank \in File
  BY BlankTyped DEF IInv, TypeOK
<1>2. cached' \in File /\ IndexIsGood(cached')
  <2>1. CASE renewed /\ cached' \in Survivors(cached, durable)
    <3>1. /\ cached' \in File
          /\ DOMAIN cached'.index \subseteq DOMAIN cached.index
          /\ \A i \in DOMAIN cached'.index :
               cached'.index[i].checksum # Zeros => cached'.index[i] = cached.index[i]
          /\ cached'.block = cached.block
      BY <1>1, <2>1, SurvivorFacts DEF IInv, BlocksBeforeIndex
    <3> QED  BY <3>1 DEF IInv, IndexIsGood
  <2>2. CASE ~renewed /\ cached' \in Survivors(cached, Blank)
    <3>1. cached' \in File /\ DOMAIN cached'.index = {}
      BY <1>1, <2>2, SurvivorFacts DEF IInv, BlocksBeforeIndex
    <3> QED  BY <3>1 DEF IndexIsGood
  <2>3. CASE cached' = durable
    BY <1>1, <2>3 DEF IInv, IndexIsGood
  <2> QED  BY <2>1, <2>2, <2>3
<1> QED  BY <1>2 DEF IInv, TypeOK, Phase, Writing, Finalizing,
            BlocksBeforeIndex, IndexIsGood

LEMMA StepPreserves == IInv /\ [Next]_vars => IInv'
<1> SUFFICES ASSUME IInv, [Next]_vars PROVE IInv'
  OBVIOUS
<1>1. CASE Enter
  <2> USE <1>1 DEF Enter
  <2>1. TypeOK'
    <3>1. 0 \in 0..MaxBlocks /\ <<>> \in Seq(Entry)
      BY MaxBlocksAssumption
    <3>2. cached' \in File /\ durable' \in File
      BY BlankTyped DEF IInv, TypeOK
    <3> QED  BY <3>1, <3>2 DEF TypeOK, Phase, Writing
  <2>2. cached'.index = <<>>
    BY DEF Blank
  <2>3. IndexIsGood(cached)' /\ IndexIsGood(durable)' /\ SessionIsGood'
    BY <2>2 DEF IInv, IndexIsGood, SessionIsGood
  <2>4. BlocksBeforeIndex'
    BY <2>2 DEF BlocksBeforeIndex, Finalizing
  <2> QED  BY <2>1, <2>3, <2>4 DEF IInv
<1>2. ASSUME NEW t \in Tensor, WriteTensorBlock(t) PROVE IInv'
  BY <1>2, WritePreserves
<1>3. CASE WriteFails
  BY <1>3 DEF WriteFails, IInv, TypeOK, SessionIsGood, BlocksBeforeIndex,
     IndexIsGood
<1>4. CASE \/ FsyncBlocks \/ WriteIndex \/ WriteMetadata
           \/ PatchHeader \/ WriteFooter \/ FsyncAndClose
  BY <1>4, FinalizePreserves
<1>5. CASE Stop \/ FinalizeRaises
  BY <1>5 DEF Stop, FinalizeRaises, IInv, TypeOK, Phase, Writing, Finalizing,
     BlocksBeforeIndex, IndexIsGood
<1>6. CASE PowerLoss
  BY <1>6, PowerLossPreserves
<1>7. CASE UNCHANGED vars
  BY <1>7 DEF vars, IInv, TypeOK, SessionIsGood, BlocksBeforeIndex, IndexIsGood
<1> QED  BY <1>1, <1>2, <1>3, <1>4, <1>5, <1>6, <1>7 DEF Next

THEOREM Invariance == Spec => []IInv
<1> QED  BY InitEstablishes, StepPreserves, PTL DEF Spec

\* The state of the writer and of its file stays well formed.
THEOREM TypeCorrect == Spec => []TypeOK
<1>1. IInv => TypeOK
  BY DEF IInv
<1> QED  BY <1>1, Invariance, PTL

\* A reader of the file is never given an entry without its block, whatever was
\* interrupted and whenever the power failed.
THEOREM ListedReadable == Spec => []ListedIsReadable
<1>1. IInv => ListedIsReadable
  BY DEF IInv, ListedIsReadable, IndexIsGood, ReaderIndex
<1> QED  BY <1>1, Invariance, PTL

-----------------------------------------------------------------------------
(* What a reader makes of a file whose entries are all whole.               *)

Complete(f) == \A i \in DOMAIN f.index : f.index[i].checksum # Zeros

\* A set of positions has a last one: n minus it is the least of the distances to n.
LEMMA LastPosition ==
  ASSUME NEW n \in Nat, NEW T \in SUBSET (1..n), T # {}
  PROVE  \E x \in T : \A y \in T : y <= x
<1> DEFINE R == OpToRel(<, Nat)
           D == {n - x : x \in T}
<1>1. IsWellFoundedOn(R, Nat)
  BY NatLessThanWellFounded
<1>2. R = {ss \in Nat \X Nat : ss[1] < ss[2]}
  BY DEF OpToRel
<1>3. D \in SUBSET Nat /\ D # {}
  <2>1. \A x \in T : n - x \in Nat
    OBVIOUS
  <2> QED  BY <2>1, Zenon
<1> HIDE DEF R, D
<1>4. PICK d \in D : \A e \in D : ~ (<<e, d>> \in R)
  BY <1>1, <1>3, WFMin
<1>5. ASSUME NEW e \in D PROVE d <= e
  <2>1. d \in Nat /\ e \in Nat
    BY <1>3
  <2>2. ~ (e < d)
    BY <1>2, <1>4, <2>1
  <2> QED  BY <2>1, <2>2
<1>6. PICK x \in T : d = n - x
  BY DEF D
<1>7. ASSUME NEW y \in T PROVE y <= x
  <2>1. n - y \in D
    BY Zenon DEF D
  <2>2. n - x <= n - y
    BY <1>5, <1>6, <2>1
  <2> QED  BY <2>2
<1> QED  BY <1>7

\* The entry a name stands for is one of those listed under it.
LEMMA LookupIsListed ==
  ASSUME NEW f \in File, NEW t \in TensorNames(f)
  PROVE  /\ f.header /\ Opens(f)
         /\ \E i \in DOMAIN f.index : f.index[i].name = t /\ Lookup(f, t) = f.index[i]
<1>1. f.header /\ Opens(f) /\ ReaderIndex(f) = f.index
  BY DEF TensorNames, ReaderIndex
<1> DEFINE at == {i \in DOMAIN f.index : f.index[i].name = t}
<1>2. f.index \in Seq(Entry)
  BY DEF File
<1>3. at # {} /\ at \in SUBSET (1..Len(f.index)) /\ Len(f.index) \in Nat
  BY <1>1, <1>2 DEF TensorNames
<1>4. \E i \in at : \A j \in at : j <= i
  BY <1>3, LastPosition
<1>5. PICK i \in at : Lookup(f, t) = f.index[i]
  BY <1>1, <1>4 DEF Lookup
<1> QED  BY <1>1, <1>5

\* Of a file whose index is good and whole, every name in the index can be read.
LEMMA GoodIsReadable ==
  ASSUME NEW f \in File, IndexIsGood(f), Complete(f)
  PROVE  Readable(f) = TensorNames(f)
<1>1. ASSUME NEW t \in TensorNames(f) PROVE GetTensor(f, t) = {t}
  <2>1. PICK i \in DOMAIN f.index : f.index[i].name = t /\ Lookup(f, t) = f.index[i]
    BY LookupIsListed
  <2>2. /\ Lookup(f, t).checksum = t
        /\ f.block[Lookup(f, t).data_offset] = t
    BY <2>1 DEF IndexIsGood, Complete
  <2> QED  BY <1>1, <2>2 DEF GetTensor, ChecksumOK
<1> QED  BY <1>1 DEF Readable

LEMMA Undamaged ==
  ASSUME NEW f \in File
  PROVE  /\ ~f.header => ~Damaged(f)
         /\ IndexIsGood(f) /\ Complete(f) /\ f.meta # "torn" => ~Damaged(f)
<1>1. CASE ~f.header
  BY <1>1 DEF Damaged, Opens, TensorNames, ReaderIndex, Readable
<1>2. CASE IndexIsGood(f) /\ Complete(f) /\ f.meta # "torn"
  BY <1>2, GoodIsReadable DEF Damaged, Opens
<1> QED  BY <1>1, <1>2

\* What can be read after some of a whole index was lost could be read before.
LEMMA LessIsReadable ==
  ASSUME NEW now \in File, IndexIsGood(now), Complete(now), now.meta # "torn",
         NEW f \in File, f.block = now.block, f.header => now.header,
         DOMAIN f.index \subseteq DOMAIN now.index,
         \A i \in DOMAIN f.index : f.index[i].checksum # Zeros => f.index[i] = now.index[i]
  PROVE  Readable(f) \subseteq Readable(now)
<1> SUFFICES ASSUME NEW t \in Readable(f) PROVE t \in Readable(now)
  OBVIOUS
<1>1. t \in TensorNames(f) /\ GetTensor(f, t) = {t}
  BY DEF Readable
<1>2. ChecksumOK(f, Lookup(f, t))
  BY <1>1 DEF GetTensor
<1>3. f.header
  BY <1>1, LookupIsListed
<1>4. PICK i \in DOMAIN f.index : f.index[i].name = t /\ Lookup(f, t) = f.index[i]
  BY <1>1, LookupIsListed
<1>5. f.index[i].data_offset \in Slot /\ f.block \in [Slot -> Tensor \cup {Junk}]
  <2>1. f.index \in Seq(Entry) /\ f.block \in [Slot -> Tensor \cup {Junk}]
    BY DEF File
  <2>2. f.index[i] \in Entry
    BY <2>1
  <2> QED  BY <2>1, <2>2 DEF Entry
<1>6. f.index[i].checksum # Zeros
  BY <1>2, <1>4, <1>5 DEF ChecksumOK
<1>7. i \in DOMAIN now.index /\ now.index[i].name = t
  BY <1>4, <1>6
<1>8. t \in TensorNames(now)
  BY <1>3, <1>7 DEF TensorNames, ReaderIndex, Opens
<1> QED  BY <1>8, GoodIsReadable

-----------------------------------------------------------------------------
(* How far finalize has come, read off the file.                            *)

\* The footer is the checksum of a whole body.
FooterIsGood(f) ==
  \A b \in f.footer :
    b.meta = "whole" /\ \A i \in DOMAIN b.index : b.index[i].checksum # Zeros

\* The regions written so far hold what the session kept in memory, the others nothing,
\* and the footer sums all of them.
SealInv ==
  /\ phase \in {"open", "synced"} => cached.index = <<>>
  /\ phase \in {"indexed", "described", "headed", "sealed", "final"} =>
       cached.index = index
  /\ phase \in {"open", "synced", "indexed"} => cached.meta = "none"
  /\ phase \in {"described", "headed", "sealed", "final"} => cached.meta = "whole"
  /\ phase \in {"headed", "sealed", "final"} => cached.header
  /\ phase \in Writing \ {"sealed"} => cached.footer = {}
  /\ phase \in {"sealed", "final"} => cached.footer = {BodyOf(cached)}
  /\ phase = "raised" /\ cached.footer # {} => cached.index = index
  /\ phase = "final" => durable = cached
  /\ FooterIsGood(cached) /\ FooterIsGood(durable)

\* While a session writes, its file has no torn entry.
LEMMA WritingIsComplete ==
  ASSUME IInv, SealInv, phase \in Writing
  PROVE  Complete(cached) /\ cached.meta # "torn"
<1>1. cached.index = <<>> \/ cached.index = index
  BY DEF SealInv, Writing, Finalizing
<1>2. \A i \in DOMAIN index : index[i].checksum # Zeros
  BY DEF IInv, SessionIsGood
<1> QED  BY <1>1, <1>2 DEF Complete, SealInv, Writing, Finalizing

LEMMA SealStep == IInv /\ SealInv /\ [Next]_vars => SealInv'
<1> SUFFICES ASSUME IInv, SealInv, [Next]_vars PROVE SealInv'
  OBVIOUS
<1> USE DEF SealInv, Writing, Finalizing
<1>0. cached \in File /\ durable \in File
  BY DEF IInv, TypeOK
<1>1. CASE Enter
  BY <1>1 DEF Enter, Blank, FooterIsGood
<1>2. ASSUME NEW t \in Tensor, WriteTensorBlock(t) PROVE SealInv'
  <2>1. /\ cached'.index = cached.index /\ cached'.meta = cached.meta
        /\ cached'.footer = cached.footer /\ UNCHANGED <<phase, durable>>
        /\ phase = "open"
    BY <1>0, <1>2 DEF WriteTensorBlock, File
  <2> QED  BY <2>1 DEF FooterIsGood
<1>3. CASE WriteFails \/ FsyncBlocks
  BY <1>3 DEF WriteFails, FsyncBlocks, FooterIsGood
<1>4. CASE WriteIndex
  <2>1. /\ cached'.index = index /\ cached'.meta = cached.meta
        /\ cached'.footer = cached.footer /\ UNCHANGED <<durable, index>>
        /\ phase = "synced" /\ phase' = "indexed"
    BY <1>0, <1>4 DEF WriteIndex, File
  <2> QED  BY <2>1 DEF FooterIsGood
<1>5. CASE WriteMetadata
  <2>1. /\ cached'.index = cached.index /\ cached'.meta = "whole"
        /\ cached'.footer = cached.footer /\ UNCHANGED <<durable, index>>
        /\ phase = "indexed" /\ phase' = "described"
    BY <1>0, <1>5 DEF WriteMetadata, File
  <2> QED  BY <2>1 DEF FooterIsGood
<1>6. CASE PatchHeader
  <2>1. /\ cached'.index = cached.index /\ cached'.meta = cached.meta /\ cached'.header
        /\ cached'.footer = cached.footer /\ UNCHANGED <<durable, index>>
        /\ phase = "described" /\ phase' = "headed"
    BY <1>0, <1>6 DEF PatchHeader, File
  <2> QED  BY <2>1 DEF FooterIsGood
<1>7. CASE WriteFooter
  <2>1. /\ cached'.footer = {BodyOf(cached)} /\ cached'.index = cached.index
        /\ cached'.header = cached.header /\ cached'.block = cached.block
        /\ cached'.meta = cached.meta /\ UNCHANGED <<durable, index>>
        /\ phase = "headed" /\ phase' = "sealed"
    BY <1>0, <1>7 DEF WriteFooter, File
  <2>2. BodyOf(cached') = BodyOf(cached)
    BY <2>1 DEF BodyOf
  <2>3. FooterIsGood(cached')
    <3>1. Complete(cached) /\ cached.meta = "whole"
      BY <2>1, WritingIsComplete
    <3> QED  BY <2>1, <3>1 DEF FooterIsGood, BodyOf, Complete
  <2> QED  BY <2>1, <2>2, <2>3 DEF FooterIsGood
<1>8. CASE FsyncAndClose
  BY <1>8 DEF FsyncAndClose, FooterIsGood
<1>9. CASE FinalizeRaises \/ Stop
  BY <1>9 DEF FinalizeRaises, Stop, FooterIsGood
<1>10. CASE PowerLoss
  <2>1. FooterIsGood(cached')
    <3>1. cached'.footer \in {cached.footer, durable.footer, {}}
      BY <1>0, <1>10, SurvivorFacts, BlankTyped DEF PowerLoss
    <3> QED  BY <3>1 DEF FooterIsGood
  <2> QED  BY <1>10, <2>1 DEF PowerLoss, FooterIsGood
<1>11. CASE UNCHANGED vars
  BY <1>11 DEF vars, BodyOf, FooterIsGood
<1> QED  BY <1>1, <1>2, <1>3, <1>4, <1>5, <1>6, <1>7, <1>8, <1>9, <1>10, <1>11
         DEF Next

LEMMA SealInvariance == Spec => [](IInv /\ SealInv)
<1>1. Init => SealInv
  BY DEF Init, SealInv, Writing, Finalizing, FooterIsGood, Blank
<1> QED  BY <1>1, SealStep, Invariance, PTL DEF Spec

\* verify() refuses every file that is not sealed, its header patched or its index torn,
\* and a completed finalize leaves one that it accepts and that lasts.
THEOREM VerifiedWhole == Spec => []VerifiedIsWhole
<1>1. IInv /\ SealInv => VerifiedIsWhole
  <2> SUFFICES ASSUME IInv, SealInv PROVE VerifiedIsWhole
    OBVIOUS
  <2> USE DEF Writing, Finalizing
  <2>0. cached \in File /\ IndexIsGood(cached)
    BY DEF IInv, TypeOK
  <2>1. ASSUME cached.footer = {BodyOf(cached)}
        PROVE  cached.meta = "whole" /\ Complete(cached) /\ ~Damaged(cached)
    <3>1. cached.meta = "whole" /\ Complete(cached)
      BY <2>1 DEF SealInv, FooterIsGood, BodyOf, Complete
    <3> QED  BY <2>0, <3>1, Undamaged
  <2>2. ASSUME Verify(cached)
        PROVE  /\ cached.meta = "whole" /\ ~Damaged(cached)
               /\ phase \notin Writing \ {"sealed"}
               /\ phase \in {"sealed", "raised", "final"} => cached.index = index
    <3>1. cached.footer = {BodyOf(cached)}
      BY <2>2 DEF Verify
    <3> QED  BY <2>1, <3>1 DEF SealInv
  <2>3. ASSUME phase = "final" PROVE Verify(cached) /\ durable = cached
    <3>1. /\ cached.header /\ cached.footer = {BodyOf(cached)} /\ durable = cached
          /\ cached.meta = "whole"
      BY <2>3 DEF SealInv
    <3>2. \A i \in DOMAIN cached.index : ChecksumOK(cached, cached.index[i])
      BY <2>0, <2>1, <3>1 DEF IndexIsGood, Complete, ChecksumOK
    <3> QED  BY <3>1, <3>2 DEF Verify, Opens, ReaderIndex
  <2> QED  BY <2>2, <2>3 DEF VerifiedIsWhole
<1> QED  BY <1>1, SealInvariance, PTL

-----------------------------------------------------------------------------
(* When the power can fail.                                                 *)

\* Until finalize patches it, the header of the session's file is blank.  What is not yet
\* durable of a file is whole, and no header on the disk points to it.
WindowInv ==
  /\ phase \in {"open", "synced", "indexed", "described"} => ~cached.header
  /\ ~renewed => ~cached.header
  /\ phase \in Finalizing => ~durable.header
  /\ renewed => \/ cached = durable
                \/ ~durable.header /\ Complete(cached) /\ cached.meta # "torn"

LEMMA WindowStep == IInv /\ SealInv /\ SealInv' /\ IInv' /\ WindowInv /\ [Next]_vars => WindowInv'
<1> SUFFICES ASSUME IInv, SealInv, SealInv', IInv', WindowInv, [Next]_vars PROVE WindowInv'
  OBVIOUS
<1> USE DEF WindowInv, Finalizing
<1>0. cached \in File
  BY DEF IInv, TypeOK
<1>1. CASE Enter
  BY <1>1 DEF Enter, Blank
<1>2. ASSUME NEW t \in Tensor, WriteTensorBlock(t) PROVE WindowInv'
  BY <1>0, <1>2 DEF WriteTensorBlock, File, IInv, BlocksBeforeIndex
<1>3. CASE WriteFails
  BY <1>3 DEF WriteFails, IInv, BlocksBeforeIndex
<1>4. CASE FsyncBlocks
  BY <1>4 DEF FsyncBlocks
<1>5. CASE WriteIndex \/ WriteMetadata \/ PatchHeader \/ WriteFooter
  <2>1. /\ phase \in Finalizing /\ phase' \in Finalizing /\ durable' = durable
        /\ renewed' = renewed /\ renewed
    BY <1>5 DEF WriteIndex, WriteMetadata, PatchHeader, WriteFooter, IInv, BlocksBeforeIndex
  <2>2. Complete(cached') /\ cached'.meta # "torn"
    <3>1. cached'.index = <<>> \/ cached'.index = index'
      BY <2>1 DEF SealInv, Writing
    <3>2. \A i \in DOMAIN index' : index'[i].checksum # Zeros
      BY <2>1 DEF IInv, SessionIsGood, Writing
    <3> QED  BY <2>1, <3>1, <3>2 DEF SealInv, Complete, Writing
  <2>3. phase' \in {"synced", "indexed", "described"} => ~cached'.header
    BY <1>0, <1>5 DEF WriteIndex, WriteMetadata, PatchHeader, WriteFooter, File
  <2> QED  BY <2>1, <2>2, <2>3
<1>6. CASE FsyncAndClose
  BY <1>6 DEF FsyncAndClose, IInv, BlocksBeforeIndex
<1>7. CASE FinalizeRaises \/ Stop
  BY <1>7 DEF FinalizeRaises, Stop, Complete
<1>8. CASE PowerLoss
  BY <1>8 DEF PowerLoss
<1>9. CASE UNCHANGED vars
  BY <1>9 DEF vars, Complete
<1> QED  BY <1>1, <1>2, <1>3, <1>4, <1>5, <1>6, <1>7, <1>8, <1>9 DEF Next

LEMMA WindowInvariance == Spec => [](IInv /\ SealInv /\ WindowInv)
<1>1. Init => WindowInv
  BY DEF Init, WindowInv, Finalizing, Blank
<1> QED  BY <1>1, WindowStep, SealInvariance, PTL DEF Spec

\* What a power failure leaves outside the window, and what can be read of it.
LEMMA PowerLossFacts ==
  ASSUME IInv, WindowInv, PowerLoss
  PROVE  \/ cached' = cached \/ cached' = durable
         \/ ~cached'.header
         \/ InWindow /\ Readable(cached') \subseteq Readable(cached)
<1> USE DEF PowerLoss
<1>1. cached \in File /\ durable \in File /\ Blank \in File
  BY BlankTyped DEF IInv, TypeOK
<1>2. CASE renewed /\ cached = durable
  BY <1>1, <1>2, NothingToLose
<1>3. CASE renewed /\ cached # durable
  <2>1. /\ ~durable.header /\ Complete(cached) /\ cached.meta # "torn"
        /\ IndexIsGood(cached) /\ cached.block = durable.block
    BY <1>3 DEF WindowInv, IInv, BlocksBeforeIndex
  <2>2. cached' \in Survivors(cached, durable)
    BY <1>3
  <2>3. /\ cached' \in File /\ (cached'.header => cached.header)
        /\ DOMAIN cached'.index \subseteq DOMAIN cached.index
        /\ \A i \in DOMAIN cached'.index :
             cached'.index[i].checksum # Zeros => cached'.index[i] = cached.index[i]
        /\ cached'.block = cached.block
    BY <1>1, <2>1, <2>2, SurvivorFacts
  <2>4. Readable(cached') \subseteq Readable(cached)
    BY <1>1, <2>1, <2>3, LessIsReadable
  <2> QED  BY <2>1, <2>3, <2>4 DEF InWindow
<1>4. CASE ~renewed /\ cached' \in Survivors(cached, Blank)
  <2>1. cached'.header => cached.header
    BY <1>1, <1>4, SurvivorFacts
  <2> QED  BY <1>4, <2>1 DEF WindowInv
<1>5. CASE ~renewed /\ cached' = durable
  BY <1>5
<1> QED  BY <1>2, <1>3, <1>4, <1>5

LEMMA DamageStep ==
  ASSUME IInv, SealInv, WindowInv, IInv', SealInv', WindowInv', [Next]_vars,
         ~Damaged(cached), ~Damaged(durable), ~InWindow
  PROVE  ~Damaged(cached)' /\ ~Damaged(durable)'
<1>0. cached' \in File /\ durable' \in File /\ IndexIsGood(cached)'
  BY DEF IInv, TypeOK
<1>1. CASE Enter
  <2>1. ~cached'.header /\ durable' = durable
    BY <1>1 DEF Enter, Blank
  <2> QED  BY <1>0, <2>1, Undamaged DEF Damaged
<1>2. ASSUME NEW t \in Tensor, WriteTensorBlock(t) PROVE ~Damaged(cached)' /\ ~Damaged(durable)'
  <2>1. ~cached'.header /\ durable' = durable
    BY <1>2 DEF WriteTensorBlock, WindowInv
  <2> QED  BY <1>0, <2>1, Undamaged DEF Damaged
<1>3. CASE WriteFails \/ FsyncBlocks \/ FsyncAndClose \/ FinalizeRaises \/ Stop \/ UNCHANGED vars
  BY <1>3 DEF WriteFails, FsyncBlocks, FsyncAndClose, FinalizeRaises, Stop, vars
<1>4. CASE WriteIndex \/ WriteMetadata \/ PatchHeader \/ WriteFooter
  <2>1. phase' \in Writing /\ durable' = durable
    BY <1>4 DEF WriteIndex, WriteMetadata, PatchHeader, WriteFooter, Writing, Finalizing
  <2>2. Complete(cached') /\ cached'.meta # "torn"
    <3>1. cached'.index = <<>> \/ cached'.index = index'
      BY <2>1 DEF SealInv, Writing, Finalizing
    <3>2. \A i \in DOMAIN index' : index'[i].checksum # Zeros
      BY <2>1 DEF IInv, SessionIsGood
    <3> QED  BY <2>1, <3>1, <3>2 DEF SealInv, Complete, Writing, Finalizing
  <2>3. IndexIsGood(cached')
    BY <1>0 DEF IndexIsGood
  <2>4. ~Damaged(cached')
    BY <1>0, <2>2, <2>3, Undamaged
  <2> QED  BY <2>1, <2>4
<1>5. CASE PowerLoss
  <2>1. cached' = cached \/ cached' = durable \/ ~cached'.header
    BY <1>5, PowerLossFacts
  <2>2. ~Damaged(cached')
    BY <1>0, <2>1, Undamaged
  <2>3. durable' = cached'
    BY <1>5 DEF PowerLoss
  <2> QED  BY <2>2, <2>3
<1> QED  BY <1>1, <1>2, <1>3, <1>4, <1>5 DEF Next

\* A reader meets a file it cannot open or a tensor it cannot read only after a power
\* failure between the patch of the header and the last fsync.
THEOREM TornInTheWindow == Spec => TornOnlyInTheWindow
<1>1. IInv /\ SealInv /\ WindowInv /\ IInv' /\ SealInv' /\ WindowInv' /\ [Next]_vars
        => [Damaged(cached)' \/ Damaged(durable)'
              => Damaged(cached) \/ Damaged(durable) \/ InWindow]_vars
  BY DamageStep
<1> QED  BY <1>1, WindowInvariance, PTL DEF Spec, TornOnlyInTheWindow

-----------------------------------------------------------------------------
(* SSDWriter implements Archive.                                           *)

Names(entries) == {entries[i].name : i \in DOMAIN entries}

\* A committed file stays; of one that is not, a power failure leaves a part of what a
\* reader got, or what was durable.
LEMMA PowerLossIsPowerFails ==
  ASSUME IInv, WindowInv, PowerLoss
  PROVE  Promise!PowerFails
<1>1. durable' = cached' /\ phase' = "stopped" /\ index' = index
  BY DEF PowerLoss
<1>2. \A f : ~f.header => Readable(f) = {}
  BY DEF Readable, TensorNames, ReaderIndex
<1>3. Readable(cached') \in {Readable(durable)} \cup SUBSET Readable(cached)
  BY <1>2, PowerLossFacts
<1>4. ASSUME Readable(cached) = Readable(durable)
      PROVE  Readable(cached') = Readable(durable)
  <2>1. CASE cached' = cached \/ cached' = durable
    BY <1>4, <2>1
  <2>2. CASE InWindow /\ Readable(cached') \subseteq Readable(cached)
    <3>1. Readable(durable) = {}
      BY <1>2, <2>2 DEF InWindow
    <3> QED  BY <1>4, <2>2, <3>1
  <2>3. CASE ~cached'.header /\ cached' # cached /\ cached' # durable
    <3>1. ~cached.header \/ ~durable.header
      <4>1. CASE ~renewed
        BY <4>1 DEF WindowInv
      <4>2. CASE renewed /\ cached # durable
        BY <4>2 DEF WindowInv
      <4>3. CASE renewed /\ cached = durable
        BY <2>3, <4>3, NothingToLose DEF PowerLoss, IInv, TypeOK
      <4> QED  BY <4>1, <4>2, <4>3
    <3> QED  BY <1>2, <1>4, <2>3, <3>1
  <2> QED  BY <2>1, <2>2, <2>3, PowerLossFacts
<1> QED  BY <1>1, <1>3, <1>4 DEF Promise!PowerFails, Writing, Finalizing

\* Every step of the writer is a step of the archive, or none that its users see.
LEMMA StepIsArchiveStep ==
  ASSUME IInv, SealInv, WindowInv, IInv', SealInv', WindowInv', [Next]_vars
  PROVE  Promise!ArchiveNext \/ UNCHANGED Promise!archiveVars
<1> DEFINE staged == Names(index)
<1>0. /\ \A f : ~f.header => Readable(f) = {}
      /\ cached \in File /\ cached' \in File
  BY DEF Readable, TensorNames, ReaderIndex, IInv, TypeOK
<1>1. CASE Enter
  <2>1. Readable(cached') = {} /\ staged' = {}
    BY <1>0, <1>1 DEF Enter, Blank, Names
  <2>2. Promise!Begin
    BY <1>1, <2>1 DEF Enter, Promise!Begin, Writing, Names
  <2> QED  BY <2>2 DEF Promise!ArchiveNext
<1>2. ASSUME NEW t \in Tensor, WriteTensorBlock(t) PROVE Promise!Stage(t)
  <2>1. Readable(cached) = {} /\ Readable(cached') = {}
    BY <1>0, <1>2 DEF WriteTensorBlock, WindowInv
  <2>2. staged' = staged \cup {t}
    <3> DEFINE e == [name |-> t, data_offset |-> tell + 1, checksum |-> t]
    <3>1. e \in Entry /\ index \in Seq(Entry) /\ index' = Append(index, e)
      BY <1>2 DEF WriteTensorBlock, IInv, TypeOK, Entry, Slot
    <3>2. /\ DOMAIN index' = DOMAIN index \cup {Len(index) + 1}
          /\ index'[Len(index) + 1] = e
          /\ \A i \in DOMAIN index : index'[i] = index[i]
      BY <3>1
    <3>3. e.name = t
      OBVIOUS
    <3> HIDE DEF e
    <3> QED  BY <3>2, <3>3 DEF Names
  <2> QED  BY <1>2, <2>1, <2>2 DEF WriteTensorBlock, Promise!Stage, Writing, Names
<1>3. CASE WriteFails
  BY <1>3 DEF WriteFails, Promise!archiveVars
<1>4. CASE FsyncBlocks
  <2>1. Promise!Forget
    BY <1>4 DEF FsyncBlocks, Promise!Forget, Writing, Finalizing
  <2> QED  BY <2>1 DEF Promise!ArchiveNext
<1>5. CASE WriteIndex \/ WriteMetadata
  <2>1. Readable(cached') = {} /\ Readable(cached) = {}
    BY <1>0, <1>5 DEF WriteIndex, WriteMetadata, WindowInv
  <2> QED  BY <1>5, <2>1 DEF WriteIndex, WriteMetadata,
           Promise!archiveVars, Writing, Finalizing
<1>6. CASE WriteFooter
  <2>1. /\ cached'.header = cached.header /\ cached'.meta = cached.meta
        /\ cached'.index = cached.index /\ cached'.block = cached.block
    BY <1>0, <1>6 DEF WriteFooter, File
  <2>2. Readable(cached') = Readable(cached)
    BY <2>1 DEF Readable, TensorNames, ReaderIndex, Opens, GetTensor, Lookup, ChecksumOK
  <2> QED  BY <1>6, <2>2 DEF WriteFooter, Promise!archiveVars, Writing, Finalizing
<1>7. CASE PatchHeader
  <2>1. /\ phase \in Writing /\ phase' \in Writing /\ index' = index /\ durable' = durable
        /\ phase' = "headed"
    BY <1>7 DEF PatchHeader, Writing, Finalizing
  <2>2. /\ cached'.index = index /\ cached'.header /\ cached'.meta = "whole"
        /\ IndexIsGood(cached')
    BY <2>1 DEF SealInv, IInv, IndexIsGood
  <2>3. Complete(cached')
    BY <2>1, <2>2 DEF IInv, SessionIsGood, Complete
  <2>4. Readable(cached') = TensorNames(cached')
    BY <1>0, <2>2, <2>3, GoodIsReadable
  <2>5. Readable(cached') = staged
    BY <2>2, <2>4 DEF TensorNames, ReaderIndex, Opens, Names
  <2>6. Promise!Publish
    BY <2>1, <2>5 DEF Promise!Publish, Names
  <2> QED  BY <2>6 DEF Promise!ArchiveNext
<1>8. CASE FsyncAndClose
  <2>1. Promise!Commit
    BY <1>8 DEF FsyncAndClose, Promise!Commit, Writing, Finalizing
  <2> QED  BY <2>1 DEF Promise!ArchiveNext
<1>9. CASE FinalizeRaises
  BY <1>9 DEF FinalizeRaises, Promise!archiveVars, Writing
<1>10. CASE Stop
  <2>1. Promise!Stop
    BY <1>10 DEF Stop, Promise!Stop, Writing, Finalizing
  <2> QED  BY <2>1 DEF Promise!ArchiveNext
<1>11. CASE PowerLoss
  BY <1>11, PowerLossIsPowerFails DEF Promise!ArchiveNext
<1>12. CASE UNCHANGED vars
  BY <1>12 DEF vars, Promise!archiveVars
<1> QED  BY <1>1, <1>2, <1>3, <1>4, <1>5, <1>6, <1>7, <1>8, <1>9, <1>10, <1>11, <1>12
         DEF Next, Promise!ArchiveNext

\* The container is the archive the pipelines are written over, for any tensors and any
\* number of sessions, kills and power failures.
THEOREM ImplementsTheArchive == Spec => ImplementsArchive
<1>1. Init => Promise!ArchiveInit
  <2> SUFFICES ASSUME Init PROVE Promise!ArchiveInit
    OBVIOUS
  <2>1. Readable(cached) = {} /\ Readable(durable) = {}
    BY DEF Init, Blank, Readable, TensorNames, ReaderIndex
  <2> QED  BY <2>1 DEF Init, Promise!ArchiveInit, Writing, Finalizing
<1>2. IInv /\ SealInv /\ WindowInv /\ IInv' /\ SealInv' /\ WindowInv' /\ [Next]_vars
        => [Promise!ArchiveNext]_(Promise!archiveVars)
  BY StepIsArchiveStep
<1> QED  BY <1>1, <1>2, WindowInvariance, PTL
         DEF Spec, ImplementsArchive, Promise!ArchiveSpec
=============================================================================
