---------------------------- MODULE PagedKVCache ----------------------------
(***************************************************************************)
(* PagedKVCache of kv_cache/paged.py: logical pages over a pool of physical       *)
(* blocks, with a free list and a reference count per block.  Calls come from one  *)
(* thread; `defragment' moves one page per step, and no other call starts before    *)
(* it ends.  The blocks are interchangeable: which free block a call takes (the     *)
(* code takes the last one freed) is left open.  `_logical_to_physical' repeats      *)
(* the table and is never read; the counters of hits and copies are statistics.      *)
(* A block's rows are those its valid_mask marks: a caller writes at an offset no    *)
(* greater than the page's tokens, so that they are a prefix of the block.            *)
(***************************************************************************)
EXTENDS Naturals, Sequences, FiniteSets, Functions

CONSTANTS
  Block,            \* num_physical_blocks of them
  TokensPerPage,
  Row,              \* what a token's keys and values may be
  MaxPages,         \* bound: logical pages ever allocated
  MaxTokens         \* bound: no row is written once all pages together hold so many

ASSUME PagesAssumption ==
  /\ IsFiniteSet(Block)
  /\ TokensPerPage \in Nat \ {0}
  /\ MaxPages \in Nat
  /\ MaxTokens \in Nat

VARIABLES
  table,            \* page_table: logical page -> its block and number of tokens
  next,             \* _next_logical
  free,             \* _free_blocks, which never holds a block twice
  refs,             \* _physical_ref_counts
  data,             \* physical_blocks: the valid rows of each block
  moving,           \* defragment: the sparse pages its loop has not looked at
  moves             \* ... and how many more of them it may move

pagedVars == <<table, next, free, refs, data, moving, moves>>

Live == DOMAIN table
Nothing == [p \in {} |-> 0]
ReadPage(p) == data[table[p].block]

PagedInit ==
  /\ table = Nothing
  /\ next = 0
  /\ free = Block
  /\ refs = [b \in Block |-> 0]
  /\ data = [b \in Block |-> <<>>]
  /\ moving = {}
  /\ moves = 0

Idle == moving = {}

Injections(k) ==
  {f \in [1..k -> free] : \A i, j \in 1..k : f[i] = f[j] => i = j}

\* The loop that makes pages with the given rows, one block each, until the free
\* list is empty: then a MemoryError, and the pages made so far stay.
Made(rows) == IF Len(rows) <= Cardinality(free) THEN Len(rows) ELSE Cardinality(free)
NewPage(i) == next + i - 1

PagesMade(rows) ==
  LET k == Made(rows) IN
  \E at \in Injections(k) :
    /\ table' = [p \in Live \cup {NewPage(i) : i \in 1..k} |->
                   IF p \in Live THEN table[p]
                   ELSE [block |-> at[p - next + 1], tokens |-> Len(rows[p - next + 1])]]
    /\ free' = free \ {at[i] : i \in 1..k}
    /\ refs' = [b \in Block |-> IF \E i \in 1..k : at[i] = b THEN 1 ELSE refs[b]]
    /\ data' = [b \in Block |->
                  IF \E i \in 1..k : at[i] = b
                  THEN rows[CHOOSE i \in 1..k : at[i] = b] ELSE data[b]]
    /\ next' = next + k
    /\ UNCHANGED <<moving, moves>>

Blank(n) == [i \in 1..n |-> <<>>]

AllocPages(n) ==
  /\ Idle
  /\ next + n <= MaxPages
  /\ PagesMade(Blank(n))

\* Mutant: the copy takes the block of its source instead of one of its own.
CopySharesBlock(p) ==
  /\ Idle
  /\ p \in Live
  /\ next < MaxPages
  /\ free # {}
  /\ table' = [q \in Live \cup {next} |-> IF q = next THEN table[p] ELSE table[q]]
  /\ next' = next + 1
  /\ refs' = [refs EXCEPT ![table[p].block] = @ + 1]
  /\ UNCHANGED <<free, data, moving, moves>>

CopyOnWrite(p) ==
  /\ Idle
  /\ p \in Live
  /\ next < MaxPages
  /\ PagesMade(<<ReadPage(p)>>)

\* Mutant: the rows are not cut to the page.
FittingAll(count, offset) == count

\* write_page: rows from an offset on, as many as the page has room for.
Fitting(count, offset) ==
  IF count <= TokensPerPage - offset THEN count ELSE TokensPerPage - offset

WritePage(p, rows, offset) ==
  LET info == table[p]
      old == ReadPage(p)
      n == Fitting(Len(rows), offset)
      end == offset + n
  IN
  /\ Idle
  /\ p \in Live
  /\ offset <= info.tokens
  /\ data' = [data EXCEPT ![info.block] =
                SubSeq(old, 1, offset) \o SubSeq(rows, 1, n)
                  \o SubSeq(old, end + 1, Len(old))]
  /\ table' = [table EXCEPT ![p].tokens = IF end > @ THEN end ELSE @]
  /\ UNCHANGED <<next, free, refs, moving, moves>>

\* free_page of some pages, each with a block of its own; a page the table does not
\* know is passed over.
BlocksOf(P) == {table[p].block : p \in P}
LessOne(count) == IF count > 1 THEN count - 1 ELSE 0

PagesFreed(pages) ==
  LET gone == pages \cap Live IN
  /\ table' = [q \in Live \ gone |-> table[q]]
  /\ refs' = [b \in Block |-> IF b \in BlocksOf(gone) THEN LessOne(refs[b]) ELSE refs[b]]
  /\ free' = free \cup {b \in BlocksOf(gone) : refs[b] <= 1}
  /\ UNCHANGED <<next, data, moving, moves>>

FreePages(pages) == Idle /\ PagesFreed(pages)

\* defragment: when less than 30 % of the blocks are free, pages less than half full
\* are moved, those with the fewest tokens first and about half of them.
Sparse == {p \in Live : table[p].tokens < TokensPerPage \div 2}

Defragment ==
  /\ Idle
  /\ 10 * Cardinality(free) < 3 * Cardinality(Block)
  /\ Sparse # {}
  /\ moving' = Sparse
  /\ moves' = Cardinality(Sparse) \div 2 + 1
  /\ UNCHANGED <<table, next, free, refs, data>>

\* Mutant: the old block is not released.
MoveKeepsOld(p, b) ==
  LET old == table[p].block IN
  /\ data' = [data EXCEPT ![b] = SubSeq(data[old], 1, table[p].tokens)]
  /\ refs' = [refs EXCEPT ![b] = 1]
  /\ free' = free \ {b}
  /\ table' = [table EXCEPT ![p].block = b]

MoveTo(p, b) ==
  LET old == table[p].block IN
  /\ data' = [data EXCEPT ![b] = SubSeq(data[old], 1, table[p].tokens)]
  /\ refs' = [refs EXCEPT ![old] = LessOne(@), ![b] = 1]
  /\ free' = (free \ {b}) \cup (IF refs[old] <= 1 THEN {old} ELSE {})
  /\ table' = [table EXCEPT ![p].block = b]

MovePage ==
  /\ ~Idle /\ moves > 0 /\ free # {}
  /\ \E p \in moving, b \in free :
       /\ \A q \in moving : table[p].tokens <= table[q].tokens
       /\ MoveTo(p, b)
       /\ moving' = moving \ {p}
       /\ moves' = IF moving = {p} THEN 0 ELSE moves - 1
       /\ UNCHANGED next

MovesOver ==
  /\ ~Idle /\ (moves = 0 \/ free = {})
  /\ moving' = {} /\ moves' = 0
  /\ UNCHANGED <<table, next, free, refs, data>>

Clear ==
  /\ Idle
  /\ table' = Nothing
  /\ next' = 0
  /\ free' = Block
  /\ refs' = [b \in Block |-> 0]
  /\ data' = [b \in Block |-> <<>>]
  /\ UNCHANGED <<moving, moves>>

TokensHeld == FoldFunction(+, 0, [p \in Live |-> table[p].tokens])

PagedNext ==
  \/ \E n \in 1..2 : AllocPages(n)
  \/ \E p \in Live : CopyOnWrite(p)
  \/ \E p \in Live, r \in Row, n \in 1..TokensPerPage, offset \in 0..TokensPerPage :
       /\ TokensHeld < MaxTokens
       /\ WritePage(p, [i \in 1..n |-> r], offset)
  \/ \E p \in Live : FreePages({p})
  \/ Defragment \/ MovePage \/ MovesOver
  \/ Clear

PagedSpec == PagedInit /\ [][PagedNext]_pagedVars

-----------------------------------------------------------------------------
PagedTypeOK ==
  /\ next \in Nat
  /\ Live \subseteq 0..(next - 1)
  /\ table \in [Live -> [block : Block, tokens : 0..TokensPerPage]]
  /\ free \subseteq Block
  /\ refs \in [Block -> Nat]
  /\ data \in [Block -> Seq(Row)]
  /\ moving \subseteq Live
  /\ moves \in Nat

\* No block is lost and none is given twice: a block is free or it is the block of
\* exactly one page, and only then is it counted, whatever a call that ran out of
\* blocks left behind and whichever page `defragment' is about to move.
BlocksConserved ==
  /\ \A p, q \in Live : table[p].block = table[q].block => p = q
  /\ Block \ free = BlocksOf(Live)
  /\ \A b \in Block : refs[b] = IF b \in free THEN 0 ELSE 1

\* Callers see a store of pages: where a page lies, and that `defragment' moves it,
\* cannot be told from what is read, and writing to a copy leaves its source alone.
PagesRead == [p \in Live |-> ReadPage(p)]
Store == INSTANCE PageStore WITH page <- PagesRead, PageSize <- TokensPerPage
IsPageStore == Store!Spec
=============================================================================
