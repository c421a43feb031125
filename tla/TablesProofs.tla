----------------------------- MODULE TablesProofs -----------------------------
(***************************************************************************)
(* Theorems about the parts that MCTables puts side by side.  PagedKVCache, for any *)
(* number of blocks, any page size and any rows: the allocator conserves its           *)
(* blocks, and it implements a store of pages.  SharedPrefixManager over it, for any     *)
(* prompts, tenants, budget and length of the list: no page is taken from under a         *)
(* prefix, and its tables agree.  ModelManager, for any models, sizes and limits.           *)
(* ServiceManager, for any number of starts, signals, watchdogs and restarts.               *)
(***************************************************************************)
EXTENDS MCTables, DataLemmas

USE PagesAssumption

\* A page has as many tokens as its block has valid rows; without this `defragment',
\* which copies the tokens, could cut off rows.
TokensAreRows == \A p \in Live : table[p].tokens = Len(ReadPage(p))

PagedIInv == PagedTypeOK /\ BlocksConserved /\ TokensAreRows

-----------------------------------------------------------------------------
\* What a call may make pages of: sequences of rows, each no longer than a page.
PageRows == {s \in Seq(Row) : Len(s) <= TokensPerPage}

LEMMA InitEstablishes == PagedInit => PagedIInv
<1> SUFFICES ASSUME PagedInit PROVE PagedIInv
  OBVIOUS
<1> USE DEF PagedInit
<1>1. Live = {}
  BY DEF Live, Nothing
<1>2. PagedTypeOK
  <2>1. table \in [Live -> [block : Block, tokens : 0..TokensPerPage]]
    BY <1>1 DEF Nothing, Live
  <2>2. data \in [Block -> Seq(Row)]
    BY EmptySeq
  <2> QED  BY <1>1, <2>1, <2>2 DEF PagedTypeOK
<1>3. BlocksConserved /\ TokensAreRows
  BY <1>1 DEF BlocksConserved, TokensAreRows, BlocksOf
<1> QED  BY <1>2, <1>3 DEF PagedIInv

LEMMA StutterPreserves == PagedIInv /\ UNCHANGED pagedVars => PagedIInv'
  BY DEF pagedVars, PagedIInv, PagedTypeOK, BlocksConserved, TokensAreRows, BlocksOf,
         Live, ReadPage

-----------------------------------------------------------------------------
(* Making pages: AllocPages and CopyOnWrite.                                 *)

\* The number of pages made is a number no greater than the number asked for.
LEMMA MadeIsNumber ==
  ASSUME PagedTypeOK, NEW rows \in Seq(PageRows)
  PROVE  Made(rows) \in 0..Len(rows)
<1>1. Cardinality(free) \in Nat
  BY FS_Subset, FS_CardinalityType DEF PagedTypeOK
<1>2. Len(rows) \in Nat
  BY LenProperties
<1> QED  BY <1>1, <1>2 DEF Made

\* The new pages and their blocks: numbers not used before, free blocks, no two alike.
LEMMA NewPages ==
  ASSUME PagedIInv, NEW rows \in Seq(PageRows), NEW at \in Injections(Made(rows)),
         NEW i \in 1..Made(rows)
  PROVE  /\ NewPage(i) \in Nat /\ NewPage(i) \notin Live /\ NewPage(i) - next + 1 = i
         /\ at[i] \in free /\ at[i] \in Block
         /\ rows[i] \in PageRows
         /\ \A p \in Live : table[p].block # at[i]
<1>1. Made(rows) \in 0..Len(rows) /\ i \in 1..Len(rows)
  BY MadeIsNumber, LenProperties DEF PagedIInv
<1>2. NewPage(i) \in Nat /\ NewPage(i) \notin Live /\ NewPage(i) - next + 1 = i
  BY <1>1 DEF NewPage, PagedIInv, PagedTypeOK
<1>3. at[i] \in free /\ at[i] \in Block
  BY <1>1 DEF Injections, PagedIInv, PagedTypeOK
<1>4. rows[i] \in PageRows
  BY <1>1, ElementOfSeq
<1>5. \A p \in Live : table[p].block # at[i]
  BY <1>3 DEF PagedIInv, BlocksConserved, BlocksOf
<1> QED  BY <1>2, <1>3, <1>4, <1>5

LEMMA PagesMadePreserves ==
  ASSUME PagedIInv, NEW rows \in Seq(PageRows), PagesMade(rows)
  PROVE  /\ PagedIInv'
         /\ Live \subseteq Live'
         /\ \A p \in Live : ReadPage(p)' = ReadPage(p)
         /\ \A p \in Live' \ Live : \E i \in 1..Len(rows) : ReadPage(p)' = rows[i]
<1> DEFINE k == Made(rows)
<1>1. k \in 0..Len(rows) /\ Len(rows) \in Nat
  BY MadeIsNumber, LenProperties DEF PagedIInv
<1>2. PICK at \in Injections(k) :
    /\ table' = [p \in Live \cup {NewPage(i) : i \in 1..k} |->
                   IF p \in Live THEN table[p]
                   ELSE [block |-> at[p - next + 1], tokens |-> Len(rows[p - next + 1])]]
    /\ free' = free \ {at[i] : i \in 1..k}
    /\ refs' = [b \in Block |-> IF \E i \in 1..k : at[i] = b THEN 1 ELSE refs[b]]
    /\ data' = [b \in Block |->
                  IF \E i \in 1..k : at[i] = b
                  THEN rows[CHOOSE i \in 1..k : at[i] = b] ELSE data[b]]
    /\ next' = next + k
    /\ UNCHANGED <<moving, moves>>
  BY DEF PagesMade
<1>new. \A i \in 1..k : /\ NewPage(i) \in Nat /\ NewPage(i) \notin Live
                        /\ NewPage(i) - next + 1 = i
                        /\ at[i] \in free /\ at[i] \in Block
                        /\ rows[i] \in PageRows
                        /\ \A p \in Live : table[p].block # at[i]
  BY NewPages
<1>inj. \A i, j \in 1..k : at[i] = at[j] => i = j
  BY <1>1 DEF Injections
<1> HIDE DEF k
<1>3. Live' = Live \cup {NewPage(i) : i \in 1..k}
  BY <1>2 DEF Live
<1>old. \A p \in Live : table'[p] = table[p]
  BY <1>2
<1>rec. \A i \in 1..k : table'[NewPage(i)] = [block |-> at[i], tokens |-> Len(rows[i])]
  BY <1>2, <1>new
<1>tab. \A i \in 1..k : /\ table'[NewPage(i)].block = at[i]
                        /\ table'[NewPage(i)].tokens = Len(rows[i])
  <2> TAKE i \in 1..k
  <2>1. table'[NewPage(i)] = [block |-> at[i], tokens |-> Len(rows[i])]
    BY <1>rec
  <2> QED  BY <2>1
<1>page. ASSUME NEW p \in Live'
         PROVE  p \in Live \/ \E i \in 1..k : p = NewPage(i)
  BY <1>3
<1>4. \A i \in 1..k : data'[at[i]] = rows[i]
  <2> TAKE i \in 1..k
  <2>1. (CHOOSE j \in 1..k : at[j] = at[i]) = i
    BY <1>inj
  <2> QED  BY <2>1, <1>2, <1>new
<1>5. \A p \in Live : data'[table[p].block] = data[table[p].block]
  BY <1>2, <1>new DEF PagedIInv, PagedTypeOK
<1>6. PagedTypeOK'
  <2>1. next' \in Nat /\ Live' \subseteq 0..(next' - 1)
    <3>1. next' = next + k /\ next \in Nat /\ k \in Nat
      BY <1>1, <1>2 DEF PagedIInv, PagedTypeOK
    <3>2. ASSUME NEW p \in Live' PROVE p \in 0..(next' - 1)
      <4>1. CASE p \in Live
        BY <4>1, <3>1 DEF PagedIInv, PagedTypeOK
      <4>2. CASE \E i \in 1..k : p = NewPage(i)
        BY <4>2, <3>1, <1>new DEF NewPage
      <4> QED  BY <4>1, <4>2, <1>page
    <3> QED  BY <3>1, <3>2
  <2>2. table' \in [Live' -> [block : Block, tokens : 0..TokensPerPage]]
    <3>1. \A i \in 1..k : Len(rows[i]) \in 0..TokensPerPage
      BY <1>new, LenProperties DEF PageRows
    <3>2. ASSUME NEW p \in Live'
          PROVE  table'[p] \in [block : Block, tokens : 0..TokensPerPage]
      <4>1. CASE p \in Live
        BY <4>1, <1>old DEF PagedIInv, PagedTypeOK
      <4>2. CASE \E i \in 1..k : p = NewPage(i)
        <5>1. PICK i \in 1..k : p = NewPage(i)
          BY <4>2
        <5>2. table'[p] = [block |-> at[i], tokens |-> Len(rows[i])]
          BY <5>1, <1>rec
        <5> QED  BY <5>2, <3>1, <1>new
      <4> QED  BY <4>1, <4>2, <1>page
    <3> QED  BY <3>2, <1>2, <1>3
  <2>3. data' \in [Block -> Seq(Row)]
    <3>1. \A b \in Block : data'[b] \in Seq(Row)
      <4> TAKE b \in Block
      <4>1. CASE \E i \in 1..k : at[i] = b
        BY <4>1, <1>4, <1>new DEF PageRows
      <4>2. CASE ~ \E i \in 1..k : at[i] = b
        BY <4>2, <1>2 DEF PagedIInv, PagedTypeOK
      <4> QED  BY <4>1, <4>2
    <3> QED  BY <3>1, <1>2
  <2>4. free' \subseteq Block /\ refs' \in [Block -> Nat]
    BY <1>2 DEF PagedIInv, PagedTypeOK
  <2>5. moving' \subseteq Live' /\ moves' \in Nat
    BY <1>2, <1>3 DEF PagedIInv, PagedTypeOK
  <2> QED  BY <2>1, <2>2, <2>3, <2>4, <2>5 DEF PagedTypeOK
<1>7. BlocksConserved'
  <2>1. ASSUME NEW p \in Live', NEW q \in Live', table'[p].block = table'[q].block
        PROVE  p = q
    <3>1. CASE p \in Live /\ q \in Live
      BY <2>1, <3>1, <1>old DEF PagedIInv, BlocksConserved
    <3>2. CASE p \in Live /\ \E i \in 1..k : q = NewPage(i)
      BY <2>1, <3>2, <1>old, <1>tab, <1>new
    <3>3. CASE q \in Live /\ \E i \in 1..k : p = NewPage(i)
      BY <2>1, <3>3, <1>old, <1>tab, <1>new
    <3>4. CASE (\E i \in 1..k : p = NewPage(i)) /\ (\E j \in 1..k : q = NewPage(j))
      BY <2>1, <3>4, <1>tab, <1>inj
    <3> QED  BY <3>1, <3>2, <3>3, <3>4, <1>page
  <2>2. Block \ free' = {table'[p].block : p \in Live'}
    <3>1. ASSUME NEW b \in Block \ free' PROVE \E p \in Live' : b = table'[p].block
      <4>1. CASE b \in free
        <5>1. PICK i \in 1..k : b = at[i]
          BY <4>1, <3>1, <1>2
        <5>2. NewPage(i) \in Live' /\ table'[NewPage(i)].block = at[i]
          BY <1>3, <1>tab
        <5> QED  BY <5>1, <5>2
      <4>2. CASE b \notin free
        BY <4>2, <3>1, <1>3, <1>old DEF PagedIInv, BlocksConserved, BlocksOf
      <4> QED  BY <4>1, <4>2
    <3>2. ASSUME NEW p \in Live' PROVE table'[p].block \in Block \ free'
      <4>1. CASE p \in Live
        BY <4>1, <1>old, <1>2 DEF PagedIInv, BlocksConserved, BlocksOf
      <4>2. CASE \E i \in 1..k : p = NewPage(i)
        BY <4>2, <1>tab, <1>new, <1>2
      <4> QED  BY <4>1, <4>2, <1>page
    <3> QED  BY <3>1, <3>2
  <2>3. \A b \in Block : refs'[b] = IF b \in free' THEN 0 ELSE 1
    BY <1>2, <1>new DEF PagedIInv, BlocksConserved
  <2> QED  BY <2>1, <2>2, <2>3 DEF BlocksConserved, BlocksOf
<1>8. \A p \in Live : ReadPage(p)' = ReadPage(p)
  BY <1>5, <1>old DEF ReadPage
<1>9. \A i \in 1..k : data'[table'[NewPage(i)].block] = rows[i]
  BY <1>4, <1>tab
<1>10. TokensAreRows'
  <2>1. ASSUME NEW p \in Live' PROVE table'[p].tokens = Len(data'[table'[p].block])
    <3>1. CASE p \in Live
      BY <3>1, <1>5, <1>old DEF PagedIInv, TokensAreRows, ReadPage
    <3>2. CASE \E i \in 1..k : p = NewPage(i)
      BY <3>2, <1>9, <1>tab
    <3> QED  BY <3>1, <3>2, <1>page
  <2> QED  BY <2>1 DEF TokensAreRows, ReadPage
<1>11. \A p \in Live' \ Live : \E i \in 1..Len(rows) : ReadPage(p)' = rows[i]
  <2> TAKE p \in Live' \ Live
  <2>1. PICK i \in 1..k : p = NewPage(i)
    BY <1>page
  <2>2. data'[table'[p].block] = rows[i]
    BY <2>1, <1>9
  <2>3. i \in 1..Len(rows)
    BY <1>1
  <2> QED  BY <2>2, <2>3 DEF ReadPage
<1> QED  BY <1>3, <1>6, <1>7, <1>8, <1>10, <1>11 DEF PagedIInv

-----------------------------------------------------------------------------
(* Writing rows into a page.                                                 *)

\* A prefix, new rows and the rest: as long as the page was, or up to the last new row.
Patched(old, rows, offset, n) ==
  SubSeq(old, 1, offset) \o SubSeq(rows, 1, n) \o SubSeq(old, offset + n + 1, Len(old))

LEMMA Overwritten ==
  ASSUME NEW old \in Seq(Row), NEW rows \in Seq(Row),
         NEW offset \in 0..Len(old), NEW n \in 0..Len(rows)
  PROVE  /\ Patched(old, rows, offset, n) \in Seq(Row)
         /\ Len(Patched(old, rows, offset, n)) =
              IF offset + n > Len(old) THEN offset + n ELSE Len(old)
<1> DEFINE a == SubSeq(old, 1, offset)
           b == SubSeq(rows, 1, n)
           c == SubSeq(old, offset + n + 1, Len(old))
<1>0. Len(old) \in Nat /\ Len(rows) \in Nat /\ offset \in Nat /\ n \in Nat
  BY LenProperties
<1>1. a \in Seq(Row) /\ Len(a) = offset
  <2>1. \A i \in 1..offset : old[i] \in Row
    BY <1>0, ElementOfSeq
  <2> QED  BY <1>0, <2>1, SubSeqProperties
<1>2. b \in Seq(Row) /\ Len(b) = n
  <2>1. \A i \in 1..n : rows[i] \in Row
    BY <1>0, ElementOfSeq
  <2> QED  BY <1>0, <2>1, SubSeqProperties
<1>3. c \in Seq(Row) /\ Len(c) = IF offset + n + 1 <= Len(old) THEN Len(old) - (offset + n)
                                 ELSE 0
  <2>1. \A i \in (offset + n + 1)..Len(old) : old[i] \in Row
    BY <1>0, ElementOfSeq
  <2>2. offset + n + 1 \in Int /\ Len(old) \in Int
    BY <1>0
  <2>3. /\ c \in Seq(Row)
        /\ Len(c) = IF offset + n + 1 <= Len(old) THEN Len(old) - (offset + n + 1) + 1 ELSE 0
    BY <2>1, <2>2, SubSeqProperties
  <2> QED  BY <1>0, <2>3
<1>4. a \o b \in Seq(Row) /\ Len(a \o b) = offset + n
  BY <1>1, <1>2, ConcatProperties
<1>5. a \o b \o c \in Seq(Row) /\ Len(a \o b \o c) = offset + n + Len(c)
  BY <1>3, <1>4, ConcatProperties
<1>6. Patched(old, rows, offset, n) = a \o b \o c
  BY DEF Patched
<1>7. offset + n + Len(c) = IF offset + n > Len(old) THEN offset + n ELSE Len(old)
  <2>1. ASSUME NEW l \in Nat, NEW e \in Nat
        PROVE  e + (IF e + 1 <= l THEN l - e ELSE 0) = IF e > l THEN e ELSE l
    OBVIOUS
  <2>2. offset + n \in Nat
    BY <1>0
  <2> QED  BY <1>0, <1>3, <2>1, <2>2
<1> HIDE DEF a, b, c
<1> QED  BY <1>5, <1>6, <1>7

LEMMA WritePreserves ==
  ASSUME PagedIInv, NEW p \in Live, NEW rows \in Seq(Row), NEW offset \in Nat,
         WritePage(p, rows, offset)
  PROVE  /\ PagedIInv'
         /\ Live' = Live
         /\ \A q \in Live \ {p} : ReadPage(q)' = ReadPage(q)
         /\ Len(ReadPage(p)) <= Len(ReadPage(p)')
         /\ Len(ReadPage(p)') <= TokensPerPage
<1> DEFINE at == table[p].block
           old == data[at]
           n == Fitting(Len(rows), offset)
           end == offset + n
           new == Patched(old, rows, offset, n)
           size == IF end > table[p].tokens THEN end ELSE table[p].tokens
<1>1. /\ offset <= table[p].tokens
      /\ data' = [data EXCEPT ![at] = new]
      /\ table' = [table EXCEPT ![p].tokens = size]
      /\ UNCHANGED <<next, free, refs, moving, moves>>
  BY DEF WritePage, ReadPage, Patched
<1>2. at \in Block /\ old \in Seq(Row) /\ table[p].tokens \in 0..TokensPerPage
  BY DEF PagedIInv, PagedTypeOK
<1>3. table[p].tokens = Len(old) /\ Len(old) \in Nat
  BY <1>2, LenProperties DEF PagedIInv, TokensAreRows, ReadPage
<1>4. n \in 0..Len(rows) /\ end <= TokensPerPage /\ offset \in 0..Len(old) /\ end \in Nat
  BY <1>1, <1>2, <1>3, LenProperties DEF Fitting
<1>5. new \in Seq(Row) /\ Len(new) = size
  <2> HIDE DEF n
  <2>1. new \in Seq(Row) /\ Len(new) = IF end > Len(old) THEN end ELSE Len(old)
    BY <1>2, <1>4, Overwritten
  <2> QED  BY <2>1, <1>3
<1>6. size \in 0..TokensPerPage /\ Len(old) <= size
  BY <1>2, <1>3, <1>4
<1> HIDE DEF new, size, at
<1>7. /\ Live' = Live
      /\ table'[p] = [table[p] EXCEPT !.tokens = size]
      /\ \A q \in Live \ {p} : table'[q] = table[q]
  BY <1>1 DEF Live, PagedIInv, PagedTypeOK
<1>8. \A q \in Live : table'[q].block = table[q].block
  BY <1>7 DEF PagedIInv, PagedTypeOK
<1>9. data'[at] = new /\ \A b \in Block \ {at} : data'[b] = data[b]
  BY <1>1, <1>2 DEF PagedIInv, PagedTypeOK
<1>10. ReadPage(p)' = new /\ \A q \in Live \ {p} : ReadPage(q)' = ReadPage(q)
  <2>1. ReadPage(p)' = new
    BY <1>8, <1>9 DEF ReadPage, at
  <2>2. ASSUME NEW q \in Live \ {p} PROVE ReadPage(q)' = ReadPage(q)
    <3>1. table[q].block \in Block /\ table[q].block # at
      BY DEF at, PagedIInv, PagedTypeOK, BlocksConserved
    <3> QED  BY <3>1, <1>7, <1>9 DEF ReadPage
  <2> QED  BY <2>1, <2>2
<1>11. PagedTypeOK'
  <2>1. table' \in [Live' -> [block : Block, tokens : 0..TokensPerPage]]
    BY <1>1, <1>6, <1>7 DEF PagedIInv, PagedTypeOK
  <2>2. data' \in [Block -> Seq(Row)]
    BY <1>1, <1>5, <1>9 DEF PagedIInv, PagedTypeOK
  <2> QED  BY <1>1, <1>7, <2>1, <2>2 DEF PagedIInv, PagedTypeOK
<1>12. BlocksConserved'
  <2>1. {table'[q].block : q \in Live'} = {table[q].block : q \in Live}
    BY <1>7, <1>8
  <2> QED  BY <1>1, <1>7, <1>8, <2>1 DEF PagedIInv, BlocksConserved, BlocksOf
<1>13. TokensAreRows'
  <2>1. table'[p].tokens = Len(ReadPage(p)')
    BY <1>5, <1>7, <1>10 DEF PagedIInv, PagedTypeOK
  <2>2. ASSUME NEW q \in Live \ {p} PROVE table'[q].tokens = Len(ReadPage(q)')
    BY <1>7, <1>10 DEF PagedIInv, TokensAreRows
  <2> QED  BY <2>1, <2>2, <1>7 DEF TokensAreRows
<1> QED  BY <1>3, <1>5, <1>6, <1>7, <1>10, <1>11, <1>12, <1>13 DEF PagedIInv, ReadPage, at

-----------------------------------------------------------------------------
(* Giving pages back, and all of them.                                       *)

LEMMA FreePreserves ==
  ASSUME PagedIInv, NEW pages, FreePages(pages)
  PROVE  PagedIInv' /\ Live' \subseteq Live /\ \A q \in Live' : ReadPage(q)' = ReadPage(q)
<1> DEFINE gone == pages \cap Live
<1>1. /\ moving = {}
      /\ table' = [q \in Live \ gone |-> table[q]]
      /\ refs' = [b \in Block |-> IF b \in BlocksOf(gone) THEN LessOne(refs[b]) ELSE refs[b]]
      /\ free' = free \cup {b \in BlocksOf(gone) : refs[b] <= 1}
      /\ UNCHANGED <<next, data, moving, moves>>
  BY DEF FreePages, PagesFreed, Idle
<1>2. Live' = Live \ gone /\ \A q \in Live \ gone : table'[q] = table[q]
  BY <1>1 DEF Live
<1> HIDE DEF gone
<1>sub. gone \subseteq Live
  BY DEF gone
<1>3. BlocksOf(gone) \subseteq Block \ free
  BY <1>sub DEF PagedIInv, BlocksConserved, BlocksOf
<1>4. \A b \in BlocksOf(gone) : refs[b] = 1 /\ refs[b] <= 1 /\ LessOne(refs[b]) = 0
  BY <1>3 DEF PagedIInv, BlocksConserved, LessOne
<1>5. free' = free \cup BlocksOf(gone)
  BY <1>1, <1>4
<1>6. \A b \in Block : refs'[b] = IF b \in free' THEN 0 ELSE 1
  BY <1>1, <1>3, <1>4, <1>5 DEF PagedIInv, BlocksConserved
<1>7. Block \ free' = {table'[q].block : q \in Live'}
  <2>1. ASSUME NEW b \in Block \ free' PROVE \E q \in Live' : b = table'[q].block
    <3>1. PICK q \in Live : b = table[q].block
      BY <2>1, <1>5 DEF PagedIInv, BlocksConserved, BlocksOf
    <3>2. q \notin gone
      BY <2>1, <3>1, <1>5 DEF BlocksOf
    <3> QED  BY <3>1, <3>2, <1>2
  <2>2. ASSUME NEW q \in Live' PROVE table'[q].block \in Block \ free'
    <3>1. q \in Live /\ q \notin gone /\ table'[q].block = table[q].block
      BY <1>2
    <3>2. table[q].block \in Block \ free
      BY <3>1 DEF PagedIInv, BlocksConserved, BlocksOf
    <3>3. table[q].block \notin BlocksOf(gone)
      BY <3>1, <1>sub DEF PagedIInv, BlocksConserved, BlocksOf
    <3> QED  BY <3>1, <3>2, <3>3, <1>5
  <2> QED  BY <2>1, <2>2
<1>8. BlocksConserved'
  <2>1. \A p, q \in Live' : table'[p].block = table'[q].block => p = q
    BY <1>2 DEF PagedIInv, BlocksConserved
  <2> QED  BY <2>1, <1>6, <1>7 DEF BlocksConserved, BlocksOf
<1>9. PagedTypeOK'
  <2>1. table' \in [Live' -> [block : Block, tokens : 0..TokensPerPage]]
    BY <1>1, <1>2 DEF PagedIInv, PagedTypeOK
  <2>2. refs' \in [Block -> Nat]
    BY <1>1, <1>6
  <2>3. free' \subseteq Block
    BY <1>3, <1>5 DEF PagedIInv, PagedTypeOK
  <2> QED  BY <1>1, <1>2, <2>1, <2>2, <2>3 DEF PagedIInv, PagedTypeOK
<1>10. \A q \in Live' : ReadPage(q)' = ReadPage(q)
  BY <1>1, <1>2 DEF ReadPage
<1>11. TokensAreRows'
  BY <1>2, <1>10 DEF PagedIInv, TokensAreRows
<1> QED  BY <1>2, <1>8, <1>9, <1>10, <1>11 DEF PagedIInv

LEMMA ClearPreserves == PagedIInv /\ Clear => PagedIInv' /\ Live' = {}
<1> SUFFICES ASSUME PagedIInv, Clear PROVE PagedIInv' /\ Live' = {}
  OBVIOUS
<1>1. /\ table' = Nothing /\ next' = 0 /\ free' = Block
      /\ refs' = [b \in Block |-> 0] /\ data' = [b \in Block |-> <<>>]
      /\ moving' = {} /\ moves' = moves
  BY DEF Clear, Idle
<1>2. Live' = {}
  BY <1>1 DEF Live, Nothing
<1>3. PagedTypeOK'
  <2>1. table' \in [Live' -> [block : Block, tokens : 0..TokensPerPage]]
    BY <1>1, <1>2 DEF Nothing
  <2>2. data' \in [Block -> Seq(Row)]
    BY <1>1, EmptySeq
  <2> QED  BY <1>1, <1>2, <2>1, <2>2 DEF PagedIInv, PagedTypeOK
<1>4. BlocksConserved' /\ TokensAreRows'
  BY <1>1, <1>2 DEF BlocksConserved, TokensAreRows, BlocksOf
<1> QED  BY <1>2, <1>3, <1>4 DEF PagedIInv

-----------------------------------------------------------------------------
(* Defragmentation: its choice of pages, its moves and its end.              *)

LEMMA DefragmentPreserves ==
  ASSUME PagedIInv, Defragment
  PROVE  PagedIInv' /\ UNCHANGED <<table, data>>
<1>1. Sparse \subseteq Live
  BY DEF Sparse
<1>2. Cardinality(Sparse) \in Nat
  <2>1. IsFiniteSet(0..(next - 1))
    BY FS_Interval DEF PagedIInv, PagedTypeOK
  <2>2. Sparse \in SUBSET (0..(next - 1))
    BY <1>1 DEF PagedIInv, PagedTypeOK
  <2> QED  BY <2>1, <2>2, FS_Subset, FS_CardinalityType
<1>3. moves' \in Nat
  <2>1. \A n \in Nat : n \div 2 + 1 \in Nat
    OBVIOUS
  <2> QED  BY <1>2, <2>1 DEF Defragment
<1>4. PagedTypeOK'
  BY <1>1, <1>3 DEF Defragment, PagedIInv, PagedTypeOK, Live
<1> QED  BY <1>4 DEF Defragment, PagedIInv, BlocksConserved, TokensAreRows, BlocksOf, Live,
                     ReadPage

LEMMA MovesOverPreserves ==
  ASSUME PagedIInv, MovesOver
  PROVE  PagedIInv' /\ UNCHANGED <<table, data>>
BY DEF MovesOver, PagedIInv, PagedTypeOK, BlocksConserved, TokensAreRows, BlocksOf, Live,
       ReadPage

LEMMA MovePreserves ==
  ASSUME PagedIInv, MovePage
  PROVE  PagedIInv' /\ Live' = Live /\ \A q \in Live : ReadPage(q)' = ReadPage(q)
<1>1. PICK p \in moving, b \in free :
        /\ MoveTo(p, b)
        /\ moving' = moving \ {p}
        /\ moves' = IF moving = {p} THEN 0 ELSE moves - 1
        /\ next' = next /\ moves > 0
  BY DEF MovePage
<1> DEFINE old == table[p].block
<1>2. p \in Live /\ b \in Block
  BY DEF PagedIInv, PagedTypeOK
<1>3. old \in Block /\ old \notin free /\ old # b /\ refs[old] = 1 /\ LessOne(refs[old]) = 0
  BY <1>2 DEF PagedIInv, PagedTypeOK, BlocksConserved, BlocksOf, LessOne
<1>4. SubSeq(data[old], 1, table[p].tokens) = data[old]
  <2>1. data[old] \in Seq(Row) /\ table[p].tokens = Len(data[old])
    BY <1>2, <1>3 DEF PagedIInv, PagedTypeOK, TokensAreRows, ReadPage
  <2> QED  BY <2>1, SubSeqFull
<1>5. /\ data' = [data EXCEPT ![b] = data[old]]
      /\ refs' = [refs EXCEPT ![old] = 0, ![b] = 1]
      /\ free' = (free \ {b}) \cup {old}
      /\ table' = [table EXCEPT ![p].block = b]
  <2>1. /\ data' = [data EXCEPT ![b] = SubSeq(data[old], 1, table[p].tokens)]
        /\ refs' = [refs EXCEPT ![old] = LessOne(refs[old]), ![b] = 1]
        /\ free' = (free \ {b}) \cup (IF refs[old] <= 1 THEN {old} ELSE {})
        /\ table' = [table EXCEPT ![p].block = b]
    BY <1>1 DEF MoveTo
  <2>2. refs[old] <= 1
    BY <1>3
  <2> QED  BY <1>3, <1>4, <2>1, <2>2
<1> HIDE DEF old
<1>6. /\ Live' = Live
      /\ table'[p] = [table[p] EXCEPT !.block = b]
      /\ \A q \in Live \ {p} : table'[q] = table[q]
  BY <1>5 DEF Live, PagedIInv, PagedTypeOK
<1>7. table'[p].block = b /\ table'[p].tokens = table[p].tokens
  BY <1>2, <1>6 DEF PagedIInv, PagedTypeOK
<1>8. data'[b] = data[old] /\ \A c \in Block \ {b} : data'[c] = data[c]
  BY <1>2, <1>5 DEF PagedIInv, PagedTypeOK
<1>9. ASSUME NEW q \in Live \ {p}
      PROVE  table[q].block \in Block /\ table[q].block \notin free \cup {old}
  BY <1>2 DEF old, PagedIInv, PagedTypeOK, BlocksConserved, BlocksOf
<1>10. ASSUME NEW q \in Live PROVE ReadPage(q)' = ReadPage(q)
  <2>1. CASE q = p
    BY <2>1, <1>7, <1>8 DEF ReadPage, old
  <2>2. CASE q # p
    BY <2>2, <1>6, <1>8, <1>9 DEF ReadPage
  <2> QED  BY <2>1, <2>2
<1>11. PagedTypeOK'
  <2>1. table' \in [Live' -> [block : Block, tokens : 0..TokensPerPage]]
    BY <1>2, <1>5, <1>6 DEF PagedIInv, PagedTypeOK
  <2>2. data' \in [Block -> Seq(Row)] /\ refs' \in [Block -> Nat]
    BY <1>2, <1>3, <1>5 DEF PagedIInv, PagedTypeOK
  <2>3. moves' \in Nat /\ moving' \subseteq Live' /\ free' \subseteq Block
    BY <1>1, <1>3, <1>5, <1>6 DEF PagedIInv, PagedTypeOK
  <2> QED  BY <1>1, <1>6, <2>1, <2>2, <2>3 DEF PagedIInv, PagedTypeOK
<1>12. BlocksConserved'
  <2>1. ASSUME NEW q \in Live', NEW r \in Live', table'[q].block = table'[r].block
        PROVE  q = r
    <3>1. CASE q = p \/ r = p
      BY <2>1, <3>1, <1>6, <1>7, <1>9
    <3>2. CASE q # p /\ r # p
      BY <2>1, <3>2, <1>6 DEF PagedIInv, BlocksConserved
    <3> QED  BY <3>1, <3>2
  <2>2. Block \ free' = {table'[q].block : q \in Live'}
    <3>1. ASSUME NEW c \in Block \ free' PROVE \E q \in Live' : c = table'[q].block
      <4>1. CASE c = b
        BY <4>1, <1>2, <1>6, <1>7
      <4>2. CASE c # b
        <5>1. c \notin free /\ c # old
          BY <3>1, <4>2, <1>5
        <5>2. PICK q \in Live : c = table[q].block
          BY <5>1 DEF PagedIInv, BlocksConserved, BlocksOf
        <5> QED  BY <5>1, <5>2, <1>6 DEF old
      <4> QED  BY <4>1, <4>2
    <3>2. ASSUME NEW q \in Live' PROVE table'[q].block \in Block \ free'
      BY <3>2, <1>2, <1>3, <1>5, <1>6, <1>7, <1>9
    <3> QED  BY <3>1, <3>2
  <2>3. \A c \in Block : refs'[c] = IF c \in free' THEN 0 ELSE 1
    BY <1>2, <1>3, <1>5 DEF PagedIInv, PagedTypeOK, BlocksConserved
  <2> QED  BY <2>1, <2>2, <2>3 DEF BlocksConserved, BlocksOf
<1>13. TokensAreRows'
  BY <1>6, <1>7, <1>10 DEF PagedIInv, TokensAreRows
<1> QED  BY <1>6, <1>10, <1>11, <1>12, <1>13 DEF PagedIInv

-----------------------------------------------------------------------------
(* Every step keeps the invariant and is a step of the page store.           *)

\* What the operations hand to the loop that makes pages are rows that fit a page.
LEMMA RowsFit ==
  ASSUME PagedIInv
  PROVE  /\ \A n \in Nat : Blank(n) \in Seq(PageRows) /\ \A i \in 1..n : Blank(n)[i] = <<>>
         /\ \A p \in Live : <<ReadPage(p)>> \in Seq(PageRows)
<1>1. <<>> \in PageRows
  BY EmptySeq DEF PageRows
<1>2. \A n \in Nat : Blank(n) \in Seq(PageRows) /\ \A i \in 1..n : Blank(n)[i] = <<>>
  BY <1>1 DEF Blank
<1>3. \A p \in Live : ReadPage(p) \in PageRows
  BY DEF PagedIInv, PagedTypeOK, TokensAreRows, ReadPage, PageRows
<1> QED  BY <1>2, <1>3

\* The pages as callers see them before and after a step, spelt out.
LEMMA Pages ==
  /\ DOMAIN PagesRead = Live /\ \A p \in Live : PagesRead[p] = ReadPage(p)
  /\ DOMAIN PagesRead' = Live' /\ \A p \in Live' : PagesRead'[p] = ReadPage(p)'
BY DEF PagesRead

LEMMA StepPreserves ==
  ASSUME PagedIInv, PagedNext
  PROVE  PagedIInv' /\ (Store!Next \/ UNCHANGED PagesRead)
<1>1. CASE \E n \in 1..2 : AllocPages(n)
  <2>1. PICK n \in 1..2 : PagesMade(Blank(n))
    BY <1>1 DEF AllocPages
  <2>2. Blank(n) \in Seq(PageRows) /\ \A i \in 1..n : Blank(n)[i] = <<>>
    BY RowsFit
  <2>3. Len(Blank(n)) = n
    BY DEF Blank
  <2>4. /\ PagedIInv' /\ Live \subseteq Live'
        /\ \A p \in Live : ReadPage(p)' = ReadPage(p)
        /\ \A p \in Live' \ Live : \E i \in 1..Len(Blank(n)) : ReadPage(p)' = Blank(n)[i]
    BY <2>1, <2>2, PagesMadePreserves
  <2>5. Store!Alloc
    BY <2>2, <2>3, <2>4, Pages DEF Store!Alloc, Store!Grow, Store!Kept
  <2> QED  BY <2>4, <2>5 DEF Store!Next
<1>2. CASE \E p \in Live : CopyOnWrite(p)
  <2>1. PICK p \in Live : PagesMade(<<ReadPage(p)>>)
    BY <1>2 DEF CopyOnWrite
  <2>2. /\ PagedIInv' /\ Live \subseteq Live'
        /\ \A q \in Live : ReadPage(q)' = ReadPage(q)
        /\ \A q \in Live' \ Live : \E i \in 1..Len(<<ReadPage(p)>>) :
             ReadPage(q)' = <<ReadPage(p)>>[i]
    BY <2>1, RowsFit, PagesMadePreserves
  <2>3. \A q \in Live' \ Live : ReadPage(q)' = ReadPage(p)
    BY <2>2
  <2>4. Store!Copy
    BY <2>2, <2>3, Pages DEF Store!Copy, Store!Grow, Store!Kept
  <2> QED  BY <2>2, <2>4 DEF Store!Next
<1>3. CASE \E p \in Live, r \in Row, n \in 1..TokensPerPage, offset \in 0..TokensPerPage :
             WritePage(p, [i \in 1..n |-> r], offset)
  <2>1. PICK p \in Live, r \in Row, n \in 1..TokensPerPage, offset \in 0..TokensPerPage :
          WritePage(p, [i \in 1..n |-> r], offset)
    BY <1>3
  <2> DEFINE rows == [i \in 1..n |-> r]
  <2>2. rows \in Seq(Row) /\ offset \in Nat /\ WritePage(p, rows, offset)
    BY <2>1
  <2> HIDE DEF rows
  <2>3. /\ PagedIInv' /\ Live' = Live
        /\ \A q \in Live \ {p} : ReadPage(q)' = ReadPage(q)
        /\ Len(ReadPage(p)) <= Len(ReadPage(p)')
        /\ Len(ReadPage(p)') <= TokensPerPage
    BY <2>2, WritePreserves
  <2>4. Store!Write
    BY <2>3, Pages DEF Store!Write, Store!Kept
  <2> QED  BY <2>3, <2>4 DEF Store!Next
<1>4. CASE \E p \in Live : FreePages({p})
  <2>1. /\ PagedIInv' /\ Live' \subseteq Live
        /\ \A q \in Live' : ReadPage(q)' = ReadPage(q)
    BY <1>4, FreePreserves
  <2>2. Store!Free
    BY <2>1, Pages DEF Store!Free, Store!Kept
  <2> QED  BY <2>1, <2>2 DEF Store!Next
<1>5. CASE Defragment \/ MovesOver
  <2>1. PagedIInv' /\ UNCHANGED <<table, data>>
    BY <1>5, DefragmentPreserves, MovesOverPreserves
  <2> QED  BY <2>1 DEF PagesRead, ReadPage, Live
<1>6. CASE MovePage
  <2>1. PagedIInv' /\ Live' = Live /\ \A q \in Live : ReadPage(q)' = ReadPage(q)
    BY <1>6, MovePreserves
  <2>2. UNCHANGED PagesRead
    BY <2>1 DEF PagesRead
  <2> QED  BY <2>1, <2>2
<1>7. CASE Clear
  <2>1. PagedIInv' /\ Live' = {}
    BY <1>7, ClearPreserves
  <2>2. Store!Free
    BY <2>1, Pages DEF Store!Free, Store!Kept
  <2> QED  BY <2>1, <2>2 DEF Store!Next
<1> QED  BY <1>1, <1>2, <1>3, <1>4, <1>5, <1>6, <1>7 DEF PagedNext

LEMMA Invariance == PagedSpec => []PagedIInv
<1>1. PagedIInv /\ [PagedNext]_pagedVars => PagedIInv'
  BY StepPreserves, StutterPreserves
<1> QED  BY <1>1, InitEstablishes, PTL DEF PagedSpec

-----------------------------------------------------------------------------
\* The tables of the paged cache are well formed, and no page is longer than a page.
THEOREM PagedTypeCorrect == PagedSpec => []PagedTypeOK
<1>1. PagedIInv => PagedTypeOK
  BY DEF PagedIInv
<1> QED  BY <1>1, Invariance, PTL

\* No block is lost and none is given to two pages, for any number of blocks and pages
\* and however allocation, copies, frees and moves of `defragment' alternate.
THEOREM BlocksAreConserved == PagedSpec => []BlocksConserved
<1>1. PagedIInv => BlocksConserved
  BY DEF PagedIInv
<1> QED  BY <1>1, Invariance, PTL

\* The paged cache is a store of pages: defragmenting and giving out blocks cannot be
\* seen from what callers read.
THEOREM ImplementsPageStore == PagedSpec => IsPageStore
<1>1. PagedInit => Store!Init
  BY DEF PagedInit, Store!Init, PagesRead, Live, Nothing
<1>2. PagedIInv /\ [PagedNext]_pagedVars => [Store!Next]_PagesRead
  <2> SUFFICES ASSUME PagedIInv, [PagedNext]_pagedVars
               PROVE  Store!Next \/ UNCHANGED PagesRead
    OBVIOUS
  <2>1. CASE PagedNext
    BY <2>1, StepPreserves
  <2>2. CASE UNCHANGED pagedVars
    BY <2>2 DEF pagedVars, PagesRead, ReadPage, Live
  <2> QED  BY <2>1, <2>2
<1> QED  BY <1>1, <1>2, Invariance, PTL DEF PagedSpec, IsPageStore, Store!Spec
-----------------------------------------------------------------------------
(* The prefix manager over the paged cache.                                  *)

\* What the manager knows of a prefix.
Shelf == [pages : Seq(Nat), owner : Tenant, tenants : SUBSET Tenant, stale : BOOLEAN]

\* A page set aside for a prefix is nobody else's.
Apart(known) ==
  \A h \in DOMAIN known :
    /\ Range(known[h].pages) \subseteq Live
    /\ Range(known[h].pages) \cap held = {}
    /\ \A g \in DOMAIN known \ {h} : Range(known[g].pages) \cap Range(known[h].pages) = {}

IndexOf(known) == [t \in Tenant |-> {h \in DOMAIN known : t \in known[h].tenants}]

\* A registration in progress has pages of its own, and nothing happens in between.
CallInv ==
  call # NoCall =>
    /\ Idle
    /\ call.hash \notin Registered
    /\ call.tenant \in Tenant
    /\ call.pages \in Seq(Nat)
    /\ Range(call.pages) \subseteq Live
    /\ Range(call.pages) \cap held = {}
    /\ \A h \in Registered : PagesOf(h) \cap Range(call.pages) = {}

\* A client's copies have numbers given out before, though it may have freed them.
ManagerIInv ==
  /\ PagedIInv
  /\ prefix \in [Registered -> Shelf]
  /\ Apart(prefix)
  /\ held \subseteq 0..(next - 1)
  /\ tenantPrefixes = IndexOf(prefix)
  /\ CallInv

LEMMA ManagerInitEstablishes == PagedInit /\ ManagerInit => ManagerIInv
<1> SUFFICES ASSUME PagedInit, ManagerInit PROVE ManagerIInv
  OBVIOUS
<1>1. PagedIInv
  BY InitEstablishes
<1>2. Registered = {} /\ prefix \in [Registered -> Shelf]
  BY DEF ManagerInit, Registered, Nothing
<1>3. Apart(prefix) /\ tenantPrefixes = IndexOf(prefix)
  BY <1>2 DEF ManagerInit, Apart, IndexOf, Registered
<1> QED  BY <1>1, <1>2, <1>3 DEF ManagerIInv, ManagerInit, CallInv

\* A step that leaves the pages where they are: of the prefixes at most who uses them
\* and how fresh they are changes.
LEMMA PagesStay ==
  ASSUME ManagerIInv, UNCHANGED <<pagedVars, held, call>>,
         Registered' = Registered, prefix' \in [Registered -> Shelf],
         \A h \in Registered : prefix'[h].pages = prefix[h].pages,
         tenantPrefixes' = IndexOf(prefix')
  PROVE  ManagerIInv'
<1>1. PagedIInv' /\ Live' = Live /\ next' = next
  BY StutterPreserves DEF ManagerIInv, pagedVars, Live
<1>2. Apart(prefix)'
  BY <1>1 DEF ManagerIInv, Apart, Registered
<1>3. CallInv'
  BY <1>1 DEF ManagerIInv, CallInv, pagedVars, Idle, NoCall, PagesOf
<1>4. tenantPrefixes' = IndexOf(prefix)'
  BY DEF IndexOf
<1> QED  BY <1>1, <1>2, <1>3, <1>4 DEF ManagerIInv

\* Prefixes are dropped with their pages; the pages of the others stay.
LEMMA DropPreserves ==
  ASSUME PagedIInv, Idle, held \subseteq 0..(next - 1),
         NEW known, known \in [DOMAIN known -> Shelf], Apart(known),
         NEW gone, gone \subseteq DOMAIN known,
         prefix' = Dropped(known, gone),
         tenantPrefixes' = WithoutTenants(IndexOf(known), known, gone),
         PagesFreed(PagesIn(known, gone)), held' = held, call' = NoCall
  PROVE  ManagerIInv'
<1>1. FreePages(PagesIn(known, gone))
  BY DEF FreePages
<1>2. PagedIInv' /\ next' = next
  BY <1>1, FreePreserves DEF PagesFreed
<1>3. Live' = Live \ PagesIn(known, gone)
  BY DEF PagesFreed, Live
<1>4. Registered' = DOMAIN known \ gone /\ \A h \in Registered' : prefix'[h] = known[h]
  BY DEF Dropped, Registered
<1>5. prefix' \in [Registered' -> Shelf]
  BY <1>4 DEF Dropped
<1>6. \A h \in Registered' : Range(known[h].pages) \cap PagesIn(known, gone) = {}
  BY <1>4 DEF Apart, PagesIn
<1>7. Apart(prefix)'
  BY <1>3, <1>4, <1>6 DEF Apart, Registered
<1>8. tenantPrefixes' = IndexOf(prefix)'
  <2>1. \A t \in Tenant : IndexOf(known)[t] \ {h \in gone : t \in known[h].tenants}
                            = {h \in Registered' : t \in prefix'[h].tenants}
    BY <1>4 DEF IndexOf
  <2> QED  BY <2>1 DEF WithoutTenants, IndexOf, Registered
<1>9. CallInv'
  BY DEF CallInv, NoCall
<1> QED  BY <1>2, <1>5, <1>7, <1>8, <1>9 DEF ManagerIInv, Registered

LEMMA ExpirePreserves ==
  ASSUME ManagerIInv, Ready, NEW gone, gone \subseteq Registered, ExpireAll(gone)
  PROVE  ManagerIInv'
BY DropPreserves DEF ManagerIInv, Ready, ExpireAll, Registered

\* The pages a call makes are new: no prefix, client or other registration has them.
LEMMA MadePages ==
  ASSUME ManagerIInv, NEW rows \in Seq(PageRows), PagesMade(rows)
  PROVE  /\ PagedIInv' /\ Live \subseteq Live' /\ next' \in Nat /\ next <= next'
         /\ moving' = moving
         /\ \A i \in 1..Made(rows) :
              /\ NewPage(i) \in Live' \ Live
              /\ NewPage(i) \notin held
              /\ NewPage(i) \in 0..(next' - 1)
<1>1. PagedIInv' /\ Live \subseteq Live'
  BY PagesMadePreserves DEF ManagerIInv
<1>2. Made(rows) \in Nat /\ next \in Nat /\ next' = next + Made(rows) /\ moving' = moving
  <2>1. Made(rows) \in 0..Len(rows) /\ Len(rows) \in Nat
    BY MadeIsNumber, LenProperties DEF ManagerIInv, PagedIInv
  <2> QED  BY <2>1 DEF ManagerIInv, PagedIInv, PagedTypeOK, PagesMade
<1>3. ASSUME NEW i \in 1..Made(rows)
      PROVE  /\ NewPage(i) \in Live' \ Live
             /\ NewPage(i) \notin held
             /\ NewPage(i) \in 0..(next' - 1)
  <2>1. NewPage(i) \in Live'
    BY DEF PagesMade, Live
  <2>2. NewPage(i) \in next..(next' - 1)
    BY <1>2 DEF NewPage
  <2> QED  BY <2>1, <2>2, <1>2 DEF ManagerIInv, PagedIInv, PagedTypeOK
<1> QED  BY <1>1, <1>2, <1>3

LEMMA RegisterKnownPreserves ==
  ASSUME ManagerIInv, NEW t \in Tenant, NEW q \in Prompt, RegisterKnown(t, q)
  PROVE  ManagerIInv'
<1> DEFINE h == q.hash
           new == [prefix[h] EXCEPT !.stale = FALSE, !.tenants = @ \cup {t}]
<1>1. h \in Registered /\ prefix[h] \in Shelf
  BY DEF RegisterKnown, ManagerIInv
<1>2. prefix' = [prefix EXCEPT ![h] = new]
  BY <1>1 DEF RegisterKnown, Touched, ManagerIInv, Shelf
<1>3. new \in Shelf /\ new.pages = prefix[h].pages /\ new.tenants = prefix[h].tenants \cup {t}
  BY <1>1 DEF Shelf
<1> HIDE DEF new
<1>4. /\ Registered' = Registered /\ prefix' \in [Registered -> Shelf]
      /\ prefix'[h] = new /\ \A g \in Registered \ {h} : prefix'[g] = prefix[g]
  BY <1>1, <1>2, <1>3 DEF ManagerIInv, Registered
<1>5. tenantPrefixes' = IndexOf(prefix')
  <2>1. tenantPrefixes' = [IndexOf(prefix) EXCEPT ![t] = @ \cup {h}]
    BY DEF RegisterKnown, ManagerIInv
  <2>2. \A u \in Tenant : tenantPrefixes'[u] = {g \in Registered : u \in prefix'[g].tenants}
    BY <1>1, <1>3, <1>4, <2>1 DEF IndexOf, Registered
  <2>3. tenantPrefixes' = [u \in Tenant |-> tenantPrefixes'[u]]
    BY <2>1 DEF IndexOf
  <2> QED  BY <2>2, <2>3, <1>4 DEF IndexOf, Registered
<1>6. \A g \in Registered : prefix'[g].pages = prefix[g].pages
  BY <1>3, <1>4
<1> QED  BY <1>4, <1>5, <1>6, PagesStay DEF RegisterKnown

LEMMA LaterNumbers ==
  ASSUME NEW m \in Nat, NEW n \in Nat, m <= n
  PROVE  0..(m - 1) \subseteq 0..(n - 1)
OBVIOUS

\* The registered pages are the new ones, or none if the blocks ran out.
LEMMA RegisterNewPreserves ==
  ASSUME ManagerIInv, NEW t \in Tenant, NEW q \in Prompt, RegisterNew(t, q)
  PROVE  ManagerIInv'
<1> DEFINE n == q.pages
           made == [i \in 1..n |-> NewPage(i)]
<1>1. n \in Nat /\ Blank(n) \in Seq(PageRows) /\ PagesMade(Blank(n))
  BY PrefixAssumption, RowsFit DEF ManagerIInv, RegisterNew, AllocPages
<1>2. /\ PagedIInv' /\ Live \subseteq Live' /\ next' \in Nat /\ next <= next'
      /\ moving' = moving
      /\ \A i \in 1..Made(Blank(n)) : /\ NewPage(i) \in Live' \ Live
                                      /\ NewPage(i) \notin held
                                      /\ NewPage(i) \in 0..(next' - 1)
  <2> HIDE DEF n
  <2> QED  BY <1>1, MadePages
<1>3. /\ call = NoCall /\ Idle /\ q.hash \notin Registered
      /\ UNCHANGED <<prefix, tenantPrefixes, held>>
      /\ \/ call' = NoCall
         \/ /\ ~(Made(Blank(n)) < n)
            /\ call' = [pages |-> made, hash |-> q.hash, tenant |-> t]
  BY DEF RegisterNew, Ready
<1>4. Apart(prefix)' /\ tenantPrefixes' = IndexOf(prefix)' /\ Registered' = Registered
  BY <1>2, <1>3 DEF ManagerIInv, Apart, IndexOf, Registered
<1>5. held' \subseteq 0..(next' - 1)
  BY <1>2, <1>3, LaterNumbers DEF ManagerIInv, PagedIInv, PagedTypeOK
<1>6. CallInv'
  <2>1. CASE call' = NoCall
    BY <2>1 DEF CallInv, NoCall
  <2>2. CASE ~(Made(Blank(n)) < n) /\ call' = [pages |-> made, hash |-> q.hash, tenant |-> t]
    <3>1. Len(Blank(n)) = n
      BY <1>1 DEF Blank
    <3>2. Made(Blank(n)) = n
      BY <1>1, <2>2, <3>1, MadeIsNumber DEF ManagerIInv, PagedIInv
    <3>3. \A i \in 1..n : /\ made[i] \in Live' \ Live /\ made[i] \notin held
                          /\ made[i] \in Nat
      BY <1>2, <3>2
    <3>4. made \in Seq(Nat) /\ Range(made) = {made[i] : i \in 1..n}
      <4>1. made \in [1..n -> Nat] /\ DOMAIN made = 1..n
        BY <3>3
      <4> HIDE DEF made, n
      <4> QED  BY <1>1, <4>1 DEF Range
    <3> HIDE DEF made
    <3>5. Range(made) \subseteq Live' \ Live /\ Range(made) \cap held = {}
      BY <3>3, <3>4
    <3>6. \A h \in Registered' : Range(prefix'[h].pages) \cap Range(made) = {}
      BY <1>3, <1>4, <3>5 DEF ManagerIInv, Apart, Registered
    <3>7. /\ call'.pages = made /\ call'.hash = q.hash /\ call'.tenant = t
      BY <2>2
    <3>8. Idle' /\ held' = held /\ q.hash \notin Registered'
      BY <1>2, <1>3, <1>4 DEF Idle
    <3> QED  BY <3>4, <3>5, <3>6, <3>7, <3>8 DEF CallInv, PagesOf
  <2> QED  BY <1>3, <2>1, <2>2
<1> QED  BY <1>2, <1>3, <1>4, <1>5, <1>6 DEF ManagerIInv

\* The new prefix joins the others with pages of its own; then some of them, whichever
\* _reduce_memory pops, are dropped.
LEMMA RecordPreserves ==
  ASSUME ManagerIInv, Record
  PROVE  ManagerIInv'
<1> DEFINE h == call.hash
           new == [pages |-> call.pages, owner |-> call.tenant,
                   tenants |-> {call.tenant}, stale |-> FALSE]
           known == [g \in Registered \cup {h} |-> IF g \in Registered THEN prefix[g] ELSE new]
           gone == Popped(known, Appended(lru, h), memory + Len(call.pages))
<1>1. /\ Idle /\ h \notin Registered /\ call.tenant \in Tenant /\ call.pages \in Seq(Nat)
      /\ Range(call.pages) \subseteq Live /\ Range(call.pages) \cap held = {}
      /\ \A g \in Registered : PagesOf(g) \cap Range(call.pages) = {}
  BY DEF Record, ManagerIInv, CallInv
<1>2. new \in Shelf /\ new.pages = call.pages /\ new.tenants = {call.tenant}
  BY <1>1 DEF Shelf
<1>3. gone \subseteq DOMAIN known
  BY DEF Popped
<1>4. /\ prefix' = Dropped(known, gone)
      /\ tenantPrefixes' =
           WithoutTenants([tenantPrefixes EXCEPT ![call.tenant] = @ \cup {h}], known, gone)
      /\ PagesFreed(PagesIn(known, gone)) /\ call' = NoCall /\ held' = held
  BY DEF Record
<1> HIDE DEF new, gone
<1>5. /\ DOMAIN known = Registered \cup {h} /\ known[h] = new
      /\ \A g \in Registered : known[g] = prefix[g]
  BY <1>1
<1>6. known \in [DOMAIN known -> Shelf]
  BY <1>2, <1>5 DEF ManagerIInv
<1> HIDE DEF known
<1>7. Apart(known)
  <2>1. ASSUME NEW g \in DOMAIN known
        PROVE  Range(known[g].pages) \subseteq Live /\ Range(known[g].pages) \cap held = {}
    BY <1>1, <1>2, <1>5 DEF ManagerIInv, Apart, Registered
  <2>2. ASSUME NEW g \in DOMAIN known, NEW f \in DOMAIN known \ {g}
        PROVE  Range(known[f].pages) \cap Range(known[g].pages) = {}
    BY <1>1, <1>2, <1>5 DEF ManagerIInv, Apart, Registered, PagesOf
  <2> QED  BY <2>1, <2>2 DEF Apart
<1>8. [tenantPrefixes EXCEPT ![call.tenant] = @ \cup {h}] = IndexOf(known)
  <2>1. tenantPrefixes = [t \in Tenant |-> {g \in Registered : t \in prefix[g].tenants}]
    BY DEF ManagerIInv, IndexOf, Registered
  <2>2. \A t \in Tenant :
          {g \in DOMAIN known : t \in known[g].tenants}
            = IF t = call.tenant THEN {g \in Registered : t \in prefix[g].tenants} \cup {h}
                                 ELSE {g \in Registered : t \in prefix[g].tenants}
    BY <1>1, <1>2, <1>5
  <2>3. [tenantPrefixes EXCEPT ![call.tenant] = @ \cup {h}]
          = [t \in Tenant |->
               IF t = call.tenant THEN {g \in Registered : t \in prefix[g].tenants} \cup {h}
                                  ELSE {g \in Registered : t \in prefix[g].tenants}]
    BY <1>1, <2>1
  <2> QED  BY <2>2, <2>3 DEF IndexOf
<1> QED  BY <1>1, <1>3, <1>4, <1>6, <1>7, <1>8, DropPreserves DEF ManagerIInv

LEMMA GetPagesPreserves ==
  ASSUME ManagerIInv, NEW h \in Registered, GetPrefixPages(h)
  PROVE  ManagerIInv'
<1> DEFINE rows == [i \in DOMAIN prefix[h].pages |-> ReadPage(prefix[h].pages[i])]
<1>1. rows \in Seq(PageRows) /\ DOMAIN rows = 1..Len(rows) /\ Len(rows) \in Nat
  <2>1. prefix[h].pages \in Seq(Nat)
    BY DEF ManagerIInv, Shelf
  <2>2. DOMAIN prefix[h].pages = 1..Len(prefix[h].pages) /\ Len(prefix[h].pages) \in Nat
    BY <2>1, LenProperties
  <2>3. \A i \in DOMAIN prefix[h].pages : ReadPage(prefix[h].pages[i]) \in PageRows
    <3>1. \A p \in Live : ReadPage(p) \in PageRows
      BY DEF ManagerIInv, PagedIInv, PagedTypeOK, TokensAreRows, ReadPage, PageRows
    <3>2. \A i \in DOMAIN prefix[h].pages : prefix[h].pages[i] \in Live
      BY DEF ManagerIInv, Apart, Range, Registered
    <3> QED  BY <3>1, <3>2
  <2> QED  BY <2>2, <2>3
<1>2. /\ PagesMade(rows)
      /\ held' = held \cup (IF Made(rows) < Len(rows) THEN {}
                            ELSE {NewPage(i) : i \in DOMAIN rows})
      /\ UNCHANGED <<prefix, tenantPrefixes, call>>
      /\ call = NoCall
  BY DEF GetPrefixPages, Ready
<1> HIDE DEF rows
<1>3. /\ PagedIInv' /\ Live \subseteq Live' /\ next' \in Nat /\ next <= next'
      /\ \A i \in 1..Made(rows) : NewPage(i) \in Live' \ Live /\ NewPage(i) \in 0..(next' - 1)
  BY <1>1, <1>2, MadePages
<1>4. \A p \in held' \ held : p \in Live' \ Live /\ p \in 0..(next' - 1)
  <2>1. Made(rows) \in 0..Len(rows)
    BY <1>1, MadeIsNumber DEF ManagerIInv, PagedIInv
  <2> QED  BY <1>1, <1>2, <1>3, <2>1
<1>5. held' \subseteq 0..(next' - 1)
  <2>1. held \subseteq 0..(next' - 1)
    BY <1>3, LaterNumbers DEF ManagerIInv, PagedIInv, PagedTypeOK
  <2> QED  BY <1>4, <2>1
<1>6. Apart(prefix)' /\ Registered' = Registered /\ tenantPrefixes' = IndexOf(prefix)'
  BY <1>2, <1>3, <1>4 DEF ManagerIInv, Apart, IndexOf, Registered
<1> QED  BY <1>2, <1>3, <1>5, <1>6 DEF ManagerIInv, CallInv

LEMMA ClientFreesPreserves ==
  ASSUME ManagerIInv, NEW p \in held, ClientFrees(p)
  PROVE  ManagerIInv'
<1>1. /\ FreePages({p}) /\ held' = held \ {p} /\ call = NoCall
      /\ UNCHANGED <<prefix, tenantPrefixes, call>>
  BY DEF ClientFrees, Ready
<1>2. PagedIInv' /\ next' = next /\ Live' = Live \ {p}
  BY <1>1, FreePreserves DEF ManagerIInv, FreePages, PagesFreed, Live
<1>3. Apart(prefix)' /\ Registered' = Registered /\ tenantPrefixes' = IndexOf(prefix)'
  BY <1>1, <1>2 DEF ManagerIInv, Apart, IndexOf, Registered
<1> QED  BY <1>1, <1>2, <1>3 DEF ManagerIInv, CallInv

LEMMA PoolDefragmentsPreserves ==
  ASSUME ManagerIInv, PoolDefragments
  PROVE  ManagerIInv'
<1>1. PagedIInv' /\ Live' = Live
  BY DefragmentPreserves, MovePreserves, MovesOverPreserves DEF ManagerIInv, PoolDefragments, Live
<1>2. next' = next
  BY DEF PoolDefragments, Defragment, MovePage, MovesOver
<1>3. UNCHANGED managerVars /\ call = NoCall
  BY DEF PoolDefragments
<1>4. Apart(prefix)' /\ Registered' = Registered /\ tenantPrefixes' = IndexOf(prefix)'
  BY <1>1, <1>3 DEF ManagerIInv, Apart, IndexOf, Registered, managerVars
<1> QED  BY <1>1, <1>2, <1>3, <1>4 DEF ManagerIInv, CallInv, managerVars

LEMMA ManagerStepPreserves ==
  ManagerIInv /\ [ManagerNext]_<<pagedVars, managerVars>> => ManagerIInv'
<1> SUFFICES ASSUME ManagerIInv, [ManagerNext]_<<pagedVars, managerVars>> PROVE ManagerIInv'
  OBVIOUS
<1>1. ASSUME NEW t \in Tenant, NEW q \in Prompt, RegisterKnown(t, q) \/ RegisterNew(t, q)
      PROVE  ManagerIInv'
  BY <1>1, RegisterKnownPreserves, RegisterNewPreserves
<1>2. CASE Record
  BY <1>2, RecordPreserves
<1>3. ASSUME NEW h \in Registered, GetPrefixPages(h)
      PROVE  ManagerIInv'
  BY <1>3, GetPagesPreserves
<1>4. ASSUME NEW h \in Registered, LookupStale(h)
      PROVE  ManagerIInv'
  BY <1>4, ExpirePreserves DEF LookupStale
<1>5. ASSUME NEW h \in Registered, TimePasses(h)
      PROVE  ManagerIInv'
  <2> DEFINE new == [prefix[h] EXCEPT !.stale = TRUE]
  <2>1. prefix[h] \in Shelf
    BY DEF ManagerIInv
  <2>2. new \in Shelf /\ new.pages = prefix[h].pages /\ new.tenants = prefix[h].tenants
    BY <2>1 DEF Shelf
  <2>3. prefix' = [prefix EXCEPT ![h] = new]
    BY <1>5 DEF TimePasses
  <2> HIDE DEF new
  <2>4. /\ Registered' = Registered /\ prefix' \in [Registered -> Shelf]
        /\ \A g \in Registered : /\ prefix'[g].pages = prefix[g].pages
                                 /\ prefix'[g].tenants = prefix[g].tenants
    BY <2>2, <2>3 DEF ManagerIInv, Registered
  <2>5. tenantPrefixes' = IndexOf(prefix')
    BY <1>5, <2>4 DEF TimePasses, ManagerIInv, IndexOf, Registered
  <2> QED  BY <1>5, <2>4, <2>5, PagesStay DEF TimePasses
<1>6. CASE CleanupExpired
  <2>1. Stale \subseteq Registered
    BY DEF Stale
  <2> QED  BY <1>6, <2>1, ExpirePreserves DEF CleanupExpired
<1>7. ASSUME NEW t \in Tenant, ExpireTenant(t)
      PROVE  ManagerIInv'
  <2>1. tenantPrefixes[t] \cap Registered \subseteq Registered
    OBVIOUS
  <2> QED  BY <1>7, <2>1, ExpirePreserves DEF ExpireTenant
<1>8. CASE ClearPrefixes
  <2>1. /\ prefix' = Nothing /\ tenantPrefixes' = [t \in Tenant |-> {}]
        /\ UNCHANGED <<held, call, pagedVars>> /\ call = NoCall
    BY <1>8 DEF ClearPrefixes, Ready
  <2>2. Registered' = {} /\ prefix' \in [Registered' -> Shelf]
    BY <2>1 DEF Registered, Nothing
  <2>3. Apart(prefix)' /\ tenantPrefixes' = IndexOf(prefix)'
    BY <2>1, <2>2 DEF Apart, IndexOf, Registered
  <2>4. PagedIInv' /\ next' = next
    BY <2>1, StutterPreserves DEF ManagerIInv, pagedVars
  <2> QED  BY <2>1, <2>2, <2>3, <2>4 DEF ManagerIInv, CallInv
<1>9. ASSUME NEW p \in held, ClientFrees(p)
      PROVE  ManagerIInv'
  BY <1>9, ClientFreesPreserves
<1>10. CASE PoolDefragments
  BY <1>10, PoolDefragmentsPreserves
<1>11. CASE UNCHANGED <<pagedVars, managerVars>>
  <2>1. /\ Registered' = Registered /\ prefix' = prefix
        /\ UNCHANGED <<pagedVars, held, call, tenantPrefixes>>
    BY <1>11 DEF Registered, managerVars
  <2> QED  BY <2>1, PagesStay DEF ManagerIInv
<1> QED  BY <1>1, <1>2, <1>3, <1>4, <1>5, <1>6, <1>7, <1>8, <1>9, <1>10, <1>11
         DEF ManagerNext

LEMMA ManagerInvariance == ManagerSpec => []ManagerIInv
BY ManagerInitEstablishes, ManagerStepPreserves, PTL DEF ManagerSpec

\* A page of a registered prefix is in the table, is no client's and no other prefix's,
\* whatever registrations that run out of blocks, evictions, expirations, copies handed
\* out, clients that free them and moves of `defragment' come in between.
THEOREM PrefixPagesAreLive == ManagerSpec => []PrefixPagesLive
<1>1. ManagerIInv => PrefixPagesLive
  BY DEF ManagerIInv, Apart, PrefixPagesLive, PagesOf, Registered
<1> QED  BY <1>1, ManagerInvariance, PTL
-----------------------------------------------------------------------------
(* The manager's accounts: the bytes counted and the list.                   *)

Hashes == {q.hash : q \in Prompt}

\* The list names registered prefixes only, each once: one that is dropped leaves it.
AccountIInv ==
  /\ IsFiniteSet(Registered) /\ Registered \subseteq Hashes
  /\ BudgetKept
  /\ lru \in Seq(Hashes) /\ IsInjective(lru) /\ Range(lru) \subseteq Registered
  /\ Len(lru) <= MaxPrefixes
  /\ call # NoCall => call.hash \in Hashes

\* The bytes of some prefixes are a sum of lengths ...
LEMMA BytesAreASum ==
  ASSUME NEW known, known \in [DOMAIN known -> Shelf], NEW hs \in SUBSET DOMAIN known,
         IsFiniteSet(hs), NEW sizes, \A h \in hs : sizes[h] = Len(known[h].pages)
  PROVE  /\ Bytes(known, hs) = SumFunctionOnSet(sizes, hs) /\ Bytes(known, hs) \in Nat
         /\ \A h \in hs : sizes[h] \in Nat
<1> DEFINE own == [h \in hs |-> Len(known[h].pages)]
<1>1. DOMAIN own = hs /\ \A h \in hs : own[h] \in Nat /\ sizes[h] = own[h]
  <2>1. ASSUME NEW h \in hs
        PROVE  Len(known[h].pages) \in Nat
    <3>1. known[h] \in Shelf
      OBVIOUS
    <3>2. known[h].pages \in Seq(Nat)
      BY <3>1 DEF Shelf
    <3> QED  BY <3>2, LenProperties
  <2> QED  BY <2>1
<1>2. Bytes(known, hs) = SumFunctionOnSet(own, hs)
  BY <1>1 DEF Bytes, SumFunction
<1> HIDE DEF own
<1>3. SumFunctionOnSet(own, hs) \in Nat
  BY <1>1, SumIsNat
<1>4. SumFunctionOnSet(sizes, hs) = SumFunctionOnSet(own, hs)
  <2>1. \A h \in hs : own[h] \in Int /\ sizes[h] = own[h]
    BY <1>1
  <2> QED  BY <2>1, SumOfSame
<1> QED  BY <1>1, <1>2, <1>3, <1>4

\* ... so that those of some of the prefixes and those of the others add up.
LEMMA BytesOfTheOthers ==
  ASSUME NEW known, known \in [DOMAIN known -> Shelf], IsFiniteSet(DOMAIN known),
         NEW gone \in SUBSET DOMAIN known
  PROVE  /\ Bytes(Dropped(known, gone), DOMAIN known \ gone)
              = Bytes(known, DOMAIN known) - Bytes(known, gone)
         /\ Bytes(known, gone) \in Nat /\ Bytes(known, DOMAIN known) \in Nat
         /\ Bytes(known, gone) <= Bytes(known, DOMAIN known)
<1> DEFINE all == DOMAIN known
           rest == all \ gone
           sizes == [h \in all |-> Len(known[h].pages)]
           less == Dropped(known, gone)
<1>1. /\ DOMAIN less = rest /\ rest \in SUBSET all /\ less \in [rest -> Shelf]
      /\ \A h \in rest : less[h] = known[h]
  BY DEF Dropped
<1>2. IsFiniteSet(rest) /\ IsFiniteSet(gone)
  BY <1>1, FS_Subset
<1>3. /\ \A h \in all : sizes[h] = Len(known[h].pages)
      /\ \A h \in rest : sizes[h] = Len(less[h].pages)
  BY <1>1
<1> HIDE DEF sizes, less
<1>4. /\ Bytes(known, all) = SumFunctionOnSet(sizes, all) /\ Bytes(known, all) \in Nat
      /\ \A h \in all : sizes[h] \in Nat
  BY <1>3, BytesAreASum
<1>5. Bytes(known, gone) = SumFunctionOnSet(sizes, gone) /\ Bytes(known, gone) \in Nat
  BY <1>2, <1>3, BytesAreASum
<1>6. Bytes(less, rest) = SumFunctionOnSet(sizes, rest) /\ Bytes(less, rest) \in Nat
  BY <1>1, <1>2, <1>3, BytesAreASum
<1>7. SumFunctionOnSet(sizes, all \ gone)
        = SumFunctionOnSet(sizes, all) - SumFunctionOnSet(sizes, all \cap gone)
  <2>1. \A h \in all : sizes[h] \in Int
    BY <1>4
  <2> QED  BY <2>1, SumWithout
<1>8. all \cap gone = gone
  OBVIOUS
<1>9. Bytes(less, rest) = Bytes(known, all) - Bytes(known, gone)
  BY <1>4, <1>5, <1>6, <1>7, <1>8
<1> QED  BY <1>4, <1>5, <1>6, <1>9 DEF less

\* Who uses a prefix and how fresh it is does not change its bytes.
LEMMA SameBytes ==
  ASSUME ManagerIInv, AccountIInv, prefix' \in [Registered -> Shelf],
         \A h \in Registered : prefix'[h].pages = prefix[h].pages,
         memory' = memory
  PROVE  Registered' = Registered /\ BudgetKept'
<1> DEFINE sizes == [h \in Registered |-> Len(prefix[h].pages)]
           new == prefix'
<1>1. /\ IsFiniteSet(Registered) /\ DOMAIN new = Registered /\ Registered' = Registered
      /\ new \in [DOMAIN new -> Shelf]
      /\ DOMAIN prefix = Registered /\ prefix \in [DOMAIN prefix -> Shelf]
  BY DEF AccountIInv, ManagerIInv, Registered
<1>2. \A h \in Registered : sizes[h] = Len(prefix[h].pages) /\ sizes[h] = Len(new[h].pages)
  OBVIOUS
<1> HIDE DEF sizes, new
<1>3. Bytes(new, Registered) = SumFunctionOnSet(sizes, Registered)
  BY <1>1, <1>2, BytesAreASum
<1>4. Bytes(prefix, Registered) = SumFunctionOnSet(sizes, Registered)
  <2>1. /\ prefix \in [DOMAIN prefix -> Shelf] /\ Registered \in SUBSET DOMAIN prefix
        /\ IsFiniteSet(Registered) /\ \A h \in Registered : sizes[h] = Len(prefix[h].pages)
    BY <1>1, <1>2
  <2> QED  BY <2>1, BytesAreASum
<1>5. Bytes(prefix', Registered') = Bytes(prefix, Registered)
  BY <1>1, <1>3, <1>4 DEF new
<1>6. BudgetKept
  BY DEF AccountIInv
<1> QED  BY <1>1, <1>5, <1>6 DEF BudgetKept

LEMMA ExpireAccounts ==
  ASSUME ManagerIInv, AccountIInv, NEW gone, gone \subseteq Registered, ExpireAll(gone),
         call = NoCall
  PROVE  AccountIInv'
<1>1. /\ prefix' = Dropped(prefix, gone) /\ memory' = memory - Bytes(prefix, gone)
      /\ lru' = Minus(lru, gone) /\ call' = call
  BY DEF ExpireAll
<1>2. /\ Registered' = Registered \ gone /\ IsFiniteSet(Registered)
      /\ prefix \in [Registered -> Shelf] /\ Registered \subseteq Hashes
  BY <1>1 DEF Dropped, Registered, AccountIInv, ManagerIInv
<1>3. memory = Bytes(prefix, Registered) /\ memory <= Budget /\ Budget \in Nat
  BY PrefixAssumption DEF AccountIInv, BudgetKept
<1>4. /\ Bytes(prefix', Registered') = memory - Bytes(prefix, gone)
      /\ Bytes(prefix, gone) \in Nat /\ memory \in Nat
  BY <1>1, <1>2, <1>3, BytesOfTheOthers DEF Registered
<1>5. BudgetKept'
  <2>1. memory' = Bytes(prefix', Registered')
    BY <1>1, <1>4
  <2>2. memory' <= Budget
    BY <1>1, <1>3, <1>4
  <2> QED  BY <2>1, <2>2 DEF BudgetKept
<1>6. /\ lru' \in Seq(Hashes) /\ IsInjective(lru') /\ Range(lru') \subseteq Registered'
      /\ Len(lru') <= Len(lru)
  BY <1>1, <1>2, MinusFacts DEF AccountIInv
<1>7. Len(lru') <= MaxPrefixes
  <2>1. Len(lru) <= MaxPrefixes /\ Len(lru) \in Nat /\ Len(lru') \in Nat /\ MaxPrefixes \in Nat
    BY <1>6, LenProperties, PrefixAssumption DEF AccountIInv
  <2> QED  BY <1>6, <2>1
<1>8. IsFiniteSet(Registered') /\ Registered' \subseteq Hashes
  BY <1>2, FS_Subset
<1> QED  BY <1>1, <1>5, <1>6, <1>7, <1>8 DEF AccountIInv, NoCall

\* Popping ends: at the end of the list at the latest.
LEMMA PopsUntilItFits ==
  ASSUME NEW known, NEW list \in Seq(Hashes), NEW taken
  PROVE  \E n \in 0..Len(list) :
           LET gone == Range(SubSeq(list, 1, n)) \cap DOMAIN known IN
           /\ Popped(known, list, taken) = gone
           /\ n < Len(list) => ~(taken - Bytes(known, gone) > Budget)
<1> DEFINE oldest(n) == Range(SubSeq(list, 1, n)) \cap DOMAIN known
           over(n) == taken - Bytes(known, oldest(n)) > Budget
           Halts(n) == n < Len(list) => ~over(n)
           stops == {n \in 0..Len(list) : Halts(n)}
           Chosen(n) == Halts(n) /\ \A m \in 0..(n - 1) : over(m)
           n == CHOOSE n \in 0..Len(list) : Chosen(n)
<1>1. Len(list) \in Nat
  BY LenProperties
<1>2. \E i \in 0..Len(list) : Chosen(i)
  <2>1. Len(list) \in stops /\ stops \in SUBSET Nat
    BY <1>1
  <2>2. PICK i \in stops : \A j \in stops : i <= j
    <3> HIDE DEF stops
    <3> QED  BY <2>1, LeastNumber
  <2>3. i \in 0..Len(list) /\ Halts(i)
    OBVIOUS
  <2>4. ASSUME NEW m \in 0..(i - 1)
        PROVE  over(m)
    <3>1. m \in 0..Len(list) /\ m < Len(list) /\ ~(i <= m)
      BY <1>1, <2>3
    <3>2. m \notin stops
      <4> HIDE DEF stops
      <4> QED  BY <2>2, <3>1
    <3> HIDE DEF over
    <3> QED  BY <3>1, <3>2
  <2> HIDE DEF over, Halts
  <2> QED  BY <2>3, <2>4
<1>3. n \in 0..Len(list) /\ Chosen(n)
  <2> HIDE DEF Chosen
  <2> QED  BY <1>2
<1>4. Popped(known, list, taken) = oldest(n)
  BY DEF Popped
<1> HIDE DEF n
<1> QED  BY <1>3, <1>4

\* The list gets its new member; the members it had before, all but the oldest perhaps, stay.
LEMMA ListGrows ==
  ASSUME AccountIInv, NEW h \in Hashes, h \notin Registered
  PROVE  LET list == Appended(lru, h) IN
         /\ list \in Seq(Hashes) /\ IsInjective(list) /\ Len(list) <= MaxPrefixes
         /\ Range(list) \subseteq Registered \cup {h} /\ h \in Range(list)
<1> DEFINE list == Appended(lru, h)
<1>1. /\ lru \in Seq(Hashes) /\ IsInjective(lru) /\ Range(lru) \subseteq Registered
      /\ Len(lru) <= MaxPrefixes /\ MaxPrefixes \in Nat \ {0} /\ Len(lru) \in Nat
  BY LenProperties, PrefixAssumption DEF AccountIInv
<1>2. CASE Len(lru) < MaxPrefixes
  <2>1. list = Append(lru, h) /\ h \notin Range(lru)
    BY <1>1, <1>2 DEF Appended
  <2> HIDE DEF list
  <2>2. list \in Seq(Hashes) /\ IsInjective(list) /\ Range(list) = Range(lru) \cup {h}
        /\ Len(list) = Len(lru) + 1
    BY <1>1, <2>1, AppendNew
  <2> QED  BY <1>1, <1>2, <2>2 DEF list
<1>3. CASE ~(Len(lru) < MaxPrefixes)
  <2> DEFINE back == Tail(lru)
  <2>1. lru # <<>>
    BY <1>1, <1>3
  <2>2. back = SubSeq(lru, 1 + 1, Len(lru))
    BY <1>1, <2>1, HeadTailProperties
  <2>3. /\ back \in Seq(Hashes) /\ IsInjective(back) /\ Len(back) = Len(lru) - 1
        /\ Range(back) \subseteq Range(lru)
    <3>1. PICK k \in 0..Len(lru) : k = 1
      BY <1>1, <1>3
    <3>2. back = SubSeq(lru, k + 1, Len(lru)) /\ Len(lru) - k = Len(lru) - 1
      BY <2>2, <3>1
    <3>3. /\ SubSeq(lru, k + 1, Len(lru)) \in Seq(Hashes)
          /\ IsInjective(SubSeq(lru, k + 1, Len(lru)))
          /\ Len(SubSeq(lru, k + 1, Len(lru))) = Len(lru) - k
          /\ Range(SubSeq(lru, k + 1, Len(lru))) \subseteq Range(lru)
      BY <1>1, CutInTwo
    <3> HIDE DEF back
    <3> QED  BY <3>2, <3>3
  <2>4. list = Append(back, h) /\ h \notin Range(back)
    BY <1>1, <1>3, <2>3 DEF Appended
  <2> HIDE DEF list, back
  <2>5. list \in Seq(Hashes) /\ IsInjective(list) /\ Range(list) = Range(back) \cup {h}
        /\ Len(list) = Len(back) + 1
    BY <2>3, <2>4, AppendNew
  <2>6. Len(list) <= MaxPrefixes
    BY <1>1, <2>3, <2>5
  <2> QED  BY <1>1, <2>3, <2>5, <2>6 DEF list
<1> QED  BY <1>2, <1>3

\* Either the popping stops within the budget, or it comes to the new prefix, too, and
\* then gives back at least what that one took.
LEMMA RecordAccounts ==
  ASSUME ManagerIInv, AccountIInv, Record
  PROVE  AccountIInv'
<1> DEFINE h == call.hash
           new == [pages |-> call.pages, owner |-> call.tenant,
                   tenants |-> {call.tenant}, stale |-> FALSE]
           known == [g \in Registered \cup {h} |-> IF g \in Registered THEN prefix[g] ELSE new]
           list == Appended(lru, h)
           size == Len(call.pages)
           taken == memory + size
           gone == Popped(known, list, taken)
           sizes == [g \in Registered \cup {h} |-> Len(known[g].pages)]
<1>1. /\ h \in Hashes /\ h \notin Registered /\ call.tenant \in Tenant
      /\ call.pages \in Seq(Nat) /\ size \in Nat
  BY LenProperties DEF Record, ManagerIInv, CallInv, AccountIInv
<1>2. /\ prefix' = Dropped(known, gone) /\ lru' = Minus(list, gone)
      /\ memory' = taken - Bytes(known, gone) /\ call' = NoCall
  BY DEF Record
<1>3. /\ list \in Seq(Hashes) /\ IsInjective(list) /\ Len(list) <= MaxPrefixes
      /\ Range(list) \subseteq Registered \cup {h} /\ h \in Range(list)
  BY <1>1, ListGrows
<1>4. PICK n \in 0..Len(list) :
        /\ gone = Range(SubSeq(list, 1, n)) \cap DOMAIN known
        /\ n < Len(list) => ~(taken - Bytes(known, gone) > Budget)
  <2> HIDE DEF known, list, taken, size
  <2> QED  BY <1>3, PopsUntilItFits
<1> HIDE DEF gone, list
<1>5. /\ DOMAIN known = Registered \cup {h} /\ known[h] = new /\ new.pages = call.pages
      /\ \A g \in Registered : known[g] = prefix[g]
  BY <1>1
<1>6. new \in Shelf /\ known \in [DOMAIN known -> Shelf]
  <2>1. new \in Shelf
    BY <1>1 DEF Shelf
  <2> HIDE DEF new
  <2> QED  BY <2>1 DEF ManagerIInv
<1>7. /\ IsFiniteSet(DOMAIN known) /\ DOMAIN known \subseteq Hashes /\ gone \subseteq DOMAIN known
      /\ IsFiniteSet(Registered) /\ IsFiniteSet(gone)
  <2>1. IsFiniteSet(Registered) /\ Registered \subseteq Hashes
    BY DEF AccountIInv
  <2>2. IsFiniteSet(Registered \cup {h})
    BY <2>1, FS_AddElement
  <2>3. gone \subseteq DOMAIN known
    BY <1>4
  <2> QED  BY <1>1, <1>5, <2>1, <2>2, <2>3, FS_Subset
<1>8. /\ \A g \in DOMAIN known : sizes[g] = Len(known[g].pages)
      /\ sizes[h] = size /\ \A g \in Registered : sizes[g] = Len(prefix[g].pages)
  BY <1>5
<1> HIDE DEF known, new, sizes
<1>9. /\ Bytes(known, DOMAIN known) = SumFunctionOnSet(sizes, DOMAIN known)
      /\ \A g \in DOMAIN known : sizes[g] \in Nat
  BY <1>6, <1>7, <1>8, BytesAreASum
<1>10. memory = SumFunctionOnSet(sizes, Registered) /\ memory \in Nat /\ memory <= Budget
  <2>1. prefix \in [DOMAIN prefix -> Shelf] /\ Registered \in SUBSET DOMAIN prefix
    BY DEF ManagerIInv, Registered
  <2>2. Bytes(prefix, Registered) = SumFunctionOnSet(sizes, Registered)
        /\ Bytes(prefix, Registered) \in Nat
    BY <1>7, <1>8, <2>1, BytesAreASum
  <2> QED  BY <2>2 DEF AccountIInv, BudgetKept
<1>11. Bytes(known, DOMAIN known) = taken
  <2>1. SumFunctionOnSet(sizes, Registered \cup {h})
          = sizes[h] + SumFunctionOnSet(sizes, Registered)
    <3>1. \A g \in Registered \cup {h} : sizes[g] \in Int
      BY <1>5, <1>9
    <3> QED  BY <1>1, <1>7, <3>1, SumPutIn
  <2> QED  BY <1>1, <1>5, <1>8, <1>9, <1>10, <2>1
<1>12. /\ Bytes(prefix', DOMAIN known \ gone) = taken - Bytes(known, gone)
       /\ Bytes(known, gone) \in Nat
  BY <1>2, <1>6, <1>7, <1>11, BytesOfTheOthers
<1>13. Registered' = DOMAIN known \ gone
  BY <1>2 DEF Dropped, Registered
<1>14. memory' <= Budget
  <2>1. Budget \in Nat /\ Len(list) \in Nat
    BY <1>3, LenProperties, PrefixAssumption
  <2>2. CASE n < Len(list)
    BY <1>1, <1>2, <1>4, <1>10, <1>12, <2>1, <2>2
  <2>3. CASE ~(n < Len(list))
    <3>1. n = Len(list)
      BY <2>1, <2>3
    <3>2. SubSeq(list, 1, n) = list
      BY <1>3, <3>1, SubSeqFull
    <3>3. h \in gone
      BY <1>3, <1>4, <1>5, <3>2
    <3>4. Bytes(known, gone) = SumFunctionOnSet(sizes, gone)
          /\ \A g \in gone : sizes[g] \in Nat
      BY <1>6, <1>7, <1>8, BytesAreASum
    <3>5. SumFunctionOnSet(sizes, gone) = sizes[h] + SumFunctionOnSet(sizes, gone \ {h})
      BY <1>7, <3>3, <3>4, SumTakeOut
    <3>6. SumFunctionOnSet(sizes, gone \ {h}) \in Nat
      <4>1. IsFiniteSet(gone \ {h}) /\ \A g \in gone \ {h} : sizes[g] \in Nat
        BY <1>7, <3>4, FS_Subset
      <4> QED  BY <4>1, SumIsNat
    <3>7. Bytes(known, gone) >= size
      BY <1>1, <1>8, <3>4, <3>5, <3>6
    <3> QED  BY <1>1, <1>2, <1>10, <1>12, <2>1, <3>7
  <2> QED  BY <2>2, <2>3
<1>15. BudgetKept'
  BY <1>2, <1>12, <1>13, <1>14 DEF BudgetKept
<1>16. /\ lru' \in Seq(Hashes) /\ IsInjective(lru') /\ Range(lru') \subseteq Registered'
       /\ Len(lru') <= MaxPrefixes
  <2>1. /\ lru' \in Seq(Hashes) /\ IsInjective(lru') /\ Range(lru') = Range(list) \ gone
        /\ Len(lru') <= Len(list)
    BY <1>2, <1>3, MinusFacts
  <2>2. Len(lru') \in Nat /\ Len(list) \in Nat /\ MaxPrefixes \in Nat
    BY <1>3, <2>1, LenProperties, PrefixAssumption
  <2>3. Len(lru') <= MaxPrefixes
    BY <1>3, <2>1, <2>2
  <2> QED  BY <1>3, <1>5, <1>13, <2>1, <2>3
<1>17. IsFiniteSet(Registered') /\ Registered' \subseteq Hashes
  BY <1>7, <1>13, FS_Subset
<1> QED  BY <1>2, <1>15, <1>16, <1>17 DEF AccountIInv, NoCall

LEMMA YoungerStaysListed ==
  ASSUME AccountIInv, NEW h \in Registered
  PROVE  /\ Younger(h) \in Seq(Hashes) /\ IsInjective(Younger(h))
         /\ Range(Younger(h)) \subseteq Registered /\ Len(Younger(h)) <= MaxPrefixes
<1>1. /\ lru \in Seq(Hashes) /\ IsInjective(lru) /\ Range(lru) \subseteq Registered
      /\ Len(lru) <= MaxPrefixes /\ h \in Hashes
  BY DEF AccountIInv
<1>2. CASE h \notin Range(lru)
  BY <1>1, <1>2 DEF Younger
<1>3. CASE h \in Range(lru)
  <2> DEFINE others == Minus(lru, {h})
             list == Append(others, h)
  <2>1. /\ others \in Seq(Hashes) /\ IsInjective(others)
        /\ Range(others) = Range(lru) \ {h}
    BY <1>1, MinusFacts
  <2> HIDE DEF others
  <2>2. /\ list \in Seq(Hashes) /\ IsInjective(list) /\ Range(list) = Range(others) \cup {h}
    BY <1>1, <2>1, AppendNew
  <2> HIDE DEF list
  <2>3. Range(list) = Range(lru)
    BY <1>3, <2>1, <2>2
  <2>4. Len(list) = Len(lru)
    BY <1>1, <2>2, <2>3, OnceEach
  <2>5. Younger(h) = list
    BY <1>3 DEF Younger, list, others
  <2> QED  BY <1>1, <2>2, <2>3, <2>4, <2>5
<1> QED  BY <1>2, <1>3

\* A step that keeps the prefixes' pages and the counter.
LEMMA AccountsStay ==
  ASSUME ManagerIInv, AccountIInv, ManagerIInv', Registered' = Registered,
         \A h \in Registered : prefix'[h].pages = prefix[h].pages,
         memory' = memory,
         lru' \in Seq(Hashes) /\ IsInjective(lru') /\ Range(lru') \subseteq Registered
           /\ Len(lru') <= MaxPrefixes,
         call' # NoCall => call'.hash \in Hashes
  PROVE  AccountIInv'
<1>1. prefix' \in [Registered -> Shelf]
  BY DEF ManagerIInv
<1>2. BudgetKept'
  BY <1>1, SameBytes
<1> QED  BY <1>2 DEF AccountIInv, NoCall

LEMMA AccountStart == ManagerInit => AccountIInv
<1> SUFFICES ASSUME ManagerInit PROVE AccountIInv
  OBVIOUS
<1>1. /\ Registered = {} /\ lru = <<>> /\ memory = 0 /\ call = NoCall
  BY DEF ManagerInit, Registered, Nothing
<1>2. DOMAIN lru = {} /\ lru \in Seq(Hashes) /\ Len(lru) = 0
  BY <1>1
<1>3. Range(lru) = {} /\ IsInjective(lru)
  BY <1>2 DEF Range, IsInjective
<1>4. IsFiniteSet(Registered)
  BY <1>1, FS_EmptySet
<1>5. Bytes(prefix, {}) = 0
  <2>1. DOMAIN [h \in {} |-> Len(prefix[h].pages)] = {}
    OBVIOUS
  <2> QED  BY <2>1, SumOfNothing DEF Bytes, SumFunction
<1>6. BudgetKept
  BY <1>1, <1>5, PrefixAssumption DEF BudgetKept
<1> QED  BY <1>1, <1>2, <1>3, <1>4, <1>6, PrefixAssumption DEF AccountIInv

LEMMA AccountStep ==
  ASSUME ManagerIInv, AccountIInv, ManagerIInv', [ManagerNext]_<<pagedVars, managerVars>>
  PROVE  AccountIInv'
<1>1. /\ lru \in Seq(Hashes) /\ IsInjective(lru) /\ Range(lru) \subseteq Registered
      /\ Len(lru) <= MaxPrefixes /\ (call # NoCall => call.hash \in Hashes)
  BY DEF AccountIInv
<1>2. ASSUME NEW t \in Tenant, NEW q \in Prompt, RegisterKnown(t, q)
      PROVE  AccountIInv'
  <2> DEFINE h == q.hash
             new == [prefix[h] EXCEPT !.stale = FALSE, !.tenants = @ \cup {t}]
  <2>1. h \in Registered /\ prefix[h] \in Shelf
    BY <1>2 DEF RegisterKnown, ManagerIInv
  <2>2. prefix' = [prefix EXCEPT ![h] = new] /\ new.pages = prefix[h].pages
    BY <1>2, <2>1 DEF RegisterKnown, Touched, ManagerIInv, Shelf
  <2> HIDE DEF new
  <2>3. Registered' = Registered /\ \A g \in Registered : prefix'[g].pages = prefix[g].pages
    BY <2>2 DEF Registered
  <2>4. UNCHANGED <<lru, memory, call>>
    BY <1>2 DEF RegisterKnown
  <2> QED  BY <1>1, <2>3, <2>4, AccountsStay
<1>3. ASSUME NEW t \in Tenant, NEW q \in Prompt, RegisterNew(t, q)
      PROVE  AccountIInv'
  <2>1. UNCHANGED <<prefix, lru, memory>> /\ (call' = NoCall \/ call'.hash = q.hash)
    BY <1>3 DEF RegisterNew
  <2>2. Registered' = Registered /\ q.hash \in Hashes
    BY <2>1 DEF Registered, Hashes
  <2> QED  BY <1>1, <2>1, <2>2, AccountsStay
<1>4. CASE Record
  BY <1>4, RecordAccounts
<1>5. ASSUME NEW h \in Registered, GetPrefixPages(h)
      PROVE  AccountIInv'
  <2>1. UNCHANGED <<prefix, memory, call>> /\ lru' = Younger(h)
    BY <1>5 DEF GetPrefixPages
  <2>2. Registered' = Registered
    BY <2>1 DEF Registered
  <2> QED  BY <1>1, <2>1, <2>2, AccountsStay, YoungerStaysListed
<1>6. ASSUME NEW h \in Registered, LookupStale(h)
      PROVE  AccountIInv'
  BY <1>6, ExpireAccounts DEF LookupStale, Ready
<1>7. ASSUME NEW h \in Registered, TimePasses(h)
      PROVE  AccountIInv'
  <2> DEFINE new == [prefix[h] EXCEPT !.stale = TRUE]
  <2>1. prefix[h] \in Shelf
    BY DEF ManagerIInv
  <2>2. prefix' = [prefix EXCEPT ![h] = new] /\ new.pages = prefix[h].pages
    BY <1>7, <2>1 DEF TimePasses, Shelf
  <2> HIDE DEF new
  <2>3. Registered' = Registered /\ \A g \in Registered : prefix'[g].pages = prefix[g].pages
    BY <2>2 DEF Registered
  <2>4. UNCHANGED <<lru, memory, call>>
    BY <1>7 DEF TimePasses
  <2> QED  BY <1>1, <2>3, <2>4, AccountsStay
<1>8. CASE CleanupExpired
  <2>1. Stale \subseteq Registered
    BY DEF Stale
  <2> QED  BY <1>8, <2>1, ExpireAccounts DEF CleanupExpired, Ready
<1>9. ASSUME NEW t \in Tenant, ExpireTenant(t)
      PROVE  AccountIInv'
  <2>1. tenantPrefixes[t] \cap Registered \subseteq Registered
    OBVIOUS
  <2> QED  BY <1>9, <2>1, ExpireAccounts DEF ExpireTenant, Ready
<1>10. CASE ClearPrefixes
  <2>1. /\ prefix' = Nothing /\ lru' = <<>> /\ memory' = 0 /\ call' = call /\ call = NoCall
    BY <1>10 DEF ClearPrefixes, Ready
  <2>2. /\ Registered' = {} /\ DOMAIN lru' = {} /\ lru' \in Seq(Hashes) /\ Len(lru') = 0
    BY <2>1 DEF Registered, Nothing
  <2>3. Range(lru') = {} /\ IsInjective(lru')
    BY <2>2 DEF Range, IsInjective
  <2>4. IsFiniteSet(Registered')
    BY <2>2, FS_EmptySet
  <2>5. Bytes(prefix', {}) = 0
    <3>1. DOMAIN [h \in {} |-> Len(prefix'[h].pages)] = {}
      OBVIOUS
    <3> QED  BY <3>1, SumOfNothing DEF Bytes, SumFunction
  <2>6. BudgetKept'
    BY <2>1, <2>2, <2>5, PrefixAssumption DEF BudgetKept
  <2> QED  BY <2>1, <2>2, <2>3, <2>4, <2>6, PrefixAssumption DEF AccountIInv, NoCall
<1>11. ASSUME NEW p \in held, ClientFrees(p)
      PROVE  AccountIInv'
  <2>1. UNCHANGED <<prefix, lru, memory, call>>
    BY <1>11 DEF ClientFrees
  <2>2. Registered' = Registered
    BY <2>1 DEF Registered
  <2> QED  BY <1>1, <2>1, <2>2, AccountsStay
<1>12. CASE PoolDefragments \/ UNCHANGED <<pagedVars, managerVars>>
  <2>1. UNCHANGED <<prefix, lru, memory, call>>
    BY <1>12 DEF PoolDefragments, managerVars
  <2>2. Registered' = Registered
    BY <2>1 DEF Registered
  <2> QED  BY <1>1, <2>1, <2>2, AccountsStay
<1> QED
  BY <1>2, <1>3, <1>4, <1>5, <1>6, <1>7, <1>8, <1>9, <1>10, <1>11, <1>12 DEF ManagerNext

LEMMA AccountsHold == ManagerSpec => [](ManagerIInv /\ AccountIInv)
<1>1. ManagerIInv /\ AccountIInv /\ [ManagerNext]_<<pagedVars, managerVars>>
        => (ManagerIInv /\ AccountIInv)'
  BY AccountStep, ManagerStepPreserves
<1>2. PagedInit /\ ManagerInit => ManagerIInv /\ AccountIInv
  BY AccountStart, ManagerInitEstablishes
<1> QED  BY <1>1, <1>2, PTL DEF ManagerSpec

LEMMA AccountsFollow == ManagerIInv /\ AccountIInv => ManagerTypeOK /\ TablesAgree
<1> SUFFICES ASSUME ManagerIInv, AccountIInv PROVE ManagerTypeOK /\ TablesAgree
  OBVIOUS
<1>1. TenantsAgree
  BY DEF ManagerIInv, IndexOf, TenantsAgree, Registered
<1>2. \A h \in Registered : prefix[h].pages \in Seq(Nat) /\ prefix[h].tenants \subseteq Tenant
  <2>1. \A h \in Registered : prefix[h] \in Shelf
    BY DEF ManagerIInv
  <2> QED  BY <2>1 DEF Shelf
<1>3. tenantPrefixes \in [Tenant -> SUBSET Hashes]
  BY DEF ManagerIInv, AccountIInv, IndexOf, Registered
<1>4. held \subseteq Nat
  <2>1. 0..(next - 1) \subseteq Nat
    OBVIOUS
  <2> QED  BY <2>1 DEF ManagerIInv
<1> QED  BY <1>1, <1>2, <1>3, <1>4 DEF AccountIInv, ManagerTypeOK, TablesAgree, Hashes

\* The tables beside the prefixes agree with them: the bytes counted are those of the
\* registered prefixes and within the budget, even when the list has forgotten some that it
\* can no longer evict, and the tenants' sets and the prefixes' agree.
THEOREM ManagerTablesAgree == ManagerSpec => []TablesAgree
BY AccountsHold, AccountsFollow, PTL

-----------------------------------------------------------------------------
(* The table of models, for any models, sizes and limits.                     *)

\* The order of use lists each loaded model once, and the bytes are theirs.
ModelsIInv ==
  /\ Loaded \subseteq Model
  /\ models \in [Loaded -> Size]
  /\ used \in Seq(Model) /\ IsInjective(used) /\ Range(used) = Loaded
  /\ totalBytes = SumFunctionOnSet(models, Loaded)
  /\ Len(used) <= MaxModels

LEMMA SizesAreNumbers ==
  ASSUME ModelsIInv, NEW m \in Loaded
  PROVE  models[m] \in Nat
<1>1. models[m] \in Size
  BY DEF ModelsIInv
<1> QED  BY <1>1, ModelsAssumption DEF ModelsAssumption

\* What the first n models of an order leave of it.
LEMMA SplitInTwo ==
  ASSUME NEW T, NEW s \in Seq(T), IsInjective(s), NEW n \in 0..Len(s)
  PROVE  /\ AfterFirst(s, n) \in Seq(T) /\ IsInjective(AfterFirst(s, n))
         /\ Len(AfterFirst(s, n)) = Len(s) - n
         /\ Range(AfterFirst(s, n)) = Range(s) \ ToSet(SubSeq(s, 1, n))
         /\ ToSet(SubSeq(s, 1, n)) \subseteq Range(s)
<1>1. ToSet(SubSeq(s, 1, n)) = Range(SubSeq(s, 1, n))
  BY DEF ToSet, Range
<1> QED  BY <1>1, CutInTwo DEF AfterFirst

\* _evict_if_needed makes room, and never more than there is.
LEMMA EvictedMakesRoom ==
  ASSUME NEW s \in Seq(Model), IsInjective(s), NEW bytes
  PROVE  /\ Evicted(s, bytes) \in 0..Len(s)
         /\ Len(s) - Evicted(s, bytes) < MaxModels
<1>1. Len(s) \in Nat /\ MaxModels \in Nat \ {0}
  BY LenProperties, ModelsAssumption DEF ModelsAssumption
<1>2. CASE Len(s) < MaxModels
  BY <1>1, <1>2 DEF Evicted
<1>3. CASE ~(Len(s) < MaxModels)
  <2> DEFINE enough == {i \in 1..Len(s) :
                          /\ Len(AfterFirst(s, i)) < MaxModels
                          /\ Fits(bytes - Freed(s, i), AfterFirst(s, i))}
             n == CHOOSE i \in enough : \A j \in enough : i <= j
  <2>1. Len(s) \in enough
    <3>1. Len(s) \in 1..Len(s) /\ Len(s) \in 0..Len(s)
      BY <1>1, <1>3
    <3>2. AfterFirst(s, Len(s)) \in Seq(Model) /\ Len(AfterFirst(s, Len(s))) = 0
      BY <1>1, <3>1, SplitInTwo
    <3>3. AfterFirst(s, Len(s)) = <<>>
      BY <3>2, EmptySeq
    <3> QED  BY <1>1, <3>1, <3>2, <3>3 DEF Fits
  <2>2. enough \in SUBSET Nat
    BY <1>1
  <2>3. \E i \in enough : \A j \in enough : i <= j
    <3> HIDE DEF enough
    <3> QED  BY <2>1, <2>2, LeastNumber
  <2>4. n \in enough
    <3> HIDE DEF enough
    <3> QED  BY <2>3
  <2>5. Evicted(s, bytes) = n
    BY <1>3 DEF Evicted
  <2>6. n \in 1..Len(s) /\ Len(AfterFirst(s, n)) < MaxModels
    BY <2>4
  <2> HIDE DEF n
  <2>7. n \in 0..Len(s)
    BY <1>1, <2>6
  <2>8. Len(AfterFirst(s, n)) = Len(s) - n
    BY <2>7, SplitInTwo
  <2> QED  BY <2>5, <2>6, <2>7, <2>8
<1> QED  BY <1>2, <1>3

\* What an eviction frees, and what the rest is worth.
LEMMA FreedIsTheRest ==
  ASSUME ModelsIInv, NEW s \in Seq(Model), IsInjective(s), Range(s) \subseteq Loaded,
         NEW n \in 0..Len(s)
  PROVE  /\ Freed(s, n) = SumFunctionOnSet(models, ToSet(SubSeq(s, 1, n)))
         /\ SumFunctionOnSet(models, Range(s)) - Freed(s, n)
              = SumFunctionOnSet(models, Range(AfterFirst(s, n)))
         /\ SumFunctionOnSet(models, Range(AfterFirst(s, n))) \in Int
<1> DEFINE gone == ToSet(SubSeq(s, 1, n))
<1>1. gone \subseteq Range(s) /\ Range(AfterFirst(s, n)) = Range(s) \ gone
  BY SplitInTwo
<1>2. IsFiniteSet(Range(s)) /\ IsFiniteSet(gone)
  <2> HIDE DEF gone
  <2> QED  BY <1>1, OnceEach, FS_Subset
<1>3. \A m \in Loaded : models[m] \in Int
  BY SizesAreNumbers
<1> HIDE DEF gone
<1>4. SumFunctionOnSet(Only(gone), gone) = SumFunctionOnSet(models, gone)
  <2>1. \A m \in gone : models[m] \in Int /\ Only(gone)[m] = models[m]
    BY <1>1, <1>3 DEF Only
  <2> QED  BY <1>2, <2>1, SumOfSame
<1>5. Freed(s, n) = SumFunctionOnSet(models, gone)
  <2>1. DOMAIN Only(gone) = gone
    BY DEF Only
  <2> QED  BY <1>4, <2>1 DEF Freed, Sum, SumFunction, gone
<1>6. SumFunctionOnSet(models, Range(s) \ gone)
        = SumFunctionOnSet(models, Range(s)) - SumFunctionOnSet(models, Range(s) \cap gone)
  BY <1>2, <1>3, SumWithout
<1>7. Range(s) \cap gone = gone
  BY <1>1
<1>8. SumFunctionOnSet(models, Range(s) \ gone) \in Int
  <2>1. IsFiniteSet(Range(s) \ gone) /\ \A m \in Range(s) \ gone : models[m] \in Int
    BY <1>2, <1>3, FS_Subset
  <2> QED  BY <2>1, SumIsInt
<1> QED  BY <1>1, <1>5, <1>6, <1>7, <1>8 DEF gone

LEMMA LoadOverKeeps ==
  ASSUME ModelsIInv, NEW s \in Seq(Model), IsInjective(s), Range(s) \subseteq Loaded,
         NEW m \in Model, m \notin Range(s), NEW size \in Size,
         LoadOver(s, SumFunctionOnSet(models, Range(s)), m, size)
  PROVE  ModelsIInv'
<1> DEFINE bytes == SumFunctionOnSet(models, Range(s))
           n == Evicted(s, bytes)
           left == AfterFirst(s, n)
<1>1. n \in 0..Len(s) /\ Len(s) - n < MaxModels
  BY EvictedMakesRoom
<1>2. /\ models' = [k \in ToSet(left) \cup {m} |-> IF k = m THEN size ELSE models[k]]
      /\ used' = Append(left, m)
      /\ totalBytes' = bytes - Freed(s, n) + size
  BY DEF LoadOver
<1> HIDE DEF n
<1>3. /\ left \in Seq(Model) /\ IsInjective(left) /\ Len(left) = Len(s) - n
      /\ Range(left) \subseteq Range(s)
  BY <1>1, SplitInTwo
<1>4. /\ bytes - Freed(s, n) = SumFunctionOnSet(models, Range(left))
      /\ SumFunctionOnSet(models, Range(left)) \in Int
  BY <1>1, FreedIsTheRest
<1> HIDE DEF left, bytes
<1>5. m \notin Range(left) /\ IsFiniteSet(Range(left)) /\ Len(left) \in Nat
  BY <1>3, OnceEach
<1>6. ToSet(left) = Range(left)
  BY DEF ToSet, Range
<1>7. /\ used' \in Seq(Model) /\ IsInjective(used') /\ Len(used') = Len(left) + 1
      /\ Range(used') = Range(left) \cup {m}
  BY <1>2, <1>3, <1>5, AppendNew
<1>8. models' \in [Loaded' -> Size] /\ Loaded' = Range(left) \cup {m}
  BY <1>2, <1>3, <1>6 DEF ModelsIInv, Loaded
<1>9. SumFunctionOnSet(models', Range(left) \cup {m})
         = size + SumFunctionOnSet(models, Range(left))
  <2>1. \A k \in Range(left) \cup {m} : models'[k] \in Int
    <3>1. \A k \in Range(left) \cup {m} : models'[k] \in Size
      BY <1>8
    <3>2. \A x \in Size : x \in Int
      BY ModelsAssumption DEF ModelsAssumption
    <3> QED  BY <3>1, <3>2
  <2>2. \A k \in Range(left) : models[k] \in Int /\ models'[k] = models[k]
    <3>1. ASSUME NEW k \in Range(left)
          PROVE  k \in Loaded /\ models'[k] = models[k]
      BY <1>2, <1>3, <1>5, <1>6
    <3> QED  BY <3>1, SizesAreNumbers
  <2>3. models'[m] = size
    BY <1>2
  <2>4. SumFunctionOnSet(models', Range(left) \cup {m})
          = models'[m] + SumFunctionOnSet(models', Range(left))
    BY <1>5, <2>1, SumPutIn
  <2>5. SumFunctionOnSet(models', Range(left)) = SumFunctionOnSet(models, Range(left))
    BY <1>5, <2>2, SumOfSame
  <2> QED  BY <2>3, <2>4, <2>5
<1>10. size \in Int
  BY ModelsAssumption DEF ModelsAssumption
<1>11. totalBytes' = SumFunctionOnSet(models', Loaded')
  BY <1>2, <1>4, <1>8, <1>9, <1>10
<1>12. Len(used') <= MaxModels
  <2>1. MaxModels \in Nat /\ Len(s) \in Nat
    BY ModelsAssumption, LenProperties DEF ModelsAssumption
  <2> QED  BY <1>1, <1>3, <1>7, <2>1
<1>13. Loaded' \subseteq Model
  BY <1>3, <1>8 DEF ModelsIInv
<1> QED  BY <1>7, <1>8, <1>11, <1>12, <1>13 DEF ModelsIInv

\* Some models leave, the order of the others stays.
LEMMA FewerModels ==
  ASSUME ModelsIInv, NEW gone,
         models' = Only(Loaded \ gone), used' \in Seq(Model), IsInjective(used'),
         Range(used') = Loaded \ gone,
         totalBytes' = SumFunctionOnSet(models, Loaded \ gone)
  PROVE  ModelsIInv'
<1>1. Loaded' = Loaded \ gone /\ \A m \in Loaded \ gone : models'[m] = models[m]
  BY DEF Only, Loaded
<1>2. models' \in [Loaded' -> Size] /\ Loaded' \subseteq Model
  BY <1>1 DEF ModelsIInv, Only
<1>3. IsFiniteSet(Loaded) /\ Cardinality(Loaded) <= MaxModels /\ Cardinality(Loaded) \in Nat
  BY OnceEach DEF ModelsIInv
<1>4. IsFiniteSet(Loaded \ gone) /\ Cardinality(Loaded \ gone) <= Cardinality(Loaded)
  BY <1>3, FS_Subset
<1>5. Len(used') = Cardinality(Loaded \ gone)
  BY OnceEach
<1>6. \A m \in Loaded \ gone : models[m] \in Int
  BY SizesAreNumbers
<1>7. SumFunctionOnSet(models', Loaded \ gone) = SumFunctionOnSet(models, Loaded \ gone)
  BY <1>1, <1>4, <1>6, SumOfSame
<1>8. Len(used') <= MaxModels
  <2>1. Cardinality(Loaded \ gone) \in Nat /\ MaxModels \in Nat
    BY <1>4, FS_CardinalityType, ModelsAssumption DEF ModelsAssumption
  <2> QED  BY <1>3, <1>4, <1>5, <2>1
<1> QED  BY <1>1, <1>2, <1>7, <1>8 DEF ModelsIInv

LEMMA LoadKeeps ==
  ASSUME ModelsIInv, NEW m \in Model, Load(m)
  PROVE  ModelsIInv'
<1>1. /\ m \notin Loaded /\ used \in Seq(Model) /\ IsInjective(used) /\ Range(used) = Loaded
      /\ totalBytes = SumFunctionOnSet(models, Range(used))
  BY DEF Load, ModelsIInv
<1>2. CASE \E size \in Size : LoadOver(used, totalBytes, m, size)
  BY <1>1, <1>2, LoadOverKeeps
<1>3. CASE LoadFails
  <2> DEFINE n == Evicted(used, totalBytes)
             gone == ToSet(SubSeq(used, 1, n))
  <2>1. n \in 0..Len(used)
    BY <1>1, EvictedMakesRoom
  <2>2. /\ models' = Only(ToSet(AfterFirst(used, n))) /\ used' = AfterFirst(used, n)
        /\ totalBytes' = totalBytes - Freed(used, n)
    BY <1>3 DEF LoadFails
  <2> HIDE DEF n
  <2>3. /\ used' \in Seq(Model) /\ IsInjective(used') /\ Range(used') = Loaded \ gone
    BY <1>1, <2>1, <2>2, SplitInTwo
  <2>4. ToSet(used') = Range(used')
    BY DEF ToSet, Range
  <2>5. totalBytes' = SumFunctionOnSet(models, Range(used'))
    BY <1>1, <2>1, <2>2, FreedIsTheRest
  <2> HIDE DEF gone
  <2>6. models' = Only(Loaded \ gone) /\ totalBytes' = SumFunctionOnSet(models, Loaded \ gone)
    BY <2>2, <2>3, <2>4, <2>5
  <2> QED  BY <2>3, <2>6, FewerModels
<1> QED  BY <1>2, <1>3 DEF Load

\* The order of use without one model.
LEMMA OthersInOrder ==
  ASSUME ModelsIInv, NEW m \in Loaded
  PROVE  /\ Minus(used, {m}) \in Seq(Model) /\ IsInjective(Minus(used, {m}))
         /\ Range(Minus(used, {m})) = Loaded \ {m}
         /\ totalBytes - models[m] = SumFunctionOnSet(models, Loaded \ {m})
<1>1. /\ Minus(used, {m}) \in Seq(Model) /\ IsInjective(Minus(used, {m}))
      /\ Range(Minus(used, {m})) = Loaded \ {m}
  BY MinusFacts DEF ModelsIInv
<1>2. IsFiniteSet(Loaded) /\ \A k \in Loaded : models[k] \in Int
  <2>1. IsFiniteSet(Loaded)
    BY OnceEach DEF ModelsIInv
  <2> QED  BY <2>1, SizesAreNumbers
<1>3. SumFunctionOnSet(models, Loaded) = models[m] + SumFunctionOnSet(models, Loaded \ {m})
  BY <1>2, SumTakeOut
<1>4. SumFunctionOnSet(models, Loaded \ {m}) \in Int /\ models[m] \in Int
  <2>1. IsFiniteSet(Loaded \ {m})
    BY <1>2, FS_Subset
  <2> QED  BY <1>2, <2>1, SumIsInt
<1>5. totalBytes = models[m] + SumFunctionOnSet(models, Loaded \ {m})
  BY <1>3 DEF ModelsIInv
<1>6. totalBytes - models[m] = SumFunctionOnSet(models, Loaded \ {m})
  BY <1>4, <1>5
<1> QED  BY <1>1, <1>6

LEMMA HitKeeps ==
  ASSUME ModelsIInv, NEW m \in Model, Hit(m)
  PROVE  ModelsIInv'
<1> DEFINE others == Minus(used, {m})
<1>1. m \in Loaded /\ used' = Append(others, m) /\ UNCHANGED <<models, totalBytes>>
  BY DEF Hit, Later
<1>2. others \in Seq(Model) /\ IsInjective(others) /\ Range(others) = Loaded \ {m}
  BY <1>1, OthersInOrder
<1> HIDE DEF others
<1>3. /\ IsFiniteSet(Loaded) /\ Cardinality(Loaded) = Len(used)
      /\ Len(others) = Cardinality(Loaded \ {m}) /\ Len(others) \in Nat
  BY <1>2, OnceEach DEF ModelsIInv
<1>4. /\ used' \in Seq(Model) /\ IsInjective(used') /\ Len(used') = Len(others) + 1
      /\ Range(used') = Range(others) \cup {m}
  BY <1>1, <1>2, AppendNew
<1>5. Len(used') = Len(used)
  <2>1. Cardinality(Loaded \ {m}) = Cardinality(Loaded) - 1 /\ Cardinality(Loaded) \in Nat
    BY <1>1, <1>3, FS_RemoveElement, FS_CardinalityType
  <2> QED  BY <1>3, <1>4, <2>1
<1>6. Range(used') = Loaded
  BY <1>1, <1>2, <1>4
<1>7. Loaded' = Loaded
  BY <1>1 DEF Loaded
<1> QED  BY <1>1, <1>4, <1>5, <1>6, <1>7 DEF ModelsIInv

LEMMA UnloadKeeps ==
  ASSUME ModelsIInv, NEW m \in Model, Unload(m)
  PROVE  ModelsIInv'
<1>1. /\ m \in Loaded /\ models' = Only(Loaded \ {m}) /\ used' = Minus(used, {m})
      /\ totalBytes' = totalBytes - models[m]
  BY DEF Unload
<1> QED  BY <1>1, OthersInOrder, FewerModels

LEMMA HotSwapKeeps ==
  ASSUME ModelsIInv, NEW m \in Model, HotSwap(m)
  PROVE  ModelsIInv'
<1> DEFINE others == Minus(used, {m})
           bytes == totalBytes - models[m]
           n == Evicted(others, bytes)
           gone == ToSet(SubSeq(others, 1, n))
<1>1. m \in Loaded
  BY DEF HotSwap
<1>2. /\ others \in Seq(Model) /\ IsInjective(others) /\ Range(others) = Loaded \ {m}
      /\ bytes = SumFunctionOnSet(models, Range(others))
  BY <1>1, OthersInOrder
<1>3. \/ \E size \in Size : LoadOver(others, bytes, m, size)
      \/ /\ models' = Only(Loaded \ gone)
         /\ used' = Minus(used, gone)
         /\ totalBytes' = bytes - Freed(others, n) + models[m]
  BY DEF HotSwap
<1>4. n \in 0..Len(others)
  <2> HIDE DEF others, bytes
  <2> QED  BY <1>2, EvictedMakesRoom
<1> HIDE DEF others, bytes, n
<1>5. CASE \E size \in Size : LoadOver(others, bytes, m, size)
  BY <1>2, <1>5, LoadOverKeeps
<1>6. CASE /\ models' = Only(Loaded \ gone)
           /\ used' = Minus(used, gone)
           /\ totalBytes' = bytes - Freed(others, n) + models[m]
  <2>1. gone \subseteq Loaded \ {m} /\ Range(AfterFirst(others, n)) = (Loaded \ {m}) \ gone
    BY <1>2, <1>4, SplitInTwo
  <2>2. /\ bytes - Freed(others, n) = SumFunctionOnSet(models, (Loaded \ {m}) \ gone)
        /\ SumFunctionOnSet(models, (Loaded \ {m}) \ gone) \in Int
    BY <1>2, <1>4, <2>1, FreedIsTheRest
  <2> HIDE DEF gone
  <2>3. used' \in Seq(Model) /\ IsInjective(used') /\ Range(used') = Loaded \ gone
    BY <1>6, MinusFacts DEF ModelsIInv
  <2>4. IsFiniteSet(Loaded \ gone) /\ \A k \in Loaded \ gone : models[k] \in Int
    <3>1. IsFiniteSet(Loaded)
      BY OnceEach DEF ModelsIInv
    <3>2. IsFiniteSet(Loaded \ gone)
      BY <3>1, FS_Subset
    <3> QED  BY <3>2, SizesAreNumbers
  <2>5. SumFunctionOnSet(models, Loaded \ gone)
          = models[m] + SumFunctionOnSet(models, (Loaded \ gone) \ {m})
    BY <1>1, <2>1, <2>4, SumTakeOut
  <2>6. (Loaded \ gone) \ {m} = (Loaded \ {m}) \ gone /\ models[m] \in Int
    BY <1>1, <2>1, <2>4
  <2>7. totalBytes' = SumFunctionOnSet(models, Loaded \ gone)
    <3> DEFINE rest == SumFunctionOnSet(models, (Loaded \ {m}) \ gone)
    <3>1. totalBytes' = rest + models[m] /\ rest \in Int
      BY <1>6, <2>2
    <3>2. SumFunctionOnSet(models, Loaded \ gone) = models[m] + rest
      BY <2>5, <2>6
    <3> HIDE DEF rest
    <3> QED  BY <2>6, <3>1, <3>2
  <2> QED  BY <1>6, <2>3, <2>7, FewerModels
<1> QED  BY <1>3, <1>5, <1>6

LEMMA ModelsStart == ModelsInit => ModelsIInv
<1> SUFFICES ASSUME ModelsInit PROVE ModelsIInv
  OBVIOUS
<1>1. models = <<>> /\ used = <<>> /\ totalBytes = 0
  BY DEF ModelsInit
<1>2. Loaded = {} /\ DOMAIN used = {} /\ Len(used) = 0 /\ used \in Seq(Model)
  BY <1>1 DEF Loaded
<1>3. Range(used) = {} /\ IsInjective(used)
  BY <1>2 DEF Range, IsInjective
<1>4. models \in [Loaded -> Size]
  BY <1>1, <1>2
<1> QED
  BY <1>1, <1>2, <1>3, <1>4, SumOfNothing, ModelsAssumption DEF ModelsIInv, ModelsAssumption

LEMMA ModelsStep == ModelsIInv /\ [ModelsNext]_modelVars => ModelsIInv'
<1>1. CASE UNCHANGED modelVars
  BY <1>1 DEF ModelsIInv, modelVars, Loaded
<1>2. CASE ModelsNext
  BY <1>2, LoadKeeps, HitKeeps, UnloadKeeps, HotSwapKeeps DEF ModelsNext
<1> QED  BY <1>1, <1>2

LEMMA ModelsFollow == ModelsIInv => ModelsTypeOK /\ ModelsAddUp
<1> SUFFICES ASSUME ModelsIInv PROVE ModelsTypeOK /\ ModelsAddUp
  OBVIOUS
<1>1. IsFiniteSet(Loaded) /\ Cardinality(Loaded) = Len(used)
  BY OnceEach DEF ModelsIInv
<1>2. ToSet(used) = Loaded
  BY DEF ModelsIInv, ToSet, Range
<1>3. totalBytes \in Nat
  <2>1. \A m \in Loaded : models[m] \in Nat
    BY SizesAreNumbers
  <2> QED  BY <1>1, <2>1, SumIsNat DEF ModelsIInv
<1> QED
  BY <1>1, <1>2, <1>3 DEF ModelsIInv, ModelsTypeOK, ModelsAddUp, Sum, SumFunction, Loaded

\* Whatever is evicted, swapped, unloaded or fails to load, the bytes counted are those of
\* the models in the table, and there are never more models than allowed.
THEOREM ModelBytesAddUp == ModelsSpec => []ModelsAddUp
<1>1. ModelsIInv => ModelsAddUp
  BY ModelsFollow
<1> QED  BY <1>1, ModelsStart, ModelsStep, PTL DEF ModelsSpec

-----------------------------------------------------------------------------
(* The service manager, for any number of starts, signals and watchdogs.    *)

\* A caller in the middle of start, whose watchdog is still to come.
Owes(c) == IF caller[c] \in StartPlace THEN 1 ELSE 0

\* Each start that is counted makes one watchdog, so there is a place for each.
RoomLeft == spawned + Owes("main") + Owes("handler") <= starts

\* While one watchdog counts at a time, the restarts granted are among those counted: but
\* for the moment in which a new window has its count and not yet its time.
Counted ==
  /\ \A i \in Watchdog : watchdog[i] = "reset" => restartCount > 0
  /\ ~raced =>
       /\ \A i, j \in Watchdog :
            watchdog[i] \in Counting /\ watchdog[j] \in Counting => i = j
       /\ bounces <= MaxRestarts
       /\ (\A i \in Watchdog : watchdog[i] # "reset") => bounces <= restartCount
       /\ \A i \in Watchdog :
            /\ watchdog[i] = "one" => bounces = 0
            /\ watchdog[i] = "storing" => tally[i] = restartCount
            /\ watchdog[i] = "comparing" => bounces < restartCount

\* A service that is on has a watchdog, or is being started.
Cleared == {"cleared", "set", "begun", "started", "announced"}
Guarded ==
  running /\ ~stopEvent =>
    (\E i \in Watchdog : Alive(i)) \/ (\E c \in Caller : caller[c] \in Cleared)

\* The components are up, or a bounce is about to start them.
Provided == components = "up" \/ \E i \in Watchdog : watchdog[i] = "bounced"

Up(states) == running /\ ~stopEvent /\ Provided /\ svc \in states
Down(state) == ~running /\ components = "down" /\ NobodyActs /\ svc = state

\* What is true when one call at a time has come to a place, every stop having found no
\* bounce under way: no watchdog passes its look while the service is stopped.
Holds(place) ==
  /\ place = "idle" => Up({"running", "crashed"}) \/ Down("stopped")
  /\ place = "restarting" =>
       Up({"restarting", "running", "crashed"}) \/ Down("restarting")
  /\ place \in {"stopping", "unset", "draining"} => svc = "stopping" /\ NobodyActs
  /\ place \in {"unset", "draining"} => ~running
  /\ place = "stopped" => Down("stopping")
  /\ place = "again" => Down("stopped")
  /\ place \in Cleared => ~stopEvent
  /\ place \in Cleared \ {"cleared"} => running
  /\ place \in {"started", "announced"} => Provided
  /\ place = "announced" => svc \in {"running", "crashed"}

\* One call at a time, and the place it has come to.
OneCall == caller["main"] = "idle" \/ caller["handler"] = "idle"
Here == IF caller["handler"] = "idle" THEN caller["main"] ELSE caller["handler"]

Serial == ~crossed => OneCall /\ Holds(Here)

\* The watchdogs that were not made yet.
Unmade == \A i \in Watchdog : i > spawned => watchdog[i] = "none"

ServiceIInv == ServiceTypeOK /\ RoomLeft /\ Unmade /\ Counted /\ Guarded /\ Serial

LEMMA ServiceStarts == ServiceInit => ServiceIInv
<1> SUFFICES ASSUME ServiceInit PROVE ServiceIInv
  OBVIOUS
<1>0. MaxRestarts \in Nat /\ MaxStarts \in Nat /\ MaxSignals \in Nat
  BY ServiceAssumption DEF ServiceAssumption
<1>1. ServiceTypeOK
  <2>1. /\ running \in BOOLEAN /\ stopEvent \in BOOLEAN /\ aged \in BOOLEAN
        /\ windowOver \in BOOLEAN /\ raced \in BOOLEAN /\ crossed \in BOOLEAN
        /\ thenStart \in [Caller -> BOOLEAN]
    BY Zenon DEF ServiceInit
  <2>2. /\ spawned \in 0..MaxStarts /\ starts \in 0..MaxStarts /\ signals \in 0..MaxSignals
        /\ 0 \in InLimit /\ restartCount = 0 /\ bounces \in Nat
    BY <1>0 DEF ServiceInit, InLimit
  <2>3. tally \in [Watchdog -> InLimit \cup {MaxRestarts + 1}]
    BY <2>2 DEF ServiceInit
  <2> QED  BY <2>1, <2>2, <2>3
           DEF ServiceInit, ServiceTypeOK, ServiceState, CallPlace, WatchPlace
<1>2. RoomLeft
  BY DEF ServiceInit, RoomLeft, Owes, Caller, StartPlace
<1>3. Counted
  BY <1>0 DEF ServiceInit, Counted, Counting
<1>4. Guarded
  BY DEF ServiceInit, Guarded
<1>5. Serial
  BY DEF ServiceInit, Serial, OneCall, Holds, Here, Down, NobodyActs, Acting, Counting,
         Caller, Cleared
<1>6. Unmade
  BY DEF ServiceInit, Unmade
<1> QED  BY <1>1, <1>2, <1>3, <1>4, <1>5, <1>6 DEF ServiceIInv

\* A caller's step, as the callers' parts of the invariant see it.
LEMMA PlacesMove ==
  ASSUME ServiceTypeOK, NEW c \in Caller, NEW from, NEW to, Moves(c, from, to)
  PROVE  \A d \in Caller : caller'[d] = IF d = c THEN to ELSE caller[d]
  BY DEF ServiceTypeOK, Moves

LEMMA HereMoves ==
  ASSUME ServiceTypeOK, NEW c \in Caller, NEW from, NEW to, Moves(c, from, to),
         \A d \in Caller \ {c} : caller[d] = "idle"
  PROVE  Here = from /\ Here' = to /\ OneCall'
<1>1. \A d \in Caller : caller'[d] = IF d = c THEN to ELSE caller[d]
  BY PlacesMove
<1> QED  BY <1>1 DEF Moves, Here, OneCall, Caller

\* With one call at a time, whoever goes on is the one, and the other one is idle.
LEMMA OtherIdle ==
  ASSUME OneCall, NEW c \in Caller, NEW from, NEW to, Moves(c, from, to),
         from = "idle" => c = "main"
  PROVE  \A d \in Caller \ {c} : caller[d] = "idle"
  BY DEF OneCall, Moves, Alone, Caller

\* RoomLeft across a caller's step.
LEMMA RoomMoves ==
  ASSUME ServiceTypeOK, RoomLeft, NEW c \in Caller, NEW from, NEW to, Moves(c, from, to),
         spawned' \in Nat, starts' \in Nat,
         (spawned' - spawned) + (IF to \in StartPlace THEN 1 ELSE 0)
           <= (starts' - starts) + (IF from \in StartPlace THEN 1 ELSE 0)
  PROVE  RoomLeft'
<1>1. \A d \in Caller : caller'[d] = IF d = c THEN to ELSE caller[d]
  BY PlacesMove
<1>2. spawned \in Nat /\ starts \in Nat /\ caller[c] = from
  BY ServiceAssumption DEF ServiceAssumption, ServiceTypeOK, Moves
<1> DEFINE n(p) == IF p \in StartPlace THEN 1 ELSE 0
<1>3. \A p : n(p) \in {0, 1}
  OBVIOUS
<1>4. CASE c = "main"
  <2>1. Owes("main")' = n(to) /\ Owes("main") = n(from) /\ Owes("handler")' = Owes("handler")
    BY <1>1, <1>2, <1>4 DEF Owes, Caller
  <2>2. Owes("handler") \in {0, 1}
    BY DEF Owes
  <2> HIDE DEF n
  <2>3. (spawned' - spawned) + n(to) <= (starts' - starts) + n(from)
    BY DEF n
  <2> QED  BY <1>2, <1>3, <2>1, <2>2, <2>3 DEF RoomLeft
<1>5. CASE c = "handler"
  <2>1. Owes("handler")' = n(to) /\ Owes("handler") = n(from) /\ Owes("main")' = Owes("main")
    BY <1>1, <1>2, <1>5 DEF Owes, Caller
  <2>2. Owes("main") \in {0, 1}
    BY DEF Owes
  <2> HIDE DEF n
  <2>3. (spawned' - spawned) + n(to) <= (starts' - starts) + n(from)
    BY DEF n
  <2> QED  BY <1>2, <1>3, <2>1, <2>2, <2>3 DEF RoomLeft
<1> QED  BY <1>4, <1>5 DEF Caller

\* The watchdogs' part across a step of somebody else.
LEMMA CountedStays ==
  Counted /\ UNCHANGED <<watchdog, tally, restartCount, bounces, raced>> => Counted'
  BY DEF Counted

-----------------------------------------------------------------------------
(* Callers.                                                                 *)

LEMMA StartKeeps == ASSUME ServiceIInv, NEW c \in Caller, Start(c) PROVE ServiceIInv'
<1>1. PICK from \in {"idle", "again"} :
        /\ from = "idle" => c = "main"
        /\ IF svc = "running"
             THEN Moves(c, from, "idle") /\ UNCHANGED <<starts, crossed>>
             ELSE /\ Moves(c, from, "installed")
                  /\ starts' = starts + 1
                  /\ crossed' = (crossed /\ ~(NobodyActs
                                   /\ \A d \in Caller \ {c} : caller[d] = "idle"))
  BY DEF Start
<1>2. /\ starts < MaxStarts
      /\ UNCHANGED <<svc, running, stopEvent, components, thenStart, watchdog, spawned, tally,
                     restartCount, windowOver, bounces, raced, aged, signals>>
  BY DEF Start, watchdogVars, rateVars
<1>3. ServiceTypeOK /\ RoomLeft /\ Unmade /\ Counted /\ Guarded /\ Serial
  BY DEF ServiceIInv
<1>4. spawned \in Nat /\ starts \in Nat /\ MaxStarts \in Nat
  BY <1>3, ServiceAssumption DEF ServiceAssumption, ServiceTypeOK
<1>5. Counted' /\ Unmade'
  BY <1>2, <1>3, CountedStays DEF Unmade
<1>6. CASE svc = "running"
  <2>1. Moves(c, from, "idle") /\ UNCHANGED <<starts, crossed>>
    BY <1>1, <1>6
  <2>2. \A d \in Caller : caller'[d] = IF d = c THEN "idle" ELSE caller[d]
    BY <1>3, <2>1, PlacesMove
  <2>3. ServiceTypeOK'
    BY <1>2, <1>3, <2>1 DEF Moves, ServiceTypeOK, CallPlace
  <2>4. RoomLeft'
    <3>1. "idle" \notin StartPlace /\ from \notin StartPlace
      BY DEF StartPlace
    <3> QED  BY <1>2, <1>3, <1>4, <2>1, <3>1, RoomMoves
  <2>5. Guarded'
    <3>1. caller[c] \notin Cleared
      BY <2>1 DEF Moves, Cleared
    <3> QED  BY <1>2, <1>3, <2>2, <3>1 DEF Guarded, Alive
  <2>6. Serial'
    <3> SUFFICES ASSUME ~crossed PROVE OneCall' /\ Holds(Here)'
      BY <2>1 DEF Serial
    <3>1. OneCall /\ Holds(Here)
      BY <1>3 DEF Serial
    <3>2. Here = from /\ Here' = "idle" /\ OneCall'
      BY <1>1, <1>3, <2>1, <3>1, OtherIdle, HereMoves
    <3>3. from = "idle"
      BY <1>6, <3>1, <3>2 DEF Holds, Down
    <3> QED  BY <1>2, <3>1, <3>2, <3>3 DEF Holds, Up, Down, Provided, NobodyActs, Cleared
  <2> QED  BY <1>5, <2>3, <2>4, <2>5, <2>6 DEF ServiceIInv
<1>7. CASE svc # "running"
  <2>1. /\ Moves(c, from, "installed") /\ starts' = starts + 1
        /\ crossed' = (crossed /\ ~(NobodyActs /\ \A d \in Caller \ {c} : caller[d] = "idle"))
    BY <1>1, <1>7
  <2>2. \A d \in Caller : caller'[d] = IF d = c THEN "installed" ELSE caller[d]
    BY <1>3, <2>1, PlacesMove
  <2>3. ServiceTypeOK'
    <3>1. starts' \in 0..MaxStarts
      BY <1>2, <1>4, <2>1
    <3>2. crossed' \in BOOLEAN
      BY <2>1, Zenon
    <3> QED  BY <1>2, <1>3, <2>1, <3>1, <3>2 DEF Moves, ServiceTypeOK, CallPlace, StartPlace
  <2>4. RoomLeft'
    <3>1. "installed" \in StartPlace /\ from \notin StartPlace
      BY DEF StartPlace
    <3> QED  BY <1>2, <1>3, <1>4, <2>1, <3>1, RoomMoves
  <2>5. Guarded'
    <3>1. caller[c] \notin Cleared
      BY <2>1 DEF Moves, Cleared
    <3> QED  BY <1>2, <1>3, <2>2, <3>1 DEF Guarded, Alive
  <2>6. Serial'
    <3> SUFFICES ASSUME ~crossed' PROVE OneCall' /\ Holds(Here)'
      BY DEF Serial
    <3>1. \A d \in Caller \ {c} : caller[d] = "idle"
      <4>1. CASE crossed
        BY <2>1, <4>1
      <4>2. CASE ~crossed
        BY <1>1, <1>3, <2>1, <4>2, OtherIdle DEF Serial
      <4> QED  BY <4>1, <4>2
    <3>2. Here' = "installed" /\ OneCall'
      BY <1>3, <2>1, <3>1, HereMoves
    <3> QED  BY <3>2 DEF Holds, Cleared
  <2> QED  BY <1>5, <2>3, <2>4, <2>5, <2>6 DEF ServiceIInv
<1> QED  BY <1>6, <1>7

LEMMA StartGoesOnKeeps ==
  ASSUME ServiceIInv, NEW c \in Caller, StartGoesOn(c) PROVE ServiceIInv'
<1>1. UNCHANGED <<thenStart, watchdog, spawned, tally, restartCount, windowOver, bounces,
                  raced, starts, signals, crossed>>
  BY DEF StartGoesOn, watchdogVars, rateVars, callVars
<1>2. ServiceTypeOK /\ RoomLeft /\ Unmade /\ Counted /\ Guarded /\ Serial
  BY DEF ServiceIInv
<1>3. spawned \in Nat /\ starts \in Nat
  BY <1>2, ServiceAssumption DEF ServiceAssumption, ServiceTypeOK
<1>4. PICK from \in StartPlace, to \in StartPlace :
        /\ Moves(c, from, to)
        /\ \/ /\ from = "installed" /\ to = "starting" /\ svc' = "starting"
              /\ UNCHANGED <<running, stopEvent, components, aged>>
           \/ /\ from = "starting" /\ to = "cleared" /\ stopEvent' = FALSE
              /\ UNCHANGED <<svc, running, components, aged>>
           \/ /\ from = "cleared" /\ to = "set" /\ running' = TRUE
              /\ UNCHANGED <<svc, stopEvent, components, aged>>
           \/ /\ from = "set" /\ to = "begun" /\ aged' = FALSE
              /\ UNCHANGED <<svc, running, stopEvent, components>>
           \/ /\ from = "begun" /\ to = "started" /\ components' = "up"
              /\ UNCHANGED <<svc, running, stopEvent, aged>>
           \/ /\ from = "started" /\ to = "announced" /\ svc' = "running"
              /\ UNCHANGED <<running, stopEvent, components, aged>>
  BY DEF StartGoesOn, StartPlace, EventCleared
<1>5. caller[c] = from /\ \A d \in Caller : caller'[d] = IF d = c THEN to ELSE caller[d]
  <2>1. Moves(c, from, to)
    BY <1>4
  <2>2. caller[c] = from
    BY <2>1 DEF Moves
  <2> QED  BY <1>2, <2>1, <2>2, PlacesMove
<1>6. ServiceTypeOK'
  <2>1. running' \in BOOLEAN /\ stopEvent' \in BOOLEAN /\ aged' \in BOOLEAN
    BY <1>2, <1>4, Zenon DEF ServiceTypeOK
  <2>2. svc' \in ServiceState /\ components' \in {"up", "down"}
    BY <1>2, <1>4 DEF ServiceTypeOK, ServiceState
  <2>3. caller' \in [Caller -> CallPlace]
    BY <1>2, <1>4 DEF Moves, ServiceTypeOK, CallPlace
  <2> QED  BY <1>1, <1>2, <2>1, <2>2, <2>3 DEF ServiceTypeOK
<1>7. RoomLeft'
  BY <1>1, <1>2, <1>3, <1>4, RoomMoves
<1>8. Counted' /\ Unmade'
  BY <1>1, <1>2, CountedStays DEF Unmade
<1>9. Guarded'
  <2>1. CASE to \in Cleared
    BY <1>5, <2>1 DEF Guarded
  <2>2. CASE to \notin Cleared
    <3>1. to = "starting" /\ from = "installed" /\ UNCHANGED <<running, stopEvent>>
      BY <1>4, <2>2 DEF Cleared
    <3>2. \A d \in Caller : caller[d] \in Cleared => caller'[d] \in Cleared
      BY <1>5, <3>1 DEF Cleared
    <3> QED  BY <1>1, <1>2, <3>1, <3>2 DEF Guarded, Alive
  <2> QED  BY <2>1, <2>2
<1>10. Serial'
  <2> SUFFICES ASSUME ~crossed PROVE OneCall' /\ Holds(Here)'
    BY <1>1 DEF Serial
  <2>1. OneCall /\ Holds(Here)
    BY <1>2 DEF Serial
  <2>2. Here = from /\ Here' = to /\ OneCall'
    <3>1. from # "idle"
      BY DEF StartPlace
    <3> QED  BY <1>2, <1>4, <2>1, <3>1, OtherIdle, HereMoves
  <2>3. Holds(from)
    BY <2>1, <2>2
  <2>4. Holds(to)'
    BY <1>1, <1>4, <2>3 DEF Holds, Cleared, Provided
  <2> QED  BY <2>2, <2>4
<1> QED  BY <1>6, <1>7, <1>8, <1>9, <1>10 DEF ServiceIInv

LEMMA SpawnKeeps == ASSUME ServiceIInv, NEW c \in Caller, Spawn(c) PROVE ServiceIInv'
<1>1. /\ Moves(c, "announced", "idle") /\ spawned' = spawned + 1
      /\ watchdog' = [watchdog EXCEPT ![spawned + 1] = "loop"]
      /\ UNCHANGED <<svc, running, stopEvent, components, thenStart, tally, restartCount,
                     windowOver, bounces, raced, aged, starts, signals, crossed>>
  BY DEF Spawn, rateVars, callVars
<1>2. ServiceTypeOK /\ RoomLeft /\ Unmade /\ Counted /\ Guarded /\ Serial
  BY DEF ServiceIInv
<1>3. spawned \in Nat /\ starts \in Nat /\ starts <= MaxStarts /\ MaxStarts \in Nat
  BY <1>2, ServiceAssumption DEF ServiceAssumption, ServiceTypeOK
<1>4. RoomLeft'
  <2>1. "announced" \in StartPlace /\ "idle" \notin StartPlace
    BY DEF StartPlace
  <2> QED  BY <1>1, <1>2, <1>3, <2>1, RoomMoves
<1>5. spawned + 1 \in Watchdog
  <2>1. Owes(c) = 1
    BY <1>1 DEF Moves, Owes, StartPlace
  <2>2. Owes("main") \in {0, 1} /\ Owes("handler") \in {0, 1} /\ c \in {"main", "handler"}
    BY DEF Owes, Caller
  <2>3. spawned + 1 <= starts
    BY <1>2, <1>3, <2>1, <2>2 DEF RoomLeft
  <2> QED  BY <1>3, <2>3 DEF Watchdog
<1>6. watchdog' \in [Watchdog -> WatchPlace]
      /\ \A i \in Watchdog : watchdog'[i] = IF i = spawned + 1 THEN "loop" ELSE watchdog[i]
  BY <1>1, <1>2 DEF ServiceTypeOK, WatchPlace
<1>7. ServiceTypeOK'
  <2>1. spawned' \in 0..MaxStarts
    BY <1>1, <1>3, <1>5 DEF Watchdog
  <2> QED  BY <1>1, <1>2, <1>6, <2>1 DEF Moves, ServiceTypeOK, CallPlace
<1>8. PICK w \in Watchdog : w = spawned + 1
  BY <1>5
<1>9. Counted' /\ Unmade'
  <2>1. watchdog[w] = "none" /\ watchdog'[w] = "loop"
    BY <1>2, <1>3, <1>6, <1>8 DEF Unmade
  <2>2. \A i \in Watchdog : watchdog'[i] # watchdog[i] => i = w
    BY <1>6, <1>8
  <2>3. Counted'
    BY <1>1, <1>2, <2>1, <2>2 DEF Counted, Counting
  <2>4. Unmade'
    <3>1. \A i \in Watchdog : i > spawned + 1 => i > spawned /\ i # w
      BY <1>3, <1>8 DEF Watchdog
    <3> QED  BY <1>1, <1>2, <2>2, <3>1 DEF Unmade
  <2> QED  BY <2>3, <2>4
<1>10. Guarded'
  BY <1>6, <1>8 DEF Guarded, Alive
<1>11. Serial'
  <2> SUFFICES ASSUME ~crossed PROVE OneCall' /\ Holds(Here)'
    BY <1>1 DEF Serial
  <2>1. OneCall /\ Holds(Here)
    BY <1>2 DEF Serial
  <2>2. Here = "announced" /\ Here' = "idle" /\ OneCall'
    BY <1>1, <1>2, <2>1, OtherIdle, HereMoves
  <2>3. Up({"running", "crashed"})
    BY <2>1, <2>2 DEF Holds, Up, Cleared
  <2>4. Provided'
    <3>1. \A i \in Watchdog : watchdog[i] = "bounced" => watchdog'[i] = "bounced"
      BY <1>2, <1>3, <1>6, <1>8 DEF Unmade
    <3> QED  BY <1>1, <2>3, <3>1 DEF Up, Provided
  <2>5. Holds("idle")'
    BY <1>1, <2>3, <2>4 DEF Holds, Up, Cleared
  <2> QED  BY <2>2, <2>5
<1> QED  BY <1>4, <1>7, <1>9, <1>10, <1>11 DEF ServiceIInv

\* The first step of a stop or of a restart.  It counts as uncrossed only if the other
\* caller is idle and, for a stop, no bounce is under way.
LEMMA StopsKeep ==
  ASSUME ServiceIInv, NEW c \in Caller, Restart(c) \/ Stop(c),
         UNCHANGED <<running, stopEvent, components, watchdog, spawned, tally, restartCount,
                     windowOver, bounces, raced, aged, starts>>,
         signals' \in 0..MaxSignals, crossed' \in BOOLEAN,
         ~crossed' => /\ ~crossed /\ (\A d \in Caller \ {c} : caller[d] = "idle")
                      /\ Restart(c) \/ NobodyActs
  PROVE  ServiceIInv'
<1>2. ServiceTypeOK /\ RoomLeft /\ Unmade /\ Counted /\ Guarded /\ Serial
  BY DEF ServiceIInv
<1>3. spawned \in Nat /\ starts \in Nat
  BY <1>2, ServiceAssumption DEF ServiceAssumption, ServiceTypeOK
<1>4. PICK from \in {"idle", "restarting"}, to \in {"restarting", "stopping", "again"} :
        /\ Moves(c, from, to)
        /\ \/ from = "idle" /\ to = "restarting" /\ svc' = "restarting"
           \/ Stop(c) /\ to = "stopping" /\ svc' = "stopping"
           \/ Stop(c) /\ from = "restarting" /\ to = "again" /\ svc = "stopped" /\ svc' = svc
  BY DEF Restart, Stop
<1>5. caller[c] = from /\ \A d \in Caller : caller'[d] = IF d = c THEN to ELSE caller[d]
  <2>1. Moves(c, from, to)
    BY <1>4
  <2>2. caller[c] = from
    BY <2>1 DEF Moves
  <2> QED  BY <1>2, <2>1, <2>2, PlacesMove
<1>6. ServiceTypeOK'
  <2>1. thenStart' \in [Caller -> BOOLEAN]
    BY <1>2, Zenon DEF Restart, Stop, ServiceTypeOK
  <2>2. caller' \in [Caller -> CallPlace]
    BY <1>2, <1>4 DEF Moves, ServiceTypeOK, CallPlace, StopPlace
  <2>3. svc' \in ServiceState
    BY <1>2, <1>4 DEF ServiceTypeOK, ServiceState
  <2> QED  BY <1>2, <2>1, <2>2, <2>3 DEF ServiceTypeOK
<1>7. RoomLeft'
  <2>1. from \notin StartPlace /\ to \notin StartPlace
    BY DEF StartPlace
  <2> QED  BY <1>2, <1>3, <1>4, <2>1, RoomMoves
<1>8. Counted' /\ Unmade'
  BY <1>2, CountedStays DEF Unmade
<1>9. Guarded'
  <2>1. \A d \in Caller : caller[d] \in Cleared => caller'[d] \in Cleared
    BY <1>5 DEF Cleared
  <2> QED  BY <1>2, <2>1 DEF Guarded, Alive
<1>10. Serial'
  <2> SUFFICES ASSUME ~crossed' PROVE OneCall' /\ Holds(Here)'
    BY DEF Serial
  <2>1. OneCall /\ Holds(Here)
    BY <1>2 DEF Serial
  <2>2. Here = from /\ Here' = to /\ OneCall'
    BY <1>2, <1>4, HereMoves
  <2>3. Holds(from)
    BY <2>1, <2>2
  <2>4. CASE from = "idle" /\ to = "restarting" /\ svc' = "restarting"
    BY <2>2, <2>3, <2>4 DEF Holds, Up, Down, Provided, NobodyActs, Cleared
  <2>5. CASE Stop(c) /\ to = "stopping" /\ svc' = "stopping"
    <3>1. Restart(c) => from = "idle" /\ to = "restarting"
      BY <1>2, <1>5, PlacesMove DEF Restart, Moves
    <3>2. NobodyActs
      BY <2>5, <3>1
    <3> QED  BY <2>2, <2>5, <3>2 DEF Holds, NobodyActs, Cleared
  <2>6. CASE from = "restarting" /\ to = "again" /\ svc = "stopped"
    BY <2>3, <2>6 DEF Holds, Up, Down
  <2> QED  BY <1>4, <2>2, <2>4, <2>5, <2>6
<1> QED  BY <1>6, <1>7, <1>8, <1>9, <1>10 DEF ServiceIInv

LEMMA MainStopsKeeps == ASSUME ServiceIInv, MainStops PROVE ServiceIInv'
<1>1. /\ \/ Restart("main") /\ UNCHANGED crossed
         \/ Stop("main") /\ crossed' = (crossed \/ ~NobodyActs)
      /\ UNCHANGED <<running, stopEvent, components, watchdog, spawned, tally, restartCount,
                     windowOver, bounces, raced, aged, starts, signals>>
  BY DEF MainStops, watchdogVars, rateVars, callVars
<1>2. ServiceTypeOK
  BY DEF ServiceIInv
<1>3. "main" \in Caller /\ \A d \in Caller \ {"main"} : caller[d] = "idle"
  BY <1>1 DEF Restart, Stop, Moves, Alone, Caller
<1>4. crossed' \in BOOLEAN
  BY <1>1, <1>2, Zenon DEF ServiceTypeOK
<1>5. signals' \in 0..MaxSignals
  BY <1>1, <1>2 DEF ServiceTypeOK
<1>6. ~crossed' => ~crossed /\ (Restart("main") \/ NobodyActs)
  BY <1>1
<1>7. Restart("main") \/ Stop("main")
  BY <1>1
<1> QED  BY <1>1, <1>3, <1>4, <1>5, <1>6, <1>7, StopsKeep

LEMMA SignalKeeps == ASSUME ServiceIInv, Signal PROVE ServiceIInv'
<1>1. /\ signals < MaxSignals /\ signals' = signals + 1
      /\ Restart("handler") \/ Stop("handler")
      /\ crossed' = (crossed \/ caller["main"] # "idle" \/ ~NobodyActs)
      /\ UNCHANGED <<running, stopEvent, components, watchdog, spawned, tally, restartCount,
                     windowOver, bounces, raced, aged, starts>>
  BY DEF Signal, watchdogVars, rateVars
<1>2. ServiceTypeOK
  BY DEF ServiceIInv
<1>3. crossed' \in BOOLEAN
  BY <1>1, <1>2, Zenon DEF ServiceTypeOK
<1>4. signals' \in 0..MaxSignals
  BY <1>1, <1>2, ServiceAssumption DEF ServiceTypeOK, ServiceAssumption
<1>5. ~crossed' => ~crossed /\ NobodyActs /\ \A d \in Caller \ {"handler"} : caller[d] = "idle"
  BY <1>1 DEF Caller
<1>6. "handler" \in Caller
  BY DEF Caller
<1> QED  BY <1>1, <1>3, <1>4, <1>5, <1>6, StopsKeep

LEMMA HandlerStopsKeeps == ASSUME ServiceIInv, HandlerStops PROVE ServiceIInv'
<1>1. /\ caller["handler"] = "restarting" /\ Stop("handler")
      /\ crossed' = (crossed \/ ~NobodyActs)
      /\ UNCHANGED <<running, stopEvent, components, watchdog, spawned, tally, restartCount,
                     windowOver, bounces, raced, aged, starts, signals>>
  BY DEF HandlerStops, watchdogVars, rateVars, callVars
<1>2. ServiceTypeOK /\ Serial
  BY DEF ServiceIInv
<1>3. crossed' \in BOOLEAN
  BY <1>1, <1>2, Zenon DEF ServiceTypeOK
<1>4. signals' \in 0..MaxSignals
  BY <1>1, <1>2 DEF ServiceTypeOK
<1>5. ~crossed' => ~crossed /\ NobodyActs /\ \A d \in Caller \ {"handler"} : caller[d] = "idle"
  BY <1>1, <1>2 DEF Serial, OneCall, Caller
<1>6. "handler" \in Caller
  BY DEF Caller
<1> QED  BY <1>1, <1>3, <1>4, <1>5, <1>6, StopsKeep

LEMMA StopGoesOnKeeps ==
  ASSUME ServiceIInv, NEW c \in Caller, StopGoesOn(c) PROVE ServiceIInv'
<1>1. UNCHANGED <<thenStart, watchdog, spawned, tally, restartCount, windowOver, bounces,
                  raced, aged, starts, signals, crossed>>
  BY DEF StopGoesOn, watchdogVars, rateVars, callVars
<1>2. ServiceTypeOK /\ RoomLeft /\ Unmade /\ Counted /\ Guarded /\ Serial
  BY DEF ServiceIInv
<1>3. spawned \in Nat /\ starts \in Nat
  BY <1>2, ServiceAssumption DEF ServiceAssumption, ServiceTypeOK
<1>4. PICK from \in StopPlace, to \in {"unset", "draining", "stopped", "again", "idle"} :
        /\ Moves(c, from, to)
        /\ \/ /\ from = "stopping" /\ to = "unset" /\ running' = FALSE
              /\ UNCHANGED <<svc, stopEvent, components>>
           \/ /\ from = "unset" /\ to = "draining" /\ stopEvent' = TRUE
              /\ UNCHANGED <<svc, running, components>>
           \/ /\ from = "draining" /\ to = "stopped" /\ components' = "down"
              /\ UNCHANGED <<svc, running, stopEvent>>
           \/ /\ from = "stopped" /\ to \in {"again", "idle"} /\ svc' = "stopped"
              /\ UNCHANGED <<running, stopEvent, components>>
  BY DEF StopGoesOn, StopPlace
<1>5. caller[c] = from /\ \A d \in Caller : caller'[d] = IF d = c THEN to ELSE caller[d]
  <2>1. Moves(c, from, to)
    BY <1>4
  <2>2. caller[c] = from
    BY <2>1 DEF Moves
  <2> QED  BY <1>2, <2>1, <2>2, PlacesMove
<1>6. ServiceTypeOK'
  <2>1. running' \in BOOLEAN /\ stopEvent' \in BOOLEAN
    BY <1>2, <1>4, Zenon DEF ServiceTypeOK
  <2>2. svc' \in ServiceState /\ components' \in {"up", "down"}
    BY <1>2, <1>4 DEF ServiceTypeOK, ServiceState
  <2>3. caller' \in [Caller -> CallPlace]
    BY <1>2, <1>4 DEF Moves, ServiceTypeOK, CallPlace, StopPlace
  <2> QED  BY <1>1, <1>2, <2>1, <2>2, <2>3 DEF ServiceTypeOK
<1>7. RoomLeft'
  <2>1. from \notin StartPlace /\ to \notin StartPlace
    BY DEF StartPlace, StopPlace
  <2> QED  BY <1>1, <1>2, <1>3, <1>4, <2>1, RoomMoves
<1>8. Counted' /\ Unmade'
  BY <1>1, <1>2, CountedStays DEF Unmade
<1>9. Guarded'
  <2>1. \A d \in Caller : caller[d] \in Cleared => caller'[d] \in Cleared
    BY <1>5 DEF Cleared, StopPlace
  <2>2. running' /\ ~stopEvent' => running /\ ~stopEvent
    BY <1>4
  <2> QED  BY <1>1, <1>2, <2>1, <2>2 DEF Guarded, Alive
<1>10. Serial'
  <2> SUFFICES ASSUME ~crossed PROVE OneCall' /\ Holds(Here)'
    BY <1>1 DEF Serial
  <2>1. OneCall /\ Holds(Here)
    BY <1>2 DEF Serial
  <2>2. Here = from /\ Here' = to /\ OneCall'
    <3>1. from # "idle"
      BY DEF StopPlace
    <3> QED  BY <1>2, <1>4, <2>1, <3>1, OtherIdle, HereMoves
  <2>3. Holds(from)
    BY <2>1, <2>2
  <2>4. Holds(to)'
    BY <1>1, <1>4, <2>3 DEF Holds, Cleared, Down, NobodyActs
  <2> QED  BY <2>2, <2>4
<1> QED  BY <1>6, <1>7, <1>8, <1>9, <1>10 DEF ServiceIInv

-----------------------------------------------------------------------------
(* Watchdogs.                                                               *)

LEMMA WatchdogGoes ==
  ASSUME ServiceTypeOK, NEW i \in Watchdog, NEW from, NEW to, Goes(i, from, to)
  PROVE  /\ watchdog[i] = from
         /\ \A j \in Watchdog : watchdog'[j] = IF j = i THEN to ELSE watchdog[j]
  BY DEF ServiceTypeOK, Goes

\* The counts across a step of a watchdog that does not count.
LEMMA CountedElsewhere ==
  ASSUME ServiceTypeOK, Counted, NEW i \in Watchdog, NEW from, NEW to, Goes(i, from, to),
         from \notin Counting, to \notin Counting,
         UNCHANGED <<tally, restartCount, bounces, raced>>
  PROVE  Counted'
<1>1. \A j \in Watchdog :
        \/ watchdog'[j] = watchdog[j]
        \/ watchdog[j] \notin Counting /\ watchdog'[j] \notin Counting
  BY WatchdogGoes
<1>2. {"reset", "one", "storing", "comparing"} \subseteq Counting
  BY DEF Counting
<1> QED  BY <1>1, <1>2 DEF Counted

\* All but the counts, across a step of a watchdog: it ends only when told to, it goes on to
\* a bounce only of a running service, and whatever it takes down it brings up again.
LEMMA WatchdogKeeps ==
  ASSUME ServiceIInv, NEW i \in Watchdog, NEW from, NEW to, Goes(i, from, to),
         from # "none", to \in WatchPlace \ {"none"}, to = "ended" => ~(running /\ ~stopEvent),
         UNCHANGED <<running, stopEvent, caller, thenStart, spawned, aged, starts, signals,
                     crossed>>,
         from \notin Acting => /\ svc' = svc /\ components' = components
                               /\ to \in Acting => svc = "running",
         svc' \in {svc, "running", "crashed"},
         \/ components' = components /\ from # "bounced"
         \/ components' = "up"
         \/ components' = "down" /\ to = "bounced",
         tally' \in [Watchdog -> InLimit \cup {MaxRestarts + 1}],
         restartCount' \in InLimit \cup {MaxRestarts + 1},
         bounces' \in Nat, windowOver' \in BOOLEAN, raced' \in BOOLEAN,
         Counted'
  PROVE  ServiceIInv'
<1>2. ServiceTypeOK /\ RoomLeft /\ Unmade /\ Guarded /\ Serial
  BY DEF ServiceIInv
<1>3. /\ watchdog[i] = from
      /\ \A j \in Watchdog : watchdog'[j] = IF j = i THEN to ELSE watchdog[j]
  BY <1>2, WatchdogGoes
<1>4. ServiceTypeOK'
  <2>1. watchdog' \in [Watchdog -> WatchPlace]
    BY <1>2 DEF Goes, ServiceTypeOK
  <2>2. svc' \in ServiceState /\ components' \in {"up", "down"}
    BY <1>2 DEF ServiceTypeOK, ServiceState
  <2> QED  BY <1>2, <2>1, <2>2 DEF ServiceTypeOK
<1>5. RoomLeft'
  BY <1>2 DEF RoomLeft, Owes
<1>6. Unmade'
  BY <1>2, <1>3 DEF Unmade
<1>7. Guarded'
  <2> SUFFICES ASSUME running, ~stopEvent, \A c \in Caller : caller[c] \notin Cleared
               PROVE  \E j \in Watchdog : Alive(j)'
    BY DEF Guarded
  <2>1. PICK j \in Watchdog : Alive(j)
    BY <1>2 DEF Guarded
  <2>2. CASE j = i
    BY <1>3, <2>2 DEF Alive
  <2>3. CASE j # i
    BY <1>3, <2>1, <2>3 DEF Alive
  <2> QED  BY <2>2, <2>3
<1>8. Serial'
  <2> SUFFICES ASSUME ~crossed PROVE OneCall' /\ Holds(Here)'
    BY DEF Serial
  <2>1. OneCall /\ Holds(Here)
    BY <1>2 DEF Serial
  <2>2. OneCall' /\ Here' = Here
    BY <2>1 DEF OneCall, Here
  <2>3. Provided => Provided'
    BY <1>3 DEF Provided
  <2>4. NobodyActs /\ svc # "running" =>
          NobodyActs' /\ svc' = svc /\ components' = components
    BY <1>3 DEF NobodyActs
  <2>5. PICK place : place = Here
    OBVIOUS
  <2>6. Up({"running", "crashed"}) => Up({"running", "crashed"})'
    BY <2>3 DEF Up
  <2>7. Up({"restarting", "running", "crashed"}) => Up({"restarting", "running", "crashed"})'
    BY <2>3 DEF Up
  <2>8. \A state \in {"stopped", "restarting", "stopping"} : Down(state) => Down(state)'
    BY <2>4 DEF Down
  <2>9. svc = "stopping" /\ NobodyActs => svc' = "stopping" /\ NobodyActs'
    BY <2>4
  <2>10. Holds(place)
    BY <2>1, <2>5
  <2>11. /\ place = "idle" => (Up({"running", "crashed"}) \/ Down("stopped"))'
         /\ place = "restarting" =>
              (Up({"restarting", "running", "crashed"}) \/ Down("restarting"))'
         /\ place = "stopped" => Down("stopping")'
         /\ place = "again" => Down("stopped")'
    BY <2>6, <2>7, <2>8, <2>10 DEF Holds
  <2>12. /\ place \in {"stopping", "unset", "draining"} => svc' = "stopping" /\ NobodyActs'
         /\ place \in {"unset", "draining"} => ~running'
         /\ place \in Cleared => ~stopEvent'
         /\ place \in Cleared \ {"cleared"} => running'
         /\ place \in {"started", "announced"} => Provided'
         /\ place = "announced" => svc' \in {"running", "crashed"}
    BY <2>3, <2>9, <2>10 DEF Holds
  <2>13. Holds(place)'
    BY <2>11, <2>12 DEF Holds
  <2> QED  BY <2>2, <2>5, <2>13
<1> QED  BY <1>4, <1>5, <1>6, <1>7, <1>8 DEF ServiceIInv

LEMMA WatchdogLooksKeeps ==
  ASSUME ServiceIInv, NEW i \in Watchdog, WatchdogLooks(i) PROVE ServiceIInv'
<1>1. UNCHANGED <<svc, running, stopEvent, components, caller, thenStart, spawned, tally,
                  restartCount, windowOver, bounces, raced, aged, starts, signals, crossed>>
  BY DEF WatchdogLooks, callerVars, rateVars, callVars
<1>2. ServiceTypeOK /\ Counted
  BY DEF ServiceIInv
<1>3. PICK from \in {"loop", "asleep", "awake", "on"},
           to \in {"loop", "asleep", "awake", "on", "hung", "ended"} :
        /\ Goes(i, from, to)
        /\ to = "ended" => ~(running /\ ~stopEvent)
        /\ from # "on" /\ to \in {"on", "hung"} => svc = "running"
  BY DEF WatchdogLooks, StillOn
<1>4. from \notin Counting /\ to \notin Counting
  BY DEF Counting
<1>5. /\ from \notin {"none", "bounced"} /\ to \in WatchPlace \ {"none"}
      /\ from \notin Acting /\ to \in Acting => from # "on" /\ to \in {"on", "hung"}
  BY DEF WatchPlace, Acting, Counting
<1>6. Counted'
  BY <1>1, <1>2, <1>3, <1>4, CountedElsewhere
<1>7. /\ tally' \in [Watchdog -> InLimit \cup {MaxRestarts + 1}]
      /\ restartCount' \in InLimit \cup {MaxRestarts + 1}
      /\ bounces' \in Nat /\ windowOver' \in BOOLEAN /\ raced' \in BOOLEAN
  BY <1>1, <1>2 DEF ServiceTypeOK
<1> QED  BY <1>1, <1>3, <1>5, <1>6, <1>7, WatchdogKeeps

LEMMA CrashKeeps == ASSUME ServiceIInv, NEW i \in Watchdog, Crash(i) PROVE ServiceIInv'
<1>1. /\ Goes(i, "hung", "counting") /\ svc' = "crashed"
      /\ raced' = (raced \/ \E j \in Watchdog \ {i} : watchdog[j] \in Counting)
      /\ UNCHANGED <<running, stopEvent, components, caller, thenStart, spawned, tally,
                     restartCount, windowOver, bounces, aged, starts, signals, crossed>>
  BY DEF Crash, callerVars, callVars
<1>2. ServiceTypeOK /\ Counted
  BY DEF ServiceIInv
<1>3. "hung" \in Acting /\ "counting" \in WatchPlace
  BY DEF WatchPlace, Acting, Counting
<1>4. Counted'
  <2>1. \A j \in Watchdog : watchdog'[j] = IF j = i THEN "counting" ELSE watchdog[j]
    BY <1>1, <1>2, WatchdogGoes
  <2>2. watchdog[i] = "hung"
    BY <1>1 DEF Goes
  <2>3. CASE raced'
    BY <1>1, <1>2, <2>1, <2>3 DEF Counted
  <2>4. CASE ~raced'
    <3>1. ~raced /\ \A j \in Watchdog \ {i} : watchdog[j] \notin Counting
      BY <1>1, <2>4
    <3>2. \A j \in Watchdog : watchdog'[j] \in Counting => j = i
      BY <2>1, <3>1
    <3>3. (\A j \in Watchdog : watchdog[j] # "reset") /\ watchdog'[i] = "counting"
      BY <2>1, <2>2, <3>1 DEF Counting
    <3> QED  BY <1>1, <1>2, <3>1, <3>2, <3>3 DEF Counted, Counting
  <2> QED  BY <2>3, <2>4
<1>5. raced' \in BOOLEAN
  BY <1>1, <1>2, Zenon DEF ServiceTypeOK
<1>6. /\ tally' \in [Watchdog -> InLimit \cup {MaxRestarts + 1}]
      /\ restartCount' \in InLimit \cup {MaxRestarts + 1}
      /\ bounces' \in Nat /\ windowOver' \in BOOLEAN
  BY <1>1, <1>2 DEF ServiceTypeOK
<1> QED  BY <1>1, <1>3, <1>4, <1>5, <1>6, WatchdogKeeps

LEMMA CheckRestartRateKeeps ==
  ASSUME ServiceIInv, NEW i \in Watchdog, CheckRestartRate(i) PROVE ServiceIInv'
<1>1. UNCHANGED <<svc, running, stopEvent, components, caller, thenStart, spawned, aged,
                  starts, signals, crossed>>
  BY DEF CheckRestartRate, callerVars, callVars
<1>2. ServiceTypeOK /\ Counted
  BY DEF ServiceIInv
<1>3. /\ MaxRestarts \in Nat \ {0} /\ restartCount \in 0..(MaxRestarts + 1) /\ bounces \in Nat
      /\ tally[i] \in 0..(MaxRestarts + 1)
      /\ InLimit = 0..MaxRestarts /\ InLimit \cup {MaxRestarts + 1} = 0..(MaxRestarts + 1)
  BY <1>2, ServiceAssumption DEF ServiceTypeOK, ServiceAssumption, InLimit
<1>4. PICK from \in Counting, to \in Counting \cup {"backoff", "loop"} :
        /\ Goes(i, from, to)
        /\ \/ /\ from = "counting" /\ to \in {"first", "window"}
              /\ UNCHANGED <<tally, restartCount, windowOver, bounces, raced>>
           \/ /\ from = "first" /\ to = "one" /\ WindowBegins(i, 0)
              /\ UNCHANGED <<tally, restartCount>>
           \/ /\ from = "one" /\ to = "backoff" /\ restartCount' = 1 /\ Granted
              /\ UNCHANGED <<tally, windowOver, raced>>
           \/ /\ from = "window" /\ to = "reset" /\ restartCount' = 1
              /\ UNCHANGED <<tally, windowOver, bounces, raced>>
           \/ /\ from = "reset" /\ to = "backoff" /\ WindowBegins(i, 1)
              /\ UNCHANGED <<tally, restartCount>>
           \/ /\ from = "window" /\ to = "storing"
              /\ tally' = [tally EXCEPT ![i] = restartCount]
              /\ UNCHANGED <<restartCount, windowOver, bounces, raced>>
           \/ /\ from = "storing" /\ to = "comparing"
              /\ restartCount' = IF tally[i] \in InLimit THEN tally[i] + 1 ELSE tally[i]
              /\ tally' = [tally EXCEPT ![i] = 0]
              /\ UNCHANGED <<windowOver, bounces, raced>>
           \/ /\ from = "comparing" /\ to = "loop"
              /\ UNCHANGED <<tally, restartCount, windowOver, bounces, raced>>
           \/ /\ from = "comparing" /\ to = "backoff" /\ restartCount <= MaxRestarts
              /\ Granted
              /\ UNCHANGED <<tally, restartCount, windowOver, raced>>
  BY <1>3 DEF CheckRestartRate, LimitExceeded, rateVars, Counting
<1>5. /\ watchdog[i] = from
      /\ \A j \in Watchdog : watchdog'[j] = IF j = i THEN to ELSE watchdog[j]
  BY <1>2, <1>4, WatchdogGoes
<1>6. /\ from \in Acting /\ from \notin {"none", "bounced"}
      /\ to \in WatchPlace \ {"none"} /\ to # "ended"
  BY DEF Acting, WatchPlace, Counting
<1>7. /\ tally' \in [Watchdog -> 0..(MaxRestarts + 1)]
      /\ restartCount' \in 0..(MaxRestarts + 1)
  <2>1. tally \in [Watchdog -> 0..(MaxRestarts + 1)]
    BY <1>2, <1>3 DEF ServiceTypeOK
  <2>2. restartCount' \in 0..(MaxRestarts + 1)
    BY <1>3, <1>4
  <2>3. 0 \in 0..(MaxRestarts + 1)
    BY <1>3
  <2> QED  BY <1>3, <1>4, <2>1, <2>2, <2>3
<1>8. bounces' \in Nat
  BY <1>3, <1>4 DEF WindowBegins, Granted
<1>9. raced' \in BOOLEAN /\ windowOver' \in BOOLEAN
  BY <1>2, <1>4, Zenon DEF WindowBegins, ServiceTypeOK
<1>10. Counted'
  <2>1. \A j \in Watchdog : watchdog'[j] = "reset" => restartCount' > 0
    <3>1. restartCount > 0 => restartCount' > 0
      BY <1>3, <1>4
    <3>2. to = "reset" => restartCount' > 0
      BY <1>4
    <3> QED  BY <1>2, <1>5, <3>1, <3>2 DEF Counted
  <2>2. ASSUME ~raced'
        PROVE  /\ \A j \in Watchdog : watchdog[j] \in Counting => j = i
               /\ raced => from \in {"first", "reset"}
    <3>1. \/ raced' = raced
          \/ from \in {"first", "reset"} /\ \A j \in Watchdog \ {i} : watchdog[j] \notin Counting
          \/ ~raced
      BY <1>4, <2>2 DEF WindowBegins
    <3>2. ~raced => \A j \in Watchdog : watchdog[j] \in Counting => j = i
      BY <1>2, <1>5 DEF Counted
    <3> QED  BY <2>2, <3>1, <3>2
  <2>3. ASSUME ~raced'
        PROVE  /\ bounces' <= MaxRestarts
               /\ to # "reset" => bounces' <= restartCount'
               /\ to = "one" => bounces' = 0
               /\ to = "storing" => tally'[i] = restartCount'
               /\ to = "comparing" => bounces' < restartCount'
    <3>1. \A j \in Watchdog : watchdog[j] = "reset" => j = i
      BY <2>2, <2>3 DEF Counting
    <3>2. CASE from = "first"
      BY <1>3, <1>4, <3>2 DEF WindowBegins
    <3>3. CASE from = "reset"
      <4>1. restartCount > 0
        BY <1>2, <1>5, <3>3 DEF Counted
      <4> QED  BY <1>3, <1>4, <3>3, <4>1 DEF WindowBegins
    <3>4. CASE from \notin {"first", "reset"}
      <4>1. /\ ~raced /\ bounces <= MaxRestarts /\ bounces <= restartCount
            /\ from = "one" => bounces = 0
            /\ from = "storing" => tally[i] = restartCount
            /\ from = "comparing" => bounces < restartCount
        BY <1>2, <1>5, <2>2, <2>3, <3>1, <3>4 DEF Counted
      <4>2. from = "window" /\ to = "storing" => tally'[i] = restartCount
        BY <1>2, <1>4 DEF ServiceTypeOK
      <4> QED  BY <1>3, <1>4, <3>4, <4>1, <4>2 DEF Granted
    <3> QED  BY <3>2, <3>3, <3>4
  <2>4. ASSUME ~raced'
        PROVE  /\ \A j, k \in Watchdog :
                    watchdog'[j] \in Counting /\ watchdog'[k] \in Counting => j = k
               /\ (\A j \in Watchdog : watchdog'[j] # "reset") => bounces' <= restartCount'
               /\ \A j \in Watchdog :
                    /\ watchdog'[j] = "one" => bounces' = 0
                    /\ watchdog'[j] = "storing" => tally'[j] = restartCount'
                    /\ watchdog'[j] = "comparing" => bounces' < restartCount'
    <3>1. \A j \in Watchdog : watchdog'[j] \in Counting => j = i
      BY <1>5, <2>2, <2>4
    <3>2. watchdog'[i] = to /\ {"one", "storing", "comparing"} \subseteq Counting
      BY <1>5 DEF Counting
    <3> QED  BY <2>3, <2>4, <3>1, <3>2
  <2> QED  BY <2>1, <2>3, <2>4 DEF Counted
<1> QED  BY <1>1, <1>3, <1>4, <1>6, <1>7, <1>8, <1>9, <1>10, WatchdogKeeps

LEMMA BounceKeeps == ASSUME ServiceIInv, NEW i \in Watchdog, Bounce(i) PROVE ServiceIInv'
<1>1. UNCHANGED <<running, stopEvent, caller, thenStart, spawned, tally, restartCount,
                  windowOver, bounces, raced, aged, starts, signals, crossed>>
  BY DEF Bounce, callerVars, rateVars, callVars
<1>2. ServiceTypeOK /\ Counted
  BY DEF ServiceIInv
<1>3. PICK from \in {"backoff", "bounced", "back"}, to \in {"bounced", "back", "loop"} :
        /\ Goes(i, from, to)
        /\ \/ from = "backoff" /\ to = "bounced" /\ components' = "down" /\ UNCHANGED svc
           \/ from = "bounced" /\ to = "back" /\ components' = "up" /\ UNCHANGED svc
           \/ from = "back" /\ to = "loop" /\ svc' = "running" /\ UNCHANGED components
  BY DEF Bounce
<1>4. from \notin Counting /\ to \notin Counting
  BY DEF Counting
<1>5. from \in Acting /\ from # "none" /\ to \in WatchPlace \ {"none"} /\ to # "ended"
  BY DEF WatchPlace, Acting, Counting
<1>6. Counted'
  BY <1>1, <1>2, <1>3, <1>4, CountedElsewhere
<1>7. /\ tally' \in [Watchdog -> InLimit \cup {MaxRestarts + 1}]
      /\ restartCount' \in InLimit \cup {MaxRestarts + 1}
      /\ bounces' \in Nat /\ windowOver' \in BOOLEAN /\ raced' \in BOOLEAN
  BY <1>1, <1>2 DEF ServiceTypeOK
<1> QED  BY <1>1, <1>3, <1>5, <1>6, <1>7, WatchdogKeeps

LEMMA ClockRunsKeeps == ASSUME ServiceIInv, ClockRuns PROVE ServiceIInv'
<1>1. UNCHANGED <<svc, running, stopEvent, components, caller, thenStart, watchdog, spawned,
                  tally, restartCount, bounces, raced, starts, signals, crossed>>
  BY DEF ClockRuns, callerVars, watchdogVars, callVars
<1>2. ServiceTypeOK /\ RoomLeft /\ Unmade /\ Counted /\ Guarded /\ Serial
  BY DEF ServiceIInv
<1>3. aged' \in BOOLEAN /\ windowOver' \in BOOLEAN
  BY <1>2, Zenon DEF ClockRuns, ServiceTypeOK
<1>4. ServiceTypeOK'
  BY <1>1, <1>2, <1>3 DEF ServiceTypeOK
<1>5. RoomLeft' /\ Unmade' /\ Counted' /\ Guarded'
  BY <1>1, <1>2, CountedStays DEF RoomLeft, Owes, Unmade, Guarded, Alive
<1>6. Serial'
  BY <1>1, <1>2 DEF Serial, OneCall, Here, Holds, Up, Down, Provided, NobodyActs
<1> QED  BY <1>4, <1>5, <1>6 DEF ServiceIInv

LEMMA ServiceStays == ServiceIInv /\ UNCHANGED serviceVars => ServiceIInv'
<1> SUFFICES ASSUME ServiceIInv, UNCHANGED serviceVars PROVE ServiceIInv'
  OBVIOUS
<1>1. UNCHANGED <<svc, running, stopEvent, components, caller, thenStart, watchdog, spawned,
                  tally, restartCount, windowOver, bounces, raced, aged, starts, signals,
                  crossed>>
  BY DEF serviceVars, callerVars, watchdogVars, rateVars, callVars
<1>2. ServiceTypeOK /\ RoomLeft /\ Unmade /\ Counted /\ Guarded /\ Serial
  BY DEF ServiceIInv
<1>3. ServiceTypeOK'
  BY <1>1, <1>2 DEF ServiceTypeOK
<1>4. RoomLeft' /\ Unmade' /\ Counted' /\ Guarded'
  BY <1>1, <1>2, CountedStays DEF RoomLeft, Owes, Unmade, Guarded, Alive
<1>5. Serial'
  BY <1>1, <1>2 DEF Serial, OneCall, Here, Holds, Up, Down, Provided, NobodyActs
<1> QED  BY <1>3, <1>4, <1>5 DEF ServiceIInv

LEMMA ServiceSteps == ServiceIInv /\ [ServiceNext]_serviceVars => ServiceIInv'
<1> SUFFICES ASSUME ServiceIInv, [ServiceNext]_serviceVars PROVE ServiceIInv'
  OBVIOUS
<1>1. CASE MainStops
  BY <1>1, MainStopsKeeps
<1>2. CASE Signal
  BY <1>2, SignalKeeps
<1>3. CASE HandlerStops
  BY <1>3, HandlerStopsKeeps
<1>4. ASSUME NEW c \in Caller, CallerStep(c) PROVE ServiceIInv'
  BY <1>4, StartKeeps, StartGoesOnKeeps, SpawnKeeps, StopGoesOnKeeps DEF CallerStep
<1>5. ASSUME NEW i \in Watchdog, WatchdogStep(i) PROVE ServiceIInv'
  BY <1>5, WatchdogLooksKeeps, CrashKeeps, CheckRestartRateKeeps, BounceKeeps DEF WatchdogStep
<1>6. CASE ClockRuns
  BY <1>6, ClockRunsKeeps
<1>7. CASE UNCHANGED serviceVars
  BY <1>7, ServiceStays
<1> QED  BY <1>1, <1>2, <1>3, <1>4, <1>5, <1>6, <1>7 DEF ServiceNext

LEMMA ServiceInvariance == ServiceSpec => []ServiceIInv
  BY ServiceStarts, ServiceSteps, PTL DEF ServiceSpec

\* _check_restart_rate, _watchdog_loop: for any number of starts, signals, watchdogs and
\* restarts allowed, a service that is on keeps a watchdog, and the watchdogs restart the
\* components at most max_restarts times in a window unless two count at the same moment.
THEOREM WatchedAndBounded == ServiceSpec => []WatchedWithinBudget
<1>1. ServiceIInv => WatchedWithinBudget
  <2> SUFFICES ASSUME ServiceIInv PROVE Watched /\ RestartBudget
    BY DEF WatchedWithinBudget
  <2>1. Counted /\ Guarded /\ Serial
    BY DEF ServiceIInv
  <2>2. RestartBudget
    BY <2>1 DEF Counted, RestartBudget
  <2>3. ASSUME CallersIdle, running, crossed => ~stopEvent
        PROVE  \E i \in Watchdog : Alive(i)
    <3>1. Here = "idle" /\ \A c \in Caller : caller[c] \notin Cleared
      BY <2>3 DEF CallersIdle, Here, Caller, Cleared
    <3>2. ~crossed => ~stopEvent
      BY <2>1, <2>3, <3>1 DEF Serial, Holds, Up, Down
    <3> QED  BY <2>1, <2>3, <3>1, <3>2 DEF Guarded
  <2> QED  BY <2>2, <2>3 DEF Watched
<1> QED  BY <1>1, ServiceInvariance, PTL

\* stop, start and _handle_crash: for any number of starts, signals and watchdogs, the state
\* the service reports when nothing is under way is the one its components and its threads
\* are in, unless a call cut into another or a stop into a bounce.
THEOREM StateReportedIsTrue == ServiceSpec => []StateIsTrue
<1>1. ServiceIInv => StateIsTrue
  <2> SUFFICES ASSUME ServiceIInv, CallersIdle, NobodyActs, ~crossed
               PROVE  /\ svc \in {"stopped", "running", "crashed"}
                      /\ svc = "stopped" <=> components = "down"
                      /\ svc = "stopped" <=> ~running
    BY DEF StateIsTrue
  <2>1. Here = "idle"
    BY DEF CallersIdle, Here, Caller
  <2>2. Up({"running", "crashed"}) \/ Down("stopped")
    BY <2>1 DEF ServiceIInv, Serial, Holds
  <2>3. Provided => components = "up"
    BY DEF Provided, NobodyActs, Acting
  <2> QED  BY <2>2, <2>3 DEF Up, Down
<1> QED  BY <1>1, ServiceInvariance, PTL

-----------------------------------------------------------------------------
(* The tables side by side.                                                  *)

\* Whichever part a behaviour follows; the others stay as they began.
TablesIInv ==
  /\ PagedIInv /\ ModelsIInv /\ ServiceIInv
  /\ \/ focus = "prefixes" /\ ManagerIInv /\ AccountIInv
     \/ focus # "prefixes" /\ ManagerInit

\* Every table holds what it should, whichever part runs.
THEOREM TablesTypeCorrect == Spec => []TypeOK
<1>1. Init => TablesIInv
  <2> SUFFICES ASSUME Init PROVE TablesIInv
    OBVIOUS
  <2>1. PagedInit /\ ManagerInit /\ ModelsInit /\ ServiceInit
    BY DEF Init
  <2>2. PagedIInv /\ ModelsIInv /\ ManagerIInv /\ AccountIInv /\ ServiceIInv
    BY <2>1, InitEstablishes, ModelsStart, ManagerInitEstablishes, AccountStart, ServiceStarts
  <2> QED  BY <2>1, <2>2 DEF TablesIInv
<1>2. TablesIInv /\ [Next]_vars => TablesIInv'
  <2> SUFFICES ASSUME TablesIInv, [Next]_vars PROVE TablesIInv'
    OBVIOUS
  <2>1. focus' = focus
    BY DEF Next, vars
  <2>2. ModelsIInv' /\ ServiceIInv'
    <3>1. [ModelsNext]_modelVars /\ [ServiceNext]_serviceVars
      BY DEF Next, vars
    <3> QED  BY <3>1, ModelsStep, ServiceSteps DEF TablesIInv
  <2>3. CASE focus = "prefixes"
    <3>1. ManagerIInv /\ AccountIInv
      BY <2>3 DEF TablesIInv
    <3>2. [ManagerNext]_<<pagedVars, managerVars>>
      BY <2>3 DEF Next, vars
    <3>3. ManagerIInv' /\ AccountIInv'
      BY <3>1, <3>2, ManagerStepPreserves, AccountStep
    <3>4. PagedIInv'
      BY <3>3 DEF ManagerIInv
    <3> QED  BY <2>1, <2>2, <2>3, <3>3, <3>4 DEF TablesIInv
  <2>4. CASE focus # "prefixes"
    <3>1. ManagerInit /\ PagedIInv
      BY <2>4 DEF TablesIInv
    <3>2. [PagedNext]_pagedVars /\ UNCHANGED managerVars
      BY <2>4 DEF Next, vars
    <3>3. PagedIInv'
      BY <3>1, <3>2, StepPreserves, StutterPreserves
    <3>4. ManagerInit'
      BY <3>1, <3>2 DEF ManagerInit, managerVars, NoCall
    <3> QED  BY <2>1, <2>2, <2>4, <3>3, <3>4 DEF TablesIInv
  <2> QED  BY <2>3, <2>4
<1>3. TablesIInv => TypeOK
  <2> SUFFICES ASSUME TablesIInv PROVE TypeOK
    OBVIOUS
  <2>1. ManagerTypeOK
    <3>1. CASE ManagerIInv /\ AccountIInv
      BY <3>1, AccountsFollow
    <3>2. CASE ManagerInit
      <4>1. Registered = {} /\ held = {} /\ Len(lru) = 0
        BY <3>2 DEF ManagerInit, Registered, Nothing
      <4>2. tenantPrefixes \in [Tenant -> SUBSET {q.hash : q \in Prompt}]
        BY <3>2 DEF ManagerInit
      <4> QED  BY <4>1, <4>2, PrefixAssumption DEF ManagerTypeOK
    <3> QED  BY <3>1, <3>2 DEF TablesIInv
  <2> QED  BY <2>1, ModelsFollow DEF TablesIInv, TypeOK, PagedIInv, ServiceIInv
<1> QED  BY <1>1, <1>2, <1>3, PTL DEF Spec
=============================================================================
