------------------------------ MODULE PageStore ------------------------------
(***************************************************************************)
(* What a paged KV cache promises its callers: logical pages, each with rows of    *)
(* its own.  Pages appear empty or as copies, a write changes one page, pages go   *)
(* away, and nothing else ever happens to a row.  Where a page lies is not said.   *)
(***************************************************************************)
EXTENDS Naturals, Sequences

CONSTANT PageSize

VARIABLE page       \* the rows of each live logical page

Kept(p) == page'[p] = page[p]

Init == DOMAIN page = {}

\* New pages; none of the old ones is touched.
Grow(NewRows) ==
  /\ DOMAIN page \subseteq DOMAIN page'
  /\ \A p \in DOMAIN page : Kept(p)
  /\ \A p \in DOMAIN page' \ DOMAIN page : page'[p] \in NewRows

Alloc == Grow({<<>>})

Copy == Grow({page[p] : p \in DOMAIN page})

Write ==
  /\ DOMAIN page' = DOMAIN page
  /\ \E p \in DOMAIN page :
       /\ \A q \in DOMAIN page \ {p} : Kept(q)
       /\ Len(page[p]) <= Len(page'[p])
       /\ Len(page'[p]) <= PageSize

Free ==
  /\ DOMAIN page' \subseteq DOMAIN page
  /\ \A p \in DOMAIN page' : Kept(p)

Next == Alloc \/ Copy \/ Write \/ Free

Spec == Init /\ [][Next]_page
=============================================================================
