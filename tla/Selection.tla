------------------------------ MODULE Selection ------------------------------
(***************************************************************************)
(* What a list comprehension with a condition leaves of a list.  SelectSeq would   *)
(* do; the provers cannot look into it.                                           *)
(***************************************************************************)
EXTENDS Naturals, Sequences

\* The elements of s that are not in gone, in their order.
Minus(s, gone) ==
  LET left[n \in 0..Len(s)] ==
        IF n = 0 THEN <<>>
        ELSE IF s[n] \in gone THEN left[n - 1] ELSE Append(left[n - 1], s[n])
  IN  left[Len(s)]
=============================================================================
