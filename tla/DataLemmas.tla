------------------------------ MODULE DataLemmas ------------------------------
(***************************************************************************)
(* Lemmas about the data the models are built of: sums over finite sets, as          *)
(* SumFunctionOnSet of the community modules computes them, and what Minus leaves    *)
(* of a sequence.  Each induction looks at the least subset, or the least number,      *)
(* for which a lemma would fail.                                                      *)
(***************************************************************************)
EXTENDS Selection, Integers, FiniteSets, Functions, SequenceTheorems,
        FiniteSetTheorems, WellFoundedInduction, TLAPS

Pick(T) == CHOOSE x \in T : TRUE

\* SumFunctionOnSet folds over the subsets of its index set, in an order that a CHOOSE
\* picks; this is the function on them that it is defined by.
SumFolds(g, f, S) ==
  g = [T \in SUBSET S |-> IF T = {} THEN 0 ELSE f[Pick(T)] + g[T \ {Pick(T)}]]

\* A set of naturals has a least member.
LEMMA LeastNumber ==
  ASSUME NEW T \in SUBSET Nat, T # {}
  PROVE  \E x \in T : \A y \in T : x <= y
<1> DEFINE R == OpToRel(<, Nat)
<1>1. IsWellFoundedOn(R, Nat)
  BY NatLessThanWellFounded
<1>2. R = {ss \in Nat \X Nat : ss[1] < ss[2]}
  BY DEF OpToRel
<1> HIDE DEF R
<1>3. PICK x \in T : \A y \in T : ~ (<<y, x>> \in R)
  BY <1>1, WFMin
<1>4. ASSUME NEW y \in T PROVE x <= y
  <2>1. ~ (y < x)
    BY <1>2, <1>3
  <2> QED  BY <2>1
<1> QED  BY <1>4

\* A set of subsets of a finite set has a member none of whose strict subsets is in it.
LEMMA LeastSubset ==
  ASSUME NEW S, IsFiniteSet(S), NEW B, B \subseteq SUBSET S, B # {}
  PROVE  \E T \in B : \A U \in B : U \subseteq T => U = T
<1> DEFINE sizes == {Cardinality(T) : T \in B}
<1>1. ASSUME NEW T \in B
      PROVE  IsFiniteSet(T) /\ Cardinality(T) \in Nat
  BY <1>1, FS_Subset, FS_CardinalityType
<1>2. sizes \in SUBSET Nat /\ sizes # {}
  BY <1>1
<1>3. PICK n \in sizes : \A m \in sizes : n <= m
  <2> HIDE DEF sizes
  <2> QED  BY <1>2, LeastNumber
<1>4. PICK T \in B : n = Cardinality(T)
  BY <1>3
<1>5. ASSUME NEW U \in B, U \subseteq T
      PROVE  U = T
  <2>1. Cardinality(U) \in sizes /\ Cardinality(U) \in Nat /\ n \in Nat
    BY <1>1, <1>4
  <2>2. Cardinality(U) <= Cardinality(T) /\ (Cardinality(T) = Cardinality(U) => T = U)
    BY <1>1, <1>5, FS_Subset
  <2> QED  BY <1>3, <1>4, <2>1, <2>2
<1> QED  BY <1>5

\* A finite set of naturals has a greatest member.
LEMMA GreatestNumber ==
  ASSUME NEW S, IsFiniteSet(S), S \subseteq Nat, S # {}
  PROVE  \E x \in S : \A y \in S : y <= x
<1> DEFINE B == {U \in SUBSET S : U # {} /\ ~ \E x \in U : \A y \in U : y <= x}
<1> SUFFICES ASSUME B # {} PROVE FALSE
  OBVIOUS
<1> DEFINE Has(U) == \E x \in U : \A y \in U : y <= x
<1>1. PICK U \in B : \A V \in B : V \subseteq U => V = U
  <2>1. B \subseteq SUBSET S /\ IsFiniteSet(S) /\ B # {}
    OBVIOUS
  <2> HIDE DEF B
  <2>2. \E W \in B : \A V \in B : V \subseteq W => V = W
    BY ONLY <2>1, LeastSubset
  <2> QED  BY ONLY <2>2
<1>2. U \in SUBSET Nat /\ U \in SUBSET S /\ U # {} /\ ~ Has(U)
  OBVIOUS
<1>3. PICK u \in U : TRUE
  BY <1>2
<1>4. U \ {u} = {} \/ Has(U \ {u})
  <2>1. U \ {u} \notin B
    <3>1. U \ {u} \subseteq U /\ U \ {u} # U
      BY <1>3
    <3> HIDE DEF B, Has
    <3> QED  BY <1>1, <3>1
  <2> QED  BY <1>2, <2>1
<1>5. Has(U)
  <2>1. u \in Nat
    BY <1>2, <1>3
  <2>2. CASE U \ {u} = {}
    BY <1>2, <2>1, <2>2
  <2>3. CASE Has(U \ {u})
    <3>1. PICK x \in U \ {u} : \A y \in U \ {u} : y <= x
      BY <2>3
    <3>2. CASE x <= u
      BY <1>2, <1>3, <2>1, <3>1, <3>2
    <3>3. CASE ~ (x <= u)
      BY <1>2, <1>3, <2>1, <3>1, <3>3
    <3> HIDE DEF Has
    <3> QED  BY <3>2, <3>3
  <2> HIDE DEF Has
  <2> QED  BY <1>4, <2>2, <2>3
<1> QED  BY <1>2, <1>5

LEMMA PickIsMember == ASSUME NEW T, T # {} PROVE Pick(T) \in T
BY DEF Pick

\* What the fold gives for a set does not depend on the set it is part of.
LEMMA FoldsAgree ==
  ASSUME NEW S, IsFiniteSet(S), NEW f, NEW U \in SUBSET S, NEW V \in SUBSET S,
         NEW g, SumFolds(g, f, U), NEW h, SumFolds(h, f, V),
         NEW T \in SUBSET (U \cap V)
  PROVE  g[T] = h[T]
<1> DEFINE B == {W \in SUBSET (U \cap V) : g[W] # h[W]}
<1> SUFFICES ASSUME B # {} PROVE FALSE
  OBVIOUS
<1>1. PICK W \in B : \A X \in B : X \subseteq W => X = W
  <2>1. B \subseteq SUBSET S
    OBVIOUS
  <2> HIDE DEF B
  <2> QED  BY <2>1, LeastSubset
<1>2. /\ g[W] = IF W = {} THEN 0 ELSE f[Pick(W)] + g[W \ {Pick(W)}]
      /\ h[W] = IF W = {} THEN 0 ELSE f[Pick(W)] + h[W \ {Pick(W)}]
  <2>1. W \in SUBSET U /\ W \in SUBSET V
    OBVIOUS
  <2> HIDE DEF B
  <2> QED  BY <2>1 DEF SumFolds
<1>3. W # {}
  BY <1>2
<1>4. W \ {Pick(W)} \subseteq W /\ W \ {Pick(W)} # W
  BY <1>3, PickIsMember
<1>5. W \ {Pick(W)} \notin B
  BY <1>1, <1>4
<1> QED  BY <1>2, <1>4, <1>5

\* There is such a function: the fold is well defined.
LEMMA FoldExists ==
  ASSUME NEW S, IsFiniteSet(S), NEW f
  PROVE  \E g : SumFolds(g, f, S)
<1> DEFINE B == {T \in SUBSET S : ~ \E g : SumFolds(g, f, T)}
<1> SUFFICES ASSUME B # {} PROVE FALSE
  OBVIOUS
<1>1. PICK T \in B : \A U \in B : U \subseteq T => U = T
  <2>1. B \subseteq SUBSET S
    OBVIOUS
  <2> HIDE DEF B
  <2> QED  BY <2>1, LeastSubset
<1> DEFINE Part(U) == CHOOSE g : SumFolds(g, f, U)
<1>2. ASSUME NEW U \in SUBSET T, U # T
      PROVE  SumFolds(Part(U), f, U)
  <2>1. U \notin B /\ U \in SUBSET S
    BY <1>1, <1>2
  <2> QED  BY <2>1
<1> DEFINE g == [U \in SUBSET T |->
                   IF U = {} THEN 0 ELSE f[Pick(U)] + Part(U \ {Pick(U)})[U \ {Pick(U)}]]
<1>3. ASSUME NEW U \in SUBSET T, U # {}
      PROVE  g[U \ {Pick(U)}] = Part(U \ {Pick(U)})[U \ {Pick(U)}]
  <2> DEFINE V == U \ {Pick(U)}
             W == V \ {Pick(V)}
  <2>1. V \in SUBSET T /\ V # T
    BY <1>3, PickIsMember
  <2>2. SumFolds(Part(V), f, V)
    BY <1>2, <2>1
  <2>3. CASE V = {}
    <3>1. Part(V)[V] = 0
      <4> HIDE DEF Part
      <4> QED  BY <2>2, <2>3 DEF SumFolds
    <3>2. g[V] = 0
      BY <2>1, <2>3
    <3> QED  BY <3>1, <3>2
  <2>4. CASE V # {}
    <3>1. W \in SUBSET T /\ W # T /\ W \in SUBSET V
      BY <2>1, <2>4, PickIsMember
    <3>2. SumFolds(Part(W), f, W)
      BY <1>2, <3>1
    <3>3. Part(V)[V] = f[Pick(V)] + Part(V)[W]
      <4> HIDE DEF Part
      <4> QED  BY <2>2, <2>4 DEF SumFolds
    <3>4. Part(V)[W] = Part(W)[W]
      <4>1. V \in SUBSET S /\ W \in SUBSET S /\ W \in SUBSET (V \cap W)
        BY <2>1, <3>1
      <4> HIDE DEF Part, V, W
      <4> QED  BY <2>2, <3>2, <4>1, FoldsAgree
    <3>5. g[V] = f[Pick(V)] + Part(W)[W]
      BY <2>1, <2>4
    <3> QED  BY <3>3, <3>4, <3>5
  <2> QED  BY <2>3, <2>4
<1>4. SumFolds(g, f, T)
  <2>1. ASSUME NEW U \in SUBSET T
        PROVE  g[U] = IF U = {} THEN 0 ELSE f[Pick(U)] + g[U \ {Pick(U)}]
    <3>1. g[U] = IF U = {} THEN 0
                 ELSE f[Pick(U)] + Part(U \ {Pick(U)})[U \ {Pick(U)}]
      OBVIOUS
    <3> HIDE DEF g, Part
    <3> QED  BY <1>3, <3>1
  <2>2. g = [U \in SUBSET T |-> g[U]]
    OBVIOUS
  <2> HIDE DEF g
  <2> QED  BY <2>1, <2>2 DEF SumFolds
<1> QED  BY <1>4

\* The sum is the value of that function.
LEMMA SumIsFold ==
  ASSUME NEW S, IsFiniteSet(S), NEW f
  PROVE  \E g : SumFolds(g, f, S) /\ SumFunctionOnSet(f, S) = g[S]
<1>1. PICK h : SumFolds(h, f, S)
  BY FoldExists
<1> QED
  BY <1>1 DEF SumFunctionOnSet, FoldFunctionOnSet, MapThenFoldSet, SumFolds, Pick

LEMMA SumOfNothing == ASSUME NEW f PROVE SumFunctionOnSet(f, {}) = 0
<1>1. PICK g : SumFolds(g, f, {}) /\ SumFunctionOnSet(f, {}) = g[{}]
  BY SumIsFold, FS_EmptySet
<1> QED  BY <1>1 DEF SumFolds

LEMMA SumByPick ==
  ASSUME NEW S, IsFiniteSet(S), S # {}, NEW f
  PROVE  SumFunctionOnSet(f, S) = f[Pick(S)] + SumFunctionOnSet(f, S \ {Pick(S)})
<1> DEFINE U == S \ {Pick(S)}
<1>1. U \in SUBSET S /\ IsFiniteSet(U)
  BY FS_RemoveElement
<1>2. PICK g : SumFolds(g, f, S) /\ SumFunctionOnSet(f, S) = g[S]
  BY SumIsFold
<1>3. PICK h : SumFolds(h, f, U) /\ SumFunctionOnSet(f, U) = h[U]
  BY <1>1, SumIsFold
<1>4. g[S] = f[Pick(S)] + g[U]
  BY <1>2 DEF SumFolds
<1>5. g[U] = h[U]
  <2>1. S \in SUBSET S /\ U \in SUBSET (S \cap U)
    BY <1>1
  <2> HIDE DEF U
  <2> QED  BY <1>1, <1>2, <1>3, <2>1, FoldsAgree
<1> QED  BY <1>2, <1>3, <1>4, <1>5

LEMMA SumOfZeros ==
  ASSUME NEW S, IsFiniteSet(S), NEW f, \A x \in S : f[x] = 0
  PROVE  SumFunctionOnSet(f, S) = 0
<1> DEFINE B == {T \in SUBSET S : SumFunctionOnSet(f, T) # 0}
<1> SUFFICES ASSUME B # {} PROVE FALSE
  OBVIOUS
<1>1. PICK T \in B : \A U \in B : U \subseteq T => U = T
  <2>1. B \subseteq SUBSET S
    OBVIOUS
  <2> HIDE DEF B
  <2> QED  BY <2>1, LeastSubset
<1>2. T # {}
  BY SumOfNothing
<1>3. /\ Pick(T) \in S /\ T \ {Pick(T)} \in SUBSET S
      /\ T \ {Pick(T)} # T /\ IsFiniteSet(T)
  BY <1>2, PickIsMember, FS_Subset
<1>4. SumFunctionOnSet(f, T) = f[Pick(T)] + SumFunctionOnSet(f, T \ {Pick(T)})
  BY <1>2, <1>3, SumByPick
<1>5. SumFunctionOnSet(f, T \ {Pick(T)}) = 0
  BY <1>1, <1>3
<1> QED  BY <1>3, <1>4, <1>5

LEMMA SumIsInt ==
  ASSUME NEW S, IsFiniteSet(S), NEW f, \A x \in S : f[x] \in Int
  PROVE  SumFunctionOnSet(f, S) \in Int
<1> DEFINE B == {T \in SUBSET S : SumFunctionOnSet(f, T) \notin Int}
<1> SUFFICES ASSUME B # {} PROVE FALSE
  OBVIOUS
<1>1. PICK T \in B : \A U \in B : U \subseteq T => U = T
  <2>1. B \subseteq SUBSET S
    OBVIOUS
  <2> HIDE DEF B
  <2> QED  BY <2>1, LeastSubset
<1>2. T # {}
  BY SumOfNothing
<1>3. /\ Pick(T) \in S /\ T \ {Pick(T)} \in SUBSET S
      /\ T \ {Pick(T)} # T /\ IsFiniteSet(T)
  BY <1>2, PickIsMember, FS_Subset
<1>4. SumFunctionOnSet(f, T) = f[Pick(T)] + SumFunctionOnSet(f, T \ {Pick(T)})
  BY <1>2, <1>3, SumByPick
<1>5. SumFunctionOnSet(f, T \ {Pick(T)}) \in Int
  BY <1>1, <1>3
<1> QED  BY <1>3, <1>4, <1>5

\* One index apart from the rest, whichever it is.
LEMMA SumTakeOut ==
  ASSUME NEW S, IsFiniteSet(S), NEW f, \A y \in S : f[y] \in Int, NEW x \in S
  PROVE  SumFunctionOnSet(f, S) = f[x] + SumFunctionOnSet(f, S \ {x})
<1> DEFINE Good(T) == \A z \in T :
             SumFunctionOnSet(f, T) = f[z] + SumFunctionOnSet(f, T \ {z})
           B == {T \in SUBSET S : ~ Good(T)}
<1> SUFFICES ASSUME B # {} PROVE FALSE
  OBVIOUS
<1>1. PICK T \in B : \A U \in B : U \subseteq T => U = T
  <2>1. B \subseteq SUBSET S
    OBVIOUS
  <2> HIDE DEF B
  <2> QED  BY <2>1, LeastSubset
<1>2. T \in SUBSET S /\ ~ Good(T) /\ IsFiniteSet(T)
  BY FS_Subset
<1>3. PICK z \in T : SumFunctionOnSet(f, T) # f[z] + SumFunctionOnSet(f, T \ {z})
  BY <1>2
<1> DEFINE y == Pick(T)
<1>4. /\ SumFunctionOnSet(f, T) = f[y] + SumFunctionOnSet(f, T \ {y})
      /\ y \in T
  BY <1>2, <1>3, SumByPick, PickIsMember
<1>5. y # z
  BY <1>3, <1>4
<1>6. Good(T \ {y}) /\ Good(T \ {z})
  <2>1. /\ T \ {y} \in SUBSET S /\ T \ {y} \subseteq T /\ T \ {y} # T
        /\ T \ {z} \in SUBSET S /\ T \ {z} \subseteq T /\ T \ {z} # T
    BY <1>2, <1>3, <1>4
  <2>2. T \ {y} \notin B /\ T \ {z} \notin B
    <3> HIDE DEF B, y
    <3> QED  BY <1>1, <2>1
  <2> HIDE DEF Good, y
  <2> QED  BY <2>1, <2>2
<1>7. SumFunctionOnSet(f, T \ {y}) = f[z] + SumFunctionOnSet(f, (T \ {y}) \ {z})
  BY <1>3, <1>5, <1>6
<1>8. SumFunctionOnSet(f, T \ {z}) = f[y] + SumFunctionOnSet(f, (T \ {z}) \ {y})
  BY <1>4, <1>5, <1>6
<1>9. (T \ {y}) \ {z} = (T \ {z}) \ {y}
  OBVIOUS
<1>10. SumFunctionOnSet(f, (T \ {z}) \ {y}) \in Int /\ f[y] \in Int /\ f[z] \in Int
  <2>1. (T \ {z}) \ {y} \in SUBSET S
    BY <1>2
  <2>2. IsFiniteSet((T \ {z}) \ {y})
    BY <2>1, FS_Subset
  <2>3. y \in S /\ z \in S
    BY <1>2, <1>3, <1>4
  <2> HIDE DEF y
  <2> QED  BY <2>1, <2>2, <2>3, SumIsInt
<1> HIDE DEF y
<1>11. SumFunctionOnSet(f, T) = f[y] + (f[z] + SumFunctionOnSet(f, (T \ {z}) \ {y}))
  BY <1>4, <1>7, <1>9
<1>12. SumFunctionOnSet(f, T) # f[z] + (f[y] + SumFunctionOnSet(f, (T \ {z}) \ {y}))
  BY <1>3, <1>8
<1> HIDE DEF B
<1> QED  BY <1>10, <1>11, <1>12

\* One index more.
LEMMA SumPutIn ==
  ASSUME NEW S, IsFiniteSet(S), NEW f, NEW x, x \notin S,
         \A y \in S \cup {x} : f[y] \in Int
  PROVE  SumFunctionOnSet(f, S \cup {x}) = f[x] + SumFunctionOnSet(f, S)
<1>1. IsFiniteSet(S \cup {x}) /\ (S \cup {x}) \ {x} = S /\ x \in S \cup {x}
  BY FS_AddElement
<1>2. SumFunctionOnSet(f, S \cup {x}) = f[x] + SumFunctionOnSet(f, (S \cup {x}) \ {x})
  BY <1>1, SumTakeOut
<1> QED  BY <1>1, <1>2

\* Only the values at the indices count, and greater values give no smaller sum.
LEMMA SumOfLess ==
  ASSUME NEW S, IsFiniteSet(S), NEW f, NEW g,
         \A x \in S : f[x] \in Int /\ g[x] \in Int /\ f[x] <= g[x]
  PROVE  SumFunctionOnSet(f, S) <= SumFunctionOnSet(g, S)
<1> DEFINE B == {T \in SUBSET S : ~ (SumFunctionOnSet(f, T) <= SumFunctionOnSet(g, T))}
<1> SUFFICES ASSUME B # {} PROVE FALSE
  OBVIOUS
<1>1. PICK T \in B : \A U \in B : U \subseteq T => U = T
  <2>1. B \subseteq SUBSET S
    OBVIOUS
  <2> HIDE DEF B
  <2> QED  BY <2>1, LeastSubset
<1>2. T # {}
  <2>1. 0 <= 0
    OBVIOUS
  <2> QED  BY <2>1, SumOfNothing
<1> DEFINE y == Pick(T)
           U == T \ {y}
<1>3. /\ y \in S /\ U \in SUBSET S /\ U \subseteq T /\ U # T
      /\ IsFiniteSet(T) /\ IsFiniteSet(U)
  BY <1>2, PickIsMember, FS_Subset
<1>4. /\ SumFunctionOnSet(f, T) = f[y] + SumFunctionOnSet(f, U)
      /\ SumFunctionOnSet(g, T) = g[y] + SumFunctionOnSet(g, U)
  BY <1>2, <1>3, SumByPick
<1>5. SumFunctionOnSet(f, U) <= SumFunctionOnSet(g, U)
  <2> HIDE DEF U
  <2> QED  BY <1>1, <1>3
<1>6. SumFunctionOnSet(f, U) \in Int /\ SumFunctionOnSet(g, U) \in Int
  <2> HIDE DEF U
  <2> QED  BY <1>3, SumIsInt
<1>7. ~ (SumFunctionOnSet(f, T) <= SumFunctionOnSet(g, T))
  OBVIOUS
<1> HIDE DEF y, U, B
<1> QED  BY <1>3, <1>4, <1>5, <1>6, <1>7

LEMMA SumOfSame ==
  ASSUME NEW S, IsFiniteSet(S), NEW f, NEW g,
         \A x \in S : f[x] \in Int /\ g[x] = f[x]
  PROVE  SumFunctionOnSet(g, S) = SumFunctionOnSet(f, S)
<1>1. \A x \in S : /\ f[x] \in Int /\ g[x] \in Int /\ f[x] <= g[x] /\ g[x] <= f[x]
  OBVIOUS
<1>2. SumFunctionOnSet(f, S) <= SumFunctionOnSet(g, S)
  BY <1>1, SumOfLess
<1>3. SumFunctionOnSet(g, S) <= SumFunctionOnSet(f, S)
  BY <1>1, SumOfLess
<1>4. SumFunctionOnSet(f, S) \in Int /\ SumFunctionOnSet(g, S) \in Int
  BY <1>1, SumIsInt
<1> QED  BY <1>2, <1>3, <1>4

LEMMA SumIsNat ==
  ASSUME NEW S, IsFiniteSet(S), NEW f, \A x \in S : f[x] \in Nat
  PROVE  SumFunctionOnSet(f, S) \in Nat
<1> DEFINE B == {T \in SUBSET S : SumFunctionOnSet(f, T) \notin Nat}
<1> SUFFICES ASSUME B # {} PROVE FALSE
  OBVIOUS
<1>1. PICK T \in B : \A U \in B : U \subseteq T => U = T
  <2>1. B \subseteq SUBSET S
    OBVIOUS
  <2> HIDE DEF B
  <2> QED  BY <2>1, LeastSubset
<1>2. T # {}
  BY SumOfNothing
<1>3. /\ Pick(T) \in S /\ T \ {Pick(T)} \in SUBSET S
      /\ T \ {Pick(T)} # T /\ IsFiniteSet(T)
  BY <1>2, PickIsMember, FS_Subset
<1>4. SumFunctionOnSet(f, T) = f[Pick(T)] + SumFunctionOnSet(f, T \ {Pick(T)})
  BY <1>2, <1>3, SumByPick
<1>5. SumFunctionOnSet(f, T \ {Pick(T)}) \in Nat
  BY <1>1, <1>3
<1> QED  BY <1>3, <1>4, <1>5

\* Two sets with no index in common.
LEMMA SumOfParts ==
  ASSUME NEW S, NEW T, IsFiniteSet(S), IsFiniteSet(T), S \cap T = {},
         NEW f, \A x \in S \cup T : f[x] \in Int
  PROVE  SumFunctionOnSet(f, S \cup T) = SumFunctionOnSet(f, S) + SumFunctionOnSet(f, T)
<1> DEFINE B == {U \in SUBSET T : SumFunctionOnSet(f, S \cup U)
                                    # SumFunctionOnSet(f, S) + SumFunctionOnSet(f, U)}
<1> SUFFICES ASSUME B # {} PROVE FALSE
  OBVIOUS
<1>1. PICK U \in B : \A V \in B : V \subseteq U => V = U
  <2>1. B \subseteq SUBSET T
    OBVIOUS
  <2> HIDE DEF B
  <2> QED  BY <2>1, LeastSubset
<1>2. SumFunctionOnSet(f, S) \in Int
  BY SumIsInt
<1>3. U # {}
  <2>1. S \cup {} = S /\ SumFunctionOnSet(f, S) = SumFunctionOnSet(f, S) + 0
    BY <1>2
  <2> QED  BY <2>1, SumOfNothing
<1> DEFINE y == Pick(U)
           V == U \ {y}
<1>4. /\ y \in T /\ V \in SUBSET T /\ V \subseteq U /\ V # U /\ y \notin V /\ y \notin S \cup V
      /\ IsFiniteSet(V) /\ U = V \cup {y} /\ S \cup U = (S \cup V) \cup {y}
  BY <1>3, PickIsMember, FS_Subset
<1>5. IsFiniteSet(S \cup V)
  BY <1>4, FS_Union
<1>6. SumFunctionOnSet(f, S \cup V) = SumFunctionOnSet(f, S) + SumFunctionOnSet(f, V)
  <2> HIDE DEF V
  <2> QED  BY <1>1, <1>4
<1>7. /\ \A x \in (S \cup V) \cup {y} : f[x] \in Int
      /\ \A x \in V \cup {y} : f[x] \in Int
  BY <1>4
<1>8. SumFunctionOnSet(f, U) = f[y] + SumFunctionOnSet(f, V)
  <2> HIDE DEF V, y
  <2> QED  BY <1>4, <1>7, SumPutIn
<1>9. SumFunctionOnSet(f, S \cup U) = f[y] + SumFunctionOnSet(f, S \cup V)
  <2> HIDE DEF V, y
  <2> QED  BY <1>4, <1>5, <1>7, SumPutIn
<1>10. SumFunctionOnSet(f, V) \in Int /\ f[y] \in Int
  <2> HIDE DEF V, y
  <2> QED  BY <1>4, <1>7, SumIsInt
<1>11. SumFunctionOnSet(f, S \cup U) # SumFunctionOnSet(f, S) + SumFunctionOnSet(f, U)
  OBVIOUS
<1> HIDE DEF V, y, B
<1> QED  BY <1>2, <1>6, <1>8, <1>9, <1>10, <1>11

\* A part of the indices: what they add to is what the others leave of the whole.
LEMMA SumWithout ==
  ASSUME NEW S, IsFiniteSet(S), NEW T, NEW f, \A x \in S : f[x] \in Int
  PROVE  SumFunctionOnSet(f, S \ T)
           = SumFunctionOnSet(f, S) - SumFunctionOnSet(f, S \cap T)
<1>1. /\ S \ T \in SUBSET S /\ S \cap T \in SUBSET S
      /\ (S \ T) \cap (S \cap T) = {} /\ (S \ T) \cup (S \cap T) = S
  OBVIOUS
<1>2. IsFiniteSet(S \ T) /\ IsFiniteSet(S \cap T)
  BY <1>1, FS_Subset
<1> DEFINE U == S \ T
           V == S \cap T
<1> HIDE DEF U, V
<1>3. SumFunctionOnSet(f, U \cup V) = SumFunctionOnSet(f, U) + SumFunctionOnSet(f, V)
  BY <1>1, <1>2, SumOfParts DEF U, V
<1>4. SumFunctionOnSet(f, U) \in Int /\ SumFunctionOnSet(f, V) \in Int
  BY <1>1, <1>2, SumIsInt DEF U, V
<1>5. SumFunctionOnSet(f, S) = SumFunctionOnSet(f, U) + SumFunctionOnSet(f, V)
  <2>1. U \cup V = S
    BY <1>1 DEF U, V
  <2> QED  BY <1>3, <2>1
<1>6. SumFunctionOnSet(f, U) = SumFunctionOnSet(f, S) - SumFunctionOnSet(f, V)
  BY <1>4, <1>5
<1> QED  BY <1>6 DEF U, V

\* The values may change at one index.
LEMMA SumChange ==
  ASSUME NEW S, IsFiniteSet(S), NEW x \in S, NEW f, NEW g,
         \A y \in S : f[y] \in Int /\ g[y] \in Int,
         \A y \in S : y # x => g[y] = f[y]
  PROVE  SumFunctionOnSet(g, S) = SumFunctionOnSet(f, S) - f[x] + g[x]
<1>1. IsFiniteSet(S \ {x})
  BY FS_RemoveElement
<1>2. /\ SumFunctionOnSet(f, S) = f[x] + SumFunctionOnSet(f, S \ {x})
      /\ SumFunctionOnSet(g, S) = g[x] + SumFunctionOnSet(g, S \ {x})
  BY SumTakeOut
<1>3. SumFunctionOnSet(g, S \ {x}) = SumFunctionOnSet(f, S \ {x})
  BY <1>1, SumOfSame
<1>4. SumFunctionOnSet(f, S \ {x}) \in Int
  BY <1>1, SumIsInt
<1> QED  BY <1>2, <1>3, <1>4

-----------------------------------------------------------------------------
(* What Minus leaves of a sequence.  Its recursion is over the length of the part     *)
(* that has been looked at.                                                          *)

\* What the function of Minus is at one length, given what it is at the length before.
Selects(g, s, gone) ==
  g = [n \in 0..Len(s) |->
         IF n = 0 THEN <<>>
         ELSE IF s[n] \in gone THEN g[n - 1] ELSE Append(g[n - 1], s[n])]

LEMMA MinusExists ==
  ASSUME NEW T, NEW s \in Seq(T), NEW gone
  PROVE  \E g : Selects(g, s, gone) /\ Minus(s, gone) = g[Len(s)]
<1> DEFINE Upto(g, k) == g = [n \in 0..k |->
             IF n = 0 THEN <<>>
             ELSE IF s[n] \in gone THEN g[n - 1] ELSE Append(g[n - 1], s[n])]
           B == {k \in Nat : ~ \E g : Upto(g, k)}
<1>1. B = {}
  <2> SUFFICES ASSUME B # {} PROVE FALSE
    OBVIOUS
  <2>1. PICK k \in B : \A m \in B : k <= m
    <3>1. B \in SUBSET Nat
      OBVIOUS
    <3> HIDE DEF B
    <3> QED  BY <3>1, LeastNumber
  <2>2. k \in Nat /\ ~ \E g : Upto(g, k)
    OBVIOUS
  <2>3. k # 0
    <3>1. Upto([n \in 0..0 |-> <<>>], 0)
      OBVIOUS
    <3> HIDE DEF Upto
    <3> QED  BY <2>2, <3>1
  <2>4. PICK g : Upto(g, k - 1)
    <3>1. k - 1 \in Nat /\ ~ (k <= k - 1)
      BY <2>2, <2>3
    <3>2. k - 1 \notin B
      <4> HIDE DEF B
      <4> QED  BY <2>1, <3>1
    <3> HIDE DEF Upto
    <3> QED  BY <3>1, <3>2
  <2> DEFINE last == IF s[k] \in gone THEN g[k - 1] ELSE Append(g[k - 1], s[k])
             h == [n \in 0..k |-> IF n < k THEN g[n] ELSE last]
  <2>5. ASSUME NEW n \in 0..k
        PROVE  h[n] = IF n = 0 THEN <<>>
                      ELSE IF s[n] \in gone THEN h[n - 1] ELSE Append(h[n - 1], s[n])
    <3>1. CASE n = k
      <4>1. k - 1 \in 0..k /\ k - 1 < k /\ k # 0 /\ ~ (k < k)
        BY <2>2, <2>3
      <4>2. h[k - 1] = g[k - 1] /\ h[k] = last
        BY <4>1
      <4> QED  BY <3>1, <4>1, <4>2
    <3>2. CASE n # k
      <4>1. n \in 0..(k - 1) /\ h[n] = g[n]
        BY <2>2, <3>2
      <4>2. n # 0 => n - 1 \in 0..k /\ h[n - 1] = g[n - 1]
        BY <2>2, <4>1
      <4>3. g[n] = IF n = 0 THEN <<>>
                   ELSE IF s[n] \in gone THEN g[n - 1] ELSE Append(g[n - 1], s[n])
        <5> HIDE DEF h, last
        <5> QED  BY <2>4, <4>1
      <4> HIDE DEF h
      <4> QED  BY <4>1, <4>2, <4>3
    <3> QED  BY <3>1, <3>2
  <2>6. h = [n \in 0..k |-> h[n]]
    OBVIOUS
  <2>7. Upto(h, k)
    <3> HIDE DEF h
    <3> QED  BY <2>5, <2>6
  <2> HIDE DEF Upto, h
  <2> QED  BY <2>2, <2>7
<1>2. Len(s) \in Nat
  BY LenProperties
<1>3. PICK g : Selects(g, s, gone)
  <2>1. Len(s) \notin B
    BY <1>1
  <2> QED  BY <1>2, <2>1 DEF Selects
<1> HIDE DEF B
<1> QED  BY <1>3 DEF Minus, Selects

\* Where elements of a set stand in a sequence.
Places(s, U) == {i \in 1..Len(s) : s[i] \in U}

\* It leaves the other elements, each as often as it was there.
LEMMA MinusFacts ==
  ASSUME NEW T, NEW s \in Seq(T), NEW gone
  PROVE  /\ Minus(s, gone) \in Seq(T)
         /\ Len(Minus(s, gone)) <= Len(s)
         /\ Range(Minus(s, gone)) = Range(s) \ gone
         /\ IsInjective(s) => IsInjective(Minus(s, gone))
         /\ \A U : U \cap gone = {} =>
              Cardinality(Places(Minus(s, gone), U)) = Cardinality(Places(s, U))
<1>1. PICK g : Selects(g, s, gone) /\ Minus(s, gone) = g[Len(s)]
  BY MinusExists
<1>2. Len(s) \in Nat /\ \A n \in 1..Len(s) : s[n] \in T
  BY LenProperties, ElementOfSeq
<1> DEFINE First(n) == {s[i] : i \in 1..n}
           Hits(n, U) == {i \in 1..n : s[i] \in U}
           Kept(n, U) == {i \in 1..Len(g[n]) : g[n][i] \in U}
           Typed(n) == g[n] \in Seq(T) /\ Len(g[n]) <= n
           Same(n) == {g[n][i] : i \in 1..Len(g[n])} = First(n) \ gone
           Once(n) == (\A i, j \in 1..n : s[i] = s[j] => i = j)
                        => \A i, j \in 1..Len(g[n]) : g[n][i] = g[n][j] => i = j
           Often(n) == \A U : U \cap gone = {} =>
                         Cardinality(Kept(n, U)) = Cardinality(Hits(n, U))
           Good(n) == Typed(n) /\ Same(n) /\ Once(n) /\ Often(n)
           B == {n \in 0..Len(s) : ~ Good(n)}
<1>3. Good(0)
  <2>1. g[0] = <<>>
    BY <1>1, <1>2 DEF Selects
  <2>2. Len(g[0]) = 0 /\ g[0] \in Seq(T)
    BY <2>1
  <2>3. 1..0 = {}
    OBVIOUS
  <2>4. First(0) = {} /\ \A U : Kept(0, U) = {} /\ Hits(0, U) = {}
    BY <2>2, <2>3
  <2> QED  BY <2>2, <2>3, <2>4
<1>4. ASSUME NEW n \in 1..Len(s), Good(n - 1)
      PROVE  Good(n)
  <2> DEFINE a == g[n - 1]
  <2>1. /\ n - 1 \in 0..Len(s) /\ n - 1 \in Nat /\ n \in Nat
        /\ 1..n = 1..(n - 1) \cup {n} /\ n \notin 1..(n - 1)
    BY <1>2
  <2>2. g[n] = IF s[n] \in gone THEN a ELSE Append(a, s[n])
    <3>1. n \in 0..Len(s) /\ n # 0
      BY <1>2
    <3>2. g[n] = IF n = 0 THEN <<>>
                 ELSE IF s[n] \in gone THEN g[n - 1] ELSE Append(g[n - 1], s[n])
      <4> HIDE DEF a, Good
      <4> QED  BY <1>1, <3>1 DEF Selects
    <3> QED  BY <3>1, <3>2
  <2>3. a \in Seq(T) /\ Len(a) \in Nat /\ Len(a) <= n - 1 /\ s[n] \in T
    BY <1>2, <1>4, LenProperties
  <2>4. {a[i] : i \in 1..Len(a)} = First(n - 1) \ gone
    BY <1>4
  <2>5. First(n) = First(n - 1) \cup {s[n]}
    <3> HIDE DEF a
    <3> QED  BY <2>1
  <2>6. ASSUME NEW U
        PROVE  /\ Hits(n, U) = Hits(n - 1, U) \cup (IF s[n] \in U THEN {n} ELSE {})
               /\ IsFiniteSet(Hits(n - 1, U)) /\ n \notin Hits(n - 1, U)
    <3>1. Hits(n - 1, U) \subseteq 1..(n - 1)
      OBVIOUS
    <3>2. IsFiniteSet(1..(n - 1))
      <4> HIDE DEF Good, Hits
      <4>1. 1 \in Int /\ n - 1 \in Int
        BY <2>1
      <4> QED  BY <4>1, FS_Interval
    <3>3. IsFiniteSet(Hits(n - 1, U))
      <4> HIDE DEF Hits
      <4> QED  BY <3>1, <3>2, FS_Subset
    <3> QED  BY <2>1, <3>3
  <2>7. CASE s[n] \in gone
    <3>1. g[n] = a
      BY <2>2, <2>7
    <3>2. Typed(n)
      BY <2>3, <3>1
    <3>3. Same(n)
      BY <2>4, <2>5, <2>7, <3>1
    <3>4. Once(n)
      BY <1>4, <2>1, <3>1
    <3>5. ASSUME NEW U, U \cap gone = {}
          PROVE  Cardinality(Kept(n, U)) = Cardinality(Hits(n, U))
      <4>1. s[n] \notin U
        BY <2>7, <3>5
      <4>2. Hits(n, U) = Hits(n - 1, U)
        <5> HIDE DEF Hits
        <5> QED  BY <2>6, <4>1
      <4>3. Kept(n, U) = Kept(n - 1, U)
        BY <3>1
      <4>4. Cardinality(Kept(n - 1, U)) = Cardinality(Hits(n - 1, U))
        BY <1>4, <3>5
      <4> HIDE DEF Hits, Kept
      <4> QED  BY <4>2, <4>3, <4>4
    <3> QED  BY <3>2, <3>3, <3>4, <3>5
  <2>8. CASE s[n] \notin gone
    <3>1. /\ g[n] = Append(a, s[n]) /\ g[n] \in Seq(T) /\ Len(g[n]) = Len(a) + 1
          /\ \A i \in 1..Len(a) : g[n][i] = a[i]
          /\ g[n][Len(a) + 1] = s[n]
      <4> HIDE DEF a
      <4> QED  BY <2>2, <2>3, <2>8, AppendProperties
    <3>2. 1..Len(g[n]) = 1..Len(a) \cup {Len(a) + 1} /\ Len(a) + 1 \notin 1..Len(a)
      <4> HIDE DEF a
      <4> QED  BY <2>3, <3>1
    <3>3. Typed(n)
      BY <2>3, <3>1
    <3>4. Same(n)
      <4>1. {g[n][i] : i \in 1..Len(g[n])} = {a[i] : i \in 1..Len(a)} \cup {s[n]}
        <5> HIDE DEF a
        <5> QED  BY <3>1, <3>2
      <4> QED  BY <2>4, <2>5, <2>8, <4>1
    <3>5. Once(n)
      <4> SUFFICES ASSUME \A i, j \in 1..n : s[i] = s[j] => i = j
                   PROVE  \A i, j \in 1..Len(g[n]) : g[n][i] = g[n][j] => i = j
        OBVIOUS
      <4>1. \A i, j \in 1..Len(a) : a[i] = a[j] => i = j
        BY <1>4, <2>1
      <4>2. \A i \in 1..Len(a) : a[i] # s[n]
        <5>1. s[n] \notin First(n - 1)
          BY <2>1
        <5> QED  BY <2>4, <5>1
      <4> HIDE DEF a
      <4> QED  BY <3>1, <3>2, <4>1, <4>2
    <3>6. ASSUME NEW U, U \cap gone = {}
          PROVE  Cardinality(Kept(n, U)) = Cardinality(Hits(n, U))
      <4>1. Kept(n, U) = Kept(n - 1, U) \cup (IF s[n] \in U THEN {Len(a) + 1} ELSE {})
        <5>1. Kept(n - 1, U) = {i \in 1..Len(a) : a[i] \in U}
          OBVIOUS
        <5> HIDE DEF a
        <5> QED  BY <3>1, <3>2, <5>1
      <4>2. IsFiniteSet(Kept(n - 1, U)) /\ Len(a) + 1 \notin Kept(n - 1, U)
        <5>1. IsFiniteSet(1..Len(a)) /\ Kept(n - 1, U) \in SUBSET (1..Len(a))
          <6>1. Kept(n - 1, U) = {i \in 1..Len(a) : a[i] \in U}
            OBVIOUS
          <6> HIDE DEF a, Kept
          <6> QED  BY <2>3, <6>1, FS_Interval
        <5> HIDE DEF a, Kept
        <5> QED  BY <3>2, <5>1, FS_Subset
      <4>3. Cardinality(Kept(n - 1, U)) = Cardinality(Hits(n - 1, U))
        BY <1>4, <3>6
      <4> HIDE DEF a, Kept, Hits
      <4>4. CASE s[n] \in U
        <5>1. Cardinality(Kept(n, U)) = Cardinality(Kept(n - 1, U)) + 1
          BY <4>1, <4>2, <4>4, FS_AddElement
        <5>2. Cardinality(Hits(n, U)) = Cardinality(Hits(n - 1, U)) + 1
          BY <2>6, <4>4, FS_AddElement
        <5> QED  BY <4>3, <5>1, <5>2
      <4>5. CASE s[n] \notin U
        BY <2>6, <4>1, <4>3, <4>5
      <4> QED  BY <4>4, <4>5
    <3> QED  BY <3>3, <3>4, <3>5, <3>6
  <2> QED  BY <2>7, <2>8
<1>5. B = {}
  <2> SUFFICES ASSUME B # {} PROVE FALSE
    OBVIOUS
  <2>1. PICK n \in B : \A m \in B : n <= m
    <3>1. B \in SUBSET Nat
      BY <1>2
    <3> HIDE DEF B
    <3> QED  BY <3>1, LeastNumber
  <2>2. n \in 0..Len(s) /\ ~ Good(n)
    OBVIOUS
  <2> HIDE DEF Good
  <2>3. n # 0
    BY <1>3, <2>2
  <2>4. n \in 1..Len(s) /\ n - 1 \in 0..Len(s) /\ ~ (n <= n - 1)
    BY <1>2, <2>2, <2>3
  <2>5. n - 1 \notin B
    <3> HIDE DEF B
    <3> QED  BY <2>1, <2>4
  <2> QED  BY <1>4, <2>2, <2>4, <2>5
<1>6. Good(Len(s))
  <2> HIDE DEF Good
  <2> QED  BY <1>2, <1>5
<1>7. DOMAIN s = 1..Len(s) /\ DOMAIN g[Len(s)] = 1..Len(g[Len(s)])
  BY <1>6, LenProperties
<1>8. Range(Minus(s, gone)) = Range(s) \ gone
  BY <1>1, <1>6, <1>7 DEF Range
<1>9. IsInjective(s) => IsInjective(Minus(s, gone))
  BY <1>1, <1>6, <1>7 DEF IsInjective
<1>10. \A U : U \cap gone = {} =>
         Cardinality(Places(Minus(s, gone), U)) = Cardinality(Places(s, U))
  BY <1>1, <1>6 DEF Places
<1> QED  BY <1>1, <1>6, <1>8, <1>9, <1>10
-----------------------------------------------------------------------------
(* Sequences without repetitions.                                                    *)

LEMMA FirstNumbers ==
  ASSUME NEW k \in Nat
  PROVE  IsFiniteSet(1..k) /\ Cardinality(1..k) = k
BY FS_Interval

\* A sequence without repetitions is as long as it has elements.
LEMMA OnceEach ==
  ASSUME NEW T, NEW s \in Seq(T), IsInjective(s)
  PROVE  IsFiniteSet(Range(s)) /\ Cardinality(Range(s)) = Len(s) /\ Len(s) \in Nat
<1>1. Len(s) \in Nat /\ DOMAIN s = 1..Len(s) /\ s \in [1..Len(s) -> T]
  BY LenProperties
<1>2. IsFiniteSet(1..Len(s)) /\ Cardinality(1..Len(s)) = Len(s)
  BY <1>1, FS_Interval
<1>3. s \in Surjection(1..Len(s), Range(s))
  BY <1>1 DEF Surjection, Range
<1>4. s \in Injection(1..Len(s), Range(s))
  BY <1>1, <1>3 DEF Injection, IsInjective, Surjection
<1> QED  BY <1>1, <1>2, <1>3, <1>4, FS_Surjection

\* A new element at the end.
LEMMA AppendNew ==
  ASSUME NEW T, NEW s \in Seq(T), IsInjective(s), NEW x \in T, x \notin Range(s)
  PROVE  /\ Append(s, x) \in Seq(T) /\ IsInjective(Append(s, x))
         /\ Range(Append(s, x)) = Range(s) \cup {x}
         /\ Len(Append(s, x)) = Len(s) + 1
<1> DEFINE longer == Append(s, x)
<1>1. /\ longer \in Seq(T) /\ Len(longer) = Len(s) + 1
      /\ \A i \in 1..Len(s) : longer[i] = s[i]
      /\ longer[Len(s) + 1] = x
  BY AppendProperties
<1> HIDE DEF longer
<1>2. /\ DOMAIN longer = 1..Len(s) \cup {Len(s) + 1}
      /\ DOMAIN s = 1..Len(s) /\ Len(s) + 1 \notin 1..Len(s)
  BY <1>1, LenProperties
<1>3. Range(longer) = Range(s) \cup {x}
  BY <1>1, <1>2 DEF Range
<1>4. IsInjective(longer)
  <2>1. \A i \in DOMAIN s : s[i] # x
    BY DEF Range
  <2> QED  BY <1>1, <1>2, <2>1 DEF IsInjective
<1> QED  BY <1>1, <1>3, <1>4 DEF longer

\* The first n elements of such a sequence, and the others.
LEMMA CutInTwo ==
  ASSUME NEW T, NEW s \in Seq(T), IsInjective(s), NEW n \in 0..Len(s)
  PROVE  /\ SubSeq(s, n + 1, Len(s)) \in Seq(T) /\ IsInjective(SubSeq(s, n + 1, Len(s)))
         /\ Len(SubSeq(s, n + 1, Len(s))) = Len(s) - n
         /\ Range(SubSeq(s, n + 1, Len(s))) = Range(s) \ Range(SubSeq(s, 1, n))
         /\ Range(SubSeq(s, 1, n)) \subseteq Range(s)
<1>1. Len(s) \in Nat /\ n \in Nat /\ n <= Len(s) /\ DOMAIN s = 1..Len(s)
      /\ \A i \in 1..Len(s) : s[i] \in T
  BY LenProperties, ElementOfSeq
<1> DEFINE front == SubSeq(s, 1, n)
           back == SubSeq(s, n + 1, Len(s))
<1>2. front \in Seq(T) /\ Len(front) = n /\ \A i \in 1..n : front[i] = s[i]
  <2>1. \A i \in 1..n : s[i] \in T
    BY <1>1
  <2>2. /\ SubSeq(s, 1, n) \in Seq(T)
        /\ Len(SubSeq(s, 1, n)) = IF 1 <= n THEN n - 1 + 1 ELSE 0
        /\ \A i \in 1..(n - 1 + 1) : SubSeq(s, 1, n)[i] = s[1 + i - 1]
    BY <1>1, <2>1, SubSeqProperties
  <2> QED  BY <1>1, <2>2
<1>3. /\ back \in Seq(T) /\ Len(back) = Len(s) - n
      /\ \A i \in 1..(Len(s) - n) : back[i] = s[n + i]
  <2>1. \A i \in (n + 1)..Len(s) : s[i] \in T
    BY <1>1
  <2>2. /\ back \in Seq(T)
        /\ Len(back) = IF n + 1 <= Len(s) THEN Len(s) - (n + 1) + 1 ELSE 0
        /\ \A i \in 1..(Len(s) - (n + 1) + 1) : back[i] = s[(n + 1) + i - 1]
    <3>1. n + 1 \in Int /\ Len(s) \in Int
      BY <1>1
    <3> QED  BY <2>1, <3>1, SubSeqProperties
  <2> QED  BY <1>1, <2>2
<1> HIDE DEF front, back
<1>4. DOMAIN front = 1..n /\ DOMAIN back = 1..(Len(s) - n)
  BY <1>2, <1>3, LenProperties
<1>5. \A i, j \in 1..Len(s) : s[i] = s[j] => i = j
  BY <1>1 DEF IsInjective
<1>6. IsInjective(back)
  <2> SUFFICES ASSUME NEW i \in 1..(Len(s) - n), NEW j \in 1..(Len(s) - n), back[i] = back[j]
               PROVE  i = j
    BY <1>4 DEF IsInjective
  <2>1. s[n + i] = s[n + j] /\ n + i \in 1..Len(s) /\ n + j \in 1..Len(s)
    BY <1>1, <1>3
  <2> QED  BY <1>1, <1>5, <2>1
<1>7. Range(s) = {s[i] : i \in 1..Len(s)} /\ Range(front) = {s[i] : i \in 1..n}
  BY <1>1, <1>2, <1>4 DEF Range
<1>8. Range(back) = {s[i] : i \in (n + 1)..Len(s)}
  <2>1. Range(back) = {s[n + i] : i \in 1..(Len(s) - n)}
    BY <1>3, <1>4 DEF Range
  <2>2. ASSUME NEW i \in (n + 1)..Len(s)
        PROVE  i - n \in 1..(Len(s) - n) /\ i = n + (i - n)
    BY <1>1
  <2>3. ASSUME NEW i \in 1..(Len(s) - n)
        PROVE  n + i \in (n + 1)..Len(s)
    BY <1>1
  <2> QED  BY <2>1, <2>2, <2>3
<1>9. /\ 1..n \subseteq 1..Len(s) /\ (n + 1)..Len(s) = (1..Len(s)) \ (1..n)
  BY <1>1
<1>10. Range(back) = Range(s) \ Range(front) /\ Range(front) \subseteq Range(s)
  BY <1>5, <1>7, <1>8, <1>9
<1> QED  BY <1>3, <1>6, <1>10 DEF front, back
=============================================================================
