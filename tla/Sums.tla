-------------------------------- MODULE Sums --------------------------------
(***************************************************************************)
(* What SumFunctionOnSet of the community modules computes, for any finite *)
(* set of indices.  It is a recursive function over subsets, which takes   *)
(* some element off at a time: that there is such a function, that the     *)
(* order makes no difference, and how a sum changes with its terms, is     *)
(* proved by a smallest counterexample, a set, because a theorem about     *)
(* sets can be cited where one about predicates cannot.                    *)
(***************************************************************************)
EXTENDS Integers, Functions, FiniteSetTheorems, WellFoundedInduction, TLAPS

\* The induction of the sums below: a family of subsets of a finite set that is
\* not empty has a member such that no member is smaller by an element.
LEMMA SmallestMember ==
    ASSUME NEW S, IsFiniteSet(S), NEW Bad \in SUBSET SUBSET S, Bad # {}
    PROVE  \E T \in Bad : \A x \in T : T \ {x} \notin Bad
<1>1. IsWellFoundedOn(StrictSubsetOrdering(S), FiniteSubsetsOf(S))
  BY FS_StrictSubsetOrderingWellFounded
<1>2. Bad \subseteq FiniteSubsetsOf(S)
  BY FS_Subset DEF FiniteSubsetsOf
<1>3. PICK T \in Bad : \A U \in Bad : ~ (<<U, T>> \in StrictSubsetOrdering(S))
  BY <1>1, <1>2, WFMin
<1>4. ASSUME NEW x \in T PROVE T \ {x} \notin Bad
  <2>1. T \ {x} \in SUBSET S /\ T \ {x} # T /\ T \ {x} \subseteq T
    BY <1>4
  <2>. QED  BY <1>3, <2>1 DEF StrictSubsetOrdering
<1>. QED  BY <1>4

\* The recursion behind SumFunctionOnSet.
FirstOf(s) == CHOOSE x \in s : TRUE
Recurs(h, f, S) ==
    h = [s \in SUBSET S |-> IF s = {} THEN 0 ELSE f[FirstOf(s)] + h[s \ {FirstOf(s)}]]

\* A sum is a value of that function.
LEMMA SumIsRecursive ==
    ASSUME NEW f, NEW S
    PROVE  SumFunctionOnSet(f, S) = (CHOOSE h : Recurs(h, f, S))[S]
  BY DEF SumFunctionOnSet, FoldFunctionOnSet, MapThenFoldSet, Recurs, FirstOf

\* The recursion for the subsets of at most n elements.
SmallSubsets(S, n) == {s \in SUBSET S : Cardinality(s) <= n}
RecursTo(h, f, S, n) ==
    h = [s \in SmallSubsets(S, n) |->
            IF s = {} THEN 0 ELSE f[FirstOf(s)] + h[s \ {FirstOf(s)}]]

\* One more element.
LEMMA RecursionGrows ==
    ASSUME NEW f, NEW S, IsFiniteSet(S), NEW n \in Nat, NEW g, RecursTo(g, f, S, n)
    PROVE  \E h : RecursTo(h, f, S, n + 1)
<1> DEFINE h == [s \in SmallSubsets(S, n + 1) |->
                    IF s = {} THEN 0 ELSE f[FirstOf(s)] + g[s \ {FirstOf(s)}]]
<1>1. ASSUME NEW s \in SmallSubsets(S, n + 1), s # {}
      PROVE  h[s \ {FirstOf(s)}] = g[s \ {FirstOf(s)}]
  <2> DEFINE r == s \ {FirstOf(s)}
  <2>1. FirstOf(s) \in s
    BY <1>1 DEF FirstOf
  <2>2. IsFiniteSet(s) /\ s \subseteq S /\ Cardinality(s) \in Nat /\ Cardinality(s) <= n + 1
    BY FS_Subset, FS_CardinalityType DEF SmallSubsets
  <2>3. Cardinality(r) = Cardinality(s) - 1 /\ r \in SUBSET S
    BY <2>1, <2>2, FS_RemoveElement
  <2>4. r \in SmallSubsets(S, n) /\ r \in SmallSubsets(S, n + 1)
    BY <2>2, <2>3 DEF SmallSubsets
  <2> HIDE DEF r
  <2>5. h[r] = IF r = {} THEN 0 ELSE f[FirstOf(r)] + g[r \ {FirstOf(r)}]
    BY <2>4
  <2>6. g[r] = IF r = {} THEN 0 ELSE f[FirstOf(r)] + g[r \ {FirstOf(r)}]
    BY <2>4 DEF RecursTo
  <2>. QED  BY <2>5, <2>6 DEF r
<1>2. h = [s \in SmallSubsets(S, n + 1) |->
              IF s = {} THEN 0 ELSE f[FirstOf(s)] + h[s \ {FirstOf(s)}]]
  BY <1>1
<1> HIDE DEF h
<1>. QED  BY <1>2 DEF RecursTo

\* There is a function that the recursion describes.
LEMMA RecursionExists ==
    ASSUME NEW f, NEW S, IsFiniteSet(S)
    PROVE  \E h : Recurs(h, f, S)
<1> DEFINE Bad == {T \in SUBSET S : ~ \E h : RecursTo(h, f, S, Cardinality(T))}
<1>1. Bad = {}
  <2> SUFFICES ASSUME Bad # {} PROVE FALSE
    OBVIOUS
  <2>0. PICK T \in Bad : \A x \in T : T \ {x} \notin Bad
    <3>1. Bad \in SUBSET SUBSET S
      OBVIOUS
    <3> HIDE DEF Bad
    <3>. QED  BY <3>1, SmallestMember
  <2> DEFINE n == Cardinality(T)
  <2>1. IsFiniteSet(T) /\ n \in Nat
    BY FS_Subset, FS_CardinalityType
  <2>2. CASE n = 0
    <3>1. SmallSubsets(S, 0) = {{}}
      <4>1. ASSUME NEW s \in SmallSubsets(S, 0) PROVE s = {}
        <5>1. s \in SUBSET S /\ Cardinality(s) <= 0
          BY DEF SmallSubsets
        <5>2. IsFiniteSet(s) /\ Cardinality(s) \in Nat
          BY <5>1, FS_Subset, FS_CardinalityType
        <5>. QED  BY <5>1, <5>2, FS_EmptySet
      <4>2. {} \in SmallSubsets(S, 0)
        BY FS_EmptySet DEF SmallSubsets
      <4>. QED  BY <4>1, <4>2
    <3>2. RecursTo([s \in SmallSubsets(S, 0) |-> 0], f, S, 0)
      BY <3>1 DEF RecursTo
    <3>. QED  BY <2>2, <3>2
  <2>3. CASE n # 0
    <3>1. PICK x \in T : TRUE
      BY <2>1, <2>3, FS_EmptySet
    <3>2. Cardinality(T \ {x}) = n - 1 /\ T \ {x} \in SUBSET S
      BY <2>1, FS_RemoveElement
    <3>3. PICK g : RecursTo(g, f, S, n - 1)
      BY <2>0, <3>1, <3>2
    <3>4. n - 1 \in Nat /\ (n - 1) + 1 = n
      BY <2>1, <2>3
    <3>5. \E h : RecursTo(h, f, S, (n - 1) + 1)
      BY <3>3, <3>4, RecursionGrows
    <3>. QED  BY <3>4, <3>5
  <2>. QED  BY <2>2, <2>3
<1>2. SUBSET S = SmallSubsets(S, Cardinality(S)) /\ Cardinality(S) \in Nat
  BY FS_Subset, FS_CardinalityType DEF SmallSubsets
<1>3. PICK h : RecursTo(h, f, S, Cardinality(S))
  BY <1>1
<1>4. Recurs(h, f, S)
  BY <1>2, <1>3 DEF Recurs, RecursTo
<1>. QED  BY <1>4

\* Which set the recursion is over does not matter.
LEMMA RecursionsAgree ==
    ASSUME NEW f, NEW S, IsFiniteSet(S), NEW R \in SUBSET S,
           NEW h, Recurs(h, f, S), NEW g, Recurs(g, f, R)
    PROVE  h[R] = g[R]
<1> DEFINE Bad == {s \in SUBSET R : h[s] # g[s]}
<1>1. Bad = {}
  <2> SUFFICES ASSUME Bad # {} PROVE FALSE
    OBVIOUS
  <2>0. IsFiniteSet(R)
    BY FS_Subset
  <2>1. PICK s \in Bad : \A x \in s : s \ {x} \notin Bad
    <3>1. Bad \in SUBSET SUBSET R
      OBVIOUS
    <3> HIDE DEF Bad
    <3>. QED  BY <2>0, <3>1, SmallestMember
  <2>2. /\ h[s] = IF s = {} THEN 0 ELSE f[FirstOf(s)] + h[s \ {FirstOf(s)}]
        /\ g[s] = IF s = {} THEN 0 ELSE f[FirstOf(s)] + g[s \ {FirstOf(s)}]
    BY DEF Recurs
  <2>3. s # {} => FirstOf(s) \in s
    BY DEF FirstOf
  <2>4. s # {} => h[s \ {FirstOf(s)}] = g[s \ {FirstOf(s)}]
    BY <2>1, <2>3
  <2>. QED  BY <2>2, <2>4
<1>. QED  BY <1>1

\* A sum by its first element.
LEMMA SumUnfolds ==
    ASSUME NEW f, NEW S, IsFiniteSet(S)
    PROVE  SumFunctionOnSet(f, S) =
             IF S = {} THEN 0
             ELSE f[FirstOf(S)] + SumFunctionOnSet(f, S \ {FirstOf(S)})
<1> DEFINE h == CHOOSE h : Recurs(h, f, S)
           R == S \ {FirstOf(S)}
           g == CHOOSE g : Recurs(g, f, R)
<1>1. Recurs(h, f, S)
  BY RecursionExists
<1>2. IsFiniteSet(R) /\ R \in SUBSET S
  BY FS_Subset
<1>3. Recurs(g, f, R)
  BY <1>2, RecursionExists
<1>4. SumFunctionOnSet(f, S) = h[S] /\ SumFunctionOnSet(f, R) = g[R]
  BY SumIsRecursive
<1> HIDE DEF h, g, R
<1>5. h[R] = g[R]
  BY <1>1, <1>2, <1>3, RecursionsAgree
<1>6. h[S] = IF S = {} THEN 0 ELSE f[FirstOf(S)] + h[R]
  BY <1>1 DEF Recurs, R
<1>. QED  BY <1>4, <1>5, <1>6 DEF R

\* The empty sum.
LEMMA SumOfNothing == ASSUME NEW f PROVE SumFunctionOnSet(f, {}) = 0
  BY SumUnfolds, FS_EmptySet

\* A sum of integers is one.
LEMMA SumIsInt ==
    ASSUME NEW f, NEW S, IsFiniteSet(S), \A x \in S : f[x] \in Int
    PROVE  SumFunctionOnSet(f, S) \in Int
<1> DEFINE Bad == {s \in SUBSET S : SumFunctionOnSet(f, s) \notin Int}
<1>1. Bad = {}
  <2> SUFFICES ASSUME Bad # {} PROVE FALSE
    OBVIOUS
  <2>1. PICK s \in Bad : \A x \in s : s \ {x} \notin Bad
    <3>1. Bad \in SUBSET SUBSET S
      OBVIOUS
    <3> HIDE DEF Bad
    <3>. QED  BY <3>1, SmallestMember
  <2>2. IsFiniteSet(s)
    BY FS_Subset
  <2>3. s # {} => FirstOf(s) \in s
    BY DEF FirstOf
  <2>4. s # {} => SumFunctionOnSet(f, s \ {FirstOf(s)}) \in Int /\ f[FirstOf(s)] \in Int
    BY <2>1, <2>3
  <2>5. SumFunctionOnSet(f, s) =
          IF s = {} THEN 0 ELSE f[FirstOf(s)] + SumFunctionOnSet(f, s \ {FirstOf(s)})
    BY <2>2, SumUnfolds
  <2>6. SumFunctionOnSet(f, s) \in Int
    BY <2>4, <2>5
  <2>. QED  BY <2>6
<1>. QED  BY <1>1

\* A sum by any of its elements.
LEMMA SumByElement ==
    ASSUME NEW f, NEW S, IsFiniteSet(S), \A x \in S : f[x] \in Int, NEW x \in S
    PROVE  SumFunctionOnSet(f, S) = f[x] + SumFunctionOnSet(f, S \ {x})
<1> DEFINE Sum(s) == SumFunctionOnSet(f, s)
           Bad == {s \in SUBSET S : \E y \in s : Sum(s) # f[y] + Sum(s \ {y})}
<1>0. ASSUME NEW s \in SUBSET S PROVE IsFiniteSet(s) /\ Sum(s) \in Int
  BY FS_Subset, SumIsInt
<1>1. Bad = {}
  <2> SUFFICES ASSUME Bad # {} PROVE FALSE
    OBVIOUS
  <2>1. PICK s \in Bad : \A z \in s : s \ {z} \notin Bad
    <3>1. Bad \in SUBSET SUBSET S
      OBVIOUS
    <3> HIDE DEF Bad
    <3>. QED  BY <3>1, SmallestMember
  <2>2. PICK y \in s : Sum(s) # f[y] + Sum(s \ {y})
    OBVIOUS
  <2> DEFINE z == FirstOf(s)
  <2>3. z \in s
    BY <2>2 DEF FirstOf
  <2>4. Sum(s) = f[z] + Sum(s \ {z})
    BY <1>0, <2>2, SumUnfolds
  <2> HIDE DEF z, Sum
  <2>5. y # z
    BY <2>2, <2>4
  <2>6. y \in s \ {z} /\ z \in s \ {y}
    BY <2>3, <2>5
  <2> DEFINE rest == Sum((s \ {z}) \ {y})
  <2>7. Sum(s \ {z}) = f[y] + rest
    BY <2>1, <2>3, <2>6
  <2>8. Sum(s \ {y}) = f[z] + rest
    <3>1. (s \ {z}) \ {y} = (s \ {y}) \ {z}
      OBVIOUS
    <3>2. Sum(s \ {y}) = f[z] + Sum((s \ {y}) \ {z})
      BY <2>1, <2>2, <2>6
    <3>. QED  BY <3>1, <3>2
  <2>9. rest \in Int /\ f[y] \in Int /\ f[z] \in Int
    <3>1. (s \ {z}) \ {y} \in SUBSET S
      OBVIOUS
    <3>. QED  BY <1>0, <2>3, <3>1
  <2> HIDE DEF rest
  <2>10. Sum(s) = f[y] + Sum(s \ {y})
    BY <2>4, <2>7, <2>8, <2>9
  <2>. QED  BY <2>2, <2>10
<1>. QED  BY <1>1

\* On S, g is f, plus h in R.
AddsTerms(f, g, h, S, R) ==
    \A x \in S : /\ f[x] \in Int /\ g[x] \in Int
                 /\ x \in R => h[x] \in Int /\ g[x] = f[x] + h[x]
                 /\ x \notin R => g[x] = f[x]

\* A sum by what is added to its terms.
LEMMA SumOfTerms ==
    ASSUME NEW f, NEW g, NEW h, NEW S, IsFiniteSet(S), NEW R, AddsTerms(f, g, h, S, R)
    PROVE  SumFunctionOnSet(g, S) = SumFunctionOnSet(f, S) + SumFunctionOnSet(h, S \cap R)
<1>0. \A x \in S : /\ f[x] \in Int /\ g[x] \in Int
                   /\ x \in R => h[x] \in Int /\ g[x] = f[x] + h[x]
                   /\ x \notin R => g[x] = f[x]
  BY DEF AddsTerms
<1> USE <1>0
<1> DEFINE SumF(s) == SumFunctionOnSet(f, s)
           SumG(s) == SumFunctionOnSet(g, s)
           SumH(s) == SumFunctionOnSet(h, s)
           Bad == {s \in SUBSET S : SumG(s) # SumF(s) + SumH(s \cap R)}
<1>1. Bad = {}
  <2> SUFFICES ASSUME Bad # {} PROVE FALSE
    OBVIOUS
  <2>1. PICK s \in Bad : \A z \in s : s \ {z} \notin Bad
    <3>1. Bad \in SUBSET SUBSET S
      OBVIOUS
    <3> HIDE DEF Bad
    <3>. QED  BY <3>1, SmallestMember
  <2>2. s # {}
    <3>1. SumF({}) = 0 /\ SumG({}) = 0 /\ SumH({}) = 0
      BY SumOfNothing
    <3>2. SUFFICES ASSUME s = {} PROVE SumG(s) = SumF(s) + SumH(s \cap R)
      OBVIOUS
    <3>3. s \cap R = {}
      BY <3>2
    <3>4. SumG(s) = 0 /\ SumF(s) = 0 /\ SumH(s \cap R) = 0
      BY <3>1, <3>2, <3>3
    <3> HIDE DEF SumF, SumG, SumH
    <3>. QED  BY <3>4
  <2>3. PICK x \in s : TRUE
    BY <2>2
  <2>4. SumG(s \ {x}) = SumF(s \ {x}) + SumH((s \ {x}) \cap R)
    BY <2>1, <2>3
  <2>5. IsFiniteSet(s) /\ IsFiniteSet(s \ {x}) /\ IsFiniteSet(s \cap R)
        /\ IsFiniteSet((s \ {x}) \cap R)
    <3>1. s \in SUBSET S /\ s \ {x} \in SUBSET S /\ s \cap R \in SUBSET S
          /\ (s \ {x}) \cap R \in SUBSET S
      OBVIOUS
    <3>. QED  BY <3>1, FS_Subset
  <2>6. SumF(s) = f[x] + SumF(s \ {x}) /\ SumG(s) = g[x] + SumG(s \ {x})
    BY <2>5, SumByElement
  <2>7. SumF(s \ {x}) \in Int /\ SumH((s \ {x}) \cap R) \in Int
    BY <2>5, SumIsInt
  <2>8. CASE x \in R
    <3>1. (s \cap R) \ {x} = (s \ {x}) \cap R /\ x \in s \cap R
      BY <2>8
    <3>2. SumH(s \cap R) = h[x] + SumH((s \cap R) \ {x})
      BY <2>5, <3>1, SumByElement
    <3>3. g[x] = f[x] + h[x] /\ f[x] \in Int /\ h[x] \in Int
      BY <2>8
    <3>4. SumH(s \cap R) = h[x] + SumH((s \ {x}) \cap R)
      BY <3>1, <3>2
    <3> HIDE DEF SumF, SumG, SumH
    <3>5. SumG(s) = SumF(s) + SumH(s \cap R)
      BY <2>4, <2>6, <2>7, <3>3, <3>4
    <3>. QED  BY <3>5
  <2>9. CASE x \notin R
    <3>1. s \cap R = (s \ {x}) \cap R
      BY <2>9
    <3>2. g[x] = f[x] /\ f[x] \in Int
      BY <2>9
    <3>3. SumH(s \cap R) = SumH((s \ {x}) \cap R)
      BY <3>1
    <3> HIDE DEF SumF, SumG, SumH
    <3>4. SumG(s) = SumF(s) + SumH(s \cap R)
      BY <2>4, <2>6, <2>7, <3>2, <3>3
    <3>. QED  BY <3>4
  <2>. QED  BY <2>8, <2>9
<1>. QED  BY <1>1

\* Equal terms have equal sums.
LEMMA SameSum ==
    ASSUME NEW f, NEW g, NEW S, IsFiniteSet(S), \A x \in S : f[x] \in Int /\ g[x] = f[x]
    PROVE  SumFunctionOnSet(g, S) = SumFunctionOnSet(f, S)
<1> DEFINE R == {}
<1>0. AddsTerms(f, g, f, S, R)
  BY DEF AddsTerms
<1> HIDE DEF R
<1>1. SumFunctionOnSet(g, S) = SumFunctionOnSet(f, S) + SumFunctionOnSet(f, S \cap R)
  BY <1>0, SumOfTerms
<1>2. S \cap R = {} /\ SumFunctionOnSet(f, {}) = 0 /\ SumFunctionOnSet(f, S) \in Int
  BY SumOfNothing, SumIsInt DEF R
<1>. QED  BY <1>1, <1>2

\* A sum of zeros.
LEMMA SumOfZeros ==
    ASSUME NEW f, NEW S, IsFiniteSet(S), \A x \in S : f[x] = 0
    PROVE  SumFunctionOnSet(f, S) = 0
<1> DEFINE R == S
<1>1. AddsTerms(f, f, f, S, R)
  BY DEF AddsTerms
<1>2. S \cap R = S
  OBVIOUS
<1> HIDE DEF R
<1>3. SumFunctionOnSet(f, S) = SumFunctionOnSet(f, S) + SumFunctionOnSet(f, S \cap R)
  BY <1>1, SumOfTerms
<1>4. SumFunctionOnSet(f, S) \in Int
  BY <1>1, SumIsInt
<1>. QED  BY <1>2, <1>3, <1>4

\* R is S with each index n higher, and f there what g is on S.
IsShift(R, S, n) == \A j : j \in R <=> \E k \in S : j = n + k
ShiftsTerms(f, g, S, n) == \A k \in S : g[k] \in Int /\ f[n + k] = g[k]

\* A sum does not change when its indices are shifted.
LEMMA ShiftedSum ==
    ASSUME NEW f, NEW g, NEW n \in Nat, NEW S \in SUBSET Nat, IsFiniteSet(S),
           ShiftsTerms(f, g, S, n), NEW R, IsShift(R, S, n)
    PROVE  IsFiniteSet(R) /\ SumFunctionOnSet(f, R) = SumFunctionOnSet(g, S)
<1>a. /\ \A k \in S : g[k] \in Int /\ f[n + k] = g[k]
      /\ \A j : j \in R <=> \E k \in S : j = n + k
  BY DEF ShiftsTerms, IsShift
<1> DEFINE Shift(s) == {n + k : k \in s}
           Fine(s) == /\ IsFiniteSet(Shift(s))
                      /\ SumFunctionOnSet(f, Shift(s)) = SumFunctionOnSet(g, s)
           Bad == {s \in SUBSET S : ~ Fine(s)}
<1>1. Bad = {}
  <2> SUFFICES ASSUME Bad # {} PROVE FALSE
    OBVIOUS
  <2>1. PICK s \in Bad : \A z \in s : s \ {z} \notin Bad
    <3>1. Bad \in SUBSET SUBSET S
      OBVIOUS
    <3> HIDE DEF Bad
    <3>. QED  BY <3>1, SmallestMember
  <2>2. ASSUME s = {} PROVE Fine(s)
    <3>1. Shift(s) = {}
      BY <2>2
    <3>2. IsFiniteSet({}) /\ SumFunctionOnSet(f, {}) = 0 /\ SumFunctionOnSet(g, {}) = 0
      BY SumOfNothing, FS_EmptySet
    <3>. QED  BY <2>2, <3>1, <3>2
  <2>3. ASSUME NEW x \in s PROVE Fine(s)
    <3> DEFINE r == s \ {x}
    <3>1. Fine(r)
      BY <2>1
    <3>2. Shift(r) = Shift(s) \ {n + x} /\ n + x \in Shift(s) /\ Shift(s) = Shift(r) \cup {n + x}
      <4>1. \A k \in s : k \in Nat
        OBVIOUS
      <4>2. \A k \in r : n + k # n + x
        BY <4>1
      <4>. QED  BY <4>1, <4>2
    <3>3. IsFiniteSet(Shift(s)) /\ IsFiniteSet(s)
      <4>1. IsFiniteSet(Shift(r) \cup {n + x})
        BY <3>1, FS_AddElement
      <4>. QED  BY <3>2, <4>1, FS_Subset
    <3>4. (\A j \in Shift(s) : f[j] \in Int) /\ (\A k \in s : g[k] \in Int)
      BY <1>a
    <3> HIDE DEF Shift, r, Bad, Fine
    <3>5. SumFunctionOnSet(f, Shift(s)) = f[n + x] + SumFunctionOnSet(f, Shift(s) \ {n + x})
      BY <3>2, <3>3, <3>4, SumByElement
    <3>6. SumFunctionOnSet(g, s) = g[x] + SumFunctionOnSet(g, s \ {x})
      BY <3>3, <3>4, SumByElement
    <3>7. f[n + x] = g[x]
      BY <1>a DEF Bad
    <3>. QED  BY <3>1, <3>2, <3>3, <3>5, <3>6, <3>7 DEF r, Fine
  <2>. QED  BY <2>2, <2>3
<1>2. Fine(S) /\ R = Shift(S)
  BY <1>1, <1>a
<1>. QED  BY <1>2

\* The sum over two sets that have no index in common.
LEMMA SumOfBoth ==
    ASSUME NEW f, NEW S, IsFiniteSet(S), NEW R, IsFiniteSet(R), S \cap R = {},
           \A x \in S \cup R : f[x] \in Int
    PROVE  SumFunctionOnSet(f, S \cup R) = SumFunctionOnSet(f, S) + SumFunctionOnSet(f, R)
<1> DEFINE Fine(s) == SumFunctionOnSet(f, S \cup s)
                        = SumFunctionOnSet(f, S) + SumFunctionOnSet(f, s)
           Bad == {s \in SUBSET R : ~ Fine(s)}
<1>1. Bad = {}
  <2> SUFFICES ASSUME Bad # {} PROVE FALSE
    OBVIOUS
  <2>1. PICK s \in Bad : \A z \in s : s \ {z} \notin Bad
    <3>1. Bad \in SUBSET SUBSET R
      OBVIOUS
    <3> HIDE DEF Bad
    <3>. QED  BY <3>1, SmallestMember
  <2>2. ASSUME s = {} PROVE Fine(s)
    <3>1. S \cup s = S
      BY <2>2
    <3>2. SumFunctionOnSet(f, {}) = 0 /\ SumFunctionOnSet(f, S) \in Int
      BY SumOfNothing, SumIsInt
    <3>. QED  BY <2>2, <3>1, <3>2
  <2>3. ASSUME NEW x \in s PROVE Fine(s)
    <3>1. SumFunctionOnSet(f, S \cup (s \ {x}))
            = SumFunctionOnSet(f, S) + SumFunctionOnSet(f, s \ {x})
      BY <2>1
    <3>2. (S \cup s) \ {x} = S \cup (s \ {x}) /\ x \in S \cup s
      OBVIOUS
    <3>3. IsFiniteSet(s) /\ IsFiniteSet(S \cup s) /\ IsFiniteSet(s \ {x})
      <4>1. IsFiniteSet(s) /\ IsFiniteSet(s \ {x})
        <5>1. s \in SUBSET R /\ s \ {x} \in SUBSET R
          OBVIOUS
        <5>. QED  BY <5>1, FS_Subset
      <4>. QED  BY <4>1, FS_Union
    <3>4. SumFunctionOnSet(f, S \cup s) = f[x] + SumFunctionOnSet(f, S \cup (s \ {x}))
      <4>1. SumFunctionOnSet(f, S \cup s) = f[x] + SumFunctionOnSet(f, (S \cup s) \ {x})
        BY <3>2, <3>3, SumByElement
      <4>. QED  BY <3>2, <4>1
    <3>5. SumFunctionOnSet(f, s) = f[x] + SumFunctionOnSet(f, s \ {x})
      BY <3>3, SumByElement
    <3>6. /\ SumFunctionOnSet(f, S) \in Int /\ SumFunctionOnSet(f, s \ {x}) \in Int
          /\ f[x] \in Int
      BY <3>3, SumIsInt
    <3> HIDE DEF Bad
    <3>. QED  BY <3>1, <3>4, <3>5, <3>6
  <2>. QED  BY <2>2, <2>3
<1>2. Fine(R)
  BY <1>1
<1>. QED  BY <1>2

=============================================================================
