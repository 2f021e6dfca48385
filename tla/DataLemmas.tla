----------------------------- MODULE DataLemmas -----------------------------
(***************************************************************************)
(* Sums over finite sets and sequences put together from others, as the    *)
(* models write them.  SumFunctionOnSet(f, S) adds up f[x] for the x in S; *)
(* its definition is a function that recurs on the subsets of S, one       *)
(* chosen element at a time, and the lemmas say what the sum does          *)
(* whichever elements are chosen.  FlattenSeq joins a sequence of          *)
(* sequences; filtering and sorting are written with it (module Ranking).  *)
(*                                                                         *)
(* Each is an induction.  An induction principle that takes a predicate is *)
(* out of the installed provers' reach, so the two used here take the set  *)
(* of the values for which the predicate holds.                            *)
(***************************************************************************)
EXTENDS Functions, FiniteSets, Ranking,
        FiniteSetTheorems, SequenceTheorems, WellFoundedInduction, TLAPS

-----------------------------------------------------------------------------
(* Induction *)

\* A set that contains 0 and the successor of each of its numbers contains all.
LEMMA NatSetInduction ==
  ASSUME NEW T, 0 \in T, \A n \in Nat : n \in T => n + 1 \in T
  PROVE  Nat \subseteq T
<1> DEFINE Bad == Nat \ T
<1> SUFFICES ASSUME Bad # {} PROVE FALSE
  OBVIOUS
<1>1. PICK n \in Bad : \A m \in Bad : ~(<<m, n>> \in OpToRel(<, Nat))
  <2> HIDE DEF Bad
  <2>1. Bad \subseteq Nat BY DEF Bad
  <2> QED BY <2>1, WFMin, NatLessThanWellFounded
<1>2. n \in Nat /\ n # 0 /\ n - 1 \in Nat /\ n - 1 < n
  OBVIOUS
<1>3. <<n - 1, n>> \in OpToRel(<, Nat)
  BY <1>2 DEF OpToRel
<1>4. n - 1 \notin Bad
  BY <1>1, <1>3
<1>5. n - 1 \in T /\ (n - 1) + 1 = n
  BY <1>4, <1>2
<1> QED BY <1>5, <1>2

\* A set that contains every subset of S all of whose parts by one element
\* fewer it contains, contains all subsets of S.
LEMMA SubsetInduction ==
  ASSUME NEW S, IsFiniteSet(S), NEW C,
         \A s \in SUBSET S : (\A x \in s : s \ {x} \in C) => s \in C
  PROVE  \A s \in SUBSET S : s \in C
<1> DEFINE T == {n \in Nat : \A s \in SUBSET S : Cardinality(s) = n => s \in C}
<1>0. \A s \in SUBSET S : IsFiniteSet(s) /\ Cardinality(s) \in Nat
  BY FS_Subset, FS_CardinalityType
<1>1. 0 \in T
  BY <1>0, FS_EmptySet
<1>2. ASSUME NEW n \in Nat, n \in T PROVE n + 1 \in T
  <2> SUFFICES ASSUME NEW s \in SUBSET S, Cardinality(s) = n + 1 PROVE s \in C
    OBVIOUS
  <2>1. ASSUME NEW x \in s PROVE s \ {x} \in C
    <3>1. IsFiniteSet(s) BY <1>0
    <3>2. Cardinality(s \ {x}) = Cardinality(s) - 1 BY <3>1, FS_RemoveElement
    <3>3. Cardinality(s \ {x}) = n BY <3>2
    <3> QED BY <3>3, <1>2
  <2> QED BY <2>1
<1>3. Nat \subseteq T
  <2> HIDE DEF T
  <2> QED BY <1>1, <1>2, NatSetInduction
<1> QED BY <1>3, <1>0

-----------------------------------------------------------------------------
(* The recursion behind the sum *)

\* One step of the recursion on the subsets of S.
Unroll(f, S, g) ==
  [s \in SUBSET S |-> IF s = {} THEN 0
                      ELSE f[CHOOSE x \in s : TRUE] + g[s \ {CHOOSE x \in s : TRUE}]]

\* The sum is what the recursion, if it has a solution, gives for the whole set.
LEMMA SumIsFold ==
  ASSUME NEW f, NEW S
  PROVE  SumFunctionOnSet(f, S) = (CHOOSE g : g = Unroll(f, S, g))[S]
BY DEF SumFunctionOnSet, FoldFunctionOnSet, MapThenFoldSet, Unroll

\* The recursion has a solution: it is built up by the size of the subsets.
LEMMA UnrollExists ==
  ASSUME NEW f, NEW S, IsFiniteSet(S)
  PROVE  \E g : g = Unroll(f, S, g)
<1> DEFINE Sub(n) == {s \in SUBSET S : Cardinality(s) <= n}
           Val(g, s) == IF s = {} THEN 0
                        ELSE f[CHOOSE x \in s : TRUE] + g[s \ {CHOOSE x \in s : TRUE}]
           T == {n \in Nat : \E g : g = [s \in Sub(n) |-> Val(g, s)]}
<1>0. /\ \A s \in SUBSET S : IsFiniteSet(s) /\ Cardinality(s) \in Nat /\ Cardinality(s) <= Cardinality(S)
      /\ \A s \in SUBSET S : Cardinality(s) = 0 => s = {}
      /\ Cardinality({}) = 0 /\ Cardinality(S) \in Nat
  BY FS_Subset, FS_CardinalityType, FS_EmptySet
<1>1. 0 \in T
  <2> DEFINE g == [s \in Sub(0) |-> 0]
  <2>1. \A s \in Sub(0) : s = {}
    BY <1>0
  <2>2. g = [s \in Sub(0) |-> Val(g, s)]
    BY <2>1
  <2> QED BY <2>2
<1>2. ASSUME NEW n \in Nat, n \in T PROVE n + 1 \in T
  <2>1. PICK g : g = [s \in Sub(n) |-> Val(g, s)]
    BY <1>2
  <2> DEFINE h == [s \in Sub(n + 1) |-> Val(g, s)]
  <2>2. \A s \in Sub(n + 1) : s # {} => s \ {CHOOSE x \in s : TRUE} \in Sub(n)
    <3> SUFFICES ASSUME NEW s \in Sub(n + 1), s # {}
                 PROVE  s \ {CHOOSE x \in s : TRUE} \in Sub(n)
      OBVIOUS
    <3>1. (CHOOSE x \in s : TRUE) \in s OBVIOUS
    <3>2. Cardinality(s \ {CHOOSE x \in s : TRUE}) = Cardinality(s) - 1
      BY <1>0, <3>1, FS_RemoveElement
    <3>3. Cardinality(s) \in Nat /\ Cardinality(s) <= n + 1
      BY <1>0
    <3> QED BY <3>2, <3>3
  <2>3. \A s \in Sub(n) : h[s] = g[s]
    <3> SUFFICES ASSUME NEW s \in Sub(n) PROVE h[s] = g[s]
      OBVIOUS
    <3>1. s \in Sub(n + 1) BY <1>0
    <3>2. g[s] = Val(g, s) BY <2>1
    <3> QED BY <3>1, <3>2
  <2>4. \A s \in Sub(n + 1) : Val(g, s) = Val(h, s)
    <3> HIDE DEF h, Sub
    <3> QED BY <2>2, <2>3
  <2>5. h = [s \in Sub(n + 1) |-> Val(h, s)]
    <3> HIDE DEF Sub
    <3> QED BY <2>4
  <2>6. \E k : k = [s \in Sub(n + 1) |-> Val(k, s)]
    <3> HIDE DEF h, Sub, Val
    <3> QED BY <2>5
  <2>7. n + 1 \in Nat OBVIOUS
  <2> HIDE DEF Sub, Val
  <2> QED BY <2>6, <2>7
<1>3. Cardinality(S) \in T
  <2> HIDE DEF T
  <2> QED BY <1>1, <1>2, NatSetInduction, <1>0
<1>4. PICK g : g = [s \in Sub(Cardinality(S)) |-> Val(g, s)]
  BY <1>3
<1>5. Sub(Cardinality(S)) = SUBSET S
  BY <1>0
<1>6. g = [s \in SUBSET S |-> Val(g, s)]
  BY <1>4, <1>5
<1> QED BY <1>6 DEF Unroll
\* Solutions over two sets agree on the subsets of both.
LEMMA UnrollUnique ==
  ASSUME NEW f, NEW S, NEW R, S \subseteq R, IsFiniteSet(R),
         NEW g, g = Unroll(f, S, g), NEW h, h = Unroll(f, R, h)
  PROVE  \A s \in SUBSET S : g[s] = h[s]
<1> DEFINE C == {s \in SUBSET S : g[s] = h[s]}
<1>1. \A s \in SUBSET S : s # {} =>
        /\ g[s] = f[CHOOSE x \in s : TRUE] + g[s \ {CHOOSE x \in s : TRUE}]
        /\ h[s] = f[CHOOSE x \in s : TRUE] + h[s \ {CHOOSE x \in s : TRUE}]
  BY DEF Unroll
<1>2. g[{}] = 0 /\ h[{}] = 0
  BY DEF Unroll
<1>3. ASSUME NEW s \in SUBSET S, \A x \in s : s \ {x} \in C
      PROVE  s \in C
  <2>1. CASE s = {}
    BY <1>2, <2>1
  <2>2. CASE s # {}
    <3>1. (CHOOSE x \in s : TRUE) \in s BY <2>2
    <3>2. g[s \ {CHOOSE x \in s : TRUE}] = h[s \ {CHOOSE x \in s : TRUE}]
      BY <3>1, <1>3
    <3>3. /\ g[s] = f[CHOOSE x \in s : TRUE] + g[s \ {CHOOSE x \in s : TRUE}]
          /\ h[s] = f[CHOOSE x \in s : TRUE] + h[s \ {CHOOSE x \in s : TRUE}]
      BY <2>2, <1>1, Zenon
    <3>4. g[s] = h[s]
      BY <3>2, <3>3, Zenon
    <3> QED BY <3>4
  <2> QED BY <2>1, <2>2
<1>4. IsFiniteSet(S)
  BY FS_Subset
<1>5. \A s \in SUBSET S : s \in C
  <2> HIDE DEF C
  <2> QED BY <1>3, <1>4, SubsetInduction
<1> QED BY <1>5

-----------------------------------------------------------------------------
(* Sums *)

\* Nothing adds up to zero.
LEMMA SumEmpty ==
  ASSUME NEW f
  PROVE  SumFunctionOnSet(f, {}) = 0
<1>1. PICK g : g = Unroll(f, {}, g)
  BY UnrollExists, FS_EmptySet
<1> DEFINE k == CHOOSE u : u = Unroll(f, {}, u)
<1>2. k = Unroll(f, {}, k)
  BY <1>1
<1>3. k[{}] = 0
  <2> HIDE DEF k
  <2> QED BY <1>2 DEF Unroll
<1> QED BY <1>3, SumIsFold

\* A sum is the element the recursion chooses and the sum of the rest.
LEMMA SumChosen ==
  ASSUME NEW f, NEW S, IsFiniteSet(S), S # {}
  PROVE  SumFunctionOnSet(f, S) =
           f[CHOOSE x \in S : TRUE] + SumFunctionOnSet(f, S \ {CHOOSE x \in S : TRUE})
<1> DEFINE x == CHOOSE y \in S : TRUE
           R == S \ {x}
           h == CHOOSE g : g = Unroll(f, S, g)
           k == CHOOSE g : g = Unroll(f, R, g)
<1>1. h = Unroll(f, S, h)
  BY UnrollExists
<1>2. IsFiniteSet(R) /\ R \subseteq S
  BY FS_Subset
<1>3. k = Unroll(f, R, k)
  <2> HIDE DEF R
  <2> QED BY UnrollExists, <1>2
<1>4. k[R] = h[R]
  <2> HIDE DEF h, k, R
  <2> QED BY UnrollUnique, <1>1, <1>2, <1>3
<1>5. h[S] = f[x] + h[R]
  <2> HIDE DEF h
  <2> QED BY <1>1 DEF Unroll
<1>6. SumFunctionOnSet(f, S) = h[S]
  BY SumIsFold
<1>7. SumFunctionOnSet(f, R) = k[R]
  <2> HIDE DEF R
  <2> QED BY SumIsFold
<1> HIDE DEF h, k
<1> QED BY <1>4, <1>5, <1>6, <1>7
\* A sum of values from a set closed under addition is in that set.
LEMMA SumType ==
  ASSUME NEW T, 0 \in T, \A a, b \in T : a + b \in T,
         NEW f, NEW S, IsFiniteSet(S), \A x \in S : f[x] \in T
  PROVE  SumFunctionOnSet(f, S) \in T
<1> DEFINE C == {s \in SUBSET S : SumFunctionOnSet(f, s) \in T}
<1>1. ASSUME NEW s \in SUBSET S, \A x \in s : s \ {x} \in C
      PROVE  s \in C
  <2>1. CASE s = {}
    BY <2>1, SumEmpty
  <2>2. CASE s # {}
    <3> DEFINE c == CHOOSE x \in s : TRUE
    <3>1. c \in s BY <2>2
    <3>2. IsFiniteSet(s) BY FS_Subset
    <3>3. SumFunctionOnSet(f, s) = f[c] + SumFunctionOnSet(f, s \ {c})
      BY <2>2, <3>2, SumChosen
    <3> HIDE DEF c
    <3>4. SumFunctionOnSet(f, s \ {c}) \in T BY <3>1, <1>1
    <3> QED BY <3>1, <3>3, <3>4
  <2> QED BY <2>1, <2>2
<1>2. \A s \in SUBSET S : s \in C
  <2> HIDE DEF C
  <2> QED BY <1>1, SubsetInduction
<1> QED BY <1>2

\* Nothing but zeros adds up to zero.
LEMMA SumZero ==
  ASSUME NEW f, NEW S, IsFiniteSet(S), \A x \in S : f[x] = 0
  PROVE  SumFunctionOnSet(f, S) = 0
<1>1. 0 \in {0} /\ \A a, b \in {0} : a + b \in {0}
  OBVIOUS
<1>2. \A x \in S : f[x] \in {0}
  OBVIOUS
<1>3. SumFunctionOnSet(f, S) \in {0}
  BY <1>1, <1>2, SumType
<1> QED BY <1>3

\* A sum of integers is an integer.
LEMMA SumInt ==
  ASSUME NEW f, NEW S, IsFiniteSet(S), \A x \in S : f[x] \in Int
  PROVE  SumFunctionOnSet(f, S) \in Int
<1>1. 0 \in Int /\ \A a, b \in Int : a + b \in Int
  OBVIOUS
<1> QED BY <1>1, SumType

\* A sum of natural numbers is one.
LEMMA SumNat ==
  ASSUME NEW f, NEW S, IsFiniteSet(S), \A x \in S : f[x] \in Nat
  PROVE  SumFunctionOnSet(f, S) \in Nat
<1>1. 0 \in Nat /\ \A a, b \in Nat : a + b \in Nat
  OBVIOUS
<1> QED BY <1>1, SumType

\* Any element can be taken out of a sum, not just the chosen one.
LEMMA SumRemove ==
  ASSUME NEW f, NEW S, IsFiniteSet(S), \A x \in S : f[x] \in Int, NEW e \in S
  PROVE  SumFunctionOnSet(f, S) = f[e] + SumFunctionOnSet(f, S \ {e})
<1> DEFINE C == {s \in SUBSET S :
                   \A x \in s : SumFunctionOnSet(f, s) = f[x] + SumFunctionOnSet(f, s \ {x})}
<1>1. ASSUME NEW s \in SUBSET S, \A x \in s : s \ {x} \in C
      PROVE  s \in C
  <2> SUFFICES ASSUME NEW x \in s
               PROVE  SumFunctionOnSet(f, s) = f[x] + SumFunctionOnSet(f, s \ {x})
    OBVIOUS
  <2> DEFINE c == CHOOSE y \in s : TRUE
  <2>1. c \in s OBVIOUS
  <2>2. IsFiniteSet(s) BY FS_Subset
  <2>3. SumFunctionOnSet(f, s) = f[c] + SumFunctionOnSet(f, s \ {c})
    BY <2>2, SumChosen
  <2> HIDE DEF c
  <2>4. CASE x = c
    BY <2>3, <2>4
  <2>5. CASE x # c
    <3>1. SumFunctionOnSet(f, s \ {c}) = f[x] + SumFunctionOnSet(f, (s \ {c}) \ {x})
      BY <2>1, <2>5, <1>1
    <3>2. SumFunctionOnSet(f, s \ {x}) = f[c] + SumFunctionOnSet(f, (s \ {x}) \ {c})
      BY <2>1, <2>5, <1>1
    <3>3. SumFunctionOnSet(f, (s \ {x}) \ {c}) = SumFunctionOnSet(f, (s \ {c}) \ {x})
      <4>1. (s \ {x}) \ {c} = (s \ {c}) \ {x} OBVIOUS
      <4> QED BY <4>1, Zenon
    <3>4. IsFiniteSet((s \ {c}) \ {x})
      BY <2>2, FS_Subset
    <3>5. SumFunctionOnSet(f, (s \ {c}) \ {x}) \in Int
      BY <3>4, SumInt
    <3>6. f[x] \in Int /\ f[c] \in Int
      BY <2>1
    <3> HIDE DEF C
    <3> QED BY <2>3, <3>1, <3>2, <3>3, <3>5, <3>6
  <2> QED BY <2>4, <2>5
<1>2. \A s \in SUBSET S : s \in C
  <2> HIDE DEF C
  <2> QED BY <1>1, SubsetInduction
<1>3. S \in C
  BY <1>2
<1> QED BY <1>3

\* Functions that agree on a set have the same sum over it.
LEMMA SumAgree ==
  ASSUME NEW S, IsFiniteSet(S), NEW f, NEW g, \A x \in S : f[x] = g[x]
  PROVE  SumFunctionOnSet(f, S) = SumFunctionOnSet(g, S)
<1> DEFINE C == {s \in SUBSET S : SumFunctionOnSet(f, s) = SumFunctionOnSet(g, s)}
<1>1. ASSUME NEW s \in SUBSET S, \A x \in s : s \ {x} \in C
      PROVE  s \in C
  <2>1. CASE s = {}
    BY <2>1, SumEmpty
  <2>2. CASE s # {}
    <3> DEFINE c == CHOOSE x \in s : TRUE
    <3>1. c \in s BY <2>2
    <3>2. IsFiniteSet(s) BY FS_Subset
    <3>3. /\ SumFunctionOnSet(f, s) = f[c] + SumFunctionOnSet(f, s \ {c})
          /\ SumFunctionOnSet(g, s) = g[c] + SumFunctionOnSet(g, s \ {c})
      BY <2>2, <3>2, SumChosen
    <3> HIDE DEF c
    <3>4. SumFunctionOnSet(f, s \ {c}) = SumFunctionOnSet(g, s \ {c}) BY <3>1, <1>1
    <3> QED BY <3>1, <3>3, <3>4
  <2> QED BY <2>1, <2>2
<1>2. \A s \in SUBSET S : s \in C
  <2> HIDE DEF C
  <2> QED BY <1>1, SubsetInduction
<1> QED BY <1>2

\* The sum over two disjoint sets.
LEMMA SumUnion ==
  ASSUME NEW R, IsFiniteSet(R), NEW S, IsFiniteSet(S), R \cap S = {},
         NEW f, \A x \in R \cup S : f[x] \in Int
  PROVE  SumFunctionOnSet(f, R \cup S) = SumFunctionOnSet(f, R) + SumFunctionOnSet(f, S)
<1> DEFINE C == {s \in SUBSET S : SumFunctionOnSet(f, R \cup s)
                                    = SumFunctionOnSet(f, R) + SumFunctionOnSet(f, s)}
<1>1. ASSUME NEW s \in SUBSET S, \A x \in s : s \ {x} \in C
      PROVE  s \in C
  <2>0. SumFunctionOnSet(f, R) \in Int
    BY SumInt
  <2>1. CASE s = {}
    <3>1. SumFunctionOnSet(f, R \cup s) = SumFunctionOnSet(f, R)
      <4>1. R \cup s = R BY <2>1
      <4> QED BY <4>1, Zenon
    <3>2. SumFunctionOnSet(f, s) = 0 BY <2>1, SumEmpty
    <3> QED BY <3>1, <3>2, <2>0
  <2>2. CASE s # {}
    <3>1. PICK c : c \in s BY <2>2
    <3>2. IsFiniteSet(s) /\ IsFiniteSet(R \cup s) /\ IsFiniteSet(s \ {c})
      BY FS_Subset, FS_Union
    <3>3. SumFunctionOnSet(f, s) = f[c] + SumFunctionOnSet(f, s \ {c})
      BY <3>1, <3>2, SumRemove
    <3>4. SumFunctionOnSet(f, R \cup s) = f[c] + SumFunctionOnSet(f, (R \cup s) \ {c})
      BY <3>1, <3>2, SumRemove
    <3>5. SumFunctionOnSet(f, (R \cup s) \ {c}) = SumFunctionOnSet(f, R \cup (s \ {c}))
      <4>1. (R \cup s) \ {c} = R \cup (s \ {c})
        BY <3>1
      <4> QED BY <4>1, Zenon
    <3>6. SumFunctionOnSet(f, R \cup (s \ {c}))
            = SumFunctionOnSet(f, R) + SumFunctionOnSet(f, s \ {c})
      BY <3>1, <1>1
    <3>7. SumFunctionOnSet(f, s \ {c}) \in Int /\ f[c] \in Int
      BY <3>1, <3>2, SumInt
    <3> HIDE DEF C
    <3>8. SumFunctionOnSet(f, R \cup s) = SumFunctionOnSet(f, R) + SumFunctionOnSet(f, s)
      BY <2>0, <3>3, <3>4, <3>5, <3>6, <3>7
    <3> QED BY <3>8 DEF C
  <2> QED BY <2>1, <2>2
<1>2. \A s \in SUBSET S : s \in C
  <2> HIDE DEF C
  <2> QED BY <1>1, SubsetInduction
<1>3. S \in C
  BY <1>2
<1> QED BY <1>3

\* Larger summands, larger sum.
LEMMA SumOrder ==
  ASSUME NEW S, IsFiniteSet(S), NEW f, NEW g,
         \A x \in S : f[x] \in Int /\ g[x] \in Int /\ f[x] <= g[x]
  PROVE  SumFunctionOnSet(f, S) <= SumFunctionOnSet(g, S)
<1> DEFINE C == {s \in SUBSET S : SumFunctionOnSet(f, s) <= SumFunctionOnSet(g, s)}
<1>1. ASSUME NEW s \in SUBSET S, \A x \in s : s \ {x} \in C
      PROVE  s \in C
  <2>1. CASE s = {}
    <3>1. SumFunctionOnSet(f, s) = 0 /\ SumFunctionOnSet(g, s) = 0
      BY <2>1, SumEmpty
    <3> QED BY <3>1
  <2>2. CASE s # {}
    <3>1. PICK c : c \in s BY <2>2
    <3>2. IsFiniteSet(s) /\ IsFiniteSet(s \ {c})
      BY FS_Subset
    <3>3. /\ SumFunctionOnSet(f, s) = f[c] + SumFunctionOnSet(f, s \ {c})
          /\ SumFunctionOnSet(g, s) = g[c] + SumFunctionOnSet(g, s \ {c})
      BY <3>1, <3>2, SumRemove
    <3>4. SumFunctionOnSet(f, s \ {c}) <= SumFunctionOnSet(g, s \ {c})
      BY <3>1, <1>1
    <3>5. /\ SumFunctionOnSet(f, s \ {c}) \in Int
          /\ SumFunctionOnSet(g, s \ {c}) \in Int
      BY <3>2, SumInt
    <3>6. f[c] \in Int /\ g[c] \in Int /\ f[c] <= g[c]
      BY <3>1
    <3> HIDE DEF C
    <3>7. SumFunctionOnSet(f, s) <= SumFunctionOnSet(g, s)
      BY <3>3, <3>4, <3>5, <3>6
    <3> QED BY <3>7 DEF C
  <2> QED BY <2>1, <2>2
<1>2. \A s \in SUBSET S : s \in C
  <2> HIDE DEF C
  <2> QED BY <1>1, SubsetInduction
<1>3. S \in C
  BY <1>2
<1> QED BY <1>3

\* The sum over a part and the sum over what is left of the set.
LEMMA SumSplit ==
  ASSUME NEW S, IsFiniteSet(S), NEW R \in SUBSET S, NEW f, \A x \in S : f[x] \in Int
  PROVE  SumFunctionOnSet(f, S) = SumFunctionOnSet(f, R) + SumFunctionOnSet(f, S \ R)
<1>1. IsFiniteSet(R) /\ IsFiniteSet(S \ R)
  BY FS_Subset
<1>2. SumFunctionOnSet(f, R \cup (S \ R))
        = SumFunctionOnSet(f, R) + SumFunctionOnSet(f, S \ R)
  BY <1>1, SumUnion
<1>3. R \cup (S \ R) = S
  OBVIOUS
<1> QED BY <1>2, <1>3, Zenon

\* Adding an element that was not in the set.
LEMMA SumAdd ==
  ASSUME NEW S, IsFiniteSet(S), NEW e, e \notin S, NEW f, \A x \in S \cup {e} : f[x] \in Int
  PROVE  SumFunctionOnSet(f, S \cup {e}) = f[e] + SumFunctionOnSet(f, S)
<1>1. IsFiniteSet(S \cup {e})
  BY FS_AddElement
<1>2. SumFunctionOnSet(f, S \cup {e}) = f[e] + SumFunctionOnSet(f, (S \cup {e}) \ {e})
  BY <1>1, SumRemove
<1>3. (S \cup {e}) \ {e} = S
  OBVIOUS
<1> QED BY <1>2, <1>3, Zenon

\* No summand of a sum of natural numbers exceeds it.
LEMMA SumElement ==
  ASSUME NEW S, IsFiniteSet(S), NEW e \in S, NEW f, \A x \in S : f[x] \in Nat
  PROVE  f[e] <= SumFunctionOnSet(f, S)
<1>1. IsFiniteSet(S \ {e})
  BY FS_Subset
<1>2. SumFunctionOnSet(f, S \ {e}) \in Nat
  BY <1>1, SumNat
<1>3. SumFunctionOnSet(f, S) = f[e] + SumFunctionOnSet(f, S \ {e})
  BY SumRemove
<1> QED BY <1>2, <1>3

\* Nor does the sum of a part of it.
LEMMA SumPart ==
  ASSUME NEW S, IsFiniteSet(S), NEW R \in SUBSET S, NEW f, \A x \in S : f[x] \in Nat
  PROVE  SumFunctionOnSet(f, R) <= SumFunctionOnSet(f, S)
<1>1. IsFiniteSet(R) /\ IsFiniteSet(S \ R)
  BY FS_Subset
<1>2. SumFunctionOnSet(f, R) \in Nat /\ SumFunctionOnSet(f, S \ R) \in Nat
  BY <1>1, SumNat
<1>3. SumFunctionOnSet(f, S) = SumFunctionOnSet(f, R) + SumFunctionOnSet(f, S \ R)
  BY SumSplit
<1> QED BY <1>2, <1>3

\* A term of a sum grows.
LEMMA SumBump ==
  ASSUME NEW S, IsFiniteSet(S), NEW e \in S, NEW d \in Int, NEW f, NEW g,
         \A x \in S : f[x] \in Int, \A x \in S : x # e => g[x] = f[x], g[e] = f[e] + d
  PROVE  SumFunctionOnSet(g, S) = SumFunctionOnSet(f, S) + d
<1>1. \A x \in S : g[x] \in Int
  OBVIOUS
<1>2. IsFiniteSet(S \ {e})
  BY FS_Subset
<1>3. SumFunctionOnSet(g, S \ {e}) = SumFunctionOnSet(f, S \ {e})
  BY <1>2, SumAgree
<1>4. SumFunctionOnSet(f, S \ {e}) \in Int
  BY <1>2, SumInt
<1>5. SumFunctionOnSet(f, S) = f[e] + SumFunctionOnSet(f, S \ {e})
  BY SumRemove
<1>6. SumFunctionOnSet(g, S) = g[e] + SumFunctionOnSet(g, S \ {e})
  BY <1>1, SumRemove
<1> QED BY <1>3, <1>4, <1>5, <1>6

-----------------------------------------------------------------------------
(* Sequences that are put together from others *)

\* The numbers up to n are n numbers.
LEMMA UpToCount == \A n \in Nat : IsFiniteSet(1..n) /\ Cardinality(1..n) = n
<1> SUFFICES ASSUME NEW n \in Nat PROVE IsFiniteSet(1..n) /\ Cardinality(1..n) = n
  OBVIOUS
<1>1. IsFiniteSet(1..n) /\ Cardinality(1..n) = IF 1 > n THEN 0 ELSE n - 1 + 1
  BY FS_Interval
<1> QED BY <1>1

\* The members of a sequence are finitely many.
LEMMA SeqFinite ==
  ASSUME NEW T, NEW s \in Seq(T)
  PROVE  IsFiniteSet(ToSet(s))
<1>1. Len(s) \in Nat /\ DOMAIN s = 1..Len(s)
  OBVIOUS
<1>2. s \in Surjection(1..Len(s), ToSet(s))
  BY <1>1 DEF ToSet, Surjection
<1>3. IsFiniteSet(1..Len(s))
  BY <1>1, UpToCount, Zenon
<1> QED BY <1>2, <1>3, FS_Surjection

\* No element of the parts occurs twice, in one part or in two.
Apart(ss) ==
  \A n, m \in 1..Len(ss) : \A j \in 1..Len(ss[n]), k \in 1..Len(ss[m]) :
    ss[n][j] = ss[m][k] => n = m /\ j = k

\* Every element of s is an element of one of the first n parts.
Stems(s, ss, n) ==
  \A k \in 1..Len(s) : \E m \in 1..n : \E j \in 1..Len(ss[m]) : s[k] = ss[m][j]

\* Two sequences without a common element.
LEMMA JoinOnce ==
  ASSUME NEW T, NEW a \in Seq(T), NEW b \in Seq(T)
  PROVE  /\ a \o b \in Seq(T)
         /\ \A k \in 1..Len(a \o b) : \/ \E j \in 1..Len(a) : (a \o b)[k] = a[j]
                                      \/ \E j \in 1..Len(b) : (a \o b)[k] = b[j]
         /\ /\ IsInjective(a) /\ IsInjective(b)
            /\ \A j \in 1..Len(a), k \in 1..Len(b) : a[j] # b[k]
            => IsInjective(a \o b)
<1>1. PICK c : c = a \o b
  OBVIOUS
<1>2. PICK m : m = Len(a)
  OBVIOUS
<1>3. PICK n : n = Len(b)
  OBVIOUS
<1>4. m \in Nat /\ n \in Nat /\ DOMAIN a = 1..m /\ DOMAIN b = 1..n
  BY <1>2, <1>3
<1>5. /\ c \in Seq(T) /\ Len(c) = m + n /\ DOMAIN c = 1..(m + n)
      /\ \A k \in 1..(m + n) : c[k] = IF k <= m THEN a[k] ELSE b[k - m]
  <2>1. /\ c \in Seq(T) /\ Len(c) = m + n
        /\ \A k \in 1..(m + n) : c[k] = IF k <= m THEN a[k] ELSE b[k - m]
    BY <1>1, <1>2, <1>3, ConcatProperties
  <2> QED BY <2>1
<1>6. \A k \in 1..(m + n) : \/ k \in 1..m /\ c[k] = a[k]
                            \/ ~(k \in 1..m) /\ k - m \in 1..n /\ c[k] = b[k - m]
  <2> SUFFICES ASSUME NEW k \in 1..(m + n)
               PROVE  \/ k \in 1..m /\ c[k] = a[k]
                      \/ ~(k \in 1..m) /\ k - m \in 1..n /\ c[k] = b[k - m]
    OBVIOUS
  <2>1. CASE k <= m
    <3>1. k \in 1..m
      BY <1>4, <2>1
    <3> QED BY <1>5, <2>1, <3>1
  <2>2. CASE ~(k <= m)
    <3>1. k - m \in 1..n /\ ~(k \in 1..m)
      BY <1>4, <2>2
    <3> QED BY <1>5, <2>2, <3>1
  <2> QED BY <2>1, <2>2
<1>7. \A k \in 1..Len(c) : (\E j \in 1..Len(a) : c[k] = a[j]) \/ (\E j \in 1..Len(b) : c[k] = b[j])
  BY <1>2, <1>3, <1>5, <1>6
<1>8. ASSUME IsInjective(a), IsInjective(b), \A j \in 1..Len(a), k \in 1..Len(b) : a[j] # b[k]
      PROVE  IsInjective(c)
  <2>1. \A j, k \in 1..m : a[j] = a[k] => j = k
    BY <1>4, <1>8 DEF IsInjective
  <2>2. \A j, k \in 1..n : b[j] = b[k] => j = k
    BY <1>4, <1>8 DEF IsInjective
  <2>3. \A j \in 1..m, k \in 1..n : a[j] # b[k]
    BY <1>2, <1>3, <1>8
  <2>4. ASSUME NEW j \in 1..(m + n), NEW k \in 1..(m + n), c[j] = c[k] PROVE j = k
    <3>1. CASE j \in 1..m /\ k \in 1..m
      BY <1>6, <2>1, <2>4, <3>1
    <3>2. CASE ~(j \in 1..m) /\ ~(k \in 1..m)
      <4>1. j - m \in 1..n /\ k - m \in 1..n /\ b[j - m] = b[k - m]
        BY <1>6, <2>4, <3>2
      <4>2. j - m = k - m
        BY <2>2, <4>1
      <4> QED BY <1>4, <4>2
    <3>3. CASE j \in 1..m /\ ~(k \in 1..m)
      BY <1>6, <2>3, <2>4, <3>3
    <3>4. CASE ~(j \in 1..m) /\ k \in 1..m
      BY <1>6, <2>3, <2>4, <3>4
    <3> QED BY <3>1, <3>2, <3>3, <3>4
  <2> QED BY <1>5, <2>4 DEF IsInjective
<1> QED BY <1>1, <1>5, <1>7, <1>8

\* The prefixes that a flattening builds.
Joined(ss, g) == [n \in 1..Len(ss) |-> IF n = 1 THEN ss[n] ELSE g[n - 1] \o ss[n]]

\* The recursion of FlattenSeq has a solution.
LEMMA FlattenIsJoined ==
  ASSUME NEW ss, Len(ss) # 0
  PROVE  FlattenSeq(ss) = (CHOOSE g : g = Joined(ss, g))[Len(ss)]
BY DEF FlattenSeq, Joined

\* There are such prefixes of every sequence of sequences.
LEMMA JoinedExists ==
  ASSUME NEW ss, Len(ss) \in Nat
  PROVE  \E g : g = Joined(ss, g)
<1> DEFINE Val(g, n) == IF n = 1 THEN ss[n] ELSE g[n - 1] \o ss[n]
           T == {m \in Nat : \E g : g = [n \in 1..m |-> Val(g, n)]}
<1>1. 0 \in T
  <2> DEFINE g == [n \in 1..0 |-> 0]
  <2>1. g = [n \in 1..0 |-> Val(g, n)]
    OBVIOUS
  <2> QED BY <2>1
<1>2. ASSUME NEW m \in Nat, m \in T PROVE m + 1 \in T
  <2>1. PICK g : g = [n \in 1..m |-> Val(g, n)]
    BY <1>2
  <2> DEFINE h == [n \in 1..(m + 1) |-> Val(g, n)]
  <2>2. \A n \in 1..m : h[n] = g[n]
    <3> SUFFICES ASSUME NEW n \in 1..m PROVE h[n] = g[n]
      OBVIOUS
    <3>1. n \in 1..(m + 1)
      OBVIOUS
    <3>2. g[n] = Val(g, n)
      BY <2>1
    <3> QED BY <3>1, <3>2
  <2>3. \A n \in 1..(m + 1) : Val(g, n) = Val(h, n)
    <3> SUFFICES ASSUME NEW n \in 1..(m + 1), n # 1 PROVE g[n - 1] = h[n - 1]
      <4> HIDE DEF h
      <4> QED OBVIOUS
    <3>1. n - 1 \in 1..m
      OBVIOUS
    <3> HIDE DEF h
    <3> QED BY <3>1, <2>2
  <2>4. h = [n \in 1..(m + 1) |-> Val(h, n)]
    <3> HIDE DEF Val
    <3> QED BY <2>3
  <2>5. \E k : k = [n \in 1..(m + 1) |-> Val(k, n)]
    <3> HIDE DEF h, Val
    <3> QED BY <2>4
  <2>6. m + 1 \in Nat
    OBVIOUS
  <2> HIDE DEF Val
  <2> QED BY <2>5, <2>6
<1>3. Len(ss) \in T
  <2> HIDE DEF T
  <2> QED BY <1>1, <1>2, NatSetInduction
<1>4. PICK g : g = [n \in 1..Len(ss) |-> Val(g, n)]
  BY <1>3
<1>5. g = Joined(ss, g)
  BY <1>4 DEF Joined
<1> QED BY <1>5

\* A flattened sequence has the elements of its parts, and each once if the
\* parts have no element in common.
LEMMA FlattenOnce ==
  ASSUME NEW T, NEW ss \in Seq(Seq(T))
  PROVE  /\ FlattenSeq(ss) \in Seq(T)
         /\ Stems(FlattenSeq(ss), ss, Len(ss))
         /\ Apart(ss) => IsInjective(FlattenSeq(ss))
<1>1. PICK N : N = Len(ss)
  OBVIOUS
<1>2. N \in Nat /\ \A n \in 1..N : ss[n] \in Seq(T)
  BY <1>1
<1>3. CASE N = 0
  <2>1. FlattenSeq(ss) = <<>>
    <3>1. ss = <<>>
      BY <1>1, <1>3, EmptySeq
    <3>2. Len(ss) = 0
      BY <1>1, <1>3
    <3>3. FlattenSeq(ss) = ss
      BY <3>2, Zenon DEF FlattenSeq
    <3> QED BY <3>1, <3>3
  <2> QED BY <1>1, <1>3, <2>1 DEF Stems, IsInjective
<1>4. CASE N # 0
  <2> DEFINE k == CHOOSE g : g = Joined(ss, g)
  <2>1. k = Joined(ss, k)
    BY <1>1, <1>2, JoinedExists
  <2>2. FlattenSeq(ss) = k[N]
    BY <1>1, <1>4, FlattenIsJoined
  <2> HIDE DEF k
  <2>3. \A n \in 1..N : k[n] = IF n = 1 THEN ss[n] ELSE k[n - 1] \o ss[n]
    BY <1>1, <1>2, <2>1 DEF Joined
  <2> DEFINE Good(n) == /\ k[n] \in Seq(T)
                        /\ Stems(k[n], ss, n)
                        /\ Apart(ss) => IsInjective(k[n])
             C == {n \in Nat : n + 1 \in 1..N => Good(n + 1)}
  <2>4. Good(1)
    <3>1. 1 \in 1..N
      BY <1>2, <1>4
    <3>2. k[1] = ss[1]
      BY <2>3, <3>1
    <3>3. ss[1] \in Seq(T) /\ DOMAIN ss[1] = 1..Len(ss[1])
      BY <1>2, <3>1
    <3>4. Stems(ss[1], ss, 1)
      BY DEF Stems
    <3>5. Apart(ss) => IsInjective(ss[1])
      BY <1>1, <3>1, <3>3 DEF Apart, IsInjective
    <3> QED BY <3>2, <3>3, <3>4, <3>5
  <2>5. ASSUME NEW m \in 1..N, NEW n \in 1..N, n = m + 1, Good(m) PROVE Good(n)
    <3>1. k[n] = k[m] \o ss[n] /\ m < n
      <4>1. n # 1 /\ n - 1 = m
        BY <2>5
      <4>2. k[n] = IF n = 1 THEN ss[n] ELSE k[n - 1] \o ss[n]
        BY <2>3
      <4>3. k[n] = k[n - 1] \o ss[n]
        BY <4>1, <4>2, Zenon
      <4>4. m < n
        BY <2>5
      <4> QED BY <4>1, <4>3, <4>4
    <3>2. PICK a : a = k[m]
      OBVIOUS
    <3>3. PICK b : b = ss[n]
      OBVIOUS
    <3>4. a \in Seq(T) /\ b \in Seq(T) /\ Stems(a, ss, m) /\ (Apart(ss) => IsInjective(a))
      BY <1>2, <2>5, <3>2, <3>3
    <3>5. a \o b \in Seq(T)
      BY <3>4, JoinOnce
    <3>6. \A j \in 1..m : j \in 1..n /\ j # n
      BY <2>5
    <3>7. n \in 1..n
      OBVIOUS
    <3>8. Stems(a \o b, ss, n)
      <4> SUFFICES ASSUME NEW i \in 1..Len(a \o b)
                   PROVE  \E u \in 1..n : \E v \in 1..Len(ss[u]) : (a \o b)[i] = ss[u][v]
        BY DEF Stems
      <4>1. CASE \E j \in 1..Len(a) : (a \o b)[i] = a[j]
        <5>1. PICK j \in 1..Len(a) : (a \o b)[i] = a[j]
          BY <4>1
        <5>2. PICK u \in 1..m : \E v \in 1..Len(ss[u]) : a[j] = ss[u][v]
          BY <3>4 DEF Stems
        <5> QED BY <3>6, <5>1, <5>2
      <4>2. CASE \E j \in 1..Len(b) : (a \o b)[i] = b[j]
        BY <3>3, <3>7, <4>2
      <4>3. \/ \E j \in 1..Len(a) : (a \o b)[i] = a[j]
            \/ \E j \in 1..Len(b) : (a \o b)[i] = b[j]
        BY <3>4, JoinOnce, SMTT(30)
      <4> QED BY <4>1, <4>2, <4>3
    <3>9. ASSUME Apart(ss) PROVE IsInjective(a \o b)
      <4>1. DOMAIN b = 1..Len(b)
        BY <3>4
      <4>2. IsInjective(b)
        BY <1>1, <3>3, <3>9, <4>1 DEF Apart, IsInjective
      <4>3. ASSUME NEW i \in 1..Len(a), NEW j \in 1..Len(b) PROVE a[i] # b[j]
        <5>1. PICK u \in 1..m : \E v \in 1..Len(ss[u]) : a[i] = ss[u][v]
          BY <3>4 DEF Stems
        <5>2. PICK v \in 1..Len(ss[u]) : a[i] = ss[u][v]
          BY <5>1
        <5>3. u \in 1..N /\ u # n
          BY <1>2, <2>5, <3>6
        <5> QED BY <1>1, <3>3, <3>9, <5>2, <5>3 DEF Apart
      <4> QED BY <3>4, <3>9, <4>2, <4>3, JoinOnce
    <3> QED BY <3>1, <3>2, <3>3, <3>5, <3>8, <3>9
  <2>6. 0 \in C
    BY <2>4
  <2>7. ASSUME NEW m \in Nat, m \in C PROVE m + 1 \in C
    <3> SUFFICES ASSUME (m + 1) + 1 \in 1..N PROVE Good((m + 1) + 1)
      OBVIOUS
    <3>1. PICK a : a = m + 1
      OBVIOUS
    <3>2. PICK b : b = a + 1
      OBVIOUS
    <3>3. a \in 1..N /\ b \in 1..N
      BY <1>2, <3>1, <3>2
    <3>4. Good(a)
      BY <2>7, <3>1, <3>3
    <3> HIDE DEF Good
    <3>5. Good(b)
      BY <2>5, <3>2, <3>3, <3>4
    <3> QED BY <3>1, <3>2, <3>5
  <2>8. PICK p : p = N - 1
    OBVIOUS
  <2>9. p \in Nat /\ p + 1 = N /\ N \in 1..N
    BY <1>2, <1>4, <2>8
  <2>10. p \in C
    <3> HIDE DEF C
    <3> QED BY <2>6, <2>7, <2>9, NatSetInduction
  <2>11. Good(N)
    BY <2>9, <2>10
  <2> QED BY <1>1, <2>2, <2>11
<1> QED BY <1>3, <1>4

\* The elements of s that are in S, and each once if it is so in s.
LEMMA ThoseOnce ==
  ASSUME NEW T, NEW s \in Seq(T), NEW S
  PROVE  /\ Those(s, S) \in Seq(T)
         /\ \A k \in 1..Len(Those(s, S)) : Those(s, S)[k] \in S
         /\ IsInjective(s) => IsInjective(Those(s, S))
<1> DEFINE ss == [n \in 1..Len(s) |-> IF s[n] \in S THEN <<s[n]>> ELSE <<>>]
<1>1. Len(s) \in Nat /\ DOMAIN s = 1..Len(s) /\ \A n \in 1..Len(s) : s[n] \in T
  OBVIOUS
<1>2. \A n \in 1..Len(s) : ss[n] \in Seq(T)
  BY <1>1
<1>3. ss \in Seq(Seq(T)) /\ Len(ss) = Len(s)
  <2>1. ss \in [1..Len(s) -> Seq(T)]
    BY <1>2
  <2> HIDE DEF ss
  <2> QED BY <1>1, <2>1
<1>4. \A n \in 1..Len(s) : \A j \in 1..Len(ss[n]) : j = 1 /\ ss[n][j] = s[n] /\ s[n] \in S
  OBVIOUS
<1>5. Those(s, S) = FlattenSeq(ss)
  BY DEF Those
<1> HIDE DEF ss
<1>6. /\ FlattenSeq(ss) \in Seq(T)
      /\ Stems(FlattenSeq(ss), ss, Len(s))
      /\ Apart(ss) => IsInjective(FlattenSeq(ss))
  BY <1>3, FlattenOnce
<1>7. \A k \in 1..Len(FlattenSeq(ss)) : FlattenSeq(ss)[k] \in S
  BY <1>4, <1>6 DEF Stems
<1>8. ASSUME IsInjective(s) PROVE Apart(ss)
  <2> SUFFICES ASSUME NEW n \in 1..Len(s), NEW m \in 1..Len(s),
                      NEW j \in 1..Len(ss[n]), NEW k \in 1..Len(ss[m]), ss[n][j] = ss[m][k]
               PROVE  n = m /\ j = k
    BY <1>3 DEF Apart
  <2>1. j = 1 /\ k = 1 /\ s[n] = s[m]
    BY <1>4
  <2> QED BY <1>1, <1>8, <2>1 DEF IsInjective
<1> QED BY <1>5, <1>6, <1>7, <1>8

\* Sorting by rank keeps every element at most once.
LEMMA ByRankOnce ==
  ASSUME NEW T, NEW s \in Seq(T), IsInjective(s), NEW rank,
         NEW R, NEW ranks \in Seq(R), IsInjective(ranks)
  PROVE  ByRank(s, rank, ranks) \in Seq(T) /\ IsInjective(ByRank(s, rank, ranks))
<1> DEFINE S(n) == {x \in DOMAIN rank : rank[x] = ranks[n]}
           ss == [n \in 1..Len(ranks) |-> Those(s, S(n))]
<1>1. Len(ranks) \in Nat /\ DOMAIN ranks = 1..Len(ranks)
  OBVIOUS
<1>2. ASSUME NEW n \in 1..Len(ranks)
      PROVE  /\ ss[n] \in Seq(T) /\ IsInjective(ss[n])
             /\ \A k \in 1..Len(ss[n]) : rank[ss[n][k]] = ranks[n]
  <2>1. ss[n] = Those(s, S(n))
    OBVIOUS
  <2>2. \A x \in S(n) : rank[x] = ranks[n]
    OBVIOUS
  <2> HIDE DEF ss, S
  <2> QED BY <2>1, <2>2, ThoseOnce
<1>3. ByRank(s, rank, ranks) = FlattenSeq(ss)
  BY DEF ByRank
<1>4. ss \in Seq(Seq(T)) /\ Len(ss) = Len(ranks)
  <2>1. ss \in [1..Len(ranks) -> Seq(T)]
    <3> HIDE DEF S
    <3>1. \A n \in 1..Len(ranks) : Those(s, S(n)) \in Seq(T)
      BY ThoseOnce
    <3> QED BY <3>1
  <2> HIDE DEF ss
  <2> QED BY <1>1, <2>1
<1> HIDE DEF ss
<1>5. Apart(ss)
  <2> SUFFICES ASSUME NEW n \in 1..Len(ranks), NEW m \in 1..Len(ranks),
                      NEW j \in 1..Len(ss[n]), NEW k \in 1..Len(ss[m]), ss[n][j] = ss[m][k]
               PROVE  n = m /\ j = k
    BY <1>4 DEF Apart
  <2>1. ranks[n] = ranks[m]
    BY <1>2
  <2>2. n = m
    BY <1>1, <2>1 DEF IsInjective
  <2>3. IsInjective(ss[n]) /\ DOMAIN ss[n] = 1..Len(ss[n])
    <3>1. ss[n] \in Seq(T) /\ IsInjective(ss[n])
      BY <1>2
    <3> QED BY <3>1
  <2> QED BY <2>2, <2>3 DEF IsInjective
<1> QED BY <1>3, <1>4, <1>5, FlattenOnce
=============================================================================
