----------------------------- MODULE FiniteSums -----------------------------
(***************************************************************************)
(* Induction, a little arithmetic and finite sums, for the proofs about    *)
(* what the code computes in loops: least elements, induction over         *)
(* subsets, the iteration of a function, quotients and products, and what  *)
(* a sum over a finite set does when an element or a summand changes.      *)
(* Properties are given as sets, so that each statement is first-order.    *)
(***************************************************************************)
EXTENDS Integers, FiniteSetsExt, WellFoundedInduction, FiniteSetTheorems, TLAPS

-----------------------------------------------------------------------------
(* Induction. *)

(* A set of natural numbers has a least element: of the intervals below its    *)
(* elements one contains no other.                                             *)
LEMMA LeastNat ==
  ASSUME NEW T \in SUBSET Nat, T # {}
  PROVE  \E x \in T : \A y \in T : x <= y
<1> DEFINE R == StrictSubsetOrdering(Nat)
           F == FiniteSubsetsOf(Nat)
           U == {0 .. m - 1 : m \in T}
<1>1. IsWellFoundedOn(R, F)
  BY FS_StrictSubsetOrderingWellFounded
<1>2. U \subseteq F /\ U # {}
  <2>1. \A m \in T : IsFiniteSet(0 .. m - 1) /\ 0 .. m - 1 \in SUBSET Nat
    BY FS_Interval
  <2> QED BY <2>1 DEF FiniteSubsetsOf
<1> HIDE DEF R, F
<1>3. PICK X \in U : \A Y \in U : ~(<<Y, X>> \in R)
  <2> HIDE DEF U
  <2> QED BY <1>1, <1>2, WFMin
<1>4. PICK m \in T : X = 0 .. m - 1
  OBVIOUS
<1>5. ASSUME NEW n \in T, n < m PROVE FALSE
  <2>1. 0 .. n - 1 \in U
    OBVIOUS
  <2>2. 0 .. n - 1 \subseteq 0 .. m - 1 /\ 0 .. n - 1 # 0 .. m - 1
    <3>1. n \in 0 .. m - 1 /\ n \notin 0 .. n - 1
      BY <1>5
    <3> QED BY <3>1, <1>5
  <2>3. 0 .. n - 1 \in SUBSET Nat /\ 0 .. m - 1 \in SUBSET Nat
    OBVIOUS
  <2>4. <<0 .. n - 1, 0 .. m - 1>> \in R
    BY <2>2, <2>3 DEF R, StrictSubsetOrdering
  <2> QED BY <2>1, <2>4, <1>3, <1>4
<1> QED BY <1>5

LEMMA Induction ==
  ASSUME NEW P, 0 \in P, \A n \in Nat : n \in P => n + 1 \in P
  PROVE  Nat \subseteq P
<1> SUFFICES ASSUME Nat \ P # {} PROVE FALSE
  OBVIOUS
<1>1. PICK x \in Nat \ P : \A y \in Nat \ P : x <= y
  BY LeastNat
<1>2. x # 0 /\ x - 1 \in Nat /\ x - 1 \in P
  BY <1>1
<1> QED BY <1>1, <1>2

(* What holds of a set as soon as it holds of every smaller one holds of all    *)
(* the subsets of a finite set.                                                 *)
LEMMA SubsetInduction ==
  ASSUME NEW S, IsFiniteSet(S), NEW P,
         \A T \in SUBSET S : (\A U \in SUBSET T : U # T => U \in P) => T \in P
  PROVE  (SUBSET S) \subseteq P
<1> DEFINE R == StrictSubsetOrdering(S)
           F == FiniteSubsetsOf(S)
           Bad == (SUBSET S) \ P
<1> SUFFICES ASSUME Bad # {} PROVE FALSE
  OBVIOUS
<1>1. IsWellFoundedOn(R, F)
  BY FS_StrictSubsetOrderingWellFounded
<1>2. Bad \subseteq F
  BY FS_Subset DEF FiniteSubsetsOf
<1>3. PICK T \in Bad : \A Y \in Bad : ~(<<Y, T>> \in R)
  <2> HIDE DEF Bad, R, F
  <2> QED BY <1>1, <1>2, WFMin
<1>4. ASSUME NEW U \in SUBSET T, U # T PROVE U \in P
  <2>1. <<U, T>> \in R
    BY <1>4 DEF StrictSubsetOrdering
  <2> HIDE DEF R
  <2>2. U \notin Bad
    BY <1>3, <2>1
  <2> QED BY <2>2
<1> QED BY <1>4

(* r holds the results of applying f up to n times to s.                        *)
Iterates(r, f, s, n) == r[0] = s /\ \A i \in 1 .. n : r[i] = f[r[i - 1]]

(* A function can be iterated.                                                  *)
LEMMA Iteration ==
  ASSUME NEW S, NEW f \in [S -> S], NEW s \in S, NEW n \in Nat
  PROVE  \E r \in [0 .. n -> S] : Iterates(r, f, s, n)
<1> DEFINE Run(m, r) == r[0] = s /\ \A i \in 1 .. m : r[i] = f[r[i - 1]]
           P == {m \in Nat : \E r \in [0 .. m -> S] : Run(m, r)}
<1>1. 0 \in P
  <2>1. [i \in 0 .. 0 |-> s] \in [0 .. 0 -> S] /\ Run(0, [i \in 0 .. 0 |-> s])
    OBVIOUS
  <2> QED BY <2>1
<1>2. ASSUME NEW m \in Nat, m \in P PROVE m + 1 \in P
  <2>1. PICK r \in [0 .. m -> S] : Run(m, r)
    BY <1>2
  <2> DEFINE q == [i \in 0 .. m + 1 |-> IF i = m + 1 THEN f[r[m]] ELSE r[i]]
  <2>2. q \in [0 .. m + 1 -> S]
    BY <2>1
  <2>3. Run(m + 1, q)
    <3>1. q[0] = s
      BY <2>1
    <3>2. ASSUME NEW i \in 1 .. m + 1 PROVE q[i] = f[q[i - 1]]
      <4>1. CASE i = m + 1
        BY <4>1
      <4>2. CASE i \in 1 .. m
        BY <2>1, <4>2
      <4> QED BY <4>1, <4>2
    <3> QED BY <3>1, <3>2
  <2> HIDE DEF q
  <2> QED BY <2>2, <2>3
<1>3. n \in P
  <2> HIDE DEF P
  <2> QED BY <1>1, <1>2, Induction
<1> QED BY <1>3 DEF Iterates

-----------------------------------------------------------------------------
(* Arithmetic. *)

LEMMA Quotient ==
  ASSUME NEW a \in Int, NEW s \in Nat \ {0}
  PROVE  /\ a \div s \in Int /\ (a \div s) * s <= a /\ a < (a \div s) * s + s
         /\ a >= 0 => a \div s \in Nat
BY SMT

(* A product of natural numbers rises with its factors.                        *)
LEMMA ProductsGrow ==
  ASSUME NEW a \in Nat, NEW b \in Nat, NEW c \in Nat, NEW d \in Nat, a <= c, b <= d
  PROVE  a * b \in Nat /\ c * d \in Nat /\ a * b <= c * d
<1>1. (c - a) * b >= 0 /\ (d - b) * c >= 0
  <2>1. c - a \in Nat /\ d - b \in Nat
    OBVIOUS
  <2> QED BY <2>1
<1>2. (c - a) * b = c * b - a * b /\ (d - b) * c = c * d - c * b
  OBVIOUS
<1>3. a * b \in Nat /\ c * d \in Nat /\ c * b \in Nat
  OBVIOUS
<1> QED BY <1>1, <1>2, <1>3

(* A finite set of natural numbers has a largest element.                      *)
LEMMA LargestNat ==
  ASSUME NEW S \in SUBSET Nat, IsFiniteSet(S), S # {}
  PROVE  Max(S) \in S /\ \A x \in S : x <= Max(S)
<1> DEFINE P == {T \in SUBSET S : T # {} => \E x \in T : \A y \in T : x >= y}
<1>1. ASSUME NEW T \in SUBSET S, \A U \in SUBSET T : U # T => U \in P
      PROVE T \in P
  <2> SUFFICES ASSUME NEW t \in T PROVE \E x \in T : \A y \in T : x >= y
    OBVIOUS
  <2> DEFINE U == T \ {t}
  <2>1. U \in P
    BY <1>1
  <2>2. CASE U = {}
    BY <2>2
  <2>3. CASE U # {}
    <3>1. PICK x \in U : \A y \in U : x >= y
      BY <2>1, <2>3
    <3>2. CASE x >= t
      BY <3>1, <3>2
    <3>3. CASE ~(x >= t)
      BY <3>1, <3>3
    <3> QED BY <3>2, <3>3
  <2> QED BY <2>2, <2>3
<1>2. S \in P
  <2> HIDE DEF P
  <2>1. (SUBSET S) \subseteq P
    BY <1>1, SubsetInduction
  <2> QED BY <2>1
<1> QED BY <1>2 DEF Max

-----------------------------------------------------------------------------
(* Sums. *)

SumOf(f, S) == MapThenSumSet(LAMBDA x : f[x], S)

(* The element that a fold over T starts with.                                  *)
First(T) == CHOOSE x \in T : TRUE

(* g has the sum of f over every subset of S.                                   *)
Folds(g, f, S) ==
  g = [T \in SUBSET S |-> IF T = {} THEN 0 ELSE f[First(T)] + g[T \ {First(T)}]]

LEMMA SumIsFold ==
  ASSUME NEW f, NEW S
  PROVE  SumOf(f, S) = (CHOOSE g : Folds(g, f, S))[S]
BY DEF SumOf, MapThenSumSet, MapThenFoldSet, Folds, First

(* Folds agree where both are defined.                                          *)
LEMMA FoldsAgree ==
  ASSUME NEW T2, NEW T1 \in SUBSET T2, IsFiniteSet(T1), NEW f,
         NEW g1, NEW g2, Folds(g1, f, T1), Folds(g2, f, T2)
  PROVE  g1[T1] = g2[T1]
<1> DEFINE P == {U \in SUBSET T1 : g1[U] = g2[U]}
<1>1. ASSUME NEW U \in SUBSET T1, \A V \in SUBSET U : V # U => V \in P
      PROVE U \in P
  <2>1. CASE U = {}
    BY <2>1 DEF Folds
  <2>2. CASE U # {}
    <3> DEFINE V == U \ {First(U)}
    <3>1. V \in SUBSET U /\ V # U
      BY <2>2 DEF First
    <3>2. g1[V] = g2[V]
      BY <1>1, <3>1
    <3>3. g1[U] = f[First(U)] + g1[V] /\ g2[U] = f[First(U)] + g2[V]
      BY <2>2 DEF Folds
    <3> QED BY <3>2, <3>3
  <2> QED BY <2>1, <2>2
<1> HIDE DEF P
<1>2. (SUBSET T1) \subseteq P
  BY <1>1, SubsetInduction
<1> QED BY <1>2 DEF P

(* There is such a g.                                                           *)
LEMMA FoldExists ==
  ASSUME NEW S, IsFiniteSet(S), NEW f, \A x \in S : f[x] \in Nat
  PROVE  \E g \in [SUBSET S -> Nat] : Folds(g, f, S)
<1> DEFINE P == {T \in SUBSET S : \E g \in [SUBSET T -> Nat] : Folds(g, f, T)}
<1>2. ASSUME NEW T \in SUBSET S, \A U \in SUBSET T : U # T => U \in P
      PROVE T \in P
  <2>1. CASE T = {}
    <3> DEFINE g == [U \in SUBSET T |-> 0]
    <3>1. g \in [SUBSET T -> Nat] /\ Folds(g, f, T)
      BY <2>1 DEF Folds
    <3> QED BY <3>1
  <2>2. CASE T # {}
    <3> DEFINE Fold(U) == CHOOSE g \in [SUBSET U -> Nat] : Folds(g, f, U)
               Rest(U) == U \ {First(U)}
               g == [U \in SUBSET T |-> IF U = {} THEN 0
                                        ELSE f[First(U)] + Fold(Rest(U))[Rest(U)]]
    <3>1. \A U \in SUBSET T : U # {} => First(U) \in U /\ Rest(U) \in SUBSET T /\ Rest(U) # T
      BY DEF First
    <3>2. \A U \in SUBSET T : U # T => Fold(U) \in [SUBSET U -> Nat] /\ Folds(Fold(U), f, U)
      BY <1>2
    <3> HIDE DEF Fold
    <3>3. g \in [SUBSET T -> Nat]
      <4>1. ASSUME NEW U \in SUBSET T, U # {} PROVE f[First(U)] + Fold(Rest(U))[Rest(U)] \in Nat
        <5>1. f[First(U)] \in Nat
          BY <3>1, <4>1
        <5> DEFINE V == Rest(U)
        <5>2. Fold(V) \in [SUBSET V -> Nat]
          BY <3>1, <3>2, <4>1
        <5>3. Fold(V)[V] \in Nat
          <6> HIDE DEF V
          <6> QED BY <5>2
        <5> QED BY <5>1, <5>3
      <4> QED BY <4>1
    <3>4. ASSUME NEW U \in SUBSET T, U # {} PROVE g[Rest(U)] = Fold(Rest(U))[Rest(U)]
      <4> DEFINE V == Rest(U)
      <4>1. V \in SUBSET T /\ V # T
        BY <3>1, <3>4
      <4>2. Folds(Fold(V), f, V)
        BY <3>2, <4>1
      <4>3. CASE V = {}
        BY <4>1, <4>2, <4>3 DEF Folds
      <4>4. CASE V # {}
        <5> DEFINE W == Rest(V)
        <5>1. W \in SUBSET V /\ W \in SUBSET T /\ W # T
          BY <3>1, <4>1, <4>4
        <5>2. Folds(Fold(W), f, W) /\ IsFiniteSet(W)
          BY <3>2, <5>1, FS_Subset
        <5>3. Fold(W)[W] = Fold(V)[W]
          <6> HIDE DEF V, W
          <6> QED BY <4>2, <5>1, <5>2, FoldsAgree
        <5>4. Fold(V)[V] = f[First(V)] + Fold(V)[W]
          BY <4>2, <4>4 DEF Folds
        <5> QED BY <4>1, <4>4, <5>3, <5>4
      <4> QED BY <4>3, <4>4
    <3>5. Folds(g, f, T)
      BY <3>4 DEF Folds
    <3> HIDE DEF g
    <3> QED BY <3>3, <3>5
  <2> QED BY <2>1, <2>2
<1>3. S \in P
  <2> HIDE DEF P
  <2>1. (SUBSET S) \subseteq P
    BY <1>2, SubsetInduction
  <2> QED BY <2>1
<1> QED BY <1>3

(* The sum over nothing, and over anything else by way of the first element.    *)
LEMMA SumUnfolds ==
  ASSUME NEW S, IsFiniteSet(S), NEW f, \A x \in S : f[x] \in Nat
  PROVE  /\ SumOf(f, {}) = 0
         /\ SumOf(f, S) \in Nat
         /\ S # {} => SumOf(f, S) = f[First(S)] + SumOf(f, S \ {First(S)})
<1> DEFINE G(T) == CHOOSE g : Folds(g, f, T)
<1>1. ASSUME NEW T \in SUBSET S PROVE Folds(G(T), f, T) /\ SumOf(f, T) = G(T)[T]
  <2>1. IsFiniteSet(T) /\ \A x \in T : f[x] \in Nat
    BY FS_Subset
  <2>2. \E g : Folds(g, f, T)
    BY <2>1, FoldExists
  <2> QED BY <2>2, SumIsFold
<1>2. SumOf(f, {}) = 0
  <2>1. Folds(G({}), f, {}) /\ SumOf(f, {}) = G({})[{}]
    BY <1>1
  <2> HIDE DEF G
  <2> QED BY <2>1 DEF Folds
<1>3. SumOf(f, S) \in Nat
  <2>1. PICK g \in [SUBSET S -> Nat] : Folds(g, f, S)
    BY FoldExists
  <2>2. G(S)[S] = g[S]
    <3>1. Folds(G(S), f, S)
      BY <1>1
    <3> HIDE DEF G
    <3> QED BY <2>1, <3>1, FoldsAgree
  <2>3. SumOf(f, S) = G(S)[S]
    BY <1>1
  <2> HIDE DEF G
  <2> QED BY <2>2, <2>3
<1>4. ASSUME S # {} PROVE SumOf(f, S) = f[First(S)] + SumOf(f, S \ {First(S)})
  <2> DEFINE R == S \ {First(S)}
  <2>1. Folds(G(S), f, S) /\ SumOf(f, S) = G(S)[S] /\ Folds(G(R), f, R) /\ SumOf(f, R) = G(R)[R]
    BY <1>1
  <2> HIDE DEF G
  <2>2. G(S)[S] = f[First(S)] + G(S)[R]
    BY <1>4, <2>1 DEF Folds
  <2>3. G(R)[R] = G(S)[R]
    <3>1. R \in SUBSET S /\ IsFiniteSet(R)
      BY FS_Subset
    <3> HIDE DEF R
    <3> QED BY <2>1, <3>1, FoldsAgree
  <2> QED BY <2>1, <2>2, <2>3
<1> QED BY <1>2, <1>3, <1>4

LEMMA SumType ==
  ASSUME NEW S, IsFiniteSet(S), NEW f, \A x \in S : f[x] \in Nat
  PROVE  SumOf(f, S) \in Nat
BY SumUnfolds

LEMMA SumEmpty ==
  ASSUME NEW f
  PROVE  SumOf(f, {}) = 0
BY SumUnfolds, FS_EmptySet

(* ... and by way of any element: the order does not matter.                    *)
LEMMA SumSplit ==
  ASSUME NEW S, IsFiniteSet(S), NEW f, \A y \in S : f[y] \in Nat, NEW x \in S
  PROVE  SumOf(f, S) = f[x] + SumOf(f, S \ {x})
<1> DEFINE P == {T \in SUBSET S : \A y \in T : SumOf(f, T) = f[y] + SumOf(f, T \ {y})}
<1>1. ASSUME NEW T \in SUBSET S, \A U \in SUBSET T : U # T => U \in P
      PROVE T \in P
  <2> SUFFICES ASSUME NEW y \in T PROVE SumOf(f, T) = f[y] + SumOf(f, T \ {y})
    OBVIOUS
  <2> DEFINE c == First(T)
             B == (T \ {c}) \ {y}
  <2>1. c \in T
    BY DEF First
  <2>2. IsFiniteSet(T) /\ IsFiniteSet(T \ {c}) /\ IsFiniteSet(T \ {y}) /\ IsFiniteSet(B)
    BY FS_Subset
  <2>3. SumOf(f, T) = f[c] + SumOf(f, T \ {c})
    BY <2>2, SumUnfolds
  <2>4. CASE c = y
    BY <2>3, <2>4
  <2>5. CASE c # y
    <3>1. T \ {c} \in P /\ T \ {y} \in P /\ y \in T \ {c} /\ c \in T \ {y}
      BY <1>1, <2>1, <2>5
    <3>2. SumOf(f, T \ {c}) = f[y] + SumOf(f, B)
      BY <3>1
    <3>3. SumOf(f, T \ {y}) = f[c] + SumOf(f, B)
      <4>1. (T \ {y}) \ {c} = B
        OBVIOUS
      <4> QED BY <3>1, <4>1
    <3>4. SumOf(f, B) \in Nat /\ f[c] \in Nat /\ f[y] \in Nat
      BY <2>1, <2>2, SumType
    <3> HIDE DEF B, c
    <3> QED BY <2>3, <3>2, <3>3, <3>4
  <2> QED BY <2>4, <2>5
<1>2. S \in P
  <2> HIDE DEF P
  <2>1. (SUBSET S) \subseteq P
    BY <1>1, SubsetInduction
  <2> QED BY <2>1
<1> QED BY <1>2

LEMMA SumAdd ==
  ASSUME NEW S, IsFiniteSet(S), NEW x, x \notin S, NEW f, \A y \in S \union {x} : f[y] \in Nat
  PROVE  SumOf(f, S \union {x}) = f[x] + SumOf(f, S)
<1>1. IsFiniteSet(S \union {x}) /\ (S \union {x}) \ {x} = S
  BY FS_AddElement
<1> QED BY <1>1, SumSplit

(* A sum depends on nothing but its summands ...                                *)
LEMMA SumSame ==
  ASSUME NEW S, IsFiniteSet(S), NEW f, NEW g, \A x \in S : f[x] \in Nat /\ f[x] = g[x]
  PROVE  SumOf(f, S) = SumOf(g, S)
<1> DEFINE P == {T \in SUBSET S : SumOf(f, T) = SumOf(g, T)}
<1>1. ASSUME NEW T \in SUBSET S, \A U \in SUBSET T : U # T => U \in P
      PROVE T \in P
  <2>1. CASE T = {}
    BY <2>1, SumEmpty
  <2>2. CASE T # {}
    <3> DEFINE U == T \ {First(T)}
    <3>1. First(T) \in T /\ U \in P
      BY <1>1, <2>2 DEF First
    <3>2. IsFiniteSet(T)
      BY FS_Subset
    <3>3. SumOf(f, T) = f[First(T)] + SumOf(f, U) /\ SumOf(g, T) = g[First(T)] + SumOf(g, U)
      BY <2>2, <3>2, SumUnfolds
    <3> QED BY <3>1, <3>3
  <2> QED BY <2>1, <2>2
<1>2. S \in P
  <2> HIDE DEF P
  <2>1. (SUBSET S) \subseteq P
    BY <1>1, SubsetInduction
  <2> QED BY <2>1
<1> QED BY <1>2

(* ... is monotone in them ...                                                  *)
LEMMA SumMonotone ==
  ASSUME NEW S, IsFiniteSet(S), NEW f, NEW g,
         \A x \in S : f[x] \in Nat /\ g[x] \in Nat /\ f[x] <= g[x]
  PROVE  SumOf(f, S) <= SumOf(g, S)
<1> DEFINE P == {T \in SUBSET S : SumOf(f, T) <= SumOf(g, T)}
<1>1. ASSUME NEW T \in SUBSET S, \A U \in SUBSET T : U # T => U \in P
      PROVE T \in P
  <2>1. CASE T = {}
    BY <2>1, SumEmpty
  <2>2. CASE T # {}
    <3> DEFINE x == First(T)
               U == T \ {x}
    <3>1. x \in T /\ U \in P
      BY <1>1, <2>2 DEF First
    <3>2. IsFiniteSet(T) /\ IsFiniteSet(U)
      BY FS_Subset
    <3>3. SumOf(f, T) = f[x] + SumOf(f, U) /\ SumOf(g, T) = g[x] + SumOf(g, U)
      BY <2>2, <3>2, SumUnfolds
    <3>4. SumOf(f, U) \in Nat /\ SumOf(g, U) \in Nat /\ f[x] \in Nat /\ g[x] \in Nat /\ f[x] <= g[x]
      BY <3>1, <3>2, SumType
    <3>5. SumOf(f, U) <= SumOf(g, U)
      BY <3>1
    <3> HIDE DEF U, x
    <3>6. SumOf(f, T) <= SumOf(g, T)
      BY <3>3, <3>4, <3>5
    <3> QED BY <3>6
  <2> QED BY <2>1, <2>2
<1>2. S \in P
  <2> HIDE DEF P
  <2>1. (SUBSET S) \subseteq P
    BY <1>1, SubsetInduction
  <2> QED BY <2>1
<1> QED BY <1>2

(* ... and in the set.                                                          *)
LEMMA SumSubset ==
  ASSUME NEW S, IsFiniteSet(S), NEW R \in SUBSET S, NEW f, \A x \in S : f[x] \in Nat
  PROVE  SumOf(f, R) <= SumOf(f, S)
<1> DEFINE P == {T \in SUBSET S : R \subseteq T => SumOf(f, R) <= SumOf(f, T)}
<1>1. ASSUME NEW T \in SUBSET S, \A U \in SUBSET T : U # T => U \in P
      PROVE T \in P
  <2> SUFFICES ASSUME R \subseteq T, R # T PROVE SumOf(f, R) <= SumOf(f, T)
    <3>1. SumOf(f, R) \in Nat
      BY FS_Subset, SumType
    <3> QED BY <3>1
  <2>1. PICK x \in T : x \notin R
    OBVIOUS
  <2> DEFINE U == T \ {x}
  <2>2. U \in P /\ R \subseteq U
    BY <1>1, <2>1
  <2>3. IsFiniteSet(T) /\ IsFiniteSet(U) /\ IsFiniteSet(R)
    BY FS_Subset
  <2>4. SumOf(f, T) = f[x] + SumOf(f, U)
    BY <2>3, SumSplit
  <2>5. SumOf(f, U) \in Nat /\ SumOf(f, R) \in Nat /\ f[x] \in Nat
    BY <2>3, SumType
  <2>6. SumOf(f, R) <= SumOf(f, U)
    BY <2>2
  <2> HIDE DEF U
  <2> QED BY <2>4, <2>5, <2>6
<1>2. S \in P
  <2> HIDE DEF P
  <2>1. (SUBSET S) \subseteq P
    BY <1>1, SubsetInduction
  <2> QED BY <2>1
<1> QED BY <1>2

(* One more in one summand is one more in the sum.                              *)
LEMMA SumIncrement ==
  ASSUME NEW S, IsFiniteSet(S), NEW f, NEW g, NEW x \in S, \A y \in S : f[y] \in Nat,
         g[x] = f[x] + 1, \A y \in S \ {x} : g[y] = f[y]
  PROVE  SumOf(g, S) = SumOf(f, S) + 1
<1>1. \A y \in S : g[y] \in Nat
  OBVIOUS
<1>2. SumOf(g, S) = g[x] + SumOf(g, S \ {x}) /\ SumOf(f, S) = f[x] + SumOf(f, S \ {x})
  BY <1>1, SumSplit
<1>3. IsFiniteSet(S \ {x}) /\ SumOf(f, S \ {x}) \in Nat
  BY FS_Subset, SumType
<1>4. SumOf(g, S \ {x}) = SumOf(f, S \ {x})
  BY <1>3, SumSame
<1> QED BY <1>2, <1>3, <1>4

(* No sum exceeds the number of its summands times their largest.               *)
LEMMA SumBound ==
  ASSUME NEW S, IsFiniteSet(S), NEW f, NEW b \in Nat, \A x \in S : f[x] \in Nat /\ f[x] <= b
  PROVE  SumOf(f, S) <= Cardinality(S) * b
<1> DEFINE P == {T \in SUBSET S : SumOf(f, T) <= Cardinality(T) * b}
<1>1. ASSUME NEW T \in SUBSET S, \A U \in SUBSET T : U # T => U \in P
      PROVE T \in P
  <2>1. CASE T = {}
    <3>1. SumOf(f, {}) = 0 /\ Cardinality({}) = 0 /\ 0 * b = 0
      BY SumEmpty, FS_EmptySet
    <3> QED BY <2>1, <3>1
  <2>2. CASE T # {}
    <3> DEFINE x == First(T)
               U == T \ {x}
    <3>1. x \in T /\ U \in P
      BY <1>1, <2>2 DEF First
    <3>2. IsFiniteSet(T) /\ IsFiniteSet(U)
      BY FS_Subset
    <3>3. SumOf(f, T) = f[x] + SumOf(f, U) /\ SumOf(f, U) \in Nat
      BY <2>2, <3>2, SumUnfolds, SumType
    <3>4. Cardinality(U) \in Nat /\ Cardinality(T) = Cardinality(U) + 1
      <4>1. Cardinality(U) = Cardinality(T) - 1 /\ Cardinality(T) \in Nat /\ Cardinality(U) \in Nat
        BY <3>1, <3>2, FS_RemoveElement, FS_CardinalityType
      <4> QED BY <4>1
    <3>5. SumOf(f, U) <= Cardinality(U) * b /\ f[x] \in Nat /\ f[x] <= b
      BY <3>1
    <3> HIDE DEF U, x
    <3>6. Cardinality(T) * b = Cardinality(U) * b + b /\ Cardinality(U) * b \in Nat
      BY <3>4
    <3>7. SumOf(f, T) <= Cardinality(T) * b
      BY <3>3, <3>5, <3>6
    <3> QED BY <3>7
  <2> QED BY <2>1, <2>2
<1>2. S \in P
  <2> HIDE DEF P
  <2>1. (SUBSET S) \subseteq P
    BY <1>1, SubsetInduction
  <2> QED BY <2>1
<1> QED BY <1>2
=============================================================================
