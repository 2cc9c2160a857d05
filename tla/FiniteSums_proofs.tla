--------------------------- MODULE FiniteSums_proofs ---------------------------
(***************************************************************************)
(* What SumOver returns, for every finite set: the sum does not depend on  *)
(* the order in which MapThenFoldSet picks the elements, and a change of   *)
(* one entry changes it by the difference.  The induction over finite sets *)
(* is the existence of a minimal counterexample (WFMin) for the strict     *)
(* subset ordering, which is stated without operator parameters.           *)
(***************************************************************************)
EXTENDS FiniteSums, FiniteSetTheorems, TLAPS

\* The element that MapThenFoldSet takes out of a set next.
Pick(s) == CHOOSE x \in s : TRUE

\* The recursion that MapThenFoldSet unfolds on the subsets of S.
IsSum(g, f, S) ==
    g = [s \in SUBSET S |-> IF s = {} THEN 0 ELSE f[Pick(s)] + g[s \ {Pick(s)}]]

\* SumOver is the value at S of the function its recursion chooses.
LEMMA SumOverIsSum ==
    ASSUME NEW f, NEW S
    PROVE  SumOver(f, S) = (CHOOSE g : IsSum(g, f, S))[S]
BY DEF SumOver, MapThenSumSet, MapThenFoldSet, IsSum, Pick

\* Induction over the subsets of a finite set: what holds of a set whenever it holds of all
\* its strict subsets holds of every subset.
LEMMA FiniteInduction ==
    ASSUME NEW S, IsFiniteSet(S), NEW G,
           \A T \in SUBSET S : (\A U \in SUBSET T : U # T => U \in G) => T \in G
    PROVE  \A T \in SUBSET S : T \in G
<1> DEFINE Bad == {T \in SUBSET S : T \notin G}
<1>1. SUFFICES ASSUME Bad # {} PROVE FALSE
  OBVIOUS
<1>2. IsWellFoundedOn(StrictSubsetOrdering(S), FiniteSubsetsOf(S))
  BY FS_StrictSubsetOrderingWellFounded
<1>3. Bad \subseteq FiniteSubsetsOf(S)
  BY FS_FiniteSubsetsOfFinite
<1>4. PICK T \in Bad : \A U \in Bad : ~(<<U, T>> \in StrictSubsetOrdering(S))
  <2> HIDE DEF Bad
  <2>1. QED BY <1>1, <1>2, <1>3, WFMin
<1>5. \A U \in SUBSET T : U # T => U \in G
  BY <1>4 DEF StrictSubsetOrdering
<1>6. QED
  BY <1>4, <1>5

\* A set that is not empty has the element that is picked.
LEMMA PickIsMember ==
    ASSUME NEW s, s # {}
    PROVE  Pick(s) \in s
BY DEF Pick

\* The recursion has at most one solution: two solutions agree where both are defined.
LEMMA SumsAgree ==
    ASSUME NEW f, NEW A, NEW B, IsFiniteSet(A), NEW g, NEW h, IsSum(g, f, A), IsSum(h, f, B)
    PROVE  \A T \in SUBSET A : T \subseteq B => g[T] = h[T]
<1> DEFINE G == {T \in SUBSET A : T \subseteq B => g[T] = h[T]}
<1>1. ASSUME NEW T \in SUBSET A, \A U \in SUBSET T : U # T => U \in G
      PROVE  T \in G
  <2>1. CASE T = {}
    BY <2>1 DEF IsSum
  <2>2. CASE T # {} /\ T \subseteq B
    <3>1. Pick(T) \in T
      BY <2>2, PickIsMember
    <3>2. g[T \ {Pick(T)}] = h[T \ {Pick(T)}]
      BY <1>1, <2>2, <3>1
    <3>3. g[T] = f[Pick(T)] + g[T \ {Pick(T)}]
      BY <2>2 DEF IsSum
    <3>4. h[T] = f[Pick(T)] + h[T \ {Pick(T)}]
      BY <2>2 DEF IsSum
    <3>5. QED
      BY <3>2, <3>3, <3>4
  <2>3. QED
    BY <2>1, <2>2
<1>2. \A T \in SUBSET A : T \in G
  <2> HIDE DEF G
  <2>1. QED BY <1>1, FiniteInduction
<1>3. QED
  BY <1>2

\* The recursion has a solution on every subset of a finite set.
LEMMA SumExists ==
    ASSUME NEW f, NEW S, IsFiniteSet(S)
    PROVE  \A T \in SUBSET S : \E g : IsSum(g, f, T)
<1> DEFINE G == {T \in SUBSET S : \E g : IsSum(g, f, T)}
           Best(T) == CHOOSE g : IsSum(g, f, T)
<1>1. ASSUME NEW T \in SUBSET S, \A U \in SUBSET T : U # T => U \in G
      PROVE  T \in G
  <2> DEFINE h == [s \in SUBSET T |->
                     IF s = {} THEN 0
                     ELSE f[Pick(s)] + Best(s \ {Pick(s)})[s \ {Pick(s)}]]
  <2>1. ASSUME NEW U \in SUBSET T, U # T
        PROVE  IsSum(Best(U), f, U)
    BY <1>1, <2>1
  <2>2. ASSUME NEW U \in SUBSET T, U # T
        PROVE  h[U] = Best(U)[U]
    <3>1. IsSum(Best(U), f, U)
      BY <2>1, <2>2
    <3>2. CASE U = {}
      <4> HIDE DEF Best
      <4>1. QED BY <3>1, <3>2 DEF IsSum
    <3>3. CASE U # {}
      <4> DEFINE V == U \ {Pick(U)}
      <4>1. Pick(U) \in U
        BY <3>3, PickIsMember
      <4>2. IsSum(Best(V), f, V)
        BY <2>1, <2>2, <4>1
      <4>3. IsFiniteSet(V)
        BY FS_Subset
      <4> HIDE DEF Best
      <4>4. Best(V)[V] = Best(U)[V]
        <5>1. V \subseteq U
          OBVIOUS
        <5> HIDE DEF V
        <5>2. QED BY <3>1, <4>2, <4>3, <5>1, SumsAgree
      <4>5. Best(U)[U] = f[Pick(U)] + Best(U)[V]
        BY <3>1, <3>3 DEF IsSum
      <4>6. QED
        BY <3>3, <4>4, <4>5
    <3>4. QED
      BY <3>2, <3>3
  <2>3. ASSUME NEW s \in SUBSET T, s # {}
        PROVE  h[s] = f[Pick(s)] + h[s \ {Pick(s)}]
    <3>1. Pick(s) \in s
      BY <2>3, PickIsMember
    <3>2. h[s \ {Pick(s)}] = Best(s \ {Pick(s)})[s \ {Pick(s)}]
      BY <2>2, <3>1
    <3>3. h[s] = f[Pick(s)] + Best(s \ {Pick(s)})[s \ {Pick(s)}]
      BY <2>3
    <3>4. QED
      BY <3>2, <3>3
  <2>4. IsSum(h, f, T)
    <3>1. h[{}] = 0
      OBVIOUS
    <3>2. h = [s \in SUBSET T |-> h[s]]
      OBVIOUS
    <3> HIDE DEF h
    <3>3. QED BY <2>3, <3>1, <3>2 DEF IsSum
  <2>5. QED
    <3> HIDE DEF h
    <3>1. QED BY <2>4
<1>2. \A T \in SUBSET S : T \in G
  <2> HIDE DEF G
  <2>1. QED BY <1>1, FiniteInduction
<1>3. QED
  BY <1>2

\* SumOver follows its recursion, one picked element at a time.
LEMMA SumRecursion ==
    ASSUME NEW f, NEW S, IsFiniteSet(S)
    PROVE  /\ SumOver(f, {}) = 0
           /\ S # {} => SumOver(f, S) = f[Pick(S)] + SumOver(f, S \ {Pick(S)})
<1> DEFINE Best(T) == CHOOSE g : IsSum(g, f, T)
<1>1. ASSUME NEW T \in SUBSET S PROVE IsSum(Best(T), f, T)
  BY SumExists
<1>2. \A T : SumOver(f, T) = Best(T)[T]
  BY SumOverIsSum
<1> HIDE DEF Best
<1>3. SumOver(f, {}) = 0
  BY <1>1, <1>2 DEF IsSum
<1>4. ASSUME S # {}
      PROVE  SumOver(f, S) = f[Pick(S)] + SumOver(f, S \ {Pick(S)})
  <2> DEFINE V == S \ {Pick(S)}
  <2>1. Best(S)[S] = f[Pick(S)] + Best(S)[V]
    BY <1>1, <1>4 DEF IsSum
  <2>2. IsFiniteSet(V)
    BY FS_Subset
  <2>3. Best(V)[V] = Best(S)[V]
    BY <1>1, <2>2, SumsAgree
  <2>4. QED
    BY <1>2, <2>1, <2>3
<1>5. QED
  BY <1>3, <1>4

\* Nothing sums to zero.
LEMMA SumEmpty ==
    ASSUME NEW f
    PROVE  SumOver(f, {}) = 0
BY SumRecursion, FS_EmptySet

\* Integers sum to an integer.
LEMMA SumType ==
    ASSUME NEW f, NEW S, IsFiniteSet(S), \A x \in S : f[x] \in Int
    PROVE  SumOver(f, S) \in Int
<1> DEFINE G == {T \in SUBSET S : SumOver(f, T) \in Int}
<1>1. ASSUME NEW T \in SUBSET S, \A U \in SUBSET T : U # T => U \in G
      PROVE  T \in G
  <2>1. IsFiniteSet(T)
    BY FS_Subset
  <2>2. CASE T = {}
    BY <2>2, SumEmpty
  <2>3. CASE T # {}
    <3>1. Pick(T) \in T
      BY <2>3, PickIsMember
    <3>2. SumOver(f, T \ {Pick(T)}) \in Int
      BY <1>1, <3>1
    <3>3. SumOver(f, T) = f[Pick(T)] + SumOver(f, T \ {Pick(T)})
      BY <2>1, <2>3, SumRecursion
    <3>4. QED
      BY <3>1, <3>2, <3>3
  <2>4. QED
    BY <2>2, <2>3
<1>2. \A T \in SUBSET S : T \in G
  <2> HIDE DEF G
  <2>1. QED BY <1>1, FiniteInduction
<1>3. QED
  BY <1>2

\* Any element may be taken out first, not only the picked one.
LEMMA SumRemove ==
    ASSUME NEW f, NEW S, IsFiniteSet(S), \A x \in S : f[x] \in Int, NEW x \in S
    PROVE  SumOver(f, S) = f[x] + SumOver(f, S \ {x})
<1> DEFINE G == {T \in SUBSET S :
                   \A y \in T : SumOver(f, T) = f[y] + SumOver(f, T \ {y})}
<1>1. ASSUME NEW T \in SUBSET S, \A U \in SUBSET T : U # T => U \in G
      PROVE  T \in G
  <2> SUFFICES ASSUME NEW y \in T
               PROVE  SumOver(f, T) = f[y] + SumOver(f, T \ {y})
    OBVIOUS
  <2> DEFINE p == Pick(T)
  <2>1. \A U \in SUBSET T : IsFiniteSet(U) /\ SumOver(f, U) \in Int
    <3>1. ASSUME NEW U \in SUBSET T PROVE IsFiniteSet(U)
      BY FS_Subset
    <3>2. ASSUME NEW U \in SUBSET T PROVE SumOver(f, U) \in Int
      BY <3>1, SumType
    <3>3. QED
      BY <3>1, <3>2
  <2>2. p \in T
    BY PickIsMember
  <2>3. SumOver(f, T) = f[p] + SumOver(f, T \ {p})
    BY <2>1, SumRecursion
  <2> HIDE DEF p
  <2>4. CASE y = p
    BY <2>3, <2>4
  <2>5. CASE y # p
    <3>1. SumOver(f, T \ {p}) = f[y] + SumOver(f, (T \ {p}) \ {y})
      BY <1>1, <2>2, <2>5
    <3>2. SumOver(f, T \ {y}) = f[p] + SumOver(f, (T \ {y}) \ {p})
      BY <1>1, <2>2, <2>5
    <3>3. (T \ {p}) \ {y} = (T \ {y}) \ {p}
      OBVIOUS
    <3>4. f[p] \in Int /\ f[y] \in Int /\ SumOver(f, (T \ {y}) \ {p}) \in Int
      BY <2>1, <2>2
    <3>5. \A a, b, c \in Int : a + (b + c) = b + (a + c)
      OBVIOUS
    <3>6. f[p] + (f[y] + SumOver(f, (T \ {y}) \ {p}))
          = f[y] + (f[p] + SumOver(f, (T \ {y}) \ {p}))
      BY <3>4, <3>5
    <3>7. QED
      BY <2>3, <3>1, <3>2, <3>3, <3>6
  <2>6. QED
    BY <2>4, <2>5
<1>2. \A T \in SUBSET S : T \in G
  <2> HIDE DEF G
  <2>1. QED BY <1>1, FiniteInduction
<1>3. QED
  BY <1>2

\* A sum over some of the keys is the sum over all of them of the table that is zero elsewhere.
LEMMA SumMask ==
    ASSUME NEW f, NEW g, NEW S, IsFiniteSet(S), NEW R, R \subseteq S,
           \A x \in R : f[x] = g[x] /\ g[x] \in Int, \A x \in S \ R : g[x] = 0
    PROVE  SumOver(f, R) = SumOver(g, S)
<1> DEFINE G == {T \in SUBSET S : SumOver(f, T \cap R) = SumOver(g, T)}
<1>1. ASSUME NEW T \in SUBSET S, \A U \in SUBSET T : U # T => U \in G
      PROVE  T \in G
  <2>1. \A U \in SUBSET S : IsFiniteSet(U)
    BY FS_Subset
  <2>2. CASE T = {}
    <3>1. T \cap R = {}
      BY <2>2
    <3>2. QED
      BY <2>2, <3>1, SumEmpty
  <2>3. ASSUME NEW x \in T PROVE T \in G
    <3>1. SumOver(f, (T \ {x}) \cap R) = SumOver(g, T \ {x})
      BY <1>1
    <3>2. SumOver(g, T) = g[x] + SumOver(g, T \ {x})
      BY <2>1, SumRemove
    <3>3. SumOver(g, T \ {x}) \in Int
      BY <2>1, SumType
    <3>4. CASE x \in R
      <4>1. SumOver(f, T \cap R) = f[x] + SumOver(f, (T \cap R) \ {x})
        BY <2>1, <3>4, SumRemove
      <4>2. (T \cap R) \ {x} = (T \ {x}) \cap R
        OBVIOUS
      <4>3. QED
        BY <3>1, <3>2, <3>4, <4>1, <4>2
    <3>5. CASE x \notin R
      <4>1. T \cap R = (T \ {x}) \cap R
        BY <3>5
      <4>2. SumOver(g, T) = SumOver(g, T \ {x})
        BY <3>2, <3>3, <3>5
      <4>3. QED
        BY <3>1, <4>1, <4>2
    <3>6. QED
      BY <3>4, <3>5
  <2>4. QED
    BY <2>2, <2>3
<1>2. \A T \in SUBSET S : T \in G
  <2> HIDE DEF G
  <2>1. QED BY <1>1, FiniteInduction
<1>3. S \cap R = R
  OBVIOUS
<1>4. QED
  BY <1>2, <1>3

\* Tables that agree on S have the same sum over S.
LEMMA SumSame ==
    ASSUME NEW f, NEW g, NEW S, IsFiniteSet(S), \A x \in S : f[x] = g[x] /\ g[x] \in Int
    PROVE  SumOver(f, S) = SumOver(g, S)
BY SumMask

\* Changing one entry changes the sum by the difference.
LEMMA SumUpdate ==
    ASSUME NEW f, NEW g, NEW S, IsFiniteSet(S), NEW x \in S,
           \A y \in S : f[y] \in Int /\ g[y] \in Int,
           \A y \in S \ {x} : g[y] = f[y]
    PROVE  SumOver(g, S) = SumOver(f, S) - f[x] + g[x]
<1>1. IsFiniteSet(S \ {x})
  BY FS_Subset
<1>2. SumOver(f, S) = f[x] + SumOver(f, S \ {x})
  BY SumRemove
<1>3. SumOver(g, S) = g[x] + SumOver(g, S \ {x})
  BY SumRemove
<1>4. SumOver(g, S \ {x}) = SumOver(f, S \ {x})
  BY <1>1, SumSame
<1>5. SumOver(f, S \ {x}) \in Int
  BY <1>1, SumType
<1>6. QED
  BY <1>2, <1>3, <1>4, <1>5

\* A sum of natural numbers is one, and no entry exceeds it.
LEMMA SumNat ==
    ASSUME NEW f, NEW S, IsFiniteSet(S), \A x \in S : f[x] \in Nat
    PROVE  /\ SumOver(f, S) \in Nat
           /\ \A x \in S : f[x] <= SumOver(f, S)
<1> DEFINE G == {T \in SUBSET S : SumOver(f, T) \in Nat}
<1>1. ASSUME NEW T \in SUBSET S, \A U \in SUBSET T : U # T => U \in G
      PROVE  T \in G
  <2>1. IsFiniteSet(T)
    BY FS_Subset
  <2>2. CASE T = {}
    BY <2>2, SumEmpty
  <2>3. ASSUME NEW x \in T PROVE T \in G
    <3>1. SumOver(f, T \ {x}) \in Nat
      BY <1>1
    <3>2. SumOver(f, T) = f[x] + SumOver(f, T \ {x})
      BY <2>1, SumRemove
    <3>3. QED
      BY <3>1, <3>2
  <2>4. QED
    BY <2>2, <2>3
<1>2. \A T \in SUBSET S : T \in G
  <2> HIDE DEF G
  <2>1. QED BY <1>1, FiniteInduction
<1>3. ASSUME NEW x \in S PROVE f[x] <= SumOver(f, S)
  <2>1. SumOver(f, S) = f[x] + SumOver(f, S \ {x})
    BY SumRemove
  <2>2. SumOver(f, S \ {x}) \in Nat
    BY <1>2
  <2>3. QED
    BY <2>1, <2>2
<1>4. QED
  BY <1>2, <1>3

\* A table of zeros sums to zero: the books of a fresh contract.
LEMMA SumZero ==
    ASSUME NEW f, NEW S, IsFiniteSet(S), \A x \in S : f[x] = 0
    PROVE  SumOver(f, S) = 0
<1>1. SumOver(f, {}) = SumOver(f, S)
  BY SumMask
<1>2. QED
  BY <1>1, SumEmpty
================================================================================
