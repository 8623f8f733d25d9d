------------------------------ MODULE SetSums ------------------------------
(***************************************************************************)
(* What the proofs need to know of sums over finite sets.  MapThenSumSet   *)
(* of the community modules folds a set in an order it chooses; here its   *)
(* recursion is shown to have a solution, the order to make no difference, *)
(* and the sum to respect order, addition and subsets.                     *)
(*                                                                         *)
(* Induction over sets is stated with a set of sets, not with a predicate, *)
(* so that the provers can instantiate it.                                 *)
(***************************************************************************)
EXTENDS Integers, FiniteSets, Sums, FiniteSetTheorems, WellFoundedInduction, TLAPS

\* The recursion of the fold.
Pick(s) == CHOOSE x \in s : TRUE
Unfolded(f, g, s) == IF s = {} THEN 0 ELSE f[Pick(s)] + g[s \ {Pick(s)}]
Sums(f, S, g) == g = [s \in SUBSET S |-> Unfolded(f, g, s)]

\* A set of natural numbers that is not empty has a least element.
LEMMA LeastOfNat ==
    ASSUME NEW T \in SUBSET Nat, T # {}
    PROVE  \E m \in T : \A n \in T : m <= n
  <1>1. IsWellFoundedOn(OpToRel(<, Nat), Nat)
    BY NatLessThanWellFounded
  <1>2. PICK x \in T : \A y \in T : ~(<<y, x>> \in OpToRel(<, Nat))
    BY <1>1, WFMin
  <1>3. \A y \in T : ~(y < x)
    BY <1>2 DEF OpToRel
  <1> QED
    BY <1>3

\* Induction over the numbers, and over the subsets of a finite set.
LEMMA NumberInduction ==
    ASSUME NEW Good \in SUBSET Nat, 0 \in Good, \A n \in Good : n + 1 \in Good
    PROVE  Good = Nat
  <1> SUFFICES ASSUME Nat \ Good # {} PROVE FALSE
    OBVIOUS
  <1>1. PICK m \in Nat \ Good : \A n \in Nat \ Good : m <= n
    BY LeastOfNat
  <1>2. m # 0 /\ m - 1 \in Nat /\ ~(m <= m - 1)
    BY <1>1
  <1>3. m - 1 \in Good
    BY <1>1, <1>2
  <1>4. (m - 1) + 1 \in Good
    BY <1>3
  <1> QED
    BY <1>1, <1>4

\* What holds of the empty set, and of a set whenever it holds of all the
\* sets that are smaller by one element, holds of every finite set.
LEMMA SubsetInduction ==
    ASSUME NEW U, IsFiniteSet(U), NEW Good, {} \in Good,
           \A s \in SUBSET U : (s # {} /\ \A x \in s : s \ {x} \in Good) => s \in Good
    PROVE  \A s \in SUBSET U : s \in Good
  <1> DEFINE Bad == {s \in SUBSET U : s \notin Good}
             Sizes == {Cardinality(s) : s \in Bad}
  <1> SUFFICES ASSUME Bad # {} PROVE FALSE
    OBVIOUS
  <1>1. \A s \in SUBSET U : IsFiniteSet(s) /\ Cardinality(s) \in Nat
    BY FS_Subset, FS_CardinalityType
  <1>2. Sizes \in SUBSET Nat /\ Sizes # {}
    BY <1>1
  <1>3. PICK m \in Sizes : \A n \in Sizes : m <= n
    BY <1>2, LeastOfNat
  <1>4. PICK s \in Bad : Cardinality(s) = m
    BY <1>3
  <1>5. s # {}
    BY <1>4
  <1>6. ASSUME NEW x \in s PROVE s \ {x} \in Good
    <2>1. Cardinality(s \ {x}) = Cardinality(s) - 1
      BY <1>1, <1>4, FS_RemoveElement
    <2>2. s \ {x} \in SUBSET U
      BY <1>4
    <2>3. Cardinality(s) \in Nat
      BY <1>1, <1>4
    <2>4. CASE s \ {x} \in Bad
      <3>1. m <= Cardinality(s \ {x})
        BY <1>3, <2>4
      <3> QED
        BY <1>4, <2>1, <2>3, <3>1
    <2> QED
      BY <2>2, <2>4
  <1> QED
    BY <1>4, <1>5, <1>6

\* The fold is a solution of its recursion, if there is one.
LEMMA SumIsFold ==
    ASSUME NEW f, NEW S
    PROVE  SumOver(f, S) = (CHOOSE g : Sums(f, S, g))[S]
  BY DEF SumOver, MapThenSumSet, MapThenFoldSet, Sums, Unfolded, Pick

\* What is picked of a set is in it.
LEMMA PickIsMember == ASSUME NEW s, s # {} PROVE Pick(s) \in s
  BY DEF Pick

\* There is one: it is built from the smaller sets to the larger ones.
LEMMA SumsExist ==
    ASSUME NEW S, IsFiniteSet(S), NEW f, \A a \in S : f[a] \in Int
    PROVE  \E g \in [SUBSET S -> Int] : Sums(f, S, g)
  <1> DEFINE Upto(n) == {s \in SUBSET S : Cardinality(s) <= n}
             Solves(n, g) == g \in [Upto(n) -> Int] /\ \A s \in Upto(n) : g[s] = Unfolded(f, g, s)
             Good == {n \in Nat : \E g : Solves(n, g)}
  <1>1. \A s \in SUBSET S : IsFiniteSet(s) /\ Cardinality(s) \in Nat
    BY FS_Subset, FS_CardinalityType
  <1>2. ASSUME NEW n \in Nat, NEW s \in Upto(n + 1), s # {}
        PROVE  /\ Pick(s) \in s /\ Pick(s) \in S /\ f[Pick(s)] \in Int
               /\ s \ {Pick(s)} \in Upto(n)
    <2>1. Pick(s) \in s
      BY <1>2, PickIsMember
    <2>2. Cardinality(s \ {Pick(s)}) = Cardinality(s) - 1
      BY <1>1, <2>1, FS_RemoveElement
    <2>3. Cardinality(s) \in Nat /\ Cardinality(s) <= n + 1
      BY <1>1
    <2>4. Cardinality(s \ {Pick(s)}) <= n
      BY <2>2, <2>3
    <2> QED
      BY <2>1, <2>4
  <1>3. 0 \in Good
    <2> DEFINE g == [s \in Upto(0) |-> 0]
    <2>1. ASSUME NEW s \in Upto(0) PROVE s = {}
      <3>1. Cardinality(s) \in Nat /\ Cardinality(s) <= 0 /\ IsFiniteSet(s)
        BY <1>1
      <3>2. Cardinality(s) = 0
        BY <3>1
      <3> QED
        BY <3>1, <3>2, FS_EmptySet
    <2>2. \A s \in Upto(0) : g[s] = Unfolded(f, g, s)
      BY <2>1 DEF Unfolded
    <2>3. g \in [Upto(0) -> Int]
      OBVIOUS
    <2>4. Solves(0, g)
      BY <2>2, <2>3
    <2> QED
      BY <2>4
  <1>4. ASSUME NEW n \in Good PROVE n + 1 \in Good
    <2>1. PICK g : Solves(n, g)
      OBVIOUS
    <2> DEFINE h == [s \in Upto(n + 1) |-> Unfolded(f, g, s)]
    <2>2. n \in Nat
      OBVIOUS
    <2>3. ASSUME NEW s \in Upto(n + 1)
          PROVE  Unfolded(f, g, s) \in Int /\ Unfolded(f, g, s) = Unfolded(f, h, s)
      <3>1. CASE s = {}
        BY <3>1 DEF Unfolded
      <3>2. CASE s # {}
        <4> DEFINE t == s \ {Pick(s)}
        <4>1. f[Pick(s)] \in Int /\ t \in Upto(n)
          BY <1>2, <2>2, <3>2
        <4>2. t \in Upto(n + 1)
          <5>1. Cardinality(t) \in Nat /\ Cardinality(t) <= n
            BY <1>1, <4>1
          <5> QED
            BY <2>2, <4>1, <5>1
        <4> HIDE DEF t
        <4>3. g[t] \in Int /\ g[t] = Unfolded(f, g, t)
          BY <2>1, <4>1
        <4>4. h[t] = Unfolded(f, g, t)
          BY <4>2
        <4> QED
          BY <3>2, <4>1, <4>3, <4>4 DEF Unfolded, t
      <3> QED
        BY <3>1, <3>2
    <2>4. h \in [Upto(n + 1) -> Int] /\ \A s \in Upto(n + 1) : h[s] = Unfolded(f, h, s)
      BY <2>3
    <2>5. \E k : Solves(n + 1, k)
      BY <2>4
    <2>6. n + 1 \in Nat
      BY <2>2
    <2> HIDE DEF Solves, h
    <2> QED
      BY <2>5, <2>6
  <1>5. Good = Nat
    <2>1. Good \in SUBSET Nat
      OBVIOUS
    <2> HIDE DEF Good
    <2> QED
      BY <1>3, <1>4, <2>1, NumberInduction
  <1>6. PICK g : Solves(Cardinality(S), g)
    BY <1>1, <1>5
  <1>7. Upto(Cardinality(S)) = SUBSET S
    BY FS_Subset
  <1>8. g \in [SUBSET S -> Int] /\ \A s \in SUBSET S : g[s] = Unfolded(f, g, s)
    BY <1>6, <1>7
  <1> QED
    BY <1>8 DEF Sums

\* And only one.
LEMMA SumsAgree ==
    ASSUME NEW S, IsFiniteSet(S), NEW f, NEW g, NEW h, Sums(f, S, g), Sums(f, S, h)
    PROVE  g = h
  <1> DEFINE Good == {T \in SUBSET S : g[T] = h[T]}
  <1>1. \A T \in SUBSET S : g[T] = Unfolded(f, g, T) /\ h[T] = Unfolded(f, h, T)
    BY DEF Sums
  <1>2. {} \in Good
    BY <1>1 DEF Unfolded
  <1>3. ASSUME NEW T \in SUBSET S, T # {}, \A x \in T : T \ {x} \in Good
        PROVE  T \in Good
    <2>1. T \ {Pick(T)} \in Good
      BY <1>3, PickIsMember
    <2>2. g[T \ {Pick(T)}] = h[T \ {Pick(T)}]
      BY <2>1
    <2> QED
      BY <1>1, <1>3, <2>2 DEF Unfolded
  <1>4. \A T \in SUBSET S : T \in Good
    <2> HIDE DEF Good
    <2> QED
      BY <1>2, <1>3, SubsetInduction
  <1>5. \A T \in SUBSET S : g[T] = h[T]
    BY <1>4
  <1>6. g = [s \in SUBSET S |-> Unfolded(f, g, s)] /\ h = [s \in SUBSET S |-> Unfolded(f, h, s)]
    BY DEF Sums
  <1> HIDE DEF Good
  <1>7. \A s \in SUBSET S : Unfolded(f, g, s) = Unfolded(f, h, s)
    BY <1>1, <1>5
  <1>8. [s \in SUBSET S |-> Unfolded(f, g, s)] = [s \in SUBSET S |-> Unfolded(f, h, s)]
    BY <1>7
  <1> QED
    BY <1>6, <1>8

\* A solution for a set is one for each of its subsets.
LEMMA SumsOfSubset ==
    ASSUME NEW S, IsFiniteSet(S), NEW f, NEW g, Sums(f, S, g), NEW T \in SUBSET S
    PROVE  SumOver(f, T) = g[T]
  <1> DEFINE h == [s \in SUBSET T |-> g[s]]
  <1>1. ASSUME NEW s \in SUBSET T PROVE h[s] = Unfolded(f, h, s)
    <2>1. s \in SUBSET S /\ h[s] = g[s] /\ g[s] = Unfolded(f, g, s)
      BY DEF Sums
    <2>2. s \ {Pick(s)} \in SUBSET T
      OBVIOUS
    <2>3. h[s \ {Pick(s)}] = g[s \ {Pick(s)}]
      BY <2>2
    <2> QED
      BY <2>1, <2>3 DEF Unfolded
  <1>2. [s \in SUBSET T |-> g[s]] = [s \in SUBSET T |-> Unfolded(f, h, s)]
    BY <1>1
  <1>3. Sums(f, T, h)
    BY <1>2 DEF Sums
  <1>4. h[T] = g[T]
    OBVIOUS
  <1> HIDE DEF h
  <1>5. Sums(f, T, CHOOSE k : Sums(f, T, k))
    BY <1>3
  <1>6. (CHOOSE k : Sums(f, T, k)) = h
    BY <1>3, <1>5, SumsAgree, FS_Subset
  <1> QED
    BY <1>4, <1>6, SumIsFold

\* A sum is a term and the sum of the rest.
LEMMA SumUnfolds ==
    ASSUME NEW S, IsFiniteSet(S), NEW f, \A a \in S : f[a] \in Int, NEW T \in SUBSET S
    PROVE  /\ SumOver(f, T) \in Int
           /\ T = {} => SumOver(f, T) = 0
           /\ T # {} => SumOver(f, T) = f[Pick(T)] + SumOver(f, T \ {Pick(T)})
  <1>1. PICK g \in [SUBSET S -> Int] : Sums(f, S, g)
    BY SumsExist
  <1>2. \A U \in SUBSET S : SumOver(f, U) = g[U]
    BY <1>1, SumsOfSubset
  <1>3. T \ {Pick(T)} \in SUBSET S
    OBVIOUS
  <1>4. g[T] = Unfolded(f, g, T) /\ g[T] \in Int
    BY <1>1 DEF Sums
  <1>5. SumOver(f, T) = g[T] /\ SumOver(f, T \ {Pick(T)}) = g[T \ {Pick(T)}]
    BY <1>2, <1>3
  <1> QED
    BY <1>4, <1>5 DEF Unfolded

\* The order makes no difference: any member may be taken out first.
LEMMA SumRemove ==
    ASSUME NEW S, IsFiniteSet(S), NEW f, \A a \in S : f[a] \in Int,
           NEW T \in SUBSET S, NEW x \in T
    PROVE  SumOver(f, T) = f[x] + SumOver(f, T \ {x})
  <1> DEFINE Good == {U \in SUBSET S : \A y \in U : SumOver(f, U) = f[y] + SumOver(f, U \ {y})}
  <1>1. {} \in Good
    OBVIOUS
  <1>2. ASSUME NEW U \in SUBSET S, U # {}, \A y \in U : U \ {y} \in Good
        PROVE  U \in Good
    <2> SUFFICES ASSUME NEW y \in U PROVE SumOver(f, U) = f[y] + SumOver(f, U \ {y})
      OBVIOUS
    <2> DEFINE p == Pick(U)
    <2>1. p \in U
      BY <1>2, PickIsMember
    <2>2. SumOver(f, U) = f[p] + SumOver(f, U \ {p})
      BY <1>2, SumUnfolds
    <2> HIDE DEF p
    <2>3. CASE y = p
      BY <2>2, <2>3
    <2>4. CASE y # p
      <3>1. U \ {p} \in Good /\ U \ {y} \in Good
        BY <1>2, <2>1
      <3>2. y \in U \ {p} /\ p \in U \ {y}
        BY <2>1, <2>4
      <3>3. SumOver(f, U \ {p}) = f[y] + SumOver(f, (U \ {p}) \ {y})
        BY <3>1, <3>2
      <3>4. SumOver(f, U \ {y}) = f[p] + SumOver(f, (U \ {y}) \ {p})
        BY <3>1, <3>2
      <3>5. (U \ {p}) \ {y} = (U \ {y}) \ {p}
        OBVIOUS
      <3> DEFINE rest == SumOver(f, (U \ {y}) \ {p})
      <3>6. rest \in Int
        <4>1. (U \ {y}) \ {p} \in SUBSET S
          OBVIOUS
        <4> QED
          BY <4>1, SumUnfolds
      <3>7. f[p] \in Int /\ f[y] \in Int
        BY <2>1
      <3>8. SumOver(f, U \ {p}) = f[y] + rest /\ SumOver(f, U \ {y}) = f[p] + rest
        BY <3>3, <3>4, <3>5
      <3> HIDE DEF rest
      <3> QED
        BY <2>2, <3>6, <3>7, <3>8
    <2> QED
      BY <2>3, <2>4
  <1>3. \A U \in SUBSET S : U \in Good
    <2> HIDE DEF Good
    <2> QED
      BY <1>1, <1>2, SubsetInduction
  <1> QED
    BY <1>3

-----------------------------------------------------------------------------
(* What the proofs of the modules use.                                     *)

\* The sum over no index is nought.
LEMMA SumOfNothing == ASSUME NEW f PROVE SumOver(f, {}) = 0
  <1>1. IsFiniteSet({}) /\ (\A a \in {} : f[a] \in Int) /\ {} \in SUBSET {}
    BY FS_EmptySet
  <1>2. \A T \in SUBSET {} : T = {} => SumOver(f, T) = 0
    BY <1>1, SumUnfolds
  <1> QED
    BY <1>2

\* A sum of integers is one.
LEMMA SumType ==
    ASSUME NEW S, IsFiniteSet(S), NEW f, \A a \in S : f[a] \in Int
    PROVE  SumOver(f, S) \in Int /\ (S = {} => SumOver(f, S) = 0)
  BY SumUnfolds

\* A set of subsets that holds with a set whatever holds with one member less
\* holds the set itself.
LEMMA MemberByMember ==
    ASSUME NEW S, IsFiniteSet(S), NEW Good, {} \in Good,
           \A T \in SUBSET S, x \in S : x \in T /\ T \ {x} \in Good => T \in Good
    PROVE  S \in Good
  <1>1. ASSUME NEW T \in SUBSET S, T # {}, \A x \in T : T \ {x} \in Good
        PROVE  T \in Good
    BY <1>1
  <1>2. \A T \in SUBSET S : T \in Good
    BY <1>1, SubsetInduction
  <1> QED
    BY <1>2

\* The sum of one member and the rest, for the subsets an induction meets.
Summable(f, S) == IsFiniteSet(S) /\ \A a \in S : f[a] \in Int

Splits(f, T, x) ==
    /\ SumOver(f, T) = f[x] + SumOver(f, T \ {x})
    /\ f[x] \in Int /\ SumOver(f, T) \in Int /\ SumOver(f, T \ {x}) \in Int

\* Any term may be taken out of a sum first.
LEMMA SumStep ==
    ASSUME NEW S, NEW f, Summable(f, S), NEW T \in SUBSET S, NEW x \in T
    PROVE  Splits(f, T, x)
  <1>0. IsFiniteSet(S) /\ \A a \in S : f[a] \in Int
    BY DEF Summable
  <1>1. T \ {x} \in SUBSET S /\ x \in S
    OBVIOUS
  <1>2. SumOver(f, T) \in Int /\ SumOver(f, T \ {x}) \in Int
    BY <1>0, <1>1, SumUnfolds
  <1> QED
    BY <1>0, <1>1, <1>2, SumRemove DEF Splits

\* Sums respect the order of their terms.
LEMMA SumMonotone ==
    ASSUME NEW S, IsFiniteSet(S), NEW f, NEW g,
           \A a \in S : f[a] \in Int /\ g[a] \in Int /\ f[a] <= g[a]
    PROVE  SumOver(f, S) <= SumOver(g, S)
  <1> DEFINE Good == {T \in SUBSET S : SumOver(f, T) <= SumOver(g, T)}
  <1>f. Summable(f, S)
    BY DEF Summable
  <1>g. Summable(g, S)
    BY DEF Summable
  <1>1. {} \in Good
    <2>1. SumOver(f, {}) = 0 /\ SumOver(g, {}) = 0
      BY SumOfNothing
    <2> QED
      BY <2>1
  <1>2. ASSUME NEW T \in SUBSET S, NEW x \in S, x \in T, T \ {x} \in Good
        PROVE  T \in Good
    <2>0. T \in SUBSET S /\ x \in T
      BY <1>2
    <2>1. Splits(f, T, x)
      BY <1>f, <2>0, SumStep
    <2>2. Splits(g, T, x)
      BY <1>g, <2>0, SumStep
    <2>3. SumOver(f, T \ {x}) <= SumOver(g, T \ {x}) /\ f[x] <= g[x]
      BY <1>2
    <2>4. SumOver(f, T) <= SumOver(g, T)
      BY <2>1, <2>2, <2>3 DEF Splits
    <2> QED
      BY <2>4
  <1>3. S \in Good
    <2> HIDE DEF Good
    <2> QED
      BY <1>1, <1>2, MemberByMember
  <1> QED
    BY <1>3

\* Sums of the same terms are the same.
LEMMA SumSame ==
    ASSUME NEW S, IsFiniteSet(S), NEW f, NEW g, \A a \in S : f[a] \in Int /\ f[a] = g[a]
    PROVE  SumOver(f, S) = SumOver(g, S)
  <1>1. \A a \in S : f[a] \in Int /\ g[a] \in Int /\ f[a] <= g[a] /\ g[a] <= f[a]
    OBVIOUS
  <1>2. SumOver(f, S) <= SumOver(g, S) /\ SumOver(g, S) <= SumOver(f, S)
    BY <1>1, SumMonotone
  <1>3. SumOver(f, S) \in Int /\ SumOver(g, S) \in Int
    BY <1>1, SumType
  <1> QED
    BY <1>2, <1>3

\* Sums add term by term.
LEMMA SumOfSums ==
    ASSUME NEW S, IsFiniteSet(S), NEW f, NEW g, NEW h,
           \A a \in S : f[a] \in Int /\ g[a] \in Int /\ h[a] = f[a] + g[a]
    PROVE  SumOver(h, S) = SumOver(f, S) + SumOver(g, S)
  <1> DEFINE Good == {T \in SUBSET S : SumOver(h, T) = SumOver(f, T) + SumOver(g, T)}
  <1>f. Summable(f, S)
    BY DEF Summable
  <1>g. Summable(g, S)
    BY DEF Summable
  <1>h. Summable(h, S)
    BY DEF Summable
  <1>1. {} \in Good
    <2>1. SumOver(h, {}) = 0 /\ SumOver(f, {}) = 0 /\ SumOver(g, {}) = 0
      BY SumOfNothing
    <2> QED
      BY <2>1
  <1>2. ASSUME NEW T \in SUBSET S, NEW x \in S, x \in T, T \ {x} \in Good
        PROVE  T \in Good
    <2>0. T \in SUBSET S /\ x \in T
      BY <1>2
    <2>1. Splits(f, T, x)
      BY <1>f, <2>0, SumStep
    <2>2. Splits(g, T, x)
      BY <1>g, <2>0, SumStep
    <2>3. Splits(h, T, x)
      BY <1>h, <2>0, SumStep
    <2>4. SumOver(h, T \ {x}) = SumOver(f, T \ {x}) + SumOver(g, T \ {x}) /\ h[x] = f[x] + g[x]
      BY <1>2
    <2>5. SumOver(h, T) = SumOver(f, T) + SumOver(g, T)
      BY <2>1, <2>2, <2>3, <2>4 DEF Splits
    <2> QED
      BY <2>5
  <1>3. S \in Good
    <2> HIDE DEF Good
    <2> QED
      BY <1>1, <1>2, MemberByMember
  <1> QED
    BY <1>3

\* And scale term by term.
LEMMA SumOfMultiples ==
    ASSUME NEW S, IsFiniteSet(S), NEW c \in Int, NEW f, NEW h,
           \A a \in S : f[a] \in Int /\ h[a] = c * f[a]
    PROVE  SumOver(h, S) = c * SumOver(f, S)
  <1> DEFINE Good == {T \in SUBSET S : SumOver(h, T) = c * SumOver(f, T)}
  <1>f. Summable(f, S)
    BY DEF Summable
  <1>h. Summable(h, S)
    BY DEF Summable
  <1>1. {} \in Good
    <2>1. SumOver(h, {}) = 0 /\ SumOver(f, {}) = 0
      BY SumOfNothing
    <2> QED
      BY <2>1
  <1>2. ASSUME NEW T \in SUBSET S, NEW x \in S, x \in T, T \ {x} \in Good
        PROVE  T \in Good
    <2>0. T \in SUBSET S /\ x \in T
      BY <1>2
    <2>1. Splits(f, T, x)
      BY <1>f, <2>0, SumStep
    <2>2. Splits(h, T, x)
      BY <1>h, <2>0, SumStep
    <2>3. SumOver(h, T \ {x}) = c * SumOver(f, T \ {x}) /\ h[x] = c * f[x]
      BY <1>2
    <2>4. \A p, q \in Int : c * (p + q) = c * p + c * q
      OBVIOUS
    <2>5. SumOver(h, T) = c * SumOver(f, T)
      BY <2>1, <2>2, <2>3, <2>4 DEF Splits
    <2> QED
      BY <2>5
  <1>3. S \in Good
    <2> HIDE DEF Good
    <2> QED
      BY <1>1, <1>2, MemberByMember
  <1> QED
    BY <1>3

\* The sum over two sets that share nothing.
LEMMA SumOfUnion ==
    ASSUME NEW S, IsFiniteSet(S), NEW f, \A a \in S : f[a] \in Int,
           NEW A \in SUBSET S
    PROVE  SumOver(f, S) = SumOver(f, A) + SumOver(f, S \ A)
  <1> DEFINE Good == {T \in SUBSET S : SumOver(f, T) = SumOver(f, T \cap A) + SumOver(f, T \ A)}
  <1>f. Summable(f, S)
    BY DEF Summable
  <1>1. {} \in Good
    <2>1. SumOver(f, {}) = 0 /\ {} \cap A = {} /\ {} \ A = {}
      BY SumOfNothing
    <2> QED
      BY <2>1
  <1>2. ASSUME NEW T \in SUBSET S, NEW x \in S, x \in T, T \ {x} \in Good
        PROVE  T \in Good
    <2>0. Splits(f, T, x)
      BY <1>f, <1>2, SumStep
    <2>1. SumOver(f, T) = f[x] + SumOver(f, T \ {x}) /\ f[x] \in Int /\ SumOver(f, T \ {x}) \in Int
      BY <2>0 DEF Splits
    <2>2. SumOver(f, T \ {x}) = SumOver(f, (T \ {x}) \cap A) + SumOver(f, (T \ {x}) \ A)
      BY <1>2
    <2>3. (T \ {x}) \cap A \in SUBSET S /\ (T \ {x}) \ A \in SUBSET S
          /\ T \cap A \in SUBSET S /\ T \ A \in SUBSET S
      OBVIOUS
    <2>4. SumOver(f, (T \ {x}) \cap A) \in Int /\ SumOver(f, (T \ {x}) \ A) \in Int
      BY <2>3, SumUnfolds
    <2>5. CASE x \in A
      <3>1. x \in T \cap A /\ (T \ {x}) \cap A = (T \cap A) \ {x} /\ (T \ {x}) \ A = T \ A
        BY <1>2, <2>5
      <3>5. Splits(f, T \cap A, x)
        BY <2>3, <3>1, <1>f, SumStep
      <3>2. SumOver(f, T \cap A) = f[x] + SumOver(f, (T \cap A) \ {x})
        BY <3>5 DEF Splits
      <3>3. SumOver(f, T) = f[x] + (SumOver(f, (T \cap A) \ {x}) + SumOver(f, T \ A))
            /\ SumOver(f, (T \cap A) \ {x}) \in Int /\ SumOver(f, T \ A) \in Int
        BY <2>1, <2>2, <2>4, <3>1
      <3>4. SumOver(f, T) = SumOver(f, T \cap A) + SumOver(f, T \ A)
        BY <2>1, <3>2, <3>3
      <3> QED
        BY <3>4
    <2>6. CASE x \notin A
      <3>1. x \in T \ A /\ (T \ {x}) \cap A = T \cap A /\ (T \ {x}) \ A = (T \ A) \ {x}
        BY <1>2, <2>6
      <3>5. Splits(f, T \ A, x)
        BY <2>3, <3>1, <1>f, SumStep
      <3>2. SumOver(f, T \ A) = f[x] + SumOver(f, (T \ A) \ {x})
        BY <3>5 DEF Splits
      <3>3. SumOver(f, T) = f[x] + (SumOver(f, T \cap A) + SumOver(f, (T \ A) \ {x}))
            /\ SumOver(f, (T \ A) \ {x}) \in Int /\ SumOver(f, T \cap A) \in Int
        BY <2>1, <2>2, <2>4, <3>1
      <3>4. SumOver(f, T) = SumOver(f, T \cap A) + SumOver(f, T \ A)
        BY <2>1, <3>2, <3>3
      <3> QED
        BY <3>4
    <2> QED
      BY <2>5, <2>6
  <1>3. S \in Good
    <2> HIDE DEF Good
    <2> QED
      BY <1>1, <1>2, MemberByMember
  <1>4. S \cap A = A
    OBVIOUS
  <1> QED
    BY <1>3, <1>4

\* A sum of natural numbers is one, and no part of it is larger.
LEMMA SumOfNaturals ==
    ASSUME NEW S, IsFiniteSet(S), NEW f, \A a \in S : f[a] \in Nat
    PROVE  SumOver(f, S) \in Nat /\ \A T \in SUBSET S : SumOver(f, T) \in Nat /\ SumOver(f, T) <= SumOver(f, S)
  <1>0. \A a \in S : f[a] \in Int
    OBVIOUS
  <1>1. ASSUME NEW T \in SUBSET S PROVE SumOver(f, T) \in Nat
    <2>0. Summable(f, S)
      BY <1>0 DEF Summable
    <2> DEFINE Good == {U \in SUBSET T : SumOver(f, U) \in Nat}
    <2>1. {} \in Good
      <3>1. SumOver(f, {}) = 0
        BY SumOfNothing
      <3> QED
        BY <3>1
    <2>2. ASSUME NEW U \in SUBSET T, NEW x \in T, x \in U, U \ {x} \in Good
          PROVE  U \in Good
      <3>0. Splits(f, U, x)
        BY <2>0, <2>2, SumStep
      <3>1. SumOver(f, U) = f[x] + SumOver(f, U \ {x})
        BY <3>0 DEF Splits
      <3>2. SumOver(f, U \ {x}) \in Nat /\ f[x] \in Nat
        BY <2>2
      <3>3. SumOver(f, U) \in Nat
        BY <3>1, <3>2
      <3> QED
        BY <3>3
    <2>3. IsFiniteSet(T)
      BY FS_Subset
    <2>4. T \in Good
      <3> HIDE DEF Good
      <3> QED
        BY <2>1, <2>2, <2>3, MemberByMember
    <2> QED
      BY <2>4
  <1>2. ASSUME NEW T \in SUBSET S PROVE SumOver(f, T) <= SumOver(f, S)
    <2>1. SumOver(f, S) = SumOver(f, T) + SumOver(f, S \ T)
      BY <1>0, SumOfUnion
    <2>2. SumOver(f, T) \in Nat /\ SumOver(f, S \ T) \in Nat
      BY <1>1
    <2> QED
      BY <2>1, <2>2
  <1> QED
    BY <1>1, <1>2

\* A term is the sum over its singleton, so no term exceeds the sum.
LEMMA SumOfOne ==
    ASSUME NEW f, NEW x, f[x] \in Int
    PROVE  SumOver(f, {x}) = f[x]
  <1>1. Summable(f, {x})
    BY FS_Singleton DEF Summable
  <1>4. Splits(f, {x}, x)
    BY <1>1, SumStep
  <1>2. SumOver(f, {x}) = f[x] + SumOver(f, {x} \ {x}) /\ {x} \ {x} = {}
    BY <1>4 DEF Splits
  <1>3. SumOver(f, {}) = 0
    BY SumOfNothing
  <1> QED
    BY <1>2, <1>3

\* No term of a sum of naturals exceeds it.
LEMMA TermOfSum ==
    ASSUME NEW S, IsFiniteSet(S), NEW f, \A a \in S : f[a] \in Nat, NEW x \in S
    PROVE  f[x] <= SumOver(f, S)
  <1>1. f[x] \in Int
    OBVIOUS
  <1>2. SumOver(f, {x}) = f[x]
    BY <1>1, SumOfOne
  <1>3. SumOver(f, {x}) <= SumOver(f, S)
    BY SumOfNaturals
  <1> QED
    BY <1>2, <1>3


\* A set of subsets that holds with all smaller subsets also each subset holds
\* them all.
LEMMA StrongSubsetInduction ==
    ASSUME NEW U, IsFiniteSet(U), NEW Good,
           \A s \in SUBSET U : (\A t \in SUBSET s : t # s => t \in Good) => s \in Good
    PROVE  \A s \in SUBSET U : s \in Good
  <1> DEFINE Below == {s \in SUBSET U : \A t \in SUBSET s : t \in Good}
  <1>1. {} \in Below
    <2>1. \A t \in SUBSET {} : t = {}
      OBVIOUS
    <2>2. {} \in Good
      BY <2>1
    <2> QED
      BY <2>1, <2>2
  <1>2. ASSUME NEW s \in SUBSET U, s # {}, \A x \in s : s \ {x} \in Below
        PROVE  s \in Below
    <2>1. ASSUME NEW t \in SUBSET s, t # s PROVE t \in Good
      <3>1. PICK x \in s : x \notin t
        BY <2>1
      <3>2. t \in SUBSET (s \ {x}) /\ s \ {x} \in Below
        BY <1>2, <3>1
      <3> QED
        BY <3>2
    <2>2. s \in Good
      BY <2>1
    <2> QED
      BY <2>1, <2>2
  <1>3. \A s \in SUBSET U : s \in Below
    <2> HIDE DEF Below
    <2> QED
      BY <1>1, <1>2, SubsetInduction
  <1> QED
    BY <1>3

\* A recursion that takes members out of a set until nothing changes has a
\* solution.
Shrinks(U, rest) == rest \in [SUBSET U -> SUBSET U] /\ \A s \in SUBSET U : rest[s] \subseteq s
Settled(rest, g, s) == IF rest[s] = s THEN s ELSE g[rest[s]]
Settles(U, rest, g) == g = [s \in SUBSET U |-> Settled(rest, g, s)]

\* A recursion that only shrinks its argument settles.
LEMMA ShrinkingRecursion ==
    ASSUME NEW U, IsFiniteSet(U), NEW rest, Shrinks(U, rest)
    PROVE  \E g : Settles(U, rest, g)
  <1> DEFINE Upto(n) == {s \in SUBSET U : Cardinality(s) <= n}
             Solves(n, g) == \A s \in Upto(n) : g[s] = Settled(rest, g, s)
             Good == {n \in Nat : \E g : Solves(n, g)}
  <1>1. \A s \in SUBSET U : IsFiniteSet(s) /\ Cardinality(s) \in Nat
    BY FS_Subset, FS_CardinalityType
  <1>2. ASSUME NEW n \in Nat, NEW s \in Upto(n + 1), rest[s] # s
        PROVE  rest[s] \in Upto(n)
    <2>1. rest[s] \in SUBSET s /\ rest[s] \in SUBSET U
      BY DEF Shrinks
    <2>2. Cardinality(rest[s]) < Cardinality(s)
      BY <1>1, <1>2, <2>1, FS_Subset
    <2>3. Cardinality(s) \in Nat /\ Cardinality(s) <= n + 1 /\ Cardinality(rest[s]) \in Nat
      BY <1>1, <2>1
    <2> QED
      BY <2>1, <2>2, <2>3
  <1>3. 0 \in Good
    <2> DEFINE g == [s \in SUBSET U |-> {}]
    <2>1. ASSUME NEW s \in Upto(0) PROVE g[s] = Settled(rest, g, s)
      <3>1. Cardinality(s) \in Nat /\ Cardinality(s) <= 0 /\ IsFiniteSet(s)
        BY <1>1
      <3>2. Cardinality(s) = 0
        BY <3>1
      <3>3. s = {}
        BY <3>1, <3>2, FS_EmptySet
      <3>4. rest[s] = s
        BY <3>3 DEF Shrinks
      <3> QED
        BY <3>3, <3>4 DEF Settled
    <2>2. Solves(0, g)
      BY <2>1
    <2> QED
      BY <2>2
  <1>4. ASSUME NEW n \in Good PROVE n + 1 \in Good
    <2>1. PICK g : Solves(n, g)
      OBVIOUS
    <2> DEFINE h == [s \in SUBSET U |-> Settled(rest, g, s)]
    <2>2. n \in Nat
      OBVIOUS
    <2>3. ASSUME NEW s \in Upto(n + 1) PROVE h[s] = Settled(rest, h, s)
      <3>1. h[s] = Settled(rest, g, s)
        OBVIOUS
      <3>2. CASE rest[s] = s
        BY <3>1, <3>2 DEF Settled
      <3>3. CASE rest[s] # s
        <4>1. rest[s] \in Upto(n)
          BY <1>2, <2>2, <3>3
        <4>2. g[rest[s]] = Settled(rest, g, rest[s])
          BY <2>1, <4>1
        <4>3. h[rest[s]] = Settled(rest, g, rest[s])
          BY <4>1
        <4> HIDE DEF h
        <4> QED
          BY <3>1, <3>3, <4>2, <4>3 DEF Settled
      <3> QED
        BY <3>2, <3>3
    <2>4. Solves(n + 1, h)
      BY <2>3
    <2>5. \E k : Solves(n + 1, k)
      BY <2>4
    <2>6. n + 1 \in Nat
      BY <2>2
    <2> HIDE DEF Solves, h
    <2> QED
      BY <2>5, <2>6
  <1>5. Good = Nat
    <2>1. Good \in SUBSET Nat
      OBVIOUS
    <2> HIDE DEF Good
    <2> QED
      BY <1>3, <1>4, <2>1, NumberInduction
  <1>6. PICK g : Solves(Cardinality(U), g)
    BY <1>1, <1>5
  <1>7. Upto(Cardinality(U)) = SUBSET U
    BY FS_Subset
  <1> DEFINE h == [s \in SUBSET U |-> g[s]]
  <1>8. ASSUME NEW s \in SUBSET U PROVE h[s] = Settled(rest, h, s)
    <2>1. rest[s] \in SUBSET U
      BY DEF Shrinks
    <2>2. g[s] = Settled(rest, g, s)
      BY <1>6, <1>7
    <2> QED
      BY <2>1, <2>2 DEF Settled
  <1>9. Settles(U, rest, h)
    <2>1. h = [s \in SUBSET U |-> h[s]]
      OBVIOUS
    <2>2. [s \in SUBSET U |-> h[s]] = [s \in SUBSET U |-> Settled(rest, h, s)]
      BY <1>8
    <2> HIDE DEF h
    <2> QED
      BY <2>1, <2>2 DEF Settles
  <1> QED
    BY <1>9


\* A sum of ones counts.
LEMMA SumOfOnes ==
    ASSUME NEW S, IsFiniteSet(S), NEW f, \A a \in S : f[a] = 1
    PROVE  SumOver(f, S) = Cardinality(S)
  <1> DEFINE Good == {T \in SUBSET S : SumOver(f, T) = Cardinality(T)}
  <1>f. Summable(f, S)
    BY DEF Summable
  <1>1. {} \in Good
    BY SumOfNothing, FS_EmptySet
  <1>2. ASSUME NEW T \in SUBSET S, NEW x \in S, x \in T, T \ {x} \in Good
        PROVE  T \in Good
    <2>1. Splits(f, T, x)
      BY <1>f, <1>2, SumStep
    <2>2. IsFiniteSet(T)
      BY FS_Subset
    <2>3. Cardinality(T \ {x}) = Cardinality(T) - 1 /\ Cardinality(T) \in Nat
      BY <1>2, <2>2, FS_RemoveElement, FS_CardinalityType
    <2>4. SumOver(f, T) = Cardinality(T)
      BY <1>2, <2>1, <2>3 DEF Splits
    <2> QED
      BY <2>4
  <1>3. S \in Good
    <2> HIDE DEF Good
    <2> QED
      BY <1>1, <1>2, MemberByMember
  <1> QED
    BY <1>3

\* Shares rounded down are together no more than the whole, and less than it
\* by less than one each.
LEMMA SumOfShares ==
    ASSUME NEW S, IsFiniteSet(S), NEW c \in Nat, NEW d \in Nat \ {0}, NEW f, NEW q,
           \A a \in S : f[a] \in Nat /\ q[a] = (c * f[a]) \div d
    PROVE  /\ SumOver(q, S) \in Nat
           /\ d * SumOver(q, S) <= c * SumOver(f, S)
           /\ c * SumOver(f, S) <= d * (SumOver(q, S) + Cardinality(S))
  <1> DEFINE cf == [a \in S |-> c * f[a]]
             dq == [a \in S |-> d * q[a]]
             ones == [a \in S |-> 1]
             up == [a \in S |-> q[a] + ones[a]]
             dup == [a \in S |-> d * up[a]]
  <1>1. ASSUME NEW a \in S
        PROVE  /\ q[a] \in Nat /\ d * q[a] <= c * f[a] /\ c * f[a] <= d * (q[a] + 1)
               /\ c * f[a] \in Nat /\ d * q[a] \in Nat /\ d * (q[a] + 1) \in Nat
    <2> DEFINE x == c * f[a]
    <2>1. x \in Nat
      OBVIOUS
    <2> HIDE DEF x
    <2>2. /\ x \div d \in Nat /\ d * (x \div d) <= x /\ x <= d * ((x \div d) + 1)
          /\ d * (x \div d) \in Nat /\ d * ((x \div d) + 1) \in Nat
      BY <2>1
    <2>3. q[a] = x \div d
      BY DEF x
    <2> QED
      BY <2>1, <2>2, <2>3 DEF x
  <1>2. /\ \A a \in S : f[a] \in Int /\ cf[a] = c * f[a] /\ cf[a] \in Int
        /\ \A a \in S : q[a] \in Int /\ dq[a] = d * q[a] /\ dq[a] \in Int
        /\ \A a \in S : q[a] \in Int /\ ones[a] \in Int /\ up[a] = q[a] + ones[a] /\ ones[a] = 1
        /\ \A a \in S : up[a] \in Int /\ dup[a] = d * up[a] /\ dup[a] \in Int
        /\ \A a \in S : dq[a] <= cf[a]
        /\ \A a \in S : cf[a] <= dup[a]
    BY <1>1
  <1>c. c \in Int /\ d \in Int
    OBVIOUS
  <1>q. \A a \in S : q[a] \in Nat
    BY <1>1
  <1> HIDE DEF cf, dq, ones, up, dup
  <1>3. SumOver(cf, S) = c * SumOver(f, S)
    BY <1>2, <1>c, SumOfMultiples
  <1>4. SumOver(dq, S) = d * SumOver(q, S)
    BY <1>2, <1>c, SumOfMultiples
  <1>5. SumOver(dup, S) = d * SumOver(up, S)
    BY <1>2, <1>c, SumOfMultiples
  <1>6. SumOver(up, S) = SumOver(q, S) + SumOver(ones, S)
    BY <1>2, SumOfSums
  <1>7. SumOver(ones, S) = Cardinality(S)
    BY <1>2, SumOfOnes
  <1>8. SumOver(dq, S) <= SumOver(cf, S)
    BY <1>2, SumMonotone
  <1>9. SumOver(cf, S) <= SumOver(dup, S)
    BY <1>2, SumMonotone
  <1>10. SumOver(q, S) \in Nat
    BY <1>q, SumOfNaturals
  <1> QED
    BY <1>3, <1>4, <1>5, <1>6, <1>7, <1>8, <1>9, <1>10

\* Two terms.
LEMMA SumOfTwo ==
    ASSUME NEW f, NEW x, NEW y, x # y, f[x] \in Int, f[y] \in Int
    PROVE  SumOver(f, {x, y}) = f[x] + f[y]
  <1>1. IsFiniteSet({x, y})
    <2>1. IsFiniteSet({x})
      BY FS_Singleton
    <2>2. IsFiniteSet({x} \cup {y})
      BY <2>1, FS_AddElement
    <2>3. {x, y} = {x} \cup {y}
      OBVIOUS
    <2> QED
      BY <2>2, <2>3
  <1>2. Summable(f, {x, y})
    BY <1>1 DEF Summable
  <1>3. Splits(f, {x, y}, x)
    BY <1>2, SumStep
  <1>4. {x, y} \ {x} = {y}
    OBVIOUS
  <1>5. SumOver(f, {y}) = f[y]
    BY SumOfOne
  <1> QED
    BY <1>3, <1>4, <1>5 DEF Splits


\* Sums of smaller terms are smaller.
LEMMA SumStrict ==
    ASSUME NEW S, IsFiniteSet(S), S # {}, NEW f, NEW g,
           \A a \in S : f[a] \in Int /\ g[a] \in Int /\ f[a] < g[a]
    PROVE  SumOver(f, S) < SumOver(g, S)
  <1> DEFINE ones == [a \in S |-> 1]
             up == [a \in S |-> f[a] + ones[a]]
  <1>1. /\ \A a \in S : f[a] \in Int /\ ones[a] \in Int /\ up[a] = f[a] + ones[a] /\ ones[a] = 1
        /\ \A a \in S : up[a] \in Int /\ g[a] \in Int /\ up[a] <= g[a]
    OBVIOUS
  <1> HIDE DEF ones, up
  <1>2. SumOver(up, S) = SumOver(f, S) + SumOver(ones, S)
    BY <1>1, SumOfSums
  <1>3. SumOver(ones, S) = Cardinality(S)
    BY <1>1, SumOfOnes
  <1>4. SumOver(up, S) <= SumOver(g, S)
    BY <1>1, SumMonotone
  <1>5. SumOver(f, S) \in Int /\ SumOver(g, S) \in Int
    BY SumType
  <1>6. Cardinality(S) \in Nat /\ Cardinality(S) # 0
    BY FS_CardinalityType, FS_EmptySet
  <1> QED
    BY <1>2, <1>3, <1>4, <1>5, <1>6


\* A sum of zeros.
LEMMA SumOfZeros ==
    ASSUME NEW S, IsFiniteSet(S), NEW f, \A a \in S : f[a] = 0
    PROVE  SumOver(f, S) = 0
  <1>1. \A a \in S : f[a] \in Int /\ f[a] = 0 * f[a]
    OBVIOUS
  <1>2. SumOver(f, S) = 0 * SumOver(f, S) /\ SumOver(f, S) \in Int
    BY <1>1, SumOfMultiples, SumType
  <1> QED
    BY <1>2

=============================================================================
