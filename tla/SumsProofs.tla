----------------------------- MODULE SumsProofs -----------------------------
(***************************************************************************)
(* Lemmas about sums.  Those about SumsTo need no induction: the sequence  *)
(* of partial sums is the witness, and changing one entry shifts its tail. *)
(* Those about SumOver do.  The library's induction theorems take an       *)
(* operator as a parameter, which no prover here can instantiate, but that *)
(* a well-founded relation has minimal elements is a first-order fact:     *)
(* Induct and InductOverSets follow from it, with sets in the place of     *)
(* predicates.                                                             *)
(***************************************************************************)
EXTENDS Sums, Lists, FiniteSetTheorems, SequenceTheorems, WellFoundedInduction, TLAPS

\* Where every entry is zero the total is zero.
LEMMA ZerosSumToZero ==
  ASSUME NEW n \in Nat, NEW f, \A i \in 1..n : f[i] = 0
  PROVE  SumsTo(f, n, 0)
<1> DEFINE s == [i \in 0..n |-> 0]
<1>1. s \in [0..n -> 0..0]
  OBVIOUS
<1>2. IsPartialSum(s, f, n)
  BY DEF IsPartialSum
<1>3. s[n] = 0
  OBVIOUS
<1>4. QED
  BY <1>1, <1>2, <1>3 DEF SumsTo

\* One entry is never more than the total.
LEMMA EntryIsPartOfSum ==
  ASSUME NEW n \in Nat, NEW f \in [1..n -> Int], NEW total \in Nat,
         NEW u \in 1..n, SumsTo(f, n, total)
  PROVE  f[u] <= total
<1>1. PICK s \in [0..n -> 0..total] : IsPartialSum(s, f, n) /\ s[n] = total
  BY DEF SumsTo
<1>2. u - 1 \in 0..n /\ u \in 0..n /\ n \in 0..n /\ 0 \in 0..n
  OBVIOUS
<1>3. s[u] = s[u - 1] + f[u] /\ s[u] <= s[n] /\ s[0] <= s[u - 1] /\ s[0] = 0
  BY <1>1, <1>2 DEF IsPartialSum
<1>4. s[u - 1] \in Int /\ s[u] \in Int
  BY <1>1, <1>2
<1>5. QED
  BY <1>1, <1>3, <1>4

\* When one entry changes by d the total changes by d.
LEMMA ChangeOfOneEntry ==
  ASSUME NEW n \in Nat, NEW f \in [1..n -> Nat], NEW g \in [1..n -> Nat],
         NEW total \in Nat, NEW u \in 1..n, NEW d \in Int,
         SumsTo(f, n, total),
         g[u] = f[u] + d,
         \A i \in 1..n : i # u => g[i] = f[i]
  PROVE  total + d \in Nat /\ SumsTo(g, n, total + d)
<1>1. PICK s \in [0..n -> 0..total] : IsPartialSum(s, f, n) /\ s[n] = total
  BY DEF SumsTo
<1>2. f[u] <= total
  <2>1. f \in [1..n -> Int]
    OBVIOUS
  <2>2. QED
    BY <2>1, EntryIsPartOfSum
<1>3. total + d \in Nat
  BY <1>2
<1>4. \A i \in 0..n : s[i] \in Nat /\ s[i] <= total
  BY <1>1
<1>5. s[0] = 0 /\ \A i \in 1..n : s[i] = s[i - 1] + f[i]
  BY <1>1 DEF IsPartialSum
<1>6. \A i, j \in 0..n : i <= j => s[i] <= s[j]
  BY <1>1 DEF IsPartialSum
<1>7. \A i, j \in 0..n : i < u /\ u <= j => s[i] <= s[j] + d
  <2> SUFFICES ASSUME NEW i \in 0..n, NEW j \in 0..n, i < u, u <= j
               PROVE  s[i] <= s[j] + d
    OBVIOUS
  <2>1. u \in 0..n /\ u - 1 \in 0..n /\ i <= u - 1
    OBVIOUS
  <2>2. s[i] <= s[u - 1] /\ s[u] <= s[j]
    BY <2>1, <1>6
  <2>3. PICK k \in 0..n : k = u - 1
    BY <2>1
  <2>4. s[i] \in Nat /\ s[j] \in Nat /\ s[k] \in Nat /\ s[u] \in Nat
    BY <2>1, <1>4
  <2>5. s[u] = s[k] + f[u] /\ s[i] <= s[k]
    BY <2>2, <2>3, <1>5
  <2>6. f[u] \in Nat /\ f[u] + d >= 0
    BY g[u] \in Nat
  <2>7. s[k] <= s[u] + d
    <3>1. \A a, b \in Nat : b + d >= 0 => a <= (a + b) + d
      OBVIOUS
    <3>2. QED
      BY <2>4, <2>5, <2>6, <3>1
  <2>8. QED
    BY <2>2, <2>4, <2>5, <2>7
<1> DEFINE shifted(i) == IF u <= i THEN s[i] + d ELSE s[i]
<1>8. \A i \in 0..n : shifted(i) \in 0..(total + d)
  <2> SUFFICES ASSUME NEW i \in 0..n PROVE shifted(i) \in 0..(total + d)
    OBVIOUS
  <2>1. 0 \in 0..n /\ n \in 0..n /\ 0 < u /\ u <= n
    OBVIOUS
  <2>2. CASE u <= i
    <3>1. 0 <= s[i] + d
      BY <2>1, <2>2, <1>5, <1>7
    <3>2. s[i] \in Nat /\ s[i] <= total
      BY <1>4
    <3>3. s[i] + d \in 0..(total + d)
      BY <3>1, <3>2, <1>3
    <3>4. QED
      BY <3>3, <2>2
  <2>3. CASE i < u
    <3>1. s[i] <= s[n] + d
      BY <2>1, <2>3, <1>7
    <3>2. QED
      BY <3>1, <2>3, <1>1, <1>3, <1>4
  <2>4. QED
    BY <2>2, <2>3
<1>9. PICK r \in [0..n -> 0..(total + d)] : \A i \in 0..n : r[i] = shifted(i)
  <2>1. [i \in 0..n |-> shifted(i)] \in [0..n -> 0..(total + d)]
    BY <1>8
  <2>2. \A i \in 0..n : [j \in 0..n |-> shifted(j)][i] = shifted(i)
    OBVIOUS
  <2> HIDE DEF shifted
  <2>3. QED
    BY <2>1, <2>2
<1>10. \A i \in 1..n : r[i] = r[i - 1] + g[i]
  <2> SUFFICES ASSUME NEW i \in 1..n PROVE r[i] = r[i - 1] + g[i]
    OBVIOUS
  <2>1. PICK k \in 0..n : k = i - 1
    OBVIOUS
  <2>2. s[i] = s[k] + f[i] /\ i \in 0..n
    BY <2>1, <1>5
  <2>3. s[i] \in Nat /\ s[k] \in Nat /\ f[i] \in Nat
    BY <2>2, <1>4
  <2>4. CASE i = u
    <3>1. r[i] = s[i] + d /\ r[k] = s[k]
      BY <2>1, <2>2, <2>4, <1>9
    <3>2. QED
      BY <3>1, <2>1, <2>2, <2>3, <2>4
  <2>5. CASE u < i
    <3>1. r[i] = s[i] + d /\ r[k] = s[k] + d /\ g[i] = f[i]
      BY <2>1, <2>2, <2>5, <1>9
    <3>2. QED
      BY <3>1, <2>1, <2>2, <2>3
  <2>6. CASE i < u
    <3>1. r[i] = s[i] /\ r[k] = s[k] /\ g[i] = f[i]
      BY <2>1, <2>2, <2>6, <1>9
    <3>2. QED
      BY <3>1, <2>1, <2>2
  <2>7. QED
    BY <2>4, <2>5, <2>6
<1>11. \A i, j \in 0..n : i <= j => r[i] <= r[j]
  <2> SUFFICES ASSUME NEW i \in 0..n, NEW j \in 0..n, i <= j
               PROVE  r[i] <= r[j]
    OBVIOUS
  <2>1. s[i] <= s[j] /\ s[i] \in Nat /\ s[j] \in Nat
    BY <1>4, <1>6
  <2>2. r[i] = shifted(i) /\ r[j] = shifted(j)
    BY <1>9
  <2>3. CASE i < u /\ u <= j
    <3>1. r[i] = s[i] /\ r[j] = s[j] + d
      BY <2>2, <2>3
    <3> HIDE DEF shifted
    <3>2. s[i] <= s[j] + d
      BY <2>3, <1>7
    <3>3. QED
      BY <3>1, <3>2
  <2>4. CASE j < u
    <3>1. r[i] = s[i] /\ r[j] = s[j]
      BY <2>2, <2>4
    <3>2. QED
      BY <2>1, <3>1
  <2>5. CASE u <= i
    <3>1. r[i] = s[i] + d /\ r[j] = s[j] + d
      BY <2>2, <2>5
    <3>2. s[i] + d <= s[j] + d
      BY <2>1
    <3>3. QED
      BY <3>1, <3>2
  <2>6. QED
    BY <2>3, <2>4, <2>5
<1>12. r[0] = 0 /\ r[n] = total + d
  <2>1. 0 \in 0..n /\ n \in 0..n /\ 0 < u /\ u <= n
    OBVIOUS
  <2>2. QED
    BY <2>1, <1>1, <1>5, <1>9
<1>13. IsPartialSum(r, g, n)
  BY <1>10, <1>11, <1>12 DEF IsPartialSum
<1>14. QED
  BY <1>3, <1>9, <1>12, <1>13 DEF SumsTo

-----------------------------------------------------------------------------
(* Induction.                                                              *)

\* Every inhabited set of naturals has a least one.
LEMMA LeastNatural ==
  ASSUME NEW T \in SUBSET Nat, T # {}
  PROVE  \E n \in T : \A m \in T : n <= m
<1> DEFINE R == {p \in Nat \X Nat : p[1] < p[2]}
<1>1. IsWellFoundedOn(R, Nat)
  BY NatLessThanWellFounded DEF OpToRel
<1>2. PICK n \in T : \A m \in T : <<m, n>> \notin R
  BY <1>1, WFMin
<1>3. \A m \in T : ~(m < n)
  BY <1>2
<1>4. \A m \in T : m \in Nat /\ n \in Nat
  OBVIOUS
<1> HIDE DEF R
<1> QED
  BY <1>3, <1>4

\* A set of numbers up to n has a greatest one.
LEMMA GreatestBelow ==
  ASSUME NEW n \in Nat, NEW T \in SUBSET (1..n), T # {}
  PROVE  \E x \in T : \A y \in T : x >= y
<1> DEFINE P == {k \in Nat : \E i \in T : n - i = k}
<1>1. \A i \in T : i \in Nat /\ n - i \in Nat
  OBVIOUS
<1>2. P \in SUBSET Nat /\ P # {}
  <2>1. PICK i \in T : TRUE
    OBVIOUS
  <2>2. n - i \in P
    BY <1>1
  <2>3. QED
    BY <2>2
<1>3. PICK k \in P : \A l \in P : k <= l
  <2> HIDE DEF P
  <2>1. QED
    BY <1>2, LeastNatural
<1>4. PICK m \in T : n - m = k
  OBVIOUS
<1>5. ASSUME NEW i \in T PROVE m >= i
  <2>1. n - i \in P
    BY <1>1
  <2>2. k <= n - i
    BY <1>3, <2>1
  <2>3. QED
    BY <1>1, <1>4, <2>2
<1>6. QED
  BY <1>5

\* Induction, over the naturals a set S contains.
LEMMA Induct ==
  ASSUME NEW S, 0 \in S, \A n \in Nat : n \in S => n + 1 \in S
  PROVE  \A n \in Nat : n \in S
<1> SUFFICES ASSUME Nat \ S # {} PROVE FALSE
  OBVIOUS
<1>1. PICK n \in Nat \ S : \A m \in Nat \ S : n <= m
  BY LeastNatural
<1>2. n # 0 /\ n - 1 \in Nat /\ n - 1 \notin Nat \ S
  BY <1>1
<1> QED
  BY <1>2

\* A finite set without one of its members has one member less.
LEMMA TakeOne ==
  ASSUME NEW T, IsFiniteSet(T), NEW x \in T
  PROVE  /\ IsFiniteSet(T \ {x})
         /\ Cardinality(T) \in Nat /\ Cardinality(T) > 0
         /\ Cardinality(T \ {x}) = Cardinality(T) - 1
<1>1. Cardinality(T) \in Nat /\ Cardinality(T) # 0
  BY FS_CardinalityType, FS_EmptySet
<1>2. IsFiniteSet(T \ {x}) /\ Cardinality(T \ {x}) = Cardinality(T) - 1
  BY FS_RemoveElement
<1> QED
  BY <1>1, <1>2

\* Induction over the finite sets.
LEMMA InductOverSets ==
  ASSUME NEW S, IsFiniteSet(S), NEW A,
         {} \in A, \A T \in SUBSET S : \A x \in T : T \ {x} \in A => T \in A
  PROVE  \A T \in SUBSET S : T \in A
<1> DEFINE P == {n \in Nat : \A T \in SUBSET S : Cardinality(T) = n => T \in A}
<1>1. \A T \in SUBSET S : IsFiniteSet(T) /\ Cardinality(T) \in Nat
  BY FS_Subset, FS_CardinalityType
<1>2. 0 \in P
  BY <1>1, FS_EmptySet
<1>3. ASSUME NEW n \in Nat, n \in P PROVE n + 1 \in P
  <2> SUFFICES ASSUME NEW T \in SUBSET S, Cardinality(T) = n + 1 PROVE T \in A
    OBVIOUS
  <2>1. PICK x \in T : TRUE
    BY <1>1, FS_EmptySet
  <2>2. Cardinality(T \ {x}) = Cardinality(T) - 1 /\ T \ {x} \in SUBSET S
    BY <1>1, TakeOne
  <2>3. Cardinality(T \ {x}) = n
    BY <2>2
  <2> QED
    BY <1>3, <2>2, <2>3
<1>4. \A n \in Nat : n \in P
  <2> HIDE DEF P
  <2> QED
    BY <1>2, <1>3, Induct
<1> QED
  BY <1>1, <1>4

-----------------------------------------------------------------------------
(* Sums over finite sets.  Their definition recurs over a member it picks   *)
(* of the set; which one must be shown not to matter.                      *)

First(T) == CHOOSE x \in T : TRUE

SumStep(g, f, S) ==
  [T \in SUBSET S |->
     IF T = {} THEN 0 ELSE f[First(T)] + g[T \ {First(T)}]]

\* SumOver is one value of a function defined by recursion over subsets.
LEMMA SumIsRecursive ==
  ASSUME NEW f, NEW S
  PROVE  SumOver(f, S) = (CHOOSE g : g = SumStep(g, f, S))[S]
BY DEF SumOver, MapThenFoldSet, SumStep, First

\* The member picked is one.
LEMMA FirstIsMember ==
  ASSUME NEW T, T # {}
  PROVE  First(T) \in T
BY DEF First

\* A function satisfying that recursion exists: it is built up by the number
\* of members.
LEMMA SumsExist ==
  ASSUME NEW f, NEW S, IsFiniteSet(S)
  PROVE  \E g : g = SumStep(g, f, S)
<1> DEFINE Until(g, n) ==
             \A T \in SUBSET S :
               Cardinality(T) <= n => g[T] = SumStep(g, f, S)[T]
           P == {n \in Nat : \E g : Until(g, n)}
<1>0. \A T \in SUBSET S :
        /\ IsFiniteSet(T) /\ Cardinality(T) \in Nat
        /\ (T # {} => /\ First(T) \in T
                      /\ Cardinality(T \ {First(T)}) = Cardinality(T) - 1)
  BY FS_Subset, FS_CardinalityType, TakeOne, FirstIsMember
<1>1. 0 \in P
  <2> DEFINE g == [T \in SUBSET S |-> 0]
  <2>1. \A T \in SUBSET S : Cardinality(T) = 0 => T = {}
    BY <1>0, FS_EmptySet
  <2>0. \A T \in SUBSET S : Cardinality(T) \in Nat
    BY <1>0
  <2>4. \A T \in SUBSET S : Cardinality(T) <= 0 => Cardinality(T) = 0
    BY <2>0
  <2>3. \A T \in SUBSET S : Cardinality(T) <= 0 => T = {}
    BY <2>1, <2>4
  <2>2. Until(g, 0)
    BY <2>3 DEF SumStep
  <2> QED
    BY <2>2
<1>2. ASSUME NEW n \in Nat, NEW g, Until(g, n)
      PROVE  Until(SumStep(g, f, S), n + 1)
  <2> DEFINE h == SumStep(g, f, S)
  <2> SUFFICES ASSUME NEW T \in SUBSET S, Cardinality(T) <= n + 1
               PROVE  h[T] = SumStep(h, f, S)[T]
    OBVIOUS
  <2>1. CASE T = {}
    BY <2>1 DEF SumStep
  <2>2. CASE T # {}
    <3> DEFINE U == T \ {First(T)}
    <3>1. U \in SUBSET S /\ Cardinality(U) <= n
      BY <1>0, <2>2
    <3>2. g[U] = h[U]
      BY <1>2, <3>1
    <3>3. h[T] = f[First(T)] + g[U] /\ SumStep(h, f, S)[T] = f[First(T)] + h[U]
      BY <2>2 DEF SumStep
    <3> QED
      BY <3>2, <3>3
  <2> QED
    BY <2>1, <2>2
<1>3. \A n \in Nat : n \in P
  <2>1. ASSUME NEW n \in Nat, n \in P PROVE n + 1 \in P
    BY <1>2, <2>1
  <2> HIDE DEF P
  <2> QED
    BY <1>1, <2>1, Induct
<1>4. PICK g : Until(g, Cardinality(S))
  BY <1>0, <1>3
<1>5. \A T \in SUBSET S : g[T] = SumStep(g, f, S)[T]
  BY <1>0, <1>4, FS_Subset
<1> DEFINE h == SumStep(g, f, S)
<1>6. ASSUME NEW T \in SUBSET S PROVE h[T] = SumStep(h, f, S)[T]
  <2>1. CASE T = {}
    BY <2>1 DEF SumStep
  <2>2. CASE T # {}
    <3> DEFINE U == T \ {First(T)}
    <3>1. U \in SUBSET S /\ g[U] = h[U]
      BY <1>5
    <3>3. h[T] = f[First(T)] + g[U] /\ SumStep(h, f, S)[T] = f[First(T)] + h[U]
      BY <2>2 DEF SumStep
    <3> QED
      BY <3>1, <3>3
  <2> QED
    BY <2>1, <2>2
<1>7. /\ h = [T \in SUBSET S |-> h[T]]
      /\ SumStep(h, f, S) = [T \in SUBSET S |-> SumStep(h, f, S)[T]]
  BY DEF SumStep
<1>8. h = SumStep(h, f, S)
  BY <1>6, <1>7
<1> QED
  BY <1>8

\* The sums of a smaller set are among those of a larger one.
LEMMA SumsAgree ==
  ASSUME NEW f, NEW S, IsFiniteSet(S), NEW T \in SUBSET S,
         NEW g, g = SumStep(g, f, S), NEW h, h = SumStep(h, f, T)
  PROVE  g[T] = h[T]
<1>0. \A U \in SUBSET T : IsFiniteSet(U)
  BY FS_Subset
<1>1. \A U \in SUBSET T : /\ U = {} => g[U] = 0 /\ h[U] = 0
                          /\ U # {} => /\ g[U] = f[First(U)] + g[U \ {First(U)}]
                                       /\ h[U] = f[First(U)] + h[U \ {First(U)}]
  <2> TAKE U \in SUBSET T
  <2>1. /\ U \in SUBSET S
        /\ g[U] = SumStep(g, f, S)[U] /\ h[U] = SumStep(h, f, T)[U]
    OBVIOUS
  <2> QED
    BY <2>1 DEF SumStep
<1> DEFINE P == {n \in Nat :
                   \A U \in SUBSET T : Cardinality(U) = n => g[U] = h[U]}
<1>2. 0 \in P
  BY <1>0, <1>1, FS_EmptySet
<1>3. ASSUME NEW n \in Nat, n \in P PROVE n + 1 \in P
  <2> SUFFICES ASSUME NEW U \in SUBSET T, Cardinality(U) = n + 1
               PROVE  g[U] = h[U]
    OBVIOUS
  <2>1. U # {} /\ First(U) \in U
    BY <1>0, FS_EmptySet, FirstIsMember
  <2>2. /\ Cardinality(U \ {First(U)}) = Cardinality(U) - 1
        /\ U \ {First(U)} \in SUBSET T
    BY <1>0, <2>1, TakeOne
  <2>3. Cardinality(U \ {First(U)}) = n
    BY <2>2
  <2> QED
    BY <1>1, <1>3, <2>1, <2>2, <2>3
<1>4. \A n \in Nat : n \in P
  <2> HIDE DEF P
  <2> QED
    BY <1>2, <1>3, Induct
<1> QED
  BY <1>0, <1>4, FS_CardinalityType

\* SumOver adds up: nothing over the empty set, else the picked member's entry
\* and the sum over the others.
LEMMA SumOverRecurs ==
  ASSUME NEW f, NEW S, IsFiniteSet(S)
  PROVE  /\ SumOver(f, {}) = 0
         /\ S # {} => SumOver(f, S) = f[First(S)] + SumOver(f, S \ {First(S)})
<1> DEFINE G(T) == CHOOSE g : g = SumStep(g, f, T)
<1>1. \A T : IsFiniteSet(T) =>
               G(T) = SumStep(G(T), f, T) /\ SumOver(f, T) = G(T)[T]
  BY SumsExist, SumIsRecursive
<1>2. G({})[{}] = 0
  BY <1>1, FS_EmptySet DEF SumStep
<1>3. ASSUME S # {}
      PROVE  SumOver(f, S) = f[First(S)] + SumOver(f, S \ {First(S)})
  <2> DEFINE T == S \ {First(S)}
  <2>1. IsFiniteSet(T) /\ T \in SUBSET S
    BY FS_Subset
  <2>2. SumStep(G(S), f, S)[S] = f[First(S)] + G(S)[T]
    BY <1>3 DEF SumStep
  <2>3. G(S) = SumStep(G(S), f, S) /\ G(T) = SumStep(G(T), f, T)
    BY <1>1, <2>1
  <2> HIDE DEF G, T
  <2>4. G(S)[T] = G(T)[T]
    BY <2>1, <2>3, SumsAgree
  <2> QED
    BY <1>1, <2>1, <2>2, <2>3, <2>4 DEF T
<1> QED
  BY <1>1, <1>2, <1>3, FS_EmptySet

\* A sum of integers is one, of naturals a natural.
LEMMA SumType ==
  ASSUME NEW S, IsFiniteSet(S), NEW f, \A x \in S : f[x] \in Int
  PROVE  /\ SumOver(f, S) \in Int
         /\ (\A x \in S : f[x] >= 0) => SumOver(f, S) \in Nat
<1> DEFINE Typed(T) == /\ SumOver(f, T) \in Int
                       /\ (\A x \in T : f[x] >= 0) => SumOver(f, T) \in Nat
           A == {T \in SUBSET S : Typed(T)}
           P == {n \in Nat : \A T \in SUBSET S : Cardinality(T) = n => Typed(T)}
<1>0. \A T \in SUBSET S : IsFiniteSet(T) /\ Cardinality(T) \in Nat
  BY FS_Subset, FS_CardinalityType
<1>1. 0 \in P
  BY <1>0, SumOverRecurs, FS_EmptySet
<1>2. ASSUME NEW n \in Nat, n \in P PROVE n + 1 \in P
  <2> SUFFICES ASSUME NEW T \in SUBSET S, Cardinality(T) = n + 1 PROVE Typed(T)
    OBVIOUS
  <2>1. T # {} /\ First(T) \in T
    BY <1>0, FS_EmptySet, FirstIsMember
  <2> DEFINE U == T \ {First(T)}
  <2>2. Cardinality(U) = Cardinality(T) - 1 /\ U \in SUBSET S
    BY <1>0, <2>1, TakeOne
  <2>3. Typed(U)
    BY <1>2, <2>2
  <2>4. SumOver(f, T) = f[First(T)] + SumOver(f, U) /\ f[First(T)] \in Int
    BY <1>0, <2>1, SumOverRecurs
  <2>5. (\A x \in T : f[x] >= 0) => f[First(T)] >= 0 /\ \A x \in U : f[x] >= 0
    BY <2>1
  <2> HIDE DEF U
  <2> QED
    BY <2>3, <2>4, <2>5
<1>3. \A n \in Nat : n \in P
  <2> HIDE DEF P
  <2> QED
    BY <1>1, <1>2, Induct
<1> QED
  BY <1>0, <1>3

\* Any member's entry may be taken out first.
LEMMA SumWithout ==
  ASSUME NEW S, IsFiniteSet(S), NEW f, \A x \in S : f[x] \in Int
  PROVE  \A x \in S : SumOver(f, S) = f[x] + SumOver(f, S \ {x})
<1> DEFINE Splits(T) == \A x \in T : SumOver(f, T) = f[x] + SumOver(f, T \ {x})
           P == {n \in Nat :
                   \A T \in SUBSET S : Cardinality(T) = n => Splits(T)}
<1>0. \A T \in SUBSET S :
        IsFiniteSet(T) /\ Cardinality(T) \in Nat /\ SumOver(f, T) \in Int
  <2> TAKE T \in SUBSET S
  <2>1. IsFiniteSet(T) /\ \A x \in T : f[x] \in Int
    BY FS_Subset
  <2> QED
    BY <2>1, FS_CardinalityType, SumType
<1>1. 0 \in P
  BY <1>0, FS_EmptySet
<1>2. ASSUME NEW n \in Nat, n \in P PROVE n + 1 \in P
  <2> SUFFICES ASSUME NEW T \in SUBSET S, Cardinality(T) = n + 1, NEW x \in T
               PROVE  SumOver(f, T) = f[x] + SumOver(f, T \ {x})
    OBVIOUS
  <2> DEFINE y == First(T)
  <2>1. y \in T /\ SumOver(f, T) = f[y] + SumOver(f, T \ {y})
    BY <1>0, FirstIsMember, SumOverRecurs
  <2>2. CASE x = y
    BY <2>1, <2>2
  <2>3. CASE x # y
    <3>1. /\ T \ {y} \in SUBSET S /\ x \in T \ {y}
          /\ T \ {x} \in SUBSET S /\ y \in T \ {x}
          /\ (T \ {y}) \ {x} = (T \ {x}) \ {y} /\ (T \ {x}) \ {y} \in SUBSET S
      BY <2>1, <2>3
    <3>2. /\ Cardinality(T \ {y}) = Cardinality(T) - 1
          /\ Cardinality(T \ {x}) = Cardinality(T) - 1
      BY <1>0, <2>1, TakeOne
    <3> HIDE DEF y
    <3>3. Cardinality(T \ {y}) = n /\ Cardinality(T \ {x}) = n
      BY <3>2
    <3>4. /\ SumOver(f, T \ {y}) = f[x] + SumOver(f, (T \ {y}) \ {x})
          /\ SumOver(f, T \ {x}) = f[y] + SumOver(f, (T \ {x}) \ {y})
      BY <1>2, <3>1, <3>3
    <3>5. f[x] \in Int /\ f[y] \in Int /\ SumOver(f, (T \ {x}) \ {y}) \in Int
      BY <1>0, <2>1, <3>1
    <3>6. \A a, b, r \in Int : a + (b + r) = b + (a + r)
      OBVIOUS
    <3>7. PICK r \in Int : r = SumOver(f, (T \ {x}) \ {y})
      BY <3>5
    <3>8. /\ SumOver(f, T \ {y}) = f[x] + r
          /\ SumOver(f, T \ {x}) = f[y] + r
      BY <3>1, <3>4, <3>7
    <3>9. f[y] + SumOver(f, T \ {y}) = f[x] + SumOver(f, T \ {x})
      BY <3>5, <3>6, <3>8
    <3> QED
      BY <2>1, <3>9
  <2> QED
    BY <2>2, <2>3
<1>3. \A n \in Nat : n \in P
  <2> HIDE DEF P
  <2> QED
    BY <1>1, <1>2, Induct
<1> QED
  BY <1>0, <1>3

\* Entries that are no greater have a sum that is no greater.
LEMMA SumsCompare ==
  ASSUME NEW S, IsFiniteSet(S), NEW f, NEW g,
         \A x \in S : f[x] \in Int /\ g[x] \in Int /\ f[x] <= g[x]
  PROVE  SumOver(f, S) <= SumOver(g, S)
<1> DEFINE A == {T \in SUBSET S : SumOver(f, T) <= SumOver(g, T)}
<1>0. \A T \in SUBSET S : /\ IsFiniteSet(T)
                          /\ SumOver(f, T) \in Int /\ SumOver(g, T) \in Int
  <2> TAKE T \in SUBSET S
  <2>1. IsFiniteSet(T) /\ \A x \in T : f[x] \in Int /\ g[x] \in Int
    BY FS_Subset
  <2> QED
    BY <2>1, SumType
<1>1. {} \in A
  <2>1. SumOver(f, {}) = 0 /\ SumOver(g, {}) = 0
    BY SumOverRecurs
  <2> QED
    BY <2>1
<1>2. ASSUME NEW T \in SUBSET S, NEW x \in T, T \ {x} \in A PROVE T \in A
  <2>1. \A y \in T : f[y] \in Int /\ g[y] \in Int
    OBVIOUS
  <2>2. /\ SumOver(f, T) = f[x] + SumOver(f, T \ {x})
        /\ SumOver(g, T) = g[x] + SumOver(g, T \ {x})
    BY <1>0, <2>1, SumWithout
  <2>3. /\ f[x] <= g[x] /\ SumOver(f, T \ {x}) <= SumOver(g, T \ {x})
        /\ f[x] \in Int /\ g[x] \in Int
    BY <1>2
  <2>4. SumOver(f, T \ {x}) \in Int /\ SumOver(g, T \ {x}) \in Int
    BY <1>0
  <2> QED
    BY <2>2, <2>3, <2>4
<1> HIDE DEF A
<1>3. S \in A
  BY <1>1, <1>2, InductOverSets
<1> QED
  BY <1>3 DEF A

\* A sum depends on its entries alone.
LEMMA SameSum ==
  ASSUME NEW S, IsFiniteSet(S), NEW f, NEW g,
         \A x \in S : f[x] \in Int /\ g[x] = f[x]
  PROVE  SumOver(g, S) = SumOver(f, S)
<1>1. SumOver(f, S) \in Int /\ SumOver(g, S) \in Int
  BY SumType
<1>2. SumOver(f, S) <= SumOver(g, S) /\ SumOver(g, S) <= SumOver(f, S)
  BY SumsCompare
<1> QED
  BY <1>1, <1>2

\* Where every entry is zero so is the sum.
LEMMA SumOfZeros ==
  ASSUME NEW S, IsFiniteSet(S), NEW f, \A x \in S : f[x] = 0
  PROVE  SumOver(f, S) = 0
<1> DEFINE A == {T \in SUBSET S : SumOver(f, T) = 0}
<1>1. {} \in A
  BY SumOverRecurs
<1>2. ASSUME NEW T \in SUBSET S, NEW x \in T, T \ {x} \in A PROVE T \in A
  <2>1. IsFiniteSet(T) /\ \A y \in T : f[y] \in Int
    BY FS_Subset
  <2> QED
    BY <1>2, <2>1, SumWithout
<1> HIDE DEF A
<1>3. S \in A
  <2>1. \A T \in SUBSET S : \A x \in T : T \ {x} \in A => T \in A
    BY <1>2
  <2>2. \A T \in SUBSET S : T \in A
    BY <1>1, <2>1, InductOverSets
  <2> QED
    BY <2>2
<1> QED
  BY <1>3 DEF A

\* When one entry changes, the sum changes by as much.
LEMMA OneEntryOfSum ==
  ASSUME NEW S, IsFiniteSet(S), NEW f \in [S -> Nat], NEW u \in S, NEW n \in Int
  PROVE  /\ SumOver(f, S) \in Nat
         /\ f[u] \in Nat /\ f[u] <= SumOver(f, S)
         /\ SumOver([f EXCEPT ![u] = n], S) + f[u] = SumOver(f, S) + n
<1> DEFINE T == S \ {u}
           g == [f EXCEPT ![u] = n]
<1>1. g[u] = n /\ \A x \in T : g[x] = f[x]
  OBVIOUS
<1>2. \A x \in S : f[x] \in Int /\ g[x] \in Int /\ f[x] \in Nat
  OBVIOUS
<1> HIDE DEF g
<1>3. IsFiniteSet(T) /\ \A x \in T : f[x] \in Int /\ g[x] = f[x]
  BY <1>1, FS_Subset
<1>4. SumOver(f, S) = f[u] + SumOver(f, T)
  BY <1>2, SumWithout
<1>5. SumOver(g, S) = g[u] + SumOver(g, T)
  BY <1>2, SumWithout
<1>6. f[u] \in Nat /\ \A x \in T : f[x] \in Int /\ f[x] >= 0
  OBVIOUS
<1> HIDE DEF T
<1>7. SumOver(g, T) = SumOver(f, T)
  BY <1>3, SameSum
<1>8. SumOver(f, T) \in Nat
  BY <1>3, <1>6, SumType
<1>9. SumOver(g, S) + f[u] = SumOver(f, S) + n
  BY <1>1, <1>4, <1>5, <1>6, <1>7, <1>8
<1> QED
  BY <1>4, <1>6, <1>8, <1>9 DEF g

\* The sum of the sums of the entries.
LEMMA SumsAdd ==
  ASSUME NEW S, IsFiniteSet(S), NEW f, NEW g, NEW h,
         \A x \in S : f[x] \in Int /\ g[x] \in Int /\ h[x] = f[x] + g[x]
  PROVE  SumOver(h, S) = SumOver(f, S) + SumOver(g, S)
<1> DEFINE A == {T \in SUBSET S : SumOver(h, T) = SumOver(f, T) + SumOver(g, T)}
<1>1. {} \in A
  <2>1. SumOver(f, {}) = 0 /\ SumOver(g, {}) = 0 /\ SumOver(h, {}) = 0
    BY SumOverRecurs
  <2> QED
    BY <2>1
<1>2. ASSUME NEW T \in SUBSET S, NEW x \in T, T \ {x} \in A PROVE T \in A
  <2>1. /\ IsFiniteSet(T) /\ IsFiniteSet(T \ {x})
        /\ \A y \in T : f[y] \in Int /\ g[y] \in Int /\ h[y] \in Int
    BY FS_Subset
  <2>2. /\ SumOver(f, T) = f[x] + SumOver(f, T \ {x})
        /\ SumOver(g, T) = g[x] + SumOver(g, T \ {x})
        /\ SumOver(h, T) = h[x] + SumOver(h, T \ {x})
    BY <2>1, SumWithout
  <2>3. SumOver(f, T \ {x}) \in Int /\ SumOver(g, T \ {x}) \in Int
    BY <2>1, SumType
  <2>4. h[x] = f[x] + g[x] /\ f[x] \in Int /\ g[x] \in Int
    OBVIOUS
  <2>5. SumOver(h, T \ {x}) = SumOver(f, T \ {x}) + SumOver(g, T \ {x})
    BY <1>2
  <2>6. SumOver(h, T) = SumOver(f, T) + SumOver(g, T)
    BY <2>2, <2>3, <2>4, <2>5
  <2> QED
    BY <2>6
<1> HIDE DEF A
<1>3. S \in A
  <2>1. \A T \in SUBSET S : \A x \in T : T \ {x} \in A => T \in A
    BY <1>2
  <2>2. \A T \in SUBSET S : T \in A
    BY <1>1, <2>1, InductOverSets
  <2> QED
    BY <2>2
<1> QED
  BY <1>3 DEF A

\* The sum over two sets without common members.
LEMMA SumOfUnion ==
  ASSUME NEW S, IsFiniteSet(S), NEW f, \A x \in S : f[x] \in Int,
         NEW P \in SUBSET S, NEW Q \in SUBSET S, P \cap Q = {}
  PROVE  SumOver(f, P \cup Q) = SumOver(f, P) + SumOver(f, Q)
<1> DEFINE A == {T \in SUBSET Q : SumOver(f, P \cup T) = SumOver(f, P) + SumOver(f, T)}
<1>1. /\ IsFiniteSet(Q) /\ \A T \in SUBSET S : IsFiniteSet(T)
      /\ \A T \in SUBSET S : \A x \in T : f[x] \in Int
  BY FS_Subset
<1>2. \A T \in SUBSET S : SumOver(f, T) \in Int
  BY <1>1, SumType
<1>3. {} \in A
  <2>1. SumOver(f, {}) = 0
    BY <1>1, SumOverRecurs
  <2>2. P \cup {} = P /\ SumOver(f, P) \in Int
    BY <1>2
  <2>3. SumOver(f, P) = SumOver(f, P) + 0
    BY <2>2
  <2>4. SumOver(f, P \cup {}) = SumOver(f, P) + SumOver(f, {})
    BY <2>1, <2>2, <2>3
  <2> QED
    BY <2>4
<1>4. ASSUME NEW T \in SUBSET Q, NEW x \in T, T \ {x} \in A PROVE T \in A
  <2>1. /\ T \in SUBSET S /\ P \cup T \in SUBSET S /\ x \in P \cup T
        /\ (P \cup T) \ {x} = P \cup (T \ {x}) /\ T \ {x} \in SUBSET S
    OBVIOUS
  <2>2. SumOver(f, P \cup T) = f[x] + SumOver(f, (P \cup T) \ {x})
    BY <1>1, <2>1, SumWithout
  <2>3. SumOver(f, T) = f[x] + SumOver(f, T \ {x})
    BY <1>1, <2>1, SumWithout
  <2>4. SumOver(f, P \cup (T \ {x})) = SumOver(f, P) + SumOver(f, T \ {x})
    BY <1>4
  <2>5. PICK u, v, w \in Int : u = f[x] /\ v = SumOver(f, P) /\ w = SumOver(f, T \ {x})
    BY <1>2, <2>1
  <2>6. SumOver(f, P \cup T) = u + (v + w) /\ SumOver(f, T) = u + w
    BY <2>1, <2>2, <2>3, <2>4, <2>5
  <2>7. u + (v + w) = v + (u + w)
    OBVIOUS
  <2>8. SumOver(f, P \cup T) = SumOver(f, P) + SumOver(f, T)
    BY <2>5, <2>6, <2>7
  <2> QED
    BY <2>8
<1> HIDE DEF A
<1>5. Q \in A
  <2>1. \A T \in SUBSET Q : \A x \in T : T \ {x} \in A => T \in A
    BY <1>4
  <2>2. \A T \in SUBSET Q : T \in A
    BY <1>1, <1>3, <2>1, InductOverSets
  <2> QED
    BY <2>2
<1> QED
  BY <1>5 DEF A

\* Leaving out entries leaves out nothing negative.
LEMMA SumOfPart ==
  ASSUME NEW S, IsFiniteSet(S), NEW f, \A x \in S : f[x] \in Nat, NEW P \in SUBSET S
  PROVE  SumOver(f, P) \in Nat /\ SumOver(f, S) \in Nat /\ SumOver(f, P) <= SumOver(f, S)
<1>1. \A T \in SUBSET S : IsFiniteSet(T) /\ \A x \in T : f[x] \in Int /\ f[x] >= 0
  BY FS_Subset
<1>2. \A T \in SUBSET S : SumOver(f, T) \in Nat
  BY <1>1, SumType
<1> DEFINE Q == S \ P
<1>3. P \cup Q = S /\ P \cap Q = {} /\ Q \in SUBSET S /\ \A x \in S : f[x] \in Int
  OBVIOUS
<1> HIDE DEF Q
<1>4. SumOver(f, P \cup Q) = SumOver(f, P) + SumOver(f, Q)
  BY <1>3, SumOfUnion
<1>5. SumOver(f, P) \in Nat /\ SumOver(f, Q) \in Nat /\ SumOver(f, S) \in Nat
  BY <1>2, <1>3
<1> QED
  BY <1>3, <1>4, <1>5

\* Summing group by group, where every entry belongs to one.
Group(of, S, h) == {x \in S : of[x] = h}

LEMMA SumByGroups ==
  ASSUME NEW S, IsFiniteSet(S), NEW H, IsFiniteSet(H),
         NEW f, \A x \in S : f[x] \in Int, NEW of, \A x \in S : of[x] \in H,
         NEW g, \A h \in H : g[h] = SumOver(f, Group(of, S, h))
  PROVE  SumOver(g, H) = SumOver(f, S)
<1> DEFINE In(T) == {x \in S : of[x] \in T}
           A == {T \in SUBSET H : SumOver(g, T) = SumOver(f, In(T))}
<1>1. /\ \A T : In(T) \in SUBSET S
      /\ \A U \in SUBSET S : IsFiniteSet(U) /\ \A x \in U : f[x] \in Int
  BY FS_Subset
<1>2. \A T : SumOver(f, In(T)) \in Int
  BY <1>1, SumType
<1>3. \A h \in H : Group(of, S, h) = In({h})
  BY DEF Group
<1>4. \A h \in H : g[h] = SumOver(f, In({h})) /\ g[h] \in Int
  <2> SUFFICES ASSUME NEW h \in H PROVE g[h] = SumOver(f, In({h})) /\ g[h] \in Int
    OBVIOUS
  <2>1. g[h] = SumOver(f, Group(of, S, h)) /\ Group(of, S, h) = In({h})
    BY <1>3
  <2> HIDE DEF In
  <2>2. g[h] = SumOver(f, In({h}))
    BY <2>1
  <2> QED
    BY <1>2, <2>2
<1>5. {} \in A
  <2>1. SumOver(f, {}) = 0 /\ SumOver(g, {}) = 0 /\ In({}) = {}
    BY SumOverRecurs
  <2> QED
    BY <2>1
<1>6. ASSUME NEW T \in SUBSET H, NEW h \in T, T \ {h} \in A PROVE T \in A
  <2>1. IsFiniteSet(T) /\ \A y \in T : g[y] \in Int
    BY <1>4, FS_Subset
  <2>2. SumOver(g, T) = g[h] + SumOver(g, T \ {h})
    BY <2>1, SumWithout
  <2>3. /\ In(T) = In({h}) \cup In(T \ {h}) /\ In({h}) \cap In(T \ {h}) = {}
        /\ In({h}) \in SUBSET S /\ In(T \ {h}) \in SUBSET S
    OBVIOUS
  <2>4. SumOver(g, T \ {h}) = SumOver(f, In(T \ {h})) /\ g[h] = SumOver(f, In({h}))
    BY <1>4, <1>6
  <2> HIDE DEF In
  <2> DEFINE P == In({h})
             Q == In(T \ {h})
  <2>5. SumOver(f, P \cup Q) = SumOver(f, P) + SumOver(f, Q)
    <3>1. P \in SUBSET S /\ Q \in SUBSET S /\ P \cap Q = {}
      BY <2>3
    <3> HIDE DEF P, Q
    <3> QED
      BY <3>1, SumOfUnion
  <2>6. SumOver(g, T) = SumOver(f, In(T))
    BY <2>2, <2>3, <2>4, <2>5
  <2> QED
    BY <2>6
<1>7. H \in A
  <2> HIDE DEF A
  <2>1. \A T \in SUBSET H : \A x \in T : T \ {x} \in A => T \in A
    BY <1>6
  <2>2. \A T \in SUBSET H : T \in A
    BY <1>5, <2>1, InductOverSets
  <2> QED
    BY <2>2
<1>8. In(H) = S
  OBVIOUS
<1> HIDE DEF In
<1> QED
  BY <1>7, <1>8

\* The sums of the rows add up to what the sums of the columns do.
Column(f, H, x) == [h \in H |-> f[h][x]]

LEMMA SumsSwap ==
  ASSUME NEW S, IsFiniteSet(S), NEW H, IsFiniteSet(H),
         NEW f, \A h \in H : \A x \in S : f[h][x] \in Int,
         NEW rows, \A h \in H : rows[h] = SumOver(f[h], S),
         NEW columns, \A x \in S : columns[x] = SumOver(Column(f, H, x), H)
  PROVE  SumOver(rows, H) = SumOver(columns, S)
<1> DEFINE Part(T) == [x \in S |-> SumOver(Column(f, H, x), T)]
           A == {T \in SUBSET H : SumOver(rows, T) = SumOver(Part(T), S)}
<1>1. \A T \in SUBSET H : IsFiniteSet(T)
  BY FS_Subset
<1>2. \A x \in S : \A h \in H : Column(f, H, x)[h] = f[h][x] /\ Column(f, H, x)[h] \in Int
  BY DEF Column
<1>3. \A h \in H : rows[h] \in Int
  BY SumType
<1>4. \A T \in SUBSET H : \A x \in S : Part(T)[x] = SumOver(Column(f, H, x), T) /\ Part(T)[x] \in Int
  BY <1>1, <1>2, SumType
<1> HIDE DEF Part
<1>5. {} \in A
  <2>1. SumOver(rows, {}) = 0 /\ \A x \in S : SumOver(Column(f, H, x), {}) = 0
    BY SumOverRecurs
  <2>2. \A x \in S : Part({})[x] = 0
    BY <1>4, <2>1
  <2>3. SumOver(Part({}), S) = 0
    BY <2>2, SumOfZeros
  <2> QED
    BY <2>1, <2>3
<1>6. ASSUME NEW T \in SUBSET H, NEW h \in T, T \ {h} \in A PROVE T \in A
  <2>1. IsFiniteSet(T) /\ \A y \in T : rows[y] \in Int
    BY <1>1, <1>3
  <2>2. SumOver(rows, T) = rows[h] + SumOver(rows, T \ {h})
    BY <2>1, SumWithout
  <2>3. ASSUME NEW x \in S
        PROVE  Part(T)[x] = f[h][x] + Part(T \ {h})[x] /\ Part(T \ {h})[x] \in Int
    <3>1. \A y \in T : Column(f, H, x)[y] \in Int
      BY <1>2
    <3>2. SumOver(Column(f, H, x), T) = Column(f, H, x)[h] + SumOver(Column(f, H, x), T \ {h})
      BY <2>1, <3>1, SumWithout
    <3>3. T \ {h} \in SUBSET H
      OBVIOUS
    <3> QED
      BY <1>2, <1>4, <3>2, <3>3
  <2>4. \A x \in S : f[h][x] \in Int
    OBVIOUS
  <2>5. SumOver(Part(T), S) = SumOver(f[h], S) + SumOver(Part(T \ {h}), S)
    BY <2>3, <2>4, SumsAdd
  <2>6. SumOver(rows, T \ {h}) = SumOver(Part(T \ {h}), S) /\ rows[h] = SumOver(f[h], S)
    BY <1>6
  <2>7. SumOver(rows, T) = SumOver(Part(T), S)
    BY <2>2, <2>5, <2>6
  <2> QED
    BY <2>7
<1>7. H \in A
  <2> HIDE DEF A
  <2>1. \A T \in SUBSET H : \A x \in T : T \ {x} \in A => T \in A
    BY <1>6
  <2>2. \A T \in SUBSET H : T \in A
    BY <1>5, <2>1, InductOverSets
  <2> QED
    BY <2>2
<1>8. \A x \in S : columns[x] = Part(H)[x] /\ Part(H)[x] \in Int
  BY <1>4
<1>9. SumOver(columns, S) = SumOver(Part(H), S)
  BY <1>8, SameSum
<1> QED
  BY <1>7, <1>9

\* Equal entries, one for each place.
Firsts(e, k) == {e[n] : n \in 1..k}
Distinct(e, m) == \A i, j \in 1..m : e[i] = e[j] => i = j

LEMMA SumOfEqual ==
  ASSUME NEW m \in Nat, NEW e, Distinct(e, m),
         NEW c \in Nat, NEW f, \A x \in Firsts(e, m) : f[x] = c, NEW k \in Nat, k <= m
  PROVE  IsFiniteSet(Firsts(e, k)) /\ SumOver(f, Firsts(e, k)) = k * c
<1> DEFINE P == {i \in Nat : i <= m => /\ IsFiniteSet(Firsts(e, i))
                                       /\ SumOver(f, Firsts(e, i)) = i * c}
<1>1. 0 \in P
  <2>1. Firsts(e, 0) = {}
    BY DEF Firsts
  <2>2. IsFiniteSet({}) /\ SumOver(f, {}) = 0
    BY FS_EmptySet, SumOverRecurs
  <2>3. 0 * c = 0
    OBVIOUS
  <2> QED
    BY <2>1, <2>2, <2>3
<1>2. ASSUME NEW i \in Nat, i \in P PROVE i + 1 \in P
  <2> SUFFICES ASSUME i + 1 <= m
               PROVE  /\ IsFiniteSet(Firsts(e, i + 1))
                      /\ SumOver(f, Firsts(e, i + 1)) = (i + 1) * c
    OBVIOUS
  <2> DEFINE T == Firsts(e, i + 1)
             x == e[i + 1]
  <2>1. IsFiniteSet(Firsts(e, i)) /\ SumOver(f, Firsts(e, i)) = i * c
    BY <1>2
  <2>2. 1..(i + 1) = 1..i \cup {i + 1} /\ i + 1 \notin 1..i /\ 1..(i + 1) \subseteq 1..m
    OBVIOUS
  <2>3. T = Firsts(e, i) \cup {x} /\ x \notin Firsts(e, i)
    BY <2>2 DEF Firsts, Distinct
  <2>4. T \ {x} = Firsts(e, i) /\ x \in T
    BY <2>3
  <2>5. IsFiniteSet(T)
    BY <2>1, <2>3, FS_AddElement
  <2>6. \A y \in T : f[y] = c
    BY <2>2 DEF Firsts
  <2> HIDE DEF T, x
  <2>7. SumOver(f, T) = f[x] + SumOver(f, T \ {x})
    <3>1. \A y \in T : f[y] \in Int
      BY <2>6
    <3> QED
      BY <2>4, <2>5, <3>1, SumWithout
  <2>8. SumOver(f, T) = c + i * c
    BY <2>1, <2>4, <2>6, <2>7
  <2>9. c + i * c = (i + 1) * c
    BY SMT
  <2> QED
    BY <2>5, <2>8, <2>9 DEF T
<1> HIDE DEF P
<1>3. k \in P
  BY <1>1, <1>2, Induct
<1> QED
  BY <1>3 DEF P

\* The two ways of stating a sum agree: the partial sums are those over 1..i.
LEMMA SumsToItsSum ==
  ASSUME NEW n \in Nat, NEW f \in [1..n -> Nat]
  PROVE  SumOver(f, 1..n) \in Nat /\ SumsTo(f, n, SumOver(f, 1..n))
<1> DEFINE s == [i \in 0..n |-> SumOver(f, 1..i)]
           total == SumOver(f, 1..n)
<1>1. IsFiniteSet(1..n) /\ \A i \in 1..n : f[i] \in Nat /\ f[i] \in Int
  <2>1. 1 \in Int /\ n \in Int
    OBVIOUS
  <2>2. IsFiniteSet(1..n)
    BY <2>1, FS_Interval
  <2> QED
    BY <2>2
<1>2. ASSUME NEW i \in 0..n, NEW j \in 0..n, i <= j
      PROVE  /\ SumOver(f, 1..i) \in Nat /\ SumOver(f, 1..j) \in Nat
             /\ SumOver(f, 1..i) <= SumOver(f, 1..j)
  <2>1. 1..i \in SUBSET (1..j) /\ 1..j \in SUBSET (1..n)
    BY <1>2
  <2>2. IsFiniteSet(1..j) /\ \A k \in 1..j : f[k] \in Nat
    BY <1>1, <2>1, FS_Subset
  <2> QED
    BY <2>1, <2>2, SumOfPart
<1>3. \A i \in 0..n : s[i] = SumOver(f, 1..i)
  OBVIOUS
<1>4. 0 \in 0..n /\ n \in 0..n /\ \A i \in 0..n : i <= n /\ i <= i
  OBVIOUS
<1>5. total \in Nat
  BY <1>2, <1>4
<1>6. s \in [0..n -> 0..total]
  <2> SUFFICES ASSUME NEW i \in 0..n PROVE SumOver(f, 1..i) \in 0..total
    OBVIOUS
  <2>1. SumOver(f, 1..i) \in Nat /\ SumOver(f, 1..i) <= total
    BY <1>2, <1>4
  <2> HIDE DEF total
  <2> QED
    BY <1>5, <2>1
<1> HIDE DEF s
<1>7. s[0] = 0
  <2>1. 1..0 = {}
    OBVIOUS
  <2>2. SumOver(f, {}) = 0
    BY <1>1, SumOverRecurs
  <2> QED
    BY <1>3, <1>4, <2>1, <2>2
<1>8. ASSUME NEW i \in 1..n PROVE s[i] = s[i - 1] + f[i]
  <2>1. i \in 0..n /\ i - 1 \in 0..n /\ 1..i \subseteq 1..n
        /\ (1..i) \ {i} = 1..(i - 1) /\ i \in 1..i
    OBVIOUS
  <2>2. IsFiniteSet(1..i) /\ \A k \in 1..i : f[k] \in Int
    BY <1>1, <2>1, FS_Subset
  <2>3. SumOver(f, 1..i) = f[i] + SumOver(f, (1..i) \ {i})
    BY <2>1, <2>2, SumWithout
  <2>4. SumOver(f, 1..(i - 1)) \in Nat /\ f[i] \in Nat
    BY <1>1, <1>2, <1>4, <2>1
  <2>5. PICK x, y \in Nat : x = SumOver(f, 1..(i - 1)) /\ y = f[i]
    BY <2>4
  <2>6. SumOver(f, 1..i) = y + x
    BY <2>1, <2>3, <2>5
  <2>7. s[i] = y + x /\ s[i - 1] = x
    BY <1>3, <2>1, <2>5, <2>6
  <2> QED
    BY <2>5, <2>7
<1>9. \A i, j \in 0..n : i <= j => s[i] <= s[j]
  <2> SUFFICES ASSUME NEW i \in 0..n, NEW j \in 0..n, i <= j PROVE s[i] <= s[j]
    OBVIOUS
  <2> QED
    BY <1>2, <1>3
<1>10. IsPartialSum(s, f, n) /\ s[n] = total
  BY <1>3, <1>4, <1>7, <1>8, <1>9 DEF IsPartialSum
<1> HIDE DEF total
<1> QED
  BY <1>5, <1>6, <1>10 DEF SumsTo, total

\* A sum with entries up to k, those of L at most, is no more than k for each of L.
LEMMA SumBounded ==
  ASSUME NEW S, IsFiniteSet(S), NEW L \in SUBSET S, NEW k \in Nat, NEW f,
         \A x \in S : f[x] \in Nat /\ f[x] <= k,
         \A x \in S : x \notin L => f[x] = 0
  PROVE  Cardinality(L) \in Nat /\ SumOver(f, S) <= Cardinality(L) * k
<1> DEFINE A == {T \in SUBSET S : SumOver(f, T) <= Cardinality(T \cap L) * k}
<1>0. \A T \in SUBSET S : IsFiniteSet(T) /\ IsFiniteSet(T \cap L) /\ Cardinality(T \cap L) \in Nat
  BY FS_Subset, FS_CardinalityType
<1>1. {} \in A
  <2>1. SumOver(f, {}) = 0 /\ Cardinality({}) = 0 /\ {} \cap L = {}
    BY SumOverRecurs, FS_EmptySet
  <2>2. 0 <= 0 * k
    BY SMT
  <2> QED
    BY <2>1, <2>2
<1>2. ASSUME NEW T \in SUBSET S, NEW x \in T, T \ {x} \in A PROVE T \in A
  <2> DEFINE c == Cardinality(T \cap L)
             d == Cardinality((T \ {x}) \cap L)
  <2>1. /\ IsFiniteSet(T) /\ IsFiniteSet(T \ {x})
        /\ \A y \in T : f[y] \in Int
    BY FS_Subset
  <2>2. SumOver(f, T) = f[x] + SumOver(f, T \ {x}) /\ SumOver(f, T \ {x}) \in Int
    BY <2>1, SumWithout, SumType
  <2>3. SumOver(f, T \ {x}) <= d * k
    BY <1>2
  <2>4. c \in Nat /\ d \in Nat
    BY <1>0
  <2>5. CASE x \in L
    <3>1. (T \ {x}) \cap L = (T \cap L) \ {x} /\ x \in T \cap L /\ IsFiniteSet(T \cap L)
      BY <1>0, <2>5
    <3>2. d = c - 1
      BY <3>1, TakeOne
    <3> HIDE DEF c, d
    <3>3. c * k = d * k + k /\ d * k \in Int
      BY <2>4, <3>2, SMT
    <3>4. f[x] \in Nat /\ f[x] <= k
      OBVIOUS
    <3>5. SumOver(f, T) <= c * k
      BY <2>2, <2>3, <3>3, <3>4
    <3> QED
      BY <3>5 DEF c
  <2>6. CASE x \notin L
    <3>1. (T \ {x}) \cap L = T \cap L /\ f[x] = 0
      BY <2>6
    <3>2. d = c
      BY <3>1
    <3>3. SumOver(f, T) = SumOver(f, T \ {x})
      BY <2>2, <3>1
    <3> HIDE DEF c, d
    <3>4. SumOver(f, T) <= c * k
      BY <2>3, <3>2, <3>3
    <3> QED
      BY <3>4 DEF c
  <2> QED
    BY <2>5, <2>6
<1> HIDE DEF A
<1>3. S \in A
  <2>1. \A T \in SUBSET S : \A x \in T : T \ {x} \in A => T \in A
    BY <1>2
  <2>2. \A T \in SUBSET S : T \in A
    BY <1>1, <2>1, InductOverSets
  <2> QED
    BY <2>2
<1>4. S \cap L = L /\ S \in SUBSET S
  OBVIOUS
<1> QED
  BY <1>0, <1>3, <1>4 DEF A

-----------------------------------------------------------------------------
(* Quotients, which the contracts round down.                              *)

\* What a quotient leaves is less than the divisor.
LEMMA QuotientBounds ==
  ASSUME NEW n \in Int, NEW d \in Nat \ {0}
  PROVE  /\ n \div d \in Int /\ (n \div d) * d \in Int
         /\ (n \div d) * d <= n
         /\ n < (n \div d) * d + d
         /\ n >= 0 => n \div d \in Nat
<1>1. n = (n \div d) * d + (n % d)
  BY SMT
<1>2. n % d \in 0..(d - 1)
  BY SMT
<1>3. n \div d \in Int
  BY SMT
<1>4. (n \div d) * d \in Int
  BY <1>3, SMT
<1>5. n >= 0 => n \div d \in Nat
  BY SMT
<1> QED
  BY <1>1, <1>2, <1>3, <1>4, <1>5

\* Products grow with their factors, quotients with what is divided.
LEMMA ProductGrows ==
  ASSUME NEW a \in Int, NEW b \in Int, a <= b, NEW d \in Nat
  PROVE  a * d <= b * d /\ d * a <= d * b
<1>1. (b - a) * d >= 0
  BY SMT
<1> QED
  BY <1>1, SMT

LEMMA ProductReflects ==
  ASSUME NEW a \in Int, NEW b \in Int, NEW d \in Nat, a * d < b * d
  PROVE  a < b
<1> SUFFICES ASSUME b <= a PROVE FALSE
  OBVIOUS
<1>1. b * d <= a * d
  BY ProductGrows
<1>2. a * d \in Int /\ b * d \in Int
  BY SMT
<1> QED
  BY <1>1, <1>2

LEMMA ProductReflectsLe ==
  ASSUME NEW a \in Int, NEW b \in Int, NEW d \in Nat \ {0}, a * d <= b * d
  PROVE  a <= b
<1> SUFFICES ASSUME b < a PROVE FALSE
  OBVIOUS
<1>1. (b + 1) * d <= a * d
  BY ProductGrows
<1>2. (b + 1) * d = b * d + d /\ a * d \in Int /\ b * d \in Int
  BY SMT
<1> QED
  BY <1>1, <1>2

LEMMA QuotientGrows ==
  ASSUME NEW a \in Int, NEW b \in Int, a <= b, NEW d \in Nat \ {0}
  PROVE  a \div d <= b \div d
<1> DEFINE p == a \div d
           q == b \div d
<1>1. /\ p \in Int /\ q \in Int /\ p * d \in Int /\ q * d \in Int
      /\ p * d <= a /\ b < q * d + d
  BY QuotientBounds
<1> HIDE DEF p, q
<1>2. (q + 1) * d = q * d + d
  BY <1>1, SMT
<1>3. p * d < (q + 1) * d
  BY <1>1, <1>2
<1>4. p < q + 1
  BY <1>1, <1>3, ProductReflects
<1>5. p <= q
  BY <1>1, <1>4
<1> QED
  BY <1>5 DEF p, q


\* What is at most a quotient.
LEMMA QuotientReached ==
  ASSUME NEW n \in Nat, NEW d \in Nat \ {0}, NEW m \in Nat
  PROVE  d * m <= n <=> m <= n \div d
<1>1. PICK q \in Nat : q = n \div d /\ q * d <= n /\ n < q * d + d /\ q * d \in Nat
  <2>1. n \in Int /\ n >= 0
    OBVIOUS
  <2> QED
    BY <2>1, QuotientBounds
<1>2. m * d \in Nat /\ d * m = m * d /\ q + 1 \in Int /\ (q + 1) * d = q * d + d
  BY SMT
<1>3. ASSUME m <= q PROVE d * m <= n
  <2>1. m * d <= q * d
    BY <1>3, ProductGrows
  <2> QED
    BY <1>1, <1>2, <2>1
<1>4. ASSUME d * m <= n PROVE m <= q
  <2>1. m * d < (q + 1) * d
    BY <1>1, <1>2, <1>4
  <2>2. m < q + 1
    BY <1>2, <2>1, ProductReflects
  <2> QED
    BY <2>2
<1> QED
  BY <1>1, <1>3, <1>4

-----------------------------------------------------------------------------
(* Loops over lists.                                                       *)

\* A list in which nothing is twice.
Injective(s) == \A i, j \in 1..Len(s) : s[i] = s[j] => i = j

LoopStep(g, list, out) ==
  [i \in 0..Len(list) |->
     IF i = 0 THEN <<>>
     ELSE IF list[i] \in out THEN g[i - 1]
     ELSE Append(g[i - 1], list[i])]

\* A recursion over 1..n within a set S has a solution.
Iterated(f, n, base, step) ==
  f[0] = base /\ \A i \in 1..n : f[i] = step[<<i, f[i - 1]>>]

LEMMA Iterates ==
  ASSUME NEW n \in Nat, NEW S, NEW base \in S, NEW step \in [(1..n) \X S -> S]
  PROVE  \E f \in [0..n -> S] : Iterated(f, n, base, step)
<1> DEFINE Until(f, k) == /\ f[0] = base
                          /\ \A i \in 1..n : i <= k => f[i] = step[<<i, f[i - 1]>>]
           P == {k \in Nat : \E f \in [0..n -> S] : Until(f, k)}
<1>1. 0 \in P
  <2>1. [i \in 0..n |-> base] \in [0..n -> S] /\ Until([i \in 0..n |-> base], 0)
    OBVIOUS
  <2> QED
    BY <2>1
<1>2. ASSUME NEW k \in Nat, k \in P PROVE k + 1 \in P
  <2>1. PICK f \in [0..n -> S] : Until(f, k)
    BY <1>2
  <2>2. CASE k + 1 > n
    <3>1. \A i \in 1..n : i <= k
      BY <2>2
    <3>2. Until(f, k + 1)
      BY <2>1, <3>1
    <3> QED
      BY <3>2
  <2>3. CASE k + 1 <= n
    <3> DEFINE h == [f EXCEPT ![k + 1] = step[<<k + 1, f[k]>>]]
    <3>1. k \in 0..n /\ k + 1 \in 1..n /\ k + 1 \in 0..n /\ f[k] \in S
      BY <2>3
    <3>2. step[<<k + 1, f[k]>>] \in S
      BY <3>1
    <3>3. /\ h \in [0..n -> S] /\ h[k + 1] = step[<<k + 1, f[k]>>]
          /\ \A i \in 0..n : i # k + 1 => h[i] = f[i]
      BY <3>1, <3>2
    <3> HIDE DEF h
    <3>4. ASSUME NEW i \in 1..n, i <= k + 1 PROVE h[i] = step[<<i, h[i - 1]>>]
      <4>1. i \in 0..n /\ i - 1 \in 0..n /\ i - 1 # k + 1
        BY <3>4
      <4>2. CASE i = k + 1
        <5>1. i - 1 = k /\ k # k + 1
          BY <4>2
        <5>2. h[i - 1] = f[k]
          BY <3>1, <3>3, <5>1
        <5> QED
          BY <3>3, <4>2, <5>2
      <4>3. CASE i # k + 1
        <5>1. i <= k
          BY <3>4, <4>3
        <5> QED
          BY <2>1, <3>3, <4>1, <4>3, <5>1
      <4> QED
        BY <4>2, <4>3
    <3>5. h[0] = base
      BY <2>1, <3>3
    <3>6. Until(h, k + 1)
      BY <3>4, <3>5
    <3> QED
      BY <3>3, <3>6
  <2> QED
    BY <2>2, <2>3
<1> HIDE DEF P
<1>3. n \in P
  BY <1>1, <1>2, Induct
<1>4. PICK f \in [0..n -> S] : Until(f, n)
  BY <1>3 DEF P
<1>5. \A i \in 1..n : i <= n
  OBVIOUS
<1> QED
  BY <1>4, <1>5 DEF Iterated

\* The loop ends: its state after every pass is determined.
LEMMA LoopRuns ==
  ASSUME NEW S, NEW list \in Seq(S), NEW out
  PROVE  \E g : g = LoopStep(g, list, out)
<1> DEFINE n == Len(list)
           step == [p \in (1..n) \X Seq(S) |->
                      IF list[p[1]] \in out THEN p[2] ELSE Append(p[2], list[p[1]])]
<1>1. n \in Nat /\ \A i \in 1..n : list[i] \in S
  BY LenProperties, ElementOfSeq
<1> HIDE DEF n
<1>2. step \in [(1..n) \X Seq(S) -> Seq(S)]
  BY <1>1, AppendProperties
<1>3. <<>> \in Seq(S)
  BY EmptySeq
<1>4. \A i \in 1..n, s \in Seq(S) :
        step[<<i, s>>] = IF list[i] \in out THEN s ELSE Append(s, list[i])
  OBVIOUS
<1> HIDE DEF step
<1>5. PICK g \in [0..n -> Seq(S)] :
        g[0] = <<>> /\ \A i \in 1..n : g[i] = step[<<i, g[i - 1]>>]
  <2> DEFINE D == Seq(S)
             e == <<>>
  <2>1. n \in Nat /\ e \in D /\ step \in [(1..n) \X D -> D]
    BY <1>1, <1>2, <1>3
  <2> HIDE DEF D, e
  <2>2. \E g \in [0..n -> D] : Iterated(g, n, e, step)
    BY <2>1, Iterates
  <2> QED
    BY <2>2 DEF D, e, Iterated
<1>6. ASSUME NEW i \in 0..n, i # 0
      PROVE  g[i] = IF list[i] \in out THEN g[i - 1] ELSE Append(g[i - 1], list[i])
  <2>1. i \in 1..n /\ i - 1 \in 0..n
    BY <1>1, <1>6
  <2>2. g[i - 1] \in Seq(S)
    BY <1>5, <2>1
  <2> QED
    BY <1>4, <1>5, <2>1, <2>2
<1>7. g = [i \in 0..n |-> IF i = 0 THEN <<>>
                          ELSE IF list[i] \in out THEN g[i - 1]
                          ELSE Append(g[i - 1], list[i])]
  BY <1>5, <1>6
<1> QED
  BY <1>7 DEF LoopStep, n

\* What the loop has collected after i passes: those of the first i that are not
\* left out, each once if the list has each once.
Collected(S, s, list, out, i) ==
  /\ s \in Seq(S)
  /\ \A k \in 1..Len(s) : \E j \in 1..i : s[k] = list[j] /\ list[j] \notin out
  /\ \A j \in 1..i : list[j] \in out \/ \E k \in 1..Len(s) : s[k] = list[j]
  /\ Injective(list) => Injective(s)
  /\ Len(s) <= i /\ ((\A j \in 1..i : list[j] \notin out) => Len(s) = i)

LEMMA LoopCollects ==
  ASSUME NEW S, NEW list \in Seq(S), NEW out, NEW g, g = LoopStep(g, list, out),
         NEW i \in Nat, i <= Len(list)
  PROVE  Collected(S, g[i], list, out, i)
<1> DEFINE n == Len(list)
           P == {k \in Nat : k <= n => Collected(S, g[k], list, out, k)}
<1>1. n \in Nat /\ \A j \in 1..n : list[j] \in S
  BY LenProperties, ElementOfSeq
<1>2. 0 \in P
  <2>1. g[0] = <<>>
    BY <1>1 DEF LoopStep
  <2>2. Collected(S, <<>>, list, out, 0)
    BY EmptySeq DEF Collected, Injective
  <2> QED
    BY <2>1, <2>2
<1>3. ASSUME NEW k \in Nat, k \in P PROVE k + 1 \in P
  <2> SUFFICES ASSUME k + 1 <= n PROVE Collected(S, g[k + 1], list, out, k + 1)
    OBVIOUS
  <2> DEFINE s == g[k]
             x == list[k + 1]
  <2>1. /\ Collected(S, s, list, out, k) /\ k + 1 \in 1..n /\ x \in S
        /\ \A j \in 1..(k + 1) : j = k + 1 \/ j \in 1..k
        /\ \A j \in 1..k : j \in 1..(k + 1) /\ j \in 1..n /\ j # k + 1
    BY <1>1, <1>3
  <2>2. g[k + 1] = IF x \in out THEN s ELSE Append(s, x)
    <3>1. k + 1 \in 0..n /\ k + 1 # 0 /\ k + 1 - 1 = k
      BY <1>1
    <3>2. g[k + 1] = LoopStep(g, list, out)[k + 1]
      OBVIOUS
    <3>3. LoopStep(g, list, out)[k + 1]
            = IF list[k + 1] \in out THEN g[k] ELSE Append(g[k], list[k + 1])
      BY <3>1 DEF LoopStep
    <3> QED
      BY <3>2, <3>3
  <2> HIDE DEF s, x
  <2>3. CASE x \in out
    <3>1. Len(s) \in Nat /\ Len(s) <= k + 1
      BY <2>1, LenProperties DEF Collected
    <3>2. ~\A j \in 1..(k + 1) : list[j] \notin out
      BY <2>3 DEF x
    <3>3. Collected(S, s, list, out, k + 1)
      BY <2>1, <2>3, <3>1, <3>2 DEF Collected, x
    <3> QED
      BY <2>2, <2>3, <3>3
  <2>4. CASE x \notin out
    <3> DEFINE t == Append(s, x)
               l == Len(s)
    <3>1. /\ s \in Seq(S) /\ l \in Nat /\ t \in Seq(S) /\ Len(t) = l + 1
          /\ \A m \in 1..l : t[m] = s[m]
          /\ t[l + 1] = x
      BY <2>1, LenProperties, AppendProperties DEF Collected
    <3> HIDE DEF t, l
    <3>2. \A m \in 1..(l + 1) : m = l + 1 \/ m \in 1..l
      BY <3>1
    <3>3. \A m \in 1..l : m \in 1..(l + 1) /\ l + 1 \in 1..(l + 1)
      BY <3>1
    <3>4. l + 1 \in 1..(l + 1)
      BY <3>1
    <3>5. \A m \in 1..(l + 1) :
            \E j \in 1..(k + 1) : t[m] = list[j] /\ list[j] \notin out
      <4> SUFFICES ASSUME NEW m \in 1..(l + 1)
                   PROVE  \E j \in 1..(k + 1) : t[m] = list[j] /\ list[j] \notin out
        OBVIOUS
      <4>1. CASE m = l + 1
        <5>1. k + 1 \in 1..(k + 1)
          OBVIOUS
        <5> QED
          BY <2>4, <3>1, <4>1, <5>1 DEF x
      <4>2. CASE m # l + 1
        BY <2>1, <3>1, <3>2, <4>2 DEF Collected, l
      <4> QED
        BY <4>1, <4>2
    <3>6. \A j \in 1..(k + 1) : list[j] \in out \/ \E m \in 1..(l + 1) : t[m] = list[j]
      <4> SUFFICES ASSUME NEW j \in 1..(k + 1), list[j] \notin out
                   PROVE  \E m \in 1..(l + 1) : t[m] = list[j]
        OBVIOUS
      <4>1. CASE j = k + 1
        BY <3>1, <3>4, <4>1 DEF x
      <4>2. CASE j # k + 1
        <5>1. PICK m \in 1..l : s[m] = list[j]
          BY <2>1, <4>2 DEF Collected, l
        <5> QED
          BY <3>1, <3>3, <5>1
      <4> QED
        BY <4>1, <4>2
    <3>7. ASSUME Injective(list) PROVE Injective(t)
      <4>1. Injective(s)
        BY <2>1, <3>7 DEF Collected
      <4>2. \A m \in 1..l : s[m] # x
        <5> SUFFICES ASSUME NEW m \in 1..l, s[m] = x PROVE FALSE
          OBVIOUS
        <5>1. PICK j \in 1..k : s[m] = list[j]
          BY <2>1 DEF Collected, l
        <5> QED
          BY <2>1, <3>7, <5>1 DEF Injective, x
      <4> QED
        BY <3>1, <3>2, <4>1, <4>2 DEF Injective, l
    <3>8. Len(t) <= k + 1 /\ ((\A j \in 1..(k + 1) : list[j] \notin out) => Len(t) = k + 1)
      BY <2>1, <3>1 DEF Collected, l
    <3>9. Collected(S, t, list, out, k + 1)
      BY <3>1, <3>5, <3>6, <3>7, <3>8 DEF Collected
    <3> QED
      BY <2>2, <2>4, <3>9 DEF t
  <2> QED
    BY <2>3, <2>4
<1> HIDE DEF P
<1>4. i \in P
  BY <1>2, <1>3, Induct
<1> QED
  BY <1>4 DEF P

LEMMA WithoutFacts ==
  ASSUME NEW S, NEW list \in Seq(S), NEW out, NEW w, w = Without(list, out)
  PROVE  /\ w \in Seq(S)
         /\ \A x : (\E i \in 1..Len(w) : w[i] = x)
                  <=> (\E i \in 1..Len(list) : list[i] = x) /\ x \notin out
         /\ Injective(list) => Injective(w)
         /\ Len(w) <= Len(list)
         /\ (\A i \in 1..Len(list) : list[i] \notin out) => Len(w) = Len(list)
<1> DEFINE G == CHOOSE g : g = LoopStep(g, list, out)
           n == Len(list)
<1>1. G = LoopStep(G, list, out)
  BY LoopRuns
<1>2. w = G[n]
  BY DEF Without, LoopStep
<1>3. n \in Nat
  BY LenProperties
<1> HIDE DEF G
<1>4. Collected(S, w, list, out, n)
  BY <1>1, <1>2, <1>3, LoopCollects
<1> HIDE DEF n
<1>5. w \in Seq(S) /\ (Injective(list) => Injective(w)) /\ Len(w) <= n
      /\ ((\A j \in 1..n : list[j] \notin out) => Len(w) = n)
  BY <1>4 DEF Collected
<1>6. ASSUME NEW x, NEW k \in 1..Len(w), w[k] = x
      PROVE  (\E j \in 1..n : list[j] = x) /\ x \notin out
  <2>1. PICK j \in 1..n : w[k] = list[j] /\ list[j] \notin out
    BY <1>4 DEF Collected
  <2> QED
    BY <1>6, <2>1
<1>7. ASSUME NEW x, NEW j \in 1..n, list[j] = x, x \notin out
      PROVE  \E k \in 1..Len(w) : w[k] = x
  <2>1. list[j] \in out \/ \E k \in 1..Len(w) : w[k] = list[j]
    BY <1>4 DEF Collected
  <2> QED
    BY <1>7, <2>1
<1>8. \A x : (\E k \in 1..Len(w) : w[k] = x) <=> (\E j \in 1..n : list[j] = x) /\ x \notin out
  BY <1>6, <1>7
<1> QED
  BY <1>5, <1>8 DEF n

=============================================================================
