---------------------------- MODULE FactoryProofs ----------------------------
(***************************************************************************)
(* The hand-over of exchanges between factories, for any factories, pairs, *)
(* batch size and lists of exchanges left out.                             *)
(***************************************************************************)
EXTENDS Factory, SumsProofs, SequenceTheorems

\* What is listed exists: an exchange not created yet is nobody's.
ListedExist == \A f \in Factories : SeqOf(listed[f]) \subseteq Exchanges

FactoryInv ==
  ListedExist /\ ListedOnce /\ ListedObeyTheirFactory /\ ListedUnlessSkipped

Ids == Nat \ {0}

\* What is sent is what the batch has and the admin did not leave out.
LEMMA UnskippedFacts ==
  ASSUME NEW batch \in Seq(Ids), NEW skip
  PROVE  /\ Without(batch, skip) \in Seq(Ids)
         /\ SeqOf(Without(batch, skip)) = SeqOf(batch) \ skip
         /\ Injective(batch) => Injective(Without(batch, skip))
<1> DEFINE w == Without(batch, skip)
<1>1. /\ w \in Seq(Ids)
      /\ \A x : (\E i \in 1..Len(w) : w[i] = x)
               <=> (\E i \in 1..Len(batch) : batch[i] = x) /\ x \notin skip
      /\ Injective(batch) => Injective(w)
  BY WithoutFacts
<1> HIDE DEF w
<1>2. \A x : x \in SeqOf(w) <=> x \in SeqOf(batch) \ skip
  BY <1>1 DEF SeqOf
<1> QED
  BY <1>1, <1>2 DEF w

-----------------------------------------------------------------------------
(* The batch, and the pairs it stores.                                     *)

LEMMA BatchFacts ==
  ASSUME NEW f \in Factories, listed[f] \in Seq(Ids), NEW skip
  PROVE  /\ Batch(f) \in Seq(Ids) /\ Remaining(f, skip) \in Seq(Ids)
         /\ SeqOf(listed[f]) = SeqOf(Batch(f)) \cup SeqOf(Remaining(f, skip))
         /\ Injective(listed[f]) =>
              /\ Injective(Batch(f)) /\ Injective(Remaining(f, skip))
              /\ SeqOf(Batch(f)) \cap SeqOf(Remaining(f, skip)) = {}
<1> DEFINE L == listed[f]
           n == Len(L)
           m == IF n < TransferLimit THEN n ELSE TransferLimit
           rev == [i \in 1..n |-> L[n + 1 - i]]
           b == Batch(f)
           r == Remaining(f, skip)
<1>1. /\ n \in Nat /\ TransferLimit \in Nat \ {0} /\ m \in 0..n /\ m \in Nat
      /\ \A i \in 1..n : L[i] \in Ids
  BY LenProperties, ElementOfSeq, FactoryAssumption
<1>2. b = SubSeq(rev, 1, m)
  BY DEF Batch
<1>3. rev \in Seq(Ids) /\ Len(rev) = n
  <2>1. \A i \in 1..n : n + 1 - i \in 1..n
    BY <1>1
  <2>2. \A i \in 1..n : L[n + 1 - i] \in Ids
    BY <1>1, <2>1
  <2>3. rev \in [1..n -> Ids]
    BY <2>2
  <2> HIDE DEF rev
  <2> QED
    BY <1>1, <2>3, IsASeq, LenProperties
<1>4. \A i \in 1..n : rev[i] = L[n + 1 - i]
  OBVIOUS
<1> HIDE DEF m, rev, n, L, b
<1>5. b \in Seq(Ids) /\ Len(b) = m /\ \A i \in 1..m : b[i] = L[n + 1 - i]
  <2>1. \A i \in 1..m : rev[i] \in Ids
    BY <1>1, <1>3, ElementOfSeq
  <2>2. /\ SubSeq(rev, 1, m) \in Seq(Ids)
        /\ Len(SubSeq(rev, 1, m)) = IF 1 <= m THEN m - 1 + 1 ELSE 0
        /\ \A i \in 1..(m - 1 + 1) : SubSeq(rev, 1, m)[i] = rev[1 + i - 1]
    BY <1>1, <2>1, SubSeqProperties
  <2>3. (IF 1 <= m THEN m - 1 + 1 ELSE 0) = m /\ m - 1 + 1 = m
    BY <1>1
  <2>4. \A i \in 1..m : 1 + i - 1 = i /\ i \in 1..n
    BY <1>1
  <2>5. Len(b) = m
    BY <1>2, <2>2, <2>3
  <2>6. \A i \in 1..m : b[i] = rev[i]
    BY <1>2, <2>2, <2>3, <2>4
  <2> QED
    BY <1>2, <1>4, <2>2, <2>4, <2>5, <2>6
<1>6. r = SubSeq(L, 1, n - m)
  BY <1>5 DEF Remaining, L, n, b
<1>7. PICK k \in Nat : k = n - m
  BY <1>1
<1> HIDE DEF r
<1>8. r \in Seq(Ids) /\ Len(r) = k /\ \A i \in 1..k : r[i] = L[i]
  <2>1. \A i \in 1..k : L[i] \in Ids /\ i \in 1..n
    BY <1>1, <1>7
  <2>2. /\ SubSeq(L, 1, k) \in Seq(Ids)
        /\ Len(SubSeq(L, 1, k)) = IF 1 <= k THEN k - 1 + 1 ELSE 0
        /\ \A i \in 1..(k - 1 + 1) : SubSeq(L, 1, k)[i] = L[1 + i - 1]
    BY <2>1, SubSeqProperties
  <2>3. (IF 1 <= k THEN k - 1 + 1 ELSE 0) = k /\ k - 1 + 1 = k
    OBVIOUS
  <2>4. \A i \in 1..k : 1 + i - 1 = i
    OBVIOUS
  <2>5. r = SubSeq(L, 1, k)
    BY <1>6, <1>7
  <2>6. Len(r) = k
    BY <2>2, <2>3, <2>5
  <2> QED
    BY <2>2, <2>3, <2>4, <2>5, <2>6
<1>9. /\ \A i \in 1..m : n + 1 - i \in (k + 1)..n /\ n + 1 - i \in 1..n
      /\ \A i \in 1..k : i \in 1..n
      /\ \A j \in 1..n : j \in 1..k \/ (n + 1 - j \in 1..m /\ n + 1 - (n + 1 - j) = j)
  BY <1>1, <1>7
<1>10. SeqOf(L) = SeqOf(b) \cup SeqOf(r)
  <2>1. /\ \A x : x \in SeqOf(L) <=> \E j \in 1..n : L[j] = x
        /\ \A x : x \in SeqOf(b) <=> \E i \in 1..m : b[i] = x
        /\ \A x : x \in SeqOf(r) <=> \E i \in 1..k : r[i] = x
    BY <1>5, <1>8 DEF SeqOf, n
  <2>2. ASSUME NEW x PROVE x \in SeqOf(b) \/ x \in SeqOf(r) => x \in SeqOf(L)
    <3>1. ASSUME x \in SeqOf(b) PROVE x \in SeqOf(L)
      <4>1. PICK i \in 1..m : b[i] = x
        BY <2>1, <3>1
      <4> QED
        BY <1>5, <1>9, <2>1, <4>1
    <3>2. ASSUME x \in SeqOf(r) PROVE x \in SeqOf(L)
      <4>1. PICK i \in 1..k : r[i] = x
        BY <2>1, <3>2
      <4> QED
        BY <1>8, <1>9, <2>1, <4>1
    <3> QED
      BY <3>1, <3>2
  <2>3. ASSUME NEW x PROVE x \in SeqOf(L) => x \in SeqOf(b) \/ x \in SeqOf(r)
    <3> SUFFICES ASSUME x \in SeqOf(L) PROVE x \in SeqOf(b) \/ x \in SeqOf(r)
      OBVIOUS
    <3>1. PICK j \in 1..n : L[j] = x
      BY <2>1
    <3>2. CASE j \in 1..k
      BY <1>8, <2>1, <3>1, <3>2
    <3>3. CASE n + 1 - j \in 1..m /\ n + 1 - (n + 1 - j) = j
      BY <1>5, <2>1, <3>1, <3>3
    <3> QED
      BY <1>9, <3>2, <3>3
  <2> QED
    BY <2>2, <2>3
<1>11. ASSUME Injective(L)
       PROVE  Injective(b) /\ Injective(r) /\ SeqOf(b) \cap SeqOf(r) = {}
  <2>1. \A i, j \in 1..n : L[i] = L[j] => i = j
    BY <1>11 DEF Injective, n
  <2>2. Injective(b)
    <3> SUFFICES ASSUME NEW i \in 1..m, NEW j \in 1..m, b[i] = b[j] PROVE i = j
      BY <1>5 DEF Injective
    <3>1. n + 1 - i = n + 1 - j
      BY <1>5, <1>9, <2>1
    <3> QED
      BY <1>1, <3>1
  <2>3. Injective(r)
    BY <1>8, <1>9, <2>1 DEF Injective
  <2>4. ASSUME NEW x \in SeqOf(b), x \in SeqOf(r) PROVE FALSE
    <3>1. PICK i \in 1..m : b[i] = x
      BY <1>5 DEF SeqOf
    <3>2. PICK j \in 1..k : r[j] = x
      BY <1>8, <2>4 DEF SeqOf
    <3>3. n + 1 - i = j
      BY <1>5, <1>8, <1>9, <2>1, <3>1, <3>2
    <3>4. n + 1 - i \in (k + 1)..n
      BY <1>9
    <3> QED
      BY <3>3, <3>4
  <2> QED
    BY <2>2, <2>3, <2>4
<1> QED
  BY <1>5, <1>8, <1>10, <1>11 DEF b, r, L

\* A factory answers for the pairs it stores with the exchanges it stores them
\* for, and for those it had already as before.
LEMMA StoredFacts ==
  ASSUME NEW f \in Factories, address[f] \in [Pairs -> Nat], NEW pairs \in Seq(Pairs),
         NEW xs \in Seq(Ids), Len(pairs) = Len(xs), CanStore(f, pairs)
  PROVE  /\ Stored(f, pairs, xs) \in [Pairs -> Nat]
         /\ \A i \in 1..Len(xs) : Stored(f, pairs, xs)[pairs[i]] = xs[i]
         /\ \A p \in Pairs :
              address[f][p] # NoExchange => Stored(f, pairs, xs)[p] = address[f][p]
<1> DEFINE n == Len(xs)
           at(p) == CHOOSE i \in 1..n : pairs[i] = p
           S == Stored(f, pairs, xs)
<1>1. n \in Nat /\ \A i \in 1..n : xs[i] \in Ids /\ pairs[i] \in Pairs
  BY LenProperties, ElementOfSeq
<1>2. /\ \A i \in 1..n : address[f][pairs[i]] = NoExchange
      /\ \A i, j \in 1..n : pairs[i] = pairs[j] => i = j
  BY DEF CanStore
<1>3. \A i \in 1..n : at(pairs[i]) = i
  BY <1>2
<1>4. \A p : p \in SeqOf(pairs) <=> \E i \in 1..n : pairs[i] = p
  BY DEF SeqOf
<1>5. S = [p \in Pairs |-> IF p \in SeqOf(pairs) THEN xs[at(p)] ELSE address[f][p]]
  BY DEF Stored
<1> HIDE DEF at, S, n
<1>6. \A p \in Pairs : p \in SeqOf(pairs) =>
        \E i \in 1..n : p = pairs[i] /\ S[p] = xs[i]
  BY <1>3, <1>4, <1>5
<1>7. \A p \in Pairs : p \notin SeqOf(pairs) => S[p] = address[f][p]
  BY <1>5
<1>8. \A p \in Pairs : S[p] \in Nat
  BY <1>1, <1>6, <1>7 DEF Ids
<1>9. S \in [Pairs -> Nat]
  BY <1>5, <1>8
<1>10. \A i \in 1..n : S[pairs[i]] = xs[i]
  BY <1>1, <1>3, <1>4, <1>5
<1>11. \A p \in Pairs : address[f][p] # NoExchange => S[p] = address[f][p]
  BY <1>2, <1>4, <1>7
<1> QED
  BY <1>9, <1>10, <1>11 DEF S, n

-----------------------------------------------------------------------------
(* Who lists what.                                                         *)

\* That no exchange is listed twice, list by list.
Apart ==
  /\ \A f \in Factories : Injective(listed[f])
  /\ \A f, g \in Factories : f # g => SeqOf(listed[f]) \cap SeqOf(listed[g]) = {}

Answers ==
  \A f \in Factories : \A x \in SeqOf(listed[f]) : address[f][exchange[x].pair] = x

LEMMA OnceIsApart == ListedOnce <=> TypeOK /\ Apart /\ Answers
<1>1. ASSUME ListedOnce PROVE TypeOK /\ Apart /\ Answers
  <2>1. \A f \in Factories : Injective(listed[f])
    BY <1>1 DEF ListedOnce, Injective
  <2>2. \A f, g \in Factories : f # g => SeqOf(listed[f]) \cap SeqOf(listed[g]) = {}
    BY <1>1 DEF ListedOnce, SeqOf
  <2> QED
    BY <1>1, <2>1, <2>2 DEF ListedOnce, Apart, Answers
<1>2. ASSUME TypeOK, Apart, Answers PROVE ListedOnce
  <2> SUFFICES ASSUME NEW f \in Factories, NEW g \in Factories,
                      NEW i \in 1..Len(listed[f]), NEW j \in 1..Len(listed[g]),
                      listed[f][i] = listed[g][j]
               PROVE  f = g /\ i = j
    BY <1>2 DEF ListedOnce, Answers
  <2>1. listed[f][i] \in SeqOf(listed[f]) /\ listed[g][j] \in SeqOf(listed[g])
    BY DEF SeqOf
  <2>2. f = g
    BY <1>2, <2>1 DEF Apart
  <2> QED
    BY <1>2, <2>2 DEF Apart, Injective
<1> QED
  BY <1>1, <1>2

LEMMA FactoryFacts ==
  ASSUME FactoryInv
  PROVE  /\ TypeOK /\ Apart /\ Answers /\ ListedExist
         /\ ListedObeyTheirFactory /\ ListedUnlessSkipped
         /\ \A f \in Factories : /\ listed[f] \in Seq(Ids)
                                 /\ address[f] \in [Pairs -> Nat]
         /\ Len(exchange) \in Nat
         /\ \A x \in Exchanges : /\ exchange[x] \in [pair: Pairs, factory: Factories]
                                 /\ exchange[x].pair \in Pairs
                                 /\ x \in Ids
<1>1. TypeOK /\ Apart /\ Answers
  BY OnceIsApart DEF FactoryInv
<1>2. Len(exchange) \in Nat
      /\ \A x \in Exchanges : exchange[x] \in [pair: Pairs, factory: Factories]
  BY <1>1, LenProperties, ElementOfSeq DEF TypeOK, Exchanges
<1>3. \A x \in Exchanges : exchange[x].pair \in Pairs /\ x \in Ids
  BY <1>2 DEF Exchanges, Ids
<1> QED
  BY <1>1, <1>2, <1>3 DEF FactoryInv, TypeOK, Ids

-----------------------------------------------------------------------------
(* One lemma per action.                                                   *)

\* What a list holds after an exchange is added at its end.
LEMMA Appended ==
  ASSUME NEW s \in Seq(Ids), NEW x \in Ids
  PROVE  /\ Append(s, x) \in Seq(Ids)
         /\ SeqOf(Append(s, x)) = SeqOf(s) \cup {x}
         /\ Injective(s) /\ x \notin SeqOf(s) => Injective(Append(s, x))
<1> DEFINE t == Append(s, x)
           l == Len(s)
<1>1. /\ l \in Nat /\ t \in Seq(Ids) /\ Len(t) = l + 1
      /\ \A m \in 1..l : t[m] = s[m]
      /\ t[l + 1] = x
  BY LenProperties, AppendProperties
<1> HIDE DEF t
<1>2. /\ \A m \in 1..(l + 1) : m = l + 1 \/ m \in 1..l
      /\ \A m \in 1..l : m \in 1..(l + 1)
      /\ l + 1 \in 1..(l + 1)
  BY <1>1
<1>3. /\ \A y : y \in SeqOf(t) <=> \E m \in 1..(l + 1) : t[m] = y
      /\ \A y : y \in SeqOf(s) <=> \E m \in 1..l : s[m] = y
  BY <1>1 DEF SeqOf
<1> HIDE DEF l
<1>4. ASSUME NEW y PROVE y \in SeqOf(t) => y \in SeqOf(s) \cup {x}
  BY <1>1, <1>2, <1>3
<1>5. ASSUME NEW y PROVE y \in SeqOf(s) \cup {x} => y \in SeqOf(t)
  BY <1>1, <1>2, <1>3
<1>6. ASSUME Injective(s), x \notin SeqOf(s) PROVE Injective(t)
  BY <1>1, <1>2, <1>3, <1>6 DEF Injective, l
<1> QED
  BY <1>1, <1>4, <1>5, <1>6 DEF t

\* What a list holds after a batch is added at its end.
LEMMA Joined ==
  ASSUME NEW s \in Seq(Ids), NEW t \in Seq(Ids)
  PROVE  /\ s \o t \in Seq(Ids)
         /\ SeqOf(s \o t) = SeqOf(s) \cup SeqOf(t)
         /\ Injective(s) /\ Injective(t) /\ SeqOf(s) \cap SeqOf(t) = {}
              => Injective(s \o t)
<1> DEFINE u == s \o t
           m == Len(s)
           n == Len(t)
<1>1. /\ m \in Nat /\ n \in Nat /\ u \in Seq(Ids) /\ Len(u) = m + n
      /\ \A i \in 1..m + n : u[i] = IF i <= m THEN s[i] ELSE t[i - m]
  BY LenProperties, ConcatProperties
<1> HIDE DEF u
<1>2. /\ \A i \in 1..(m + n) : i \in 1..m \/ \E j \in 1..n : i = m + j
      /\ \A i \in 1..m : i \in 1..(m + n) /\ i <= m
      /\ \A j \in 1..n : m + j \in 1..(m + n) /\ ~(m + j <= m) /\ m + j - m = j
  <2>1. ASSUME NEW i \in 1..(m + n), i \notin 1..m PROVE \E j \in 1..n : i = m + j
    <3>1. i - m \in 1..n /\ i = m + (i - m)
      BY <1>1, <2>1
    <3> QED
      BY <3>1
  <2> QED
    BY <1>1, <2>1
<1>3. /\ \A i \in 1..m : u[i] = s[i]
      /\ \A j \in 1..n : u[m + j] = t[j]
  <2>1. ASSUME NEW i \in 1..m PROVE u[i] = s[i]
    <3>1. i \in 1..(m + n) /\ i <= m
      BY <1>2
    <3> QED
      BY <1>1, <3>1
  <2>2. ASSUME NEW j \in 1..n PROVE u[m + j] = t[j]
    <3>1. m + j \in 1..(m + n) /\ ~(m + j <= m) /\ m + j - m = j
      BY <1>2
    <3>2. u[m + j] = IF m + j <= m THEN s[m + j] ELSE t[m + j - m]
      BY <1>1, <3>1
    <3> QED
      BY <3>1, <3>2
  <2> QED
    BY <2>1, <2>2
<1>4. /\ \A y : y \in SeqOf(u) <=> \E i \in 1..(m + n) : u[i] = y
      /\ \A y : y \in SeqOf(s) <=> \E i \in 1..m : s[i] = y
      /\ \A y : y \in SeqOf(t) <=> \E j \in 1..n : t[j] = y
  BY <1>1 DEF SeqOf
<1> HIDE DEF m, n
<1>5. ASSUME NEW y PROVE y \in SeqOf(u) => y \in SeqOf(s) \cup SeqOf(t)
  <2> SUFFICES ASSUME y \in SeqOf(u) PROVE y \in SeqOf(s) \cup SeqOf(t)
    OBVIOUS
  <2>1. PICK i \in 1..(m + n) : u[i] = y
    BY <1>4
  <2>2. CASE i \in 1..m
    BY <1>3, <1>4, <2>1, <2>2
  <2>3. CASE i \notin 1..m
    <3>1. PICK j \in 1..n : i = m + j
      BY <1>2, <2>3
    <3> QED
      BY <1>3, <1>4, <2>1, <3>1
  <2> QED
    BY <2>2, <2>3
<1>6. ASSUME NEW y PROVE y \in SeqOf(s) \cup SeqOf(t) => y \in SeqOf(u)
  <2>1. ASSUME y \in SeqOf(s) PROVE y \in SeqOf(u)
    <3>1. PICK i \in 1..m : s[i] = y
      BY <1>4, <2>1
    <3> QED
      BY <1>2, <1>3, <1>4, <3>1
  <2>2. ASSUME y \in SeqOf(t) PROVE y \in SeqOf(u)
    <3>1. PICK j \in 1..n : t[j] = y
      BY <1>4, <2>2
    <3>2. m + j \in 1..(m + n) /\ u[m + j] = y
      BY <1>2, <1>3, <3>1
    <3> QED
      BY <1>4, <3>2
  <2> QED
    BY <2>1, <2>2
<1>7. ASSUME Injective(s), Injective(t), SeqOf(s) \cap SeqOf(t) = {}
      PROVE  Injective(u)
  <2> SUFFICES ASSUME NEW a \in 1..(m + n), NEW b \in 1..(m + n), u[a] = u[b]
               PROVE  a = b
    BY <1>1 DEF Injective
  <2>1. ASSUME NEW i \in 1..(m + n), i \notin 1..m
        PROVE  \E j \in 1..n : i = m + j /\ u[i] = t[j] /\ u[i] \in SeqOf(t)
    <3>1. PICK j \in 1..n : i = m + j
      BY <1>2, <2>1
    <3> QED
      BY <1>3, <1>4, <3>1
  <2>2. \A i \in 1..m : u[i] = s[i] /\ u[i] \in SeqOf(s)
    BY <1>3, <1>4
  <2>3. CASE a \in 1..m /\ b \in 1..m
    BY <1>7, <2>2, <2>3 DEF Injective, m
  <2>4. CASE a \in 1..m /\ b \notin 1..m
    BY <1>7, <2>1, <2>2, <2>4
  <2>5. CASE a \notin 1..m /\ b \in 1..m
    BY <1>7, <2>1, <2>2, <2>5
  <2>6. CASE a \notin 1..m /\ b \notin 1..m
    <3>1. PICK i \in 1..n : a = m + i /\ u[a] = t[i]
      BY <2>1, <2>6
    <3>2. PICK j \in 1..n : b = m + j /\ u[b] = t[j]
      BY <2>1, <2>6
    <3>3. i = j
      BY <1>7, <3>1, <3>2 DEF Injective, n
    <3> QED
      BY <3>1, <3>2, <3>3
  <2> QED
    BY <2>3, <2>4, <2>5, <2>6
<1> QED
  BY <1>1, <1>5, <1>6, <1>7 DEF u, m, n

\* The new exchange is the factory's only one for its pair: it is listed by it
\* alone, and it asks it.
LEMMA CreateKeeps ==
  ASSUME FactoryInv, NEW f \in Factories, NEW p \in Pairs, CreateExchange(f, p)
  PROVE  FactoryInv'
<1> DEFINE n == Len(exchange)
           x == n + 1
<1>1. /\ TypeOK /\ Apart /\ Answers /\ ListedExist
      /\ ListedObeyTheirFactory /\ ListedUnlessSkipped
      /\ \A g \in Factories : /\ listed[g] \in Seq(Ids)
                              /\ address[g] \in [Pairs -> Nat]
      /\ n \in Nat
      /\ \A y \in Exchanges : exchange[y].pair \in Pairs
  BY FactoryFacts
<1>2. /\ CanStore(f, <<p>>)
      /\ exchange' = Append(exchange, [pair |-> p, factory |-> f])
      /\ listed' = [listed EXCEPT ![f] = Append(@, x)]
      /\ address' = [address EXCEPT ![f] = Stored(f, <<p>>, <<x>>)]
      /\ UNCHANGED <<status, migration, skipped>>
  BY DEF CreateExchange
<1>3. x \in Ids /\ x \notin Exchanges
  BY <1>1 DEF Ids, Exchanges
<1>4. /\ exchange' \in Seq([pair: Pairs, factory: Factories])
      /\ Exchanges' = Exchanges \cup {x}
      /\ \A y \in Exchanges : exchange'[y] = exchange[y]
      /\ exchange'[x] = [pair |-> p, factory |-> f]
  <2>1. /\ exchange' \in Seq([pair: Pairs, factory: Factories])
        /\ Len(exchange') = n + 1
        /\ \A y \in 1..n : exchange'[y] = exchange[y]
        /\ exchange'[n + 1] = [pair |-> p, factory |-> f]
    BY <1>1, <1>2, AppendProperties DEF TypeOK
  <2> QED
    BY <1>1, <2>1 DEF Exchanges
<1> HIDE DEF x
<1>5. /\ listed' \in [Factories -> Seq(Ids)]
      /\ \A g \in Factories : g # f => listed'[g] = listed[g]
      /\ SeqOf(listed'[f]) = SeqOf(listed[f]) \cup {x}
      /\ Injective(listed'[f])
  <2>1. listed'[f] = Append(listed[f], x)
        /\ \A g \in Factories : g # f => listed'[g] = listed[g]
    BY <1>1, <1>2 DEF TypeOK
  <2>2. x \notin SeqOf(listed[f]) /\ Injective(listed[f])
    BY <1>1, <1>3 DEF ListedExist, Apart
  <2>3. /\ Append(listed[f], x) \in Seq(Ids)
        /\ SeqOf(Append(listed[f], x)) = SeqOf(listed[f]) \cup {x}
        /\ Injective(Append(listed[f], x))
    BY <1>1, <1>3, <2>2, Appended
  <2> QED
    BY <1>1, <1>2, <2>1, <2>3 DEF TypeOK
<1>6. /\ address' \in [Factories -> [Pairs -> Nat]]
      /\ \A g \in Factories : g # f => address'[g] = address[g]
      /\ address'[f][p] = x
      /\ \A q \in Pairs : address[f][q] # NoExchange => address'[f][q] = address[f][q]
  <2>1. <<p>> \in Seq(Pairs) /\ <<x>> \in Seq(Ids) /\ Len(<<p>>) = 1 /\ Len(<<x>>) = 1
        /\ <<p>>[1] = p /\ <<x>>[1] = x
    BY <1>3
  <2>2. /\ Stored(f, <<p>>, <<x>>) \in [Pairs -> Nat]
        /\ \A i \in 1..Len(<<x>>) : Stored(f, <<p>>, <<x>>)[<<p>>[i]] = <<x>>[i]
        /\ \A q \in Pairs :
             address[f][q] # NoExchange => Stored(f, <<p>>, <<x>>)[q] = address[f][q]
    BY <1>1, <1>2, <2>1, StoredFacts
  <2>3. Stored(f, <<p>>, <<x>>)[p] = x
    <3>1. 1 \in 1..Len(<<x>>)
      BY <2>1
    <3> QED
      BY <2>1, <2>2, <3>1
  <2> QED
    BY <1>1, <1>2, <2>2, <2>3 DEF TypeOK
<1>7. TypeOK'
  BY <1>1, <1>2, <1>4, <1>5, <1>6 DEF TypeOK, Ids
<1>8. ListedExist'
  <2> SUFFICES ASSUME NEW g \in Factories PROVE SeqOf(listed'[g]) \subseteq Exchanges'
    BY DEF ListedExist
  <2> QED
    BY <1>1, <1>4, <1>5 DEF ListedExist
<1>9. Apart'
  <2>1. \A g \in Factories : Injective(listed'[g])
    BY <1>1, <1>5 DEF Apart
  <2>2. ASSUME NEW g \in Factories, NEW h \in Factories, g # h
        PROVE  SeqOf(listed'[g]) \cap SeqOf(listed'[h]) = {}
    <3>1. SeqOf(listed[g]) \cap SeqOf(listed[h]) = {}
          /\ x \notin SeqOf(listed[g]) /\ x \notin SeqOf(listed[h])
      BY <1>1, <1>3, <2>2 DEF Apart, ListedExist
    <3> QED
      BY <1>5, <2>2, <3>1
  <2> QED
    BY <2>1, <2>2 DEF Apart
<1>10. Answers'
  <2> SUFFICES ASSUME NEW g \in Factories, NEW y \in SeqOf(listed'[g])
               PROVE  address'[g][exchange'[y].pair] = y
    BY DEF Answers
  <2>1. CASE g = f /\ y = x
    BY <1>4, <1>6, <2>1
  <2>2. CASE y \in SeqOf(listed[g])
    <3>1. y \in Exchanges /\ y # NoExchange /\ exchange'[y] = exchange[y]
          /\ address[g][exchange[y].pair] = y
      BY <1>1, <1>4, <2>2 DEF ListedExist, Answers, Exchanges, NoExchange
    <3> QED
      BY <1>1, <1>6, <3>1
  <2> QED
    BY <1>5, <2>1, <2>2
<1>11. ListedObeyTheirFactory'
  <2> SUFFICES ASSUME NEW g \in Factories, NEW y \in SeqOf(listed'[g])
               PROVE  exchange'[y].factory = g
    BY DEF ListedObeyTheirFactory
  <2>1. CASE g = f /\ y = x
    BY <1>4, <2>1
  <2>2. CASE y \in SeqOf(listed[g])
    BY <1>1, <1>4, <2>2 DEF ListedExist, ListedObeyTheirFactory
  <2> QED
    BY <1>5, <2>1, <2>2
<1>12. ListedUnlessSkipped'
  <2> SUFFICES ASSUME NEW y \in Exchanges', y \notin skipped'
               PROVE  \E g \in Factories : y \in SeqOf(listed'[g])
    BY DEF ListedUnlessSkipped
  <2>1. CASE y = x
    BY <1>5, <2>1
  <2>2. CASE y \in Exchanges
    BY <1>1, <1>2, <1>5, <2>2 DEF ListedUnlessSkipped
  <2> QED
    BY <1>4, <2>1, <2>2
<1> QED
  BY <1>7, <1>8, <1>9, <1>10, <1>11, <1>12, OnceIsApart, PTL DEF FactoryInv

\* Naming where exchanges come from, or a status, moves none of them.
LEMMA SettingKeeps ==
  ASSUME FactoryInv,
         \/ \E f, from \in Factories : SetMigrationAddress(f, from)
         \/ \E f \in Factories, level \in Levels : SetStatus(f, level)
         \/ UNCHANGED vars
  PROVE  FactoryInv'
<1>1. UNCHANGED <<exchange, listed, address, skipped>>
  BY DEF SetMigrationAddress, SetStatus, vars
<1>2. status' \in [Factories -> Levels] /\ migration' \in [Factories -> Factories \cup {Nobody}]
  BY FactoryFacts DEF SetMigrationAddress, SetStatus, vars, TypeOK
<1>3. TypeOK /\ ListedOnce /\ ListedExist /\ ListedObeyTheirFactory /\ ListedUnlessSkipped
  BY FactoryFacts DEF FactoryInv
<1>4. TypeOK'
  BY <1>1, <1>2, <1>3 DEF TypeOK, Exchanges
<1>5. ListedOnce'
  BY <1>1, <1>3, <1>4 DEF ListedOnce
<1> QED
  BY <1>1, <1>3, <1>5
     DEF FactoryInv, ListedExist, ListedObeyTheirFactory, ListedUnlessSkipped, Exchanges

\* f hands `sent' over to g, and `left' stays.
HandsOver(f, g, sent, left) ==
  /\ f # g
  /\ listed' = [listed EXCEPT ![f] = left, ![g] = listed[g] \o sent]
  /\ exchange' = FactoryChanged(SeqOf(sent), g)
  /\ SeqOf(sent) \cup SeqOf(left) \subseteq SeqOf(listed[f])
  /\ SeqOf(sent) \cap SeqOf(left) = {}
  /\ SeqOf(listed[f]) \subseteq SeqOf(sent) \cup SeqOf(left) \cup skipped'
  /\ skipped \subseteq skipped' /\ skipped' \subseteq skipped \cup SeqOf(listed[f])
  /\ Injective(sent) /\ Injective(left)
  /\ address' \in [Factories -> [Pairs -> Nat]]
  /\ \A h \in Factories : h # g => address'[h] = address[h]
  /\ \A x \in SeqOf(sent) : address'[g][exchange[x].pair] = x
  /\ \A q \in Pairs : address[g][q] # NoExchange => address'[g][q] = address[g][q]
  /\ status' = [status EXCEPT ![f] = "Migrating"]
  /\ migration' \in [Factories -> Factories \cup {Nobody}]

\* A hand-over, list by list: what f had is now g's, left to f, or left out, and
\* nothing of f's or g's is in two of these.
LEMMA TransferFacts ==
  ASSUME FactoryInv, NEW f \in Factories, NEW g \in Factories, NEW skip,
         TransferExchanges(f, g, skip)
  PROVE  \E sent, left \in Seq(Ids) : HandsOver(f, g, sent, left)
<1> DEFINE sent == Without(Batch(f), skip)
           left == Remaining(f, skip)
           pairs == [i \in 1..Len(sent) |-> exchange[sent[i]].pair]
<1>1. /\ TypeOK /\ Apart /\ ListedExist
      /\ \A h \in Factories : /\ listed[h] \in Seq(Ids)
                              /\ address[h] \in [Pairs -> Nat]
      /\ \A y \in Exchanges : exchange[y].pair \in Pairs
  BY FactoryFacts
<1>2. /\ f # g
      /\ CanStore(g, pairs)
      /\ status' = [status EXCEPT ![f] = "Migrating"]
      /\ exchange' = FactoryChanged(SeqOf(sent), g)
      /\ listed' = [listed EXCEPT ![f] = left, ![g] = @ \o sent]
      /\ address' = [address EXCEPT ![g] = Stored(g, pairs, sent)]
      /\ migration' = [migration EXCEPT ![g] = IF left = <<>> THEN Nobody ELSE @]
      /\ skipped' = skipped \cup (SeqOf(Batch(f)) \cap skip)
  BY DEF TransferExchanges
<1>3. /\ Batch(f) \in Seq(Ids) /\ left \in Seq(Ids)
      /\ SeqOf(listed[f]) = SeqOf(Batch(f)) \cup SeqOf(left)
      /\ Injective(Batch(f)) /\ Injective(left)
      /\ SeqOf(Batch(f)) \cap SeqOf(left) = {}
  <2>1. Injective(listed[f])
    BY <1>1 DEF Apart
  <2> QED
    BY <1>1, <2>1, BatchFacts
<1>4. /\ sent \in Seq(Ids)
      /\ SeqOf(sent) = SeqOf(Batch(f)) \ skip
      /\ Injective(sent)
  BY <1>3, UnskippedFacts
<1>5. /\ Len(sent) \in Nat
      /\ \A i \in 1..Len(sent) : sent[i] \in SeqOf(sent) /\ exchange[sent[i]].pair \in Pairs
  <2>1. Len(sent) \in Nat
    BY <1>4, LenProperties
  <2>2. \A i \in 1..Len(sent) : sent[i] \in SeqOf(sent)
    BY DEF SeqOf
  <2>3. SeqOf(sent) \subseteq Exchanges
    BY <1>1, <1>3, <1>4 DEF ListedExist
  <2> QED
    BY <1>1, <2>1, <2>2, <2>3
<1> HIDE DEF sent, left
<1>6. pairs \in Seq(Pairs) /\ Len(pairs) = Len(sent)
      /\ \A i \in 1..Len(sent) : pairs[i] = exchange[sent[i]].pair
  <2>1. pairs \in [1..Len(sent) -> Pairs]
    BY <1>5
  <2>2. \A i \in 1..Len(sent) : pairs[i] = exchange[sent[i]].pair
    OBVIOUS
  <2> HIDE DEF pairs
  <2>3. pairs \in Seq(Pairs) /\ DOMAIN pairs = 1..Len(sent)
    BY <1>5, <2>1, IsASeq
  <2> QED
    BY <1>5, <2>2, <2>3, LenProperties
<1> HIDE DEF pairs
<1>7. /\ Stored(g, pairs, sent) \in [Pairs -> Nat]
      /\ \A i \in 1..Len(sent) : Stored(g, pairs, sent)[pairs[i]] = sent[i]
      /\ \A q \in Pairs :
           address[g][q] # NoExchange => Stored(g, pairs, sent)[q] = address[g][q]
  BY <1>1, <1>2, <1>4, <1>6, StoredFacts
<1>8. /\ address' \in [Factories -> [Pairs -> Nat]]
      /\ \A h \in Factories : h # g => address'[h] = address[h]
      /\ address'[g] = Stored(g, pairs, sent)
  BY <1>1, <1>2, <1>7 DEF TypeOK
<1>9. \A x \in SeqOf(sent) : address'[g][exchange[x].pair] = x
  <2> SUFFICES ASSUME NEW x \in SeqOf(sent) PROVE address'[g][exchange[x].pair] = x
    OBVIOUS
  <2>1. PICK i \in 1..Len(sent) : sent[i] = x
    BY DEF SeqOf
  <2> QED
    BY <1>6, <1>7, <1>8, <2>1
<1>10. migration' \in [Factories -> Factories \cup {Nobody}]
  BY <1>1, <1>2 DEF TypeOK
<1>11. listed' = [listed EXCEPT ![f] = left, ![g] = listed[g] \o sent]
  BY <1>1, <1>2 DEF TypeOK
<1>12. /\ SeqOf(sent) \cup SeqOf(left) \subseteq SeqOf(listed[f])
       /\ SeqOf(sent) \cap SeqOf(left) = {}
       /\ SeqOf(listed[f]) \subseteq SeqOf(sent) \cup SeqOf(left) \cup skipped'
       /\ skipped \subseteq skipped' /\ skipped' \subseteq skipped \cup SeqOf(listed[f])
  BY <1>2, <1>3, <1>4
<1>13. \A q \in Pairs : address[g][q] # NoExchange => address'[g][q] = address[g][q]
  BY <1>7, <1>8
<1> QED
  BY <1>2, <1>3, <1>4, <1>8, <1>9, <1>10, <1>11, <1>12, <1>13 DEF HandsOver

\* What a factory hands over, the other lists, answers for and is asked by; what
\* it keeps, and what other factories list, is as it was.
LEMMA TransferKeeps ==
  ASSUME FactoryInv, NEW f \in Factories, NEW g \in Factories, NEW skip,
         TransferExchanges(f, g, skip)
  PROVE  FactoryInv'
<1>1. /\ TypeOK /\ Apart /\ Answers /\ ListedExist
      /\ ListedObeyTheirFactory /\ ListedUnlessSkipped
      /\ \A h \in Factories : /\ listed[h] \in Seq(Ids)
                              /\ address[h] \in [Pairs -> Nat]
      /\ Len(exchange) \in Nat
      /\ \A y \in Exchanges : /\ exchange[y] \in [pair: Pairs, factory: Factories]
                              /\ exchange[y].pair \in Pairs
                              /\ y \in Ids
  BY FactoryFacts
<1>2. PICK sent \in Seq(Ids), left \in Seq(Ids) : HandsOver(f, g, sent, left)
  BY TransferFacts
<1>3. /\ f # g
      /\ listed' = [listed EXCEPT ![f] = left, ![g] = listed[g] \o sent]
      /\ exchange' = FactoryChanged(SeqOf(sent), g)
      /\ SeqOf(sent) \cup SeqOf(left) \subseteq SeqOf(listed[f])
      /\ SeqOf(sent) \cap SeqOf(left) = {}
      /\ SeqOf(listed[f]) \subseteq SeqOf(sent) \cup SeqOf(left) \cup skipped'
      /\ skipped \subseteq skipped' /\ skipped' \subseteq skipped \cup SeqOf(listed[f])
      /\ Injective(sent) /\ Injective(left)
      /\ address' \in [Factories -> [Pairs -> Nat]]
      /\ \A h \in Factories : h # g => address'[h] = address[h]
      /\ \A x \in SeqOf(sent) : address'[g][exchange[x].pair] = x
      /\ \A q \in Pairs : address[g][q] # NoExchange => address'[g][q] = address[g][q]
      /\ status' = [status EXCEPT ![f] = "Migrating"]
      /\ migration' \in [Factories -> Factories \cup {Nobody}]
  BY <1>2 DEF HandsOver
<1>4. /\ exchange' \in Seq([pair: Pairs, factory: Factories])
      /\ Exchanges' = Exchanges
      /\ \A y \in Exchanges : exchange'[y].pair = exchange[y].pair
      /\ \A y \in Exchanges : y \in SeqOf(sent) => exchange'[y].factory = g
      /\ \A y \in Exchanges : y \notin SeqOf(sent) => exchange'[y] = exchange[y]
  <2>1. \A y \in Exchanges :
          [exchange[y] EXCEPT !.factory = g] \in [pair: Pairs, factory: Factories]
          /\ [exchange[y] EXCEPT !.factory = g].pair = exchange[y].pair
          /\ [exchange[y] EXCEPT !.factory = g].factory = g
    BY <1>1
  <2>2. exchange' \in [Exchanges -> [pair: Pairs, factory: Factories]]
        /\ \A y \in Exchanges : exchange'[y]
             = IF y \in SeqOf(sent) THEN [exchange[y] EXCEPT !.factory = g] ELSE exchange[y]
    BY <1>1, <1>3, <2>1 DEF FactoryChanged
  <2>3. exchange' \in Seq([pair: Pairs, factory: Factories])
    <3>1. Len(exchange) \in Nat
          /\ exchange' \in [1..Len(exchange) -> [pair: Pairs, factory: Factories]]
      BY <1>1, <2>2 DEF Exchanges
    <3>2. \A S : Seq(S) = UNION {[1..n -> S] : n \in Nat}
      BY SeqDef
    <3> DEFINE R == [pair: Pairs, factory: Factories]
               e == exchange'
               l == Len(exchange)
    <3>3. l \in Nat /\ e \in [1..l -> R]
      BY <3>1
    <3> HIDE DEF R, e, l
    <3>4. e \in Seq(R)
      BY <3>2, <3>3
    <3> QED
      BY <3>4 DEF R, e
  <2>4. Len(exchange') = Len(exchange)
    BY <1>1, <2>2, <2>3, LenProperties DEF Exchanges
  <2> QED
    BY <2>1, <2>2, <2>3, <2>4 DEF Exchanges
<1>5. /\ listed' \in [Factories -> Seq(Ids)]
      /\ \A h \in Factories : h # f /\ h # g => listed'[h] = listed[h]
      /\ SeqOf(listed'[f]) = SeqOf(left)
      /\ SeqOf(listed'[g]) = SeqOf(listed[g]) \cup SeqOf(sent)
      /\ Injective(listed'[f]) /\ Injective(listed'[g])
  <2>1. SeqOf(listed[g]) \cap SeqOf(sent) = {} /\ Injective(listed[g])
    BY <1>1, <1>3 DEF Apart
  <2>2. /\ listed[g] \o sent \in Seq(Ids)
        /\ SeqOf(listed[g] \o sent) = SeqOf(listed[g]) \cup SeqOf(sent)
        /\ Injective(listed[g] \o sent)
    BY <1>1, <1>3, <2>1, Joined
  <2>3. /\ listed' \in [Factories -> Seq(Ids)]
        /\ \A h \in Factories : h # f /\ h # g => listed'[h] = listed[h]
        /\ listed'[f] = left /\ listed'[g] = listed[g] \o sent
    BY <1>1, <1>3, <2>2 DEF TypeOK
  <2> QED
    BY <1>3, <2>2, <2>3
<1>6. SeqOf(sent) \subseteq Exchanges /\ SeqOf(left) \subseteq Exchanges
      /\ skipped' \subseteq Exchanges
  BY <1>1, <1>3 DEF ListedExist, TypeOK
<1>7. TypeOK'
  <2>1. listed' \in [Factories -> Seq(Nat \ {0})]
    BY <1>5 DEF Ids
  <2>2. status' \in [Factories -> Levels]
    BY <1>1, <1>3 DEF TypeOK, Levels
  <2> QED
    BY <1>3, <1>4, <1>6, <2>1, <2>2 DEF TypeOK
<1>8. ListedExist'
  <2> SUFFICES ASSUME NEW h \in Factories PROVE SeqOf(listed'[h]) \subseteq Exchanges'
    BY DEF ListedExist
  <2>1. CASE h = f
    BY <1>4, <1>5, <1>6, <2>1
  <2>2. CASE h = g
    BY <1>1, <1>4, <1>5, <1>6, <2>2 DEF ListedExist
  <2>3. CASE h # f /\ h # g
    BY <1>1, <1>4, <1>5, <2>3 DEF ListedExist
  <2> QED
    BY <2>1, <2>2, <2>3
<1>9. Apart'
  <2>1. \A h \in Factories : Injective(listed'[h])
    BY <1>1, <1>5 DEF Apart
  <2>2. ASSUME NEW h \in Factories, NEW k \in Factories, h # k
        PROVE  SeqOf(listed'[h]) \cap SeqOf(listed'[k]) = {}
    <3>1. \A a, b \in Factories : a # b => SeqOf(listed[a]) \cap SeqOf(listed[b]) = {}
      BY <1>1 DEF Apart
    <3>2. \A a \in Factories : a # f /\ a # g => SeqOf(listed'[a]) = SeqOf(listed[a])
      BY <1>5
    <3>3. CASE h = f /\ k = g
      BY <1>3, <1>5, <3>1, <3>3
    <3>4. CASE h = g /\ k = f
      BY <1>3, <1>5, <3>1, <3>4
    <3>5. CASE h = f /\ k # g
      BY <1>3, <1>5, <2>2, <3>1, <3>2, <3>5
    <3>6. CASE h = g /\ k # f
      BY <1>3, <1>5, <2>2, <3>1, <3>2, <3>6
    <3>7. CASE k = f /\ h # g
      BY <1>3, <1>5, <2>2, <3>1, <3>2, <3>7
    <3>8. CASE k = g /\ h # f
      BY <1>3, <1>5, <2>2, <3>1, <3>2, <3>8
    <3>9. CASE h # f /\ h # g /\ k # f /\ k # g
      BY <2>2, <3>1, <3>2, <3>9
    <3> QED
      BY <2>2, <3>3, <3>4, <3>5, <3>6, <3>7, <3>8, <3>9
  <2> QED
    BY <2>1, <2>2 DEF Apart
<1>10. Answers'
  <2> SUFFICES ASSUME NEW h \in Factories, NEW y \in SeqOf(listed'[h])
               PROVE  address'[h][exchange'[y].pair] = y
    BY DEF Answers
  <2>1. CASE h = g /\ y \in SeqOf(sent)
    BY <1>3, <1>4, <1>6, <2>1
  <2>2. CASE y \in SeqOf(listed[h])
    <3>1. y \in Exchanges /\ y # NoExchange /\ exchange'[y].pair = exchange[y].pair
          /\ address[h][exchange[y].pair] = y /\ exchange[y].pair \in Pairs
      BY <1>1, <1>4, <2>2 DEF ListedExist, Answers, Ids, NoExchange
    <3>2. CASE h = g
      BY <1>3, <3>1, <3>2
    <3>3. CASE h # g
      BY <1>3, <3>1, <3>3
    <3> QED
      BY <3>2, <3>3
  <2> QED
    BY <1>3, <1>5, <2>1, <2>2
<1>11. ListedObeyTheirFactory'
  <2> SUFFICES ASSUME NEW h \in Factories, NEW y \in SeqOf(listed'[h])
               PROVE  exchange'[y].factory = h
    BY DEF ListedObeyTheirFactory
  <2>1. CASE h = g /\ y \in SeqOf(sent)
    BY <1>4, <1>6, <2>1
  <2>2. CASE y \in SeqOf(listed[h]) /\ y \notin SeqOf(sent)
    BY <1>1, <1>4, <2>2 DEF ListedExist, ListedObeyTheirFactory
  <2>3. y \in SeqOf(sent) => h = g
    <3>1. \A a, b \in Factories : a # b => SeqOf(listed[a]) \cap SeqOf(listed[b]) = {}
      BY <1>1 DEF Apart
    <3>2. CASE h = f
      BY <1>3, <1>5, <3>2
    <3>3. CASE h # f /\ h # g
      BY <1>3, <1>5, <3>1, <3>3
    <3> QED
      BY <3>2, <3>3
  <2> QED
    BY <1>3, <1>5, <2>1, <2>2, <2>3
<1>12. ListedUnlessSkipped'
  <2> SUFFICES ASSUME NEW y \in Exchanges', y \notin skipped'
               PROVE  \E h \in Factories : y \in SeqOf(listed'[h])
    BY DEF ListedUnlessSkipped
  <2>1. PICK h \in Factories : y \in SeqOf(listed[h])
    BY <1>1, <1>3, <1>4 DEF ListedUnlessSkipped
  <2>2. CASE h = f
    BY <1>3, <1>5, <2>1, <2>2
  <2>3. CASE h = g
    BY <1>5, <2>1, <2>3
  <2>4. CASE h # f /\ h # g
    BY <1>5, <2>1, <2>4
  <2> QED
    BY <2>2, <2>3, <2>4
<1> QED
  BY <1>7, <1>8, <1>9, <1>10, <1>11, <1>12, OnceIsApart, PTL DEF FactoryInv

-----------------------------------------------------------------------------
(* The invariant, and what a step does to a factory that migrates.         *)

\* No exchange exists, so none is listed.
LEMMA FactoryInit == Init => FactoryInv
<1> SUFFICES ASSUME Init PROVE FactoryInv
  OBVIOUS
<1>1. /\ Len(exchange) = 0 /\ Exchanges = {}
      /\ \A f \in Factories : Len(listed[f]) = 0 /\ SeqOf(listed[f]) = {}
  BY DEF Init, Exchanges, SeqOf
<1>2. TypeOK
  BY FactoryAssumption DEF Init, TypeOK, Levels, NoExchange
<1>3. ListedOnce
  BY <1>1, <1>2 DEF ListedOnce
<1> QED
  BY <1>1, <1>3
     DEF FactoryInv, ListedExist, ListedObeyTheirFactory, ListedUnlessSkipped

\* Every transaction keeps the invariant.
LEMMA FactoryStep == FactoryInv /\ [Next]_vars => FactoryInv'
<1> SUFFICES ASSUME FactoryInv, [Next]_vars PROVE FactoryInv'
  OBVIOUS
<1>1. ASSUME NEW f \in Factories, NEW p \in Pairs, CreateExchange(f, p)
      PROVE  FactoryInv'
  BY <1>1, CreateKeeps
<1>2. ASSUME NEW f \in Factories, NEW g \in Factories, NEW skip \in SUBSET Exchanges,
             TransferExchanges(f, g, skip)
      PROVE  FactoryInv'
  BY <1>2, TransferKeeps
<1> QED
  BY <1>1, <1>2, SettingKeeps DEF Next

LEMMA FactoryInvHolds == Spec => []FactoryInv
<1> QED
  BY FactoryInit, FactoryStep, PTL DEF Spec

\* Whatever batches are sent on and whatever is left out, every exchange a factory
\* lists has that factory as its own: transfer_exchanges, change_factory and
\* receive_exchanges move the entry and the factory_info together.
THEOREM ListedObeyTheirFactoryHolds == Spec => []ListedObeyTheirFactory
<1>1. FactoryInv => ListedObeyTheirFactory
  BY DEF FactoryInv
<1> QED
  BY <1>1, FactoryInvHolds, PTL

\* No hand-over lists an exchange twice, and a factory answers for the pair of an
\* exchange it lists with that exchange: store_exchanges refuses a pair taken.
THEOREM ListedOnceHolds == Spec => []ListedOnce
<1>1. FactoryInv => ListedOnce
  BY DEF FactoryInv
<1> QED
  BY <1>1, FactoryInvHolds, PTL

\* An exchange that no factory lists was left out of a transfer by the admin: the
\* walk over the list, newest first and a batch at a time, loses none.
THEOREM ListedUnlessSkippedHolds == Spec => []ListedUnlessSkipped
<1>1. FactoryInv => ListedUnlessSkipped
  BY DEF FactoryInv
<1> QED
  BY <1>1, FactoryInvHolds, PTL

\* A migration is never reverted, and the list of a factory that migrates only
\* shrinks: it creates and receives no exchange.
THEOREM MigrationOnlyEmptiesHolds == Spec => MigrationOnlyEmpties
<1>1. ASSUME FactoryInv, [Next]_vars, NEW h \in Factories, status[h] = "Migrating"
      PROVE  status'[h] = "Migrating" /\ SeqOf(listed'[h]) \subseteq SeqOf(listed[h])
  <2>1. TypeOK
    BY <1>1, FactoryFacts
  <2>2. ASSUME NEW f \in Factories, NEW p \in Pairs, CreateExchange(f, p)
        PROVE  status'[h] = "Migrating" /\ SeqOf(listed'[h]) \subseteq SeqOf(listed[h])
    BY <1>1, <2>1, <2>2 DEF CreateExchange, Operational, TypeOK
  <2>3. ASSUME NEW f \in Factories, NEW from \in Factories, SetMigrationAddress(f, from)
        PROVE  status'[h] = "Migrating" /\ SeqOf(listed'[h]) \subseteq SeqOf(listed[h])
    BY <1>1, <2>3 DEF SetMigrationAddress
  <2>4. ASSUME NEW f \in Factories, NEW level \in Levels, SetStatus(f, level)
        PROVE  status'[h] = "Migrating" /\ SeqOf(listed'[h]) \subseteq SeqOf(listed[h])
    BY <1>1, <2>1, <2>4 DEF SetStatus, CanSetStatus, TypeOK
  <2>5. ASSUME NEW f \in Factories, NEW g \in Factories, NEW skip \in SUBSET Exchanges,
               TransferExchanges(f, g, skip)
        PROVE  status'[h] = "Migrating" /\ SeqOf(listed'[h]) \subseteq SeqOf(listed[h])
    <3>1. h # g
      BY <1>1, <2>5 DEF TransferExchanges, Operational
    <3>2. status'[h] = "Migrating"
      BY <1>1, <2>1, <2>5 DEF TransferExchanges, TypeOK
    <3>3. PICK sent \in Seq(Ids), left \in Seq(Ids) : HandsOver(f, g, sent, left)
      BY <1>1, <2>5, TransferFacts
    <3>4. /\ listed' = [listed EXCEPT ![f] = left, ![g] = listed[g] \o sent]
          /\ SeqOf(sent) \cup SeqOf(left) \subseteq SeqOf(listed[f])
      BY <3>3 DEF HandsOver
    <3> QED
      BY <2>1, <3>1, <3>2, <3>4 DEF TypeOK
  <2>6. CASE UNCHANGED vars
    BY <1>1, <2>6 DEF vars
  <2> QED
    BY <1>1, <2>2, <2>3, <2>4, <2>5, <2>6 DEF Next
<1>2. FactoryInv /\ [Next]_vars =>
        [\A f \in Factories :
           status[f] = "Migrating" =>
             /\ status'[f] = "Migrating"
             /\ SeqOf(listed'[f]) \subseteq SeqOf(listed[f])]_vars
  BY <1>1
<1> QED
  BY <1>2, FactoryInvHolds, PTL DEF Spec, MigrationOnlyEmpties
=============================================================================
