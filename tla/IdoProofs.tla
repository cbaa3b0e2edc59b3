----------------------------- MODULE IdoProofs -----------------------------
(***************************************************************************)
(* What the launchpad and a sale keep for every token, account, sale and   *)
(* amount: locks are backed and refunded, the draw's seats go to those who *)
(* have bonded, nobody buys more than was paid for, and every pre-lock can *)
(* be swapped.                                                             *)
(***************************************************************************)
EXTENDS Ido, SumsProofs

Types ==
  /\ sale \in Sales \cup {NoSale}
  /\ {pre_locked, bought, paid} \subseteq [Users -> Nat]

\* There is nothing to account for before there is a sale.
NothingBefore ==
  sale = NoSale => \A u \in Users : pre_locked[u] = 0 /\ bought[u] = 0 /\ paid[u] = 0

IInv == Types /\ NothingBefore /\ BoughtIsPaid

buyerVars == <<sale, pre_locked, bought, paid>>

-----------------------------------------------------------------------------
LEMMA SaleConstants ==
  /\ RateOne \in Nat /\ RateOne > 0
  /\ Payments \subseteq Nat
  /\ \A s \in Sales : s.rate \in Nat /\ s.max_allocation \in Nat
BY IdoAssumption

\* The conversion rounds down: what it gives is paid for at the rate.
LEMMA ConvertedIsPaid ==
  ASSUME NEW n \in Nat, sale \in Sales
  PROVE  ConvertToken(n) \in Nat /\ ConvertToken(n) * RateOne <= n * sale.rate
<1> DEFINE worth == n * sale.rate
<1>1. worth \in Nat
  BY SaleConstants
<1> HIDE DEF worth
<1>2. worth \div RateOne \in Nat /\ (worth \div RateOne) * RateOne <= worth
  <2>1. worth = (worth \div RateOne) * RateOne + (worth % RateOne)
    BY <1>1, SaleConstants, SMT
  <2>2. worth % RateOne \in Nat /\ worth \div RateOne \in Nat
    BY <1>1, SaleConstants, SMT
  <2>3. (worth \div RateOne) * RateOne \in Nat
    BY <2>2, SaleConstants
  <2>4. QED
    BY <1>1, <2>1, <2>2, <2>3
<1>3. ConvertToken(n) = worth \div RateOne
  BY DEF ConvertToken, worth
<1>4. QED
  BY <1>2, <1>3 DEF worth

LEMMA InitIInv == Init => IInv
<1> SUFFICES ASSUME Init PROVE IInv
  OBVIOUS
<1>1. /\ sale = NoSale
      /\ pre_locked = [u \in Users |-> 0] /\ bought = [u \in Users |-> 0]
      /\ paid = [u \in Users |-> 0]
  BY DEF Init
<1>2. QED
  BY <1>1 DEF IInv, Types, NothingBefore, BoughtIsPaid

LEMMA UnchangedKeepsIInv == ASSUME IInv, UNCHANGED buyerVars PROVE IInv'
BY DEF IInv, Types, NothingBefore, BoughtIsPaid, buyerVars

LEMMA InstantiateKeepsIInv == ASSUME IInv, NEW s \in Sales, Instantiate(s) PROVE IInv'
<1>1. /\ sale = NoSale /\ sale' = s
      /\ UNCHANGED <<pre_locked, bought, paid>>
  BY Zenon DEF Instantiate
<1>2. /\ Types'
      /\ \A u \in Users : pre_locked'[u] = 0 /\ bought'[u] = 0 /\ paid'[u] = 0
  BY <1>1 DEF IInv, Types, NothingBefore
<1>3. s.rate \in Nat /\ s.max_allocation \in Nat
  BY SaleConstants
<1>4. NothingBefore' /\ BoughtIsPaid'
  BY <1>1, <1>2, <1>3, SaleConstants DEF NothingBefore, BoughtIsPaid
<1>5. QED
  BY <1>2, <1>4 DEF IInv

\* What is pre-locked has been paid and buys nothing yet.
LEMMA PreLockKeepsIInv ==
  ASSUME IInv, NEW u \in Users, NEW n \in Payments, PreLock(u, n) PROVE IInv'
<1>1. /\ sale # NoSale /\ sale' = sale /\ bought' = bought
      /\ pre_locked' = [pre_locked EXCEPT ![u] = @ + n]
      /\ paid' = [paid EXCEPT ![u] = @ + n]
  BY DEF PreLock
<1>2. n \in Nat
  BY SaleConstants
<1>3. pre_locked \in [Users -> Nat] /\ bought \in [Users -> Nat] /\ paid \in [Users -> Nat]
  BY DEF IInv, Types
<1>4. pre_locked' \in [Users -> Nat] /\ paid' \in [Users -> Nat]
  BY <1>1, <1>2, <1>3
<1>5. Types' /\ NothingBefore'
  BY <1>1, <1>3, <1>4 DEF IInv, Types, NothingBefore
<1>6. ASSUME NEW v \in Users
      PROVE  paid'[v] - pre_locked'[v] = paid[v] - pre_locked[v]
  BY <1>1, <1>2, <1>3
<1>7. BoughtIsPaid'
  BY <1>1, <1>6 DEF IInv, BoughtIsPaid
<1>8. QED
  BY <1>5, <1>7 DEF IInv

\* A swap gives what the payment and the pre-lock are worth, and ends the pre-lock.
LEMMA SwapKeepsIInv ==
  ASSUME IInv, NEW u \in Users, NEW n \in Payments \cup {0}, Swap(u, n) PROVE IInv'
<1> DEFINE due == pre_locked[u] + n
           amount == ConvertToken(due)
<1>1. /\ sale # NoSale /\ sale' = sale
      /\ bought' = [bought EXCEPT ![u] = @ + amount]
      /\ pre_locked' = [pre_locked EXCEPT ![u] = 0]
      /\ paid' = [paid EXCEPT ![u] = @ + n]
      /\ bought[u] + amount <= sale.max_allocation
  BY DEF Swap, CanSwap, MintAmount, PreLockAfterSwap
<1>2. /\ pre_locked \in [Users -> Nat] /\ bought \in [Users -> Nat] /\ paid \in [Users -> Nat]
      /\ sale \in Sales /\ n \in Nat
  BY <1>1, SaleConstants DEF IInv, Types
<1>3. due \in Nat
  BY <1>2
<1>4. amount \in Nat /\ amount * RateOne <= due * sale.rate
  BY <1>2, <1>3, ConvertedIsPaid
<1> HIDE DEF amount
<1>5. /\ pre_locked' \in [Users -> Nat] /\ bought' \in [Users -> Nat]
      /\ paid' \in [Users -> Nat]
  BY <1>1, <1>2, <1>4
<1>6. Types' /\ NothingBefore'
  BY <1>1, <1>2, <1>5 DEF Types, NothingBefore
<1>7. bought'[u] * RateOne <= (paid'[u] - pre_locked'[u]) * sale.rate
  <2>1. bought[u] * RateOne <= (paid[u] - pre_locked[u]) * sale.rate
    BY <1>1 DEF IInv, BoughtIsPaid
  <2>2. sale.rate \in Nat /\ RateOne \in Nat
    BY <1>2, SaleConstants
  <2>3. /\ bought'[u] = bought[u] + amount
        /\ paid'[u] - pre_locked'[u] = (paid[u] - pre_locked[u]) + due
    BY <1>1, <1>2
  <2>4. (bought[u] + amount) * RateOne = bought[u] * RateOne + amount * RateOne
    BY <1>2, <1>4, <2>2
  <2>5. ((paid[u] - pre_locked[u]) + due) * sale.rate
          = (paid[u] - pre_locked[u]) * sale.rate + due * sale.rate
    BY <1>2, <1>3, <2>2
  <2>6. /\ bought[u] * RateOne \in Int /\ amount * RateOne \in Int
        /\ (paid[u] - pre_locked[u]) * sale.rate \in Int /\ due * sale.rate \in Int
    BY <1>2, <1>3, <1>4, <2>2
  <2>7. QED
    BY <1>4, <2>1, <2>3, <2>4, <2>5, <2>6
<1>8. bought'[u] <= sale.max_allocation
  BY <1>1, <1>2
<1>9. ASSUME NEW v \in Users, v # u
      PROVE  bought'[v] = bought[v] /\ paid'[v] = paid[v] /\ pre_locked'[v] = pre_locked[v]
  BY <1>1, <1>2, <1>9
<1>10. BoughtIsPaid'
  BY <1>1, <1>7, <1>8, <1>9 DEF IInv, BoughtIsPaid
<1>11. QED
  BY <1>6, <1>10 DEF IInv

LEMMA StepIInv == IInv /\ [Next]_vars => IInv'
<1> SUFFICES ASSUME IInv, [Next]_vars PROVE IInv'
  OBVIOUS
<1>1. CASE LaunchpadNext /\ UNCHANGED idoVars
  BY <1>1, UnchangedKeepsIInv DEF idoVars, accountVars, buyerVars
<1>2. ASSUME NEW list, AdminAddAddresses(list) PROVE IInv'
  BY <1>2, UnchangedKeepsIInv DEF AdminAddAddresses, buyerVars
<1>3. ASSUME NEW n, SupplySold(n) PROVE IInv'
  BY <1>3, UnchangedKeepsIInv DEF SupplySold, accountVars, buyerVars
<1>4. ASSUME NEW n, NEW start, NEW end, Activate(n, start, end) PROVE IInv'
  BY <1>4, UnchangedKeepsIInv DEF Activate, accountVars, buyerVars
<1>5. CASE AdminRefund \/ AdminClaim
  BY <1>5, UnchangedKeepsIInv DEF AdminRefund, AdminClaim, accountVars, buyerVars
<1>6. CASE Tick
  BY <1>6, UnchangedKeepsIInv DEF Tick, idoVars, accountVars, buyerVars
<1>7. CASE UNCHANGED vars
  BY <1>7, UnchangedKeepsIInv DEF vars, idoVars, accountVars, buyerVars
<1>8. QED
  BY <1>1, <1>2, <1>3, <1>4, <1>5, <1>6, <1>7, InstantiateKeepsIInv, PreLockKeepsIInv,
     SwapKeepsIInv DEF Next

\* No buyer gets more than was paid for at the rate, without what is still
\* pre-locked, nor more than the allocation (contracts/launchpad/ido/src/handle.rs).
THEOREM BoughtIsPaidHolds == Spec => []BoughtIsPaid
<1>1. IInv => BoughtIsPaid
  BY DEF IInv
<1>2. QED
  BY <1>1, InitIInv, StepIInv, PTL DEF Spec

-----------------------------------------------------------------------------
(* Lists that are made of lists.                                           *)

\* What is in a list, in one that is appended, in one that is left.
LEMMA MembersOf ==
  ASSUME NEW S, NEW s \in Seq(S)
  PROVE  /\ Len(s) \in Nat /\ DOMAIN s = 1..Len(s) /\ ToSet(s) \subseteq S
         /\ \A x : x \in ToSet(s) <=> \E k \in 1..Len(s) : s[k] = x
         /\ s = <<>> <=> ToSet(s) = {}
<1>1. Len(s) \in Nat /\ DOMAIN s = 1..Len(s) /\ \A k \in 1..Len(s) : s[k] \in S
  BY LenProperties, ElementOfSeq
<1>2. \A x : x \in ToSet(s) <=> \E k \in 1..Len(s) : s[k] = x
  BY <1>1 DEF ToSet
<1>3. ASSUME s # <<>> PROVE ToSet(s) # {}
  <2>1. Len(s) \in Nat \ {0}
    BY <1>3, EmptySeq
  <2>2. 1 \in 1..Len(s)
    BY <2>1
  <2> QED
    BY <1>2, <2>2
<1>4. ToSet(<<>>) = {}
  BY DEF ToSet
<1> QED
  BY <1>1, <1>2, <1>3, <1>4

Adds(r, s, e) == \A x : x \in ToSet(r) <=> x \in ToSet(s) \/ x = e

LEMMA MembersOfAppended ==
  ASSUME NEW S, NEW s \in Seq(S), NEW e \in S, NEW r, r = Append(s, e)
  PROVE  r \in Seq(S) /\ Adds(r, s, e)
<1>1. /\ r \in Seq(S) /\ Len(r) = Len(s) + 1 /\ Len(s) \in Nat
      /\ \A k \in 1..Len(s) : r[k] = s[k]
      /\ r[Len(s) + 1] = e
  BY AppendProperties, LenProperties
<1>2. /\ \A k \in 1..(Len(s) + 1) : k \in 1..Len(s) \/ k = Len(s) + 1
      /\ \A k \in 1..Len(s) : k \in 1..(Len(s) + 1)
      /\ Len(s) + 1 \in 1..(Len(s) + 1)
  BY <1>1
<1>3. /\ \A x : x \in ToSet(r) <=> \E k \in 1..(Len(s) + 1) : r[k] = x
      /\ \A x : x \in ToSet(s) <=> \E k \in 1..Len(s) : s[k] = x
  <2>1. \A x : x \in ToSet(r) <=> \E k \in 1..Len(r) : r[k] = x
    BY <1>1, MembersOf
  <2>2. \A x : x \in ToSet(s) <=> \E k \in 1..Len(s) : s[k] = x
    BY MembersOf
  <2> QED
    BY <1>1, <2>1, <2>2
<1> QED
  BY <1>1, <1>2, <1>3 DEF Adds

LEMMA MembersOfBoth ==
  ASSUME NEW S, NEW s \in Seq(S), NEW t \in Seq(S), NEW r, r = s \o t
  PROVE  r \in Seq(S) /\ \A x : x \in ToSet(r) <=> x \in ToSet(s) \/ x \in ToSet(t)
<1> DEFINE m == Len(s)
           n == Len(t)
<1>1. /\ r \in Seq(S) /\ Len(r) = m + n /\ m \in Nat /\ n \in Nat
      /\ \A k \in 1..(m + n) : r[k] = IF k <= m THEN s[k] ELSE t[k - m]
  BY ConcatProperties, LenProperties
<1>2. /\ \A x : x \in ToSet(r) <=> \E k \in 1..(m + n) : r[k] = x
      /\ \A x : x \in ToSet(s) <=> \E k \in 1..m : s[k] = x
      /\ \A x : x \in ToSet(t) <=> \E k \in 1..n : t[k] = x
  <2>1. \A x : x \in ToSet(r) <=> \E k \in 1..Len(r) : r[k] = x
    BY <1>1, MembersOf
  <2>2. \A x : x \in ToSet(s) <=> \E k \in 1..m : s[k] = x
    BY MembersOf
  <2>3. \A x : x \in ToSet(t) <=> \E k \in 1..n : t[k] = x
    BY MembersOf
  <2> QED
    BY <1>1, <2>1, <2>2, <2>3
<1> HIDE DEF m, n
<1>3. \A k \in 1..m : k \in 1..(m + n) /\ r[k] = s[k]
  BY <1>1
<1>4. \A k \in 1..n : k + m \in 1..(m + n) /\ r[k + m] = t[k]
  <2> SUFFICES ASSUME NEW k \in 1..n PROVE k + m \in 1..(m + n) /\ r[k + m] = t[k]
    OBVIOUS
  <2>1. k + m \in 1..(m + n) /\ ~(k + m <= m) /\ (k + m) - m = k
    BY <1>1
  <2> QED
    BY <1>1, <2>1
<1>5. \A k \in 1..(m + n) : k \in 1..m \/ (k - m \in 1..n /\ r[k] = t[k - m])
  <2> SUFFICES ASSUME NEW k \in 1..(m + n), k \notin 1..m
               PROVE  k - m \in 1..n /\ r[k] = t[k - m]
    OBVIOUS
  <2>1. k - m \in 1..n /\ ~(k <= m)
    BY <1>1
  <2> QED
    BY <1>1, <2>1
<1>6. ASSUME NEW x, x \in ToSet(r) PROVE x \in ToSet(s) \/ x \in ToSet(t)
  BY <1>2, <1>3, <1>5, <1>6
<1>7. ASSUME NEW x, x \in ToSet(s) \/ x \in ToSet(t) PROVE x \in ToSet(r)
  BY <1>2, <1>3, <1>4, <1>7
<1> QED
  BY <1>1, <1>6, <1>7

LEMMA MembersLeft ==
  ASSUME NEW S, NEW s \in Seq(S), NEW out, NEW r, r = Without(s, out)
  PROVE  r \in Seq(S) /\ \A x : x \in ToSet(r) <=> x \in ToSet(s) /\ x \notin out
<1>1. /\ r \in Seq(S)
      /\ \A x : (\E i \in 1..Len(r) : r[i] = x)
                  <=> (\E i \in 1..Len(s) : s[i] = x) /\ x \notin out
  BY WithoutFacts
<1>2. \A x : x \in ToSet(s) <=> \E k \in 1..Len(s) : s[k] = x
  BY MembersOf
<1>3. \A x : x \in ToSet(r) <=> \E k \in 1..Len(r) : r[k] = x
  BY <1>1, MembersOf
<1> QED
  BY <1>1, <1>2, <1>3

\* A list of lists, one after the other.
FlattenStep(g, seqs) ==
  [i \in 1..Len(seqs) |-> IF i = 1 THEN seqs[i] ELSE g[i - 1] \o seqs[i]]

\* What is in one of the first i of them.
AmongFirst(x, seqs, i) == \E j \in 1..i : x \in ToSet(seqs[j])

LEMMA FlattenFacts ==
  ASSUME NEW S, NEW seqs \in Seq(Seq(S)), NEW flat, flat = FlattenSeq(seqs)
  PROVE  flat \in Seq(S) /\ \A x : x \in ToSet(flat) <=> AmongFirst(x, seqs, Len(seqs))
<1> DEFINE n == Len(seqs)
           L == Seq(S)
<1>1. n \in Nat /\ \A i \in 1..n : seqs[i] \in L
  BY LenProperties, ElementOfSeq
<1>2. CASE n = 0
  <2>1. seqs = <<>>
    BY <1>2, EmptySeq
  <2>2. flat = <<>>
    BY <1>2, <2>1 DEF FlattenSeq
  <2>3. flat \in Seq(S) /\ ToSet(flat) = {}
    BY <2>2, EmptySeq DEF ToSet
  <2>4. \A x : ~AmongFirst(x, seqs, n)
    BY <1>2 DEF AmongFirst
  <2> QED
    BY <2>3, <2>4
<1>3. CASE n # 0
  <2> DEFINE step == [p \in (1..n) \X L |-> p[2] \o seqs[p[1]]]
             e == <<>>
  <2>1. \A i \in 1..n, s \in L : step[<<i, s>>] = s \o seqs[i]
    OBVIOUS
  <2>2. step \in [(1..n) \X L -> L]
    <3>1. \A p \in (1..n) \X L : p[2] \o seqs[p[1]] \in L
      <4> SUFFICES ASSUME NEW p \in (1..n) \X L PROVE p[2] \o seqs[p[1]] \in L
        OBVIOUS
      <4>1. p[2] \in Seq(S) /\ seqs[p[1]] \in Seq(S)
        BY <1>1
      <4> QED
        BY <4>1, ConcatProperties
    <3> QED
      BY <3>1
  <2>3. e \in L
    BY EmptySeq
  <2> HIDE DEF step, e, L, n
  <2>4. PICK f \in [0..n -> L] : Iterated(f, n, e, step)
    BY <1>1, <2>2, <2>3, Iterates
  <2>5. f[0] = <<>> /\ \A i \in 1..n : f[i] = f[i - 1] \o seqs[i] /\ f[i - 1] \in L
    <3>1. \A i \in 1..n : i - 1 \in 0..n
      BY <1>1
    <3> QED
      BY <2>1, <2>4, <3>1 DEF Iterated, e
  <2> DEFINE g == [i \in 1..n |-> f[i]]
  <2>6. g = FlattenStep(g, seqs)
    <3>1. ASSUME NEW i \in 1..n PROVE f[i] = IF i = 1 THEN seqs[i] ELSE g[i - 1] \o seqs[i]
      <4>1. CASE i = 1
        <5>1. f[1] = <<>> \o seqs[1]
          <6>1. i - 1 = 0
            BY <4>1
          <6>2. f[i] = f[i - 1] \o seqs[i] /\ f[0] = <<>>
            BY <2>5
          <6> HIDE DEF g
          <6> QED
            BY <4>1, <6>1, <6>2
        <5>2. seqs[1] \in Seq(S)
          BY <1>1, <4>1 DEF L
        <5> QED
          BY <4>1, <5>1, <5>2, ConcatEmptySeq
      <4>2. CASE i # 1
        <5>1. i - 1 \in 1..n
          BY <1>1, <4>2
        <5> QED
          BY <2>5, <4>2, <5>1
      <4> QED
        BY <4>1, <4>2
    <3> QED
      BY <3>1 DEF FlattenStep, n
  <2> DEFINE G == CHOOSE h : h = FlattenStep(h, seqs)
  <2>7. G = FlattenStep(G, seqs)
    BY <2>6
  <2>8. flat = G[n]
    BY <1>3 DEF FlattenSeq, FlattenStep, n
  <2> HIDE DEF g, G
  <2>9. \A i \in 1..n : G[i] = IF i = 1 THEN seqs[i] ELSE G[i - 1] \o seqs[i]
    <3>1. \A i \in 1..n : FlattenStep(G, seqs)[i] = IF i = 1 THEN seqs[i] ELSE G[i - 1] \o seqs[i]
      BY DEF FlattenStep, n
    <3> QED
      BY <2>7, <3>1
  <2> DEFINE Good(i) == G[i] \in L /\ \A x : x \in ToSet(G[i]) <=> AmongFirst(x, seqs, i)
             P == {k \in Nat : k + 1 <= n => Good(k + 1)}
  <2>10. 0 \in P
    <3>1. G[1] = seqs[1] /\ seqs[1] \in L
      BY <1>1, <1>3, <2>9
    <3>2. \A x : x \in ToSet(seqs[1]) <=> AmongFirst(x, seqs, 1)
      <4>1. \A j \in 1..1 : j = 1
        OBVIOUS
      <4>2. 1 \in 1..1
        OBVIOUS
      <4> QED
        BY <4>1, <4>2 DEF AmongFirst
    <3>3. Good(1) /\ 0 + 1 = 1
      BY <3>1, <3>2
    <3> QED
      BY <3>3
  <2>11. ASSUME NEW k \in Nat, k \in P PROVE k + 1 \in P
    <3> SUFFICES ASSUME k + 1 + 1 <= n PROVE Good(k + 1 + 1)
      OBVIOUS
    <3> DEFINE i == k + 1 + 1
               s == G[k + 1]
               t == seqs[i]
    <3>1. Good(k + 1) /\ i \in 1..n /\ i # 1 /\ i - 1 = k + 1
      BY <1>1, <2>11
    <3>2. G[i] = s \o t /\ s \in Seq(S) /\ t \in Seq(S)
      BY <1>1, <2>9, <3>1 DEF L
    <3>3. \A j \in 1..i : j = i \/ j \in 1..(k + 1)
      OBVIOUS
    <3>4. i \in 1..i /\ \A j \in 1..(k + 1) : j \in 1..i
      OBVIOUS
    <3> HIDE DEF i, s, t
    <3>5. G[i] \in Seq(S) /\ \A x : x \in ToSet(G[i]) <=> x \in ToSet(s) \/ x \in ToSet(t)
      BY <3>2, MembersOfBoth
    <3>6. \A x : AmongFirst(x, seqs, i) <=> AmongFirst(x, seqs, k + 1) \/ x \in ToSet(t)
      BY <3>3, <3>4 DEF AmongFirst, t
    <3>7. Good(i)
      BY <3>1, <3>5, <3>6 DEF s, L
    <3> QED
      BY <3>7 DEF i
  <2> HIDE DEF P
  <2>12. \A k \in Nat : k \in P
    BY <2>10, <2>11, Induct
  <2>13. n - 1 \in Nat /\ (n - 1) + 1 = n
    BY <1>1, <1>3
  <2>14. Good(n)
    <3>1. n - 1 \in P
      BY <2>12, <2>13
    <3>2. (n - 1) + 1 <= n => Good((n - 1) + 1)
      BY <3>1 DEF P
    <3> QED
      BY <1>1, <2>13, <3>2
  <2> QED
    BY <2>8, <2>14 DEF L, n
<1> QED
  BY <1>1, <1>2, <1>3

\* A list without one of its places, i: where what is at j was.
PlaceBefore(i, j) == IF j < i THEN j ELSE j + 1
SkipsPlace(rest, list, i) ==
  \A j \in 1..Len(rest), k \in 1..Len(list) : k = PlaceBefore(i, j) => rest[j] = list[k]

LEMMA RemovedFacts ==
  ASSUME NEW S, NEW list \in Seq(S), NEW i \in 1..Len(list), NEW rest, rest = RemoveAt(list, i)
  PROVE  /\ rest \in Seq(S) /\ Len(rest) + 1 = Len(list)
         /\ SkipsPlace(rest, list, i)
<1> DEFINE n == Len(list)
           first == SubSeq(list, 1, i - 1)
           second == SubSeq(list, i + 1, n)
<1>1. n \in Nat /\ i \in Nat /\ 1 <= i /\ i <= n /\ \A j \in 1..n : list[j] \in S
  BY LenProperties, ElementOfSeq
<1> HIDE DEF n
<1>2. /\ first \in Seq(S) /\ Len(first) = i - 1
      /\ \A j \in 1..(i - 1) : first[j] = list[j]
  <2>1. 1 \in Int /\ i - 1 \in Int /\ \A j \in 1..(i - 1) : list[j] \in S
    BY <1>1
  <2>2. /\ SubSeq(list, 1, i - 1) \in Seq(S)
        /\ Len(SubSeq(list, 1, i - 1)) = IF 1 <= i - 1 THEN i - 1 - 1 + 1 ELSE 0
        /\ \A j \in 1..(i - 1 - 1 + 1) : SubSeq(list, 1, i - 1)[j] = list[1 + j - 1]
    BY <2>1, SubSeqProperties
  <2> HIDE DEF first
  <2>3. i - 1 - 1 + 1 = i - 1 /\ \A j \in 1..(i - 1) : 1 + j - 1 = j
    BY <1>1
  <2> QED
    BY <1>1, <2>2, <2>3 DEF first
<1>3. /\ second \in Seq(S) /\ Len(second) = n - i
      /\ \A j \in 1..(n - i) : second[j] = list[i + j]
  <2>1. i + 1 \in Int /\ n \in Int /\ \A j \in (i + 1)..n : list[j] \in S
    BY <1>1
  <2>2. /\ SubSeq(list, i + 1, n) \in Seq(S)
        /\ Len(SubSeq(list, i + 1, n)) = IF i + 1 <= n THEN n - (i + 1) + 1 ELSE 0
        /\ \A j \in 1..(n - (i + 1) + 1) : SubSeq(list, i + 1, n)[j] = list[i + 1 + j - 1]
    BY <2>1, SubSeqProperties
  <2>3. n - (i + 1) + 1 = n - i /\ \A j \in 1..(n - i) : i + 1 + j - 1 = i + j
    BY <1>1
  <2> QED
    BY <1>1, <2>2, <2>3
<1> HIDE DEF first, second
<1>4. /\ rest = first \o second /\ rest \in Seq(S) /\ Len(rest) = Len(first) + Len(second)
      /\ \A j \in 1..(Len(first) + Len(second)) :
           rest[j] = IF j <= Len(first) THEN first[j] ELSE second[j - Len(first)]
  <2>1. rest = first \o second
    BY DEF RemoveAt, first, second, n
  <2> QED
    BY <1>2, <1>3, <2>1, ConcatProperties
<1>5. Len(rest) = n - 1
  BY <1>1, <1>2, <1>3, <1>4
<1>6. ASSUME NEW j \in 1..Len(rest), j < i PROVE rest[j] = list[j]
  <2>1. j \in 1..(i - 1) /\ j <= Len(first) /\ j \in 1..(Len(first) + Len(second))
    BY <1>1, <1>2, <1>4, <1>6
  <2> QED
    BY <1>2, <1>4, <2>1
<1>7. ASSUME NEW j \in 1..Len(rest), j >= i PROVE rest[j] = list[j + 1]
  <2>1. /\ ~(j <= Len(first)) /\ j \in 1..(Len(first) + Len(second))
        /\ j - Len(first) \in 1..(n - i) /\ i + (j - Len(first)) = j + 1
    BY <1>1, <1>2, <1>4, <1>5, <1>7
  <2>2. rest[j] = second[j - Len(first)]
    BY <1>4, <2>1
  <2>3. second[j - Len(first)] = list[i + (j - Len(first))]
    BY <1>3, <2>1
  <2> QED
    BY <2>1, <2>2, <2>3
<1>8. Len(rest) + 1 = n
  BY <1>1, <1>5
<1>9. \A j \in 1..Len(rest), k \in 1..n : k = PlaceBefore(i, j) => rest[j] = list[k]
  <2>1. \A j \in 1..Len(rest) : j \in Int
    BY <1>4
  <2> QED
    BY <1>1, <1>6, <1>7, <2>1 DEF PlaceBefore
<1> QED
  BY <1>4, <1>8, <1>9 DEF n, SkipsPlace

-----------------------------------------------------------------------------
(* The launchpad: types.                                                   *)

AccountTokens == [balance: Nat, entries: Seq(0..MaxTime)]
AccountsHeld == UNION {[T -> AccountTokens] : T \in SUBSET LockTokens}

LaunchpadTypes ==
  /\ tokens \in Seq(Terms)
  /\ \A c \in ToSet(tokens) : c \in Settings \cup ToSet(InitialTokens)
  /\ owners \in Seq(Users) /\ IsInjective(owners)
  /\ held \in [Users -> AccountsHeld]
  /\ \A u \in Users : u \in ToSet(owners) <=> DOMAIN held[u] # {}
  /\ funds \in [LockTokens -> Nat]
  /\ wallets \in [Users -> [LockTokens -> Nat]]
  /\ now \in 0..MaxTime

LEMMA LaunchpadConstants ==
  /\ IsFiniteSet(Users) /\ Wallets \subseteq [Users -> [LockTokens -> Nat]]
  /\ InitialTokens \in Seq(Terms) /\ Settings \subseteq Terms
  /\ Deposits \subseteq Nat /\ Strays \subseteq Nat /\ MaxDecimal \in Nat /\ MaxCount \in Nat
  /\ MaxTime \in Nat /\ Forever \in Nat
BY LaunchpadAssumption

\* What an account has of a token.
LEMMA HoldingFacts ==
  ASSUME held \in [Users -> AccountsHeld], NEW u \in Users, NEW t \in LockTokens
  PROVE  /\ DOMAIN held[u] \subseteq LockTokens
         /\ held[u] \in [DOMAIN held[u] -> AccountTokens]
         /\ Holding(u, t) \in AccountTokens
         /\ Holding(u, t).balance \in Nat /\ Holding(u, t).entries \in Seq(0..MaxTime)
         /\ Len(Holding(u, t).entries) \in Nat
<1>1. PICK T \in SUBSET LockTokens : held[u] \in [T -> AccountTokens]
  BY DEF AccountsHeld
<1>2. /\ DOMAIN held[u] = T
      /\ \A s \in T : held[u][s] \in AccountTokens
  BY <1>1
<1>3. [balance |-> 0, entries |-> <<>>] \in AccountTokens
  BY EmptySeq DEF AccountTokens
<1>4. Holding(u, t) \in AccountTokens
  BY <1>2, <1>3 DEF Holding
<1>5. Holding(u, t).balance \in Nat /\ Holding(u, t).entries \in Seq(0..MaxTime)
  BY <1>4 DEF AccountTokens
<1> QED
  BY <1>1, <1>2, <1>4, <1>5, LenProperties

LEMMA UnlockedFacts ==
  ASSUME held \in [Users -> AccountsHeld], NEW u \in Users, NEW c \in Terms, NEW count \in Nat,
         CanUnlock(u, c, count), NEW h, h = AfterUnlock(Holding(u, c.token), c, count)
  PROVE  /\ h \in AccountTokens /\ c.token \in DOMAIN held[u]
         /\ Holding(u, c.token) = held[u][c.token]
         /\ c.segment * count \in Nat
         /\ h.balance + c.segment * count = Holding(u, c.token).balance
         /\ Len(h.entries) + count = Len(Holding(u, c.token).entries)
<1> DEFINE t == c.token
           k == Holding(u, t)
           owed == c.segment * count
           n == Len(k.entries)
<1>1. c.segment \in Nat /\ t \in LockTokens
  BY DEF Terms
<1>2. /\ t \in DOMAIN held[u] /\ k = held[u][t] /\ count <= n /\ owed <= k.balance
  BY DEF CanUnlock, Holding
<1>3. k.balance \in Nat /\ k.entries \in Seq(0..MaxTime) /\ n \in Nat
  BY <1>1, HoldingFacts
<1>4. owed \in Nat
  BY <1>1, SMT
<1>5. h = [balance |-> k.balance - owed, entries |-> SubSeq(k.entries, count + 1, n)]
  BY DEF AfterUnlock
<1> DEFINE rest == SubSeq(k.entries, count + 1, n)
<1>6. rest \in Seq(0..MaxTime) /\ Len(rest) + count = n
  <2>1. count + 1 \in Int /\ n \in Int /\ \A i \in (count + 1)..n : i \in 1..n
    BY <1>3
  <2>2. \A i \in (count + 1)..n : k.entries[i] \in 0..MaxTime
    BY <1>3, <2>1, ElementOfSeq
  <2> HIDE DEF k, n
  <2>3. /\ rest \in Seq(0..MaxTime)
        /\ Len(rest) = IF count + 1 <= n THEN n - (count + 1) + 1 ELSE 0
    BY <2>1, <2>2, SubSeqProperties
  <2> QED
    BY <1>2, <1>3, <2>3
<1> HIDE DEF owed, rest, k
<1>7. h \in AccountTokens /\ h.balance + owed = k.balance /\ Len(h.entries) + count = n
  BY <1>2, <1>3, <1>4, <1>5, <1>6 DEF AccountTokens, rest
<1> QED
  BY <1>2, <1>4, <1>7 DEF k, owed

\* The terms that get_token_config finds in a list.
ConfigIn(list, t) == list[SelectInSeq(list, LAMBDA c : c.token = t)]

LEMMA ConfigInFacts ==
  ASSUME NEW list \in Seq(Terms), NEW t, \E i \in DOMAIN list : list[i].token = t,
         NEW c, c = ConfigIn(list, t)
  PROVE  c \in Terms /\ c.token = t /\ \E i \in DOMAIN list : c = list[i]
<1> DEFINE I == {i \in 1..Len(list) : list[i].token = t}
<1>1. Len(list) \in Nat /\ DOMAIN list = 1..Len(list)
  BY LenProperties
<1>2. I \in SUBSET Nat /\ I # {}
  BY <1>1
<1>3. PICK n \in I : \A m \in I : n <= m
  BY <1>2, LeastNatural
<1>4. Min(I) \in I
  BY <1>3 DEF Min
<1>5. c = list[Min(I)]
  BY <1>2 DEF ConfigIn, SelectInSeq
<1> QED
  BY <1>1, <1>4, <1>5, ElementOfSeq

\* The terms of a token that is supported.
LEMMA ConfigFacts ==
  ASSUME tokens \in Seq(Terms), NEW t, Supported(t)
  PROVE  /\ \E i \in DOMAIN tokens : ConfigOf(t) = tokens[i]
         /\ ConfigOf(t) \in Terms /\ ConfigOf(t).token = t
<1>1. ConfigOf(t) = ConfigIn(tokens, t)
  BY DEF ConfigOf, ConfigIn
<1> QED
  BY <1>1, ConfigInFacts DEF Supported

\* The entries that have bonded at a time: all of them once that is late enough.
LEMMA BondedFacts ==
  ASSUME held \in [Users -> AccountsHeld], NEW u \in Users, NEW c \in Terms, NEW time \in Int,
         NEW b, b = BondedEntries(u, c, time)
  PROVE  /\ b \in Seq(0..MaxTime) /\ Len(b) \in Nat
         /\ Len(b) <= Len(Holding(u, c.token).entries)
         /\ MaxTime + c.bonding <= time => Len(b) = Len(Holding(u, c.token).entries)
<1> DEFINE e == Holding(u, c.token).entries
           out == {at \in 0..MaxTime : at + c.bonding > time}
<1>1. c.token \in LockTokens /\ c.bonding \in Nat /\ MaxTime \in Nat
  BY LaunchpadConstants DEF Terms
<1>2. e \in Seq(0..MaxTime) /\ Len(e) \in Nat
  BY <1>1, HoldingFacts
<1>3. CASE c.token \in DOMAIN held[u]
  <2>1. b = Without(e, out)
    BY <1>3 DEF BondedEntries, Holding
  <2>2. ASSUME MaxTime + c.bonding <= time PROVE out = {}
    BY <1>1, <2>2
  <2> HIDE DEF e, out
  <2>3. /\ b \in Seq(0..MaxTime) /\ Len(b) <= Len(e)
        /\ (\A i \in 1..Len(e) : e[i] \notin out) => Len(b) = Len(e)
    BY <1>2, <2>1, WithoutFacts
  <2>4. Len(b) \in Nat
    BY <2>3, LenProperties
  <2> QED
    BY <2>2, <2>3, <2>4 DEF e
<1>4. CASE c.token \notin DOMAIN held[u]
  <2>1. b = <<>> /\ e = <<>> /\ Len(<<>>) = 0 /\ <<>> \in Seq(0..MaxTime)
    BY <1>4, EmptySeq DEF BondedEntries, Holding
  <2> QED
    BY <2>1
<1> QED
  BY <1>3, <1>4

\* An account gets some entries and loses others, a segment locked for each, and the
\* launchpad has as much more and less at least.
Moves(u, t, more, less) ==
  LET segment == ConfigOf(t).segment
  IN /\ LaunchpadTypes' /\ Supported(t) /\ tokens' = tokens
     /\ Holding(u, t)' \in AccountTokens
     /\ segment * more \in Nat /\ segment * less \in Nat
     /\ Holding(u, t)'.balance + segment * less = Holding(u, t).balance + segment * more
     /\ Len(Holding(u, t)'.entries) + less = Len(Holding(u, t).entries) + more
     /\ funds[t] + segment * more <= funds'[t] + segment * less
     /\ \A s \in LockTokens : s # t => funds'[s] = funds[s]
     /\ \A v \in Users, s \in LockTokens : v # u \/ s # t => Holding(v, s)' = Holding(v, s)

\* A deposit adds entries.
LEMMA LockFacts ==
  ASSUME LaunchpadTypes, NEW u \in Users, NEW t \in LockTokens, NEW n \in Nat, Lock(u, t, n)
  PROVE  \E k \in Nat : Moves(u, t, k, 0)
<1> DEFINE c == ConfigOf(t)
           h == Holding(u, t)
           k == CalculateEntries(n, c.segment)
           kept == c.segment * k
           new == AfterLock(h, c.segment, n)
           a == Saved(held[u], t, new)
<1>1. /\ Supported(t) /\ n <= wallets[u][t] /\ 0 < c.segment
      /\ held' = [held EXCEPT ![u] = a]
      /\ owners' = IF u \in ToSet(owners) THEN owners ELSE Append(owners, u)
      /\ funds' = [funds EXCEPT ![t] = @ + kept]
      /\ wallets' = [wallets EXCEPT ![u][t] = @ - kept]
      /\ tokens' = tokens /\ now' = now
  BY DEF Lock
<1>2. c \in Terms /\ c.segment \in Nat \ {0} /\ tokens \in Seq(Terms)
  BY <1>1, ConfigFacts DEF LaunchpadTypes, Terms
<1>3. k \in Nat /\ kept \in Nat /\ kept <= n
  <2> DEFINE q == n \div c.segment
  <2>1. q \in Nat /\ q * c.segment <= n /\ q * c.segment \in Int
    BY <1>2, QuotientBounds
  <2>2. k = q \/ k = 0
    BY DEF CalculateEntries
  <2> HIDE DEF q, k, c
  <2>3. CASE k = q
    <3>1. kept = q * c.segment /\ c.segment * k \in Nat
      BY <1>2, <2>1, <2>3, SMT
    <3> QED
      BY <2>1, <2>3, <3>1
  <2>4. CASE k = 0
    <3>1. kept = 0
      BY <1>2, <2>4, SMT
    <3> QED
      BY <2>4, <3>1
  <2> QED
    BY <2>2, <2>3, <2>4
<1>4. /\ h \in AccountTokens /\ h.balance \in Nat /\ h.entries \in Seq(0..MaxTime)
      /\ held \in [Users -> AccountsHeld] /\ now \in 0..MaxTime
  BY HoldingFacts DEF LaunchpadTypes
<1> DEFINE fresh == [i \in 1..k |-> now]
<1>5. new = [balance |-> h.balance + kept, entries |-> h.entries \o fresh]
  BY DEF AfterLock
<1> HIDE DEF c, h, k, kept, new
<1>6. fresh \in Seq(0..MaxTime) /\ Len(fresh) = k
  BY <1>3, <1>4
<1> HIDE DEF fresh
<1>7. /\ new \in AccountTokens /\ new.balance = h.balance + kept
      /\ Len(new.entries) = Len(h.entries) + k
  <2> DEFINE all == h.entries \o fresh
  <2>1. all \in Seq(0..MaxTime) /\ Len(all) = Len(h.entries) + Len(fresh)
    BY <1>4, <1>6, ConcatProperties
  <2>2. h.balance + kept \in Nat
    BY <1>3, <1>4
  <2>3. new = [balance |-> h.balance + kept, entries |-> all]
    BY <1>5
  <2> HIDE DEF all
  <2>4. new \in AccountTokens
    BY <2>1, <2>2, <2>3 DEF AccountTokens
  <2> QED
    BY <1>6, <2>1, <2>3, <2>4
<1>8. /\ a \in AccountsHeld /\ DOMAIN a = DOMAIN held[u] \cup {t} /\ a[t] = new
      /\ \A s \in DOMAIN held[u] : s # t => a[s] = held[u][s]
  <2>1. /\ DOMAIN held[u] \subseteq LockTokens
        /\ \A s \in DOMAIN held[u] : held[u][s] \in AccountTokens
    BY <1>4, HoldingFacts
  <2> DEFINE T == DOMAIN held[u] \cup {t}
  <2>2. a = [s \in T |-> IF s = t THEN new ELSE held[u][s]]
    BY DEF Saved
  <2> HIDE DEF a
  <2>3. a \in [T -> AccountTokens] /\ T \in SUBSET LockTokens
    BY <1>7, <2>1, <2>2
  <2> QED
    BY <2>2, <2>3 DEF AccountsHeld
<1> HIDE DEF a
<1>9. /\ held' \in [Users -> AccountsHeld] /\ held'[u] = a
      /\ \A v \in Users : v # u => held'[v] = held[v]
  BY <1>1, <1>4, <1>8
<1>10. /\ owners' \in Seq(Users) /\ IsInjective(owners')
       /\ \A v \in Users : v \in ToSet(owners') <=> v \in ToSet(owners) \/ v = u
  <2>1. /\ owners \in Seq(Users) /\ IsInjective(owners)
        /\ DOMAIN owners = 1..Len(owners) /\ Len(owners) \in Nat
    BY LenProperties DEF LaunchpadTypes
  <2>2. CASE u \in ToSet(owners)
    BY <1>1, <2>1, <2>2
  <2>3. CASE u \notin ToSet(owners)
    <3>1. /\ owners' = Append(owners, u) /\ owners' \in Seq(Users)
          /\ Len(owners') = Len(owners) + 1
          /\ \A i \in 1..Len(owners) : owners'[i] = owners[i]
          /\ owners'[Len(owners) + 1] = u
      BY <1>1, <2>1, <2>3, AppendProperties
    <3>2. /\ DOMAIN owners' = 1..(Len(owners) + 1)
          /\ \A i \in 1..(Len(owners) + 1) : i \in 1..Len(owners) \/ i = Len(owners) + 1
      BY <2>1, <3>1, LenProperties
    <3>3. \A i \in 1..Len(owners) : owners[i] # u /\ i \in 1..(Len(owners) + 1)
      BY <2>1, <2>3 DEF ToSet
    <3>4. Len(owners) + 1 \in 1..(Len(owners) + 1)
      BY <2>1
    <3>5. IsInjective(owners')
      BY <2>1, <3>1, <3>2, <3>3 DEF IsInjective
    <3>6. \A v \in Users : v \in ToSet(owners') <=> v \in ToSet(owners) \/ v = u
      BY <2>1, <3>1, <3>2, <3>3, <3>4 DEF ToSet
    <3> QED
      BY <3>1, <3>5, <3>6
  <2> QED
    BY <2>2, <2>3
<1>11. funds' \in [LockTokens -> Nat] /\ wallets' \in [Users -> [LockTokens -> Nat]]
  <2>1. funds \in [LockTokens -> Nat] /\ wallets \in [Users -> [LockTokens -> Nat]]
    BY DEF LaunchpadTypes
  <2>2. wallets[u][t] \in Nat /\ wallets[u][t] - kept \in Nat
    BY <1>1, <1>3, <2>1
  <2> QED
    BY <1>1, <1>3, <2>1, <2>2
<1>12. LaunchpadTypes'
  BY <1>1, <1>8, <1>9, <1>10, <1>11 DEF LaunchpadTypes
<1>13. /\ Holding(u, t)' = new
       /\ \A v \in Users, s \in LockTokens : v # u \/ s # t => Holding(v, s)' = Holding(v, s)
  BY <1>8, <1>9 DEF Holding
<1>14. c.segment * 0 = 0
  BY <1>2, SMT
<1>15. /\ new.balance + 0 = h.balance + kept /\ Len(new.entries) + 0 = Len(h.entries) + k
       /\ funds[t] + kept <= funds'[t] + 0
       /\ \A s \in LockTokens : s # t => funds'[s] = funds[s]
  <2>1. /\ Len(new.entries) \in Int /\ funds \in [LockTokens -> Nat] /\ new.balance \in Nat
        /\ Len(h.entries) \in Nat
    BY <1>4, <1>7, LenProperties DEF LaunchpadTypes, AccountTokens
  <2>2. funds'[t] = funds[t] + kept /\ funds[t] \in Nat
    BY <1>1, <2>1
  <2> QED
    BY <1>1, <1>3, <1>4, <1>7, <2>1, <2>2
<1>16. Moves(u, t, k, 0)
  BY <1>1, <1>3, <1>7, <1>12, <1>13, <1>14, <1>15 DEF Moves, c, h, kept
<1> QED
  BY <1>3, <1>16

\* A withdrawal takes the oldest entries away; what came with it stays.
LEMMA UnlockFacts ==
  ASSUME LaunchpadTypes, NEW u \in Users, NEW t \in LockTokens, NEW count \in Nat,
         NEW sent \in Nat, Unlock(u, t, count, sent)
  PROVE  Moves(u, t, 0, count)
<1> DEFINE c == ConfigOf(t)
           h == Holding(u, t)
           owed == c.segment * count
           new == AfterUnlock(h, c, count)
<1>1. /\ Supported(t) /\ sent <= wallets[u][t] /\ CanUnlock(u, c, count)
      /\ owed <= funds[t] + sent
      /\ held' = [held EXCEPT ![u][t] = AfterUnlock(@, c, count)]
      /\ funds' = [funds EXCEPT ![t] = @ + sent - owed]
      /\ wallets' = [wallets EXCEPT ![u][t] = @ - sent + owed]
      /\ tokens' = tokens /\ owners' = owners /\ now' = now
  BY DEF Unlock
<1>2. c \in Terms /\ c.segment \in Nat /\ c.token = t /\ held \in [Users -> AccountsHeld]
  BY <1>1, ConfigFacts DEF LaunchpadTypes, Terms
<1>3. /\ new \in AccountTokens /\ t \in DOMAIN held[u] /\ h = held[u][t] /\ owed \in Nat
      /\ new.balance + owed = h.balance /\ Len(new.entries) + count = Len(h.entries)
  <2>1. Holding(u, c.token) = h
    BY <1>2
  <2>2. new = AfterUnlock(Holding(u, c.token), c, count)
    BY <2>1
  <2> HIDE DEF c, h, new
  <2> QED
    BY <1>1, <1>2, <2>1, <2>2, UnlockedFacts DEF owed
<1>4. /\ DOMAIN held[u] \subseteq LockTokens
      /\ held[u] \in [DOMAIN held[u] -> AccountTokens]
  BY <1>2, HoldingFacts
<1> DEFINE a == [held[u] EXCEPT ![t] = new]
<1>5. held' = [held EXCEPT ![u] = a]
  BY <1>1, <1>2, <1>3
<1> HIDE DEF c, h, owed, new
<1>6. /\ a \in [DOMAIN held[u] -> AccountTokens] /\ a[t] = new
      /\ \A s \in DOMAIN held[u] : s # t => a[s] = held[u][s]
  BY <1>3, <1>4
<1>7. a \in AccountsHeld /\ DOMAIN a = DOMAIN held[u]
  BY <1>4, <1>6 DEF AccountsHeld
<1> HIDE DEF a
<1>8. /\ held' \in [Users -> AccountsHeld] /\ held'[u] = a
      /\ \A v \in Users : v # u => held'[v] = held[v]
  BY <1>2, <1>5, <1>7
<1>9. /\ funds[t] \in Nat /\ funds'[t] = (funds[t] + sent) - owed
      /\ funds' \in [LockTokens -> Nat]
      /\ \A s \in LockTokens : s # t => funds'[s] = funds[s]
  <2>1. funds \in [LockTokens -> Nat] /\ funds[t] \in Nat
    BY DEF LaunchpadTypes
  <2>2. funds[t] + sent - owed \in Nat /\ funds[t] + sent - owed = (funds[t] + sent) - owed
    BY <1>1, <1>3, <2>1
  <2> QED
    BY <1>1, <2>1, <2>2
<1>10. wallets' \in [Users -> [LockTokens -> Nat]]
  <2>1. wallets \in [Users -> [LockTokens -> Nat]] /\ wallets[u][t] \in Nat
    BY DEF LaunchpadTypes
  <2>2. wallets[u][t] - sent + owed \in Nat
    BY <1>1, <1>3, <2>1
  <2> QED
    BY <1>1, <2>1, <2>2
<1>11. LaunchpadTypes'
  BY <1>1, <1>7, <1>8, <1>9, <1>10 DEF LaunchpadTypes
<1>12. /\ Holding(u, t)' = new
       /\ \A v \in Users, s \in LockTokens : v # u \/ s # t => Holding(v, s)' = Holding(v, s)
  BY <1>3, <1>6, <1>7, <1>8 DEF Holding
<1>13. c.segment * 0 = 0
  BY <1>2, SMT
<1>14. /\ new.balance + owed = h.balance + 0 /\ Len(new.entries) + count = Len(h.entries) + 0
       /\ funds[t] + 0 <= funds'[t] + owed
  <2>1. h.balance \in Nat /\ Len(h.entries) \in Nat
    BY <1>2, HoldingFacts DEF h
  <2>2. h.balance + 0 = h.balance /\ Len(h.entries) + 0 = Len(h.entries)
    BY <2>1
  <2>3. PICK f, g \in Int : f = funds[t] /\ g = funds'[t] /\ g = (f + sent) - owed
    BY <1>3, <1>9
  <2>4. f + 0 <= g + owed
    BY <1>3, <2>3
  <2> QED
    BY <1>3, <2>2, <2>3, <2>4
<1> QED
  BY <1>1, <1>3, <1>9, <1>11, <1>12, <1>13, <1>14 DEF Moves, c, h, owed

-----------------------------------------------------------------------------
(* The launchpad: what is locked.                                          *)

\* A token has one set of terms.
OneEach == \A i, j \in DOMAIN tokens : tokens[i].token = tokens[j].token => i = j

\* Nothing is locked in a token that is not supported.
Vacant ==
  \A u \in Users, t \in LockTokens :
    ~Supported(t) => Holding(u, t).balance = 0 /\ Len(Holding(u, t).entries) = 0

LaunchpadInv == LaunchpadTypes /\ OneEach /\ Vacant /\ LocksAreBacked

\* What init is given and does not check: a token that is listed twice is one the
\* admin could remove and still support.
TokensListedOnce ==
  \A i, j \in DOMAIN InitialTokens : InitialTokens[i].token = InitialTokens[j].token => i = j

\* What unlock_all takes for granted: by its timestamp, all has bonded.
AllBondByForever == \A c \in Settings \cup ToSet(InitialTokens) : MaxTime + c.bonding <= Forever

LEMMA ConfigIsUnique ==
  ASSUME tokens \in Seq(Terms), OneEach, NEW i \in DOMAIN tokens
  PROVE  ConfigOf(tokens[i].token) = tokens[i] /\ Supported(tokens[i].token)
<1>1. Supported(tokens[i].token)
  BY DEF Supported
<1> QED
  BY <1>1, ConfigFacts DEF OneEach

LEMMA BalancesAdd ==
  ASSUME LaunchpadTypes, NEW t \in LockTokens
  PROVE  /\ [u \in Users |-> Holding(u, t).balance] \in [Users -> Nat]
         /\ SumOver([u \in Users |-> Holding(u, t).balance], Users) \in Nat
<1>1. \A u \in Users : Holding(u, t).balance \in Nat
  BY HoldingFacts DEF LaunchpadTypes
<1> DEFINE f == [u \in Users |-> Holding(u, t).balance]
<1>2. f \in [Users -> Nat] /\ \A u \in Users : f[u] \in Int /\ f[u] >= 0
  BY <1>1
<1> HIDE DEF f
<1>3. SumOver(f, Users) \in Nat
  BY <1>2, SumType, LaunchpadConstants
<1> QED
  BY <1>2, <1>3 DEF f

\* Before there are accounts there is nothing to back.
LEMMA InitLaunchpadInv == ASSUME LaunchpadInit, TokensListedOnce PROVE LaunchpadInv
<1>1. /\ tokens = InitialTokens /\ owners = <<>> /\ held = [u \in Users |-> <<>>]
      /\ funds = [t \in LockTokens |-> 0] /\ wallets \in Wallets /\ now = 0
  BY DEF LaunchpadInit
<1>2. /\ <<>> \in Seq(Users) /\ IsInjective(<<>>) /\ ToSet(<<>>) = {}
  BY EmptySeq DEF IsInjective, ToSet
<1>3. /\ held \in [Users -> AccountsHeld] /\ \A u \in Users : DOMAIN held[u] = {}
  <2>1. <<>> \in [{} -> AccountTokens] /\ {} \in SUBSET LockTokens /\ DOMAIN <<>> = {}
    OBVIOUS
  <2>2. <<>> \in AccountsHeld
    BY <2>1 DEF AccountsHeld
  <2> QED
    BY <1>1, <2>1, <2>2
<1>4. LaunchpadTypes
  <2>1. \A u \in Users : u \in ToSet(owners) <=> DOMAIN held[u] # {}
    BY <1>1, <1>2, <1>3
  <2>2. owners \in Seq(Users) /\ IsInjective(owners)
    BY <1>1, <1>2
  <2>3. tokens \in Seq(Terms) /\ \A c \in ToSet(tokens) : c \in Settings \cup ToSet(InitialTokens)
    BY <1>1, LaunchpadConstants
  <2>4. funds \in [LockTokens -> Nat] /\ wallets \in [Users -> [LockTokens -> Nat]]
        /\ now \in 0..MaxTime
    BY <1>1, LaunchpadConstants
  <2> QED
    BY <1>3, <2>1, <2>2, <2>3, <2>4 DEF LaunchpadTypes
<1>5. \A u \in Users, t \in LockTokens :
        Holding(u, t).balance = 0 /\ Holding(u, t).entries = <<>> /\ Len(<<>>) = 0
  BY <1>3, EmptySeq DEF Holding
<1>6. OneEach /\ Vacant
  BY <1>1, <1>5 DEF OneEach, TokensListedOnce, Vacant
<1>7. ASSUME NEW t \in LockTokens
      PROVE  SumOver([u \in Users |-> Holding(u, t).balance], Users) <= funds[t]
  <2> DEFINE f == [u \in Users |-> Holding(u, t).balance]
  <2>1. \A u \in Users : f[u] = 0
    BY <1>5
  <2> HIDE DEF f
  <2>2. SumOver(f, Users) = 0
    BY <2>1, SumOfZeros, LaunchpadConstants
  <2>3. funds[t] = 0
    BY <1>1
  <2> QED
    BY <2>2, <2>3 DEF f
<1>8. ASSUME NEW t \in LockTokens, Supported(t), NEW u \in Users
      PROVE  Holding(u, t).balance = ConfigOf(t).segment * Len(Holding(u, t).entries)
  <2>1. ConfigOf(t) \in Terms
    BY <1>4, <1>8, ConfigFacts DEF LaunchpadTypes
  <2>2. ConfigOf(t).segment \in Nat
    BY <2>1 DEF Terms
  <2>3. ConfigOf(t).segment * 0 = 0
    BY <2>2, SMT
  <2> QED
    BY <1>5, <2>3
<1> QED
  BY <1>4, <1>6, <1>7, <1>8 DEF LaunchpadInv, LocksAreBacked

\* A deposit and a withdrawal keep a segment behind every entry.
LEMMA MovesKeepLaunchpadInv ==
  ASSUME LaunchpadInv, NEW u \in Users, NEW t \in LockTokens, NEW more \in Nat,
         NEW less \in Nat, Moves(u, t, more, less)
  PROVE  LaunchpadInv' /\ \A s \in LockTokens : Supported(s)' <=> Supported(s)
<1> DEFINE seg == ConfigOf(t).segment
<1>1. /\ LaunchpadTypes /\ LaunchpadTypes' /\ Supported(t) /\ tokens' = tokens
      /\ seg * more \in Nat /\ seg * less \in Nat /\ Holding(u, t)' \in AccountTokens
      /\ Holding(u, t)'.balance + seg * less = Holding(u, t).balance + seg * more
      /\ Len(Holding(u, t)'.entries) + less = Len(Holding(u, t).entries) + more
      /\ funds[t] + seg * more <= funds'[t] + seg * less
      /\ \A s \in LockTokens : s # t => funds'[s] = funds[s]
      /\ \A v \in Users, s \in LockTokens : v # u \/ s # t => Holding(v, s)' = Holding(v, s)
  BY DEF Moves, LaunchpadInv
<1>2. \A s \in LockTokens : (Supported(s)' <=> Supported(s)) /\ ConfigOf(s)' = ConfigOf(s)
  <2>1. \A s \in LockTokens : Supported(s)' <=> Supported(s)
    BY <1>1 DEF Supported
  <2>2. \A s \in LockTokens : ConfigOf(s)' = ConfigOf(s)
    BY <1>1 DEF ConfigOf, SelectInSeq
  <2> QED
    BY <2>1, <2>2
<1>3. OneEach' /\ Vacant'
  BY <1>1, <1>2 DEF LaunchpadInv, OneEach, Vacant
<1>4. ASSUME NEW s \in LockTokens
      PROVE  SumOver([v \in Users |-> Holding(v, s)'.balance], Users) <= funds'[s]
  <2> DEFINE f == [v \in Users |-> Holding(v, s).balance]
             g == [v \in Users |-> Holding(v, s)'.balance]
  <2>1. SumOver(f, Users) <= funds[s] /\ f \in [Users -> Nat] /\ SumOver(f, Users) \in Nat
    BY <1>1, BalancesAdd DEF LaunchpadInv, LocksAreBacked
  <2>2. funds[s] \in Nat /\ funds'[s] \in Nat
    BY <1>1 DEF LaunchpadTypes
  <2>3. CASE s # t
    <3>1. g = f
      BY <1>1, <2>3
    <3> HIDE DEF f, g
    <3>2. SumOver(g, Users) <= funds'[s]
      BY <1>1, <2>1, <2>3, <3>1
    <3> QED
      BY <3>2 DEF g
  <2>4. CASE s = t
    <3> DEFINE n == Holding(u, t)'.balance
    <3>1. n \in Nat
      BY <1>1 DEF AccountTokens
    <3>2. g = [f EXCEPT ![u] = n]
      BY <1>1, <2>4
    <3>3. f[u] = Holding(u, t).balance
      BY <2>4
    <3> HIDE DEF f, g, n
    <3>4. SumOver(g, Users) + f[u] = SumOver(f, Users) + n /\ f[u] \in Nat
      <4>1. n \in Int /\ f \in [Users -> Nat] /\ IsFiniteSet(Users)
        BY <2>1, <3>1, LaunchpadConstants
      <4>2. SumOver([f EXCEPT ![u] = n], Users) + f[u] = SumOver(f, Users) + n /\ f[u] \in Nat
        BY <4>1, OneEntryOfSum
      <4> QED
        BY <3>2, <4>2
    <3> HIDE DEF seg
    <3>5. n + seg * less = f[u] + seg * more
      BY <1>1, <3>3 DEF n
    <3>6. SumOver(g, Users) <= funds'[s]
      <4> DEFINE x == seg * more
                 y == seg * less
                 total == SumOver(g, Users)
                 before == SumOver(f, Users)
      <4>1. /\ x \in Nat /\ y \in Nat /\ before \in Nat /\ before <= funds[s] /\ n \in Nat
            /\ f[u] \in Nat /\ n + y = f[u] + x /\ funds[s] + x <= funds'[s] + y
            /\ funds[s] \in Nat /\ funds'[s] \in Nat /\ total + f[u] = before + n
        BY <1>1, <2>1, <2>2, <2>4, <3>1, <3>4, <3>5
      <4>2. total \in Int
        <5>1. \A v \in Users : g[v] \in Int
          BY <2>1, <3>1, <3>2
        <5> QED
          BY <5>1, SumType, LaunchpadConstants
      <4> HIDE DEF x, y, total, before
      <4>3. total <= funds'[s]
        BY <4>1, <4>2
      <4> QED
        BY <4>3 DEF total
    <3> QED
      BY <3>6 DEF g
  <2> QED
    BY <2>3, <2>4
<1>5. ASSUME NEW s \in LockTokens, Supported(s)', NEW v \in Users
      PROVE  Holding(v, s)'.balance = ConfigOf(s)'.segment * Len(Holding(v, s)'.entries)
  <2>1. /\ Supported(s) /\ ConfigOf(s)' = ConfigOf(s)
        /\ Holding(v, s).balance = ConfigOf(s).segment * Len(Holding(v, s).entries)
    BY <1>2, <1>5 DEF LaunchpadInv, LocksAreBacked
  <2>2. CASE v # u \/ s # t
    BY <1>1, <2>1, <2>2
  <2>3. CASE v = u /\ s = t
    <3> DEFINE len == Len(Holding(u, t).entries)
               len_next == Len(Holding(u, t)'.entries)
               n == Holding(u, t)'.balance
    <3>1. seg \in Nat /\ len \in Nat /\ len_next \in Nat /\ n \in Nat
      <4>1. ConfigOf(t) \in Terms
        BY <1>1, ConfigFacts DEF LaunchpadTypes
      <4>2. len \in Nat
        BY <1>1, HoldingFacts DEF LaunchpadTypes
      <4>3. n \in Nat /\ Holding(u, t)'.entries \in Seq(0..MaxTime)
        BY <1>1 DEF AccountTokens
      <4> QED
        BY <4>1, <4>2, <4>3, LenProperties DEF Terms
    <3>2. n + seg * less = seg * len + seg * more /\ len_next + less = len + more
      BY <1>1, <2>1, <2>3
    <3> HIDE DEF seg, len, len_next, n
    <3>3. seg * (len_next + less) = seg * len_next + seg * less
      BY <3>1, SMT
    <3>4. seg * (len + more) = seg * len + seg * more
      BY <3>1, SMT
    <3>5. seg * len_next \in Int /\ seg * less \in Int
      BY <3>1, SMT
    <3>6. seg * len_next + seg * less = n + seg * less
      BY <3>2, <3>3, <3>4
    <3>7. n = seg * len_next
      BY <3>1, <3>5, <3>6
    <3> QED
      BY <2>1, <2>3, <3>7 DEF n, seg, len_next
  <2> QED
    BY <2>2, <2>3
<1>6. LocksAreBacked'
  BY <1>4, <1>5 DEF LocksAreBacked
<1> QED
  BY <1>1, <1>2, <1>3, <1>6 DEF LaunchpadInv

\* Time passes, and the sale does what it does: nothing of the launchpad changes.
LEMMA UnchangedKeepsLaunchpadInv ==
  ASSUME LaunchpadInv, UNCHANGED launchpadVars, now' \in 0..MaxTime
  PROVE  LaunchpadInv' /\ \A s \in LockTokens : Supported(s)' <=> Supported(s)
<1>1. /\ tokens' = tokens /\ owners' = owners /\ held' = held /\ funds' = funds
      /\ wallets' = wallets
  BY DEF launchpadVars
<1>2. \A s \in LockTokens : (Supported(s)' <=> Supported(s)) /\ ConfigOf(s)' = ConfigOf(s)
  <2>1. \A s \in LockTokens : Supported(s)' <=> Supported(s)
    BY <1>1 DEF Supported
  <2>2. \A s \in LockTokens : ConfigOf(s)' = ConfigOf(s)
    BY <1>1 DEF ConfigOf, SelectInSeq
  <2> QED
    BY <2>1, <2>2
<1>3. \A u \in Users, t \in LockTokens : Holding(u, t)' = Holding(u, t)
  BY <1>1 DEF Holding
<1>4. LaunchpadTypes' /\ OneEach' /\ Vacant'
  BY <1>1, <1>2, <1>3 DEF LaunchpadInv, LaunchpadTypes, OneEach, Vacant
<1>5. ASSUME NEW t \in LockTokens
      PROVE  SumOver([u \in Users |-> Holding(u, t)'.balance], Users) <= funds'[t]
  <2>1. [u \in Users |-> Holding(u, t)'.balance] = [u \in Users |-> Holding(u, t).balance]
    BY <1>3
  <2> QED
    BY <1>1, <2>1 DEF LaunchpadInv, LocksAreBacked
<1>6. LocksAreBacked'
  BY <1>2, <1>3, <1>5 DEF LaunchpadInv, LocksAreBacked
<1> QED
  BY <1>2, <1>4, <1>6 DEF LaunchpadInv

\* The list of terms grows by those that the admin adds.
LEMMA AddTokenKeepsTypes ==
  ASSUME LaunchpadTypes, NEW c \in Settings, AdminAddToken(c)
  PROVE  LaunchpadTypes'
<1>1. /\ tokens' = Append(tokens, c)
      /\ owners' = owners /\ held' = held /\ funds' = funds /\ wallets' = wallets /\ now' = now
  BY DEF AdminAddToken
<1>2. c \in Terms /\ tokens \in Seq(Terms)
  BY LaunchpadConstants DEF LaunchpadTypes
<1>3. tokens' \in Seq(Terms) /\ \A x : x \in ToSet(tokens') <=> x \in ToSet(tokens) \/ x = c
  <2>1. tokens' \in Seq(Terms)
    BY <1>1, <1>2, MembersOfAppended
  <2>2. \A x : x \in ToSet(tokens') <=> x \in ToSet(tokens) \/ x = c
    <3>1. Adds(tokens', tokens, c)
      BY <1>1, <1>2, MembersOfAppended
    <3> QED
      BY <3>1 DEF Adds
  <2> QED
    BY <2>1, <2>2
<1>4. \A x \in ToSet(tokens') : x \in Settings \cup ToSet(InitialTokens)
  BY <1>3 DEF LaunchpadTypes
<1> QED
  BY <1>1, <1>3, <1>4 DEF LaunchpadTypes

\* A token is added: nothing was locked in it before.
LEMMA AddTokenKeepsLaunchpadInv ==
  ASSUME LaunchpadInv, NEW c \in Settings, AdminAddToken(c)
  PROVE  LaunchpadInv' /\ \A s \in LockTokens : Supported(s) => Supported(s)'
<1> DEFINE n == Len(tokens)
<1>1. /\ ~Supported(c.token) /\ tokens' = Append(tokens, c)
      /\ owners' = owners /\ held' = held /\ funds' = funds /\ wallets' = wallets /\ now' = now
  BY DEF AdminAddToken
<1>2. c \in Terms /\ tokens \in Seq(Terms) /\ n \in Nat /\ DOMAIN tokens = 1..n
  BY LaunchpadConstants, LenProperties DEF LaunchpadInv, LaunchpadTypes
<1>3. /\ tokens' \in Seq(Terms) /\ Len(tokens') = n + 1 /\ DOMAIN tokens' = 1..(n + 1)
      /\ \A i \in 1..n : tokens'[i] = tokens[i]
      /\ tokens'[n + 1] = c
  BY <1>1, <1>2, AppendProperties, LenProperties
<1>4. /\ \A i \in 1..(n + 1) : i \in 1..n \/ i = n + 1
      /\ n + 1 \in 1..(n + 1) /\ \A i \in 1..n : i \in 1..(n + 1) /\ tokens[i].token # c.token
  BY <1>1, <1>2 DEF Supported
<1> HIDE DEF n
<1>5. OneEach'
  BY <1>2, <1>3, <1>4 DEF LaunchpadInv, OneEach
<1>6. /\ Supported(c.token)'
      /\ \A s : Supported(s)' <=> Supported(s) \/ s = c.token
  BY <1>2, <1>3, <1>4 DEF Supported
<1>7. \A u \in Users, t \in LockTokens : Holding(u, t)' = Holding(u, t)
  BY <1>1 DEF Holding
<1>8. LaunchpadTypes' /\ Vacant'
  <2>1. LaunchpadTypes'
    BY AddTokenKeepsTypes DEF LaunchpadInv
  <2> QED
    BY <1>6, <1>7, <2>1 DEF LaunchpadInv, Vacant
<1>9. ASSUME NEW t \in LockTokens
      PROVE  SumOver([u \in Users |-> Holding(u, t)'.balance], Users) <= funds'[t]
  <2>1. [u \in Users |-> Holding(u, t)'.balance] = [u \in Users |-> Holding(u, t).balance]
    BY <1>7
  <2> QED
    BY <1>1, <2>1 DEF LaunchpadInv, LocksAreBacked
<1>10. ASSUME NEW t \in LockTokens, Supported(t)', NEW u \in Users
       PROVE  Holding(u, t)'.balance = ConfigOf(t)'.segment * Len(Holding(u, t)'.entries)
  <2>1. PICK i \in DOMAIN tokens' : tokens'[i].token = t
    BY <1>10 DEF Supported
  <2>2. ConfigOf(t)' = ConfigIn(tokens', t)
    BY DEF ConfigOf, ConfigIn, SelectInSeq
  <2>3. ConfigOf(t)' \in Terms /\ ConfigOf(t)' = tokens'[i]
    <3>1. /\ ConfigOf(t)' \in Terms /\ ConfigOf(t)'.token = t
          /\ \E j \in DOMAIN tokens' : ConfigOf(t)' = tokens'[j]
      BY <1>3, <2>1, <2>2, ConfigInFacts
    <3> QED
      BY <1>5, <2>1, <3>1 DEF OneEach
  <2>4. CASE t = c.token
    <3>1. ~Supported(t)
      BY <1>1, <2>4
    <3>2. Holding(u, t).balance = 0 /\ Len(Holding(u, t).entries) = 0
      BY <3>1 DEF LaunchpadInv, Vacant
    <3>3. ConfigOf(t)'.segment \in Nat
      BY <2>3 DEF Terms
    <3>4. ConfigOf(t)'.segment * 0 = 0
      BY <3>3, SMT
    <3> QED
      BY <1>7, <3>2, <3>4
  <2>5. CASE t # c.token
    <3>1. i \in DOMAIN tokens /\ tokens'[i] = tokens[i]
      BY <1>2, <1>3, <1>4, <2>1, <2>5
    <3>2. tokens[i].token = t
      BY <2>1, <3>1
    <3>3. ConfigOf(t) = tokens[i] /\ Supported(t)
      BY <1>2, <3>1, <3>2, ConfigIsUnique DEF LaunchpadInv
    <3>4. ConfigOf(t)' = ConfigOf(t)
      BY <2>3, <3>1, <3>3
    <3>5. Holding(u, t).balance = ConfigOf(t).segment * Len(Holding(u, t).entries)
      BY <3>3 DEF LaunchpadInv, LocksAreBacked
    <3> QED
      BY <1>7, <3>4, <3>5
  <2> QED
    BY <2>4, <2>5
<1>11. LocksAreBacked'
  BY <1>9, <1>10 DEF LocksAreBacked
<1> QED
  BY <1>5, <1>6, <1>8, <1>11 DEF LaunchpadInv

\* Whatever is unlocked of a token that is removed, what is left are balances and entries.
LEMMA RemoveTokenKeepsTypes ==
  ASSUME LaunchpadTypes, NEW i \in DOMAIN tokens, AdminRemoveToken(i)
  PROVE  LaunchpadTypes'
<1> DEFINE c == tokens[i]
           everybody == ToSet(owners)
           refund == [u \in Users |-> IF u \in everybody THEN c.segment * Refundable(u, c) ELSE 0]
           total == SumOver(refund, Users)
<1>1. /\ \A u \in everybody : CanUnlock(u, c, Refundable(u, c))
      /\ total <= funds[c.token]
      /\ tokens' = RemoveAt(tokens, i)
      /\ held' = [u \in Users |->
                    IF u \in everybody
                    THEN [held[u] EXCEPT ![c.token] = AfterUnlock(@, c, Refundable(u, c))]
                    ELSE held[u]]
      /\ funds' = [funds EXCEPT ![c.token] = @ - total]
      /\ wallets' = [u \in Users |-> [wallets[u] EXCEPT ![c.token] = @ + refund[u]]]
      /\ owners' = owners /\ now' = now
  BY DEF AdminRemoveToken
<1>2. /\ tokens \in Seq(Terms) /\ Len(tokens) \in Nat /\ i \in 1..Len(tokens)
      /\ held \in [Users -> AccountsHeld] /\ Forever \in Nat /\ owners \in Seq(Users)
      /\ c \in ToSet(tokens)
  BY LaunchpadConstants, LenProperties DEF LaunchpadTypes, ToSet
<1>3. c \in Terms /\ c.token \in LockTokens /\ c.segment \in Nat
  <2>1. c \in Terms
    BY <1>2, ElementOfSeq
  <2> QED
    BY <2>1 DEF Terms
<1> HIDE DEF c, total
<1>4. \A u \in Users : Refundable(u, c) \in Nat
  <2> SUFFICES ASSUME NEW u \in Users PROVE Refundable(u, c) \in Nat
    OBVIOUS
  <2> DEFINE b == BondedEntries(u, c, Forever)
  <2>1. Forever \in Int /\ b = BondedEntries(u, c, Forever)
    BY <1>2
  <2> HIDE DEF b
  <2>2. Len(b) \in Nat
    BY <1>2, <1>3, <2>1, BondedFacts
  <2> QED
    BY <2>2 DEF Refundable, b
<1>5. \A u \in Users : refund[u] \in Nat
  <2>1. \A u \in Users : c.segment * Refundable(u, c) \in Nat
    BY <1>3, <1>4, SMT
  <2> QED
    BY <2>1
<1>6. ASSUME NEW u \in Users
      PROVE  held'[u] \in AccountsHeld /\ DOMAIN held'[u] = DOMAIN held[u]
  <2>1. CASE u \in everybody
    <3> DEFINE count == Refundable(u, c)
               new == AfterUnlock(held[u][c.token], c, count)
    <3>1. CanUnlock(u, c, count) /\ count \in Nat
      BY <1>1, <1>4, <2>1
    <3>2. Holding(u, c.token) = held[u][c.token]
      BY <3>1 DEF CanUnlock, Holding
    <3>3. new = AfterUnlock(Holding(u, c.token), c, count)
      BY <3>2
    <3>4. held'[u] = [held[u] EXCEPT ![c.token] = new]
      BY <1>1, <2>1
    <3> HIDE DEF new, count
    <3>5. new \in AccountTokens
      BY <1>2, <1>3, <3>1, <3>3, UnlockedFacts
    <3>6. /\ DOMAIN held[u] \in SUBSET LockTokens
          /\ held[u] \in [DOMAIN held[u] -> AccountTokens]
      BY <1>2, <1>3, HoldingFacts
    <3>7. held'[u] \in [DOMAIN held[u] -> AccountTokens]
      BY <3>4, <3>5, <3>6
    <3> QED
      BY <3>6, <3>7 DEF AccountsHeld
  <2>2. CASE u \notin everybody
    BY <1>1, <1>2, <2>2
  <2> QED
    BY <2>1, <2>2
<1>7. held' \in [Users -> AccountsHeld]
  <2>1. DOMAIN held' = Users /\ held' = [u \in Users |-> held'[u]]
    BY <1>1
  <2> QED
    BY <1>6, <2>1
<1> HIDE DEF refund
<1>8. funds' \in [LockTokens -> Nat]
  <2>1. total \in Nat
    <3>1. \A u \in Users : refund[u] \in Int /\ refund[u] >= 0
      BY <1>5
    <3> QED
      BY <3>1, SumType, LaunchpadConstants DEF total
  <2>2. funds \in [LockTokens -> Nat] /\ funds[c.token] \in Nat
    BY <1>3 DEF LaunchpadTypes
  <2>3. funds[c.token] - total \in Nat
    BY <1>1, <2>1, <2>2
  <2> QED
    BY <1>1, <1>3, <2>2, <2>3
<1>9. wallets' \in [Users -> [LockTokens -> Nat]]
  <2>1. wallets \in [Users -> [LockTokens -> Nat]]
    BY DEF LaunchpadTypes
  <2>2. ASSUME NEW u \in Users PROVE wallets'[u] \in [LockTokens -> Nat]
    <3>1. wallets[u] \in [LockTokens -> Nat] /\ wallets[u][c.token] \in Nat
      BY <1>3, <2>1
    <3>2. wallets'[u] = [wallets[u] EXCEPT ![c.token] = @ + refund[u]] /\ refund[u] \in Nat
      BY <1>1, <1>5
    <3> QED
      BY <1>3, <3>1, <3>2
  <2>3. DOMAIN wallets' = Users /\ wallets' = [u \in Users |-> wallets'[u]]
    BY <1>1
  <2> QED
    BY <2>2, <2>3
<1>10. tokens' \in Seq(Terms) /\ \A x \in ToSet(tokens') : x \in Settings \cup ToSet(InitialTokens)
  <2>1. tokens' \in Seq(Terms) /\ Len(tokens') + 1 = Len(tokens) /\ SkipsPlace(tokens', tokens, i)
    <3>1. tokens' \in Seq(Terms)
      BY <1>1, <1>2, RemovedFacts
    <3>2. Len(tokens') + 1 = Len(tokens)
      BY <1>1, <1>2, RemovedFacts
    <3>3. SkipsPlace(tokens', tokens, i)
      BY <1>1, <1>2, RemovedFacts
    <3> QED
      BY <3>1, <3>2, <3>3
  <2>2. Len(tokens') \in Nat /\ \A x : x \in ToSet(tokens') <=> \E k \in 1..Len(tokens') : tokens'[k] = x
    BY <2>1, MembersOf
  <2>3. \A j \in 1..Len(tokens') : PlaceBefore(i, j) \in 1..Len(tokens)
    BY <1>2, <2>1, <2>2 DEF PlaceBefore
  <2>4. \A j \in 1..Len(tokens') : \E k \in 1..Len(tokens) : tokens'[j] = tokens[k]
    BY <2>1, <2>3 DEF SkipsPlace
  <2>5. \A x : x \in ToSet(tokens) <=> \E k \in 1..Len(tokens) : tokens[k] = x
    BY <1>2, MembersOf
  <2>6. \A x \in ToSet(tokens') : x \in ToSet(tokens)
    BY <2>2, <2>4, <2>5
  <2> QED
    BY <2>1, <2>6 DEF LaunchpadTypes
<1> QED
  BY <1>1, <1>6, <1>7, <1>8, <1>9, <1>10 DEF LaunchpadTypes

\* A token is removed: everybody gets back the whole balance, and no entry is left.
LEMMA RemoveTokenKeepsLaunchpadInv ==
  ASSUME LaunchpadInv, AllBondByForever, NEW i \in DOMAIN tokens, AdminRemoveToken(i),
         NEW c, c = tokens[i], NEW t, t = c.token
  PROVE  /\ LaunchpadInv'
         /\ \A s \in LockTokens : Supported(s)' <=> Supported(s) /\ s # t
         /\ \A u \in Users : wallets'[u][t] = wallets[u][t] + Holding(u, t).balance
<1> DEFINE everybody == ToSet(owners)
           refund == [u \in Users |-> IF u \in everybody THEN c.segment * Refundable(u, c) ELSE 0]
           total == SumOver(refund, Users)
           n == Len(tokens)
<1>1. /\ \A u \in everybody : CanUnlock(u, c, Refundable(u, c))
      /\ total <= funds[t]
      /\ tokens' = RemoveAt(tokens, i)
      /\ held' = [u \in Users |->
                    IF u \in everybody
                    THEN [held[u] EXCEPT ![t] = AfterUnlock(@, c, Refundable(u, c))]
                    ELSE held[u]]
      /\ funds' = [funds EXCEPT ![t] = @ - total]
      /\ wallets' = [u \in Users |-> [wallets[u] EXCEPT ![t] = @ + refund[u]]]
      /\ owners' = owners /\ now' = now
  BY DEF AdminRemoveToken
<1>2. /\ LaunchpadTypes /\ OneEach /\ Vacant /\ LocksAreBacked
      /\ tokens \in Seq(Terms) /\ n \in Nat /\ DOMAIN tokens = 1..n /\ i \in 1..n
      /\ held \in [Users -> AccountsHeld] /\ Forever \in Nat
  BY LaunchpadConstants, LenProperties DEF LaunchpadInv, LaunchpadTypes
<1>3. /\ c \in Terms /\ t \in LockTokens /\ c.segment \in Nat
      /\ ConfigOf(t) = c /\ Supported(t) /\ MaxTime + c.bonding <= Forever
  <2>1. c \in Terms /\ ConfigOf(t) = c /\ Supported(t)
    BY <1>2, ElementOfSeq, ConfigIsUnique
  <2>2. c \in Settings \cup ToSet(InitialTokens)
    BY <1>2 DEF LaunchpadTypes, ToSet
  <2> QED
    BY <2>1, <2>2 DEF Terms, AllBondByForever
<1> HIDE DEF total, n
\* What is refunded is all that is held.
<1>4. ASSUME NEW u \in Users
      PROVE  /\ refund[u] = Holding(u, t).balance /\ Holding(u, t).balance \in Nat
             /\ u \in everybody => /\ Refundable(u, c) = Len(Holding(u, t).entries)
                                   /\ Refundable(u, c) \in Nat
                                   /\ CanUnlock(u, c, Refundable(u, c))
             /\ u \notin everybody => t \notin DOMAIN held[u]
  <2>1. Holding(u, t).balance \in Nat
    BY <1>2, <1>3, HoldingFacts
  <2>2. CASE u \in everybody
    <3> DEFINE b == BondedEntries(u, c, Forever)
    <3>1. Len(b) \in Nat /\ Len(b) = Len(Holding(u, t).entries)
      <4>1. Forever \in Int /\ b = BondedEntries(u, c, Forever)
        BY <1>2
      <4> HIDE DEF b
      <4> QED
        BY <1>2, <1>3, <4>1, BondedFacts
    <3>2. Refundable(u, c) = Len(b)
      BY DEF Refundable
    <3>3. Holding(u, t).balance = c.segment * Len(Holding(u, t).entries)
      BY <1>2, <1>3 DEF LocksAreBacked
    <3> QED
      BY <1>1, <2>1, <2>2, <3>1, <3>2, <3>3
  <2>3. CASE u \notin everybody
    <3>1. DOMAIN held[u] = {}
      BY <1>2, <2>3 DEF LaunchpadTypes
    <3>2. Holding(u, t).balance = 0
      BY <3>1 DEF Holding
    <3> QED
      BY <2>3, <3>1, <3>2
  <2> QED
    BY <2>2, <2>3
\* No account is left with any of it.
<1>5. ASSUME NEW u \in Users
      PROVE  /\ held'[u] \in AccountsHeld /\ DOMAIN held'[u] = DOMAIN held[u]
             /\ t \in DOMAIN held[u] => held'[u][t].balance = 0 /\ Len(held'[u][t].entries) = 0
             /\ \A s \in DOMAIN held[u] : s # t => held'[u][s] = held[u][s]
  <2>1. CASE u \in everybody
    <3> DEFINE count == Refundable(u, c)
               new == AfterUnlock(held[u][t], c, count)
    <3>1. CanUnlock(u, c, count) /\ count \in Nat /\ count = Len(Holding(u, t).entries)
      BY <1>4, <2>1
    <3>2. Holding(u, c.token) = held[u][t]
      BY <3>1 DEF CanUnlock, Holding
    <3>3. new = AfterUnlock(Holding(u, c.token), c, count)
      BY <3>2
    <3> HIDE DEF new, count
    <3>4. /\ new \in AccountTokens /\ t \in DOMAIN held[u]
          /\ c.segment * count \in Nat
          /\ new.balance + c.segment * count = Holding(u, t).balance
          /\ Len(new.entries) + count = Len(Holding(u, t).entries)
      <4>1. /\ held \in [Users -> AccountsHeld] /\ u \in Users /\ c \in Terms /\ count \in Nat
            /\ CanUnlock(u, c, count)
        BY <1>2, <1>3, <3>1
      <4>2. new \in AccountTokens
        BY <4>1, <3>3, UnlockedFacts
      <4>3. t \in DOMAIN held[u]
        BY <4>1, <3>3, UnlockedFacts
      <4>4. c.segment * count \in Nat
        BY <4>1, <3>3, UnlockedFacts
      <4>5. new.balance + c.segment * count = Holding(u, c.token).balance
        BY <4>1, <3>3, UnlockedFacts
      <4>6. Len(new.entries) + count = Len(Holding(u, c.token).entries)
        BY <4>1, <3>3, UnlockedFacts
      <4> QED
        BY <4>2, <4>3, <4>4, <4>5, <4>6
    <3>5. Holding(u, t).balance = c.segment * count
      BY <1>4, <2>1 DEF count
    <3>6. new.balance \in Nat /\ Len(new.entries) \in Nat
      BY <3>4, LenProperties DEF AccountTokens
    <3>7. new.balance = 0 /\ Len(new.entries) = 0
      <4> DEFINE owed == c.segment * count
                 n1 == new.balance
                 n2 == Len(new.entries)
      <4>1. /\ owed \in Nat /\ n1 \in Nat /\ n2 \in Nat /\ count \in Nat
            /\ n1 + owed = owed /\ n2 + count = count
        BY <3>1, <3>4, <3>5, <3>6
      <4> HIDE DEF owed, n1, n2
      <4>2. n1 = 0 /\ n2 = 0
        BY <4>1
      <4> QED
        BY <4>2 DEF n1, n2
    <3>8. held'[u] = [held[u] EXCEPT ![t] = new]
      BY <1>1, <2>1 DEF new, count
    <3>9. /\ DOMAIN held[u] \in SUBSET LockTokens
          /\ held[u] \in [DOMAIN held[u] -> AccountTokens]
      BY <1>2, <1>3, HoldingFacts
    <3>10. held'[u] \in [DOMAIN held[u] -> AccountTokens] /\ held'[u][t] = new
           /\ \A s \in DOMAIN held[u] : s # t => held'[u][s] = held[u][s]
      BY <3>4, <3>8, <3>9
    <3> QED
      BY <3>7, <3>9, <3>10 DEF AccountsHeld
  <2>2. CASE u \notin everybody
    <3>1. held'[u] = held[u] /\ t \notin DOMAIN held[u] /\ held[u] \in AccountsHeld
      BY <1>1, <1>2, <1>4, <2>2
    <3> QED
      BY <3>1
  <2> QED
    BY <2>1, <2>2
<1>6. \A u \in Users : Holding(u, t)'.balance = 0 /\ Len(Holding(u, t)'.entries) = 0
  <2>1. Len(<<>>) = 0
    BY EmptySeq
  <2> QED
    BY <1>5, <2>1 DEF Holding
<1>7. \A u \in Users, s \in LockTokens : s # t => Holding(u, s)' = Holding(u, s)
  BY <1>5 DEF Holding
<1> HIDE DEF refund
<1>8. total = SumOver([u \in Users |-> Holding(u, t).balance], Users) /\ total \in Nat
  <2>1. refund = [u \in Users |-> Holding(u, t).balance]
    BY <1>4 DEF refund
  <2>2. SumOver([u \in Users |-> Holding(u, t).balance], Users) \in Nat
    BY <1>2, <1>3, BalancesAdd
  <2> QED
    BY <2>1, <2>2 DEF total
<1>9. /\ funds' \in [LockTokens -> Nat]
      /\ \A s \in LockTokens : s # t => funds'[s] = funds[s]
  <2>1. funds \in [LockTokens -> Nat] /\ funds[t] \in Nat
    BY <1>2, <1>3 DEF LaunchpadTypes
  <2>2. funds[t] - total \in Nat
    BY <1>1, <1>8, <2>1
  <2> QED
    BY <1>1, <1>3, <2>1, <2>2
<1>10. /\ wallets' \in [Users -> [LockTokens -> Nat]]
       /\ \A u \in Users : wallets'[u][t] = wallets[u][t] + Holding(u, t).balance
  <2>1. wallets \in [Users -> [LockTokens -> Nat]]
    BY <1>2 DEF LaunchpadTypes
  <2>2. ASSUME NEW u \in Users
        PROVE  /\ wallets'[u] \in [LockTokens -> Nat]
               /\ wallets'[u][t] = wallets[u][t] + Holding(u, t).balance
    <3>1. wallets[u] \in [LockTokens -> Nat] /\ wallets[u][t] \in Nat
      BY <1>3, <2>1
    <3>2. wallets'[u] = [wallets[u] EXCEPT ![t] = @ + refund[u]]
      BY <1>1
    <3>3. refund[u] = Holding(u, t).balance /\ refund[u] \in Nat
      BY <1>4
    <3> QED
      BY <1>3, <3>1, <3>2, <3>3
  <2>3. DOMAIN wallets' = Users /\ wallets' = [u \in Users |-> wallets'[u]]
    BY <1>1
  <2> QED
    BY <2>2, <2>3
\* What is left of the list.
<1>11. /\ tokens' \in Seq(Terms) /\ Len(tokens') + 1 = n /\ DOMAIN tokens' = 1..Len(tokens')
       /\ Len(tokens') \in Nat
       /\ \A j \in 1..Len(tokens'), k \in 1..n :
            k = PlaceBefore(i, j) => tokens'[j] = tokens[k]
  <2>1. /\ tokens' \in Seq(Terms) /\ Len(tokens') + 1 = n
        /\ \A j \in 1..Len(tokens'), k \in 1..n :
             k = PlaceBefore(i, j) => tokens'[j] = tokens[k]
    <3>1. tokens' = RemoveAt(tokens, i) /\ tokens \in Seq(Terms) /\ i \in 1..Len(tokens)
      BY <1>1, <1>2 DEF n
    <3>3. tokens' \in Seq(Terms)
      BY <3>1, RemovedFacts
    <3>4. Len(tokens') + 1 = Len(tokens)
      BY <3>1, RemovedFacts
    <3>5. SkipsPlace(tokens', tokens, i)
      BY <3>1, RemovedFacts
    <3> QED
      BY <3>3, <3>4, <3>5 DEF n, SkipsPlace
  <2> QED
    BY <2>1, LenProperties
<1>12. \A j \in 1..Len(tokens') :
         \E k \in 1..n : k # i /\ tokens'[j] = tokens[k] /\ k = PlaceBefore(i, j)
  <2>1. \A j \in 1..Len(tokens') : PlaceBefore(i, j) \in 1..n /\ PlaceBefore(i, j) # i
    BY <1>2, <1>11 DEF PlaceBefore
  <2> QED
    BY <1>11, <2>1
<1>13. \A k \in 1..n : k # i => \E j \in 1..Len(tokens') : tokens'[j] = tokens[k]
  <2> SUFFICES ASSUME NEW k \in 1..n, k # i PROVE \E j \in 1..Len(tokens') : tokens'[j] = tokens[k]
    OBVIOUS
  <2>1. CASE k < i
    <3>1. k \in 1..Len(tokens') /\ k = PlaceBefore(i, k)
      BY <1>2, <1>11, <2>1 DEF PlaceBefore
    <3> QED
      BY <1>11, <2>1, <3>1
  <2>2. CASE k > i
    <3>1. k - 1 \in 1..Len(tokens') /\ k = PlaceBefore(i, k - 1)
      BY <1>2, <1>11, <2>2 DEF PlaceBefore
    <3> QED
      BY <1>11, <3>1
  <2> QED
    BY <1>2, <2>1, <2>2
<1>14. OneEach'
  <2> SUFFICES ASSUME NEW j \in 1..Len(tokens'), NEW k \in 1..Len(tokens'),
                      tokens'[j].token = tokens'[k].token
               PROVE  j = k
    BY <1>11 DEF OneEach
  <2>1. PICK p \in 1..n : tokens'[j] = tokens[p] /\ p = PlaceBefore(i, j)
    BY <1>12
  <2>2. PICK q \in 1..n : tokens'[k] = tokens[q] /\ q = PlaceBefore(i, k)
    BY <1>12
  <2>3. p = q
    BY <1>2, <2>1, <2>2 DEF OneEach
  <2> QED
    BY <1>2, <1>11, <2>1, <2>2, <2>3 DEF PlaceBefore
<1>15. ASSUME NEW s PROVE Supported(s)' <=> Supported(s) /\ s # t
  <2>1. Supported(s)' => \E j \in 1..Len(tokens') : tokens'[j].token = s
    BY <1>11 DEF Supported
  <2>2. (\E j \in 1..Len(tokens') : tokens'[j].token = s) => Supported(s)'
    BY <1>11 DEF Supported
  <2>3. Supported(s) <=> \E k \in 1..n : tokens[k].token = s
    BY <1>2 DEF Supported
  <2>4. \A k \in 1..n : tokens[k].token = t => k = i
    BY <1>2 DEF OneEach
  <2>5. tokens[i].token = t
    OBVIOUS
  <2> QED
    BY <1>12, <1>13, <2>1, <2>2, <2>3, <2>4, <2>5
<1>16. ASSUME NEW s \in LockTokens, Supported(s)'
       PROVE  ConfigOf(s)' = ConfigOf(s) /\ s # t /\ Supported(s)
  <2>1. s # t /\ Supported(s)
    BY <1>15, <1>16
  <2>2. ConfigOf(s)' = ConfigIn(tokens', s)
    BY DEF ConfigOf, ConfigIn, SelectInSeq
  <2>3. /\ ConfigOf(s)'.token = s /\ \E j \in DOMAIN tokens' : ConfigOf(s)' = tokens'[j]
    BY <1>11, <1>16, <2>2, ConfigInFacts DEF Supported
  <2>4. PICK k \in 1..n : ConfigOf(s)' = tokens[k]
    BY <1>11, <1>12, <2>3
  <2>5. ConfigOf(tokens[k].token) = tokens[k] /\ tokens[k].token = s
    BY <1>2, <2>3, <2>4, ConfigIsUnique
  <2> QED
    BY <2>1, <2>4, <2>5
<1>17. LaunchpadTypes'
  BY <1>2, RemoveTokenKeepsTypes
<1>18. Vacant'
  BY <1>2, <1>6, <1>7, <1>15 DEF Vacant
<1>19. ASSUME NEW s \in LockTokens
       PROVE  SumOver([u \in Users |-> Holding(u, s)'.balance], Users) <= funds'[s]
  <2> DEFINE g == [u \in Users |-> Holding(u, s)'.balance]
  <2>1. CASE s = t
    <3>1. \A u \in Users : g[u] = 0
      BY <1>6, <2>1
    <3> HIDE DEF g
    <3>2. SumOver(g, Users) = 0
      BY <3>1, SumOfZeros, LaunchpadConstants
    <3>3. funds'[s] \in Nat
      BY <1>9
    <3> QED
      BY <3>2, <3>3 DEF g
  <2>2. CASE s # t
    <3>1. g = [u \in Users |-> Holding(u, s).balance]
      BY <1>7, <2>2
    <3> QED
      BY <1>2, <1>9, <2>2, <3>1 DEF LocksAreBacked
  <2> QED
    BY <2>1, <2>2
<1>20. LocksAreBacked'
  <2>1. ASSUME NEW s \in LockTokens, Supported(s)', NEW u \in Users
        PROVE  Holding(u, s)'.balance = ConfigOf(s)'.segment * Len(Holding(u, s)'.entries)
    <3>1. Holding(u, s)' = Holding(u, s) /\ ConfigOf(s)' = ConfigOf(s) /\ Supported(s)
      BY <1>7, <1>16, <2>1
    <3>2. Holding(u, s).balance = ConfigOf(s).segment * Len(Holding(u, s).entries)
      BY <1>2, <3>1 DEF LocksAreBacked
    <3> QED
      BY <3>1, <3>2
  <2> QED
    BY <1>19, <2>1 DEF LocksAreBacked
<1> QED
  BY <1>10, <1>14, <1>15, <1>17, <1>18, <1>20 DEF LaunchpadInv

\* What a step gives back to those whose token it removes.
RefundsAll ==
  \A t \in LockTokens : Supported(t) /\ ~(Supported(t))' =>
    \A u \in Users : wallets'[u][t] = wallets[u][t] + Holding(u, t).balance

LEMMA StepLaunchpadInv ==
  ASSUME AllBondByForever, LaunchpadInv, [Next]_vars
  PROVE  LaunchpadInv' /\ RefundsAll
<1>1. CASE LaunchpadNext
  <2>1. ASSUME NEW u \in Users, NEW t \in LockTokens, NEW more \in Nat, NEW less \in Nat,
               Moves(u, t, more, less)
        PROVE  LaunchpadInv' /\ RefundsAll
    <3>1. LaunchpadInv' /\ \A s \in LockTokens : Supported(s)' <=> Supported(s)
      BY <2>1, MovesKeepLaunchpadInv
    <3> QED
      BY <3>1 DEF RefundsAll
  <2>2. ASSUME NEW u \in Users, NEW t \in LockTokens, NEW n \in Deposits, Lock(u, t, n)
        PROVE  LaunchpadInv' /\ RefundsAll
    <3>1. n \in Nat /\ LaunchpadTypes
      BY LaunchpadConstants DEF LaunchpadInv
    <3>2. PICK k \in Nat : Moves(u, t, k, 0)
      BY <2>2, <3>1, LockFacts
    <3>3. 0 \in Nat
      OBVIOUS
    <3> QED
      BY <2>1, <3>2, <3>3
  <2>3. ASSUME NEW u \in Users, NEW t \in LockTokens,
               NEW count \in 0..Len(Holding(u, t).entries), NEW sent \in Strays,
               Unlock(u, t, count, sent)
        PROVE  LaunchpadInv' /\ RefundsAll
    <3>1. LaunchpadTypes /\ sent \in Nat /\ 0 \in Nat
      BY LaunchpadConstants DEF LaunchpadInv
    <3>2. Len(Holding(u, t).entries) \in Nat
      BY <3>1, HoldingFacts DEF LaunchpadTypes
    <3>3. count \in Nat
      BY <3>2
    <3>4. Moves(u, t, 0, count)
      BY <2>3, <3>1, <3>3, UnlockFacts
    <3> QED
      BY <2>1, <3>1, <3>3, <3>4
  <2>4. ASSUME NEW c \in Settings, AdminAddToken(c) PROVE LaunchpadInv' /\ RefundsAll
    <3>1. LaunchpadInv' /\ \A s \in LockTokens : Supported(s) => Supported(s)'
      BY <2>4, AddTokenKeepsLaunchpadInv
    <3> QED
      BY <3>1 DEF RefundsAll
  <2>5. ASSUME NEW i \in DOMAIN tokens, AdminRemoveToken(i) PROVE LaunchpadInv' /\ RefundsAll
    <3>1. \A c, t : c = tokens[i] /\ t = c.token =>
            /\ LaunchpadInv'
            /\ \A s \in LockTokens : Supported(s)' <=> Supported(s) /\ s # t
            /\ \A u \in Users : wallets'[u][t] = wallets[u][t] + Holding(u, t).balance
      BY <2>5, RemoveTokenKeepsLaunchpadInv
    <3>2. PICK c, t : c = tokens[i] /\ t = c.token
      OBVIOUS
    <3>3. /\ LaunchpadInv'
          /\ \A s \in LockTokens : Supported(s)' <=> Supported(s) /\ s # t
          /\ \A u \in Users : wallets'[u][t] = wallets[u][t] + Holding(u, t).balance
      BY <3>1, <3>2
    <3> QED
      BY <3>3 DEF RefundsAll
  <2> QED
    BY <1>1, <2>2, <2>3, <2>4, <2>5 DEF LaunchpadNext
<1>2. ASSUME UNCHANGED launchpadVars, now' \in 0..MaxTime PROVE LaunchpadInv' /\ RefundsAll
  <2>1. LaunchpadInv' /\ \A s \in LockTokens : Supported(s)' <=> Supported(s)
    BY <1>2, UnchangedKeepsLaunchpadInv
  <2> QED
    BY <2>1 DEF RefundsAll
<1>3. now \in 0..MaxTime /\ MaxTime \in Nat
  BY LaunchpadConstants DEF LaunchpadInv, LaunchpadTypes
<1>4. CASE Tick
  BY <1>2, <1>3, <1>4 DEF Tick
<1>5. CASE UNCHANGED vars
  BY <1>2, <1>3, <1>5 DEF vars
<1>6. CASE (\E s \in Sales : Instantiate(s)) \/ (\E list \in Additions : AdminAddAddresses(list))
  BY <1>2, <1>3, <1>6 DEF Instantiate, AdminAddAddresses
<1>7. CASE \/ \E n \in Supplies : SupplySold(n)
           \/ \E n \in Supplies \cup {0}, start \in Starts, end \in Ends : Activate(n, start, end)
           \/ AdminRefund \/ AdminClaim
  BY <1>2, <1>3, <1>7 DEF SupplySold, Activate, AdminRefund, AdminClaim
<1>8. CASE \/ \E u \in Users, n \in Payments : PreLock(u, n)
           \/ \E u \in Users, n \in Payments \cup {0} : Swap(u, n)
  BY <1>2, <1>3, <1>8 DEF PreLock, Swap
<1> QED
  BY <1>1, <1>4, <1>5, <1>6, <1>7, <1>8 DEF Next

LEMMA InitIsLaunchpadInit == Init => LaunchpadInit
BY DEF Init

\* The launchpad always has what its accounts have locked, and whoever is in a token it
\* supports has a segment locked for every entry (contracts/launchpad/launchpad/src/data.rs),
\* where init lists no token twice and all that is locked has bonded by the timestamp that
\* unlock_all uses.
THEOREM LocksAreBackedHolds ==
  ASSUME TokensListedOnce, AllBondByForever PROVE Spec => []LocksAreBacked
<1>1. Init => LaunchpadInv
  BY InitIsLaunchpadInit, InitLaunchpadInv
<1>2. LaunchpadInv /\ [Next]_vars => LaunchpadInv'
  BY StepLaunchpadInv
<1>3. LaunchpadInv => LocksAreBacked
  BY DEF LaunchpadInv
<1> QED
  BY <1>1, <1>2, <1>3, PTL DEF Spec

\* When the admin removes a token, every user gets back all that is locked in it, bonded
\* or not, under the same two conditions (contracts/launchpad/launchpad/src/handle.rs).
THEOREM RemovalRefundsAllHolds ==
  ASSUME TokensListedOnce, AllBondByForever PROVE Spec => RemovalRefundsAll
<1>1. Init => LaunchpadInv
  BY InitIsLaunchpadInit, InitLaunchpadInv
<1>2. LaunchpadInv /\ [Next]_vars => LaunchpadInv'
  BY StepLaunchpadInv
<1>3. LaunchpadInv /\ [Next]_vars =>
        [\A t \in LockTokens : Supported(t) /\ ~(Supported(t))' =>
           \A u \in Users : wallets'[u][t] = wallets[u][t] + Holding(u, t).balance
        ]_<<launchpadVars, now>>
  BY StepLaunchpadInv DEF RefundsAll
<1> QED
  BY <1>1, <1>2, <1>3, PTL DEF Spec, RemovalRefundsAll

-----------------------------------------------------------------------------
(* The draw.                                                               *)

Entry == [owner: Users, at: 0..MaxTime]
OwnersIn(list) == {e.owner : e \in ToSet(list)}

LEMMA AllBondedFacts ==
  ASSUME LaunchpadTypes, NEW asked \in Seq(LockTokens), \A i \in DOMAIN asked : Supported(asked[i]),
         NEW time \in Int, NEW list, list = AllBonded(asked, time)
  PROVE  list \in Seq(Entry)
<1> DEFINE Of(u, t) == LET at == BondedEntries(u, ConfigOf(t), time)
                       IN [i \in DOMAIN at |-> [owner |-> u, at |-> at[i]]]
           OfAccount(u) == FlattenSeq([i \in DOMAIN asked |-> Of(u, asked[i])])
           all == [i \in DOMAIN owners |-> OfAccount(owners[i])]
           E == Seq(Entry)
<1>1. /\ held \in [Users -> AccountsHeld] /\ tokens \in Seq(Terms)
      /\ owners \in Seq(Users) /\ Len(owners) \in Nat /\ DOMAIN owners = 1..Len(owners)
      /\ \A i \in 1..Len(owners) : owners[i] \in Users
      /\ Len(asked) \in Nat /\ DOMAIN asked = 1..Len(asked)
      /\ \A i \in 1..Len(asked) : asked[i] \in LockTokens
  BY LenProperties, ElementOfSeq DEF LaunchpadTypes
<1>2. ASSUME NEW u \in Users, NEW t \in LockTokens, Supported(t) PROVE Of(u, t) \in E
  <2> DEFINE at == BondedEntries(u, ConfigOf(t), time)
  <2>1. ConfigOf(t) \in Terms
    BY <1>1, <1>2, ConfigFacts
  <2>2. at \in Seq(0..MaxTime) /\ Len(at) \in Nat
    BY <1>1, <2>1, BondedFacts
  <2> HIDE DEF at
  <2>3. DOMAIN at = 1..Len(at) /\ \A i \in 1..Len(at) : at[i] \in 0..MaxTime
    BY <2>2, LenProperties, ElementOfSeq
  <2>4. [i \in 1..Len(at) |-> [owner |-> u, at |-> at[i]]] \in Seq(Entry)
    BY <2>2, <2>3 DEF Entry
  <2> QED
    BY <2>3, <2>4 DEF at
<1> HIDE DEF Of, E
<1>3. ASSUME NEW u \in Users PROVE OfAccount(u) \in E
  <2> DEFINE parts == [i \in DOMAIN asked |-> Of(u, asked[i])]
  <2>1. parts \in Seq(E)
    BY <1>1, <1>2
  <2> HIDE DEF parts
  <2>2. parts \in Seq(Seq(Entry))
    BY <2>1 DEF E
  <2>3. FlattenSeq(parts) \in Seq(Entry)
    BY <2>2, FlattenFacts
  <2> QED
    BY <2>3 DEF parts, E
<1> HIDE DEF OfAccount
<1>4. all \in Seq(E)
  BY <1>1, <1>3
<1>5. list = FlattenSeq(all)
  BY DEF AllBonded, Of, OfAccount
<1> HIDE DEF all
<1>6. all \in Seq(Seq(Entry))
  BY <1>4 DEF E
<1> QED
  BY <1>5, <1>6, FlattenFacts

\* Sorting neither adds nor loses an entry.
LEMMA OldestFirstFacts ==
  ASSUME NEW list \in Seq(Entry), NEW sorted, sorted = OldestFirst(list)
  PROVE  sorted \in Seq(Entry) /\ \A x : x \in ToSet(sorted) <=> x \in ToSet(list)
<1> DEFINE At(i) == Without(list, {e \in ToSet(list) : e.at # i - 1})
           parts == [i \in 1..MaxTime + 1 |-> At(i)]
           E == Seq(Entry)
           n == MaxTime + 1
<1>1. MaxTime \in Nat /\ n \in Nat /\ ToSet(list) \subseteq Entry
  BY LaunchpadConstants, MembersOf
<1>2. ASSUME NEW i \in 1..n
      PROVE  /\ At(i) \in E
             /\ \A x : x \in ToSet(At(i)) <=> x \in ToSet(list) /\ x.at = i - 1
  <2> DEFINE out == {e \in ToSet(list) : e.at # i - 1}
             r == At(i)
  <2>1. r = Without(list, out)
    OBVIOUS
  <2>2. \A x : x \in out <=> x \in ToSet(list) /\ x.at # i - 1
    OBVIOUS
  <2> HIDE DEF out, r
  <2>3. r \in Seq(Entry) /\ \A x : x \in ToSet(r) <=> x \in ToSet(list) /\ x \notin out
    BY <2>1, MembersLeft
  <2>4. r \in E
    BY <2>3 DEF E
  <2>5. \A x : x \in ToSet(r) <=> x \in ToSet(list) /\ x.at = i - 1
    BY <2>2, <2>3
  <2> QED
    BY <2>4, <2>5 DEF r
<1> HIDE DEF At, E
<1>3. parts \in Seq(E) /\ Len(parts) = n /\ \A i \in 1..n : parts[i] = At(i)
  BY <1>1, <1>2
<1>4. sorted = FlattenSeq(parts)
  BY DEF OldestFirst, At
<1> HIDE DEF parts, n
<1>5. parts \in Seq(Seq(Entry))
  BY <1>3 DEF E
<1>6. sorted \in Seq(Entry) /\ \A x : x \in ToSet(sorted) <=> AmongFirst(x, parts, n)
  BY <1>3, <1>4, <1>5, FlattenFacts
<1>7. \A x : AmongFirst(x, parts, n) <=> \E i \in 1..n : x \in ToSet(list) /\ x.at = i - 1
  BY <1>2, <1>3 DEF AmongFirst
<1>8. \A x \in ToSet(list) : \E i \in 1..n : x.at = i - 1
  <2> SUFFICES ASSUME NEW x \in ToSet(list) PROVE \E i \in 1..n : x.at = i - 1
    OBVIOUS
  <2>1. x.at \in 0..MaxTime
    BY <1>1 DEF Entry
  <2>2. x.at + 1 \in 1..n /\ x.at = (x.at + 1) - 1
    BY <1>1, <2>1 DEF n
  <2> QED
    BY <2>2
<1> QED
  BY <1>6, <1>7, <1>8

\* The place that is picked is one of the list.
LEMMA PickedFacts ==
  ASSUME NEW list \in Seq(Entry), list # <<>>, NEW percentage \in Percentages
  PROVE  Picked(list, percentage) \in 1..Len(list)
<1> DEFINE l == Len(list) - 1
           q == (percentage * l) \div 100
<1>1. Len(list) \in Nat \ {0} /\ percentage \in 0..100
  BY EmptySeq, IdoAssumption
<1>2. l \in Nat /\ percentage \in Nat /\ percentage <= 100 /\ l + 1 = Len(list)
  BY <1>1
<1> HIDE DEF l
<1>3. percentage * l <= 100 * l /\ percentage * l \in Nat
  <2>1. percentage \in Int /\ 100 \in Int /\ l \in Nat
    BY <1>2
  <2>2. percentage * l <= 100 * l
    BY <1>2, <2>1, ProductGrows
  <2>3. percentage * l \in Nat
    BY <1>2, SMT
  <2> QED
    BY <2>2, <2>3
<1>4. q \in Nat /\ q * 100 <= percentage * l
  BY <1>3, QuotientBounds
<1> HIDE DEF q
<1>5. q <= l
  BY <1>2, <1>3, <1>4
<1>6. Picked(list, percentage) = q + 1
  BY DEF Picked, q, l
<1> QED
  BY <1>2, <1>4, <1>5, <1>6

Draws == [left: Seq(Entry), drawn: Seq(Users)]

\* One pass of the loop of draw_addresses.
AfterDraw(before, percentage) ==
  LET index == Picked(before.left, percentage)
  IN IF before.left = <<>> THEN before
     ELSE [left |-> WithoutOwner(before.left, index),
           drawn |-> Append(before.drawn, before.left[index].owner)]

DrawStep(g, base, number, percentage) ==
  [n \in 0..number |-> IF n = 0 THEN base ELSE AfterDraw(g[n - 1], percentage)]

\* What holds of the draw among the addresses B after k passes: those drawn and those
\* left make up B, nobody is drawn twice, and there are fewer than k only when nobody
\* is left.
DrawnFrom(B, state, k) ==
  /\ state \in Draws
  /\ \A u : u \in B <=> u \in OwnersIn(state.left) \/ u \in ToSet(state.drawn)
  /\ \A u : ~(u \in OwnersIn(state.left) /\ u \in ToSet(state.drawn))
  /\ Injective(state.drawn)
  /\ Len(state.drawn) <= k
  /\ Len(state.drawn) < k => state.left = <<>>

LEMMA AfterDrawFacts ==
  ASSUME NEW B, NEW state, NEW k \in Nat, DrawnFrom(B, state, k), NEW percentage \in Percentages,
         NEW next, next = AfterDraw(state, percentage)
  PROVE  DrawnFrom(B, next, k + 1)
<1> DEFINE left == state.left
           drawn == state.drawn
           m == Len(drawn)
<1>1. /\ state \in Draws /\ left \in Seq(Entry) /\ drawn \in Seq(Users) /\ m \in Nat
      /\ \A u : u \in B <=> u \in OwnersIn(left) \/ u \in ToSet(drawn)
      /\ \A u : ~(u \in OwnersIn(left) /\ u \in ToSet(drawn))
      /\ Injective(drawn) /\ m <= k /\ (m < k => left = <<>>)
  BY LenProperties DEF DrawnFrom, Draws
<1>2. CASE left = <<>>
  <2>1. next = state
    BY <1>2 DEF AfterDraw
  <2>2. m <= k + 1
    BY <1>1
  <2> QED
    BY <1>1, <1>2, <2>1, <2>2 DEF DrawnFrom
<1>3. CASE left # <<>>
  <2> DEFINE index == Picked(left, percentage)
             e == left[index]
             u == e.owner
             out == {x \in ToSet(left) : x.owner = u}
             rest == Without(left, out)
             longer == Append(drawn, u)
  <2>1. index \in 1..Len(left)
    BY <1>1, <1>3, PickedFacts
  <2>2. e \in Entry /\ e \in ToSet(left) /\ ToSet(left) \subseteq Entry
    BY <1>1, <2>1, MembersOf
  <2>3. u \in Users /\ u \in OwnersIn(left)
    BY <2>2 DEF Entry, OwnersIn
  <2>4. next = [left |-> rest, drawn |-> longer]
    BY <1>3 DEF AfterDraw, WithoutOwner
  <2>5. \A x : x \in out <=> x \in ToSet(left) /\ x.owner = u
    OBVIOUS
  <2> HIDE DEF left, drawn, m, index, e, u, out, rest, longer
  <2>6. rest \in Seq(Entry) /\ \A x : x \in ToSet(rest) <=> x \in ToSet(left) /\ x \notin out
    BY <1>1, MembersLeft DEF rest
  <2>7. longer \in Seq(Users) /\ \A x : x \in ToSet(longer) <=> x \in ToSet(drawn) \/ x = u
    <3>1. longer \in Seq(Users) /\ Adds(longer, drawn, u)
      BY <1>1, <2>3, MembersOfAppended DEF longer
    <3> QED
      BY <3>1 DEF Adds
  <2>8. \A v : v \in OwnersIn(rest) <=> v \in OwnersIn(left) /\ v # u
    BY <2>5, <2>6 DEF OwnersIn
  <2>9. /\ Len(longer) = m + 1
        /\ \A j \in 1..m : longer[j] = drawn[j]
        /\ longer[m + 1] = u
    BY <1>1, <2>3, AppendProperties DEF longer, m
  <2>10. Injective(longer)
    <3>1. \A j \in 1..m : drawn[j] # u
      <4>1. \A j \in 1..m : drawn[j] \in ToSet(drawn)
        BY <1>1, MembersOf DEF m
      <4> QED
        BY <1>1, <2>3, <4>1
    <3>2. \A j \in 1..(m + 1) : j \in 1..m \/ j = m + 1
      BY <1>1
    <3>3. \A i, j \in 1..m : drawn[i] = drawn[j] => i = j
      BY <1>1 DEF Injective, m
    <3>4. \A i, j \in 1..(m + 1) : longer[i] = longer[j] => i = j
      BY <2>9, <3>1, <3>2, <3>3
    <3> QED
      BY <2>9, <3>4 DEF Injective
  <2>11. Len(longer) <= k + 1 /\ ~(Len(longer) < k + 1)
    BY <1>1, <1>3, <2>9
  <2>12. next \in Draws /\ next.left = rest /\ next.drawn = longer
    BY <2>4, <2>6, <2>7 DEF Draws
  <2>13. \A v : v \in B <=> v \in OwnersIn(rest) \/ v \in ToSet(longer)
    BY <1>1, <2>3, <2>7, <2>8
  <2>14. \A v : ~(v \in OwnersIn(rest) /\ v \in ToSet(longer))
    BY <1>1, <2>7, <2>8
  <2> QED
    BY <2>10, <2>11, <2>12, <2>13, <2>14 DEF DrawnFrom
<1> QED
  BY <1>2, <1>3

\* What the whole draw gives.
LEMMA DrawFacts ==
  ASSUME LaunchpadTypes, NEW asked \in Seq(LockTokens), \A i \in DOMAIN asked : Supported(asked[i]),
         NEW number \in Nat, NEW time \in Int, NEW percentage \in Percentages,
         NEW drawn, drawn = DrawAddresses(asked, number, time, percentage),
         NEW B, B = OwnersIn(AllBonded(asked, time))
  PROVE  /\ drawn \in Seq(Users) /\ Injective(drawn) /\ B \subseteq Users
         /\ \A u \in ToSet(drawn) : u \in B
         /\ Len(drawn) <= number
         /\ Len(drawn) < number => B \subseteq ToSet(drawn)
<1> DEFINE all == AllBonded(asked, time)
           sorted == OldestFirst(all)
           base == [left |-> sorted, drawn |-> <<>>]
<1>1. all \in Seq(Entry)
  BY AllBondedFacts
<1>2. sorted \in Seq(Entry) /\ \A x : x \in ToSet(sorted) <=> x \in ToSet(all)
  <2> HIDE DEF all
  <2> QED
    BY <1>1, OldestFirstFacts
<1>3. B \subseteq Users /\ \A u : u \in B <=> u \in OwnersIn(sorted)
  <2>1. ToSet(all) \subseteq Entry
    BY <1>1, MembersOf
  <2> QED
    BY <1>2, <2>1 DEF OwnersIn, Entry
<1> DEFINE G == CHOOSE g : g = DrawStep(g, base, number, percentage)
<1>4. drawn = G[number].drawn
  BY DEF DrawAddresses, DrawStep, AfterDraw
<1> HIDE DEF all, sorted
<1>5. DrawnFrom(B, base, 0)
  <2>1. <<>> \in Seq(Users) /\ Len(<<>>) = 0 /\ ToSet(<<>>) = {}
    BY EmptySeq DEF ToSet
  <2>2. Injective(<<>>)
    BY <2>1 DEF Injective
  <2>3. base \in Draws
    BY <1>2, <2>1 DEF Draws
  <2> QED
    BY <1>3, <2>1, <2>2, <2>3 DEF DrawnFrom
<1> HIDE DEF base
<1>6. ASSUME NEW state, NEW k \in Nat, DrawnFrom(B, state, k)
      PROVE  DrawnFrom(B, AfterDraw(state, percentage), k + 1)
  BY <1>6, AfterDrawFacts
<1>7. G = DrawStep(G, base, number, percentage)
  <2> DEFINE S == {p \in Draws \X Nat : DrawnFrom(B, p[1], p[2])}
             step == [p \in (1..number) \X S |-> <<AfterDraw(p[2][1], percentage), p[2][2] + 1>>]
             first == <<base, 0>>
  <2>1. first \in S
    BY <1>5 DEF DrawnFrom
  <2>2. step \in [(1..number) \X S -> S]
    <3>1. ASSUME NEW s \in S PROVE <<AfterDraw(s[1], percentage), s[2] + 1>> \in S
      <4>1. DrawnFrom(B, s[1], s[2]) /\ s[2] \in Nat
        OBVIOUS
      <4>2. DrawnFrom(B, AfterDraw(s[1], percentage), s[2] + 1)
        BY <1>6, <4>1
      <4>3. AfterDraw(s[1], percentage) \in Draws /\ s[2] + 1 \in Nat
        BY <4>1, <4>2 DEF DrawnFrom
      <4> QED
        BY <4>2, <4>3
    <3> HIDE DEF S
    <3>2. \A p \in (1..number) \X S : p[2] \in S
      OBVIOUS
    <3>3. \A p \in (1..number) \X S : <<AfterDraw(p[2][1], percentage), p[2][2] + 1>> \in S
      BY <3>1, <3>2
    <3> QED
      BY <3>3
  <2>3. \A i \in 1..number, s \in S : step[<<i, s>>] = <<AfterDraw(s[1], percentage), s[2] + 1>>
    OBVIOUS
  <2> HIDE DEF S, step, first
  <2>4. PICK f \in [0..number -> S] : Iterated(f, number, first, step)
    BY <2>1, <2>2, Iterates
  <2> DEFINE g == [n \in 0..number |-> f[n][1]]
  <2>5. \A n \in 0..number : g[n] = IF n = 0 THEN base ELSE AfterDraw(g[n - 1], percentage)
    <3> SUFFICES ASSUME NEW n \in 0..number
                 PROVE  g[n] = IF n = 0 THEN base ELSE AfterDraw(g[n - 1], percentage)
      OBVIOUS
    <3>1. CASE n = 0
      <4>1. f[0] = <<base, 0>>
        BY <2>4 DEF Iterated, first
      <4> QED
        BY <3>1, <4>1
    <3>2. CASE n # 0
      <4>1. n \in 1..number /\ n - 1 \in 0..number
        BY <3>2
      <4>2. f[n] = step[<<n, f[n - 1]>>] /\ f[n - 1] \in S
        BY <2>4, <4>1 DEF Iterated
      <4>3. f[n] = <<AfterDraw(f[n - 1][1], percentage), f[n - 1][2] + 1>>
        BY <2>3, <4>1, <4>2
      <4> QED
        BY <3>2, <4>1, <4>3
    <3> QED
      BY <3>1, <3>2
  <2>6. g = DrawStep(g, base, number, percentage)
    BY <2>5 DEF DrawStep
  <2> QED
    BY <2>6
<1> HIDE DEF G
<1>8. G[0] = base /\ \A n \in 1..number : G[n] = AfterDraw(G[n - 1], percentage)
  <2>1. \A n \in 0..number : DrawStep(G, base, number, percentage)[n]
                               = IF n = 0 THEN base ELSE AfterDraw(G[n - 1], percentage)
    BY DEF DrawStep
  <2>2. \A n \in 0..number : G[n] = IF n = 0 THEN base ELSE AfterDraw(G[n - 1], percentage)
    BY <1>7, <2>1
  <2>3. 0 \in 0..number /\ \A n \in 1..number : n \in 0..number /\ n # 0
    OBVIOUS
  <2> QED
    BY <2>2, <2>3
<1> DEFINE P == {n \in Nat : n <= number => DrawnFrom(B, G[n], n)}
<1>9. 0 \in P
  BY <1>5, <1>8
<1>10. ASSUME NEW n \in Nat, n \in P PROVE n + 1 \in P
  <2> SUFFICES ASSUME n + 1 <= number PROVE DrawnFrom(B, G[n + 1], n + 1)
    OBVIOUS
  <2>1. n + 1 \in 1..number /\ (n + 1) - 1 = n /\ n <= number
    OBVIOUS
  <2>2. DrawnFrom(B, G[n], n)
    BY <1>10, <2>1
  <2>3. G[n + 1] = AfterDraw(G[n], percentage)
    BY <1>8, <2>1
  <2> QED
    BY <1>6, <2>2, <2>3
<1> HIDE DEF P
<1>11. DrawnFrom(B, G[number], number)
  <2>1. number \in P
    BY <1>9, <1>10, Induct
  <2> QED
    BY <2>1 DEF P
<1>12. OwnersIn(<<>>) = {}
  BY DEF OwnersIn, ToSet
<1> QED
  BY <1>3, <1>4, <1>11, <1>12 DEF DrawnFrom, Draws

-----------------------------------------------------------------------------
(* The sale: types.                                                        *)

SaleTyped == LaunchpadTypes /\ SaleTypeOK

LEMMA SaleFacts ==
  /\ \A s \in Sales :
       /\ s.whitelist \in Seq(Users) /\ s.asked \in Seq(LockTokens)
       /\ s.max_seats \in Nat /\ s.max_allocation \in Nat /\ s.min_allocation \in Nat
       /\ s.rate \in Nat /\ s # NoSale
  /\ Percentages \subseteq 0..100 /\ Starts \subseteq Nat /\ Ends \subseteq Nat
  /\ \A m \in Means : m.wallets \in Wallets /\ m.pays \in [Users -> Nat] /\ m.sells \in Nat
  /\ Payments \subseteq Nat /\ Supplies \subseteq Nat /\ Additions \subseteq Seq(Users)
<1>1. \A s \in Sales : s.sale_type # NoSale.sale_type
  BY IdoAssumption DEF SaleTypes, NoSale
<1> QED
  BY <1>1, IdoAssumption

\* The launchpad's state is what it says of itself.
LEMMA LaunchpadTypesSuffice == LaunchpadTypes => LaunchpadTypeOK
<1> SUFFICES ASSUME LaunchpadTypes PROVE LaunchpadTypeOK
  OBVIOUS
<1>1. ToSet(owners) = {u \in Users : DOMAIN held[u] # {}}
  <2>1. ToSet(owners) \subseteq Users
    BY MembersOf DEF LaunchpadTypes
  <2> QED
    BY <2>1 DEF LaunchpadTypes
<1>2. ASSUME NEW u \in Users, NEW t \in DOMAIN held[u]
      PROVE  held[u][t].balance \in Nat /\ held[u][t].entries \in Seq(0..MaxTime)
  <2>1. held \in [Users -> AccountsHeld] /\ t \in LockTokens
    BY HoldingFacts DEF LaunchpadTypes, AccountsHeld
  <2>2. Holding(u, t) = held[u][t]
    BY DEF Holding
  <2> QED
    BY <2>1, <2>2, HoldingFacts
<1> QED
  BY <1>1, <1>2 DEF LaunchpadTypes, LaunchpadTypeOK

LEMMA LaunchpadStepTypes ==
  ASSUME LaunchpadTypes, LaunchpadNext PROVE LaunchpadTypes'
<1>1. ASSUME NEW u \in Users, NEW t \in LockTokens, NEW n \in Deposits, Lock(u, t, n)
      PROVE  LaunchpadTypes'
  <2>1. n \in Nat
    BY LaunchpadConstants
  <2>2. PICK k \in Nat : Moves(u, t, k, 0)
    BY <1>1, <2>1, LockFacts
  <2> QED
    BY <2>2 DEF Moves
<1>2. ASSUME NEW u \in Users, NEW t \in LockTokens,
             NEW count \in 0..Len(Holding(u, t).entries), NEW sent \in Strays,
             Unlock(u, t, count, sent)
      PROVE  LaunchpadTypes'
  <2>1. sent \in Nat /\ Len(Holding(u, t).entries) \in Nat
    BY LaunchpadConstants, HoldingFacts DEF LaunchpadTypes
  <2>2. count \in Nat
    BY <2>1
  <2>3. Moves(u, t, 0, count)
    BY <1>2, <2>1, <2>2, UnlockFacts
  <2> QED
    BY <2>3 DEF Moves
<1> QED
  BY <1>1, <1>2, AddTokenKeepsTypes, RemoveTokenKeepsTypes DEF LaunchpadNext

LEMMA InitSaleTyped == Init => SaleTyped
<1> SUFFICES ASSUME Init PROVE SaleTyped
  OBVIOUS
<1>1. LaunchpadTypes
  <2>1. /\ tokens = InitialTokens /\ owners = <<>> /\ held = [u \in Users |-> <<>>]
        /\ funds = [t \in LockTokens |-> 0] /\ wallets \in Wallets /\ now = 0
    BY DEF Init, LaunchpadInit
  <2>2. <<>> \in [{} -> AccountTokens] /\ {} \in SUBSET LockTokens /\ DOMAIN <<>> = {}
    OBVIOUS
  <2>3. held \in [Users -> AccountsHeld] /\ \A u \in Users : DOMAIN held[u] = {}
    BY <2>1, <2>2 DEF AccountsHeld
  <2>4. owners \in Seq(Users) /\ IsInjective(owners) /\ ToSet(owners) = {}
    BY <2>1, EmptySeq DEF IsInjective, ToSet
  <2>5. /\ tokens \in Seq(Terms) /\ \A c \in ToSet(tokens) : c \in Settings \cup ToSet(InitialTokens)
        /\ funds \in [LockTokens -> Nat] /\ wallets \in [Users -> [LockTokens -> Nat]]
        /\ now \in 0..MaxTime
    BY <2>1, LaunchpadConstants
  <2> QED
    BY <2>3, <2>4, <2>5 DEF LaunchpadTypes
<1>2. /\ sale = NoSale /\ taken_seats = 0 /\ schedule = NotActive /\ listed = {}
      /\ pre_locked = [u \in Users |-> 0] /\ bought = [u \in Users |-> 0]
      /\ paid = [u \in Users |-> 0] /\ total_pre_lock = 0 /\ sold_funds = 0 /\ paid_funds = 0
      /\ activations = 0 /\ covered = FALSE
      /\ purses \in [Users -> Nat] /\ hoard \in Nat
  BY SaleFacts DEF Init
<1>3. /\ sale \in Sales \cup {NoSale} /\ schedule \in [start: Starts, end: Ends] \cup {NotActive}
      /\ ~IsActive /\ listed \subseteq Users /\ \A u \in Users \ listed : paid[u] = 0
      /\ covered \in BOOLEAN
  BY <1>2 DEF IsActive
<1>4. /\ {taken_seats, total_pre_lock, sold_funds, paid_funds, hoard, activations} \subseteq Nat
      /\ {pre_locked, bought, purses, paid} \subseteq [Users -> Nat]
  BY <1>2
<1> QED
  BY <1>1, <1>3, <1>4, LaunchpadTypesSuffice DEF SaleTyped, SaleTypeOK

\* The seats of a new sale: the whitelist's and those drawn from the bonded, B.
SeatsFilled(s, B, drawn) ==
  /\ drawn \in Seq(Users) /\ Injective(drawn)
  /\ listed' = ToSet(s.whitelist) \cup ToSet(drawn)
  /\ taken_seats' = Len(s.whitelist) + Len(drawn)
  /\ \A u \in ToSet(drawn) : u \in B
  /\ s.asked # <<>> /\ taken_seats' < s.max_seats => B \subseteq ToSet(drawn)
  /\ taken_seats' <= s.max_seats \/ drawn = <<>>

LEMMA InstantiateFacts ==
  ASSUME LaunchpadTypes, NEW s \in Sales, Instantiate(s)
  PROVE  /\ listed' \subseteq Users /\ taken_seats' \in Nat
         /\ \E drawn : SeatsFilled(s, OwnersIn(AllBonded(s.asked, now)), drawn)
<1> DEFINE seats == Len(s.whitelist)
           draws == s.asked # <<>> /\ seats < s.max_seats
           B == OwnersIn(AllBonded(s.asked, now))
<1>1. PICK percentage \in Percentages :
        LET drawn == IF draws
                     THEN DrawAddresses(s.asked, s.max_seats - seats, now, percentage)
                     ELSE <<>>
        IN /\ listed' = ToSet(s.whitelist) \cup ToSet(drawn)
           /\ taken_seats' = seats + Len(drawn)
  BY DEF Instantiate, FreeSeats
<1>2. draws => \A i \in DOMAIN s.asked : Supported(s.asked[i])
  BY DEF Instantiate
<1>3. /\ s.whitelist \in Seq(Users) /\ s.asked \in Seq(LockTokens) /\ s.max_seats \in Nat
      /\ now \in Int
  BY SaleFacts DEF LaunchpadTypes
<1>4. seats \in Nat /\ ToSet(s.whitelist) \subseteq Users
  BY <1>3, MembersOf
<1> HIDE DEF seats, B
<1>5. CASE draws
  <2> DEFINE number == s.max_seats - seats
             drawn == DrawAddresses(s.asked, number, now, percentage)
  <2>1. number \in Nat /\ number + seats = s.max_seats
    BY <1>3, <1>4, <1>5
  <2>2. listed' = ToSet(s.whitelist) \cup ToSet(drawn) /\ taken_seats' = seats + Len(drawn)
    BY <1>1, <1>5
  <2> HIDE DEF number, drawn, draws
  <2>3. /\ drawn \in Seq(Users) /\ Injective(drawn) /\ B \subseteq Users
        /\ \A u \in ToSet(drawn) : u \in B
        /\ Len(drawn) <= number
        /\ Len(drawn) < number => B \subseteq ToSet(drawn)
    <3> DEFINE asked == s.asked
    <3>1. asked \in Seq(LockTokens) /\ \A i \in DOMAIN asked : Supported(asked[i])
      BY <1>2, <1>3, <1>5
    <3>2. drawn = DrawAddresses(asked, number, now, percentage) /\ B = OwnersIn(AllBonded(asked, now))
      BY DEF drawn, B
    <3> HIDE DEF asked
    <3> QED
      BY <1>3, <2>1, <3>1, <3>2, DrawFacts
  <2>4. ToSet(drawn) \subseteq Users /\ Len(drawn) \in Nat
    BY <2>3, MembersOf
  <2>5. (taken_seats' < s.max_seats => Len(drawn) < number) /\ taken_seats' <= s.max_seats
    BY <1>3, <1>4, <2>1, <2>2, <2>3, <2>4
  <2>6. listed' \subseteq Users /\ taken_seats' \in Nat
    BY <1>4, <2>2, <2>4
  <2>7. SeatsFilled(s, B, drawn)
    BY <2>2, <2>3, <2>5 DEF SeatsFilled, seats
  <2> QED
    BY <2>6, <2>7 DEF B
<1>6. CASE ~draws
  <2>1. listed' = ToSet(s.whitelist) \cup ToSet(<<>>) /\ taken_seats' = seats + Len(<<>>)
    BY <1>1, <1>6
  <2>2. <<>> \in Seq(Users) /\ Len(<<>>) = 0 /\ ToSet(<<>>) = {}
    BY EmptySeq DEF ToSet
  <2>3. listed' \subseteq Users /\ taken_seats' \in Nat /\ taken_seats' = seats
    BY <1>4, <2>1, <2>2
  <2>4. Injective(<<>>)
    BY <2>2 DEF Injective
  <2>5. s.asked # <<>> => ~(taken_seats' < s.max_seats)
    BY <1>3, <1>4, <1>6, <2>3
  <2>6. SeatsFilled(s, B, <<>>)
    BY <2>1, <2>2, <2>4, <2>5 DEF SeatsFilled, seats
  <2> QED
    BY <2>3, <2>6 DEF B
<1> QED
  BY <1>5, <1>6

\* Every step keeps the sale's state what it says of itself.
LEMMA StepSaleTyped ==
  ASSUME SaleTyped, IInv, [Next]_vars PROVE SaleTyped'
<1>1. /\ LaunchpadTypes /\ sale \in Sales \cup {NoSale}
      /\ schedule \in [start: Starts, end: Ends] \cup {NotActive}
      /\ IsActive => sale # NoSale /\ schedule.start < schedule.end
      /\ listed \subseteq Users
      /\ taken_seats \in Nat /\ total_pre_lock \in Nat /\ sold_funds \in Nat /\ paid_funds \in Nat
      /\ hoard \in Nat /\ activations \in Nat
      /\ pre_locked \in [Users -> Nat] /\ bought \in [Users -> Nat] /\ purses \in [Users -> Nat]
      /\ paid \in [Users -> Nat]
      /\ \A u \in Users \ listed : paid[u] = 0
      /\ covered \in BOOLEAN
  BY DEF SaleTyped, SaleTypeOK
<1> DEFINE Rest == /\ sale \in Sales \cup {NoSale}
                   /\ schedule \in [start: Starts, end: Ends] \cup {NotActive}
                   /\ IsActive => sale # NoSale /\ schedule.start < schedule.end
                   /\ listed \subseteq Users
                   /\ taken_seats \in Nat /\ total_pre_lock \in Nat /\ sold_funds \in Nat
                   /\ paid_funds \in Nat /\ hoard \in Nat /\ activations \in Nat
                   /\ pre_locked \in [Users -> Nat] /\ bought \in [Users -> Nat]
                   /\ purses \in [Users -> Nat] /\ paid \in [Users -> Nat]
                   /\ \A u \in Users \ listed : paid[u] = 0
                   /\ covered \in BOOLEAN
<1>2. LaunchpadTypes' /\ Rest' => SaleTyped'
  <2>1. LaunchpadTypes' => LaunchpadTypeOK'
    BY LaunchpadTypesSuffice, PTL
  <2> QED
    BY <2>1 DEF SaleTyped, SaleTypeOK
<1>3. Rest
  BY <1>1
<1>4. ASSUME UNCHANGED launchpadVars, now' \in 0..MaxTime PROVE LaunchpadTypes'
  BY <1>1, <1>4 DEF launchpadVars, LaunchpadTypes
<1>5. now \in 0..MaxTime /\ MaxTime \in Nat
  BY <1>1, LaunchpadConstants DEF LaunchpadTypes
<1>6. CASE LaunchpadNext /\ UNCHANGED idoVars
  <2>1. LaunchpadTypes'
    BY <1>1, <1>6, LaunchpadStepTypes
  <2>2. Rest'
    BY <1>3, <1>6 DEF idoVars, accountVars, fundVars, IsActive
  <2> QED
    BY <1>2, <2>1, <2>2
<1>7. CASE Tick \/ UNCHANGED vars
  <2>1. LaunchpadTypes'
    BY <1>4, <1>5, <1>7 DEF Tick, vars
  <2>2. Rest'
    BY <1>3, <1>7 DEF Tick, vars, idoVars, accountVars, fundVars, IsActive
  <2> QED
    BY <1>2, <2>1, <2>2
<1>8. ASSUME NEW s \in Sales, Instantiate(s) PROVE SaleTyped'
  <2>1. /\ sale' = s /\ UNCHANGED <<launchpadVars, now, schedule, pre_locked, bought, total_pre_lock,
                                    purses, paid, fundVars, activations, covered>>
        /\ sale = NoSale
    BY <1>8 DEF Instantiate
  <2>2. listed' \subseteq Users /\ taken_seats' \in Nat
    BY <1>1, <1>8, InstantiateFacts
  <2>3. LaunchpadTypes'
    BY <1>4, <1>5, <2>1
  <2>4. s # NoSale /\ ~IsActive /\ ~IsActive'
    BY <1>1, <2>1, SaleFacts DEF IsActive
  <2>5. \A u \in Users : paid'[u] = 0
    BY <2>1 DEF IInv, NothingBefore
  <2>6. UNCHANGED <<sold_funds, paid_funds, hoard>>
    BY <2>1 DEF fundVars
  <2>7. Rest'
    BY <1>3, <2>1, <2>2, <2>4, <2>5, <2>6
  <2> QED
    BY <1>2, <2>3, <2>7
<1>9. ASSUME NEW list \in Additions, AdminAddAddresses(list) PROVE SaleTyped'
  <2>1. /\ taken_seats' = taken_seats + Len(list) /\ listed' = listed \cup ToSet(list)
        /\ UNCHANGED <<launchpadVars, now, sale, schedule, pre_locked, bought, total_pre_lock,
                       purses, paid, fundVars, activations, covered>>
    BY <1>9 DEF AdminAddAddresses
  <2>2. Len(list) \in Nat /\ ToSet(list) \subseteq Users
    <3>1. list \in Seq(Users)
      BY SaleFacts
    <3> QED
      BY <3>1, MembersOf
  <2>3. LaunchpadTypes'
    BY <1>4, <1>5, <2>1
  <2>4. UNCHANGED <<sold_funds, paid_funds, hoard>>
    BY <2>1 DEF fundVars
  <2>5. Rest'
    BY <1>3, <2>1, <2>2, <2>4 DEF IsActive
  <2> QED
    BY <1>2, <2>3, <2>5
<1>10. ASSUME NEW n \in Supplies, SupplySold(n) PROVE SaleTyped'
  <2>1. /\ n <= hoard /\ hoard' = hoard - n /\ sold_funds' = sold_funds + n
        /\ UNCHANGED <<launchpadVars, now, sale, taken_seats, schedule, accountVars, paid_funds,
                       activations, covered>>
    BY <1>10 DEF SupplySold
  <2>2. n \in Nat
    BY SaleFacts
  <2>3. LaunchpadTypes'
    BY <1>4, <1>5, <2>1
  <2>4. hoard' \in Nat /\ sold_funds' \in Nat
    BY <1>3, <2>1, <2>2
  <2>5. Rest'
    BY <1>3, <2>1, <2>4 DEF IsActive, accountVars
  <2> QED
    BY <1>2, <2>3, <2>5
<1>11. ASSUME NEW n \in Supplies \cup {0}, NEW start \in Starts, NEW end \in Ends,
              Activate(n, start, end)
       PROVE  SaleTyped'
  <2>1. /\ n <= hoard /\ hoard' = hoard - n /\ sold_funds' = sold_funds + n
        /\ sale # NoSale /\ start < end /\ schedule' = [start |-> start, end |-> end]
        /\ activations' = activations + 1 /\ covered' \in BOOLEAN
        /\ UNCHANGED <<launchpadVars, now, sale, taken_seats, accountVars, paid_funds>>
    BY <1>11 DEF Activate, ValidSchedule
  <2>2. n \in Nat
    BY SaleFacts
  <2>3. LaunchpadTypes'
    BY <1>4, <1>5, <2>1
  <2>4. hoard' \in Nat /\ sold_funds' \in Nat /\ activations' \in Nat
    BY <1>3, <2>1, <2>2
  <2>5. Rest'
    BY <1>3, <2>1, <2>4 DEF IsActive, accountVars
  <2> QED
    BY <1>2, <2>3, <2>5
<1>12. ASSUME NEW u \in Users, NEW n \in Payments, PreLock(u, n) PROVE SaleTyped'
  <2>1. /\ sale # NoSale /\ u \in listed /\ n <= purses[u]
        /\ pre_locked' = [pre_locked EXCEPT ![u] = @ + n]
        /\ total_pre_lock' = total_pre_lock + ConvertToken(n) /\ paid_funds' = paid_funds + n
        /\ purses' = [purses EXCEPT ![u] = @ - n] /\ paid' = [paid EXCEPT ![u] = @ + n]
        /\ UNCHANGED <<launchpadVars, now, sale, taken_seats, schedule, listed, bought, sold_funds,
                       hoard, activations, covered>>
    BY <1>12 DEF PreLock
  <2>2. n \in Nat /\ ConvertToken(n) \in Nat
    BY <1>3, <2>1, SaleFacts, ConvertedIsPaid
  <2>3. LaunchpadTypes'
    BY <1>4, <1>5, <2>1
  <2>4. /\ total_pre_lock' \in Nat /\ paid_funds' \in Nat
        /\ pre_locked' \in [Users -> Nat] /\ purses' \in [Users -> Nat] /\ paid' \in [Users -> Nat]
        /\ \A v \in Users \ listed : paid'[v] = 0
    BY <1>3, <2>1, <2>2
  <2>5. Rest'
    BY <1>3, <2>1, <2>4 DEF IsActive
  <2> QED
    BY <1>2, <2>3, <2>5
<1>13. ASSUME NEW u \in Users, NEW n \in Payments \cup {0}, Swap(u, n) PROVE SaleTyped'
  <2> DEFINE m == MintAmount(u, n)
  <2>1. /\ sale # NoSale /\ n <= purses[u] /\ u \in listed /\ m <= sold_funds
        /\ bought' = [bought EXCEPT ![u] = @ + m]
        /\ pre_locked' = [pre_locked EXCEPT ![u] = 0]
        /\ sold_funds' = sold_funds - m /\ paid_funds' = paid_funds + n
        /\ purses' = [purses EXCEPT ![u] = @ - n] /\ paid' = [paid EXCEPT ![u] = @ + n]
        /\ UNCHANGED <<launchpadVars, now, sale, taken_seats, schedule, listed, total_pre_lock,
                       hoard, activations, covered>>
    BY <1>13 DEF Swap, CanSwap, PreLockAfterSwap
  <2>2. n \in Nat /\ m \in Nat
    <3>0. n \in Nat
      BY SaleFacts
    <3>1. n \in Nat /\ sale \in Sales
      BY <1>1, <2>1, <3>0
    <3>2. pre_locked[u] + n \in Nat
      BY <1>3, <3>1
    <3> QED
      BY <3>1, <3>2, ConvertedIsPaid DEF MintAmount
  <2>3. LaunchpadTypes'
    BY <1>4, <1>5, <2>1
  <2> HIDE DEF m
  <2>4. /\ sold_funds' \in Nat /\ paid_funds' \in Nat
        /\ pre_locked' \in [Users -> Nat] /\ purses' \in [Users -> Nat] /\ paid' \in [Users -> Nat]
        /\ bought' \in [Users -> Nat]
        /\ \A v \in Users \ listed : paid'[v] = 0
    BY <1>3, <2>1, <2>2
  <2>5. Rest'
    BY <1>3, <2>1, <2>4 DEF IsActive
  <2> QED
    BY <1>2, <2>3, <2>5
<1>14. CASE AdminRefund \/ AdminClaim
  <2>1. LaunchpadTypes'
    BY <1>4, <1>5, <1>14 DEF AdminRefund, AdminClaim
  <2>2. Rest'
    BY <1>3, <1>14 DEF AdminRefund, AdminClaim, accountVars, IsActive
  <2> QED
    BY <1>2, <2>1, <2>2
<1> QED
  BY <1>6, <1>7, <1>8, <1>9, <1>10, <1>11, <1>12, <1>13, <1>14 DEF Next

-----------------------------------------------------------------------------
(* The draw.                                                               *)

\* As many different addresses as there are places.
LEMMA DifferentMembers ==
  ASSUME NEW S, NEW s \in Seq(S), Injective(s), NEW T, IsFiniteSet(T), ToSet(s) \subseteq T
  PROVE  Len(s) <= Cardinality(T)
<1> DEFINE D == 1..Len(s)
<1>1. Len(s) \in Nat /\ D = DOMAIN s /\ s \in [D -> S] /\ \A k \in D : s[k] \in ToSet(s)
  <2>1. Len(s) \in Nat /\ \A k \in D : s[k] \in S
    BY LenProperties, ElementOfSeq
  <2>2. DOMAIN s = D /\ s \in [D -> S]
    BY LenProperties, SeqDef
  <2> QED
    BY <2>1, <2>2 DEF ToSet
<1>2. s \in [D -> T]
  BY <1>1
<1>3. s \in Injection(D, T)
  BY <1>1, <1>2 DEF Injection, Injective, IsInjective
<1>4. IsFiniteSet(D) /\ Cardinality(D) = Len(s)
  BY <1>1, FS_Interval
<1> QED
  BY <1>3, <1>4, FS_Injection

\* An instantiation seats as SeatsGoToTheBonded says.
LEMMA InstantiateSeats ==
  ASSUME LaunchpadTypes, NEW s \in Sales, Instantiate(s)
  PROVE  LET drawn_seats == taken_seats' - Len(sale'.whitelist)
         IN /\ listed' \subseteq ToSet(sale'.whitelist) \cup BondedNow
            /\ drawn_seats <= Cardinality(listed' \cap BondedNow)
            /\ sale'.asked # <<>> /\ taken_seats' < sale'.max_seats => BondedNow \subseteq listed'
<1> DEFINE B == OwnersIn(AllBonded(s.asked, now))
<1>1. sale' = s
  BY DEF Instantiate
<1>2. BondedNow = B
  BY <1>1 DEF BondedNow, OwnersIn
<1>3. PICK drawn : SeatsFilled(s, B, drawn)
  BY InstantiateFacts
<1>4. listed' \subseteq Users
  BY InstantiateFacts
<1> HIDE DEF B
<1>5. /\ drawn \in Seq(Users) /\ Injective(drawn)
      /\ listed' = ToSet(s.whitelist) \cup ToSet(drawn)
      /\ taken_seats' = Len(s.whitelist) + Len(drawn)
      /\ ToSet(drawn) \subseteq B
      /\ s.asked # <<>> /\ taken_seats' < s.max_seats => B \subseteq ToSet(drawn)
  BY <1>3 DEF SeatsFilled
<1> DEFINE T == listed' \cap B
<1>6. IsFiniteSet(T) /\ Cardinality(T) \in Nat
  <2>1. IsFiniteSet(Users) /\ T \subseteq Users
    BY <1>4, LaunchpadConstants
  <2> HIDE DEF T
  <2> QED
    BY <2>1, FS_Subset, FS_CardinalityType
<1>7. Len(drawn) <= Cardinality(T)
  <2>1. ToSet(drawn) \subseteq T
    BY <1>5
  <2> HIDE DEF T
  <2> QED
    BY <1>5, <1>6, <2>1, DifferentMembers
<1>8. taken_seats' - Len(s.whitelist) <= Cardinality(T)
  <2>1. s.whitelist \in Seq(Users)
    BY SaleFacts
  <2>2. Len(s.whitelist) \in Nat /\ Len(drawn) \in Nat
    BY <1>5, <2>1, LenProperties
  <2> HIDE DEF T
  <2> QED
    BY <1>5, <1>6, <1>7, <2>2
<1> QED
  BY <1>1, <1>2, <1>5, <1>8

\* A draw gives its seats to as many addresses as have bonded entries at the time, and
\* leaves none of them out while there is a seat (the draw_addresses of
\* contracts/launchpad/launchpad/src/query.rs, called by the sale's init).
THEOREM SeatsGoToTheBondedHolds == Spec => SeatsGoToTheBonded
<1>1. Init => LaunchpadTypes
  BY InitSaleTyped DEF SaleTyped
<1>2. ASSUME LaunchpadTypes, [Next]_vars PROVE LaunchpadTypes'
  <2>1. CASE LaunchpadNext
    BY <1>2, <2>1, LaunchpadStepTypes
  <2>2. ASSUME UNCHANGED launchpadVars, now' \in 0..MaxTime PROVE LaunchpadTypes'
    BY <1>2, <2>2 DEF launchpadVars, LaunchpadTypes
  <2>3. now \in 0..MaxTime /\ MaxTime \in Nat
    BY <1>2, LaunchpadConstants DEF LaunchpadTypes
  <2>4. ASSUME NEW n, NEW start, NEW end, Activate(n, start, end) PROVE LaunchpadTypes'
    BY <2>2, <2>3, <2>4 DEF Activate
  <2>5. CASE Tick \/ UNCHANGED vars
    BY <2>2, <2>3, <2>5 DEF Tick, vars
  <2> QED
    BY <1>2, <2>1, <2>2, <2>3, <2>4, <2>5
    DEF Next, Instantiate, AdminAddAddresses, SupplySold, PreLock, Swap, AdminRefund, AdminClaim
<1>3. ASSUME LaunchpadTypes, [Next]_vars, sale' # sale PROVE \E s \in Sales : Instantiate(s)
  BY <1>3
  DEF Next, vars, idoVars, AdminAddAddresses, SupplySold, Activate, PreLock, Swap, AdminRefund,
      AdminClaim, Tick
<1>4. LaunchpadTypes /\ [Next]_vars
        => [sale' # sale /\ sale'.asked # <<>> =>
              LET drawn_seats == taken_seats' - Len(sale'.whitelist)
              IN /\ listed' \subseteq ToSet(sale'.whitelist) \cup BondedNow
                 /\ drawn_seats <= Cardinality(listed' \cap BondedNow)
                 /\ taken_seats' < sale'.max_seats => BondedNow \subseteq listed']_vars
  BY <1>3, InstantiateSeats
<1> QED
  BY <1>1, <1>2, <1>4, PTL DEF Spec, SeatsGoToTheBonded

-----------------------------------------------------------------------------
(* The seats.                                                              *)

\* Who is listed has a seat, and the seats are exceeded by a whitelist only, which is
\* then all there is.
SeatInv ==
  sale # NoSale =>
    /\ Cardinality(listed) <= taken_seats
    /\ \/ taken_seats <= sale.max_seats
       \/ taken_seats = Len(sale.whitelist) /\ listed = ToSet(sale.whitelist)

\* A list has no more members than places, and a union of two sets no more than both.
LEMMA MembersCounted ==
  ASSUME NEW S, NEW s \in Seq(S), NEW T, IsFiniteSet(T)
  PROVE  /\ Cardinality(ToSet(s)) \in Nat /\ Cardinality(ToSet(s)) <= Len(s)
         /\ Cardinality(T \cup ToSet(s)) \in Nat /\ Cardinality(T) \in Nat
         /\ Cardinality(T \cup ToSet(s)) <= Cardinality(T) + Len(s)
<1> DEFINE D == 1..Len(s)
           M == ToSet(s)
<1>1. /\ Len(s) \in Nat /\ s \in [D -> S] /\ \A k \in D : s[k] \in M
      /\ \A x \in M : \E k \in D : s[k] = x
  <2>1. DOMAIN s = D /\ s \in [D -> S]
    BY LenProperties, SeqDef
  <2>2. \A x : x \in M <=> \E k \in D : s[k] = x
    BY MembersOf
  <2> QED
    BY <2>1, <2>2, LenProperties
<1>2. IsFiniteSet(D) /\ Cardinality(D) = Len(s)
  BY <1>1, FS_Interval
<1> HIDE DEF D, M
<1>3. s \in [D -> M]
  BY <1>1
<1>4. s \in Surjection(D, M)
  BY <1>1, <1>3 DEF Surjection
<1>5. IsFiniteSet(M) /\ Cardinality(M) <= Len(s)
  BY <1>2, <1>4, FS_Surjection
<1>6. /\ Cardinality(T \cup M) = Cardinality(T) + Cardinality(M) - Cardinality(T \cap M)
      /\ IsFiniteSet(T \cup M)
  BY <1>5, FS_Union
<1>7. IsFiniteSet(T \cap M)
  <2>1. T \cap M \subseteq T
    OBVIOUS
  <2> QED
    BY <2>1, FS_Subset
<1>8. /\ Cardinality(M) \in Nat /\ Cardinality(T) \in Nat
      /\ Cardinality(T \cap M) \in Nat /\ Cardinality(T \cup M) \in Nat
  BY <1>5, <1>6, <1>7, FS_CardinalityType
<1>9. Cardinality(T \cup M) <= Cardinality(T) + Len(s)
  BY <1>1, <1>5, <1>6, <1>8
<1> QED
  BY <1>5, <1>8, <1>9 DEF M

LEMMA InstantiateKeepsSeatInv ==
  ASSUME SaleTyped, NEW s \in Sales, Instantiate(s) PROVE SeatInv'
<1>1. sale' = s
  BY DEF Instantiate
<1>2. PICK drawn : SeatsFilled(s, OwnersIn(AllBonded(s.asked, now)), drawn)
  BY InstantiateFacts DEF SaleTyped
<1> DEFINE W == ToSet(s.whitelist)
<1>3. /\ drawn \in Seq(Users) /\ listed' = W \cup ToSet(drawn)
      /\ taken_seats' = Len(s.whitelist) + Len(drawn)
      /\ taken_seats' <= s.max_seats \/ drawn = <<>>
  BY <1>2 DEF SeatsFilled
<1>4. s.whitelist \in Seq(Users) /\ Len(s.whitelist) \in Nat /\ Len(drawn) \in Nat
  <2>1. s.whitelist \in Seq(Users)
    BY SaleFacts
  <2> QED
    BY <1>3, <2>1, LenProperties
<1>5. IsFiniteSet(W) /\ Cardinality(W) \in Nat /\ Cardinality(W) <= Len(s.whitelist)
  <2>1. W \subseteq Users
    BY <1>4, MembersOf
  <2>2. IsFiniteSet({})
    BY FS_EmptySet
  <2> QED
    BY <1>4, <2>1, <2>2, LaunchpadConstants, FS_Subset, MembersCounted
<1> HIDE DEF W
<1>6. /\ Cardinality(listed') \in Nat
      /\ Cardinality(listed') <= Cardinality(W) + Len(drawn)
  BY <1>3, <1>5, MembersCounted
<1>7. Cardinality(listed') <= taken_seats'
  BY <1>3, <1>4, <1>5, <1>6
<1>8. CASE drawn = <<>>
  <2>1. Len(drawn) = 0 /\ ToSet(drawn) = {}
    BY <1>8 DEF ToSet
  <2>2. taken_seats' = Len(s.whitelist) /\ listed' = W
    BY <1>3, <1>4, <2>1
  <2> QED
    BY <1>1, <1>7, <2>2 DEF SeatInv, W
<1>9. CASE taken_seats' <= s.max_seats
  BY <1>1, <1>7, <1>9 DEF SeatInv
<1> QED
  BY <1>3, <1>8, <1>9

LEMMA AddressesKeepSeatInv ==
  ASSUME SaleTyped, SeatInv, NEW list \in Additions, AdminAddAddresses(list) PROVE SeatInv'
<1>1. /\ sale # NoSale /\ sale' = sale /\ taken_seats' = taken_seats + Len(list)
      /\ listed' = listed \cup ToSet(list) /\ taken_seats' <= sale.max_seats
  BY DEF AdminAddAddresses
<1>2. list \in Seq(Users)
  BY SaleFacts
<1>3. IsFiniteSet(listed) /\ taken_seats \in Nat
  <2>1. listed \subseteq Users /\ taken_seats \in Nat
    BY DEF SaleTyped, SaleTypeOK
  <2> QED
    BY <2>1, LaunchpadConstants, FS_Subset
<1>4. /\ Cardinality(listed') \in Nat /\ Cardinality(listed) \in Nat
      /\ Cardinality(listed') <= Cardinality(listed) + Len(list)
  BY <1>1, <1>2, <1>3, MembersCounted
<1>5. Cardinality(listed) <= taken_seats /\ Len(list) \in Nat
  BY <1>1, <1>2, LenProperties DEF SeatInv
<1>6. Cardinality(listed') <= taken_seats'
  BY <1>1, <1>3, <1>4, <1>5
<1> QED
  BY <1>1, <1>6 DEF SeatInv

\* The seats' account of every reachable state: types of the sale, and the launchpad's.
SeatsAndTypes == SaleTyped /\ IInv /\ SeatInv

LEMMA InitSeats == Init => SeatsAndTypes
<1> SUFFICES ASSUME Init PROVE SeatsAndTypes
  OBVIOUS
<1>1. SeatInv
  BY DEF Init, SeatInv
<1> QED
  BY <1>1, InitSaleTyped, InitIInv DEF SeatsAndTypes

LEMMA StepSeats == SeatsAndTypes /\ [Next]_vars => SeatsAndTypes'
<1> SUFFICES ASSUME SeatsAndTypes, [Next]_vars PROVE SeatsAndTypes'
  OBVIOUS
<1>1. SaleTyped' /\ IInv'
  BY StepSaleTyped, StepIInv DEF SeatsAndTypes
<1>2. ASSUME UNCHANGED <<sale, taken_seats, listed>> PROVE SeatInv'
  BY <1>2 DEF SeatsAndTypes, SeatInv
<1>3. ASSUME NEW s \in Sales, Instantiate(s) PROVE SeatInv'
  BY <1>3, InstantiateKeepsSeatInv DEF SeatsAndTypes
<1>4. ASSUME NEW list \in Additions, AdminAddAddresses(list) PROVE SeatInv'
  BY <1>4, AddressesKeepSeatInv DEF SeatsAndTypes
<1>5. ASSUME UNCHANGED idoVars \/ UNCHANGED vars \/ Tick PROVE SeatInv'
  BY <1>2, <1>5 DEF Tick, vars, idoVars, accountVars
<1>6. ASSUME NEW n, SupplySold(n) PROVE SeatInv'
  BY <1>2, <1>6 DEF SupplySold, accountVars
<1>7. ASSUME NEW n, NEW start, NEW end, Activate(n, start, end) PROVE SeatInv'
  BY <1>2, <1>7 DEF Activate, accountVars
<1>8. ASSUME NEW u, NEW n, PreLock(u, n) \/ Swap(u, n) PROVE SeatInv'
  BY <1>2, <1>8 DEF PreLock, Swap
<1>9. ASSUME AdminRefund \/ AdminClaim PROVE SeatInv'
  BY <1>2, <1>9 DEF AdminRefund, AdminClaim, accountVars
<1>10. SeatInv'
  BY <1>3, <1>4, <1>5, <1>6, <1>7, <1>8, <1>9 DEF Next
<1> QED
  BY <1>1, <1>10 DEF SeatsAndTypes

\* A seat for every listed address, and no more seats than there are but for the
\* whitelist of the instantiation (init and add_addresses of
\* contracts/launchpad/ido/src).
THEOREM SeatsCoverListedHolds == Spec => []SeatsCoverListed
<1>1. SeatsAndTypes => SeatsCoverListed
  BY DEF SeatsAndTypes, SeatInv, SeatsCoverListed
<1> QED
  BY <1>1, InitSeats, StepSeats, PTL DEF Spec

\* A whitelist of no more addresses than seats leaves no more listed than that.
LEMMA ListedFit ==
  ASSUME SeatsAndTypes, sale # NoSale, Cardinality(ToSet(sale.whitelist)) <= sale.max_seats
  PROVE  Cardinality(listed) <= sale.max_seats
<1>1. sale \in Sales /\ listed \subseteq Users /\ taken_seats \in Nat
  BY DEF SeatsAndTypes, SaleTyped, SaleTypeOK
<1>2. Cardinality(listed) \in Nat /\ sale.max_seats \in Nat
  BY <1>1, SaleFacts, LaunchpadConstants, FS_Subset, FS_CardinalityType
<1>3. CASE taken_seats <= sale.max_seats
  BY <1>1, <1>2, <1>3 DEF SeatsAndTypes, SeatInv
<1>4. CASE listed = ToSet(sale.whitelist)
  BY <1>4
<1> QED
  BY <1>3, <1>4 DEF SeatsAndTypes, SeatInv

-----------------------------------------------------------------------------
(* Every pre-lock is served.                                               *)

\* A pre-lock is by a listed address and, whenever the sale starts, within its limits.
PreLockersFit ==
  \A u \in Users : pre_locked[u] > 0 =>
    /\ u \in listed
    /\ sale.min_allocation <= ConvertToken(pre_locked[u])
    /\ ConvertToken(pre_locked[u]) <= sale.max_allocation

BuyersListed == \A u \in Users : bought[u] > 0 => u \in listed

\* Nobody buys before an activation, which there is none of without a sale.
NothingUntilActive ==
  /\ activations = 0 <=> schedule = NotActive
  /\ activations = 0 => \A u \in Users : pre_locked[u] = 0 /\ bought[u] = 0

\* What there is for sale and what has been bought.
EverForSale == sold_funds + SumOver(bought, Users)

\* A sale has at least half of what it may sell, since what comes with the activation
\* is counted twice, and all of it if it was covered.
HasItsAllocation ==
  /\ TotalAllocation <= 2 * EverForSale
  /\ covered => TotalAllocation <= EverForSale

\* In its only activation nobody buys before the start, who has bought has no pre-lock
\* left, and what there was for sale is still there or has been bought.
ActivatedOnce ==
  activations = 1 =>
    /\ ~HasStarted => \A u \in Users : bought[u] = 0
    /\ \A u \in Users : bought[u] > 0 => pre_locked[u] = 0
    /\ ~HasEnded => HasItsAllocation

SaleInv ==
  /\ SaleTyped /\ IInv
  /\ PreLockersFit /\ BuyersListed /\ NothingUntilActive /\ ActivatedOnce

\* What SaleTyped says of the buyers' part of the state.
LEMMA BuyersTyped ==
  ASSUME SaleTyped
  PROVE  /\ pre_locked \in [Users -> Nat] /\ bought \in [Users -> Nat] /\ paid \in [Users -> Nat]
         /\ sale \in Sales \cup {NoSale} /\ listed \subseteq Users
         /\ sold_funds \in Nat /\ hoard \in Nat /\ activations \in Nat /\ covered \in BOOLEAN
         /\ now \in Nat
         /\ schedule \in [start: Starts, end: Ends] \cup {NotActive}
         /\ schedule.start \in Int /\ schedule.end \in Int
         /\ IsActive => sale # NoSale
         /\ SumOver(bought, Users) \in Nat
<1>1. /\ pre_locked \in [Users -> Nat] /\ bought \in [Users -> Nat] /\ paid \in [Users -> Nat]
      /\ sale \in Sales \cup {NoSale} /\ listed \subseteq Users
      /\ sold_funds \in Nat /\ hoard \in Nat /\ activations \in Nat /\ covered \in BOOLEAN
      /\ schedule \in [start: Starts, end: Ends] \cup {NotActive}
      /\ IsActive => sale # NoSale
  BY DEF SaleTyped, SaleTypeOK
<1>2. now \in Nat
  BY LaunchpadConstants DEF SaleTyped, LaunchpadTypes
<1>3. schedule.start \in Int /\ schedule.end \in Int
  <2>1. CASE schedule = NotActive
    BY <2>1 DEF NotActive
  <2>2. CASE schedule \in [start: Starts, end: Ends]
    <3>1. schedule.start \in Starts /\ schedule.end \in Ends
      BY <2>2
    <3>2. Starts \subseteq Nat /\ Ends \subseteq Nat
      BY SaleFacts
    <3>3. schedule.start \in Nat /\ schedule.end \in Nat
      BY <3>1, <3>2, Zenon
    <3>4. \A k \in Nat : k \in Int
      OBVIOUS
    <3> QED
      BY <3>3, <3>4, Zenon
  <2> QED
    BY <1>1, <2>1, <2>2
<1>4. SumOver(bought, Users) \in Nat
  <2>1. IsFiniteSet(Users) /\ \A u \in Users : bought[u] \in Int /\ bought[u] >= 0
    BY <1>1, LaunchpadConstants
  <2> QED
    BY <2>1, SumType
<1> QED
  BY <1>1, <1>2, <1>3, <1>4

\* A step that changes nothing of what has been bought and pre-locked, takes nobody
\* off the list and no time back, and takes nothing of what is for sale until the end.
LEMMA OthersKeepSaleInv ==
  ASSUME SaleInv, [Next]_vars,
         UNCHANGED <<sale, pre_locked, bought, schedule, activations, covered>>,
         listed \subseteq listed', now' \in Nat, now <= now',
         sold_funds <= sold_funds' \/ HasEnded
  PROVE  SaleInv'
<1>1. SaleTyped' /\ IInv'
  BY StepSaleTyped, StepIInv DEF SaleInv
<1>2. PreLockersFit' /\ BuyersListed' /\ NothingUntilActive'
  BY DEF SaleInv, PreLockersFit, BuyersListed, NothingUntilActive, ConvertToken
<1>3. HasStarted => HasStarted'
  BY BuyersTyped DEF SaleInv, HasStarted
<1>4. HasEnded => HasEnded'
  BY BuyersTyped DEF SaleInv, HasEnded
<1>5. ActivatedOnce'
  <2> SUFFICES ASSUME activations = 1
               PROVE  /\ ~HasStarted' => \A u \in Users : bought[u] = 0
                      /\ \A u \in Users : bought[u] > 0 => pre_locked[u] = 0
                      /\ ~HasEnded' => HasItsAllocation'
    BY DEF ActivatedOnce
  <2>1. /\ ~HasStarted => \A u \in Users : bought[u] = 0
        /\ \A u \in Users : bought[u] > 0 => pre_locked[u] = 0
        /\ ~HasEnded => HasItsAllocation
    BY DEF SaleInv, ActivatedOnce
  <2>2. TotalAllocation' = TotalAllocation /\ SumOver(bought', Users) = SumOver(bought, Users)
    BY DEF TotalAllocation
  <2>3. sold_funds \in Nat /\ sold_funds' \in Nat /\ SumOver(bought, Users) \in Nat
    BY <1>1, BuyersTyped DEF SaleInv, SaleTyped, SaleTypeOK
  <2>4. ASSUME ~HasEnded' PROVE HasItsAllocation'
    <3>1. HasItsAllocation /\ sold_funds <= sold_funds'
      BY <1>4, <2>1, <2>4
    <3>2. TotalAllocation \in Int
      <4>1. sale \in Sales
        BY BuyersTyped DEF SaleInv, NothingUntilActive, IsActive
      <4> QED
        BY <4>1, SaleFacts DEF TotalAllocation
    <3>3. EverForSale \in Nat /\ EverForSale' \in Nat /\ EverForSale <= EverForSale'
      BY <2>2, <2>3, <3>1 DEF EverForSale
    <3>4. ASSUME NEW e \in Nat, NEW f \in Nat, e <= f, NEW a \in Int
          PROVE  (a <= 2 * e => a <= 2 * f) /\ (a <= e => a <= f)
      BY <3>4
    <3>5. /\ TotalAllocation <= 2 * EverForSale => TotalAllocation <= 2 * EverForSale'
          /\ TotalAllocation <= EverForSale => TotalAllocation <= EverForSale'
      BY <3>2, <3>3, <3>4
    <3> QED
      BY <2>2, <3>1, <3>5 DEF HasItsAllocation
  <2> QED
    BY <1>3, <2>1, <2>4
<1> QED
  BY <1>1, <1>2, <1>5 DEF SaleInv

\* Dearer or not, more buys no less.
LEMMA ConversionGrows ==
  ASSUME sale \in Sales, NEW m \in Nat, NEW n \in Nat, m <= n
  PROVE  ConvertToken(m) \in Nat /\ ConvertToken(n) \in Nat /\ ConvertToken(m) <= ConvertToken(n)
<1> DEFINE r == sale.rate
<1>1. r \in Nat /\ RateOne \in Nat \ {0}
  BY SaleFacts, SaleConstants
<1>2. m * r \in Nat /\ n * r \in Nat /\ m * r <= n * r
  BY <1>1, ProductGrows
<1> HIDE DEF r
<1>3. (m * r) \div RateOne <= (n * r) \div RateOne
  BY <1>1, <1>2, QuotientGrows
<1>4. ConvertToken(m) = (m * r) \div RateOne /\ ConvertToken(n) = (n * r) \div RateOne
  BY DEF ConvertToken, r
<1> QED
  BY <1>3, <1>4, ConvertedIsPaid

LEMMA InstantiateKeepsSaleInv ==
  ASSUME SaleInv, NEW s \in Sales, Instantiate(s) PROVE SaleInv'
<1>1. /\ sale = NoSale /\ UNCHANGED <<pre_locked, bought, schedule, activations, now>>
  BY DEF Instantiate
<1>2. SaleTyped' /\ IInv'
  BY StepSaleTyped, StepIInv DEF SaleInv, Next
<1>3. activations = 0 /\ \A u \in Users : pre_locked[u] = 0 /\ bought[u] = 0
  BY <1>1, BuyersTyped DEF SaleInv, NothingUntilActive, IsActive
<1>4. PreLockersFit' /\ BuyersListed' /\ NothingUntilActive' /\ ActivatedOnce'
  BY <1>1, <1>3 DEF SaleInv, PreLockersFit, BuyersListed, NothingUntilActive, ActivatedOnce
<1> QED
  BY <1>2, <1>4 DEF SaleInv

LEMMA ActivateKeepsSaleInv ==
  ASSUME SaleInv, NEW n \in Supplies \cup {0}, NEW start \in Starts, NEW end \in Ends,
         Activate(n, start, end)
  PROVE  SaleInv'
<1>1. /\ UNCHANGED <<now, sale, listed, pre_locked, bought>>
      /\ schedule' = [start |-> start, end |-> end]
      /\ activations' = activations + 1
      /\ covered' = (TotalAllocation <= sold_funds')
      /\ sold_funds' = sold_funds + n
      /\ TotalAllocation <= (sold_funds + n) + n
  BY DEF Activate, accountVars
<1>2. SaleTyped' /\ IInv'
  BY StepSaleTyped, StepIInv DEF SaleInv, Next
<1>3. PreLockersFit' /\ BuyersListed'
  BY <1>1 DEF SaleInv, PreLockersFit, BuyersListed, ConvertToken
<1>4. activations \in Nat
  BY BuyersTyped DEF SaleInv
<1>5. NothingUntilActive'
  <2>1. activations' # 0
    BY <1>1, <1>4
  <2>2. schedule' # NotActive
    <3>1. start \in Nat
      BY SaleFacts
    <3> QED
      BY <1>1, <3>1 DEF NotActive
  <2> QED
    BY <2>1, <2>2 DEF NothingUntilActive
<1>6. ActivatedOnce'
  <2> SUFFICES ASSUME activations' = 1
               PROVE  (\A u \in Users : bought[u] = 0) /\ HasItsAllocation'
    BY <1>1 DEF ActivatedOnce
  <2>1. \A u \in Users : bought[u] = 0
    BY <1>1, <1>4 DEF SaleInv, NothingUntilActive
  <2>2. SumOver(bought', Users) = 0
    BY <1>1, <2>1, LaunchpadConstants, SumOfZeros
  <2>3. TotalAllocation' = TotalAllocation /\ TotalAllocation \in Int
    <3>1. sale \in Sales
      BY BuyersTyped DEF SaleInv, Activate
    <3> QED
      BY <1>1, <3>1, SaleFacts DEF TotalAllocation
  <2>4. sold_funds \in Nat /\ sold_funds' \in Nat /\ n \in Nat
    BY <1>2, BuyersTyped, SaleFacts DEF SaleInv, SaleTyped, SaleTypeOK
  <2>5. EverForSale' = sold_funds'
    <3>1. \A k \in Nat : k + 0 = k
      OBVIOUS
    <3> QED
      BY <2>2, <2>4, <3>1, Zenon DEF EverForSale
  <2>6. covered' => TotalAllocation <= sold_funds'
    BY <1>1
  <2>7. TotalAllocation <= 2 * sold_funds'
    BY <1>1, <2>3, <2>4
  <2> QED
    BY <2>1, <2>3, <2>5, <2>6, <2>7 DEF HasItsAllocation
<1> QED
  BY <1>2, <1>3, <1>5, <1>6 DEF SaleInv

LEMMA PreLockKeepsSaleInv ==
  ASSUME SaleInv, NEW u \in Users, NEW n \in Payments, PreLock(u, n) PROVE SaleInv'
<1> DEFINE more == pre_locked[u] + n
<1>1. /\ sale # NoSale /\ IsActive /\ ~HasStarted /\ u \in listed
      /\ sale.min_allocation <= ConvertToken(n)
      /\ ConvertToken(more) <= sale.max_allocation
      /\ pre_locked' = [pre_locked EXCEPT ![u] = more]
      /\ UNCHANGED <<now, sale, schedule, listed, bought, sold_funds, activations, covered>>
  BY DEF PreLock
<1>2. SaleTyped' /\ IInv'
  BY StepSaleTyped, StepIInv DEF SaleInv, Next
<1>3. /\ pre_locked \in [Users -> Nat] /\ sale \in Sales /\ activations \in Nat
      /\ n \in Nat /\ more \in Nat /\ n <= more
  BY <1>1, BuyersTyped, SaleFacts DEF SaleInv
<1>4. sale.min_allocation <= ConvertToken(more)
  <2>1. ConvertToken(n) \in Nat /\ ConvertToken(more) \in Nat /\ ConvertToken(n) <= ConvertToken(more)
    BY <1>3, ConversionGrows
  <2>2. sale.min_allocation \in Nat
    BY <1>3, SaleFacts
  <2> QED
    BY <1>1, <2>1, <2>2
<1> HIDE DEF more
<1>5. PreLockersFit'
  <2> SUFFICES ASSUME NEW v \in Users, pre_locked'[v] > 0
               PROVE  /\ v \in listed
                      /\ sale.min_allocation <= ConvertToken(pre_locked'[v])
                      /\ ConvertToken(pre_locked'[v]) <= sale.max_allocation
    BY <1>1 DEF PreLockersFit, ConvertToken
  <2>1. CASE v = u
    <3>1. pre_locked'[v] = more
      BY <1>1, <1>3, <2>1
    <3> QED
      BY <1>1, <1>4, <2>1, <3>1
  <2>2. CASE v # u
    <3>1. pre_locked'[v] = pre_locked[v]
      BY <1>1, <1>3, <2>2
    <3> QED
      BY <3>1 DEF SaleInv, PreLockersFit
  <2> QED
    BY <2>1, <2>2
<1>6. BuyersListed' /\ NothingUntilActive'
  BY <1>1 DEF SaleInv, BuyersListed, NothingUntilActive, IsActive
<1>7. ActivatedOnce'
  <2> SUFFICES ASSUME activations = 1
               PROVE  (\A v \in Users : bought[v] = 0) /\ (~HasEnded => HasItsAllocation)
    <3>1. HasEnded' = HasEnded /\ HasStarted' = HasStarted /\ HasItsAllocation' = HasItsAllocation
      BY <1>1 DEF HasEnded, HasStarted, HasItsAllocation, TotalAllocation, EverForSale
    <3> QED
      BY <1>1, <3>1 DEF ActivatedOnce
  <2> QED
    BY <1>1 DEF SaleInv, ActivatedOnce
<1> QED
  BY <1>2, <1>5, <1>6, <1>7 DEF SaleInv

LEMMA SwapKeepsSaleInv ==
  ASSUME SaleInv, NEW u \in Users, NEW n \in Payments \cup {0}, Swap(u, n) PROVE SaleInv'
<1> DEFINE m == MintAmount(u, n)
<1>1. /\ sale # NoSale /\ IsActive /\ HasStarted /\ ~HasEnded /\ u \in listed
      /\ m <= sold_funds
      /\ bought' = [bought EXCEPT ![u] = @ + m]
      /\ pre_locked' = [pre_locked EXCEPT ![u] = 0]
      /\ sold_funds' = sold_funds - m
      /\ UNCHANGED <<now, sale, schedule, listed, activations, covered>>
  BY DEF Swap, CanSwap, IsSwapable, PreLockAfterSwap
<1>2. SaleTyped' /\ IInv'
  BY StepSaleTyped, StepIInv DEF SaleInv, Next
<1>3. /\ pre_locked \in [Users -> Nat] /\ bought \in [Users -> Nat] /\ sale \in Sales
      /\ activations \in Nat /\ sold_funds \in Nat /\ SumOver(bought, Users) \in Nat
  BY <1>1, BuyersTyped DEF SaleInv
<1>4. m \in Nat
  <2>1. n \in Nat
    <3>1. Payments \subseteq Nat
      BY SaleFacts
    <3>2. \A k \in Payments \cup {0} : k \in Nat
      BY <3>1
    <3> QED
      BY <3>2, Zenon
  <2>2. pre_locked[u] + n \in Nat
    BY <1>3, <2>1
  <2> QED
    BY <1>3, <2>2, ConvertedIsPaid DEF MintAmount
<1> HIDE DEF m
<1>5. \A v \in Users : v # u => pre_locked'[v] = pre_locked[v] /\ bought'[v] = bought[v]
  BY <1>1, <1>3
<1>6. pre_locked'[u] = 0
  BY <1>1, <1>3
<1>7. PreLockersFit'
  BY <1>1, <1>5, <1>6 DEF SaleInv, PreLockersFit, ConvertToken
<1>8. BuyersListed' /\ NothingUntilActive'
  BY <1>1, <1>5 DEF SaleInv, BuyersListed, NothingUntilActive, IsActive
<1>9. ActivatedOnce'
  <2>1. TotalAllocation' = TotalAllocation /\ HasStarted' = HasStarted /\ HasEnded' = HasEnded
    BY <1>1 DEF TotalAllocation, HasStarted, HasEnded
  <2> SUFFICES ASSUME activations = 1
               PROVE  /\ \A v \in Users : bought'[v] > 0 => pre_locked'[v] = 0
                      /\ HasItsAllocation'
    BY <1>1, <2>1 DEF ActivatedOnce
  <2>2. \A v \in Users : bought'[v] > 0 => pre_locked'[v] = 0
    BY <1>5, <1>6 DEF SaleInv, ActivatedOnce
  <2>3. EverForSale' = EverForSale
    <3> DEFINE amount == bought[u] + m
    <3>1. amount \in Int /\ bought' = [bought EXCEPT ![u] = amount]
      BY <1>1, <1>3, <1>4
    <3> HIDE DEF amount
    <3>2. SumOver([bought EXCEPT ![u] = amount], Users) + bought[u] = SumOver(bought, Users) + amount
      BY <1>3, <3>1, LaunchpadConstants, OneEntryOfSum
    <3>3. SumOver(bought', Users) + bought[u] = SumOver(bought, Users) + (bought[u] + m)
      BY <3>1, <3>2 DEF amount
    <3>4. SumOver(bought', Users) \in Nat /\ bought[u] \in Nat
      <4>1. IsFiniteSet(Users) /\ bought' \in [Users -> Nat]
        BY <1>2, LaunchpadConstants DEF SaleTyped, SaleTypeOK
      <4>2. \A v \in Users : bought'[v] \in Int /\ bought'[v] >= 0
        BY <4>1
      <4> QED
        BY <1>3, <4>1, <4>2, SumType
    <3> QED
      BY <1>1, <1>3, <1>4, <3>3, <3>4 DEF EverForSale
  <2>4. HasItsAllocation' = HasItsAllocation
    BY <1>1, <2>1, <2>3 DEF HasItsAllocation
  <2> QED
    BY <1>1, <2>2, <2>4 DEF SaleInv, ActivatedOnce
<1> QED
  BY <1>2, <1>7, <1>8, <1>9 DEF SaleInv

LEMMA InitSaleInv == Init => SaleInv
<1> SUFFICES ASSUME Init PROVE SaleInv
  OBVIOUS
<1>1. /\ schedule = NotActive /\ activations = 0
      /\ pre_locked = [u \in Users |-> 0] /\ bought = [u \in Users |-> 0]
  BY DEF Init
<1>2. PreLockersFit /\ BuyersListed /\ NothingUntilActive /\ ActivatedOnce
  BY <1>1 DEF PreLockersFit, BuyersListed, NothingUntilActive, ActivatedOnce
<1> QED
  BY <1>2, InitSaleTyped, InitIInv DEF SaleInv

LEMMA StepSaleInv == SaleInv /\ [Next]_vars => SaleInv'
<1> SUFFICES ASSUME SaleInv, [Next]_vars PROVE SaleInv'
  OBVIOUS
<1> DEFINE Same == UNCHANGED <<sale, pre_locked, bought, schedule, activations, covered>>
<1>1. now \in Nat /\ sold_funds \in Nat /\ hoard \in Nat /\ now <= now /\ sold_funds <= sold_funds
  BY BuyersTyped DEF SaleInv
<1>2. CASE LaunchpadNext /\ UNCHANGED idoVars
  <2>1. now' = now
    <3>1. \A u, t, n : Lock(u, t, n) => now' = now
      BY DEF Lock
    <3>2. \A u, t, count, sent : Unlock(u, t, count, sent) => now' = now
      BY DEF Unlock
    <3>3. \A c : AdminAddToken(c) => now' = now
      BY DEF AdminAddToken
    <3>4. \A i : AdminRemoveToken(i) => now' = now
      BY DEF AdminRemoveToken
    <3> QED
      BY <1>2, <3>1, <3>2, <3>3, <3>4 DEF LaunchpadNext
  <2>2. Same /\ listed \subseteq listed' /\ sold_funds' = sold_funds
    BY <1>2 DEF idoVars, accountVars, fundVars
  <2> QED
    BY <1>1, <2>1, <2>2, OthersKeepSaleInv
<1>3. ASSUME NEW list \in Additions, AdminAddAddresses(list) PROVE SaleInv'
  <2>1. Same /\ listed \subseteq listed' /\ sold_funds' = sold_funds /\ now' = now
    BY <1>3 DEF AdminAddAddresses, fundVars
  <2> QED
    BY <1>1, <2>1, OthersKeepSaleInv
<1>4. ASSUME NEW n \in Supplies, SupplySold(n) PROVE SaleInv'
  <2>1. Same /\ listed \subseteq listed' /\ sold_funds' = sold_funds + n /\ now' = now
    BY <1>4 DEF SupplySold, accountVars
  <2>2. n \in Nat
    BY SaleFacts
  <2>3. sold_funds <= sold_funds'
    BY <1>1, <2>1, <2>2
  <2> QED
    BY <1>1, <2>1, <2>3, OthersKeepSaleInv
<1>5. CASE AdminRefund
  <2>1. Same /\ listed \subseteq listed' /\ HasEnded /\ now' = now
    BY <1>5 DEF AdminRefund, IsRefundable, accountVars
  <2> QED
    BY <1>1, <2>1, OthersKeepSaleInv
<1>6. CASE AdminClaim
  <2>1. Same /\ listed \subseteq listed' /\ sold_funds' = sold_funds /\ now' = now
    BY <1>6 DEF AdminClaim, accountVars
  <2> QED
    BY <1>1, <2>1, OthersKeepSaleInv
<1>7. CASE Tick \/ UNCHANGED vars
  <2>1. Same /\ listed \subseteq listed' /\ sold_funds' = sold_funds /\ (now' = now \/ now' = now + 1)
    BY <1>7 DEF Tick, vars, idoVars, accountVars, fundVars
  <2>2. now' \in Nat /\ now <= now'
    BY <1>1, <2>1
  <2> QED
    BY <1>1, <2>1, <2>2, OthersKeepSaleInv
<1> QED
  BY <1>2, <1>3, <1>4, <1>5, <1>6, <1>7, InstantiateKeepsSaleInv, ActivateKeepsSaleInv,
     PreLockKeepsSaleInv, SwapKeepsSaleInv DEF Next

\* What the others may buy leaves enough for u, who has not bought any yet.
LEMMA SaleInvServes ==
  ASSUME SaleInv, IsSwapable, activations = 1,
         \/ covered /\ Cardinality(listed) <= sale.max_seats
         \/ 2 * Cardinality(listed) <= sale.max_seats,
         NEW u \in Users, pre_locked[u] > 0
  PROVE  CanSwap(u, 0)
<1> DEFINE max == sale.max_allocation
           seats == sale.max_seats
           m == ConvertToken(pre_locked[u])
           sum == SumOver(bought, Users)
           others == listed \ {u}
<1>1. /\ sale \in Sales /\ listed \subseteq Users /\ sold_funds \in Nat /\ sum \in Nat
      /\ pre_locked \in [Users -> Nat] /\ bought \in [Users -> Nat] /\ sale # NoSale
  BY BuyersTyped DEF SaleInv, IsSwapable
<1>2. max \in Nat /\ seats \in Nat /\ m \in Nat
  BY <1>1, SaleFacts, ConvertedIsPaid
<1>3. u \in listed /\ sale.min_allocation <= m /\ m <= max
  BY DEF SaleInv, PreLockersFit
<1>4. bought[u] = 0
  BY <1>1 DEF SaleInv, ActivatedOnce
<1>5. /\ max * seats <= 2 * (sold_funds + sum)
      /\ covered => max * seats <= sold_funds + sum
  BY DEF SaleInv, ActivatedOnce, IsSwapable, HasItsAllocation, EverForSale, TotalAllocation
<1>6. MintAmount(u, 0) = m
  <2>1. pre_locked[u] + 0 = pre_locked[u]
    BY <1>1
  <2> QED
    BY <2>1 DEF MintAmount
<1> HIDE DEF m, sum, others, max, seats
<1>7. /\ Cardinality(others) \in Nat /\ sum <= Cardinality(others) * max
      /\ Cardinality(listed) \in Nat /\ Cardinality(listed) = Cardinality(others) + 1
  <2>1. \A v \in Users : bought[v] \in Nat /\ bought[v] <= max
    BY <1>1 DEF SaleInv, IInv, BoughtIsPaid, max
  <2>2. \A v \in Users : v \notin others => bought[v] = 0
    BY <1>1, <1>4 DEF SaleInv, BuyersListed, others
  <2>3. others \in SUBSET Users /\ IsFiniteSet(Users) /\ IsFiniteSet(listed)
    BY <1>1, LaunchpadConstants, FS_Subset DEF others
  <2>4. Cardinality(others) \in Nat /\ sum <= Cardinality(others) * max
    BY <1>2, <2>1, <2>2, <2>3, SumBounded DEF sum
  <2>5. Cardinality(listed) \in Nat /\ Cardinality(others) = Cardinality(listed) - 1
    BY <1>3, <2>3, TakeOne DEF others
  <2> QED
    BY <2>4, <2>5
<1> DEFINE c == Cardinality(others)
           room == c * max
<1>8. c \in Nat /\ room \in Nat /\ (c + 1) * max = room + max
  BY <1>2, <1>7, SMT
<1>9. max * seats = seats * max /\ max * seats \in Nat
  BY <1>2, SMT
<1> HIDE DEF room
<1>10. sum <= room /\ Cardinality(listed) = c + 1
  BY <1>7 DEF room
<1> HIDE DEF c
<1>11. max <= sold_funds
  <2>1. CASE covered /\ Cardinality(listed) <= sale.max_seats
    <3>1. c + 1 <= seats /\ c + 1 \in Int
      BY <1>8, <1>10, <2>1 DEF seats
    <3>2. (c + 1) * max <= seats * max
      BY <1>2, <3>1, ProductGrows
    <3>3. room + max <= sold_funds + sum
      BY <1>1, <1>2, <1>5, <1>8, <1>9, <2>1, <3>2
    <3> QED
      BY <1>1, <1>2, <1>8, <1>10, <3>3
  <2>2. CASE 2 * Cardinality(listed) <= sale.max_seats
    <3>1. 2 * (c + 1) <= seats /\ 2 * (c + 1) \in Int
      BY <1>8, <1>10, <2>2 DEF seats
    <3>2. (2 * (c + 1)) * max <= seats * max
      BY <1>2, <3>1, ProductGrows
    <3>3. (2 * (c + 1)) * max = 2 * ((c + 1) * max)
      BY <1>2, <1>8, SMT
    <3>4. 2 * (room + max) <= 2 * (sold_funds + sum)
      BY <1>1, <1>2, <1>5, <1>8, <1>9, <3>2, <3>3
    <3> QED
      BY <1>1, <1>2, <1>8, <1>10, <3>4
  <2> QED
    BY <2>1, <2>2
<1>12. m <= sold_funds /\ bought[u] + m <= max
  BY <1>1, <1>2, <1>3, <1>4, <1>11
<1> QED
  BY <1>3, <1>6, <1>12 DEF CanSwap, max

\* "Pre lock funds before the sale has started, and then claim them after the sale
\* starts": every pre-lock can be swapped until the end of a sale that was activated
\* once, with all it may sell and no more addresses whitelisted than it has seats, or
\* with at most half of its seats listed, whatever the others buy before (swap and
\* activate of contracts/launchpad/ido/src/handle.rs).
THEOREM PreLocksAreServedHolds == Spec => []PreLocksAreServed
<1>1. SaleInv /\ SeatsAndTypes => PreLocksAreServed
  <2> SUFFICES ASSUME SaleInv, SeatsAndTypes, IsSwapable, activations = 1,
                      \/ covered /\ Cardinality(ToSet(sale.whitelist)) <= sale.max_seats
                      \/ 2 * Cardinality(listed) <= sale.max_seats,
                      NEW u \in Users, pre_locked[u] > 0
               PROVE  CanSwap(u, 0)
    BY DEF PreLocksAreServed, SaleInv, SaleTyped
  <2>1. sale # NoSale
    BY BuyersTyped DEF SaleInv, IsSwapable
  <2>2. \/ covered /\ Cardinality(listed) <= sale.max_seats
        \/ 2 * Cardinality(listed) <= sale.max_seats
    BY <2>1, ListedFit
  <2> QED
    BY <2>2, SaleInvServes
<1> QED
  BY <1>1, InitSaleInv, StepSaleInv, InitSeats, StepSeats, PTL DEF Spec
=============================================================================
