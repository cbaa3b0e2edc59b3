----------------------------- MODULE LendProofs -----------------------------
(***************************************************************************)
(* Sienna Lend for any markets, users, amounts, prices and interest model: *)
(* the totals, the list of borrowers and the markets entered agree, sl-    *)
(* tokens keep their worth, and collateral is seized only from those who   *)
(* are underwater.                                                         *)
(***************************************************************************)
EXTENDS Lend, SumsProofs, SequenceTheorems

\* The three invariants are inductive only together: a seizure stays within the
\* supply because the supply is the sum of the balances, and a debt can be read
\* because its index is not zero.
LendInv == SupplyIsSum /\ BorrowersIndexed /\ DebtorsAreEntered

-----------------------------------------------------------------------------
(* Decimals and rates.                                                     *)

LEMMA DecimalTypes ==
  ASSUME NEW a \in Nat, NEW b \in Nat
  PROVE  /\ a * b \in Nat
         /\ Times(a, b) \in Nat /\ Product(a, b) \in Nat
         /\ b # 0 => Per(a, b) \in Nat /\ Ratio(a, b) \in Nat /\ Quotient(a, b) \in Nat
<1>1. a * b \in Nat /\ a * DecimalOne \in Nat /\ DecimalOne \in Nat \ {0}
  BY DecimalAssumption, SMT
<1>2. (a * b) \div DecimalOne \in Nat
  BY <1>1, QuotientBounds
<1>3. b # 0 => (a * DecimalOne) \div b \in Nat
  BY <1>1, QuotientBounds
<1> QED
  BY <1>1, <1>2, <1>3 DEF Times, Product, Per, Ratio, Quotient

\* A share of at most one takes no more than there is.
LEMMA ShareBounds ==
  ASSUME NEW a \in Nat, NEW d \in 0..DecimalOne
  PROVE  Times(a, d) \in 0..a
<1>1. DecimalOne \in Nat \ {0} /\ d \in Nat
  BY DecimalAssumption
<1>2. a * d \in Nat /\ a * DecimalOne \in Nat
  BY <1>1, SMT
<1>3. a * d <= a * DecimalOne
  BY <1>1, ProductGrows
<1>4. Times(a, d) \in Nat /\ Times(a, d) * DecimalOne <= a * d
  BY <1>1, <1>2, QuotientBounds DEF Times
<1>5. Times(a, d) * DecimalOne < (a + 1) * DecimalOne
  <2>1. (a + 1) * DecimalOne = a * DecimalOne + DecimalOne
    BY <1>1, SMT
  <2>2. Times(a, d) * DecimalOne \in Nat
    BY <1>1, <1>4, DecimalTypes
  <2> QED
    BY <1>1, <1>2, <1>3, <1>4, <2>1, <2>2
<1>6. Times(a, d) < a + 1
  BY <1>1, <1>4, <1>5, ProductReflects
<1> QED
  BY <1>4, <1>6

LEMMA BorrowRateType ==
  ASSUME NEW balance \in Nat, NEW borrows \in Nat, NEW reserves \in Nat,
         RateDefined(balance, borrows, reserves)
  PROVE  BorrowRate(balance, borrows, reserves) \in Nat
<1> DEFINE util == UtilizationRate(balance, borrows, reserves)
<1>1. util \in Nat
  <2>1. CASE borrows = 0
    BY <2>1 DEF UtilizationRate
  <2>2. CASE borrows # 0
    <3>1. balance + borrows - reserves \in Nat \ {0}
      BY <2>2 DEF RateDefined
    <3> QED
      BY <2>2, <3>1, DecimalTypes DEF UtilizationRate
  <2> QED
    BY <2>1, <2>2
<1> HIDE DEF util
<1>2. JumpRate(util) \in Nat
  <2>1. Product(util, Multiplier) \in Nat /\ Product(JumpThreshold, Multiplier) \in Nat
    BY <1>1, InterestAssumption, DecimalTypes
  <2>2. util > JumpThreshold => Product(util - JumpThreshold, JumpMultiplier) \in Nat
    <3>1. util > JumpThreshold => util - JumpThreshold \in Nat
      BY <1>1, InterestAssumption
    <3> QED
      BY <3>1, InterestAssumption, DecimalTypes
  <2>3. BaseRate \in Nat /\ JumpThreshold \in Nat
    BY InterestAssumption
  <2> QED
    BY <1>1, <2>1, <2>2, <2>3 DEF JumpRate
<1> QED
  BY <1>2, InterestAssumption DEF BorrowRate, util

LEMMA AreFinite ==
  IsFiniteSet(Users) /\ IsFiniteSet(Markets) /\ \A E \in SUBSET Markets : IsFiniteSet(E)
BY LendAssumption, FS_Interval, FS_Subset DEF Users

\* The fields of a market's record.
LEMMA MarketFields ==
  ASSUME NEW s \in MarketRecord
  PROVE  /\ s.borrows \in Nat /\ s.reserves \in Nat /\ s.index \in Nat
         /\ s.accrued \in Nat /\ s.supply \in Nat
         /\ \A n \in Nat : /\ [s EXCEPT !.borrows = n] \in MarketRecord
                           /\ [s EXCEPT !.supply = n] \in MarketRecord
                           /\ [s EXCEPT !.reserves = n] \in MarketRecord
BY DEF MarketRecord

\* Bringing a market up to date raises its debts, its reserves and its index, and
\* leaves its supply alone.  What the reserves take is part of what the debts grow by.
LEMMA AccruedFacts ==
  ASSUME LendTypeOK, NEW m \in Markets, IndicesReached(m), Accrues(m)
  PROVE  /\ Accrued(m) \in MarketRecord
         /\ Accrued(m).supply = market[m].supply
         /\ Accrued(m).accrued = block
         /\ Accrued(m).index >= market[m].index
         /\ Accrued(m).borrows - Accrued(m).reserves
              >= market[m].borrows - market[m].reserves
<1> DEFINE s == market[m]
           factor == InterestFactor(m)
           interest == Times(s.borrows, factor)
           kept == Times(interest, config[m].factor)
<1>1. /\ s \in MarketRecord /\ cash[m] \in Nat /\ block \in Nat
      /\ config[m].factor \in 0..DecimalOne /\ s.accrued <= block
  BY LendAssumption DEF LendTypeOK, IndicesReached
<1>2. s.borrows \in Nat /\ s.reserves \in Nat /\ s.index \in Nat
      /\ s.accrued \in Nat /\ s.supply \in Nat
  BY <1>1, MarketFields
<1>3. factor \in Nat
  <2>1. CASE s.accrued = block
    BY <2>1 DEF InterestFactor
  <2>2. CASE s.accrued # block
    <3>1. BorrowRate(cash[m], s.borrows, s.reserves) \in Nat
      BY <1>1, <1>2, <2>2, BorrowRateType DEF Accrues
    <3>2. block - s.accrued \in Nat
      BY <1>1, <1>2
    <3> QED
      BY <2>2, <3>1, <3>2, DecimalTypes DEF InterestFactor
  <2> QED
    BY <2>1, <2>2
<1> HIDE DEF factor
<1>4. interest \in Nat /\ Product(s.index, factor) \in Nat
  BY <1>2, <1>3, DecimalTypes
<1> HIDE DEF interest
<1>5. kept \in 0..interest
  BY <1>1, <1>4, ShareBounds
<1> HIDE DEF kept
<1>6. Accrued(m) = [s EXCEPT !.borrows = @ + interest, !.reserves = @ + kept,
                             !.index = @ + Product(@, factor), !.accrued = block]
  BY DEF Accrued, factor, interest, kept
<1>7. /\ Accrued(m).borrows = s.borrows + interest
      /\ Accrued(m).reserves = s.reserves + kept
      /\ Accrued(m).index = s.index + Product(s.index, factor)
      /\ Accrued(m).accrued = block /\ Accrued(m).supply = s.supply
  BY <1>1, <1>6 DEF MarketRecord
<1>8. Accrued(m) \in MarketRecord
  <2>1. PICK a \in Nat, b \in Nat, c \in Nat :
          /\ a = s.borrows + interest /\ b = s.reserves + kept
          /\ c = s.index + Product(s.index, factor)
    BY <1>2, <1>4, <1>5
  <2>2. Accrued(m) = [s EXCEPT !.borrows = a, !.reserves = b, !.index = c,
                               !.accrued = block]
    BY <1>6, <2>1
  <2> QED
    BY <1>1, <2>2 DEF MarketRecord
<1> QED
  BY <1>2, <1>4, <1>5, <1>7, <1>8

\* An exchange rate that can be told is not negative.
LEMMA ExchangeRateType ==
  ASSUME NEW balance \in Nat, NEW s \in MarketRecord
  PROVE  /\ ExchangeRate(balance, s) \in Int
         /\ HasRate(balance, s) => ExchangeRate(balance, s) \in Nat
<1>1. s.borrows \in Nat /\ s.reserves \in Nat /\ s.supply \in Nat
      /\ InitialRate \in Nat /\ DecimalOne \in Nat
  BY MarketFields, LendAssumption, DecimalAssumption
<1>2. CASE s.supply = 0
  BY <1>1, <1>2 DEF ExchangeRate
<1>3. CASE s.supply # 0
  <2> DEFINE worth == balance + s.borrows - s.reserves
  <2>1. worth \in Int /\ worth * DecimalOne \in Int /\ s.supply \in Nat \ {0}
    BY <1>1, <1>3, SMT
  <2>2. HasRate(balance, s) => worth \in Nat
    BY <1>1, <1>3 DEF HasRate
  <2>3. ExchangeRate(balance, s) = (worth * DecimalOne) \div s.supply
    BY <1>3 DEF ExchangeRate, Ratio
  <2> HIDE DEF worth
  <2>4. worth \in Nat => worth * DecimalOne >= 0
    BY <1>1, SMT
  <2> QED
    BY <2>1, <2>2, <2>3, <2>4, QuotientBounds
<1> QED
  BY <1>2, <1>3

-----------------------------------------------------------------------------
(* The list of borrowers.                                                  *)

LEMMA BookFields ==
  ASSUME NEW b \in Book
  PROVE  /\ b.list \in Seq(Snapshot) /\ Len(b.list) \in Nat
         /\ b.at \in [Users -> Nat]
         /\ b = [list |-> b.list, at |-> b.at]
         /\ \A i \in 1..Len(b.list) :
              /\ b.list[i] \in Snapshot
              /\ b.list[i].principal \in Nat /\ b.list[i].index \in Nat
<1>1. b.list \in Seq(Snapshot) /\ b.at \in [Users -> Nat]
      /\ b = [list |-> b.list, at |-> b.at]
  BY DEF Book
<1>2. Len(b.list) \in Nat /\ \A i \in 1..Len(b.list) : b.list[i] \in Snapshot
  BY <1>1, LenProperties, ElementOfSeq
<1> QED
  BY <1>1, <1>2 DEF Snapshot

\* What a user's place in the list reads.
LEMMA SnapshotFacts ==
  ASSUME NEW b \in Book, WellIndexed(b, Users), NEW u \in Users
  PROVE  /\ SnapshotOf(b, u) \in Snapshot
         /\ SnapshotOf(b, u).who = u
         /\ SnapshotOf(b, u).principal = 0 <=> b.at[u] = 0
         /\ b.at[u] = 0 => SnapshotOf(b, u).index = 0
         /\ b.at[u] # 0 => /\ b.at[u] \in 1..Len(b.list)
                           /\ SnapshotOf(b, u) = b.list[b.at[u]]
<1>1. CASE b.at[u] = 0
  BY <1>1 DEF SnapshotOf, Snapshot
<1>2. CASE b.at[u] # 0
  <2>1. b.at[u] \in 1..Len(b.list) /\ b.list[b.at[u]].who = u
    BY <1>2, BookFields DEF WellIndexed
  <2>2. b.list[b.at[u]].principal > 0 /\ b.list[b.at[u]].principal \in Nat
    BY <2>1, BookFields DEF WellIndexed
  <2> QED
    BY <1>2, <2>1, <2>2, BookFields DEF SnapshotOf
<1> QED
  BY <1>1, <1>2

\* What swap_remove leaves: the last entry in the place of the removed.
LEMMA WithoutEntryFacts ==
  ASSUME NEW list \in Seq(Snapshot), NEW place \in 1..Len(list)
  PROVE  /\ WithoutEntry(list, place) \in Seq(Snapshot)
         /\ Len(WithoutEntry(list, place)) = Len(list) - 1
         /\ \A i \in 1..(Len(list) - 1) :
              WithoutEntry(list, place)[i] = IF i = place THEN list[Len(list)] ELSE list[i]
<1> DEFINE n == Len(list)
           swapped == [list EXCEPT ![place] = list[n]]
<1>1. n \in Nat /\ n \in 1..n /\ list[n] \in Snapshot
  BY LenProperties, ElementOfSeq
<1>2. /\ swapped \in Seq(Snapshot) /\ Len(swapped) = n
      /\ \A i \in 1..n : swapped[i] = IF i = place THEN list[n] ELSE list[i]
  BY <1>1, ExceptSeq
<1>3. \A i \in 1..(n - 1) : swapped[i] \in Snapshot
  BY <1>1, <1>2, ElementOfSeq
<1>4. WithoutEntry(list, place) = SubSeq(swapped, 1, n - 1)
  BY DEF WithoutEntry
<1> HIDE DEF swapped, n
<1>5. /\ SubSeq(swapped, 1, n - 1) \in Seq(Snapshot)
      /\ Len(SubSeq(swapped, 1, n - 1)) = IF 1 <= n - 1 THEN n - 1 - 1 + 1 ELSE 0
      /\ \A i \in 1..(n - 1 - 1 + 1) : SubSeq(swapped, 1, n - 1)[i] = swapped[1 + i - 1]
  <2>1. n - 1 \in Int /\ 1 \in Int
    BY <1>1
  <2> QED
    BY <1>3, <2>1, SubSeqProperties
<1>6. \A i \in 1..(n - 1) : i \in 1..n /\ 1 + i - 1 = i
  BY <1>1
<1>7. n - 1 - 1 + 1 = n - 1 /\ (IF 1 <= n - 1 THEN n - 1 - 1 + 1 ELSE 0) = n - 1
  BY <1>1
<1>8. Len(WithoutEntry(list, place)) = n - 1
  BY <1>4, <1>5, <1>7
<1>9. \A i \in 1..(n - 1) : WithoutEntry(list, place)[i] = swapped[i]
  BY <1>4, <1>5, <1>6, <1>7
<1> QED
  BY <1>2, <1>4, <1>5, <1>6, <1>8, <1>9 DEF n

\* A repaid borrower is taken out of the list; the others read what they read.
LEMMA RemovedFacts ==
  ASSUME NEW b \in Book, WellIndexed(b, Users), NEW u \in Users, b.at[u] # 0
  PROVE  /\ Removed(b, u) \in Book
         /\ WellIndexed(Removed(b, u), Users)
         /\ Removed(b, u).at[u] = 0
         /\ \A v \in Users : v # u => SnapshotOf(Removed(b, u), v) = SnapshotOf(b, v)
         /\ \A i \in 1..Len(Removed(b, u).list) :
              \E j \in 1..Len(b.list) : Removed(b, u).list[i] = b.list[j]
<1> DEFINE n == Len(b.list)
           p == b.at[u]
           moved == b.list[n].who
           list == WithoutEntry(b.list, p)
           at == [b.at EXCEPT ![moved] = p, ![u] = 0]
<1>1. /\ b.list \in Seq(Snapshot) /\ b.at \in [Users -> Nat] /\ n \in Nat
      /\ p \in 1..n /\ n \in 1..n
  <2>1. b.list \in Seq(Snapshot) /\ b.at \in [Users -> Nat] /\ n \in Nat
    BY BookFields
  <2>2. p \in 1..n
    BY SnapshotFacts
  <2> QED
    BY <2>1, <2>2
<1>2. /\ \A v \in Users : b.at[v] \in 0..n
      /\ \A i \in 1..n : /\ b.list[i].who \in Users /\ b.list[i].principal > 0
                         /\ b.at[b.list[i].who] = i
      /\ \A v \in Users : b.at[v] # 0 => b.list[b.at[v]].who = v
  BY DEF WellIndexed
<1>3. moved \in Users /\ b.at[moved] = n
  BY <1>1, <1>2
<1>4. /\ list \in Seq(Snapshot) /\ Len(list) = n - 1
      /\ \A i \in 1..(n - 1) : list[i] = IF i = p THEN b.list[n] ELSE b.list[i]
  BY <1>1, WithoutEntryFacts
<1>5. /\ at \in [Users -> Nat] /\ at[u] = 0
      /\ moved # u => at[moved] = p
      /\ \A v \in Users : v # u /\ v # moved => at[v] = b.at[v]
  BY <1>1, <1>3
<1>6. Removed(b, u).list = list /\ Removed(b, u).at = at
      /\ Removed(b, u) = [list |-> list, at |-> at]
  BY DEF Removed
<1> HIDE DEF n, p, moved, list, at
<1>7. Removed(b, u) \in Book
  BY <1>4, <1>5, <1>6 DEF Book
<1>8. ASSUME moved # u PROVE p \in 1..(n - 1)
  <2>1. p # n
    BY <1>1, <1>2, <1>8 DEF p, moved
  <2> QED
    BY <1>1, <2>1
<1>9. \A v \in Users : v # u /\ v # moved => at[v] \in 0..(n - 1) /\ at[v] # p
  <2> SUFFICES ASSUME NEW v \in Users, v # u, v # moved
               PROVE  at[v] \in 0..(n - 1) /\ at[v] # p
    OBVIOUS
  <2>1. at[v] = b.at[v] /\ b.at[v] \in 0..n
    BY <1>2, <1>5
  <2>2. b.at[v] # n /\ b.at[v] # p
    <3>1. n # 0 /\ p # 0
      BY <1>1
    <3>2. b.list[p].who = u
      BY <1>2, <3>1 DEF p
    <3> QED
      BY <1>2, <3>1, <3>2 DEF moved
  <2> QED
    BY <1>1, <2>1, <2>2
<1>10. \A v \in Users : at[v] \in 0..Len(list)
  BY <1>1, <1>4, <1>5, <1>8, <1>9
<1>11. \A i \in 1..(n - 1) : \E j \in 1..n : list[i] = b.list[j] /\ at[b.list[j].who] = i
  <2> SUFFICES ASSUME NEW i \in 1..(n - 1)
               PROVE  \E j \in 1..n : list[i] = b.list[j] /\ at[b.list[j].who] = i
    OBVIOUS
  <2>1. i \in 1..n /\ i # n /\ n \in 1..n
    BY <1>1
  <2>2. CASE i = p
    <3>1. list[i] = b.list[n]
      BY <1>4, <2>2
    <3>2. moved # u
      BY <1>3, <2>1, <2>2 DEF p
    <3>3. at[b.list[n].who] = i
      BY <1>5, <2>2, <3>2 DEF moved
    <3> QED
      BY <2>1, <3>1, <3>3
  <2>3. CASE i # p
    <3>1. list[i] = b.list[i] /\ b.at[b.list[i].who] = i /\ b.list[i].who \in Users
      BY <1>2, <1>4, <2>1, <2>3
    <3>2. b.list[i].who # u /\ b.list[i].who # moved
      BY <1>3, <2>1, <2>3, <3>1 DEF p
    <3>3. at[b.list[i].who] = i
      BY <1>5, <3>1, <3>2
    <3> QED
      BY <2>1, <3>1, <3>3
  <2> QED
    BY <2>2, <2>3
<1>12. \A v \in Users : v # u /\ at[v] # 0 => list[at[v]] = b.list[b.at[v]] /\ b.at[v] # 0
  <2> SUFFICES ASSUME NEW v \in Users, v # u, at[v] # 0
               PROVE  list[at[v]] = b.list[b.at[v]] /\ b.at[v] # 0
    OBVIOUS
  <2>1. CASE v = moved
    <3>1. at[v] = p /\ b.at[v] = n /\ n # 0 /\ p \in 1..(n - 1)
      BY <1>1, <1>3, <1>5, <1>8, <2>1
    <3> QED
      BY <1>4, <3>1
  <2>2. CASE v # moved
    <3>1. at[v] = b.at[v] /\ at[v] \in 1..(n - 1) /\ at[v] # p
      BY <1>1, <1>5, <1>9, <2>2
    <3> QED
      BY <1>4, <3>1
  <2> QED
    BY <2>1, <2>2
<1>13. WellIndexed(Removed(b, u), Users)
  <2>1. \A i \in 1..Len(list) : /\ list[i].who \in Users /\ list[i].principal > 0
                                /\ at[list[i].who] = i
    BY <1>2, <1>4, <1>11
  <2>2. \A v \in Users : at[v] # 0 => list[at[v]].who = v
    BY <1>2, <1>5, <1>12
  <2> QED
    BY <1>6, <1>10, <2>1, <2>2 DEF WellIndexed
<1>14. ASSUME NEW v \in Users, v # u
       PROVE  SnapshotOf(Removed(b, u), v) = SnapshotOf(b, v)
  <2>1. CASE at[v] = 0
    <3>1. b.at[v] = 0
      BY <1>1, <1>5, <1>8, <1>14, <2>1
    <3> QED
      BY <1>6, <2>1, <3>1 DEF SnapshotOf
  <2>2. CASE at[v] # 0
    BY <1>6, <1>12, <1>14, <2>2 DEF SnapshotOf
  <2> QED
    BY <2>1, <2>2
<1> QED
  BY <1>4, <1>5, <1>6, <1>7, <1>11, <1>13, <1>14 DEF n

\* A saved snapshot is what its user reads, unless nothing is owed; the others
\* read what they read.
LEMMA SavedFacts ==
  ASSUME NEW b \in Book, WellIndexed(b, Users), NEW u \in Users,
         NEW s \in Snapshot, s.who = u
  PROVE  /\ Saved(b, u, s) \in Book
         /\ WellIndexed(Saved(b, u, s), Users)
         /\ SnapshotOf(Saved(b, u, s), u)
              = IF s.principal = 0 THEN [who |-> u, principal |-> 0, index |-> 0] ELSE s
         /\ \A v \in Users : v # u => SnapshotOf(Saved(b, u, s), v) = SnapshotOf(b, v)
         /\ \A i \in 1..Len(Saved(b, u, s).list) :
              \/ Saved(b, u, s).list[i] = s
              \/ \E j \in 1..Len(b.list) : Saved(b, u, s).list[i] = b.list[j]
<1> DEFINE n == Len(b.list)
           p == b.at[u]
<1>1. /\ b.list \in Seq(Snapshot) /\ b.at \in [Users -> Nat] /\ n \in Nat
      /\ b = [list |-> b.list, at |-> b.at]
      /\ s.principal \in Nat
  BY BookFields DEF Snapshot
<1>2. /\ \A v \in Users : b.at[v] \in 0..n
      /\ \A i \in 1..n : /\ b.list[i].who \in Users /\ b.list[i].principal > 0
                         /\ b.at[b.list[i].who] = i
      /\ \A v \in Users : b.at[v] # 0 => b.list[b.at[v]].who = v
  BY DEF WellIndexed
<1>3. CASE p # 0 /\ s.principal = 0
  <2>1. Saved(b, u, s) = Removed(b, u)
    BY <1>3 DEF Saved
  <2>2. SnapshotOf(Removed(b, u), u) = [who |-> u, principal |-> 0, index |-> 0]
    BY <1>3, RemovedFacts DEF SnapshotOf
  <2> QED
    BY <1>3, <2>1, <2>2, RemovedFacts
<1>4. CASE p = 0 /\ s.principal = 0
  <2>1. Saved(b, u, s) = b
    BY <1>4 DEF Saved
  <2> QED
    BY <1>4, <2>1 DEF SnapshotOf
<1>5. CASE p # 0 /\ s.principal # 0
  <2> DEFINE list == [b.list EXCEPT ![p] = s]
  <2>1. p \in 1..n
    BY <1>5, SnapshotFacts
  <2>2. /\ list \in Seq(Snapshot) /\ Len(list) = n
        /\ \A i \in 1..n : list[i] = IF i = p THEN s ELSE b.list[i]
    BY <1>1, <2>1, ExceptSeq
  <2>3. Saved(b, u, s) = [list |-> list, at |-> b.at]
    <3>1. Saved(b, u, s) = [b EXCEPT !.list[p] = s]
      BY <1>5 DEF Saved
    <3>2. [b EXCEPT !.list[p] = s] = [list |-> list, at |-> b.at]
      BY DEF Book
    <3> QED
      BY <3>1, <3>2
  <2> HIDE DEF list
  <2>4. Saved(b, u, s) \in Book /\ Saved(b, u, s).list = list /\ Saved(b, u, s).at = b.at
    BY <1>1, <2>2, <2>3 DEF Book
  <2>5. \A i \in 1..n : /\ list[i].who \in Users /\ list[i].principal > 0
                        /\ b.at[list[i].who] = i
    BY <1>1, <1>2, <1>5, <2>2 DEF p
  <2>6. \A v \in Users : b.at[v] # 0 =>
          /\ list[b.at[v]].who = v
          /\ list[b.at[v]] = IF v = u THEN s ELSE b.list[b.at[v]]
    <3> SUFFICES ASSUME NEW v \in Users, b.at[v] # 0
                 PROVE  /\ list[b.at[v]].who = v
                        /\ list[b.at[v]] = IF v = u THEN s ELSE b.list[b.at[v]]
      OBVIOUS
    <3>1. b.at[v] \in 1..n /\ b.list[b.at[v]].who = v
      BY <1>1, <1>2
    <3>2. v # u => b.at[v] # p
      BY <1>2, <1>5, <3>1 DEF p
    <3> QED
      BY <2>2, <3>1, <3>2 DEF p
  <2>7. WellIndexed(Saved(b, u, s), Users)
    BY <1>2, <2>2, <2>4, <2>5, <2>6 DEF WellIndexed
  <2>8. \A v \in Users : v # u => SnapshotOf(Saved(b, u, s), v) = SnapshotOf(b, v)
    BY <2>4, <2>6 DEF SnapshotOf
  <2>9. SnapshotOf(Saved(b, u, s), u) = s
    BY <1>5, <2>4, <2>6 DEF SnapshotOf, p
  <2>10. \A i \in 1..n : list[i] = s \/ \E j \in 1..n : list[i] = b.list[j]
    BY <2>2
  <2> QED
    BY <1>5, <2>2, <2>4, <2>7, <2>8, <2>9, <2>10
<1>6. CASE p = 0 /\ s.principal # 0
  <2> DEFINE list == Append(b.list, s)
             at == [b.at EXCEPT ![u] = n + 1]
  <2>1. /\ list \in Seq(Snapshot) /\ Len(list) = n + 1
        /\ \A i \in 1..n : list[i] = b.list[i]
        /\ list[n + 1] = s
    BY <1>1, AppendProperties
  <2>2. at \in [Users -> Nat] /\ at[u] = n + 1
        /\ \A v \in Users : v # u => at[v] = b.at[v]
    BY <1>1
  <2>3. Saved(b, u, s) = [list |-> list, at |-> at]
    BY <1>6 DEF Saved
  <2> HIDE DEF list, at
  <2>4. Saved(b, u, s) \in Book /\ Saved(b, u, s).list = list /\ Saved(b, u, s).at = at
    BY <2>1, <2>2, <2>3 DEF Book
  <2>5. \A i \in 1..(n + 1) : /\ list[i].who \in Users /\ list[i].principal > 0
                              /\ at[list[i].who] = i
    <3> SUFFICES ASSUME NEW i \in 1..(n + 1)
                 PROVE  /\ list[i].who \in Users /\ list[i].principal > 0
                        /\ at[list[i].who] = i
      OBVIOUS
    <3>1. CASE i = n + 1
      BY <1>1, <1>6, <2>1, <2>2, <3>1
    <3>2. CASE i # n + 1
      <4>1. i \in 1..n /\ i # 0
        BY <1>1, <3>2
      <4>2. list[i] = b.list[i] /\ b.at[b.list[i].who] = i /\ b.list[i].who \in Users
            /\ b.list[i].principal > 0
        BY <1>2, <2>1, <4>1
      <4>3. b.list[i].who # u
        BY <1>6, <4>1, <4>2
      <4> QED
        BY <2>2, <4>2, <4>3
    <3> QED
      BY <3>1, <3>2
  <2>6. \A v \in Users : at[v] \in 0..(n + 1)
    BY <1>1, <1>2, <2>2
  <2>7. \A v \in Users : at[v] # 0 =>
          /\ list[at[v]].who = v
          /\ list[at[v]] = IF v = u THEN s ELSE b.list[b.at[v]]
    <3> SUFFICES ASSUME NEW v \in Users, at[v] # 0
                 PROVE  /\ list[at[v]].who = v
                        /\ list[at[v]] = IF v = u THEN s ELSE b.list[b.at[v]]
      OBVIOUS
    <3>1. CASE v = u
      BY <2>1, <2>2, <3>1
    <3>2. CASE v # u
      <4>1. at[v] = b.at[v] /\ b.at[v] \in 1..n
        BY <1>1, <1>2, <2>2, <3>2
      <4> QED
        BY <1>2, <2>1, <3>2, <4>1
    <3> QED
      BY <3>1, <3>2
  <2>8. WellIndexed(Saved(b, u, s), Users)
    BY <2>1, <2>4, <2>5, <2>6, <2>7 DEF WellIndexed
  <2>9. \A v \in Users : v # u => SnapshotOf(Saved(b, u, s), v) = SnapshotOf(b, v)
    BY <2>2, <2>4, <2>7 DEF SnapshotOf
  <2>10. SnapshotOf(Saved(b, u, s), u) = s
    BY <1>1, <2>1, <2>2, <2>4 DEF SnapshotOf
  <2>11. \A i \in 1..(n + 1) : list[i] = s \/ \E j \in 1..n : list[i] = b.list[j]
    <3>1. \A i \in 1..(n + 1) : i = n + 1 \/ i \in 1..n
      BY <1>1
    <3> QED
      BY <2>1, <3>1
  <2> QED
    BY <1>6, <2>1, <2>4, <2>8, <2>9, <2>10, <2>11
<1> QED
  BY <1>3, <1>4, <1>5, <1>6

-----------------------------------------------------------------------------
(* Debts.                                                                  *)

\* A debt that can be read is an amount.  Dust stays dust, however its index
\* grows, and a debt that reads as nothing is dust.
LEMMA OwedFacts ==
  ASSUME NEW s \in Snapshot, NEW index \in Nat,
         s.principal = 0 \/ s.index \in DecimalOne..index
  PROVE  /\ Owed(s, index) \in Nat
         /\ IsDust(s) => Owed(s, index) * DecimalOne <= index
         /\ Owed(s, index) = 0 => IsDust(s)
<1> DEFINE p == s.principal
           i == s.index
           t == Times(p, index)
           q == Owed(s, index)
<1>1. p \in Nat /\ i \in Nat /\ DecimalOne \in Nat \ {0}
  BY DecimalAssumption DEF Snapshot
<1>2. CASE p = 0
  BY <1>1, <1>2 DEF Owed, IsDust
<1>3. CASE p # 0
  <2>1. i \in Nat \ {0} /\ DecimalOne <= i /\ i <= index
    BY <1>1, <1>3
  <2>2. p * index \in Nat /\ p * DecimalOne \in Nat /\ p * i \in Nat
    BY <1>1, DecimalTypes
  <2>3. /\ t \in Nat /\ t * DecimalOne <= p * index
        /\ p * index < t * DecimalOne + DecimalOne
    <3>1. p * index >= 0 /\ p * index \in Int /\ t = (p * index) \div DecimalOne
      BY <2>2 DEF Times
    <3> HIDE DEF t
    <3> QED
      BY <1>1, <3>1, QuotientBounds
  <2>4. q = (t * DecimalOne) \div i
    BY <1>3 DEF Owed, Per
  <2> HIDE DEF q, t, p, i
  <2>5. t * DecimalOne \in Nat
    BY <1>1, <2>3, DecimalTypes
  <2>6. q \in Nat /\ q * i <= t * DecimalOne /\ t * DecimalOne < q * i + i
    BY <2>1, <2>4, <2>5, QuotientBounds
  <2>7. ASSUME p * DecimalOne <= i PROVE q * DecimalOne <= index
    <3>1. q * i \in Nat /\ q * i <= p * index
      BY <2>2, <2>3, <2>5, <2>6, <1>1, DecimalTypes
    <3>2. (q * i) * DecimalOne <= (p * index) * DecimalOne
      BY <1>1, <2>2, <3>1, ProductGrows
    <3>3. (p * DecimalOne) * index <= i * index
      BY <1>1, <2>2, <2>7, ProductGrows
    <3>4. (q * DecimalOne) * i = (q * i) * DecimalOne
      BY <1>1, <2>6, SMT
    <3>5. (p * index) * DecimalOne = (p * DecimalOne) * index
      BY <1>1, SMT
    <3>6. i * index = index * i
      BY <1>1, SMT
    <3>7. /\ (q * DecimalOne) * i \in Int /\ (p * DecimalOne) * index \in Int
          /\ index * i \in Int /\ q * DecimalOne \in Int
      BY <1>1, <2>2, <2>6, DecimalTypes
    <3>8. (q * DecimalOne) * i <= index * i
      BY <3>2, <3>3, <3>4, <3>5, <3>6, <3>7
    <3> QED
      BY <2>1, <3>7, <3>8, ProductReflectsLe
  <2>8. ASSUME q = 0 PROVE p * DecimalOne <= i
    <3>1. t * DecimalOne < i
      BY <1>1, <2>5, <2>6, <2>8
    <3>2. p * DecimalOne <= p * index
      BY <1>1, <2>1, ProductGrows
    <3>3. (t + 1) * DecimalOne = t * DecimalOne + DecimalOne
      BY <1>1, <2>3, SMT
    <3>4. p * DecimalOne < (t + 1) * DecimalOne
      BY <1>1, <2>2, <2>3, <2>5, <3>2, <3>3
    <3>5. p < t + 1
      BY <1>1, <2>3, <3>4, ProductReflects
    <3>6. p * DecimalOne <= t * DecimalOne
      BY <1>1, <2>3, <3>5, ProductGrows
    <3> QED
      BY <1>1, <2>2, <2>5, <3>1, <3>6
  <2> QED
    BY <2>6, <2>7, <2>8 DEF IsDust, p, i, q
<1> QED
  BY <1>2, <1>3

\* Every debt in a market can be read at any index the market may reach.
LEMMA DebtsReadable ==
  ASSUME LendTypeOK, NEW m \in Markets, WellIndexed(book[m], Users), IndicesReached(m),
         NEW u \in Users, NEW index \in Nat, market[m].index <= index
  PROVE  /\ SnapshotOf(book[m], u) \in Snapshot /\ SnapshotOf(book[m], u).who = u
         /\ SnapshotOf(book[m], u).principal \in Nat
         /\ SnapshotOf(book[m], u).principal = 0
              \/ SnapshotOf(book[m], u).index \in DecimalOne..index
<1> DEFINE s == SnapshotOf(book[m], u)
           place == book[m].at[u]
<1>1. book[m] \in Book /\ market[m].index \in Nat /\ DecimalOne \in Nat
  BY MarketFields, DecimalAssumption DEF LendTypeOK
<1>2. /\ s \in Snapshot /\ s.who = u
      /\ s.principal = 0 <=> place = 0
      /\ place # 0 => place \in 1..Len(book[m].list) /\ s = book[m].list[place]
  BY <1>1, SnapshotFacts
<1>3. s.principal = 0 \/ s.index \in DecimalOne..market[m].index
  BY <1>2 DEF IndicesReached
<1>4. s.principal \in Nat
  <2>1. \A r \in Snapshot : r.principal \in Nat
    BY DEF Snapshot
  <2> QED
    BY <1>2, <2>1
<1> HIDE DEF s
<1>5. s.principal = 0 \/ s.index \in DecimalOne..index
  <2>1. \A i \in DecimalOne..market[m].index : i \in DecimalOne..index
    BY <1>1
  <2> QED
    BY <1>3, <2>1
<1> QED
  BY <1>2, <1>4, <1>5 DEF s

\* The book after a debt was brought up to date and changed.
LEMMA ResnapshotFacts ==
  ASSUME LendInv, NEW m \in Markets, Accrues(m), NEW u \in Users, NEW owed \in Nat
  PROVE  /\ Debt(m, u) \in Nat
         /\ IsDust(SnapshotOf(book[m], u)) =>
              Debt(m, u) * DecimalOne <= Accrued(m).index
         /\ Resnapshot(m, u, owed) \in Book
         /\ WellIndexed(Resnapshot(m, u, owed), Users)
         /\ \A v \in Users : v # u =>
              SnapshotOf(Resnapshot(m, u, owed), v) = SnapshotOf(book[m], v)
         /\ SnapshotOf(Resnapshot(m, u, owed), u).principal = owed
         /\ SnapshotOf(Resnapshot(m, u, owed), u).index
              = IF owed = 0 THEN 0 ELSE Accrued(m).index
         /\ \A i \in 1..Len(Resnapshot(m, u, owed).list) :
              Resnapshot(m, u, owed).list[i].index \in DecimalOne..Accrued(m).index
<1> DEFINE s == SnapshotOf(book[m], u)
           r == [s EXCEPT !.principal = owed, !.index = Accrued(m).index]
           b == Resnapshot(m, u, owed)
<1>1. /\ LendTypeOK /\ WellIndexed(book[m], Users) /\ IndicesReached(m)
      /\ book[m] \in Book
  BY DEF LendInv, SupplyIsSum, BorrowersIndexed, LendTypeOK
<1>2. /\ Accrued(m) \in MarketRecord /\ Accrued(m).index >= market[m].index
      /\ Accrued(m).index \in Nat /\ market[m].index \in Nat
      /\ DecimalOne <= market[m].index /\ DecimalOne \in Nat
  BY <1>1, AccruedFacts, MarketFields, DecimalAssumption
     DEF LendTypeOK, IndicesReached
<1>3. /\ s \in Snapshot /\ s.who = u
      /\ s.principal = 0 \/ s.index \in DecimalOne..Accrued(m).index
  BY <1>1, <1>2, DebtsReadable
<1>4. /\ Debt(m, u) \in Nat
      /\ IsDust(s) => Debt(m, u) * DecimalOne <= Accrued(m).index
  BY <1>2, <1>3, OwedFacts DEF Debt
<1>5. /\ r \in Snapshot /\ r.who = u /\ r.principal = owed
      /\ r.index = Accrued(m).index
  BY <1>2, <1>3 DEF Snapshot
<1>6. b = Saved(book[m], u, r)
  BY DEF Resnapshot
<1> HIDE DEF r, b
<1>7. /\ b \in Book /\ WellIndexed(b, Users)
      /\ SnapshotOf(b, u) = IF owed = 0 THEN [who |-> u, principal |-> 0, index |-> 0]
                            ELSE r
      /\ \A v \in Users : v # u => SnapshotOf(b, v) = SnapshotOf(book[m], v)
      /\ \A i \in 1..Len(b.list) :
           b.list[i] = r \/ \E j \in 1..Len(book[m].list) : b.list[i] = book[m].list[j]
  BY <1>1, <1>5, <1>6, SavedFacts
<1>8. \A j \in 1..Len(book[m].list) :
        book[m].list[j].index \in DecimalOne..Accrued(m).index
  BY <1>1, <1>2 DEF IndicesReached
<1>9. \A i \in 1..Len(b.list) : b.list[i].index \in DecimalOne..Accrued(m).index
  <2>1. r.index \in DecimalOne..Accrued(m).index
    BY <1>2, <1>5
  <2> SUFFICES ASSUME NEW i \in 1..Len(b.list)
               PROVE  b.list[i].index \in DecimalOne..Accrued(m).index
    OBVIOUS
  <2>2. b.list[i] = r \/ \E j \in 1..Len(book[m].list) : b.list[i] = book[m].list[j]
    BY <1>7
  <2> QED
    BY <1>8, <2>1, <2>2
<1> QED
  BY <1>4, <1>5, <1>7, <1>9 DEF b

-----------------------------------------------------------------------------
(* What steps have in common.                                              *)

LEMMA InvFacts ==
  ASSUME LendInv
  PROVE  /\ LendTypeOK
         /\ \A m \in Markets :
              /\ market[m] \in MarketRecord /\ slToken[m] \in [Users -> Nat]
              /\ book[m] \in Book /\ WellIndexed(book[m], Users) /\ IndicesReached(m)
              /\ cash[m] \in Nat /\ wallet[m] \in [Users -> Nat]
              /\ market[m].supply = SumOver(slToken[m], Users)
         /\ block \in Nat
BY DEF LendInv, SupplyIsSum, BorrowersIndexed, LendTypeOK

\* A step that writes one market's record.
LEMMA MarketStored ==
  ASSUME LendInv, NEW m \in Markets, NEW r \in MarketRecord,
         market' = [market EXCEPT ![m] = r]
  PROVE  /\ market' \in [Markets -> MarketRecord]
         /\ market'[m] = r
         /\ \A c \in Markets : c # m => market'[c] = market[c]
         /\ r.index >= market[m].index /\ r.accrued <= block =>
              \A c \in Markets : /\ market'[c].index >= market[c].index
                                 /\ market'[c].accrued <= block
<1>1. market \in [Markets -> MarketRecord]
  BY InvFacts DEF LendTypeOK
<1>2. /\ market' \in [Markets -> MarketRecord]
      /\ market'[m] = r
      /\ \A c \in Markets : c # m => market'[c] = market[c]
  BY <1>1
<1>3. \A c \in Markets : market[c].index \in Nat /\ market[c].accrued <= block
  BY InvFacts, MarketFields DEF IndicesReached
<1>4. \A c \in Markets : market[c].index >= market[c].index
  BY <1>3
<1> QED
  BY <1>2, <1>3, <1>4

LEMMA BooksKept ==
  ASSUME LendInv, LendTypeOK', book' = book, block <= block',
         \A m \in Markets : /\ market'[m].index >= market[m].index
                            /\ market'[m].accrued <= block'
  PROVE  BorrowersIndexed'
<1> SUFFICES ASSUME NEW m \in Markets
             PROVE  WellIndexed(book'[m], Users) /\ IndicesReached(m)'
  BY DEF BorrowersIndexed
<1>1. WellIndexed(book[m], Users) /\ IndicesReached(m)
  BY InvFacts
<1>2. market[m].index \in Nat /\ market'[m].index \in Nat /\ DecimalOne \in Nat
  BY InvFacts, MarketFields, DecimalAssumption DEF LendTypeOK
<1>3. \A i \in DecimalOne..market[m].index : i \in DecimalOne..market'[m].index
  BY <1>2
<1> QED
  BY <1>1, <1>2, <1>3 DEF IndicesReached

LEMMA DebtorsKept ==
  ASSUME LendInv, book' = book, \A u \in Users : entered[u] \subseteq entered'[u]
  PROVE  DebtorsAreEntered'
BY DEF LendInv, DebtorsAreEntered

\* A debt brought up to date and lowered, or raised in a market entered.
LEMMA DebtResaved ==
  ASSUME LendInv, LendTypeOK', NEW m \in Markets, NEW u \in Users, NEW owed \in Nat,
         Accrues(m), book' = [book EXCEPT ![m] = Resnapshot(m, u, owed)],
         entered' = entered, block' = block,
         market'[m].index = Accrued(m).index,
         \A c \in Markets : /\ market'[c].index >= market[c].index
                            /\ market'[c].accrued <= block,
         m \in entered[u] \/ owed <= Debt(m, u)
  PROVE  BorrowersIndexed' /\ DebtorsAreEntered'
<1> DEFINE b == Resnapshot(m, u, owed)
<1>1. /\ Debt(m, u) \in Nat
      /\ IsDust(SnapshotOf(book[m], u)) => Debt(m, u) * DecimalOne <= Accrued(m).index
      /\ WellIndexed(b, Users)
      /\ \A v \in Users : v # u => SnapshotOf(b, v) = SnapshotOf(book[m], v)
      /\ SnapshotOf(b, u).principal = owed
      /\ SnapshotOf(b, u).index = IF owed = 0 THEN 0 ELSE Accrued(m).index
      /\ \A i \in 1..Len(b.list) : b.list[i].index \in DecimalOne..Accrued(m).index
  BY ResnapshotFacts
<1> HIDE DEF b
<1>2. book'[m] = b /\ \A c \in Markets : c # m => book'[c] = book[c]
  BY InvFacts DEF LendTypeOK, b
<1>3. BorrowersIndexed'
  <2> SUFFICES ASSUME NEW c \in Markets
               PROVE  WellIndexed(book'[c], Users) /\ IndicesReached(c)'
    BY DEF BorrowersIndexed
  <2>1. market[c].index \in Nat /\ market'[c].index \in Nat /\ DecimalOne \in Nat
        /\ IndicesReached(c) /\ WellIndexed(book[c], Users)
    BY InvFacts, MarketFields, DecimalAssumption DEF LendTypeOK
  <2>2. market'[c].accrued <= block' /\ DecimalOne <= market'[c].index
    BY <2>1 DEF IndicesReached
  <2>3. CASE c = m
    BY <1>1, <1>2, <2>2, <2>3 DEF IndicesReached
  <2>4. CASE c # m
    <3>1. \A i \in DecimalOne..market[c].index : i \in DecimalOne..market'[c].index
      BY <2>1
    <3> QED
      BY <1>2, <2>1, <2>2, <2>4, <3>1 DEF IndicesReached
  <2> QED
    BY <2>3, <2>4
<1>4. DebtorsAreEntered'
  <2> SUFFICES ASSUME NEW c \in Markets, NEW v \in Users, c \notin entered[v]
               PROVE  IsDust(SnapshotOf(book'[c], v))
    BY DEF DebtorsAreEntered
  <2>1. IsDust(SnapshotOf(book[c], v))
    BY DEF LendInv, DebtorsAreEntered
  <2>2. CASE c = m /\ v = u
    <3>1. owed <= Debt(m, u) /\ Debt(m, u) * DecimalOne <= Accrued(m).index
      BY <1>1, <2>1, <2>2
    <3>2. DecimalOne \in Nat /\ owed * DecimalOne <= Debt(m, u) * DecimalOne
      <4>1. DecimalOne \in Nat /\ owed \in Int /\ Debt(m, u) \in Int
        BY <1>1, DecimalAssumption
      <4> QED
        BY <3>1, <4>1, ProductGrows
    <3>3. Accrued(m).index \in Nat
      BY InvFacts, AccruedFacts, MarketFields
    <3>4. owed * DecimalOne \in Nat /\ Debt(m, u) * DecimalOne \in Nat
      BY <1>1, <3>2, DecimalTypes
    <3>5. owed * DecimalOne <= Accrued(m).index
      BY <3>1, <3>2, <3>3, <3>4
    <3>6. owed = 0 => owed * DecimalOne = 0
      BY <3>2
    <3>7. owed * DecimalOne <= SnapshotOf(b, u).index
      BY <1>1, <3>4, <3>5, <3>6
    <3> QED
      BY <1>1, <1>2, <2>2, <3>7 DEF IsDust
  <2>3. CASE ~(c = m /\ v = u)
    BY <1>1, <1>2, <2>1, <2>3
  <2> QED
    BY <2>2, <2>3
<1> QED
  BY <1>3, <1>4

-----------------------------------------------------------------------------
(* The balances of a market and their sum.                                 *)

\* Nothing issued, burnt or moved.
LEMMA BalancesKept ==
  ASSUME LendInv, LendTypeOK', slToken' = slToken,
         \A m \in Markets : market'[m].supply = market[m].supply
  PROVE  SupplyIsSum'
BY InvFacts DEF SupplyIsSum

LEMMA BalancesChanged ==
  ASSUME LendInv, LendTypeOK', NEW m \in Markets, NEW balances,
         slToken' = [slToken EXCEPT ![m] = balances],
         market'[m].supply = SumOver(balances, Users),
         \A c \in Markets : c # m => market'[c].supply = market[c].supply
  PROVE  SupplyIsSum'
<1>1. slToken'[m] = balances /\ \A c \in Markets : c # m => slToken'[c] = slToken[c]
  BY InvFacts DEF LendTypeOK
<1> QED
  BY <1>1, InvFacts DEF SupplyIsSum

\* One balance changes.
LEMMA OneBalance ==
  ASSUME LendInv, NEW m \in Markets, NEW u \in Users, NEW n \in Nat
  PROVE  /\ [slToken[m] EXCEPT ![u] = n] \in [Users -> Nat]
         /\ slToken[m][u] \in Nat /\ slToken[m][u] <= market[m].supply
         /\ SumOver([slToken[m] EXCEPT ![u] = n], Users) + slToken[m][u]
              = market[m].supply + n
<1>1. slToken[m] \in [Users -> Nat] /\ market[m].supply = SumOver(slToken[m], Users)
  BY InvFacts
<1>2. IsFiniteSet(Users) /\ n \in Int
  BY AreFinite
<1> QED
  BY <1>1, <1>2, OneEntryOfSum

-----------------------------------------------------------------------------
(* The steps, one lemma each.                                              *)

LEMMA AmountTypes ==
  ASSUME LendInv, NEW m \in Markets, NEW amount \in Amounts[m]
  PROVE  amount \in Nat
BY LendAssumption

LEMMA PaidInTypes ==
  ASSUME LendInv, NEW m \in Markets, NEW u \in Users, NEW amount \in Nat,
         PayIn(m, u, amount)
  PROVE  cash' \in [Markets -> Nat] /\ wallet' \in [Markets -> [Users -> Nat]]
<1>1. /\ cash \in [Markets -> Nat] /\ wallet \in [Markets -> [Users -> Nat]]
      /\ cash[m] \in Nat /\ wallet[m] \in [Users -> Nat] /\ wallet[m][u] \in Nat
  BY InvFacts DEF LendTypeOK
<1>2. cash[m] + amount \in Nat /\ wallet[m][u] - amount \in Nat
  BY <1>1 DEF PayIn
<1> QED
  BY <1>1, <1>2 DEF PayIn

LEMMA PaidOutTypes ==
  ASSUME LendInv, NEW m \in Markets, NEW u \in Users, NEW amount \in Nat,
         PayOut(m, u, amount)
  PROVE  cash' \in [Markets -> Nat] /\ wallet' \in [Markets -> [Users -> Nat]]
<1>1. /\ cash \in [Markets -> Nat] /\ wallet \in [Markets -> [Users -> Nat]]
      /\ cash[m] \in Nat /\ wallet[m] \in [Users -> Nat] /\ wallet[m][u] \in Nat
  BY InvFacts DEF LendTypeOK
<1>2. cash[m] - amount \in Nat /\ wallet[m][u] + amount \in Nat
  BY <1>1 DEF PayOut
<1> QED
  BY <1>1, <1>2 DEF PayOut

\* A step that stores a market's record brought up to date, with other totals.
LEMMA AccruedStored ==
  ASSUME LendInv, NEW m \in Markets, Accrues(m), NEW r \in MarketRecord,
         r.index = Accrued(m).index, r.accrued = Accrued(m).accrued,
         market' = [market EXCEPT ![m] = r]
  PROVE  /\ market' \in [Markets -> MarketRecord]
         /\ market'[m] = r
         /\ \A c \in Markets : c # m => market'[c] = market[c]
         /\ \A c \in Markets : /\ market'[c].index >= market[c].index
                               /\ market'[c].accrued <= block
<1>1. Accrued(m).index >= market[m].index /\ Accrued(m).accrued = block /\ block \in Nat
  BY InvFacts, AccruedFacts
<1>2. r.index >= market[m].index /\ r.accrued <= block
  BY <1>1
<1> QED
  BY <1>2, MarketStored

LEMMA DepositKeeps ==
  ASSUME LendInv, NEW m \in Markets, NEW u \in Users, NEW amount \in Amounts[m],
         Deposit(m, u, amount)
  PROVE  LendInv'
<1> DEFINE minted == Minted(m, amount)
           r == [Accrued(m) EXCEPT !.supply = @ + minted]
           balance == slToken[m][u]
<1>1. Accrues(m) /\ amount \in Nat /\ PayIn(m, u, amount)
  BY AmountTypes DEF Deposit
<1>2. /\ Accrued(m) \in MarketRecord /\ Accrued(m).supply = market[m].supply
      /\ market[m].supply \in Nat /\ cash[m] \in Nat /\ IndicesReached(m)
  BY <1>1, InvFacts, AccruedFacts, MarketFields
<1>3. minted \in Nat
  <2>1. ExchangeRate(cash[m], Accrued(m)) \in Nat \ {0}
    BY <1>2, ExchangeRateType DEF Deposit
  <2> QED
    BY <1>1, <2>1, DecimalTypes DEF Minted
<1> HIDE DEF minted
<1>4. market[m].supply + minted \in Nat /\ Accrued(m).supply + minted \in Nat
  BY <1>2, <1>3
<1>5. /\ r \in MarketRecord /\ r.supply = market[m].supply + minted
      /\ r.index = Accrued(m).index /\ r.accrued = Accrued(m).accrued
  BY <1>2, <1>4 DEF MarketRecord
<1>6. market' = [market EXCEPT ![m] = r]
  BY DEF Deposit, minted
<1> HIDE DEF r
<1>7. /\ market' \in [Markets -> MarketRecord] /\ market'[m] = r
      /\ \A c \in Markets : c # m => market'[c] = market[c]
      /\ \A c \in Markets : /\ market'[c].index >= market[c].index
                            /\ market'[c].accrued <= block
  BY <1>1, <1>5, <1>6, AccruedStored
<1>8. PICK n \in Nat : n = balance + minted
  <2>1. balance \in Nat
    BY InvFacts
  <2> QED
    BY <1>3, <2>1
<1> DEFINE balances == [slToken[m] EXCEPT ![u] = n]
<1>9. /\ balances \in [Users -> Nat] /\ SumOver(balances, Users) \in Nat
      /\ SumOver(balances, Users) + balance = market[m].supply + n /\ balance \in Nat
  <2>1. balances \in [Users -> Nat] /\ balance \in Nat
    BY InvFacts
  <2> QED
    BY <2>1, OneBalance, SumType, AreFinite
<1>10. slToken' = [slToken EXCEPT ![m] = balances]
  <2>1. slToken' = [slToken EXCEPT ![m][u] = @ + minted]
    BY DEF Deposit, minted
  <2> QED
    BY <1>8, <2>1, InvFacts DEF LendTypeOK
<1>11. SumOver(balances, Users) = market'[m].supply
  BY <1>2, <1>3, <1>5, <1>7, <1>8, <1>9
<1> HIDE DEF balances
<1>12. slToken' \in [Markets -> [Users -> Nat]]
  BY <1>9, <1>10, InvFacts DEF LendTypeOK
<1>13. /\ UNCHANGED <<block, config, paused, book, entered, ltv, price>>
  BY DEF Deposit, overseerVars
<1>14. LendTypeOK'
  BY <1>1, <1>7, <1>12, <1>13, InvFacts, PaidInTypes DEF LendTypeOK
<1>15. SupplyIsSum'
  BY <1>7, <1>10, <1>11, <1>14, BalancesChanged
<1>16. BorrowersIndexed' /\ DebtorsAreEntered'
  <2>1. block <= block'
    BY <1>13, InvFacts
  <2> QED
    BY <1>7, <1>13, <1>14, <2>1, BooksKept, DebtorsKept
<1> QED
  BY <1>15, <1>16 DEF LendInv

LEMMA RedeemKeeps ==
  ASSUME LendInv, NEW m \in Markets, NEW u \in Users, NEW burnt \in Nat,
         NEW received \in Nat, Redeem(m, u, burnt, received)
  PROVE  LendInv'
<1> DEFINE r == [Accrued(m) EXCEPT !.supply = @ - burnt]
           balance == slToken[m][u]
<1>1. Accrues(m) /\ burnt <= balance /\ burnt <= market[m].supply
      /\ PayOut(m, u, received)
  BY DEF Redeem
<1>2. /\ Accrued(m) \in MarketRecord /\ Accrued(m).supply = market[m].supply
      /\ market[m].supply \in Nat
  BY <1>1, InvFacts, AccruedFacts, MarketFields
<1>3. market[m].supply - burnt \in Nat /\ Accrued(m).supply - burnt \in Nat
  BY <1>1, <1>2
<1>4. /\ r \in MarketRecord /\ r.supply = market[m].supply - burnt
      /\ r.index = Accrued(m).index /\ r.accrued = Accrued(m).accrued
  BY <1>2, <1>3 DEF MarketRecord
<1>5. market' = [market EXCEPT ![m] = r]
  BY DEF Redeem
<1> HIDE DEF r
<1>6. /\ market' \in [Markets -> MarketRecord] /\ market'[m] = r
      /\ \A c \in Markets : c # m => market'[c] = market[c]
      /\ \A c \in Markets : /\ market'[c].index >= market[c].index
                            /\ market'[c].accrued <= block
  BY <1>1, <1>4, <1>5, AccruedStored
<1>7. PICK n \in Nat : n = balance - burnt
  <2>1. balance \in Nat
    BY InvFacts
  <2> QED
    BY <1>1, <2>1
<1> DEFINE balances == [slToken[m] EXCEPT ![u] = n]
<1>8. /\ balances \in [Users -> Nat] /\ SumOver(balances, Users) \in Nat
      /\ SumOver(balances, Users) + balance = market[m].supply + n /\ balance \in Nat
  <2>1. balances \in [Users -> Nat] /\ balance \in Nat
    BY InvFacts
  <2> QED
    BY <2>1, OneBalance, SumType, AreFinite
<1>9. slToken' = [slToken EXCEPT ![m] = balances]
  <2>1. slToken' = [slToken EXCEPT ![m][u] = @ - burnt]
    BY DEF Redeem
  <2> QED
    BY <1>7, <2>1, InvFacts DEF LendTypeOK
<1>10. SumOver(balances, Users) = market'[m].supply
  BY <1>2, <1>4, <1>6, <1>7, <1>8
<1> HIDE DEF balances
<1>11. slToken' \in [Markets -> [Users -> Nat]]
  BY <1>8, <1>9, InvFacts DEF LendTypeOK
<1>12. UNCHANGED <<block, config, paused, book, entered, ltv, price>>
  BY DEF Redeem, overseerVars
<1>13. LendTypeOK'
  BY <1>1, <1>6, <1>11, <1>12, InvFacts, PaidOutTypes DEF LendTypeOK
<1>14. SupplyIsSum'
  BY <1>6, <1>9, <1>10, <1>13, BalancesChanged
<1>15. BorrowersIndexed' /\ DebtorsAreEntered'
  <2>1. block <= block'
    BY <1>12, InvFacts
  <2> QED
    BY <1>6, <1>12, <1>13, <2>1, BooksKept, DebtorsKept
<1> QED
  BY <1>14, <1>15 DEF LendInv

LEMMA RedeemTokenKeeps ==
  ASSUME LendInv, NEW m \in Markets, NEW u \in Users, NEW amount \in Amounts[m],
         RedeemToken(m, u, amount)
  PROVE  LendInv'
<1> DEFINE rate == ExchangeRate(cash[m], Accrued(m))
<1>1. Accrues(m) /\ HasRate(cash[m], Accrued(m)) /\ amount \in Nat
      /\ Redeem(m, u, amount, Times(amount, rate))
  BY AmountTypes DEF RedeemToken, Redeem
<1>2. rate \in Nat
  BY <1>1, InvFacts, AccruedFacts, ExchangeRateType
<1>3. Times(amount, rate) \in Nat
  BY <1>1, <1>2, DecimalTypes
<1> QED
  BY <1>1, <1>3, RedeemKeeps

LEMMA RedeemUnderlyingKeeps ==
  ASSUME LendInv, NEW m \in Markets, NEW u \in Users, NEW amount \in Amounts[m],
         RedeemUnderlying(m, u, amount)
  PROVE  LendInv'
<1> DEFINE rate == ExchangeRate(cash[m], Accrued(m))
<1>1. Accrues(m) /\ HasRate(cash[m], Accrued(m)) /\ amount \in Nat /\ rate > 0
      /\ Redeem(m, u, Per(amount, rate), amount)
  BY AmountTypes DEF RedeemUnderlying, Redeem
<1>2. rate \in Nat /\ rate # 0
  BY <1>1, InvFacts, AccruedFacts, ExchangeRateType
<1>3. Per(amount, rate) \in Nat
  BY <1>1, <1>2, DecimalTypes
<1> QED
  BY <1>1, <1>3, RedeemKeeps

\* Loans and repayments store a market's debts and a borrower's snapshot.
LEMMA DebtStored ==
  ASSUME LendInv, NEW m \in Markets, NEW u \in Users, NEW borrows \in Nat,
         NEW owed \in Nat, Accrues(m), m \in entered[u] \/ owed <= Debt(m, u),
         market' = [market EXCEPT ![m] = [Accrued(m) EXCEPT !.borrows = borrows]],
         book' = [book EXCEPT ![m] = Resnapshot(m, u, owed)],
         cash' \in [Markets -> Nat], wallet' \in [Markets -> [Users -> Nat]],
         UNCHANGED <<block, config, paused, slToken, entered, ltv, price>>
  PROVE  LendInv'
<1> DEFINE r == [Accrued(m) EXCEPT !.borrows = borrows]
<1>1. Accrued(m) \in MarketRecord /\ Accrued(m).supply = market[m].supply
  BY InvFacts, AccruedFacts
<1>2. /\ r \in MarketRecord /\ r.supply = market[m].supply
      /\ r.index = Accrued(m).index /\ r.accrued = Accrued(m).accrued
  BY <1>1 DEF MarketRecord
<1>3. market' = [market EXCEPT ![m] = r]
  OBVIOUS
<1> HIDE DEF r
<1>4. /\ market' \in [Markets -> MarketRecord] /\ market'[m] = r
      /\ \A c \in Markets : c # m => market'[c] = market[c]
      /\ \A c \in Markets : /\ market'[c].index >= market[c].index
                            /\ market'[c].accrued <= block
  BY <1>2, <1>3, AccruedStored
<1>5. Resnapshot(m, u, owed) \in Book
  BY ResnapshotFacts
<1>6. book' \in [Markets -> Book]
  BY <1>5, InvFacts DEF LendTypeOK
<1>7. LendTypeOK'
  BY <1>4, <1>6, InvFacts DEF LendTypeOK
<1>8. SupplyIsSum'
  <2>1. \A c \in Markets : market'[c].supply = market[c].supply
    BY <1>2, <1>4
  <2> QED
    BY <1>7, <2>1, BalancesKept
<1>9. BorrowersIndexed' /\ DebtorsAreEntered'
  <2>1. market'[m].index = Accrued(m).index
    BY <1>2, <1>4
  <2> QED
    BY <1>4, <1>7, <2>1, DebtResaved
<1> QED
  BY <1>8, <1>9 DEF LendInv

LEMMA BorrowKeeps ==
  ASSUME LendInv, NEW m \in Markets, NEW u \in Users, NEW amount \in Amounts[m],
         Borrow(m, u, amount)
  PROVE  LendInv'
<1>1. Accrues(m) /\ amount \in Nat /\ m \in entered[u] /\ PayOut(m, u, amount)
  BY AmountTypes DEF Borrow, StaysCovered
<1>2. PICK owed \in Nat : owed = Debt(m, u) + amount
  <2>1. Debt(m, u) \in Nat
    BY <1>1, 0 \in Nat, ResnapshotFacts
  <2> QED
    BY <1>1, <2>1
<1>3. PICK borrows \in Nat : borrows = Accrued(m).borrows + amount
  <2>1. Accrued(m).borrows \in Nat
    BY <1>1, InvFacts, AccruedFacts, MarketFields
  <2> QED
    BY <1>1, <2>1
<1>4. /\ market' = [market EXCEPT ![m] = [Accrued(m) EXCEPT !.borrows = borrows]]
      /\ book' = [book EXCEPT ![m] = Resnapshot(m, u, owed)]
      /\ UNCHANGED <<block, config, paused, slToken, entered, ltv, price>>
  BY <1>2, <1>3 DEF Borrow, overseerVars
<1>5. cash' \in [Markets -> Nat] /\ wallet' \in [Markets -> [Users -> Nat]]
  BY <1>1, PaidOutTypes
<1> QED
  BY <1>1, <1>4, <1>5, DebtStored

LEMMA RepayKeeps ==
  ASSUME LendInv, NEW m \in Markets, NEW payer \in Users, NEW borrower \in Users,
         NEW amount \in Amounts[m], Repay(m, payer, borrower, amount)
  PROVE  LendInv'
<1> DEFINE repaid == LeastOf(amount, Debt(m, borrower))
<1>1. Accrues(m) /\ amount \in Nat /\ PayIn(m, payer, repaid)
      /\ repaid <= Accrued(m).borrows
  BY AmountTypes DEF Repay
<1>2. Debt(m, borrower) \in Nat
  BY <1>1, 0 \in Nat, ResnapshotFacts
<1>3. repaid \in Nat /\ repaid <= Debt(m, borrower)
  BY <1>1, <1>2 DEF LeastOf
<1>4. /\ market' = [market EXCEPT ![m] = [Accrued(m) EXCEPT !.borrows = @ - repaid]]
      /\ book' = [book EXCEPT ![m] = Resnapshot(m, borrower, Debt(m, borrower) - repaid)]
      /\ UNCHANGED <<block, config, paused, slToken, entered, ltv, price>>
  BY DEF Repay, overseerVars
<1> HIDE DEF repaid
<1>5. PICK owed \in Nat : owed = Debt(m, borrower) - repaid
  BY <1>2, <1>3
<1>6. owed <= Debt(m, borrower)
  BY <1>2, <1>3, <1>5
<1>7. PICK borrows \in Nat : borrows = Accrued(m).borrows - repaid
  <2>1. Accrued(m).borrows \in Nat
    BY <1>1, InvFacts, AccruedFacts, MarketFields
  <2> QED
    BY <1>1, <1>3, <2>1
<1>8. /\ market' = [market EXCEPT ![m] = [Accrued(m) EXCEPT !.borrows = borrows]]
      /\ book' = [book EXCEPT ![m] = Resnapshot(m, borrower, owed)]
  BY <1>4, <1>5, <1>7
<1>9. cash' \in [Markets -> Nat] /\ wallet' \in [Markets -> [Users -> Nat]]
  BY <1>1, <1>3, PaidInTypes
<1> QED
  BY <1>1, <1>4, <1>6, <1>8, <1>9, DebtStored

LEMMA TransferKeeps ==
  ASSUME LendInv, NEW m \in Markets, NEW u \in Users, NEW to \in Users,
         NEW amount \in Amounts[m], Transfer(m, u, to, amount)
  PROVE  LendInv'
<1> DEFINE f == slToken[m]
<1>1. /\ f \in [Users -> Nat] /\ f[u] \in Nat /\ amount \in Nat /\ amount <= f[u]
      /\ market[m].supply = SumOver(f, Users)
      /\ IsFiniteSet(Users)
  BY AmountTypes, InvFacts, AreFinite DEF Transfer
<1>2. PICK n \in Nat : n = f[u] - amount
  BY <1>1
<1> DEFINE g == [f EXCEPT ![u] = n]
<1>3. g \in [Users -> Nat] /\ g[to] \in Nat
  BY <1>1
<1>4. PICK k \in Nat : k = g[to] + amount
  BY <1>1, <1>3
<1> DEFINE h == [g EXCEPT ![to] = k]
<1>5. /\ slToken' = [slToken EXCEPT ![m] = h]
      /\ UNCHANGED <<block, market, config, paused, book, entered, ltv, price,
                     cash, wallet>>
  <2>1. slToken' = [slToken EXCEPT ![m] = Moved(f, u, to, amount)]
    BY DEF Transfer
  <2>2. Moved(f, u, to, amount) = h
    <3> HIDE DEF f
    <3>1. [f EXCEPT ![u] = @ - amount] = g
      BY <1>2
    <3> QED
      BY <1>4, <3>1 DEF Moved
  <2> QED
    BY <2>1, <2>2 DEF Transfer, overseerVars, moneyVars
<1> HIDE DEF f
<1>6. SumOver(f, Users) \in Nat /\ SumOver(g, Users) + f[u] = SumOver(f, Users) + n
  BY <1>1, n \in Int, OneEntryOfSum
<1> HIDE DEF g
<1>7. SumOver(g, Users) \in Nat /\ SumOver(h, Users) + g[to] = SumOver(g, Users) + k
  BY <1>1, <1>3, k \in Int, OneEntryOfSum
<1>8. h \in [Users -> Nat]
  BY <1>3
<1> HIDE DEF h
<1>9. SumOver(h, Users) \in Nat
  <2>1. \A x \in Users : h[x] \in Int /\ h[x] >= 0
    BY <1>8
  <2> QED
    BY <1>1, <2>1, SumType
<1>10. SumOver(h, Users) = market[m].supply
  <2>1. SumOver(h, Users) = SumOver(g, Users) + amount
    BY <1>1, <1>3, <1>4, <1>7, <1>9
  <2>2. SumOver(g, Users) + amount = SumOver(f, Users)
    BY <1>1, <1>2, <1>6, <1>7
  <2> QED
    BY <1>1, <2>1, <2>2
<1>11. slToken' \in [Markets -> [Users -> Nat]]
  BY <1>5, <1>8, InvFacts DEF LendTypeOK
<1>12. LendTypeOK'
  BY <1>5, <1>11, InvFacts DEF LendTypeOK
<1>13. SupplyIsSum'
  BY <1>5, <1>10, <1>12, BalancesChanged
<1>14. BorrowersIndexed' /\ DebtorsAreEntered'
  <2>1. block <= block'
        /\ \A c \in Markets : /\ market'[c].index >= market[c].index
                              /\ market'[c].accrued <= block'
    <3>1. \A c \in Markets : market[c].index \in Nat /\ market[c].accrued <= block
      BY InvFacts, MarketFields DEF IndicesReached
    <3> QED
      BY <1>5, <3>1, InvFacts
  <2> QED
    BY <1>5, <1>12, <2>1, BooksKept, DebtorsKept
<1> QED
  BY <1>13, <1>14 DEF LendInv

\* A step that brings a market up to date, its supply and its borrowers aside.
LEMMA TotalsStored ==
  ASSUME LendInv, NEW m \in Markets, Accrues(m), NEW reserves \in Nat,
         market' = [market EXCEPT ![m] = [Accrued(m) EXCEPT !.reserves = reserves]],
         config' \in [Markets -> [factor: ReserveFactors, cap: Caps \cup {NoCap}]],
         cash' \in [Markets -> Nat],
         UNCHANGED <<block, paused, slToken, book, entered, ltv, price, wallet>>
  PROVE  LendInv'
<1> DEFINE r == [Accrued(m) EXCEPT !.reserves = reserves]
<1>1. Accrued(m) \in MarketRecord /\ Accrued(m).supply = market[m].supply
  BY InvFacts, AccruedFacts
<1>2. /\ r \in MarketRecord /\ r.supply = market[m].supply
      /\ r.index = Accrued(m).index /\ r.accrued = Accrued(m).accrued
  BY <1>1 DEF MarketRecord
<1>3. market' = [market EXCEPT ![m] = r]
  OBVIOUS
<1> HIDE DEF r
<1>4. /\ market' \in [Markets -> MarketRecord] /\ market'[m] = r
      /\ \A c \in Markets : c # m => market'[c] = market[c]
      /\ \A c \in Markets : /\ market'[c].index >= market[c].index
                            /\ market'[c].accrued <= block
  BY <1>2, <1>3, AccruedStored
<1>5. LendTypeOK'
  BY <1>4, InvFacts DEF LendTypeOK
<1>6. SupplyIsSum'
  <2>1. \A c \in Markets : market'[c].supply = market[c].supply
    BY <1>2, <1>4
  <2> QED
    BY <1>5, <2>1, BalancesKept
<1>7. BorrowersIndexed' /\ DebtorsAreEntered'
  <2>1. block <= block'
    BY InvFacts
  <2> QED
    BY <1>4, <1>5, <2>1, BooksKept, DebtorsKept
<1> QED
  BY <1>6, <1>7 DEF LendInv

LEMMA AccrueInterestKeeps ==
  ASSUME LendInv, NEW m \in Markets, NEW u \in Users, AccrueInterest(m, u)
  PROVE  LendInv'
<1>1. Accrues(m)
  BY DEF AccrueInterest
<1>2. Accrued(m) \in MarketRecord
  BY <1>1, InvFacts, AccruedFacts
<1>3. PICK reserves \in Nat : reserves = Accrued(m).reserves
  BY <1>2, MarketFields
<1>4. market' = [market EXCEPT ![m] = [Accrued(m) EXCEPT !.reserves = reserves]]
  <2>1. [Accrued(m) EXCEPT !.reserves = reserves] = Accrued(m)
    BY <1>2, <1>3 DEF MarketRecord
  <2> QED
    BY <2>1 DEF AccrueInterest
<1>5. UNCHANGED <<block, config, paused, slToken, book, entered, ltv, price, cash, wallet>>
  BY DEF AccrueInterest, overseerVars, moneyVars
<1> QED
  BY <1>1, <1>4, <1>5, InvFacts, TotalsStored DEF LendTypeOK

LEMMA UpdateConfigKeeps ==
  ASSUME LendInv, NEW m \in Markets, NEW factor \in ReserveFactors,
         NEW cap \in Caps \cup {config[m].cap}, UpdateConfig(m, factor, cap)
  PROVE  LendInv'
<1>1. Accrues(m)
  BY DEF UpdateConfig
<1>2. Accrued(m) \in MarketRecord
  BY <1>1, InvFacts, AccruedFacts
<1>3. PICK reserves \in Nat : reserves = Accrued(m).reserves
  BY <1>2, MarketFields
<1>4. market' = [market EXCEPT ![m] = [Accrued(m) EXCEPT !.reserves = reserves]]
  <2>1. [Accrued(m) EXCEPT !.reserves = reserves] = Accrued(m)
    BY <1>2, <1>3 DEF MarketRecord
  <2> QED
    BY <2>1 DEF UpdateConfig
<1>5. UNCHANGED <<block, paused, slToken, book, entered, ltv, price, cash, wallet>>
  BY DEF UpdateConfig, overseerVars, moneyVars
<1>6. config' \in [Markets -> [factor: ReserveFactors, cap: Caps \cup {NoCap}]]
  <2>1. config \in [Markets -> [factor: ReserveFactors, cap: Caps \cup {NoCap}]]
    BY InvFacts DEF LendTypeOK
  <2>2. [factor |-> factor, cap |-> cap] \in [factor: ReserveFactors, cap: Caps \cup {NoCap}]
    BY <2>1
  <2> QED
    BY <2>1, <2>2 DEF UpdateConfig
<1> QED
  BY <1>1, <1>4, <1>5, <1>6, InvFacts, TotalsStored DEF LendTypeOK

LEMMA ReduceReservesKeeps ==
  ASSUME LendInv, NEW m \in Markets, NEW amount \in Amounts[m], ReduceReserves(m, amount)
  PROVE  LendInv'
<1>1. Accrues(m) /\ amount \in Nat /\ amount <= cash[m] /\ amount <= Accrued(m).reserves
  BY AmountTypes DEF ReduceReserves
<1>2. Accrued(m).reserves \in Nat /\ cash[m] \in Nat
  BY <1>1, InvFacts, AccruedFacts, MarketFields
<1>3. PICK reserves \in Nat : reserves = Accrued(m).reserves - amount
  BY <1>1, <1>2
<1>4. market' = [market EXCEPT ![m] = [Accrued(m) EXCEPT !.reserves = reserves]]
  BY <1>3 DEF ReduceReserves
<1>5. cash[m] - amount \in Nat
  BY <1>1, <1>2
<1>6. cash' \in [Markets -> Nat]
  BY <1>5, InvFacts DEF ReduceReserves, LendTypeOK
<1>7. UNCHANGED <<block, config, paused, slToken, book, entered, ltv, price, wallet>>
  BY DEF ReduceReserves, overseerVars
<1> QED
  BY <1>1, <1>4, <1>6, <1>7, InvFacts, TotalsStored DEF LendTypeOK

\* A step that leaves the markets, their balances and their borrowers alone.
LEMMA MarketsUntouched ==
  ASSUME LendInv, LendTypeOK', UNCHANGED <<market, slToken, book>>, block <= block',
         DebtorsAreEntered'
  PROVE  LendInv'
<1>1. \A m \in Markets : /\ market[m].index \in Nat /\ market[m].accrued \in Nat
                         /\ market[m].accrued <= block /\ block \in Nat /\ block' \in Nat
  BY InvFacts, MarketFields DEF IndicesReached, LendTypeOK
<1>2. \A m \in Markets : /\ market'[m].index >= market[m].index
                         /\ market'[m].accrued <= block'
  BY <1>1
<1> QED
  BY <1>2, BooksKept, BalancesKept DEF LendInv

LEMMA EnterKeeps ==
  ASSUME LendInv, NEW u \in Users, NEW asked \in SUBSET Markets, Enter(u, asked)
  PROVE  LendInv'
<1>1. entered \in [Users -> SUBSET Markets] /\ block \in Nat
  BY InvFacts DEF LendTypeOK
<1>2. /\ entered' = [entered EXCEPT ![u] = @ \cup asked]
      /\ UNCHANGED <<block, market, config, paused, slToken, book, ltv, price, cash, wallet>>
  BY DEF Enter, marketVars, moneyVars
<1>3. /\ entered' \in [Users -> SUBSET Markets]
      /\ \A v \in Users : entered[v] \subseteq entered'[v]
  BY <1>1, <1>2
<1>4. LendTypeOK'
  BY <1>2, <1>3, InvFacts DEF LendTypeOK
<1>5. DebtorsAreEntered' /\ block <= block'
  BY <1>1, <1>2, <1>3, DebtorsKept
<1> QED
  BY <1>2, <1>4, <1>5, MarketsUntouched

\* What is left behind is dust: exit asked for the debt.
LEMMA ExitKeeps ==
  ASSUME LendInv, NEW u \in Users, NEW m \in Markets, Exit(u, m)
  PROVE  LendInv'
<1>1. entered \in [Users -> SUBSET Markets] /\ block \in Nat
  BY InvFacts DEF LendTypeOK
<1>2. /\ entered' = [entered EXCEPT ![u] = @ \ {m}]
      /\ UNCHANGED <<block, market, config, paused, slToken, book, ltv, price, cash, wallet>>
  BY DEF Exit, marketVars, moneyVars
<1>3. /\ entered' \in [Users -> SUBSET Markets]
      /\ \A v \in Users, c \in Markets :
           c \in entered[v] => c \in entered'[v] \/ (v = u /\ c = m)
  BY <1>1, <1>2
<1>4. LendTypeOK'
  BY <1>2, <1>3, InvFacts DEF LendTypeOK
<1>5. IsDust(SnapshotOf(book[m], u))
  <2>1. Owed(SnapshotOf(book[m], u), market[m].index) = 0
    BY DEF Exit, OwesNothing
  <2>2. market[m].index \in Nat
    BY InvFacts, MarketFields
  <2>3. /\ SnapshotOf(book[m], u) \in Snapshot
        /\ SnapshotOf(book[m], u).principal = 0
             \/ SnapshotOf(book[m], u).index \in DecimalOne..market[m].index
    BY <2>2, InvFacts, DebtsReadable
  <2> QED
    BY <2>1, <2>2, <2>3, OwedFacts
<1>6. DebtorsAreEntered'
  <2> SUFFICES ASSUME NEW c \in Markets, NEW v \in Users, c \notin entered'[v]
               PROVE  IsDust(SnapshotOf(book[c], v))
    BY <1>2 DEF DebtorsAreEntered
  <2>1. c \in entered[v] => v = u /\ c = m
    BY <1>3
  <2>2. c \in entered[v] \/ IsDust(SnapshotOf(book[c], v))
    BY DEF LendInv, DebtorsAreEntered
  <2> QED
    BY <1>5, <2>1, <2>2
<1>7. block <= block'
  BY <1>1, <1>2
<1> QED
  BY <1>2, <1>4, <1>6, <1>7, MarketsUntouched

LEMMA OthersKeep ==
  ASSUME LendInv,
         \/ NextBlock
         \/ \E m \in Markets : \/ Pause(m)
                               \/ \E ratio \in LTVs[m] : ChangeMarket(m, ratio)
                               \/ \E rate \in Prices[m] : SetPrice(m, rate)
         \/ UNCHANGED lendVars
  PROVE  LendInv'
<1>1. UNCHANGED <<market, config, slToken, book, entered, cash, wallet>>
  BY DEF NextBlock, Pause, ChangeMarket, SetPrice, marketVars, overseerVars, moneyVars,
         lendVars
<1>2. block \in Nat /\ block' \in Nat /\ block <= block'
  <2>1. block \in Nat
    BY InvFacts
  <2>2. block' = block \/ block' = block + 1
    BY DEF NextBlock, Pause, ChangeMarket, SetPrice, lendVars
  <2> QED
    BY <2>1, <2>2
<1>3. paused' \subseteq Markets
  BY InvFacts DEF LendTypeOK, NextBlock, Pause, ChangeMarket, SetPrice, marketVars, lendVars
<1>4. ltv' \in [Markets -> 0..DecimalOne] /\ \A m \in Markets : ltv'[m] \in LTVs[m]
  <2>1. ltv \in [Markets -> 0..DecimalOne] /\ \A m \in Markets : ltv[m] \in LTVs[m]
    BY InvFacts DEF LendTypeOK
  <2>2. CASE ltv' = ltv
    BY <2>1, <2>2
  <2>3. ASSUME NEW m \in Markets, NEW ratio \in LTVs[m], ChangeMarket(m, ratio)
        PROVE  ltv' \in [Markets -> 0..DecimalOne] /\ \A c \in Markets : ltv'[c] \in LTVs[c]
    <3>1. ratio \in 0..DecimalOne
      BY LendAssumption
    <3> QED
      BY <2>1, <2>3, <3>1 DEF ChangeMarket
  <2> QED
    BY <2>2, <2>3 DEF NextBlock, Pause, SetPrice, overseerVars, lendVars
<1>5. price' \in [Markets -> Nat] /\ \A m \in Markets : price'[m] \in Prices[m]
  <2>1. price \in [Markets -> Nat] /\ \A m \in Markets : price[m] \in Prices[m]
    BY InvFacts DEF LendTypeOK
  <2>2. CASE price' = price
    BY <2>1, <2>2
  <2>3. ASSUME NEW m \in Markets, NEW rate \in Prices[m], SetPrice(m, rate)
        PROVE  price' \in [Markets -> Nat] /\ \A c \in Markets : price'[c] \in Prices[c]
    <3>1. rate \in Nat
      BY LendAssumption
    <3> QED
      BY <2>1, <2>3, <3>1 DEF SetPrice
  <2> QED
    BY <2>2, <2>3 DEF NextBlock, Pause, ChangeMarket, lendVars
<1>6. LendTypeOK'
  BY <1>1, <1>2, <1>3, <1>4, <1>5, InvFacts DEF LendTypeOK
<1>7. DebtorsAreEntered'
  BY <1>1, DebtorsKept
<1> QED
  BY <1>1, <1>2, <1>6, <1>7, MarketsUntouched

-----------------------------------------------------------------------------
(* Liquidations.                                                           *)

LEMMA SeizeAmountType ==
  ASSUME LendInv, NEW m \in Markets, NEW c \in Markets, NEW amount \in Nat,
         NEW rate \in Nat, Product(price[c], rate) > 0
  PROVE  SeizeAmount(m, c, amount, rate) \in Nat
<1>1. price[m] \in Nat /\ price[c] \in Nat /\ Premium \in Nat
  BY InvFacts, LendAssumption DEF LendTypeOK
<1>2. Product(Premium, price[m]) \in Nat
  BY <1>1, DecimalTypes
<1>3. Product(price[c], rate) \in Nat /\ Product(price[c], rate) # 0
  <2>1. Product(price[c], rate) \in Nat
    BY <1>1, DecimalTypes
  <2> QED
    BY <2>1
<1>4. Quotient(Product(Premium, price[m]), Product(price[c], rate)) \in Nat
  BY <1>2, <1>3, DecimalTypes
<1> QED
  BY <1>4, DecimalTypes DEF SeizeAmount

\* The market whose tokens are seized: the tokens burnt become reserves.
LEMMA SeizedFacts ==
  ASSUME NEW s \in MarketRecord, NEW amount \in Nat, NEW rate \in Nat, NEW burnt \in Nat,
         burnt = Times(amount, SeizeFactor), burnt <= s.supply
  PROVE  /\ Seized(s, amount, rate) \in MarketRecord
         /\ Seized(s, amount, rate).supply + burnt = s.supply
         /\ Seized(s, amount, rate).reserves = s.reserves + Times(burnt, rate)
         /\ Seized(s, amount, rate).borrows = s.borrows
         /\ Seized(s, amount, rate).index = s.index
         /\ Seized(s, amount, rate).accrued = s.accrued
<1>1. s.supply \in Nat /\ s.reserves \in Nat /\ Times(burnt, rate) \in Nat
  BY MarketFields, DecimalTypes
<1>2. PICK supply \in Nat, reserves \in Nat :
        supply = s.supply - burnt /\ reserves = s.reserves + Times(burnt, rate)
  BY <1>1
<1>3. Seized(s, amount, rate) = [s EXCEPT !.reserves = reserves, !.supply = supply]
  BY <1>2 DEF Seized
<1>4. supply + burnt = s.supply
  BY <1>1, <1>2
<1> QED
  BY <1>2, <1>3, <1>4 DEF MarketRecord

\* What the borrower loses the payer gets, the share burnt aside.
LEMMA SeizureMoves ==
  ASSUME LendInv, NEW c \in Markets, NEW payer \in Users, NEW u \in Users, payer # u,
         NEW amount \in Nat, amount <= slToken[c][u], MoveSeized(c, payer, u, amount)
  PROVE  /\ Times(amount, SeizeFactor) \in Nat
         /\ Times(amount, SeizeFactor) <= market[c].supply
         /\ \E balances \in [Users -> Nat] :
              /\ slToken' = [slToken EXCEPT ![c] = balances]
              /\ SumOver(balances, Users) \in Nat
              /\ SumOver(balances, Users) + Times(amount, SeizeFactor)
                   = market[c].supply
              /\ \A v \in Users : v # u => balances[v] >= slToken[c][v]
<1> DEFINE f == slToken[c]
           burnt == Times(amount, SeizeFactor)
<1>1. /\ f \in [Users -> Nat] /\ f[u] \in Nat /\ f[payer] \in Nat
      /\ market[c].supply = SumOver(f, Users) /\ market[c].supply \in Nat
      /\ IsFiniteSet(Users)
  BY InvFacts, MarketFields, AreFinite
<1>2. burnt \in 0..amount
  BY LendAssumption, ShareBounds
<1>3. PICK n \in Nat, kept \in Nat : n = f[u] - amount /\ kept = amount - burnt
  BY <1>1, <1>2
<1> DEFINE g == [f EXCEPT ![u] = n]
<1>4. g \in [Users -> Nat] /\ g[payer] = f[payer]
  BY <1>1
<1>5. PICK k \in Nat : k = f[payer] + kept
  BY <1>1
<1> DEFINE h == [g EXCEPT ![payer] = k]
<1>6. slToken' = [slToken EXCEPT ![c] = h]
  <2>1. slToken' = [slToken EXCEPT ![c][u] = f[u] - amount, ![c][payer] = f[payer] + kept]
    BY <1>3, InvFacts DEF MoveSeized, LendTypeOK
  <2> QED
    BY <1>1, <1>3, <1>5, <2>1, InvFacts DEF LendTypeOK
<1>7. \A v \in Users : v # u => h[v] >= f[v]
  BY <1>1, <1>5
<1> HIDE DEF f, burnt
<1>8. SumOver(f, Users) \in Nat /\ f[u] <= SumOver(f, Users)
      /\ SumOver(g, Users) + f[u] = SumOver(f, Users) + n
  BY <1>1, n \in Int, OneEntryOfSum
<1> HIDE DEF g
<1>9. SumOver(g, Users) \in Nat /\ SumOver(h, Users) + g[payer] = SumOver(g, Users) + k
  BY <1>1, <1>4, k \in Int, OneEntryOfSum
<1>10. h \in [Users -> Nat]
  BY <1>4
<1> HIDE DEF h
<1>11. SumOver(h, Users) \in Nat
  <2>1. \A x \in Users : h[x] \in Int /\ h[x] >= 0
    BY <1>10
  <2> QED
    BY <1>1, <2>1, SumType
<1>12. SumOver(h, Users) + burnt = market[c].supply
  <2>1. SumOver(h, Users) = SumOver(g, Users) + kept
    BY <1>1, <1>4, <1>5, <1>9, <1>11
  <2>2. SumOver(g, Users) + amount = SumOver(f, Users)
    BY <1>1, <1>3, <1>8, <1>9
  <2> QED
    BY <1>1, <1>2, <1>3, <1>8, <1>9, <1>11, <2>1, <2>2
<1>13. burnt \in Nat /\ burnt <= market[c].supply
  BY <1>1, <1>2, <1>8 DEF f
<1> QED
  BY <1>6, <1>7, <1>10, <1>11, <1>12, <1>13 DEF f, burnt

\* The markets after a liquidation: the debt's is brought up to date, and so is
\* the collateral's, which alone has fewer sl-tokens.
LEMMA LiquidationStored ==
  ASSUME LendInv, NEW m \in Markets, NEW u \in Users, NEW owed \in Nat, Accrues(m),
         owed <= Debt(m, u), book' = [book EXCEPT ![m] = Resnapshot(m, u, owed)],
         market' \in [Markets -> MarketRecord], market'[m].index = Accrued(m).index,
         \A k \in Markets : /\ market'[k].index >= market[k].index
                            /\ market'[k].accrued <= block,
         NEW c \in Markets, NEW balances \in [Users -> Nat],
         slToken' = [slToken EXCEPT ![c] = balances],
         market'[c].supply = SumOver(balances, Users),
         \A k \in Markets : k # c => market'[k].supply = market[k].supply,
         cash' \in [Markets -> Nat], wallet' \in [Markets -> [Users -> Nat]],
         UNCHANGED <<block, config, paused, entered, ltv, price>>
  PROVE  LendInv'
<1>1. Resnapshot(m, u, owed) \in Book
  BY ResnapshotFacts
<1>2. book' \in [Markets -> Book]
  BY <1>1, InvFacts DEF LendTypeOK
<1>3. slToken' \in [Markets -> [Users -> Nat]]
  BY InvFacts DEF LendTypeOK
<1>4. LendTypeOK'
  BY <1>2, <1>3, InvFacts DEF LendTypeOK
<1>5. SupplyIsSum'
  BY <1>4, BalancesChanged
<1>6. BorrowersIndexed' /\ DebtorsAreEntered'
  BY <1>4, DebtResaved
<1> QED
  BY <1>5, <1>6 DEF LendInv

\* A liquidation takes the payment off the debt's market m and the tokens burnt off
\* the collateral's market c, whose reserves get what they are worth.
MarketsLiquidated(m, c, amount, burnt, rate) ==
  /\ market' \in [Markets -> MarketRecord]
  /\ \A k \in Markets \ {m, c} : market'[k] = market[k]
  /\ \A k \in {m, c} :
       /\ market'[k].index = Accrued(k).index
       /\ market'[k].accrued = Accrued(k).accrued
       /\ market'[k].borrows + (IF k = m THEN amount ELSE 0) = Accrued(k).borrows
       /\ market'[k].reserves
            = Accrued(k).reserves + (IF k = c THEN Times(burnt, rate) ELSE 0)
       /\ market'[k].supply + (IF k = c THEN burnt ELSE 0) = market[k].supply

\* The rate the tokens burnt are taken at: the market's own once it is up to date,
\* or that of a market which was lent less.
RateSeized(c, rate) ==
  \E s \in MarketRecord : /\ rate = ExchangeRate(cash[c], s)
                          /\ s.supply = Accrued(c).supply
                          /\ s.reserves = Accrued(c).reserves
                          /\ s.borrows <= Accrued(c).borrows

LEMMA LiquidationFacts ==
  ASSUME LendInv, NEW m \in Markets, NEW payer \in Users, NEW u \in Users,
         NEW c \in Markets, NEW amount \in Amounts[m], Liquidate(m, payer, u, c, amount)
  PROVE  /\ Accrues(m) /\ Accrues(c) /\ amount \in Nat /\ payer # u
         /\ \E seize \in Nat, burnt \in Nat, rate \in Nat :
              /\ burnt = Times(seize, SeizeFactor) /\ burnt <= market[c].supply
              /\ seize <= slToken[c][u] /\ MoveSeized(c, payer, u, seize)
              /\ MarketsLiquidated(m, c, amount, burnt, rate)
              /\ RateSeized(c, rate)
<1> DEFINE r == [Accrued(m) EXCEPT !.borrows = @ - amount]
<1>1. /\ Accrues(m) /\ amount \in Nat /\ payer # u /\ amount <= Accrued(m).borrows
  BY AmountTypes DEF Liquidate
<1>2. /\ Accrued(m) \in MarketRecord /\ Accrued(m).supply = market[m].supply
      /\ Accrued(m).borrows \in Nat
  BY <1>1, InvFacts, AccruedFacts, MarketFields
<1>3. PICK borrows \in Nat : borrows = Accrued(m).borrows - amount
  BY <1>1, <1>2
<1>4. /\ r \in MarketRecord /\ r.borrows + amount = Accrued(m).borrows
      /\ r.borrows <= Accrued(m).borrows
      /\ r.reserves = Accrued(m).reserves /\ r.supply = market[m].supply
      /\ r.index = Accrued(m).index /\ r.accrued = Accrued(m).accrued
  <2>1. r = [Accrued(m) EXCEPT !.borrows = borrows]
    BY <1>3
  <2>2. borrows + amount = Accrued(m).borrows /\ borrows <= Accrued(m).borrows
    BY <1>1, <1>2, <1>3
  <2> HIDE DEF r
  <2> QED
    BY <1>2, <2>1, <2>2 DEF MarketRecord
<1>5. market \in [Markets -> MarketRecord] /\ cash \in [Markets -> Nat]
  BY InvFacts DEF LendTypeOK
<1>6. CASE LiquidateFrom(c, m, payer, u, amount)
  <2> DEFINE asked == ExchangeRate(cash[c], market[c])
             seize == SeizeAmount(m, c, amount, asked)
             rate == ExchangeRate(cash[c], Accrued(c))
             t == Seized(Accrued(c), seize, rate)
             burnt == Times(seize, SeizeFactor)
  <2>1. /\ c # m /\ Accrues(c) /\ HasRate(cash[c], market[c])
        /\ Product(price[c], asked) > 0 /\ HasRate(cash[c], Accrued(c))
        /\ seize <= slToken[c][u] /\ MoveSeized(c, payer, u, seize)
        /\ market' = [market EXCEPT ![m] = r, ![c] = t]
    BY <1>6 DEF LiquidateFrom
  <2>2. Accrued(c) \in MarketRecord /\ Accrued(c).supply = market[c].supply
    BY <2>1, InvFacts, AccruedFacts
  <2>3. asked \in Nat /\ rate \in Nat
    BY <2>1, <2>2, InvFacts, ExchangeRateType
  <2> HIDE DEF asked, rate
  <2>4. seize \in Nat
    BY <1>1, <2>1, <2>3, SeizeAmountType
  <2> HIDE DEF seize
  <2>5. burnt \in Nat /\ burnt <= market[c].supply
    BY <1>1, <2>1, <2>4, SeizureMoves
  <2>6. /\ t \in MarketRecord /\ t.supply + burnt = market[c].supply
        /\ t.reserves = Accrued(c).reserves + Times(burnt, rate)
        /\ t.borrows = Accrued(c).borrows
        /\ t.index = Accrued(c).index /\ t.accrued = Accrued(c).accrued
    BY <2>2, <2>3, <2>4, <2>5, SeizedFacts
  <2> HIDE DEF r, t
  <2>7. /\ market' \in [Markets -> MarketRecord]
        /\ market'[m] = r /\ market'[c] = t
        /\ \A k \in Markets \ {m, c} : market'[k] = market[k]
    BY <1>4, <1>5, <2>1, <2>6
  <2> HIDE DEF burnt
  <2>8. \A k \in {m, c} :
          /\ market'[k].index = Accrued(k).index
          /\ market'[k].accrued = Accrued(k).accrued
          /\ market'[k].borrows + (IF k = m THEN amount ELSE 0) = Accrued(k).borrows
          /\ market'[k].reserves
               = Accrued(k).reserves + (IF k = c THEN Times(burnt, rate) ELSE 0)
          /\ market'[k].supply + (IF k = c THEN burnt ELSE 0) = market[k].supply
    <3>1. /\ t.borrows \in Nat /\ r.reserves \in Nat /\ r.supply \in Nat
          /\ t.borrows + 0 = t.borrows /\ r.reserves + 0 = r.reserves
          /\ r.supply + 0 = r.supply
      BY <1>4, <2>6, MarketFields
    <3> QED
      BY <1>4, <2>1, <2>6, <2>7, <3>1
  <2>9. MarketsLiquidated(m, c, amount, burnt, rate)
    BY <2>7, <2>8 DEF MarketsLiquidated
  <2>10. RateSeized(c, rate)
    <3>1. Accrued(c).borrows <= Accrued(c).borrows
      BY <2>2, MarketFields
    <3> QED
      BY <2>2, <3>1 DEF RateSeized, rate
  <2>11. burnt = Times(seize, SeizeFactor)
    BY DEF burnt
  <2> QED
    BY <1>1, <2>1, <2>3, <2>4, <2>5, <2>9, <2>10, <2>11
<1>7. CASE c = m /\ LiquidateSame(m, payer, u, amount)
  <2> DEFINE asked == ExchangeRate(cash[m] + amount, r)
             seize == SeizeAmount(m, m, amount, asked)
             read == IF market[m].accrued = block THEN r ELSE Accrued(m)
             rate == ExchangeRate(cash[m], read)
             t == Seized(r, seize, rate)
             burnt == Times(seize, SeizeFactor)
  <2>1. /\ HasRate(cash[m] + amount, r) /\ HasRate(cash[m], read)
        /\ Product(price[m], asked) > 0
        /\ seize <= slToken[m][u] /\ MoveSeized(m, payer, u, seize)
        /\ market' = [market EXCEPT ![m] = t]
    BY <1>7 DEF LiquidateSame
  <2>2. read \in MarketRecord /\ cash[m] + amount \in Nat /\ cash[m] \in Nat
    BY <1>1, <1>2, <1>4, <1>5
  <2>3. /\ read.supply = Accrued(m).supply /\ read.reserves = Accrued(m).reserves
        /\ read.borrows <= Accrued(m).borrows
    BY <1>2, <1>4
  <2>4. asked \in Nat /\ rate \in Nat
    BY <1>4, <2>1, <2>2, ExchangeRateType
  <2> HIDE DEF asked
  <2>5. seize \in Nat
    BY <1>1, <2>1, <2>4, SeizeAmountType
  <2> HIDE DEF seize
  <2>6. burnt \in Nat /\ burnt <= market[m].supply
    BY <1>1, <2>1, <2>5, SeizureMoves
  <2>7. rate = ExchangeRate(cash[m], read)
    OBVIOUS
  <2> HIDE DEF rate, r, read
  <2>8. /\ t \in MarketRecord /\ t.supply + burnt = market[m].supply
        /\ t.reserves = Accrued(m).reserves + Times(burnt, rate)
        /\ t.borrows = r.borrows
        /\ t.index = Accrued(m).index /\ t.accrued = Accrued(m).accrued
    BY <1>4, <2>4, <2>5, <2>6, SeizedFacts
  <2> HIDE DEF t
  <2>9. /\ market' \in [Markets -> MarketRecord] /\ market'[m] = t
        /\ \A k \in Markets \ {m, c} : market'[k] = market[k]
    BY <1>5, <1>7, <2>1, <2>8
  <2>10. burnt = Times(seize, SeizeFactor)
    OBVIOUS
  <2> HIDE DEF burnt
  <2>11. \A k \in {m, c} :
           /\ market'[k].index = Accrued(k).index
           /\ market'[k].accrued = Accrued(k).accrued
           /\ market'[k].borrows + (IF k = m THEN amount ELSE 0) = Accrued(k).borrows
           /\ market'[k].reserves
                = Accrued(k).reserves + (IF k = c THEN Times(burnt, rate) ELSE 0)
           /\ market'[k].supply + (IF k = c THEN burnt ELSE 0) = market[k].supply
    BY <1>4, <1>7, <2>8, <2>9
  <2>12. RateSeized(c, rate)
    BY <1>7, <2>2, <2>3, <2>7 DEF RateSeized
  <2>13. MarketsLiquidated(m, c, amount, burnt, rate)
    BY <2>9, <2>11 DEF MarketsLiquidated
  <2> QED
    BY <1>1, <1>7, <2>1, <2>4, <2>5, <2>6, <2>10, <2>12, <2>13
<1> QED
  BY <1>6, <1>7 DEF Liquidate

\* A liquidation repays no more than is owed.
LEMMA PartIsRepaid ==
  ASSUME LendInv, NEW m \in Markets, NEW payer \in Users, NEW u \in Users,
         NEW c \in Markets, NEW amount \in Amounts[m], Liquidate(m, payer, u, c, amount)
  PROVE  amount \in Nat /\ Debt(m, u) \in Nat /\ amount <= Debt(m, u)
<1>1. Accrues(m) /\ amount \in Nat
  BY LiquidationFacts
<1>2. Debt(m, u) \in Nat
  BY <1>1, 0 \in Nat, ResnapshotFacts
<1>3. amount <= Times(Debt(m, u), CloseFactor)
  BY DEF Liquidate, LiquidateAllowed
<1>4. Times(Debt(m, u), CloseFactor) \in 0..Debt(m, u)
  BY <1>2, LendAssumption, ShareBounds
<1> QED
  BY <1>1, <1>2, <1>3, <1>4

LEMMA LiquidateKeeps ==
  ASSUME LendInv, NEW m \in Markets, NEW payer \in Users, NEW u \in Users,
         NEW c \in Markets, NEW amount \in Amounts[m], Liquidate(m, payer, u, c, amount)
  PROVE  LendInv'
<1>1. Accrues(m) /\ Accrues(c) /\ amount \in Nat /\ payer # u
  BY LiquidationFacts
<1>2. PICK seize \in Nat, burnt \in Nat, rate \in Nat :
        /\ burnt = Times(seize, SeizeFactor)
        /\ seize <= slToken[c][u] /\ MoveSeized(c, payer, u, seize)
        /\ MarketsLiquidated(m, c, amount, burnt, rate)
  BY LiquidationFacts
<1>3. PICK balances \in [Users -> Nat] :
        /\ slToken' = [slToken EXCEPT ![c] = balances]
        /\ SumOver(balances, Users) \in Nat
        /\ SumOver(balances, Users) + burnt = market[c].supply
  BY <1>1, <1>2, SeizureMoves
<1>4. /\ market' \in [Markets -> MarketRecord]
      /\ \A k \in Markets : market'[k].supply \in Nat /\ market[k].supply \in Nat
  BY <1>2, InvFacts, MarketFields DEF MarketsLiquidated
<1>5. market'[c].supply = SumOver(balances, Users)
  BY <1>2, <1>3, <1>4 DEF MarketsLiquidated
<1>6. \A k \in Markets : k # c => market'[k].supply = market[k].supply
  BY <1>2, <1>4 DEF MarketsLiquidated
<1>7. \A k \in Markets : /\ market'[k].index >= market[k].index
                         /\ market'[k].accrued <= block
  <2>1. /\ Accrued(m).index >= market[m].index /\ Accrued(m).accrued = block
        /\ Accrued(c).index >= market[c].index /\ Accrued(c).accrued = block
        /\ block \in Nat
    BY <1>1, InvFacts, AccruedFacts
  <2>2. \A k \in Markets : market[k].index \in Nat /\ market[k].accrued <= block
    BY InvFacts, MarketFields DEF IndicesReached
  <2> QED
    BY <1>2, <2>1, <2>2 DEF MarketsLiquidated
<1>8. amount <= Debt(m, u) /\ Debt(m, u) \in Nat
  BY PartIsRepaid
<1>9. PICK owed \in Nat : owed = Debt(m, u) - amount
  BY <1>1, <1>8
<1>10. /\ owed <= Debt(m, u) /\ book' = [book EXCEPT ![m] = Resnapshot(m, u, owed)]
       /\ PayIn(m, payer, amount)
       /\ UNCHANGED <<block, config, paused, entered, ltv, price>>
  BY <1>1, <1>8, <1>9 DEF Liquidate, overseerVars
<1>11. cash' \in [Markets -> Nat] /\ wallet' \in [Markets -> [Users -> Nat]]
  BY <1>1, <1>10, PaidInTypes
<1>12. market'[m].index = Accrued(m).index
  BY <1>2 DEF MarketsLiquidated
<1> QED
  BY <1>1, <1>2, <1>3, <1>4, <1>5, <1>6, <1>7, <1>10, <1>11, <1>12, LiquidationStored

-----------------------------------------------------------------------------
(* The invariants of the markets.                                          *)

LEMMA InitLendInv == LendInit => LendInv
<1> SUFFICES ASSUME LendInit PROVE LendInv
  OBVIOUS
<1>1. /\ DecimalOne \in Nat /\ EmptyBook(Users) \in Book
      /\ WellIndexed(EmptyBook(Users), Users)
      /\ Len(EmptyBook(Users).list) = 0
  BY DecimalAssumption DEF EmptyBook, Book, WellIndexed
<1>2. LendTypeOK
  <2>1. config \in [Markets -> [factor: ReserveFactors, cap: Caps \cup {NoCap}]]
    BY DEF LendInit
  <2>2. price \in [Markets -> Nat] /\ \A m \in Markets : price[m] \in Prices[m]
    BY LendAssumption DEF LendInit
  <2>3. wallet \in [Markets -> [Users -> Nat]]
    BY LendAssumption DEF LendInit, Users
  <2> QED
    BY <1>1, <2>1, <2>2, <2>3 DEF LendInit, LendTypeOK, MarketRecord
<1>3. SupplyIsSum
  <2> SUFFICES ASSUME NEW m \in Markets
               PROVE  market[m].supply = SumOver(slToken[m], Users)
    BY <1>2 DEF SupplyIsSum
  <2>1. market[m].supply = 0 /\ \A u \in Users : slToken[m][u] = 0
    BY DEF LendInit
  <2> QED
    BY <2>1, SumOfZeros, AreFinite
<1>4. BorrowersIndexed
  BY <1>1 DEF LendInit, BorrowersIndexed, IndicesReached
<1>5. DebtorsAreEntered
  <2> SUFFICES ASSUME NEW m \in Markets, NEW u \in Users
               PROVE  IsDust(SnapshotOf(book[m], u))
    BY DEF DebtorsAreEntered
  <2>1. SnapshotOf(book[m], u) = [who |-> u, principal |-> 0, index |-> 0]
    BY DEF LendInit, EmptyBook, SnapshotOf
  <2>2. 0 * DecimalOne = 0
    BY <1>1, SMT
  <2> QED
    BY <2>1, <2>2 DEF IsDust
<1> QED
  BY <1>3, <1>4, <1>5 DEF LendInv

LEMMA StepLendInv == LendInv /\ [LendNext]_lendVars => LendInv'
<1> SUFFICES ASSUME LendInv, LendNext PROVE LendInv'
  BY OthersKeep
<1>1. ASSUME NEW u \in Users, NEW m \in Markets, NEW amount \in Amounts[m],
             \/ Deposit(m, u, amount) \/ RedeemToken(m, u, amount)
             \/ RedeemUnderlying(m, u, amount) \/ Borrow(m, u, amount)
      PROVE  LendInv'
  BY <1>1, DepositKeeps, RedeemTokenKeeps, RedeemUnderlyingKeeps, BorrowKeeps
<1>2. ASSUME NEW u \in Users, NEW m \in Markets, NEW amount \in Amounts[m],
             NEW other \in Users,
             Repay(m, u, other, amount) \/ Transfer(m, u, other, amount)
      PROVE  LendInv'
  BY <1>2, RepayKeeps, TransferKeeps
<1>3. ASSUME NEW u \in Users, NEW m \in Markets, NEW amount \in Amounts[m],
             NEW other \in Users, NEW c \in Markets, Liquidate(m, u, other, c, amount)
      PROVE  LendInv'
  BY <1>3, LiquidateKeeps
<1>4. ASSUME NEW u \in Users,
             \/ \E asked \in SUBSET Markets \ {{}} : Enter(u, asked)
             \/ \E m \in Markets : Exit(u, m) \/ AccrueInterest(m, u)
      PROVE  LendInv'
  BY <1>4, EnterKeeps, ExitKeeps, AccrueInterestKeeps
<1>5. ASSUME NEW m \in Markets,
             \/ \E factor \in ReserveFactors, cap \in Caps \cup {config[m].cap} :
                  UpdateConfig(m, factor, cap)
             \/ \E amount \in Amounts[m] : ReduceReserves(m, amount)
      PROVE  LendInv'
  BY <1>5, UpdateConfigKeeps, ReduceReservesKeeps
<1>6. CASE \/ NextBlock
           \/ \E m \in Markets : \/ Pause(m)
                                 \/ \E ratio \in LTVs[m] : ChangeMarket(m, ratio)
                                 \/ \E rate \in Prices[m] : SetPrice(m, rate)
  BY <1>6, OthersKeep
<1> QED
  BY <1>1, <1>2, <1>3, <1>4, <1>5, <1>6 DEF LendNext

LEMMA LendInvHolds == LendSpec => []LendInv
<1>1. LendInit => LendInv
  BY InitLendInv
<1>2. LendInv /\ [LendNext]_lendVars => LendInv'
  BY StepLendInv
<1> QED
  BY <1>1, <1>2, PTL DEF LendSpec

\* Deposits, redemptions, transfers to others or to oneself and liquidations keep
\* the total_supply of every market the sum of its sl-token balances.
THEOREM SupplyIsSumHolds == LendSpec => []SupplyIsSum
<1>1. LendInv => SupplyIsSum
  BY DEF LendInv
<1> QED
  BY <1>1, LendInvHolds, PTL

\* save_borrow_snapshot keeps the list of borrowers without holes, duplicates or
\* settled debts, with every index between the opening one and the market's own.
THEOREM BorrowersIndexedHolds == LendSpec => []BorrowersIndexed
<1>1. LendInv => BorrowersIndexed
  BY DEF LendInv
<1> QED
  BY <1>1, LendInvHolds, PTL

\* Whoever owes more than dust has entered the market of the debt, so that the
\* overseer sees the debt: exit asks for it, and only entered markets lend.
THEOREM DebtorsAreEnteredHolds == LendSpec => []DebtorsAreEntered
<1>1. LendInv => DebtorsAreEntered
  BY DEF LendInv
<1> QED
  BY <1>1, LendInvHolds, PTL

-----------------------------------------------------------------------------
(* What sl-tokens are worth.                                               *)

\* What the sl-tokens of a record would be worth in all.
Worth(balance, s) == balance + s.borrows - s.reserves

\* The exchange rate is rounded down: the tokens together are worth as much.
LEMMA RateFacts ==
  ASSUME NEW balance \in Nat, NEW s \in MarketRecord, s.supply > 0, HasRate(balance, s)
  PROVE  /\ ExchangeRate(balance, s) \in Nat /\ Worth(balance, s) \in Nat
         /\ Worth(balance, s) * DecimalOne \in Nat
         /\ ExchangeRate(balance, s) * s.supply <= Worth(balance, s) * DecimalOne
<1>1. s.borrows \in Nat /\ s.reserves \in Nat /\ s.supply \in Nat \ {0}
      /\ DecimalOne \in Nat
  BY MarketFields, DecimalAssumption
<1>2. Worth(balance, s) \in Nat
  BY <1>1 DEF HasRate, Worth
<1>3. ExchangeRate(balance, s) = (Worth(balance, s) * DecimalOne) \div s.supply
  BY <1>1 DEF ExchangeRate, Ratio, Worth
<1>4. Worth(balance, s) * DecimalOne \in Nat
  BY <1>1, <1>2, DecimalTypes
<1>5. ExchangeRate(balance, s) \in Nat
  BY ExchangeRateType
<1> DEFINE total == Worth(balance, s) * DecimalOne
<1>6. total \in Int /\ s.supply \in Nat \ {0}
  BY <1>1, <1>4
<1> HIDE DEF total
<1>7. (total \div s.supply) * s.supply <= total
  BY <1>6, QuotientBounds
<1> QED
  BY <1>2, <1>3, <1>4, <1>5, <1>7 DEF total

\* Of two records with as many tokens the one worth more has the higher rate.
LEMMA RateGrows ==
  ASSUME NEW balance \in Nat, NEW s \in MarketRecord, NEW t \in MarketRecord,
         s.supply > 0, t.supply = s.supply, Worth(balance, s) <= Worth(balance, t)
  PROVE  ExchangeRate(balance, s) <= ExchangeRate(balance, t)
<1>1. /\ s.borrows \in Nat /\ s.reserves \in Nat /\ s.supply \in Nat \ {0}
      /\ t.borrows \in Nat /\ t.reserves \in Nat /\ DecimalOne \in Nat
  BY MarketFields, DecimalAssumption
<1>2. Worth(balance, s) \in Int /\ Worth(balance, t) \in Int
  BY <1>1 DEF Worth
<1>3. /\ ExchangeRate(balance, s) = (Worth(balance, s) * DecimalOne) \div s.supply
      /\ ExchangeRate(balance, t) = (Worth(balance, t) * DecimalOne) \div s.supply
  BY <1>1 DEF ExchangeRate, Ratio, Worth
<1>4. Worth(balance, s) * DecimalOne <= Worth(balance, t) * DecimalOne
  BY <1>1, <1>2, ProductGrows
<1>5. Worth(balance, s) * DecimalOne \in Int /\ Worth(balance, t) * DecimalOne \in Int
  BY <1>1, <1>2, SMT
<1> QED
  BY <1>1, <1>3, <1>4, <1>5, QuotientGrows

\* Interest raises what the tokens are worth, and the rate.
LEMMA AccrualKeepsWorth ==
  ASSUME LendInv, NEW m \in Markets, Accrues(m),
         market[m].supply > 0, HasRate(cash[m], market[m])
  PROVE  /\ HasRate(cash[m], Accrued(m))
         /\ ExchangeRate(cash[m], market[m]) <= ExchangeRate(cash[m], Accrued(m))
<1>1. /\ Accrued(m) \in MarketRecord /\ Accrued(m).supply = market[m].supply
      /\ market[m] \in MarketRecord /\ cash[m] \in Nat
      /\ Accrued(m).borrows - Accrued(m).reserves >= market[m].borrows - market[m].reserves
  BY InvFacts, AccruedFacts
<1>2. /\ market[m].borrows \in Nat /\ market[m].reserves \in Nat
      /\ Accrued(m).borrows \in Nat /\ Accrued(m).reserves \in Nat
      /\ market[m].supply \in Nat
  BY <1>1, MarketFields
<1>3. Worth(cash[m], market[m]) <= Worth(cash[m], Accrued(m))
  BY <1>1, <1>2 DEF Worth
<1>4. HasRate(cash[m], Accrued(m))
  <2>1. market[m].supply # 0
    BY <1>2
  <2> QED
    BY <1>1, <1>2, <2>1 DEF HasRate
<1> QED
  BY <1>1, <1>3, <1>4, RateGrows

\* The arithmetic of a step: tokens worth at least `rate` each, of which `issued`
\* more are out (fewer if it is negative), and `paid` more (or less) has come in,
\* where what was issued is paid for but for one token's rounding.
LEMMA ValuePaidFor ==
  ASSUME NEW worth \in Nat, NEW rate \in Nat, NEW supply \in Nat, NEW d \in Nat,
         rate * supply <= worth * d,
         NEW paid \in Int, NEW issued \in Int, issued * rate <= paid * d + rate
  PROVE  rate * (supply + issued - 1) <= (worth + paid) * d
<1>1. /\ rate * supply \in Int /\ worth * d \in Int /\ issued * rate \in Int
      /\ paid * d \in Int
  BY SMT
<1>2. rate * (supply + issued - 1) = rate * supply + issued * rate - rate
  BY SMT
<1>3. (worth + paid) * d = worth * d + paid * d
  BY SMT
<1> QED
  BY <1>1, <1>2, <1>3

\* A step that brings k up to date leaves its tokens worth what they were by then, but
\* for the rounding of one of them.
KeepsWorth(k) ==
  /\ market[k].supply > 0 /\ HasRate(cash[k], Accrued(k))
  /\ market'[k].supply > 0
  => Net(k)' * DecimalOne
       >= ExchangeRate(cash[k], Accrued(k)) * (market'[k].supply - 1)

BroughtUp(k) ==
  Accrues(k) /\ market'[k].accrued = block /\ market'[k].index = Accrued(k).index

\* What a step of the contracts may do to a market.
Carried(k) ==
  \/ market'[k] = market[k] /\ cash'[k] = cash[k]
  \/ BroughtUp(k) /\ KeepsWorth(k)

LEMMA WorthKept ==
  ASSUME LendInv, LendInv', NEW m \in Markets, Accrues(m),
         NEW paid \in Int, NEW issued \in Int,
         Net(m)' = Worth(cash[m], Accrued(m)) + paid,
         market'[m].supply = market[m].supply + issued,
         issued * ExchangeRate(cash[m], Accrued(m))
           <= paid * DecimalOne + ExchangeRate(cash[m], Accrued(m))
  PROVE  KeepsWorth(m)
<1> SUFFICES ASSUME market[m].supply > 0, HasRate(cash[m], Accrued(m)),
                    market'[m].supply > 0
             PROVE  Net(m)' * DecimalOne
                      >= ExchangeRate(cash[m], Accrued(m)) * (market'[m].supply - 1)
  BY DEF KeepsWorth
<1> DEFINE rate == ExchangeRate(cash[m], Accrued(m))
           worth == Worth(cash[m], Accrued(m))
           supply == market[m].supply
<1>1. /\ Accrued(m) \in MarketRecord /\ Accrued(m).supply = supply
      /\ cash[m] \in Nat /\ supply \in Nat /\ DecimalOne \in Nat
  BY InvFacts, AccruedFacts, MarketFields, DecimalAssumption
<1>2. rate \in Nat /\ worth \in Nat /\ rate * supply <= worth * DecimalOne
  BY <1>1, RateFacts
<1>3. /\ Net(m)' = worth + paid /\ market'[m].supply = supply + issued
      /\ issued * rate <= paid * DecimalOne + rate
  OBVIOUS
<1> HIDE DEF rate, worth, supply
<1>4. rate * (supply + issued - 1) <= (worth + paid) * DecimalOne
  BY <1>1, <1>2, <1>3, ValuePaidFor
<1>5. supply + issued - 1 = market'[m].supply - 1
  BY <1>1, <1>3
<1>6. rate * (market'[m].supply - 1) <= Net(m)' * DecimalOne
  BY <1>3, <1>4, <1>5
<1>7. /\ Net(m)' * DecimalOne \in Int
      /\ rate * (market'[m].supply - 1) \in Int
  <2>1. Net(m)' \in Int /\ market'[m].supply - 1 \in Int
    BY <1>1, <1>2, <1>3
  <2> QED
    BY <1>1, <1>2, <2>1, SMT
<1>8. Net(m)' * DecimalOne >= rate * (market'[m].supply - 1)
  BY <1>6, <1>7
<1> QED
  BY <1>8 DEF rate

\* A market whose tokens and worth a step does not touch.
LEMMA ValueUntouched ==
  ASSUME LendInv, NEW m \in Markets, Net(m)' = Net(m),
         market'[m].supply = market[m].supply
  PROVE  KeepsValue(m)
<1> SUFFICES ASSUME market[m].supply > 0, HasRate(cash[m], market[m])
             PROVE  Net(m) * DecimalOne
                      >= ExchangeRate(cash[m], market[m]) * (market[m].supply - 1)
  BY DEF KeepsValue
<1> DEFINE rate == ExchangeRate(cash[m], market[m])
<1>1. /\ market[m] \in MarketRecord /\ cash[m] \in Nat /\ market[m].supply \in Nat
      /\ Worth(cash[m], market[m]) = Net(m)
  BY InvFacts, MarketFields DEF Worth, Net
<1>2. /\ rate \in Nat /\ Net(m) * DecimalOne \in Nat
      /\ rate * market[m].supply <= Net(m) * DecimalOne
  BY <1>1, RateFacts
<1>3. PICK left \in Nat : left = market[m].supply - 1
  BY <1>1
<1>4. left <= market[m].supply
  BY <1>1, <1>3
<1> HIDE DEF rate
<1>5. rate * left <= rate * market[m].supply
  BY <1>1, <1>2, <1>4, ProductGrows
<1>6. rate * left \in Int /\ rate * market[m].supply \in Int
  BY <1>1, <1>2, SMT
<1> QED
  BY <1>2, <1>3, <1>5, <1>6 DEF rate

\* A step of one market, at which `paid` more has come in (or less) and `issued`
\* more sl-tokens are out (or fewer).
LEMMA CarriedByStep ==
  ASSUME LendInv, LendInv', NEW m \in Markets, Accrues(m), NEW r, NEW balance,
         market' = [market EXCEPT ![m] = r], cash' = [cash EXCEPT ![m] = balance],
         NEW paid \in Int, NEW issued \in Int,
         Worth(balance, r) = Worth(cash[m], Accrued(m)) + paid,
         r.supply = market[m].supply + issued,
         issued * ExchangeRate(cash[m], Accrued(m))
           <= paid * DecimalOne + ExchangeRate(cash[m], Accrued(m)),
         r.index = Accrued(m).index, r.accrued = Accrued(m).accrued,
         NEW k \in Markets
  PROVE  Carried(k)
<1>1. market \in [Markets -> MarketRecord] /\ cash \in [Markets -> Nat]
  BY InvFacts DEF LendTypeOK
<1>2. CASE k = m
  <2>1. market'[m] = r /\ cash'[m] = balance
    BY <1>1
  <2>2. Net(m)' = Worth(cash[m], Accrued(m)) + paid
    BY <2>1 DEF Net, Worth
  <2>3. market'[m].supply = market[m].supply + issued
    BY <2>1
  <2>4. BroughtUp(m)
    BY <2>1, InvFacts, AccruedFacts DEF BroughtUp
  <2> QED
    BY <1>2, <2>2, <2>3, <2>4, WorthKept DEF Carried
<1>3. CASE k # m
  <2>1. market'[k] = market[k] /\ cash'[k] = cash[k]
    BY <1>1, <1>3
  <2> QED
    BY <2>1 DEF Carried
<1> QED
  BY <1>2, <1>3

\* A step that neither issues nor burns, and takes from the market what it adds
\* to its debts or to the reserves' account, or the reverse.
LEMMA CarriedByExchange ==
  ASSUME LendInv, LendInv', NEW m \in Markets, Accrues(m), NEW r, NEW balance,
         market' = [market EXCEPT ![m] = r], cash' = [cash EXCEPT ![m] = balance],
         Worth(balance, r) = Worth(cash[m], Accrued(m)),
         r.supply = market[m].supply,
         r.index = Accrued(m).index, r.accrued = Accrued(m).accrued,
         NEW k \in Markets
  PROVE  Carried(k)
<1> DEFINE rate == ExchangeRate(cash[m], Accrued(m))
           worth == Worth(cash[m], Accrued(m))
<1>1. /\ Accrued(m) \in MarketRecord /\ cash[m] \in Nat /\ market[m].supply \in Nat
      /\ Accrued(m).supply = market[m].supply /\ DecimalOne \in Nat
  BY InvFacts, AccruedFacts, MarketFields, DecimalAssumption
<1>2. worth \in Int
  BY <1>1, MarketFields DEF Worth
<1>3. Worth(balance, r) = worth + 0 /\ r.supply = market[m].supply + 0
  BY <1>1, <1>2
<1>4. CASE k = m /\ market[m].supply > 0 /\ HasRate(cash[m], Accrued(m))
  <2>1. rate \in Nat
    BY <1>1, <1>4, ExchangeRateType
  <2>2. 0 * rate <= 0 * DecimalOne + rate
    BY <1>1, <2>1, SMT
  <2> QED
    BY <1>3, <2>2, 0 \in Int, CarriedByStep
<1>5. market \in [Markets -> MarketRecord] /\ cash \in [Markets -> Nat]
  BY InvFacts DEF LendTypeOK
<1>6. CASE k = m /\ ~(market[m].supply > 0 /\ HasRate(cash[m], Accrued(m)))
  <2>1. market'[m] = r
    BY <1>5
  <2>2. BroughtUp(m)
    BY <2>1, InvFacts, AccruedFacts DEF BroughtUp
  <2> QED
    BY <1>6, <2>2 DEF Carried, KeepsWorth
<1>7. CASE k # m
  <2>1. market'[k] = market[k] /\ cash'[k] = cash[k]
    BY <1>5, <1>7
  <2> QED
    BY <2>1 DEF Carried
<1> QED
  BY <1>4, <1>6, <1>7

LEMMA CarriedByDeposit ==
  ASSUME LendInv, LendInv', NEW m \in Markets, NEW u \in Users, NEW amount \in Amounts[m],
         Deposit(m, u, amount), NEW k \in Markets
  PROVE  Carried(k)
<1> DEFINE rate == ExchangeRate(cash[m], Accrued(m))
           minted == Minted(m, amount)
           r == [Accrued(m) EXCEPT !.supply = @ + minted]
           balance == cash[m] + amount
<1>1. /\ Accrues(m) /\ amount \in Nat /\ HasRate(cash[m], Accrued(m)) /\ rate > 0
      /\ cash' = [cash EXCEPT ![m] = balance] /\ market' = [market EXCEPT ![m] = r]
  BY AmountTypes, InvFacts DEF Deposit, PayIn, LendTypeOK
<1>2. /\ Accrued(m) \in MarketRecord /\ Accrued(m).supply = market[m].supply
      /\ cash[m] \in Nat /\ market[m].supply \in Nat /\ DecimalOne \in Nat
  BY <1>1, InvFacts, AccruedFacts, MarketFields, DecimalAssumption
<1>3. rate \in Nat /\ rate \in Nat \ {0}
  BY <1>1, <1>2, ExchangeRateType
<1>4. /\ r.supply = market[m].supply + minted
      /\ Worth(balance, r) = Worth(cash[m], Accrued(m)) + amount
      /\ r.index = Accrued(m).index /\ r.accrued = Accrued(m).accrued
  <2>1. /\ r.supply = market[m].supply + minted
        /\ r.borrows = Accrued(m).borrows /\ r.reserves = Accrued(m).reserves
        /\ r.index = Accrued(m).index /\ r.accrued = Accrued(m).accrued
    BY <1>2 DEF MarketRecord
  <2>2. Accrued(m).borrows \in Nat /\ Accrued(m).reserves \in Nat
    BY <1>2, MarketFields
  <2> HIDE DEF r
  <2> QED
    BY <1>1, <1>2, <2>1, <2>2 DEF Worth
<1> DEFINE value == amount * DecimalOne
<1>5. value \in Int /\ minted = value \div rate
  BY <1>1, <1>2, DecimalTypes DEF Minted, Per
<1> HIDE DEF value, minted, rate, r, balance
<1>6. minted \in Int /\ minted * rate \in Int /\ minted * rate <= value
  BY <1>3, <1>5, QuotientBounds
<1>7. minted * rate <= amount * DecimalOne + rate
  BY <1>3, <1>5, <1>6 DEF value
<1>8. amount \in Int
  BY <1>1
<1> QED
  BY <1>1, <1>4, <1>6, <1>7, <1>8, CarriedByStep DEF rate

LEMMA CarriedByRedeem ==
  ASSUME LendInv, LendInv', NEW m \in Markets, NEW u \in Users, NEW burnt \in Nat,
         NEW received \in Nat, Redeem(m, u, burnt, received),
         received * DecimalOne
           <= burnt * ExchangeRate(cash[m], Accrued(m)) + ExchangeRate(cash[m], Accrued(m)),
         ExchangeRate(cash[m], Accrued(m)) \in Nat, NEW k \in Markets
  PROVE  Carried(k)
<1> DEFINE rate == ExchangeRate(cash[m], Accrued(m))
           r == [Accrued(m) EXCEPT !.supply = @ - burnt]
           balance == cash[m] - received
<1>1. /\ Accrues(m)
      /\ cash' = [cash EXCEPT ![m] = balance] /\ market' = [market EXCEPT ![m] = r]
  BY InvFacts DEF Redeem, PayOut, LendTypeOK
<1>2. /\ Accrued(m) \in MarketRecord /\ Accrued(m).supply = market[m].supply
      /\ cash[m] \in Nat /\ market[m].supply \in Nat /\ DecimalOne \in Nat
  BY <1>1, InvFacts, AccruedFacts, MarketFields, DecimalAssumption
<1>3. PICK issued \in Int, paid \in Int : issued = -burnt /\ paid = -received
  OBVIOUS
<1>4. /\ r.supply = market[m].supply - burnt
      /\ r.borrows = Accrued(m).borrows /\ r.reserves = Accrued(m).reserves
      /\ r.index = Accrued(m).index /\ r.accrued = Accrued(m).accrued
  BY <1>2 DEF MarketRecord
<1> HIDE DEF r
<1>5. r.supply = market[m].supply + issued
  BY <1>2, <1>3, <1>4
<1>6. Worth(balance, r) = Worth(cash[m], Accrued(m)) + paid
  <2>1. PICK owed, kept \in Nat : owed = Accrued(m).borrows /\ kept = Accrued(m).reserves
    BY <1>2, MarketFields
  <2>2. Worth(balance, r) = (cash[m] - received) + owed - kept
    BY <1>4, <2>1 DEF Worth
  <2>3. Worth(cash[m], Accrued(m)) = cash[m] + owed - kept
    BY <2>1 DEF Worth
  <2> QED
    BY <1>2, <1>3, <2>1, <2>2, <2>3
<1>7. issued * rate <= paid * DecimalOne + rate
  <2>1. rate \in Nat /\ received * DecimalOne <= burnt * rate + rate
    OBVIOUS
  <2> HIDE DEF rate
  <2>2. issued * rate = -(burnt * rate) /\ paid * DecimalOne = -(received * DecimalOne)
    BY <1>2, <1>3, <2>1, SMT
  <2>3. burnt * rate \in Int /\ received * DecimalOne \in Int
    BY <1>2, <2>1, SMT
  <2> QED
    BY <2>1, <2>2, <2>3
<1> HIDE DEF balance
<1> QED
  BY <1>1, <1>4, <1>5, <1>6, <1>7, CarriedByStep

LEMMA CarriedByRedeemToken ==
  ASSUME LendInv, LendInv', NEW m \in Markets, NEW u \in Users, NEW amount \in Amounts[m],
         RedeemToken(m, u, amount), NEW k \in Markets
  PROVE  Carried(k)
<1> DEFINE rate == ExchangeRate(cash[m], Accrued(m))
           received == Times(amount, rate)
<1>1. Accrues(m) /\ HasRate(cash[m], Accrued(m)) /\ amount \in Nat
      /\ Redeem(m, u, amount, received)
  BY AmountTypes DEF RedeemToken, Redeem
<1>2. rate \in Nat /\ DecimalOne \in Nat \ {0}
  BY <1>1, InvFacts, AccruedFacts, ExchangeRateType, DecimalAssumption
<1> DEFINE value == amount * rate
<1>3. value \in Nat /\ received = value \div DecimalOne /\ received \in Nat
  BY <1>1, <1>2, DecimalTypes DEF Times
<1> HIDE DEF value, received
<1>4. received * DecimalOne <= value /\ received * DecimalOne \in Int
  BY <1>2, <1>3, QuotientBounds
<1> HIDE DEF rate
<1>5. received * DecimalOne <= amount * rate + rate
  BY <1>2, <1>3, <1>4 DEF value
<1> QED
  BY <1>1, <1>2, <1>3, <1>5, CarriedByRedeem DEF rate

LEMMA CarriedByRedeemUnderlying ==
  ASSUME LendInv, LendInv', NEW m \in Markets, NEW u \in Users, NEW amount \in Amounts[m],
         RedeemUnderlying(m, u, amount), NEW k \in Markets
  PROVE  Carried(k)
<1> DEFINE rate == ExchangeRate(cash[m], Accrued(m))
           burnt == Per(amount, rate)
<1>1. Accrues(m) /\ HasRate(cash[m], Accrued(m)) /\ amount \in Nat /\ rate > 0
      /\ Redeem(m, u, burnt, amount)
  BY AmountTypes DEF RedeemUnderlying, Redeem
<1>2. rate \in Nat /\ rate \in Nat \ {0} /\ DecimalOne \in Nat
  BY <1>1, InvFacts, AccruedFacts, ExchangeRateType, DecimalAssumption
<1> DEFINE value == amount * DecimalOne
<1>3. value \in Nat /\ burnt = value \div rate
  BY <1>1, <1>2, DecimalTypes DEF Per
<1> HIDE DEF value, burnt, rate
<1>4. burnt \in Nat /\ value < burnt * rate + rate /\ burnt * rate \in Int
  BY <1>2, <1>3, QuotientBounds
<1>5. amount * DecimalOne <= burnt * rate + rate
  BY <1>2, <1>3, <1>4 DEF value
<1> QED
  BY <1>1, <1>2, <1>4, <1>5, CarriedByRedeem DEF rate

LEMMA CarriedByLoans ==
  ASSUME LendInv, LendInv', NEW m \in Markets, NEW u \in Users, NEW amount \in Amounts[m],
         \/ Borrow(m, u, amount)
         \/ \E other \in Users : Repay(m, u, other, amount)
         \/ ReduceReserves(m, amount),
         NEW k \in Markets
  PROVE  Carried(k)
<1>1. Accrues(m) /\ amount \in Nat
  BY AmountTypes DEF Borrow, Repay, ReduceReserves
<1>2. /\ Accrued(m) \in MarketRecord /\ Accrued(m).supply = market[m].supply
      /\ Accrued(m).borrows \in Nat /\ Accrued(m).reserves \in Nat
      /\ cash \in [Markets -> Nat] /\ cash[m] \in Nat
  BY <1>1, InvFacts, AccruedFacts, MarketFields DEF LendTypeOK
<1>3. ASSUME NEW n \in Int,
             market' = [market EXCEPT ![m] = [Accrued(m) EXCEPT !.borrows = @ + n]],
             cash' = [cash EXCEPT ![m] = @ - n]
      PROVE  Carried(k)
  <2> DEFINE r == [Accrued(m) EXCEPT !.borrows = @ + n]
             balance == cash[m] - n
  <2>1. /\ r.borrows = Accrued(m).borrows + n /\ r.reserves = Accrued(m).reserves
        /\ r.supply = market[m].supply
        /\ r.index = Accrued(m).index /\ r.accrued = Accrued(m).accrued
    BY <1>2 DEF MarketRecord
  <2>2. market' = [market EXCEPT ![m] = r] /\ cash' = [cash EXCEPT ![m] = balance]
    BY <1>2, <1>3
  <2> HIDE DEF r
  <2>3. Worth(balance, r) = Worth(cash[m], Accrued(m))
    BY <1>2, <2>1 DEF Worth
  <2> HIDE DEF balance
  <2> QED
    BY <1>1, <2>1, <2>2, <2>3, CarriedByExchange
<1>4. CASE Borrow(m, u, amount)
  <2>1. /\ market' = [market EXCEPT ![m] = [Accrued(m) EXCEPT !.borrows = @ + amount]]
        /\ cash' = [cash EXCEPT ![m] = @ - amount]
    BY <1>4 DEF Borrow, PayOut
  <2> QED
    BY <1>1, <1>3, <2>1, amount \in Int
<1>5. ASSUME NEW other \in Users, Repay(m, u, other, amount)
      PROVE  Carried(k)
  <2>1. Debt(m, other) \in Nat
    BY <1>1, 0 \in Nat, ResnapshotFacts
  <2> DEFINE repaid == LeastOf(amount, Debt(m, other))
  <2>2. repaid \in Nat
    BY <1>1, <2>1 DEF LeastOf
  <2>3. /\ market' = [market EXCEPT ![m] = [Accrued(m) EXCEPT !.borrows = @ - repaid]]
        /\ cash' = [cash EXCEPT ![m] = @ + repaid]
    BY <1>5 DEF Repay, PayIn
  <2> HIDE DEF repaid
  <2>4. PICK n \in Int : n = -repaid
    BY <2>2
  <2>5. Accrued(m).borrows - repaid = Accrued(m).borrows + n /\ cash[m] + repaid = cash[m] - n
    BY <1>2, <2>2, <2>4
  <2>6. /\ market' = [market EXCEPT ![m] = [Accrued(m) EXCEPT !.borrows = @ + n]]
        /\ cash' = [cash EXCEPT ![m] = @ - n]
    BY <2>3, <2>5
  <2> QED
    BY <1>3, <2>6
<1>6. CASE ReduceReserves(m, amount)
  <2> DEFINE r == [Accrued(m) EXCEPT !.reserves = @ - amount]
             balance == cash[m] - amount
  <2>1. /\ r.borrows = Accrued(m).borrows /\ r.reserves = Accrued(m).reserves - amount
        /\ r.supply = market[m].supply
        /\ r.index = Accrued(m).index /\ r.accrued = Accrued(m).accrued
    BY <1>2 DEF MarketRecord
  <2>2. market' = [market EXCEPT ![m] = r] /\ cash' = [cash EXCEPT ![m] = balance]
    BY <1>2, <1>6 DEF ReduceReserves
  <2> HIDE DEF r
  <2>3. Worth(balance, r) = Worth(cash[m], Accrued(m))
    BY <1>1, <1>2, <2>1 DEF Worth
  <2> HIDE DEF balance
  <2> QED
    BY <1>1, <2>1, <2>2, <2>3, CarriedByExchange
<1> QED
  BY <1>4, <1>5, <1>6

LEMMA CarriedByAccrual ==
  ASSUME LendInv, LendInv', NEW m \in Markets, Accrues(m),
         market' = [market EXCEPT ![m] = Accrued(m)], cash' = cash, NEW k \in Markets
  PROVE  Carried(k)
<1>1. cash' = [cash EXCEPT ![m] = cash[m]]
  BY InvFacts DEF LendTypeOK
<1>2. Accrued(m).supply = market[m].supply
  BY InvFacts, AccruedFacts
<1> QED
  BY <1>1, <1>2, CarriedByExchange

\* Of a seizure the reserves get no more than the tokens burnt were worth.
LEMMA SeizureKeepsWorth ==
  ASSUME LendInv, NEW c \in Markets, Accrues(c), market[c].supply > 0,
         HasRate(cash[c], Accrued(c)), NEW burnt \in Nat, NEW rate \in Nat,
         RateSeized(c, rate)
  PROVE  Times(burnt, rate) * DecimalOne
           <= burnt * ExchangeRate(cash[c], Accrued(c)) + ExchangeRate(cash[c], Accrued(c))
<1> DEFINE own == ExchangeRate(cash[c], Accrued(c))
           value == burnt * rate
<1>1. /\ Accrued(c) \in MarketRecord /\ Accrued(c).supply = market[c].supply
      /\ cash[c] \in Nat /\ DecimalOne \in Nat \ {0}
  BY InvFacts, AccruedFacts, DecimalAssumption
<1>2. own \in Nat
  BY <1>1, ExchangeRateType
<1>3. rate <= own
  <2>1. PICK s \in MarketRecord : /\ rate = ExchangeRate(cash[c], s)
                                  /\ s.supply = Accrued(c).supply
                                  /\ s.reserves = Accrued(c).reserves
                                  /\ s.borrows <= Accrued(c).borrows
    BY DEF RateSeized
  <2>2. Worth(cash[c], s) <= Worth(cash[c], Accrued(c))
    BY <1>1, <2>1, MarketFields DEF Worth
  <2> QED
    BY <1>1, <2>1, <2>2, RateGrows
<1>4. value \in Nat /\ Times(burnt, rate) = value \div DecimalOne
      /\ Times(burnt, rate) \in Nat
  BY <1>1, DecimalTypes DEF Times
<1> HIDE DEF own
<1>5. value <= burnt * own
  BY <1>2, <1>3, ProductGrows
<1> HIDE DEF value
<1>6. (value \div DecimalOne) * DecimalOne <= value
  BY <1>1, <1>4, QuotientBounds
<1>7. burnt * own \in Nat /\ Times(burnt, rate) * DecimalOne \in Nat
  BY <1>1, <1>2, <1>4, DecimalTypes
<1>8. Times(burnt, rate) * DecimalOne <= burnt * own + own
  BY <1>2, <1>4, <1>5, <1>6, <1>7
<1> QED
  BY <1>8 DEF own

LEMMA CarriedByLiquidation ==
  ASSUME LendInv, LendInv', NEW m \in Markets, NEW payer \in Users, NEW u \in Users,
         NEW c \in Markets, NEW amount \in Amounts[m], Liquidate(m, payer, u, c, amount),
         NEW k \in Markets
  PROVE  Carried(k)
<1>1. Accrues(m) /\ Accrues(c) /\ amount \in Nat
  BY LiquidationFacts
<1>2. PICK seize \in Nat, burnt \in Nat, rate \in Nat :
        MarketsLiquidated(m, c, amount, burnt, rate) /\ RateSeized(c, rate)
  BY LiquidationFacts
<1>3. /\ cash'[k] = cash[k] + (IF k = m THEN amount ELSE 0)
      /\ cash[k] \in Nat /\ market[k].supply \in Nat
  <2>1. cash \in [Markets -> Nat] /\ cash[k] \in Nat /\ market[k].supply \in Nat
    BY InvFacts, MarketFields DEF LendTypeOK
  <2>2. cash' = [cash EXCEPT ![m] = @ + amount]
    BY DEF Liquidate, PayIn
  <2>3. cash[k] + 0 = cash[k]
    BY <2>1
  <2> QED
    BY <2>1, <2>2, <2>3
<1>4. CASE k \notin {m, c}
  <2>1. market'[k] = market[k] /\ cash'[k] = cash[k]
    BY <1>2, <1>3, <1>4 DEF MarketsLiquidated
  <2> QED
    BY <2>1 DEF Carried
<1>5. ASSUME k \in {m, c} PROVE BroughtUp(k)
  <2>1. /\ market'[k].index = Accrued(k).index
        /\ market'[k].accrued = Accrued(k).accrued
    BY <1>2, <1>5 DEF MarketsLiquidated
  <2> QED
    BY <1>1, <1>5, <2>1, InvFacts, AccruedFacts DEF BroughtUp
<1>6. ASSUME k \in {m, c}, market[k].supply > 0, HasRate(cash[k], Accrued(k))
      PROVE  KeepsWorth(k)
  <2> DEFINE taken == IF k = c THEN Times(burnt, rate) ELSE 0
             fewer == IF k = c THEN burnt ELSE 0
             repaid == IF k = m THEN amount ELSE 0
             own == ExchangeRate(cash[k], Accrued(k))
  <2>1. Accrues(k) /\ Accrued(k) \in MarketRecord
    BY <1>1, <1>6, InvFacts, AccruedFacts
  <2>2. own \in Nat /\ DecimalOne \in Nat
    BY <1>6, <2>1, InvFacts, ExchangeRateType, DecimalAssumption
  <2>3. taken * DecimalOne <= fewer * own + own
    <3>1. CASE k = c
      BY <1>2, <1>6, <2>1, <3>1, SeizureKeepsWorth
    <3>2. CASE k # c
      <4> HIDE DEF own
      <4>1. 0 * DecimalOne <= 0 * own + own
        BY <2>2, SMT
      <4> QED
        BY <3>2, <4>1
    <3> QED
      BY <3>1, <3>2
  <2>4. taken \in Nat /\ fewer \in Nat /\ repaid \in Nat
    BY <1>1, <1>2, DecimalTypes
  <2>5. /\ market'[k].borrows + repaid = Accrued(k).borrows
        /\ market'[k].reserves = Accrued(k).reserves + taken
        /\ market'[k].supply + fewer = market[k].supply
        /\ cash'[k] = cash[k] + repaid
        /\ market'[k] \in MarketRecord
    BY <1>2, <1>3, <1>6 DEF MarketsLiquidated
  <2> HIDE DEF taken, fewer, repaid, own
  <2>6. PICK issued \in Int, paid \in Int : issued = -fewer /\ paid = -taken
    BY <2>4
  <2>7. /\ market'[k].borrows \in Nat /\ market'[k].reserves \in Nat
        /\ market'[k].supply \in Nat
        /\ Accrued(k).borrows \in Nat /\ Accrued(k).reserves \in Nat
    BY <2>1, <2>5, MarketFields
  <2>8. Net(k)' = Worth(cash[k], Accrued(k)) + paid
    <3>1. PICK x, b, o \in Int : /\ x = cash[k] /\ b = market'[k].borrows
                                 /\ o = Accrued(k).reserves
      BY <1>3, <2>7
    <3>2. Net(k)' = (x + repaid) + b - (o + taken)
      BY <2>5, <3>1 DEF Net
    <3>3. Worth(cash[k], Accrued(k)) = x + (b + repaid) - o
      BY <2>5, <3>1 DEF Worth
    <3> QED
      BY <2>4, <2>6, <3>1, <3>2, <3>3
  <2>9. market'[k].supply = market[k].supply + issued
    BY <1>3, <2>4, <2>5, <2>6, <2>7
  <2>10. issued * own <= paid * DecimalOne + own
    <3>1. issued * own = -(fewer * own) /\ paid * DecimalOne = -(taken * DecimalOne)
      BY <2>2, <2>4, <2>6, SMT
    <3>2. fewer * own \in Int /\ taken * DecimalOne \in Int
      BY <2>2, <2>4, SMT
    <3> QED
      BY <2>2, <2>3, <3>1, <3>2
  <2> QED
    BY <2>1, <2>8, <2>9, <2>10, WorthKept DEF own
<1> QED
  BY <1>4, <1>5, <1>6 DEF Carried, KeepsWorth

LEMMA StepCarries ==
  ASSUME LendInv, LendInv', [LendNext]_lendVars, NEW k \in Markets
  PROVE  Carried(k)
<1>1. CASE UNCHANGED <<market, cash>>
  BY <1>1 DEF Carried
<1>2. ASSUME NEW u \in Users, NEW m \in Markets, NEW amount \in Amounts[m],
             \/ Deposit(m, u, amount) \/ RedeemToken(m, u, amount)
             \/ RedeemUnderlying(m, u, amount) \/ Borrow(m, u, amount)
             \/ \E other \in Users : \/ Repay(m, u, other, amount)
                                     \/ \E c \in Markets : Liquidate(m, u, other, c, amount)
      PROVE  Carried(k)
  BY <1>2, CarriedByDeposit, CarriedByRedeemToken, CarriedByRedeemUnderlying,
     CarriedByLoans, CarriedByLiquidation
<1>3. ASSUME NEW m \in Markets, NEW amount \in Amounts[m], ReduceReserves(m, amount)
      PROVE  Carried(k)
  <2>1. 1 \in Users
    BY LendAssumption DEF Users
  <2> QED
    BY <1>3, <2>1, CarriedByLoans
<1>4. ASSUME NEW m \in Markets,
             \/ \E u \in Users : AccrueInterest(m, u)
             \/ \E factor \in ReserveFactors, cap \in Caps \cup {config[m].cap} :
                  UpdateConfig(m, factor, cap)
      PROVE  Carried(k)
  <2>1. Accrues(m) /\ market' = [market EXCEPT ![m] = Accrued(m)] /\ cash' = cash
    BY <1>4 DEF AccrueInterest, UpdateConfig, moneyVars
  <2> QED
    BY <2>1, CarriedByAccrual
<1>5. CASE \/ \E u \in Users, m \in Markets : \E amount \in Amounts[m], other \in Users :
                Transfer(m, u, other, amount)
           \/ \E u \in Users : \/ \E asked \in SUBSET Markets \ {{}} : Enter(u, asked)
                               \/ \E m \in Markets : Exit(u, m)
           \/ \E m \in Markets : \/ Pause(m)
                                 \/ \E ratio \in LTVs[m] : ChangeMarket(m, ratio)
                                 \/ \E rate \in Prices[m] : SetPrice(m, rate)
           \/ NextBlock
  BY <1>1, <1>5 DEF Transfer, Enter, Exit, Pause, ChangeMarket, SetPrice, NextBlock,
                    marketVars, moneyVars
<1>6. CASE UNCHANGED lendVars
  BY <1>1, <1>6 DEF lendVars, marketVars, moneyVars
<1>7. CASE LendNext
  BY <1>2, <1>3, <1>4, <1>5, <1>7 DEF LendNext
<1> QED
  BY <1>6, <1>7

\* What is carried keeps its value.
LEMMA CarriedKeepsValue ==
  ASSUME LendInv, LendInv', NEW k \in Markets, Carried(k)
  PROVE  KeepsValue(k)
<1>1. CASE market'[k] = market[k] /\ cash'[k] = cash[k]
  BY <1>1, ValueUntouched DEF Net
<1>2. CASE BroughtUp(k) /\ KeepsWorth(k)
  <2> SUFFICES ASSUME market[k].supply > 0, HasRate(cash[k], market[k]),
                      market'[k].supply > 0
               PROVE  Net(k)' * DecimalOne
                        >= ExchangeRate(cash[k], market[k]) * (market'[k].supply - 1)
    BY DEF KeepsValue
  <2> DEFINE before == ExchangeRate(cash[k], market[k])
             rate == ExchangeRate(cash[k], Accrued(k))
  <2>1. /\ market[k] \in MarketRecord /\ cash[k] \in Nat /\ Accrues(k)
        /\ Accrued(k) \in MarketRecord
    BY <1>2, InvFacts, AccruedFacts DEF BroughtUp
  <2>2. HasRate(cash[k], Accrued(k)) /\ before <= rate
    BY <2>1, AccrualKeepsWorth
  <2>3. before \in Nat /\ rate \in Nat
    BY <2>1, <2>2, ExchangeRateType
  <2>4. Net(k)' * DecimalOne >= rate * (market'[k].supply - 1)
    BY <1>2, <2>2 DEF KeepsWorth
  <2>5. market' \in [Markets -> MarketRecord] /\ cash' \in [Markets -> Nat]
    BY DEF LendInv, SupplyIsSum, LendTypeOK
  <2>6. /\ market'[k].supply \in Nat /\ market'[k].borrows \in Nat
        /\ market'[k].reserves \in Nat /\ cash'[k] \in Nat
    BY <2>5, MarketFields
  <2>7. PICK left \in Nat : left = market'[k].supply - 1
    BY <2>6
  <2>8. PICK net \in Int : net = Net(k)'
    BY <2>6 DEF Net
  <2> HIDE DEF before, rate
  <2>9. before * left <= rate * left
    BY <2>2, <2>3, ProductGrows
  <2>10. DecimalOne \in Nat
    BY DecimalAssumption
  <2>11. before * left \in Int /\ rate * left \in Int /\ net * DecimalOne \in Int
    BY <2>3, <2>10, SMT
  <2>12. net * DecimalOne >= rate * left
    BY <2>4, <2>7, <2>8
  <2>13. net * DecimalOne >= before * left
    BY <2>9, <2>11, <2>12
  <2> QED
    BY <2>7, <2>8, <2>13 DEF before
<1> QED
  BY <1>1, <1>2 DEF Carried

\* Whatever is deposited, redeemed, lent, repaid, seized, accrued or withdrawn from
\* the reserves, the sl-tokens a step leaves are worth what they were worth, but for
\* the rounding of one of them.
THEOREM SuppliersKeepValueHolds == LendSpec => SuppliersKeepValue
<1>1. LendInv /\ LendInv' /\ [LendNext]_lendVars
        => [\A m \in Markets : KeepsValue(m)]_lendVars
  BY StepCarries, CarriedKeepsValue DEF lendVars
<1> QED
  BY <1>1, LendInvHolds, PTL DEF LendSpec, SuppliersKeepValue

-----------------------------------------------------------------------------
(* Whose collateral is seized.                                             *)

\* Products of decimals grow with either factor.
LEMMA DecimalsGrow ==
  ASSUME NEW n \in Nat, NEW a \in Int, NEW b \in Int, a <= b
  PROVE  /\ Product(n, a) \in Int /\ Product(n, b) \in Int
         /\ Product(n, a) <= Product(n, b)
         /\ Product(a, n) <= Product(b, n)
         /\ Product(a, n) \in Int /\ Product(b, n) \in Int
         /\ Times(n, a) \in Int /\ Times(n, b) \in Int
         /\ Times(n, a) <= Times(n, b)
<1>1. DecimalOne \in Nat \ {0}
  BY DecimalAssumption
<1>2. n * a \in Int /\ n * b \in Int /\ a * n = n * a /\ b * n = n * b
  BY SMT
<1>3. n * a <= n * b
  BY ProductGrows
<1>4. (n * a) \div DecimalOne <= (n * b) \div DecimalOne
  BY <1>1, <1>2, <1>3, QuotientGrows
<1>5. (n * a) \div DecimalOne \in Int /\ (n * b) \div DecimalOne \in Int
  BY <1>1, <1>2, QuotientBounds
<1> QED
  BY <1>2, <1>4, <1>5 DEF Product, Times

\* The repayment that reaches a market raises its rate, and no market's collateral
\* is worth less for it.
LEMMA RepaymentRaisesCollateral ==
  ASSUME LendInv, NEW m \in Markets, Accrues(m), NEW u \in Users,
         NEW low \in Nat, NEW high \in Nat, low <= high,
         NEW before, NEW after, before[m] = low, after[m] = high
  PROVE  /\ CollateralIn(m, u, before) \in Int /\ CollateralIn(m, u, after) \in Int
         /\ CollateralIn(m, u, before) <= CollateralIn(m, u, after)
         /\ Conversion(m, after) \in Int
<1> DEFINE s == Accrued(m)
           r0 == ExchangeRate(low, s)
           r1 == ExchangeRate(high, s)
           c0 == Product(ltv[m], r0)
           c1 == Product(ltv[m], r1)
<1>1. /\ s \in MarketRecord /\ ltv[m] \in Nat /\ price[m] \in Nat
      /\ slToken[m][u] \in Nat
  <2>1. s \in MarketRecord /\ slToken[m][u] \in Nat
    BY InvFacts, AccruedFacts
  <2>2. ltv[m] \in 0..DecimalOne /\ price[m] \in Nat
    BY InvFacts DEF LendTypeOK
  <2> QED
    BY <2>1, <2>2, DecimalAssumption
<1>2. r0 \in Int /\ r1 \in Int
  BY <1>1, ExchangeRateType
<1>3. r0 <= r1
  <2>1. /\ s.borrows \in Nat /\ s.reserves \in Nat /\ s.supply \in Nat
        /\ InitialRate \in Nat /\ DecimalOne \in Nat
    BY <1>1, MarketFields, LendAssumption, DecimalAssumption
  <2>2. CASE s.supply = 0
    BY <2>1, <2>2 DEF ExchangeRate
  <2>3. CASE s.supply # 0
    <3> DEFINE w0 == low + s.borrows - s.reserves
               w1 == high + s.borrows - s.reserves
    <3>1. w0 \in Int /\ w1 \in Int /\ w0 <= w1
      BY <2>1
    <3>2. /\ r0 = (w0 * DecimalOne) \div s.supply
          /\ r1 = (w1 * DecimalOne) \div s.supply
      BY <2>3 DEF ExchangeRate, Ratio
    <3> HIDE DEF w0, w1, r0, r1, s
    <3>3. w0 * DecimalOne <= w1 * DecimalOne
      BY <2>1, <3>1, ProductGrows
    <3>4. w0 * DecimalOne \in Int /\ w1 * DecimalOne \in Int /\ s.supply \in Nat \ {0}
      BY <2>1, <2>3, <3>1, SMT
    <3> QED
      BY <3>2, <3>3, <3>4, QuotientGrows
  <2> QED
    BY <2>2, <2>3
<1> HIDE DEF s, r0, r1
<1>4. c0 \in Int /\ c1 \in Int /\ c0 <= c1
  BY <1>1, <1>2, <1>3, DecimalsGrow
<1> HIDE DEF c0, c1
<1>5. /\ Product(c0, price[m]) \in Int /\ Product(c1, price[m]) \in Int
      /\ Product(c0, price[m]) <= Product(c1, price[m])
  BY <1>1, <1>4, DecimalsGrow
<1>6. /\ Conversion(m, before) = Product(c0, price[m])
      /\ Conversion(m, after) = Product(c1, price[m])
  BY DEF Conversion, ConversionAt, c0, c1, r0, r1, s
<1> QED
  BY <1>1, <1>5, <1>6, DecimalsGrow DEF CollateralIn

LEMMA OnlyUnderwaterAllowed ==
  ASSUME LendInv, NEW m \in Markets, Accrues(m), NEW u \in Users, NEW amount \in Nat,
         LiquidateAllowed(m, u, amount)
  PROVE  Underwater(u)
<1> DEFINE balance == [cash EXCEPT ![m] = @ + amount]
           E == entered[u]
           f == [k \in E |-> CollateralIn(k, u, cash)]
           g == [k \in E |-> CollateralIn(k, u, balance)]
           d == [k \in E |-> DebtIn(k, u)]
<1>1. /\ E \in SUBSET Markets /\ cash \in [Markets -> Nat] /\ IsFiniteSet(E)
      /\ price \in [Markets -> Nat]
  BY InvFacts, AreFinite DEF LendTypeOK
<1>2. /\ LiquidityDefined(u, 0, m, 0, balance)
      /\ Shortfall(u, 0, m, 0, balance) > 0
  BY DEF LiquidateAllowed
<1>3. \A k \in E : Accrues(k)
  BY <1>2 DEF LiquidityDefined
<1>4. \A k \in Markets : /\ balance[k] \in Nat /\ cash[k] \in Nat /\ cash[k] <= balance[k]
  BY <1>1
<1> HIDE DEF balance
<1>5. \A k \in E : f[k] \in Int /\ g[k] \in Int /\ f[k] <= g[k]
  <2> SUFFICES ASSUME NEW k \in E PROVE f[k] \in Int /\ g[k] \in Int /\ f[k] <= g[k]
    OBVIOUS
  <2>1. k \in Markets /\ Accrues(k)
    BY <1>1, <1>3
  <2>2. balance[k] \in Nat /\ cash[k] \in Nat /\ cash[k] <= balance[k]
    BY <1>4, <2>1
  <2>3. /\ CollateralIn(k, u, cash) \in Int /\ CollateralIn(k, u, balance) \in Int
        /\ CollateralIn(k, u, cash) <= CollateralIn(k, u, balance)
    BY <2>1, <2>2, RepaymentRaisesCollateral
  <2> QED
    BY <2>3
<1>6. \A k \in E : d[k] \in Int
  <2> SUFFICES ASSUME NEW k \in E PROVE DebtIn(k, u) \in Int
    OBVIOUS
  <2>1. k \in Markets /\ Accrues(k) /\ price[k] \in Nat
    BY <1>1, <1>3
  <2>2. Debt(k, u) \in Nat
    BY <2>1, 0 \in Nat, ResnapshotFacts
  <2>3. DebtIn(k, u) \in Nat
    BY <2>1, <2>2, DecimalTypes DEF DebtIn
  <2> QED
    BY <2>3
<1> HIDE DEF E, f, g, d
<1>7. SumOver(f, E) \in Int /\ SumOver(g, E) \in Int /\ SumOver(d, E) \in Int
  BY <1>1, <1>5, <1>6, SumType
<1>8. SumOver(f, E) <= SumOver(g, E)
  BY <1>1, <1>5, SumsCompare
<1>9. CostIn(m, 0, 0, balance) = 0
  <2>1. Conversion(m, balance) \in Int /\ price[m] \in Int /\ DecimalOne \in Nat \ {0}
    BY <1>1, <1>4, RepaymentRaisesCollateral, DecimalAssumption
  <2>2. Times(0, Conversion(m, balance)) = 0 /\ Times(0, price[m]) = 0
    BY <2>1, SMT DEF Times
  <2> QED
    BY <2>2 DEF CostIn
<1>10. MinusOrZero(SumOver(d, E) + 0, SumOver(g, E)) > 0
  BY <1>2, <1>9 DEF Shortfall, Debts, Collateral, d, g, E
<1>11. SumOver(d, E) > SumOver(g, E)
  BY <1>7, <1>10 DEF MinusOrZero
<1>12. SumOver(d, E) > SumOver(f, E)
  BY <1>7, <1>8, <1>11
<1> QED
  BY <1>12 DEF Underwater, Debts, Collateral, d, f, E

LEMMA StepSeizesFromUnderwater ==
  ASSUME LendInv, [LendNext]_lendVars, NEW u \in Users,
         \E m \in Markets :
           SnapshotOf(book[m], u).principal > SnapshotOf(book[m], u)'.principal,
         \E m \in Markets : slToken'[m][u] < slToken[m][u]
  PROVE  Underwater(u)
<1>1. \A m \in Markets : /\ slToken[m][u] \in Nat
                         /\ SnapshotOf(book[m], u).principal \in Nat
  <2> SUFFICES ASSUME NEW m \in Markets
               PROVE  slToken[m][u] \in Nat /\ SnapshotOf(book[m], u).principal \in Nat
    OBVIOUS
  <2>1. /\ market[m].index \in Nat /\ market[m].index <= market[m].index
        /\ slToken[m][u] \in Nat
    BY InvFacts, MarketFields
  <2> QED
    BY <2>1, InvFacts, DebtsReadable
<1>2. slToken' # slToken /\ book' # book
  <2>1. CASE slToken' = slToken
    <3>1. \A m \in Markets : ~(slToken[m][u] < slToken[m][u])
      BY <1>1
    <3> QED
      BY <2>1, <3>1
  <2>2. CASE book' = book
    <3>1. \A m \in Markets : ~(SnapshotOf(book[m], u).principal
                                 > SnapshotOf(book[m], u).principal)
      BY <1>1
    <3>2. \A m \in Markets : SnapshotOf(book[m], u)' = SnapshotOf(book[m], u)
      BY <2>2 DEF SnapshotOf
    <3> QED
      BY <3>1, <3>2
  <2> QED
    BY <2>1, <2>2
<1>3. PICK m \in Markets, payer \in Users, x \in Users, c \in Markets :
        \E amount \in Amounts[m] : Liquidate(m, payer, x, c, amount)
  <2>1. ASSUME NEW v \in Users, NEW m \in Markets, NEW amount \in Amounts[m],
               \/ Deposit(m, v, amount) \/ RedeemToken(m, v, amount)
               \/ RedeemUnderlying(m, v, amount)
               \/ \E other \in Users : Transfer(m, v, other, amount)
        PROVE  book' = book
    BY <2>1 DEF Deposit, RedeemToken, RedeemUnderlying, Redeem, Transfer
  <2>2. ASSUME NEW v \in Users, NEW m \in Markets, NEW amount \in Amounts[m],
               Borrow(m, v, amount) \/ \E other \in Users : Repay(m, v, other, amount)
        PROVE  slToken' = slToken
    BY <2>2 DEF Borrow, Repay
  <2>3. ASSUME NEW v \in Users,
               \/ \E asked \in SUBSET Markets \ {{}} : Enter(v, asked)
               \/ \E m \in Markets : Exit(v, m) \/ AccrueInterest(m, v)
        PROVE  book' = book
    BY <2>3 DEF Enter, Exit, AccrueInterest, marketVars
  <2>4. ASSUME NEW m \in Markets,
               \/ Pause(m)
               \/ \E factor \in ReserveFactors, cap \in Caps \cup {config[m].cap} :
                    UpdateConfig(m, factor, cap)
               \/ \E amount \in Amounts[m] : ReduceReserves(m, amount)
               \/ \E ratio \in LTVs[m] : ChangeMarket(m, ratio)
               \/ \E rate \in Prices[m] : SetPrice(m, rate)
        PROVE  book' = book
    BY <2>4 DEF Pause, UpdateConfig, ReduceReserves, ChangeMarket, SetPrice, marketVars
  <2>5. NextBlock \/ UNCHANGED lendVars => book' = book
    BY DEF NextBlock, lendVars, marketVars
  <2> QED
    BY <1>2, <2>1, <2>2, <2>3, <2>4, <2>5 DEF LendNext
<1> PICK amount \in Amounts[m] : Liquidate(m, payer, x, c, amount)
  BY <1>3
<1>4. Accrues(m) /\ amount \in Nat /\ payer # x
  BY LiquidationFacts
<1>5. CASE x = u
  <2>1. LiquidateAllowed(m, u, amount)
    BY <1>5 DEF Liquidate
  <2> QED
    BY <1>4, <2>1, OnlyUnderwaterAllowed
<1>6. CASE x # u
  <2>1. PICK seize \in Nat : seize <= slToken[c][x] /\ MoveSeized(c, payer, x, seize)
    BY LiquidationFacts
  <2>2. PICK balances \in [Users -> Nat] :
          /\ slToken' = [slToken EXCEPT ![c] = balances]
          /\ \A v \in Users : v # x => balances[v] >= slToken[c][v]
    BY <1>4, <2>1, SeizureMoves
  <2>3. slToken \in [Markets -> [Users -> Nat]]
    BY InvFacts DEF LendTypeOK
  <2>4. \A k \in Markets : slToken'[k][u] >= slToken[k][u] /\ slToken'[k][u] \in Nat
    <3> SUFFICES ASSUME NEW k \in Markets
                 PROVE  slToken'[k][u] >= slToken[k][u] /\ slToken'[k][u] \in Nat
      OBVIOUS
    <3>1. CASE k = c
      BY <1>6, <2>2, <2>3, <3>1
    <3>2. CASE k # c
      <4>1. slToken'[k] = slToken[k]
        BY <2>2, <2>3, <3>2
      <4> QED
        BY <1>1, <4>1
    <3> QED
      BY <3>1, <3>2
  <2> QED
    BY <1>1, <2>4
<1> QED
  BY <1>5, <1>6

\* A step that lowers both a user's debt and the user's sl-tokens is a liquidation,
\* and assert_liquidate_allowed lets it through only if the user's debts exceeded
\* the collateral before the step: that the payment has already arrived when the
\* overseer is asked only raises the collateral it compares with.
THEOREM OnlyUnderwaterLiquidatedHolds == LendSpec => OnlyUnderwaterLiquidated
<1> DEFINE Seizures ==
      \A u \in Users :
        (/\ \E m \in Markets : SnapshotOf(book[m], u).principal
                                > SnapshotOf(book[m], u)'.principal
         /\ \E m \in Markets : slToken'[m][u] < slToken[m][u])
        => Underwater(u)
<1>1. LendInv /\ [LendNext]_lendVars => Seizures
  BY StepSeizesFromUnderwater
<1>2. LendInv /\ [LendNext]_lendVars => [Seizures]_lendVars
  BY <1>1
<1> QED
  BY <1>2, LendInvHolds, PTL DEF LendSpec, OnlyUnderwaterLiquidated
-----------------------------------------------------------------------------
(* Who stays covered.                                                      *)

\* Of a sum Times takes what it takes of the parts, or a unit more.
LEMMA TimesAdds ==
  ASSUME NEW a \in Nat, NEW b \in Nat, NEW d \in Nat
  PROVE  Times(a + b, d) <= Times(a, d) + Times(b, d) + 1
<1> DEFINE x == a * d
           y == b * d
           p == x \div DecimalOne
           q == y \div DecimalOne
           r == (x + y) \div DecimalOne
<1>1. DecimalOne \in Nat \ {0} /\ x \in Nat /\ y \in Nat
  BY DecimalAssumption, DecimalTypes
<1>2. Times(a, d) = p /\ Times(b, d) = q /\ Times(a + b, d) = r
  <2>1. (a + b) * d = x + y
    BY SMT
  <2> QED
    BY <2>1 DEF Times
<1> HIDE DEF x, y
<1>3. x + y \in Nat
  BY <1>1
<1>4. /\ p \in Nat /\ x < p * DecimalOne + DecimalOne /\ p * DecimalOne \in Int
      /\ q \in Nat /\ y < q * DecimalOne + DecimalOne /\ q * DecimalOne \in Int
      /\ r \in Nat /\ r * DecimalOne <= x + y /\ r * DecimalOne \in Int
  BY <1>1, <1>3, QuotientBounds
<1> HIDE DEF p, q, r
<1>5. (p + q + 2) * DecimalOne = p * DecimalOne + q * DecimalOne + DecimalOne + DecimalOne
  BY <1>1, <1>4, SMT
<1>6. r * DecimalOne < (p + q + 2) * DecimalOne
  BY <1>1, <1>4, <1>5
<1>7. p + q + 2 \in Int /\ r \in Int /\ DecimalOne \in Nat
  BY <1>1, <1>4
<1>8. r < p + q + 2
  BY <1>6, <1>7, ProductReflects
<1> QED
  BY <1>2, <1>4, <1>8

LEMMA NothingTimes ==
  ASSUME NEW d \in Nat
  PROVE  Times(0, d) = 0
<1>1. DecimalOne \in Nat \ {0}
  BY DecimalAssumption
<1>2. 0 * d = 0 /\ 0 \div DecimalOne = 0
  BY <1>1, SMT
<1> QED
  BY <1>2 DEF Times

\* What is added to an amount counts, but for a unit.
LEMMA AmountCounts ==
  ASSUME NEW x \in Nat, NEW y \in Nat, NEW c \in Nat, x <= y + c, NEW d \in Nat
  PROVE  /\ Times(x, d) \in Nat /\ Times(y, d) \in Nat /\ Times(c, d) \in Nat
         /\ Times(x, d) <= Times(y, d) + Times(c, d) + (IF c = 0 THEN 0 ELSE 1)
         /\ c = 0 => Times(c, d) = 0
<1>1. DecimalOne \in Nat \ {0} /\ y + c \in Nat
  BY DecimalAssumption
<1>2. /\ Times(x, d) \in Nat /\ Times(y, d) \in Nat /\ Times(c, d) \in Nat
      /\ Times(y + c, d) \in Nat
  BY <1>1, DecimalTypes
<1>3. Times(x, d) <= Times(y + c, d)
  <2>1. x * d <= (y + c) * d
    BY <1>1, ProductGrows
  <2>2. x * d \in Int /\ (y + c) * d \in Int
    BY <1>1, DecimalTypes
  <2> QED
    BY <1>1, <2>1, <2>2, QuotientGrows DEF Times
<1>4. Times(y + c, d) <= Times(y, d) + Times(c, d) + 1
  BY TimesAdds
<1>5. c = 0 => y + c = y /\ Times(c, d) = 0
  BY NothingTimes
<1> QED
  BY <1>2, <1>3, <1>4, <1>5

\* Collateral of `now` tokens at `held` each against `was` tokens at `conv` each:
\* what it fell by is what the `given` tokens were worth, what the rest would have
\* lost at `low` each, and a unit.
LEMMA CollateralFalls ==
  ASSUME NEW was \in Nat, NEW now \in Nat, NEW given \in Nat, was <= now + given,
         NEW conv \in Nat, NEW low \in Nat, NEW held \in Nat, low <= conv,
         was = 0 \/ now = 0 \/ low <= held
  PROVE  /\ Times(was, conv) \in Nat /\ Times(now, low) \in Nat
         /\ Times(now, held) \in Nat /\ Times(now, conv) \in Nat /\ Times(given, conv) \in Nat
         /\ Times(now, low) <= Times(now, conv)
         /\ given = 0 => Times(given, conv) = 0
         /\ Times(was, conv) + Times(now, low)
              <= Times(now, held) + Times(now, conv) + Times(given, conv)
                   + (IF given = 0 THEN 0 ELSE 1)
<1>1. /\ Times(was, conv) \in Nat /\ Times(now, conv) \in Nat /\ Times(given, conv) \in Nat
      /\ Times(was, conv) <= Times(now, conv) + Times(given, conv) + (IF given = 0 THEN 0 ELSE 1)
      /\ given = 0 => Times(given, conv) = 0
  BY AmountCounts
<1>2. Times(now, low) \in Nat /\ Times(now, held) \in Nat
  BY DecimalTypes
<1>3. Times(now, low) <= Times(now, conv)
  BY DecimalsGrow
<1>4. ASSUME low <= held PROVE Times(now, low) <= Times(now, held)
  BY <1>4, DecimalsGrow
<1>5. \A n \in Nat : Times(0, n) = 0
  BY NothingTimes
<1> QED
  BY <1>1, <1>2, <1>3, <1>4, <1>5

\* Accounts and what they are compared with, entry by entry: if no entry moved
\* by more than its allowance, but for one whose cost was covered beforehand, the
\* sums are apart by no more than the allowances.
LEMMA SumsBalance ==
  ASSUME NEW S, IsFiniteSet(S), NEW d, NEW d1, NEW c, NEW c1, NEW k, NEW x,
         \A m \in S : /\ d[m] \in Nat /\ d1[m] \in Nat /\ c[m] \in Nat /\ c1[m] \in Nat
                      /\ k[m] \in Nat /\ x[m] \in Nat
                      /\ d1[m] + c[m] <= d[m] + c1[m] + k[m] + x[m],
         SumOver(d, S) + SumOver(x, S) <= SumOver(c, S)
  PROVE  SumOver(d1, S) <= SumOver(c1, S) + SumOver(k, S)
<1> DEFINE left == [m \in S |-> d1[m] + c[m]]
           dc == [m \in S |-> d[m] + c1[m]]
           dck == [m \in S |-> dc[m] + k[m]]
           right == [m \in S |-> dck[m] + x[m]]
<1>1. \A m \in S : /\ left[m] = d1[m] + c[m] /\ dc[m] = d[m] + c1[m]
                   /\ dck[m] = dc[m] + k[m] /\ right[m] = dck[m] + x[m]
  OBVIOUS
<1> HIDE DEF left, dc, dck, right
<1>2. \A m \in S : /\ d[m] \in Int /\ d1[m] \in Int /\ c[m] \in Int /\ c1[m] \in Int
                   /\ k[m] \in Int /\ x[m] \in Int
                   /\ left[m] \in Int /\ dc[m] \in Int /\ dck[m] \in Int /\ right[m] \in Int
                   /\ left[m] <= right[m]
  BY <1>1
<1>3. SumOver(left, S) = SumOver(d1, S) + SumOver(c, S)
  BY <1>1, <1>2, SumsAdd
<1>4. SumOver(dc, S) = SumOver(d, S) + SumOver(c1, S)
  BY <1>1, <1>2, SumsAdd
<1>5. SumOver(dck, S) = SumOver(dc, S) + SumOver(k, S)
  BY <1>1, <1>2, SumsAdd
<1>6. SumOver(right, S) = SumOver(dck, S) + SumOver(x, S)
  BY <1>1, <1>2, SumsAdd
<1>7. SumOver(left, S) <= SumOver(right, S)
  BY <1>2, SumsCompare
<1>8. /\ SumOver(d, S) \in Int /\ SumOver(d1, S) \in Int /\ SumOver(c, S) \in Int
      /\ SumOver(c1, S) \in Int /\ SumOver(k, S) \in Int /\ SumOver(x, S) \in Int
  BY <1>2, SumType
<1> QED
  BY <1>3, <1>4, <1>5, <1>6, <1>7, <1>8

\* The sum of an entry and nothing else.
LEMMA SumOfOne ==
  ASSUME NEW S, IsFiniteSet(S), NEW g \in S, NEW n \in Nat
  PROVE  SumOver([m \in S |-> IF m = g THEN n ELSE 0], S) = n
<1> DEFINE z == [m \in S |-> 0]
           f == [m \in S |-> IF m = g THEN n ELSE 0]
<1>1. SumOver(z, S) = 0
  <2>1. \A m \in S : z[m] = 0
    OBVIOUS
  <2> HIDE DEF z
  <2> QED
    BY <2>1, SumOfZeros
<1>2. z \in [S -> Nat] /\ z[g] = 0 /\ f = [z EXCEPT ![g] = n]
  OBVIOUS
<1> HIDE DEF z, f
<1>3. SumOver([z EXCEPT ![g] = n], S) + z[g] = SumOver(z, S) + n
  BY <1>2, n \in Int, OneEntryOfSum
<1>4. SumOver(f, S) + 0 = n
  BY <1>1, <1>2, <1>3
<1>5. SumOver(f, S) \in Int
  <2>1. \A m \in S : f[m] \in Int
    BY DEF f
  <2> QED
    BY <2>1, SumType
<1> QED
  BY <1>4, <1>5 DEF f

\* Once a market was accrued its record is up to date.
UpToDate == \A m \in Markets : market[m].accrued = block => Accrued(m) = market[m]

LEMMA AlreadyAccrued == LendInv => UpToDate
<1> SUFFICES ASSUME LendInv, NEW m \in Markets, market[m].accrued = block
             PROVE  Accrued(m) = market[m]
  BY DEF UpToDate
<1>1. market[m] \in MarketRecord /\ DecimalOne \in Nat \ {0}
      /\ config[m].factor \in 0..DecimalOne
  BY InvFacts, DecimalAssumption, LendAssumption DEF LendTypeOK
<1>2. market[m].borrows \in Nat /\ market[m].reserves \in Nat /\ market[m].index \in Nat
  BY <1>1, MarketFields
<1>3. \A n \in Nat : Times(n, 0) = 0 /\ Product(n, 0) = 0 /\ Times(0, n) = 0
  BY <1>1, SMT DEF Times, Product
<1>4. InterestFactor(m) = 0
  BY DEF InterestFactor
<1>5. /\ Times(market[m].borrows, InterestFactor(m)) = 0
      /\ Product(market[m].index, InterestFactor(m)) = 0
      /\ Times(0, config[m].factor) = 0
  BY <1>1, <1>2, <1>3, <1>4
<1>6. Accrued(m) = [market[m] EXCEPT !.borrows = @ + 0, !.reserves = @ + 0,
                                     !.index = @ + 0, !.accrued = block]
  BY <1>5 DEF Accrued
<1>7. /\ market[m].borrows + 0 = market[m].borrows
      /\ market[m].reserves + 0 = market[m].reserves
      /\ market[m].index + 0 = market[m].index
  BY <1>2
<1>8. Accrued(m) = [market[m] EXCEPT !.borrows = market[m].borrows,
                       !.reserves = market[m].reserves, !.index = market[m].index,
                       !.accrued = market[m].accrued]
  BY <1>6, <1>7
<1> QED
  BY <1>1, <1>8 DEF MarketRecord

\* Only update_config changes what accrue_interest reads beside the market's totals,
\* and it accrues the interest first.
LEMMA ConfigCarried ==
  ASSUME LendInv, [LendNext]_lendVars, NEW k \in Markets
  PROVE  config'[k] = config[k] \/ BroughtUp(k)
<1>1. ASSUME NEW m \in Markets, NEW factor, NEW cap, UpdateConfig(m, factor, cap)
      PROVE  config'[k] = config[k] \/ BroughtUp(k)
  <2>1. /\ Accrues(m) /\ market' = [market EXCEPT ![m] = Accrued(m)]
        /\ config' = [config EXCEPT ![m] = [factor |-> factor, cap |-> cap]]
    BY <1>1 DEF UpdateConfig
  <2>2. market \in [Markets -> MarketRecord] /\ k \in DOMAIN config
    BY InvFacts DEF LendTypeOK
  <2>3. CASE k # m
    BY <2>1, <2>2, <2>3
  <2>4. CASE k = m
    <3>1. market'[m] = Accrued(m)
      BY <2>1, <2>2
    <3>2. Accrued(m).accrued = block
      BY <2>1, InvFacts, AccruedFacts
    <3> QED
      BY <2>1, <2>4, <3>1, <3>2 DEF BroughtUp
  <2> QED
    BY <2>3, <2>4
<1>2. CASE \E u \in Users, m \in Markets : \E amount \in Amounts[m] :
             \/ Deposit(m, u, amount) \/ RedeemToken(m, u, amount)
             \/ RedeemUnderlying(m, u, amount) \/ Borrow(m, u, amount)
             \/ \E other \in Users : \/ Repay(m, u, other, amount)
                                     \/ Transfer(m, u, other, amount)
                                     \/ \E c \in Markets : Liquidate(m, u, other, c, amount)
  <2>1. config' = config
    BY <1>2 DEF Deposit, RedeemToken, RedeemUnderlying, Redeem, Borrow, Repay, Transfer,
                Liquidate
  <2> QED
    BY <2>1
<1>3. CASE \/ \E u \in Users : \/ \E asked \in SUBSET Markets \ {{}} : Enter(u, asked)
                               \/ \E m \in Markets : Exit(u, m) \/ AccrueInterest(m, u)
           \/ \E m \in Markets : \/ Pause(m)
                                 \/ \E amount \in Amounts[m] : ReduceReserves(m, amount)
                                 \/ \E ratio \in LTVs[m] : ChangeMarket(m, ratio)
                                 \/ \E rate \in Prices[m] : SetPrice(m, rate)
           \/ NextBlock
           \/ UNCHANGED lendVars
  <2>1. config' = config
    BY <1>3 DEF Enter, Exit, AccrueInterest, Pause, ReduceReserves, ChangeMarket, SetPrice,
                NextBlock, lendVars, marketVars
  <2> QED
    BY <2>1
<1> QED
  BY <1>1, <1>2, <1>3 DEF LendNext

\* A rate with one token's worth gone is a rate, and not a higher one.
LEMMA LoweredFacts ==
  ASSUME LendInv, LendInv', NEW m \in Markets, Accrues(m), HasRate(cash[m], Accrued(m))
  PROVE  /\ ExchangeRate(cash[m], Accrued(m)) \in Nat
         /\ LoweredRate(m) \in Nat
         /\ LoweredRate(m) <= ExchangeRate(cash[m], Accrued(m))
<1> DEFINE rate == ExchangeRate(cash[m], Accrued(m))
           left == market'[m].supply
<1>1. rate \in Nat
  BY InvFacts, AccruedFacts, ExchangeRateType
<1>2. left \in Nat
  <2>1. market' \in [Markets -> MarketRecord]
    BY DEF LendInv, SupplyIsSum, LendTypeOK
  <2> QED
    BY <2>1, MarketFields
<1>3. LoweredRate(m) = IF left = 0 THEN rate ELSE (rate * (left - 1)) \div left
  BY DEF LoweredRate
<1> HIDE DEF rate, left
<1>4. CASE left = 0
  BY <1>1, <1>3, <1>4 DEF rate
<1>5. CASE left # 0
  <2>1. PICK fewer \in Nat : fewer = left - 1
    BY <1>2, <1>5
  <2>2. left \in Nat \ {0} /\ fewer <= left
    BY <1>2, <1>5, <2>1
  <2> DEFINE value == rate * fewer
             q == value \div left
  <2>3. value \in Nat /\ rate * left \in Nat /\ value <= rate * left
    BY <1>1, <1>2, <2>2, DecimalTypes, ProductGrows
  <2> HIDE DEF value
  <2>4. q \in Nat /\ q * left <= value /\ q * left \in Int
    BY <2>2, <2>3, QuotientBounds
  <2>5. LoweredRate(m) = q
    BY <1>3, <1>5, <2>1 DEF value
  <2> HIDE DEF q
  <2>6. q * left <= rate * left
    BY <2>3, <2>4
  <2>7. q <= rate
    BY <1>1, <2>2, <2>4, <2>6, ProductReflectsLe
  <2> QED
    BY <1>1, <2>4, <2>5, <2>7 DEF rate
<1> QED
  BY <1>4, <1>5

\* The index debts are read at is the one before the step, and no sl-token's rate falls
\* by more than its share of one token.
RateCarried(m) ==
  /\ (Accrued(m).index)' = Accrued(m).index
  /\ market[m].supply > 0 /\ market'[m].supply > 0
       => LoweredRate(m) <= ExchangeRate(cash[m], Accrued(m))'

LEMMA RatesCarried ==
  ASSUME LendInv, LendInv', [LendNext]_lendVars, block' = block,
         NEW m \in Markets, Accrues(m), HasRate(cash[m], Accrued(m))
  PROVE  RateCarried(m)
<1> DEFINE rate == ExchangeRate(cash[m], Accrued(m))
<1>1. rate \in Nat /\ LoweredRate(m) \in Nat /\ LoweredRate(m) <= rate
  BY LoweredFacts
<1>2. /\ Carried(m)
      /\ config'[m] = config[m] \/ BroughtUp(m)
  BY StepCarries, ConfigCarried
<1>3. market'[m].accrued = block => Accrued(m)' = market'[m]
  <2>1. LendInv' => UpToDate'
    BY AlreadyAccrued, PTL
  <2> QED
    BY <2>1 DEF UpToDate
<1>4. CASE Accrued(m)' = Accrued(m) /\ cash'[m] = cash[m]
  BY <1>1, <1>4 DEF RateCarried
<1>5. CASE market'[m] = market[m] /\ cash'[m] = cash[m] /\ config'[m] = config[m]
  <2>1. Accrued(m)' = Accrued(m)
    BY <1>5 DEF Accrued, InterestFactor
  <2> QED
    BY <1>4, <1>5, <2>1
<1>6. CASE market'[m] = market[m] /\ cash'[m] = cash[m] /\ BroughtUp(m)
  <2>1. market[m].accrued = block
    BY <1>6 DEF BroughtUp
  <2>2. Accrued(m) = market[m]
    BY <2>1, AlreadyAccrued DEF UpToDate
  <2> QED
    BY <1>3, <1>4, <1>6, <2>1, <2>2
<1>7. CASE BroughtUp(m) /\ KeepsWorth(m)
  <2>1. Accrued(m)' = market'[m]
    BY <1>3, <1>7 DEF BroughtUp
  <2>2. (Accrued(m).index)' = Accrued(m).index
    BY <1>7, <2>1 DEF BroughtUp
  <2>3. ASSUME market[m].supply > 0, market'[m].supply > 0
        PROVE  LoweredRate(m) <= ExchangeRate(cash[m], Accrued(m))'
    <3> DEFINE left == market'[m].supply
    <3>1. /\ left \in Nat \ {0} /\ DecimalOne \in Nat /\ Net(m)' \in Int
      <4>1. market' \in [Markets -> MarketRecord] /\ cash' \in [Markets -> Nat]
        BY DEF LendInv, SupplyIsSum, LendTypeOK
      <4>2. /\ market'[m].supply \in Nat /\ market'[m].borrows \in Nat
            /\ market'[m].reserves \in Nat /\ cash'[m] \in Nat
        BY <4>1, MarketFields
      <4> QED
        BY <2>3, <4>2, DecimalAssumption DEF Net
    <3>2. Net(m)' * DecimalOne >= rate * (left - 1)
      BY <1>7, <2>3 DEF KeepsWorth
    <3>3. ExchangeRate(cash[m], Accrued(m))' = (Net(m)' * DecimalOne) \div left
      BY <2>1, <3>1 DEF ExchangeRate, Ratio, Net
    <3>4. LoweredRate(m) = (rate * (left - 1)) \div left
      BY <3>1 DEF LoweredRate
    <3> HIDE DEF rate, left
    <3>5. PICK worth \in Int : worth = Net(m)'
      BY <3>1
    <3>6. rate * (left - 1) \in Int /\ worth * DecimalOne \in Int
      BY <1>1, <3>1, <3>5, SMT
    <3>7. rate * (left - 1) <= worth * DecimalOne
      BY <3>2, <3>5, <3>6
    <3>8. (rate * (left - 1)) \div left <= (worth * DecimalOne) \div left
      BY <3>1, <3>6, <3>7, QuotientGrows
    <3> QED
      BY <3>3, <3>4, <3>5, <3>8
  <2> QED
    BY <2>2, <2>3 DEF RateCarried
<1> QED
  BY <1>2, <1>5, <1>6, <1>7 DEF Carried

\* Conversions are amounts, and grow with the rate.
LEMMA ConversionGrows ==
  ASSUME LendInv, NEW m \in Markets, NEW low \in Nat, NEW high \in Nat, low <= high
  PROVE  /\ ConversionAt(m, low) \in Nat /\ ConversionAt(m, high) \in Nat
         /\ ConversionAt(m, low) <= ConversionAt(m, high)
<1>1. ltv[m] \in Nat /\ price[m] \in Nat
  <2>1. ltv[m] \in 0..DecimalOne /\ price[m] \in Nat /\ DecimalOne \in Nat
    BY InvFacts, DecimalAssumption DEF LendTypeOK
  <2> QED
    BY <2>1
<1> DEFINE l == Product(ltv[m], low)
           h == Product(ltv[m], high)
<1>2. l \in Nat /\ h \in Nat
  BY <1>1, DecimalTypes
<1>3. l <= h
  <2>1. low \in Int /\ high \in Int
    OBVIOUS
  <2> QED
    BY <1>1, <2>1, DecimalsGrow
<1>4. ConversionAt(m, low) = Product(l, price[m]) /\ ConversionAt(m, high) = Product(h, price[m])
  BY DEF ConversionAt
<1> HIDE DEF l, h
<1>5. Product(l, price[m]) \in Nat /\ Product(h, price[m]) \in Nat
  BY <1>1, <1>2, DecimalTypes
<1>6. Product(l, price[m]) <= Product(h, price[m])
  <2>1. l \in Int /\ h \in Int
    BY <1>2
  <2> QED
    BY <1>1, <1>3, <2>1, DecimalsGrow
<1> QED
  BY <1>4, <1>5, <1>6

\* A debt as it was just written reads as no more.
LEMMA FreshDebt ==
  ASSUME NEW p \in Nat, NEW s, s.principal = p, NEW index \in Nat \ {0},
         p = 0 \/ s.index = index
  PROVE  Owed(s, index) \in Nat /\ Owed(s, index) <= p
<1>1. CASE p = 0
  BY <1>1 DEF Owed
<1>2. CASE p # 0
  <2> DEFINE v == p * index
             t == v \div DecimalOne
             w == t * DecimalOne
             q == w \div index
  <2>1. DecimalOne \in Nat \ {0} /\ v \in Nat
    BY DecimalAssumption, DecimalTypes
  <2>2. Owed(s, index) = q
    BY <1>2 DEF Owed, Per, Times
  <2>3. p * index = v
    OBVIOUS
  <2> HIDE DEF v
  <2>4. v \in Int /\ v >= 0
    BY <2>1
  <2>5. t \in Nat /\ w \in Int /\ w <= v
    BY <2>1, <2>4, QuotientBounds
  <2>6. w \in Nat
    BY <2>1, <2>5, DecimalTypes
  <2> HIDE DEF t, w
  <2>7. w \in Int /\ w >= 0
    BY <2>6
  <2>8. q \in Nat /\ q * index \in Int /\ q * index <= w
    BY <2>7, QuotientBounds
  <2> HIDE DEF q
  <2>9. q * index <= p * index
    BY <2>1, <2>3, <2>5, <2>6, <2>8
  <2>10. q <= p
    BY <2>8, <2>9, p \in Int, ProductReflectsLe
  <2> QED
    BY <2>2, <2>8, <2>10
<1> QED
  BY <1>1, <1>2

\* What u owes in a market that can be valued, and what u's sl-tokens there count
\* for, are amounts; where there are no sl-tokens u has none.
AmountsIn(m, u) ==
  /\ slToken[m][u] \in Nat /\ market[m].supply \in Nat
  /\ market[m].supply = 0 => slToken[m][u] = 0
  /\ Accrues(m) => /\ Debt(m, u) \in Nat /\ DebtIn(m, u) \in Nat
                   /\ Accrued(m).supply = market[m].supply
                   /\ DustValue(m) \in Nat
  /\ Accrues(m) /\ HasRate(cash[m], Accrued(m))
       => /\ ExchangeRate(cash[m], Accrued(m)) \in Nat
          /\ Conversion(m, cash) \in Nat /\ CollateralIn(m, u, cash) \in Nat

AllAmounts == \A m \in Markets, u \in Users : AmountsIn(m, u)

LEMMA AmountsCounted == LendInv => AllAmounts
<1> SUFFICES ASSUME LendInv, NEW m \in Markets, NEW u \in Users
             PROVE  AmountsIn(m, u)
  BY DEF AllAmounts
<1>1. /\ slToken[m] \in [Users -> Nat] /\ slToken[m][u] \in Nat
      /\ market[m] \in MarketRecord /\ market[m].supply \in Nat
      /\ price[m] \in Nat /\ DecimalOne \in Nat \ {0}
  BY InvFacts, MarketFields, DecimalAssumption DEF LendTypeOK
<1>2. slToken[m][u] <= market[m].supply
  BY OneBalance
<1>3. ASSUME Accrues(m)
      PROVE  /\ Debt(m, u) \in Nat /\ DebtIn(m, u) \in Nat
             /\ Accrued(m).supply = market[m].supply
             /\ DustValue(m) \in Nat
  <2>1. /\ Accrued(m) \in MarketRecord /\ Accrued(m).supply = market[m].supply
        /\ Accrued(m).index \in Nat
    BY <1>3, InvFacts, AccruedFacts, MarketFields
  <2>2. Debt(m, u) \in Nat
    BY <1>3, 0 \in Nat, ResnapshotFacts
  <2>3. Accrued(m).index \div DecimalOne \in Nat
    BY <1>1, <2>1, QuotientBounds
  <2> QED
    BY <1>1, <2>1, <2>2, <2>3, DecimalTypes DEF DebtIn, DustValue
<1>4. ASSUME Accrues(m), HasRate(cash[m], Accrued(m))
      PROVE  /\ ExchangeRate(cash[m], Accrued(m)) \in Nat
             /\ Conversion(m, cash) \in Nat /\ CollateralIn(m, u, cash) \in Nat
  <2>1. ExchangeRate(cash[m], Accrued(m)) \in Nat
    BY <1>4, InvFacts, AccruedFacts, ExchangeRateType
  <2>2. Conversion(m, cash) \in Nat
    BY <2>1, ConversionGrows DEF Conversion
  <2> QED
    BY <1>1, <2>1, <2>2, DecimalTypes DEF CollateralIn
<1>5. market[m].supply = 0 => slToken[m][u] = 0
  BY <1>1, <1>2
<1> QED
  BY <1>1, <1>3, <1>4, <1>5 DEF AmountsIn

\* What a step may do to u's account in a market: take `given` sl-tokens away, and add
\* `lent` to what u owes.
AccountMoves(m, u, given, lent) ==
  /\ slToken[m][u] <= slToken'[m][u] + given
  /\ Debt(m, u)' <= Debt(m, u) + lent

Allowance(m, u) == 1 + DustValue(m) + TokenShare(m, u)

\* It moves u's debts against u's collateral by what that costs, as the overseer reckons
\* it beforehand, and an allowance.
LEMMA AccountCarried ==
  ASSUME LendInv, LendInv', [LendNext]_lendVars, UNCHANGED <<block, price, ltv>>,
         NEW m \in Markets, NEW u \in Users,
         Accrues(m), HasRate(cash[m], Accrued(m)),
         Accrues(m)', HasRate(cash[m], Accrued(m))',
         NEW given \in Nat, NEW lent \in Nat, given = 0 \/ lent = 0,
         AccountMoves(m, u, given, lent)
  PROVE  /\ Allowance(m, u) \in Nat /\ CostIn(m, given, lent, cash) \in Nat
         /\ given = 0 /\ lent = 0 => CostIn(m, given, lent, cash) = 0
         /\ DebtIn(m, u)' + CollateralIn(m, u, cash)
              <= DebtIn(m, u) + CollateralIn(m, u, cash)' + Allowance(m, u)
                   + CostIn(m, given, lent, cash)
<1>1. AmountsIn(m, u) /\ AmountsIn(m, u)'
  <2>1. LendInv' => AllAmounts'
    BY AmountsCounted, PTL
  <2> QED
    BY <2>1, AmountsCounted DEF AllAmounts
<1> DEFINE rate == ExchangeRate(cash[m], Accrued(m))
           after == ExchangeRate(cash[m], Accrued(m))'
           t == slToken[m][u]
           t1 == slToken'[m][u]
           conv == ConversionAt(m, rate)
           low == ConversionAt(m, LoweredRate(m))
           held == ConversionAt(m, after)
           p == price[m]
<1>2. /\ rate \in Nat /\ LoweredRate(m) \in Nat /\ LoweredRate(m) <= rate
      /\ RateCarried(m)
  BY LoweredFacts, RatesCarried
<1>3. /\ t \in Nat /\ t1 \in Nat /\ after \in Nat
      /\ market[m].supply \in Nat /\ market'[m].supply \in Nat
      /\ market[m].supply = 0 => t = 0
      /\ market'[m].supply = 0 => t1 = 0
      /\ t <= t1 + given
  BY <1>1 DEF AmountsIn, AccountMoves
<1>4. conv \in Nat /\ low \in Nat /\ low <= conv
  BY <1>2, ConversionGrows
<1>5. held \in Nat
  BY <1>3, ConversionGrows
<1>6. t = 0 \/ t1 = 0 \/ low <= held
  <2>1. ASSUME market[m].supply # 0, market'[m].supply # 0
        PROVE  low <= held
    <3>1. market[m].supply > 0 /\ market'[m].supply > 0
      BY <1>3, <2>1
    <3>2. LoweredRate(m) <= after
      BY <1>2, <3>1 DEF RateCarried
    <3> QED
      BY <1>2, <1>3, <3>2, ConversionGrows
  <2> QED
    BY <1>3, <2>1
<1>7. /\ CollateralIn(m, u, cash) = Times(t, conv)
      /\ CollateralIn(m, u, cash)' = Times(t1, held)
      /\ TokenShare(m, u) = Times(t1, conv) - Times(t1, low)
      /\ CostIn(m, given, lent, cash) = Times(given, conv) + Times(lent, p)
      /\ DebtIn(m, u) = Times(Debt(m, u), p)
      /\ DebtIn(m, u)' = Times(Debt(m, u)', p)
  BY DEF CollateralIn, TokenShare, CostIn, DebtIn, Conversion, ConversionAt
<1> HIDE DEF rate, after, t, t1, conv, low, held
<1>8. /\ Times(t, conv) \in Nat /\ Times(t1, low) \in Nat
      /\ Times(t1, held) \in Nat /\ Times(t1, conv) \in Nat /\ Times(given, conv) \in Nat
      /\ Times(t1, low) <= Times(t1, conv)
      /\ given = 0 => Times(given, conv) = 0
      /\ Times(t, conv) + Times(t1, low)
           <= Times(t1, held) + Times(t1, conv) + Times(given, conv)
                + (IF given = 0 THEN 0 ELSE 1)
  <2>1. /\ t \in Nat /\ t1 \in Nat /\ given \in Nat
        /\ conv \in Nat /\ low \in Nat /\ held \in Nat
    BY <1>3, <1>4, <1>5
  <2>2. t <= t1 + given
    BY <1>3
  <2>3. low <= conv
    BY <1>4
  <2> QED
    BY ONLY <2>1, <2>2, <2>3, <1>6, CollateralFalls
<1>9. PICK d \in Nat, d1 \in Nat : d = Debt(m, u) /\ d1 = Debt(m, u)' /\ d1 <= d + lent
  BY <1>1 DEF AmountsIn, AccountMoves
<1>10. p \in Nat
  BY InvFacts DEF LendTypeOK
<1> HIDE DEF p
<1>11. /\ Times(d1, p) \in Nat /\ Times(d, p) \in Nat /\ Times(lent, p) \in Nat
       /\ Times(d1, p) <= Times(d, p) + Times(lent, p) + (IF lent = 0 THEN 0 ELSE 1)
       /\ lent = 0 => Times(lent, p) = 0
  BY <1>9, <1>10, AmountCounts
<1>12. PICK dust \in Nat : dust = DustValue(m)
  BY <1>1 DEF AmountsIn
<1>13. DebtIn(m, u) = Times(d, p) /\ DebtIn(m, u)' = Times(d1, p)
  BY <1>7, <1>9
<1>14. Allowance(m, u) = 1 + dust + (Times(t1, conv) - Times(t1, low))
  BY <1>7, <1>12 DEF Allowance
<1>15. Allowance(m, u) \in Nat
  BY <1>8, <1>12, <1>14
<1>16. /\ CostIn(m, given, lent, cash) \in Nat
       /\ given = 0 /\ lent = 0 => CostIn(m, given, lent, cash) = 0
  BY <1>7, <1>8, <1>11
<1>17. Times(d1, p) + Times(t, conv)
         <= Times(d, p) + Times(t1, held) + Allowance(m, u) + (Times(given, conv) + Times(lent, p))
  BY <1>8, <1>11, <1>12, <1>14
<1> QED
  BY <1>7, <1>13, <1>15, <1>16, <1>17

\* The account moves in market g only, where the overseer has counted the cost if u
\* entered that market.
MovesWithin(u, g, given, lent) ==
  \A m \in entered[u] :
    AccountMoves(m, u, IF m = g THEN given ELSE 0, IF m = g THEN lent ELSE 0)

CoversCost(u, g, given, lent) ==
  Debts(u) + (IF g \in entered[u] THEN CostIn(g, given, lent, cash) ELSE 0)
    <= Collateral(u, cash)

CoveredAfter(u) == Debts(u)' <= Collateral(u, cash)' + RoundingOf(u)

\* Whose account moves by no more than what the overseer has counted stays covered.
LEMMA CoverCarried ==
  ASSUME LendInv, LendInv', [LendNext]_lendVars, UNCHANGED <<block, price, ltv>>,
         NEW u \in Users, Valued(u), Valued(u)', entered'[u] = entered[u],
         NEW g, NEW given \in Nat, NEW lent \in Nat, given = 0 \/ lent = 0,
         MovesWithin(u, g, given, lent), CoversCost(u, g, given, lent)
  PROVE  CoveredAfter(u)
<1> DEFINE E == entered[u]
           d == [m \in E |-> DebtIn(m, u)]
           d1 == [m \in E |-> DebtIn(m, u)']
           c == [m \in E |-> CollateralIn(m, u, cash)]
           c1 == [m \in E |-> CollateralIn(m, u, cash)']
           k == [m \in E |-> Allowance(m, u)]
           n == IF g \in E THEN CostIn(g, given, lent, cash) ELSE 0
           x == [m \in E |-> IF m = g THEN n ELSE 0]
<1>1. E \in SUBSET Markets /\ IsFiniteSet(E)
  BY InvFacts, AreFinite DEF LendTypeOK
<1>2. ASSUME NEW m \in E
      PROVE  /\ m \in Markets /\ AmountsIn(m, u) /\ AmountsIn(m, u)'
             /\ Accrues(m) /\ HasRate(cash[m], Accrued(m))
             /\ Accrues(m)' /\ HasRate(cash[m], Accrued(m))'
  <2>1. LendInv' => AllAmounts'
    BY AmountsCounted, PTL
  <2>2. m \in Markets
    BY <1>1
  <2>3. Accrues(m) /\ HasRate(cash[m], Accrued(m))
    BY DEF Valued
  <2>4. Accrues(m)' /\ HasRate(cash[m], Accrued(m))'
    BY DEF Valued
  <2> QED
    BY <2>1, <2>2, <2>3, <2>4, AmountsCounted DEF AllAmounts
<1>3. ASSUME NEW m \in E
      PROVE  /\ d[m] \in Nat /\ d1[m] \in Nat /\ c[m] \in Nat /\ c1[m] \in Nat
             /\ k[m] \in Nat /\ x[m] \in Nat
             /\ d1[m] + c[m] <= d[m] + c1[m] + k[m] + x[m]
  <2>1. /\ d[m] = DebtIn(m, u) /\ d1[m] = DebtIn(m, u)'
        /\ c[m] = CollateralIn(m, u, cash) /\ c1[m] = CollateralIn(m, u, cash)'
        /\ k[m] = Allowance(m, u) /\ x[m] = IF m = g THEN n ELSE 0
    OBVIOUS
  <2>2. /\ DebtIn(m, u) \in Nat /\ CollateralIn(m, u, cash) \in Nat
        /\ DebtIn(m, u)' \in Nat /\ CollateralIn(m, u, cash)' \in Nat
    BY <1>2 DEF AmountsIn
  <2> HIDE DEF d, d1, c, c1, k, x
  <2>3. CASE m = g
    <3>1. AccountMoves(m, u, given, lent)
      BY <2>3 DEF MovesWithin
    <3>2. /\ Allowance(m, u) \in Nat /\ CostIn(m, given, lent, cash) \in Nat
          /\ DebtIn(m, u)' + CollateralIn(m, u, cash)
               <= DebtIn(m, u) + CollateralIn(m, u, cash)' + Allowance(m, u)
                    + CostIn(m, given, lent, cash)
      BY <1>2, <3>1, AccountCarried
    <3>3. n = CostIn(m, given, lent, cash)
      BY <2>3
    <3> HIDE DEF n
    <3> QED
      BY <2>1, <2>2, <2>3, <3>2, <3>3
  <2>4. CASE m # g
    <3>1. AccountMoves(m, u, 0, 0)
      BY <2>4 DEF MovesWithin
    <3>2. /\ Allowance(m, u) \in Nat /\ CostIn(m, 0, 0, cash) = 0
          /\ DebtIn(m, u)' + CollateralIn(m, u, cash)
               <= DebtIn(m, u) + CollateralIn(m, u, cash)' + Allowance(m, u)
                    + CostIn(m, 0, 0, cash)
      BY <1>2, <3>1, 0 \in Nat, AccountCarried
    <3> HIDE DEF n
    <3> QED
      BY <2>1, <2>2, <2>4, <3>2
  <2> QED
    BY <2>3, <2>4
<1>4. n \in Nat
  BY <1>3
<1>5. SumOver(x, E) = n
  <2>1. CASE g \in E
    BY <1>1, <1>4, <2>1, SumOfOne
  <2>2. CASE g \notin E
    <3>1. \A m \in E : x[m] = 0
      BY <2>2
    <3>2. n = 0
      BY <2>2
    <3> HIDE DEF x, n
    <3> QED
      BY <1>1, <3>1, <3>2, SumOfZeros
  <2> QED
    BY <2>1, <2>2
<1>6. SumOver(d, E) + n <= SumOver(c, E)
  BY DEF CoversCost, Debts, Collateral
<1>7. /\ Debts(u)' = SumOver(d1, E) /\ Collateral(u, cash)' = SumOver(c1, E)
      /\ RoundingOf(u) = SumOver(k, E)
  BY DEF Debts, Collateral, RoundingOf, Allowance
<1> HIDE DEF E, d, d1, c, c1, k, x, n
<1>8. SumOver(d, E) + SumOver(x, E) <= SumOver(c, E)
  BY <1>5, <1>6
<1>9. SumOver(d1, E) <= SumOver(c1, E) + SumOver(k, E)
  BY <1>1, <1>3, <1>8, SumsBalance
<1> QED
  BY <1>7, <1>9 DEF CoveredAfter

\* An account that can be valued is one of amounts, and so is what a step costs.
LEMMA AccountTypes ==
  ASSUME LendInv, NEW u \in Users, Valued(u), NEW g, NEW given \in Nat, NEW lent \in Nat
  PROVE  /\ Debts(u) \in Nat /\ Collateral(u, cash) \in Nat
         /\ g \in entered[u] => /\ CostIn(g, given, lent, cash) \in Nat
                                /\ CostIn(g, 0, 0, cash) = 0
<1> DEFINE E == entered[u]
           d == [m \in E |-> DebtIn(m, u)]
           c == [m \in E |-> CollateralIn(m, u, cash)]
<1>1. E \in SUBSET Markets /\ IsFiniteSet(E)
  BY InvFacts, AreFinite DEF LendTypeOK
<1>2. ASSUME NEW m \in E
      PROVE  DebtIn(m, u) \in Nat /\ CollateralIn(m, u, cash) \in Nat
             /\ Conversion(m, cash) \in Nat /\ price[m] \in Nat
  <2>1. m \in Markets /\ Accrues(m) /\ HasRate(cash[m], Accrued(m)) /\ AmountsIn(m, u)
    BY <1>1, AmountsCounted DEF Valued, AllAmounts
  <2>2. price[m] \in Nat
    BY <2>1, InvFacts DEF LendTypeOK
  <2> QED
    BY <2>1, <2>2 DEF AmountsIn
<1>3. Debts(u) = SumOver(d, E) /\ Collateral(u, cash) = SumOver(c, E)
  BY DEF Debts, Collateral
<1>4. \A m \in E : d[m] \in Int /\ d[m] >= 0 /\ c[m] \in Int /\ c[m] >= 0
  BY <1>2
<1>5. ASSUME g \in E
      PROVE  CostIn(g, given, lent, cash) \in Nat /\ CostIn(g, 0, 0, cash) = 0
  <2>1. Conversion(g, cash) \in Nat /\ price[g] \in Nat
    BY <1>2, <1>5
  <2>2. Times(given, Conversion(g, cash)) \in Nat /\ Times(lent, price[g]) \in Nat
    BY <2>1, DecimalTypes
  <2>3. Times(0, Conversion(g, cash)) = 0 /\ Times(0, price[g]) = 0
    BY <2>1, NothingTimes
  <2> QED
    BY <2>2, <2>3 DEF CostIn
<1> HIDE DEF E, d, c
<1>6. SumOver(d, E) \in Nat /\ SumOver(c, E) \in Nat
  BY <1>1, <1>4, SumType
<1> QED
  BY <1>3, <1>5, <1>6 DEF E

\* What the overseer answers is that the cost is covered.
LEMMA AskedIsCovered ==
  ASSUME LendInv, NEW u \in Users, NEW g, NEW given \in Nat, NEW lent \in Nat,
         StaysCovered(u, g, given, lent)
  PROVE  CoversCost(u, g, given, lent)
<1>1. Valued(u) /\ g \in entered[u]
  BY DEF StaysCovered, LiquidityDefined, Valued
<1>2. PICK d \in Nat, c \in Nat, n \in Nat :
        d = Debts(u) /\ c = Collateral(u, cash) /\ n = CostIn(g, given, lent, cash)
  BY <1>1, AccountTypes
<1>3. MinusOrZero(d + n, c) = 0
  BY <1>2 DEF StaysCovered, Shortfall
<1>4. d + n <= c
  BY <1>2, <1>3 DEF MinusOrZero
<1> QED
  BY <1>1, <1>2, <1>4 DEF CoversCost

\* u is covered before the step, and can be valued on both sides of it.
Stands(u) == Valued(u) /\ Valued(u)' /\ ~Underwater(u)

\* A step that costs u nothing is covered.
LEMMA CostsNothing ==
  ASSUME LendInv, NEW u \in Users, Stands(u), NEW g
  PROVE  CoversCost(u, g, 0, 0)
<1>1. PICK d \in Nat, c \in Nat : d = Debts(u) /\ c = Collateral(u, cash)
  BY 0 \in Nat, AccountTypes DEF Stands
<1>2. ~(d > c)
  BY <1>1 DEF Stands, Underwater
<1>3. d + 0 <= c
  BY <1>1, <1>2
<1>4. (IF g \in entered[u] THEN CostIn(g, 0, 0, cash) ELSE 0) = 0
  BY 0 \in Nat, AccountTypes DEF Stands
<1> QED
  BY <1>1, <1>3, <1>4 DEF CoversCost

\* A debt whose snapshot a step leaves alone reads the same.
LEMMA DebtUntouched ==
  ASSUME NEW m, NEW u, RateCarried(m),
         SnapshotOf(book[m], u)' = SnapshotOf(book[m], u)
  PROVE  Debt(m, u)' = Debt(m, u)
BY DEF Debt, RateCarried

\* A debt a step writes reads as no more than was written, and the others the same.
DebtBecomes(k, u, m, v, owed) ==
  /\ k = m /\ u = v => Debt(k, u)' <= owed
  /\ ~(k = m /\ u = v) => Debt(k, u)' = Debt(k, u)

LEMMA DebtRewritten ==
  ASSUME LendInv, NEW m \in Markets, Accrues(m), NEW v \in Users, NEW owed \in Nat,
         book' = [book EXCEPT ![m] = Resnapshot(m, v, owed)],
         NEW k \in Markets, NEW u \in Users, RateCarried(k)
  PROVE  DebtBecomes(k, u, m, v, owed)
<1>1. book \in [Markets -> Book]
  BY InvFacts DEF LendTypeOK
<1>2. book'[k] = IF k = m THEN Resnapshot(m, v, owed) ELSE book[k]
  BY <1>1
<1>3. SnapshotOf(book[k], u)' = SnapshotOf(book'[k], u)
  BY DEF SnapshotOf
<1>4. ASSUME ~(k = m /\ u = v) PROVE Debt(k, u)' = Debt(k, u)
  <2>1. SnapshotOf(book'[k], u) = SnapshotOf(book[k], u)
    BY <1>2, <1>4, ResnapshotFacts
  <2> QED
    BY <1>3, <2>1, DebtUntouched
<1>5. ASSUME k = m, u = v PROVE Debt(k, u)' <= owed
  <2> DEFINE s == SnapshotOf(book'[k], u)
             index == Accrued(m).index
  <2>1. s.principal = owed /\ (owed = 0 \/ s.index = index)
    BY <1>2, <1>5, ResnapshotFacts
  <2>2. index \in Nat \ {0}
    <3>1. /\ Accrued(m) \in MarketRecord /\ market[m] \in MarketRecord
          /\ Accrued(m).index >= market[m].index /\ DecimalOne <= market[m].index
          /\ DecimalOne \in Nat \ {0}
      BY InvFacts, AccruedFacts, DecimalAssumption DEF IndicesReached
    <3> QED
      BY <3>1, MarketFields
  <2>3. Debt(k, u)' = Owed(s, index)
    BY <1>3, <1>5 DEF Debt, RateCarried
  <2> HIDE DEF s, index
  <2> QED
    BY <2>1, <2>2, <2>3, FreshDebt
<1> QED
  BY <1>4, <1>5 DEF DebtBecomes

\* What is known of each market of an account.
LEMMA MarketStands ==
  ASSUME LendInv, LendInv', [LendNext]_lendVars, block' = block,
         NEW u \in Users, Stands(u), entered'[u] = entered[u], NEW m \in entered[u]
  PROVE  /\ m \in Markets /\ RateCarried(m)
         /\ Debt(m, u) \in Nat /\ Debt(m, u)' \in Nat
         /\ slToken[m][u] \in Nat
<1>1. m \in Markets
  BY InvFacts DEF LendTypeOK
<1>2. Accrues(m) /\ HasRate(cash[m], Accrued(m)) /\ Accrues(m)'
  BY DEF Stands, Valued
<1>3. AmountsIn(m, u) /\ AmountsIn(m, u)'
  <2>1. LendInv' => AllAmounts'
    BY AmountsCounted, PTL
  <2> QED
    BY <1>1, <2>1, AmountsCounted DEF AllAmounts
<1>4. RateCarried(m)
  BY <1>1, <1>2, RatesCarried
<1> QED
  BY <1>1, <1>2, <1>3, <1>4 DEF AmountsIn

\* u's snapshots stay; u's sl-tokens stay but for `given` of them in market g.
DebtsStand(u) == \A m \in Markets : SnapshotOf(book[m], u)' = SnapshotOf(book[m], u)

TokensKept(u, g, given) ==
  \A m \in Markets :
    slToken[m][u] <= slToken'[m][u] + (IF m = g THEN given ELSE 0)

\* Giving up sl-tokens with the overseer's leave.
LEMMA GivenCovered ==
  ASSUME LendInv, LendInv', [LendNext]_lendVars, UNCHANGED <<block, price, ltv>>,
         NEW u \in Users, Stands(u), entered'[u] = entered[u],
         NEW g, NEW given \in Nat, given = 0 \/ CanTransfer(u, g, given),
         DebtsStand(u), TokensKept(u, g, given)
  PROVE  CoveredAfter(u)
<1>1. MovesWithin(u, g, given, 0)
  <2> SUFFICES ASSUME NEW m \in entered[u]
               PROVE  AccountMoves(m, u, IF m = g THEN given ELSE 0,
                                         IF m = g THEN 0 ELSE 0)
    BY DEF MovesWithin
  <2>1. /\ m \in Markets /\ RateCarried(m) /\ Debt(m, u) \in Nat
    BY MarketStands
  <2>2. Debt(m, u)' = Debt(m, u)
    BY <2>1, DebtUntouched DEF DebtsStand
  <2>3. Debt(m, u)' <= Debt(m, u) + (IF m = g THEN 0 ELSE 0)
    BY <2>1, <2>2
  <2>4. slToken[m][u] <= slToken'[m][u] + (IF m = g THEN given ELSE 0)
    BY <2>1 DEF TokensKept
  <2> QED
    BY <2>3, <2>4 DEF AccountMoves
<1>2. CoversCost(u, g, given, 0)
  <2>1. CASE given = 0
    BY <2>1, CostsNothing
  <2>2. CASE g \notin entered[u]
    <3>1. CoversCost(u, g, 0, 0)
      BY CostsNothing
    <3> QED
      BY <2>2, <3>1 DEF CoversCost
  <2>3. CASE g \in entered[u] /\ given # 0
    <3>1. StaysCovered(u, g, given, 0)
      BY <2>3 DEF CanTransfer
    <3> QED
      BY <3>1, 0 \in Nat, AskedIsCovered
  <2> QED
    BY <2>1, <2>2, <2>3
<1> QED
  BY <1>1, <1>2, 0 \in Nat, CoverCarried DEF Stands

LEMMA CoveredByDeposit ==
  ASSUME LendInv, LendInv', [LendNext]_lendVars, UNCHANGED <<block, price, ltv>>,
         NEW u \in Users, Stands(u),
         NEW g \in Markets, NEW v \in Users, NEW amount \in Amounts[g],
         Deposit(g, v, amount)
  PROVE  CoveredAfter(u)
<1> DEFINE minted == Minted(g, amount)
<1>1. /\ entered'[u] = entered[u] /\ DebtsStand(u)
      /\ slToken' = [slToken EXCEPT ![g][v] = slToken[g][v] + minted]
  <2>1. book' = book /\ entered' = entered
    BY DEF Deposit, overseerVars
  <2> QED
    BY <2>1 DEF Deposit, DebtsStand, SnapshotOf
<1>2. minted \in Nat
  <2>1. /\ amount \in Nat /\ Accrues(g) /\ HasRate(cash[g], Accrued(g))
        /\ ExchangeRate(cash[g], Accrued(g)) > 0
    BY AmountTypes DEF Deposit
  <2>2. ExchangeRate(cash[g], Accrued(g)) \in Nat
    BY <2>1, InvFacts, AccruedFacts, ExchangeRateType
  <2> QED
    BY <2>1, <2>2, DecimalTypes DEF Minted
<1> HIDE DEF minted
<1>3. TokensKept(u, g, 0)
  <2> SUFFICES ASSUME NEW k \in Markets
               PROVE  slToken[k][u] <= slToken'[k][u] + (IF k = g THEN 0 ELSE 0)
    BY DEF TokensKept
  <2>1. slToken[k][u] \in Nat
    BY InvFacts
  <2> DEFINE n == slToken[g][v] + minted
  <2>2. slToken'[k][u] = IF k = g /\ u = v THEN n ELSE slToken[k][u]
    <3>1. slToken' = [slToken EXCEPT ![g][v] = n]
      BY <1>1
    <3> HIDE DEF n
    <3>2. slToken \in [Markets -> [Users -> Nat]]
      BY InvFacts DEF LendTypeOK
    <3> QED
      BY <3>1, <3>2
  <2> QED
    BY <1>2, <2>1, <2>2
<1> QED
  BY <1>1, <1>3, 0 \in Nat, GivenCovered

\* A redemption of v's leaves u alone, and asked the overseer if v is u.
LEMMA CoveredByRedeem ==
  ASSUME LendInv, LendInv', [LendNext]_lendVars, UNCHANGED <<block, price, ltv>>,
         NEW u \in Users, Stands(u),
         NEW g \in Markets, NEW v \in Users, NEW burnt \in Nat, NEW received,
         Redeem(g, v, burnt, received)
  PROVE  CoveredAfter(u)
<1>1. /\ entered'[u] = entered[u] /\ DebtsStand(u)
      /\ slToken' = [slToken EXCEPT ![g][v] = slToken[g][v] - burnt]
      /\ CanTransfer(v, g, burnt)
  <2>1. book' = book /\ entered' = entered
    BY DEF Redeem, overseerVars
  <2> QED
    BY <2>1 DEF Redeem, DebtsStand, SnapshotOf
<1> DEFINE given == IF u = v THEN burnt ELSE 0
<1>2. given \in Nat /\ (given = 0 \/ CanTransfer(u, g, given))
  BY <1>1
<1>3. TokensKept(u, g, given)
  <2> SUFFICES ASSUME NEW k \in Markets
               PROVE  slToken[k][u] <= slToken'[k][u] + (IF k = g THEN given ELSE 0)
    BY DEF TokensKept
  <2>1. slToken[k][u] \in Nat
    BY InvFacts
  <2> DEFINE n == slToken[g][v] - burnt
  <2>2. slToken'[k][u] = IF k = g /\ u = v THEN n ELSE slToken[k][u]
    <3>1. slToken' = [slToken EXCEPT ![g][v] = n]
      BY <1>1
    <3> HIDE DEF n
    <3>2. slToken \in [Markets -> [Users -> Nat]]
      BY InvFacts DEF LendTypeOK
    <3> QED
      BY <3>1, <3>2
  <2> QED
    BY <2>1, <2>2
<1> HIDE DEF given
<1> QED
  BY <1>1, <1>2, <1>3, GivenCovered

LEMMA CoveredByTransfer ==
  ASSUME LendInv, LendInv', [LendNext]_lendVars, UNCHANGED <<block, price, ltv>>,
         NEW u \in Users, Stands(u),
         NEW g \in Markets, NEW v \in Users, NEW to \in Users, NEW amount \in Amounts[g],
         Transfer(g, v, to, amount)
  PROVE  CoveredAfter(u)
<1>1. /\ entered'[u] = entered[u] /\ DebtsStand(u)
      /\ slToken' = [slToken EXCEPT ![g] = Moved(@, v, to, amount)]
      /\ CanTransfer(v, g, amount) /\ amount \in Nat
  <2>1. book' = book /\ entered' = entered
    BY DEF Transfer, overseerVars
  <2> QED
    BY <2>1, AmountTypes DEF Transfer, DebtsStand, SnapshotOf
<1> DEFINE given == IF u = v THEN amount ELSE 0
<1>2. given \in Nat /\ (given = 0 \/ CanTransfer(u, g, given))
  BY <1>1
<1>3. TokensKept(u, g, given)
  <2> SUFFICES ASSUME NEW k \in Markets
               PROVE  slToken[k][u] <= slToken'[k][u] + (IF k = g THEN given ELSE 0)
    BY DEF TokensKept
  <2>1. /\ slToken \in [Markets -> [Users -> Nat]]
        /\ slToken[g] \in [Users -> Nat] /\ slToken[k][u] \in Nat
    BY InvFacts DEF LendTypeOK
  <2>2. CASE k # g
    <3>1. slToken'[k][u] = slToken[k][u]
      BY <1>1, <2>1, <2>2
    <3> QED
      BY <2>1, <2>2, <3>1
  <2>3. CASE k = g
    <3> DEFINE less == [slToken[g] EXCEPT ![v] = @ - amount]
    <3>1. slToken'[g] = [less EXCEPT ![to] = @ + amount]
      BY <1>1, <2>1 DEF Moved
    <3>2. less \in [Users -> Int] /\ less[u] = slToken[g][u] - given
      BY <1>1, <2>1
    <3> HIDE DEF less, given
    <3>3. slToken'[g][u] = less[u] \/ slToken'[g][u] = less[u] + amount
      BY <3>1, <3>2
    <3>4. PICK x \in Int : x = less[u]
      BY <3>2
    <3> QED
      BY <1>1, <1>2, <2>1, <2>3, <3>2, <3>3, <3>4
  <2> QED
    BY <2>2, <2>3
<1> HIDE DEF given
<1> QED
  BY <1>1, <1>2, <1>3, GivenCovered

\* v's loan leaves u alone, and asked the overseer if v is u.
LEMMA CoveredByBorrow ==
  ASSUME LendInv, LendInv', [LendNext]_lendVars, UNCHANGED <<block, price, ltv>>,
         NEW u \in Users, Stands(u),
         NEW g \in Markets, NEW v \in Users, NEW amount \in Amounts[g],
         Borrow(g, v, amount)
  PROVE  CoveredAfter(u)
<1> DEFINE lent == IF u = v THEN amount ELSE 0
           owed == Debt(g, v) + amount
<1>1. /\ entered'[u] = entered[u] /\ slToken' = slToken /\ Accrues(g)
      /\ book' = [book EXCEPT ![g] = Resnapshot(g, v, owed)]
      /\ StaysCovered(v, g, 0, amount)
  BY DEF Borrow, overseerVars
<1>2. amount \in Nat /\ lent \in Nat /\ Debt(g, v) \in Nat /\ owed \in Nat
  <2>1. Debt(g, v) \in Nat
    BY <1>1, 0 \in Nat, ResnapshotFacts
  <2> QED
    BY <2>1, AmountTypes
<1>3. CoversCost(u, g, 0, lent)
  <2>1. CASE u = v
    <3>1. CoversCost(v, g, 0, amount)
      BY <1>1, <1>2, 0 \in Nat, AskedIsCovered
    <3> QED
      BY <2>1, <3>1
  <2>2. CASE u # v
    BY <2>2, CostsNothing
  <2> QED
    BY <2>1, <2>2
<1>4. MovesWithin(u, g, 0, lent)
  <2> SUFFICES ASSUME NEW m \in entered[u]
               PROVE  AccountMoves(m, u, IF m = g THEN 0 ELSE 0,
                                         IF m = g THEN lent ELSE 0)
    BY DEF MovesWithin
  <2>1. /\ m \in Markets /\ RateCarried(m) /\ Debt(m, u) \in Nat /\ Debt(m, u)' \in Nat
        /\ slToken[m][u] \in Nat
    BY <1>1, MarketStands
  <2> HIDE DEF owed
  <2>2. /\ m = g /\ u = v => Debt(m, u)' <= owed
        /\ ~(m = g /\ u = v) => Debt(m, u)' = Debt(m, u)
    <3>1. DebtBecomes(m, u, g, v, owed)
      BY <1>1, <1>2, <2>1, DebtRewritten
    <3> QED
      BY <3>1 DEF DebtBecomes
  <2>3. Debt(m, u)' <= Debt(m, u) + (IF m = g THEN lent ELSE 0)
    <3>1. CASE m = g /\ u = v
      BY <1>2, <2>1, <2>2, <3>1 DEF owed
    <3>2. CASE ~(m = g /\ u = v)
      BY <1>2, <2>1, <2>2, <3>2
    <3> QED
      BY <3>1, <3>2
  <2>4. slToken[m][u] <= slToken'[m][u] + (IF m = g THEN 0 ELSE 0)
    BY <1>1, <2>1
  <2> QED
    BY <2>3, <2>4 DEF AccountMoves
<1>5. Valued(u) /\ Valued(u)'
  BY DEF Stands
<1> HIDE DEF lent
<1> QED
  BY <1>1, <1>2, <1>3, <1>4, <1>5, 0 \in Nat, CoverCarried

\* A repayment lowers a debt, and takes no sl-token.
LEMMA CoveredByRepay ==
  ASSUME LendInv, LendInv', [LendNext]_lendVars, UNCHANGED <<block, price, ltv>>,
         NEW u \in Users, Stands(u),
         NEW g \in Markets, NEW payer \in Users, NEW v \in Users, NEW amount \in Amounts[g],
         Repay(g, payer, v, amount)
  PROVE  CoveredAfter(u)
<1> DEFINE repaid == LeastOf(amount, Debt(g, v))
           owed == Debt(g, v) - repaid
<1>1. /\ entered'[u] = entered[u] /\ slToken' = slToken /\ Accrues(g)
      /\ book' = [book EXCEPT ![g] = Resnapshot(g, v, owed)]
  BY DEF Repay, overseerVars
<1>2. owed \in Nat /\ Debt(g, v) \in Nat /\ owed <= Debt(g, v)
  <2>1. Debt(g, v) \in Nat /\ amount \in Nat
    BY <1>1, 0 \in Nat, ResnapshotFacts, AmountTypes
  <2>2. PICK d \in Nat : d = Debt(g, v)
    BY <2>1
  <2> QED
    BY <2>1, <2>2 DEF LeastOf
<1> HIDE DEF owed
<1>3. MovesWithin(u, g, 0, 0)
  <2> SUFFICES ASSUME NEW m \in entered[u]
               PROVE  AccountMoves(m, u, 0, 0)
    BY DEF MovesWithin
  <2>1. /\ m \in Markets /\ RateCarried(m) /\ Debt(m, u) \in Nat /\ Debt(m, u)' \in Nat
        /\ slToken[m][u] \in Nat
    BY <1>1, MarketStands
  <2>2. /\ m = g /\ u = v => Debt(m, u)' <= owed
        /\ ~(m = g /\ u = v) => Debt(m, u)' = Debt(m, u)
    <3>1. DebtBecomes(m, u, g, v, owed)
      BY <1>1, <1>2, <2>1, DebtRewritten
    <3> QED
      BY <3>1 DEF DebtBecomes
  <2>3. Debt(m, u)' <= Debt(m, u) + 0
    <3>1. CASE m = g /\ u = v
      BY <1>2, <2>1, <2>2, <3>1
    <3>2. CASE ~(m = g /\ u = v)
      BY <2>1, <2>2, <3>2
    <3> QED
      BY <3>1, <3>2
  <2>4. slToken[m][u] <= slToken'[m][u] + 0
    BY <1>1, <2>1
  <2> QED
    BY <2>3, <2>4 DEF AccountMoves
<1>4. Valued(u) /\ Valued(u)' /\ CoversCost(u, g, 0, 0)
  BY CostsNothing DEF Stands
<1> QED
  BY <1>1, <1>3, <1>4, 0 \in Nat, CoverCarried

\* Who is liquidated was underwater; the others lose nothing.
LEMMA CoveredByLiquidation ==
  ASSUME LendInv, LendInv', [LendNext]_lendVars, UNCHANGED <<block, price, ltv>>,
         NEW u \in Users, Stands(u),
         NEW m \in Markets, NEW payer \in Users, NEW v \in Users, NEW c \in Markets,
         NEW amount \in Amounts[m], Liquidate(m, payer, v, c, amount)
  PROVE  CoveredAfter(u)
<1>1. Accrues(m) /\ amount \in Nat /\ payer # v
  BY LiquidationFacts
<1>2. u # v
  <2>1. LiquidateAllowed(m, v, amount)
    BY DEF Liquidate
  <2>2. Underwater(v)
    BY <1>1, <2>1, OnlyUnderwaterAllowed
  <2> QED
    BY <2>2 DEF Stands
<1> DEFINE owed == Debt(m, v) - amount
<1>3. /\ entered'[u] = entered[u]
      /\ book' = [book EXCEPT ![m] = Resnapshot(m, v, owed)]
  BY DEF Liquidate, overseerVars
<1>4. owed \in Nat
  BY PartIsRepaid
<1> HIDE DEF owed
<1>5. DebtsStand(u)
  <2> SUFFICES ASSUME NEW k \in Markets
               PROVE  SnapshotOf(book[k], u)' = SnapshotOf(book[k], u)
    BY DEF DebtsStand
  <2>1. book \in [Markets -> Book]
    BY InvFacts DEF LendTypeOK
  <2>2. book'[k] = IF k = m THEN Resnapshot(m, v, owed) ELSE book[k]
    BY <1>3, <2>1
  <2>3. SnapshotOf(book'[k], u) = SnapshotOf(book[k], u)
    BY <1>1, <1>2, <1>4, <2>2, ResnapshotFacts
  <2> QED
    BY <2>3 DEF SnapshotOf
<1>6. TokensKept(u, u, 0)
  <2> SUFFICES ASSUME NEW k \in Markets
               PROVE  slToken[k][u] <= slToken'[k][u] + (IF k = u THEN 0 ELSE 0)
    BY DEF TokensKept
  <2>1. PICK seize \in Nat : seize <= slToken[c][v] /\ MoveSeized(c, payer, v, seize)
    BY LiquidationFacts
  <2>2. PICK balances \in [Users -> Nat] :
          /\ slToken' = [slToken EXCEPT ![c] = balances]
          /\ \A x \in Users : x # v => balances[x] >= slToken[c][x]
    BY <1>1, <2>1, SeizureMoves
  <2>3. slToken \in [Markets -> [Users -> Nat]] /\ slToken[k][u] \in Nat
    BY InvFacts DEF LendTypeOK
  <2>4. CASE k = c
    <3>1. slToken'[k][u] = balances[u] /\ balances[u] \in Nat /\ balances[u] >= slToken[k][u]
      BY <1>2, <2>2, <2>3, <2>4
    <3> QED
      BY <2>3, <3>1
  <2>5. CASE k # c
    <3>1. slToken'[k] = slToken[k]
      BY <2>2, <2>3, <2>5
    <3> QED
      BY <2>3, <3>1
  <2> QED
    BY <2>4, <2>5
<1> QED
  BY <1>3, <1>5, <1>6, 0 \in Nat, GivenCovered

\* A step that leaves the sl-tokens, the debts and the markets u entered alone.
LEMMA CoveredQuietly ==
  ASSUME LendInv, LendInv', [LendNext]_lendVars, UNCHANGED <<block, price, ltv>>,
         NEW u \in Users, Stands(u),
         slToken' = slToken, book' = book, entered'[u] = entered[u]
  PROVE  CoveredAfter(u)
<1>1. DebtsStand(u)
  BY DEF DebtsStand, SnapshotOf
<1>2. TokensKept(u, u, 0)
  <2>1. \A k \in Markets : slToken[k][u] \in Nat
    BY InvFacts
  <2> QED
    BY <2>1 DEF TokensKept
<1> QED
  BY <1>1, <1>2, 0 \in Nat, GivenCovered

\* What rounding may cost in a market is an amount, and at least the dust there.
LEMMA AllowanceFacts ==
  ASSUME LendInv, LendInv', NEW m \in Markets, NEW u \in Users,
         Accrues(m), HasRate(cash[m], Accrued(m))
  PROVE  Allowance(m, u) \in Nat /\ DustValue(m) \in Nat /\ DustValue(m) <= Allowance(m, u)
<1> DEFINE conv == ConversionAt(m, ExchangeRate(cash[m], Accrued(m)))
           low == ConversionAt(m, LoweredRate(m))
           t == slToken'[m][u]
<1>1. conv \in Nat /\ low \in Nat /\ low <= conv
  BY LoweredFacts, ConversionGrows
<1>2. t \in Nat
  <2>1. LendInv' => AllAmounts'
    BY AmountsCounted, PTL
  <2> QED
    BY <2>1 DEF AllAmounts, AmountsIn
<1>3. DustValue(m) \in Nat
  BY AmountsCounted DEF AllAmounts, AmountsIn
<1>4. TokenShare(m, u) = Times(t, conv) - Times(t, low)
  BY DEF TokenShare
<1> HIDE DEF conv, low, t
<1>5. Times(t, low) \in Nat /\ Times(t, conv) \in Nat
  BY <1>1, <1>2, DecimalTypes
<1>6. Times(t, low) <= Times(t, conv)
  <2>1. low \in Int /\ conv \in Int
    BY <1>1
  <2> QED
    BY <1>1, <1>2, <2>1, DecimalsGrow
<1>7. PICK share \in Nat : share = TokenShare(m, u)
  BY <1>4, <1>5, <1>6
<1>8. PICK dust \in Nat : dust = DustValue(m)
  BY <1>3
<1>9. Allowance(m, u) = 1 + dust + share
  BY <1>7, <1>8 DEF Allowance
<1> QED
  BY <1>7, <1>8, <1>9

\* A step of the overseer alone: the markets and their rates stay.
OnlyEnters == UNCHANGED <<block, marketVars, ltv, price, moneyVars>>

LEMMA AccountsStand ==
  ASSUME OnlyEnters, NEW m, NEW u
  PROVE  /\ DebtIn(m, u)' = DebtIn(m, u)
         /\ CollateralIn(m, u, cash)' = CollateralIn(m, u, cash)
         /\ Accrues(m)' <=> Accrues(m)
         /\ HasRate(cash[m], Accrued(m))' <=> HasRate(cash[m], Accrued(m))
<1>1. /\ block' = block /\ market' = market /\ config' = config /\ slToken' = slToken
      /\ book' = book /\ ltv' = ltv /\ price' = price /\ cash' = cash
  BY DEF OnlyEnters, marketVars, moneyVars
<1>2. Accrued(m)' = Accrued(m)
  BY <1>1 DEF Accrued, InterestFactor
<1>3. DebtIn(m, u)' = DebtIn(m, u)
  BY <1>1, <1>2 DEF DebtIn, Debt, SnapshotOf
<1>4. CollateralIn(m, u, cash)' = CollateralIn(m, u, cash)
  BY <1>1, <1>2 DEF CollateralIn, Conversion, ConversionAt
<1>5. Accrues(m)' <=> Accrues(m)
  BY <1>1 DEF Accrues
<1>6. HasRate(cash[m], Accrued(m))' <=> HasRate(cash[m], Accrued(m))
  BY <1>1, <1>2
<1> QED
  BY <1>3, <1>4, <1>5, <1>6

\* After it u's account is the sum over the markets it left u in.
AccountSums(u, S, d, c, k) ==
  /\ S \in SUBSET Markets /\ IsFiniteSet(S)
  /\ \A m \in S : /\ d[m] \in Nat /\ d[m] = DebtIn(m, u)
                  /\ c[m] \in Nat /\ c[m] = CollateralIn(m, u, cash)
                  /\ k[m] \in Nat /\ DustValue(m) \in Nat /\ DustValue(m) <= k[m]
                  /\ Accrues(m)
  /\ Debts(u) = SumOver(d, entered[u])
  /\ Collateral(u, cash) = SumOver(c, entered[u])
  /\ Debts(u)' = SumOver(d, entered'[u])
  /\ Collateral(u, cash)' = SumOver(c, entered'[u])
  /\ RoundingOf(u) = SumOver(k, entered'[u])

LEMMA AccountAfter ==
  ASSUME LendInv, LendInv', OnlyEnters, NEW u \in Users, Valued(u), Valued(u)',
         NEW S, S = entered[u] \cup entered'[u]
  PROVE  \E d, c, k : AccountSums(u, S, d, c, k)
<1> DEFINE d == [m \in S |-> DebtIn(m, u)]
           c == [m \in S |-> CollateralIn(m, u, cash)]
           k == [m \in S |-> Allowance(m, u)]
<1> DEFINE E == entered[u]
           E1 == entered'[u]
<1>1. E \in SUBSET Markets /\ E1 \in SUBSET Markets
  <2>1. entered \in [Users -> SUBSET Markets] /\ entered' \in [Users -> SUBSET Markets]
    BY DEF LendInv, SupplyIsSum, LendTypeOK
  <2> QED
    BY <2>1
<1>2. /\ S \in SUBSET Markets
      /\ IsFiniteSet(S) /\ IsFiniteSet(E) /\ IsFiniteSet(E1)
      /\ E \in SUBSET S /\ E1 \in SUBSET S
  BY <1>1, AreFinite
<1>3. ASSUME NEW m \in S
      PROVE  /\ Accrues(m) /\ AmountsIn(m, u)
             /\ d[m] \in Nat /\ d[m] = DebtIn(m, u)
             /\ c[m] \in Nat /\ c[m] = CollateralIn(m, u, cash)
             /\ k[m] \in Nat
             /\ DustValue(m) \in Nat /\ DustValue(m) <= k[m]
  <2>1. m \in Markets
    BY <1>2
  <2>2. Accrues(m) /\ HasRate(cash[m], Accrued(m))
    <3>1. CASE m \in E
      BY <3>1 DEF Valued
    <3>2. CASE m \in E1
      <4>1. Accrues(m)' /\ HasRate(cash[m], Accrued(m))'
        BY <3>2 DEF Valued
      <4> QED
        BY <4>1, AccountsStand
    <3> QED
      BY <3>1, <3>2
  <2>3. AmountsIn(m, u)
    BY <2>1, AmountsCounted DEF AllAmounts
  <2>4. DebtIn(m, u) \in Nat /\ CollateralIn(m, u, cash) \in Nat
    BY <2>2, <2>3 DEF AmountsIn
  <2>5. Allowance(m, u) \in Nat /\ DustValue(m) \in Nat /\ DustValue(m) <= Allowance(m, u)
    BY <2>1, <2>2, AllowanceFacts
  <2> QED
    BY <2>2, <2>3, <2>4, <2>5
<1>4. \A m \in S : d[m] \in Int /\ c[m] \in Int /\ k[m] \in Int
  BY <1>3
<1>5. Debts(u) = SumOver(d, E) /\ Collateral(u, cash) = SumOver(c, E)
  <2> DEFINE f == [m \in E |-> DebtIn(m, u)]
             g == [m \in E |-> CollateralIn(m, u, cash)]
  <2>1. \A m \in E : d[m] \in Int /\ f[m] = d[m] /\ c[m] \in Int /\ g[m] = c[m]
    BY <1>2, <1>4
  <2>2. Debts(u) = SumOver(f, E) /\ Collateral(u, cash) = SumOver(g, E)
    BY DEF Debts, Collateral
  <2> HIDE DEF f, g, E
  <2>3. SumOver(f, E) = SumOver(d, E)
    BY <1>2, <2>1, SameSum
  <2>4. SumOver(g, E) = SumOver(c, E)
    BY <1>2, <2>1, SameSum
  <2> QED
    BY <2>2, <2>3, <2>4
<1>6. Debts(u)' = SumOver(d, E1) /\ Collateral(u, cash)' = SumOver(c, E1)
  <2> DEFINE f == [m \in E1 |-> DebtIn(m, u)']
             g == [m \in E1 |-> CollateralIn(m, u, cash)']
  <2>1. \A m \in E1 : d[m] \in Int /\ f[m] = d[m] /\ c[m] \in Int /\ g[m] = c[m]
    BY <1>2, <1>4, AccountsStand
  <2>2. Debts(u)' = SumOver(f, E1) /\ Collateral(u, cash)' = SumOver(g, E1)
    BY DEF Debts, Collateral
  <2> HIDE DEF f, g, E1
  <2>3. SumOver(f, E1) = SumOver(d, E1)
    BY <1>2, <2>1, SameSum
  <2>4. SumOver(g, E1) = SumOver(c, E1)
    BY <1>2, <2>1, SameSum
  <2> QED
    BY <2>2, <2>3, <2>4
<1>7. RoundingOf(u) = SumOver(k, E1)
  <2> DEFINE f == [m \in E1 |-> 1 + DustValue(m) + TokenShare(m, u)]
  <2>1. \A m \in E1 : k[m] \in Int /\ f[m] = k[m]
    BY <1>2, <1>4 DEF Allowance
  <2>2. RoundingOf(u) = SumOver(f, E1)
    BY DEF RoundingOf
  <2> HIDE DEF f, E1
  <2>3. SumOver(f, E1) = SumOver(k, E1)
    BY <1>2, <2>1, SameSum
  <2> QED
    BY <2>2, <2>3
<1> HIDE DEF d, c, k
<1>8. AccountSums(u, S, d, c, k)
  BY <1>2, <1>3, <1>5, <1>6, <1>7 DEF AccountSums
<1> QED
  BY <1>8

\* In a market entered u owes nothing but the dust exit left behind.
LEMMA CoveredByEnter ==
  ASSUME LendInv, LendInv', [LendNext]_lendVars, UNCHANGED <<block, price, ltv>>,
         NEW u \in Users, Stands(u),
         NEW v \in Users, NEW asked \in SUBSET Markets, Enter(v, asked)
  PROVE  CoveredAfter(u)
<1>1. /\ OnlyEnters /\ slToken' = slToken /\ book' = book
      /\ entered' = [entered EXCEPT ![v] = @ \cup asked]
      /\ entered \in [Users -> SUBSET Markets]
  BY InvFacts DEF Enter, OnlyEnters, marketVars, LendTypeOK
<1>2. CASE u # v
  <2>1. entered'[u] = entered[u]
    BY <1>1, <1>2
  <2> QED
    BY <1>1, <2>1, CoveredQuietly
<1>3. CASE u = v
  <2> DEFINE E == entered[u]
             S == entered[u] \cup entered'[u]
             rest == S \ E
  <2>1. entered'[u] = S /\ E \in SUBSET S /\ rest \in SUBSET S /\ E \cap rest = {}
        /\ E \cup rest = S
    BY <1>1, <1>3
  <2>2. Valued(u) /\ Valued(u)' /\ ~(Debts(u) > Collateral(u, cash))
    BY DEF Stands, Underwater
  <2>3. PICK d, c, k : AccountSums(u, S, d, c, k)
    BY <1>1, <2>2, AccountAfter
  <2> USE DEF AccountSums
  <2>4. ASSUME NEW m \in rest PROVE d[m] <= k[m]
    <3>1. m \in Markets /\ m \notin entered[u] /\ m \in S /\ Accrues(m)
      BY <2>3
    <3>2. IsDust(SnapshotOf(book[m], u))
      BY <3>1 DEF LendInv, DebtorsAreEntered
    <3>3. Debt(m, u) \in Nat /\ Debt(m, u) * DecimalOne <= Accrued(m).index
      BY <3>1, <3>2, 0 \in Nat, ResnapshotFacts
    <3>4. PICK owed \in Nat, index \in Nat : owed = Debt(m, u) /\ index = Accrued(m).index
      BY <3>1, <3>3, InvFacts, AccruedFacts, MarketFields
    <3>5. DecimalOne \in Nat \ {0} /\ price[m] \in Nat
      BY <3>1, InvFacts, DecimalAssumption DEF LendTypeOK
    <3>6. DecimalOne * owed <= index
      BY <3>3, <3>4, <3>5
    <3>7. owed <= index \div DecimalOne
      BY <3>4, <3>5, <3>6, QuotientReached
    <3> DEFINE most == index \div DecimalOne
    <3>8. most \in Nat /\ owed <= most
      BY <3>4, <3>5, <3>7, QuotientBounds
    <3>9. d[m] = Times(owed, price[m]) /\ DustValue(m) = Times(most, price[m])
      BY <2>3, <3>1, <3>4 DEF DebtIn, DustValue
    <3> HIDE DEF most
    <3>10. owed <= most + 0
      BY <3>8
    <3>11. /\ Times(owed, price[m]) \in Nat /\ Times(most, price[m]) \in Nat
           /\ Times(0, price[m]) \in Nat
           /\ Times(owed, price[m])
                <= Times(most, price[m]) + Times(0, price[m]) + (IF 0 = 0 THEN 0 ELSE 1)
           /\ 0 = 0 => Times(0, price[m]) = 0
      BY <3>4, <3>5, <3>8, <3>10, 0 \in Nat, AmountCounts
    <3>12. Times(owed, price[m]) <= Times(most, price[m])
      BY <3>11
    <3>13. DustValue(m) \in Nat /\ DustValue(m) <= k[m] /\ d[m] \in Nat /\ k[m] \in Nat
      BY <2>3, <3>1
    <3> QED
      BY <3>9, <3>12, <3>13
  <2> HIDE DEF E, S, rest
  <2>5. \A m \in S : d[m] \in Int /\ c[m] \in Nat /\ k[m] \in Nat
    BY <2>3
  <2>6. IsFiniteSet(rest)
    BY <2>1, <2>3, FS_Subset
  <2>7. SumOver(d, S) = SumOver(d, E) + SumOver(d, rest)
    <3>1. SumOver(d, E \cup rest) = SumOver(d, E) + SumOver(d, rest)
      BY <2>1, <2>3, <2>5, SumOfUnion
    <3> QED
      BY <2>1, <3>1
  <2>8. SumOver(d, rest) <= SumOver(k, rest)
    <3>1. \A m \in rest : d[m] \in Int /\ k[m] \in Int /\ d[m] <= k[m]
      BY <2>1, <2>4, <2>5
    <3> QED
      BY <2>6, <3>1, SumsCompare
  <2>9. /\ SumOver(k, rest) \in Nat /\ SumOver(k, S) \in Nat
        /\ SumOver(k, rest) <= SumOver(k, S)
    BY <2>1, <2>3, <2>5, SumOfPart
  <2>10. /\ SumOver(c, E) \in Nat /\ SumOver(c, S) \in Nat
         /\ SumOver(c, E) <= SumOver(c, S)
    BY <2>1, <2>3, <2>5, SumOfPart
  <2>11. SumOver(d, E) \in Int /\ SumOver(d, rest) \in Int
    <3>1. (\A m \in E : d[m] \in Int) /\ (\A m \in rest : d[m] \in Int) /\ IsFiniteSet(E)
      BY <2>1, <2>3, <2>5, FS_Subset
    <3> QED
      BY <2>6, <3>1, SumType
  <2>12. ~(SumOver(d, E) > SumOver(c, E))
    BY <2>2, <2>3 DEF E
  <2>13. SumOver(d, S) <= SumOver(c, S) + SumOver(k, S)
    BY <2>7, <2>8, <2>9, <2>10, <2>11, <2>12
  <2> QED
    BY <2>1, <2>3, <2>13 DEF CoveredAfter
<1> QED
  BY <1>2, <1>3

\* Before the market is left, the overseer counts all the sl-tokens there as given up.
LEMMA CoveredByExit ==
  ASSUME LendInv, LendInv', [LendNext]_lendVars, UNCHANGED <<block, price, ltv>>,
         NEW u \in Users, Stands(u),
         NEW v \in Users, NEW g \in Markets, Exit(v, g)
  PROVE  CoveredAfter(u)
<1>1. /\ OnlyEnters /\ slToken' = slToken /\ book' = book
      /\ entered' = [entered EXCEPT ![v] = @ \ {g}]
      /\ entered \in [Users -> SUBSET Markets]
      /\ g \in entered[v] /\ StaysCovered(v, g, slToken[g][v], 0)
  BY InvFacts DEF Exit, OnlyEnters, marketVars, LendTypeOK
<1>2. CASE u # v
  <2>1. entered'[u] = entered[u]
    BY <1>1, <1>2
  <2> QED
    BY <1>1, <2>1, CoveredQuietly
<1>3. CASE u = v
  <2> DEFINE S == entered[u] \cup entered'[u]
             rest == S \ {g}
  <2>1. entered[u] = S /\ entered'[u] = rest /\ rest \in SUBSET S /\ g \in S
    BY <1>1, <1>3
  <2>2. Valued(u) /\ Valued(u)'
    BY DEF Stands
  <2>3. PICK d, c, k : AccountSums(u, S, d, c, k)
    BY <1>1, <2>2, AccountAfter
  <2> USE DEF AccountSums
  <2>4. slToken[g][u] \in Nat /\ price[g] \in Nat
    BY InvFacts DEF LendTypeOK
  <2>5. CostIn(g, slToken[g][u], 0, cash) = c[g]
    <3>1. Times(0, price[g]) = 0
      BY <2>4, NothingTimes
    <3>2. c[g] = CollateralIn(g, u, cash) /\ c[g] \in Nat
      BY <2>1, <2>3
    <3>3. CostIn(g, slToken[g][u], 0, cash) = c[g] + 0
      BY <3>1, <3>2 DEF CostIn, CollateralIn
    <3> QED
      BY <3>2, <3>3
  <2>6. CoversCost(u, g, slToken[g][u], 0)
    BY <1>1, <1>3, <2>4, 0 \in Nat, AskedIsCovered
  <2>7. Debts(u) + c[g] <= Collateral(u, cash)
    BY <1>1, <1>3, <2>5, <2>6 DEF CoversCost
  <2> HIDE DEF S, rest
  <2>8. SumOver(d, S) + c[g] <= SumOver(c, S)
    BY <2>1, <2>3, <2>7
  <2>9. \A m \in S : d[m] \in Nat /\ c[m] \in Int /\ k[m] \in Nat
    BY <2>3
  <2>10. SumOver(c, S) = c[g] + SumOver(c, rest)
    <3>1. \A m \in S : SumOver(c, S) = c[m] + SumOver(c, S \ {m})
      BY <2>3, <2>9, SumWithout
    <3> QED
      BY <2>1, <3>1 DEF rest
  <2>11. /\ SumOver(d, rest) \in Nat /\ SumOver(d, S) \in Nat
         /\ SumOver(d, rest) <= SumOver(d, S)
    BY <2>1, <2>3, <2>9, SumOfPart
  <2>12. SumOver(k, rest) \in Nat
    BY <2>1, <2>3, <2>9, SumOfPart
  <2>13. SumOver(c, rest) \in Int /\ c[g] \in Int
    <3>1. (\A m \in rest : c[m] \in Int) /\ IsFiniteSet(rest)
      BY <2>1, <2>3, <2>9, FS_Subset
    <3> QED
      BY <2>1, <2>9, <3>1, SumType
  <2>14. SumOver(d, rest) <= SumOver(c, rest) + SumOver(k, rest)
    BY <2>8, <2>10, <2>11, <2>12, <2>13
  <2> QED
    BY <2>1, <2>3, <2>14 DEF CoveredAfter
<1> QED
  BY <1>2, <1>3

LEMMA StepKeepsCovered ==
  ASSUME LendInv, LendInv', [LendNext]_lendVars, UNCHANGED <<block, price, ltv>>,
         NEW u \in Users, Stands(u)
  PROVE  CoveredAfter(u)
<1>1. CASE slToken' = slToken /\ book' = book /\ entered' = entered
  BY <1>1, CoveredQuietly
<1>2. ASSUME NEW v \in Users, NEW m \in Markets, NEW amount \in Amounts[m],
             RedeemToken(m, v, amount) \/ RedeemUnderlying(m, v, amount)
      PROVE  CoveredAfter(u)
  <2>1. amount \in Nat
    BY AmountTypes
  <2>2. CASE RedeemToken(m, v, amount)
    BY <2>1, <2>2, CoveredByRedeem DEF RedeemToken
  <2>3. CASE RedeemUnderlying(m, v, amount)
    <3> DEFINE rate == ExchangeRate(cash[m], Accrued(m))
               burnt == Per(amount, rate)
    <3>1. /\ Redeem(m, v, burnt, amount) /\ rate > 0
          /\ Accrues(m) /\ HasRate(cash[m], Accrued(m))
      BY <2>3 DEF RedeemUnderlying, Redeem
    <3>2. rate \in Nat
      BY <3>1, InvFacts, AccruedFacts, ExchangeRateType
    <3>3. burnt \in Nat
      BY <2>1, <3>1, <3>2, DecimalTypes
    <3> HIDE DEF burnt
    <3> QED
      BY <3>1, <3>3, CoveredByRedeem
  <2> QED
    BY <1>2, <2>2, <2>3
<1>3. ASSUME NEW v \in Users, NEW m \in Markets, NEW amount \in Amounts[m],
             \/ Deposit(m, v, amount) \/ Borrow(m, v, amount)
             \/ \E other \in Users :
                  \/ Repay(m, v, other, amount) \/ Transfer(m, v, other, amount)
                  \/ \E c \in Markets : Liquidate(m, v, other, c, amount)
      PROVE  CoveredAfter(u)
  BY <1>3, CoveredByDeposit, CoveredByBorrow, CoveredByRepay, CoveredByTransfer,
     CoveredByLiquidation
<1>4. ASSUME NEW v \in Users,
             \/ \E asked \in SUBSET Markets \ {{}} : Enter(v, asked)
             \/ \E m \in Markets : Exit(v, m)
      PROVE  CoveredAfter(u)
  BY <1>4, CoveredByEnter, CoveredByExit
<1>5. CASE \/ \E v \in Users : \E m \in Markets : AccrueInterest(m, v)
           \/ \E m \in Markets :
                \/ Pause(m)
                \/ \E factor \in ReserveFactors, cap \in Caps \cup {config[m].cap} :
                     UpdateConfig(m, factor, cap)
                \/ \E amount \in Amounts[m] : ReduceReserves(m, amount)
                \/ \E ratio \in LTVs[m] : ChangeMarket(m, ratio)
                \/ \E rate \in Prices[m] : SetPrice(m, rate)
           \/ NextBlock
           \/ UNCHANGED lendVars
  BY <1>1, <1>5 DEF AccrueInterest, Pause, UpdateConfig, ReduceReserves, ChangeMarket,
                    SetPrice, NextBlock, lendVars, marketVars, overseerVars
<1> QED
  BY <1>2, <1>3, <1>4, <1>5 DEF LendNext

\* Whatever anybody does while blocks, prices and ratios stand still, an account that
\* was covered has no more debts afterwards than collateral, but for a unit, the dust
\* and the worth of one sl-token in each of its markets.
THEOREM CoveredStayCoveredHolds == LendSpec => CoveredStayCovered
<1> DEFINE Covers ==
      UNCHANGED <<block, price, ltv>> =>
        \A u \in Users :
          Valued(u) /\ Valued(u)' /\ ~Underwater(u) =>
            Debts(u)' <= Collateral(u, cash)' + RoundingOf(u)
<1>1. LendInv /\ LendInv' /\ [LendNext]_lendVars => Covers
  BY StepKeepsCovered DEF Stands, CoveredAfter
<1>2. LendInv /\ LendInv' /\ [LendNext]_lendVars => [Covers]_lendVars
  BY <1>1
<1> QED
  BY <1>2, LendInvHolds, PTL DEF LendSpec, CoveredStayCovered
=============================================================================
