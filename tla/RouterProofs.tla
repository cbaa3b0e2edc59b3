----------------------------- MODULE RouterProofs -----------------------------
(***************************************************************************)
(* The exchanges and the router, for any pools, tokens, fees and routes:   *)
(* what a share is worth, what rounding costs, and that a route delivers   *)
(* or leaves no trace.                                                     *)
(***************************************************************************)
EXTENDS Router, SumsProofs, SequenceTheorems

Balances == [Accounts -> [Tokens -> Nat]]

-----------------------------------------------------------------------------
(* Transfers, swaps and deposits.                                          *)

LEMMA Addresses ==
  /\ Users \subseteq Accounts /\ Pools \subseteq Accounts
  /\ Router \in Accounts /\ Burner \in Accounts
  /\ Users \cap Pools = {} /\ Router # Burner
  /\ Router \notin Users /\ Router \notin Pools /\ Burner \notin Users /\ Burner \notin Pools
  /\ Providers \subseteq Users /\ Traders \subseteq Users /\ Native \in Tokens
  /\ IsFiniteSet(Users) /\ Amounts \subseteq Nat \ {0}
  /\ \A x \in Pools : /\ FirstToken[x] \in Tokens /\ SecondToken[x] \in Tokens
                      /\ FirstToken[x] # SecondToken[x]
BY ExchangeAssumption, RouterAssumption DEF Accounts

\* The two tokens of a pool.
LEMMA PairFacts ==
  ASSUME NEW x \in Pools, NEW t \in PairOf(x)
  PROVE  /\ t \in Tokens /\ Other(x, t) \in PairOf(x) /\ Other(x, t) \in Tokens
         /\ Other(x, t) # t /\ Other(x, Other(x, t)) = t
         /\ \A s \in PairOf(x) : s = t \/ s = Other(x, t)
BY Addresses DEF PairOf, Other

\* A transfer changes two balances of one token.
LEMMA MovedFacts ==
  ASSUME NEW b \in Balances, NEW t \in Tokens, NEW from \in Accounts, NEW to \in Accounts,
         from # to, NEW n \in Nat, n <= b[from][t]
  PROVE  /\ Moved(b, t, from, to, n) \in Balances
         /\ Moved(b, t, from, to, n)[from][t] + n = b[from][t]
         /\ Moved(b, t, from, to, n)[to][t] = b[to][t] + n
         /\ \A c \in Accounts, s \in Tokens :
              s # t \/ (c # from /\ c # to) => Moved(b, t, from, to, n)[c][s] = b[c][s]
<1> DEFINE paid == [b[from] EXCEPT ![t] = @ - n]
           got == [b[to] EXCEPT ![t] = @ + n]
           m == Moved(b, t, from, to, n)
<1>1. /\ b[from] \in [Tokens -> Nat] /\ b[to] \in [Tokens -> Nat]
      /\ b[from][t] \in Nat /\ b[to][t] \in Nat
  BY DEF Balances
<1>2. m = [b EXCEPT ![from] = paid, ![to] = got]
  BY DEF Balances, Moved
<1>3. /\ paid \in [Tokens -> Nat] /\ paid[t] = b[from][t] - n
      /\ \A s \in Tokens : s # t => paid[s] = b[from][s]
  BY <1>1
<1>4. /\ got \in [Tokens -> Nat] /\ got[t] = b[to][t] + n
      /\ \A s \in Tokens : s # t => got[s] = b[to][s]
  BY <1>1
<1> HIDE DEF paid, got, m
<1>5. /\ m \in Balances /\ m[from] = paid /\ m[to] = got
      /\ \A c \in Accounts : c # from /\ c # to => m[c] = b[c]
  BY <1>2, <1>3, <1>4 DEF Balances
<1>6. m[from][t] + n = b[from][t]
  BY <1>1, <1>3, <1>5
<1> QED
  BY <1>3, <1>4, <1>5, <1>6 DEF m

\* A deposit of both tokens of a pool, or the withdrawal of both.
LEMMA BothMoved ==
  ASSUME NEW b \in Balances, NEW x \in Pools, NEW from \in Accounts, NEW to \in Accounts,
         from # to, NEW n0 \in Nat, n0 <= b[from][FirstToken[x]],
         NEW n1 \in Nat, n1 <= b[from][SecondToken[x]], NEW m,
         m = Moved(Moved(b, FirstToken[x], from, to, n0), SecondToken[x], from, to, n1)
  PROVE  /\ m \in Balances
         /\ m[from][FirstToken[x]] + n0 = b[from][FirstToken[x]]
         /\ m[from][SecondToken[x]] + n1 = b[from][SecondToken[x]]
         /\ m[to][FirstToken[x]] = b[to][FirstToken[x]] + n0
         /\ m[to][SecondToken[x]] = b[to][SecondToken[x]] + n1
         /\ \A c \in Accounts, s \in Tokens :
              s \notin PairOf(x) \/ (c # from /\ c # to) => m[c][s] = b[c][s]
<1> DEFINE t == FirstToken[x]
           o == SecondToken[x]
           k == Moved(b, t, from, to, n0)
<1>1. t \in Tokens /\ o \in Tokens /\ t # o
  BY Addresses
<1>2. \A s : s \notin PairOf(x) => s # t /\ s # o
  BY DEF PairOf
<1> HIDE DEF t, o
<1>3. /\ k \in Balances
      /\ k[from][t] + n0 = b[from][t]
      /\ k[to][t] = b[to][t] + n0
      /\ \A c \in Accounts, s \in Tokens :
           s # t \/ (c # from /\ c # to) => k[c][s] = b[c][s]
  BY <1>1, MovedFacts DEF t
<1> HIDE DEF k
<1>4. n1 <= k[from][o] /\ k[from][o] = b[from][o] /\ k[to][o] = b[to][o]
  BY <1>1, <1>3 DEF o
<1>5. m = Moved(k, o, from, to, n1)
  BY DEF k, t, o
<1>6. /\ m \in Balances
      /\ m[from][o] + n1 = k[from][o]
      /\ m[to][o] = k[to][o] + n1
      /\ \A c \in Accounts, s \in Tokens :
           s # o \/ (c # from /\ c # to) => m[c][s] = k[c][s]
  BY <1>1, <1>3, <1>4, <1>5, MovedFacts
<1>7. m[from][t] = k[from][t] /\ m[to][t] = k[to][t]
  BY <1>1, <1>6
<1> QED
  BY <1>2, <1>3, <1>4, <1>6, <1>7 DEF t, o

\* The commissions, and what is returned: no more than the pool has, rounded in
\* its favour by less than one.
LEMMA ReturnFacts ==
  ASSUME NEW b \in Balances, settings \in SettingsChoices, NEW x \in Pools,
         NEW t, NEW n \in Nat, CanSwap(b, x, t, n)
  PROVE  /\ SiennaCommission(n) \in Nat /\ SiennaCommission(n) <= n
         /\ ReturnAmount(b, x, t, n) \in Nat
         /\ ReturnAmount(b, x, t, n) <= b[x][Other(x, t)]
         /\ OfferPool(b, x, t, n) \in Nat
         /\ OfferPool(b, x, t, n) * b[x][Other(x, t)]
              < (b[x][t] - SiennaCommission(n))
                  * (b[x][Other(x, t)] - ReturnAmount(b, x, t, n) + 1)
<1> DEFINE pool == OfferPool(b, x, t, n)
           ask == b[x][Other(x, t)]
           kept == SwapCommission(n)
           burned == SiennaCommission(n)
           d == pool + n - kept - burned
<1>1. /\ t \in PairOf(x) /\ pool > 0 /\ kept + burned <= n
      /\ x \in Accounts /\ t \in Tokens /\ Other(x, t) \in Tokens
  BY PairFacts, Addresses DEF CanSwap
<1>2. b[x][t] \in Nat /\ ask \in Nat /\ pool = b[x][t] - n
  BY <1>1 DEF Balances, OfferPool
<1>3. kept \in Nat /\ burned \in Nat
  <2>1. settings.swap_fee \in Fees /\ settings.sienna_fee \in Fees
    BY ExchangeAssumption
  <2>2. ASSUME NEW fee \in Fees PROVE PercentageDecrease(n, fee) \in Nat
    <3>1. fee.nom \in Nat /\ fee.denom \in Nat \ {0}
      BY DEF Fees
    <3>2. n * fee.nom \in Int /\ n * fee.nom >= 0
      BY <3>1, SMT
    <3> QED
      BY <3>1, <3>2, QuotientBounds DEF PercentageDecrease
  <2> QED
    BY <2>1, <2>2 DEF SwapCommission, SiennaCommission
<1>4. ReturnAmount(b, x, t, n) = ask - (pool * ask) \div d
  BY DEF ReturnAmount
<1>5. pool \in Nat /\ d \in Nat \ {0} /\ pool <= d /\ d <= b[x][t] - burned
  <2> HIDE DEF pool, kept, burned
  <2> QED
    BY <1>1, <1>2, <1>3
<1>6. burned <= n
  <2> HIDE DEF kept, burned
  <2> QED
    BY <1>1, <1>3
<1> DEFINE q == (pool * ask) \div d
<1> HIDE DEF pool, ask, kept, burned, d
<1>7. pool * ask \in Int /\ pool * ask >= 0
  BY <1>2, <1>5, SMT
<1>8. q \in Nat /\ q * d <= pool * ask /\ pool * ask < q * d + d
  BY <1>5, <1>7, QuotientBounds
<1> HIDE DEF q
<1>9. q <= ask
  <2>1. pool * ask <= d * ask
    BY <1>2, <1>5, ProductGrows
  <2>2. d * ask = ask * d /\ q * d \in Int /\ ask * d \in Int
    BY <1>2, <1>5, <1>8, SMT
  <2>3. q * d <= ask * d
    BY <1>7, <1>8, <2>1, <2>2
  <2> QED
    BY <1>2, <1>5, <1>8, <2>3, ProductReflectsLe
<1>10. pool * ask < (b[x][t] - burned) * (q + 1)
  <2>1. q * d + d = d * (q + 1)
    BY <1>5, <1>8, SMT
  <2>2. d * (q + 1) <= (b[x][t] - burned) * (q + 1)
    <3>1. d \in Int /\ b[x][t] - burned \in Int /\ q + 1 \in Nat
      BY <1>2, <1>3, <1>5, <1>8
    <3> QED
      BY <1>5, <3>1, ProductGrows
  <2>3. d * (q + 1) \in Int /\ (b[x][t] - burned) * (q + 1) \in Int
    BY <1>2, <1>3, <1>5, <1>8, SMT
  <2> QED
    BY <1>7, <1>8, <2>1, <2>2, <2>3
<1>11. ask - (ask - q) + 1 = q + 1 /\ ask - q \in Nat /\ ask - q <= ask
  BY <1>2, <1>8, <1>9
<1>12. ReturnAmount(b, x, t, n) = ask - q
  BY <1>4 DEF q
<1> QED
  BY <1>3, <1>5, <1>6, <1>10, <1>11, <1>12 DEF pool, ask, burned

\* A swap that was paid for takes the commission and pays out what is returned; no
\* other balance changes.
LEMMA SwappedFacts ==
  ASSUME NEW b \in Balances, settings \in SettingsChoices, NEW x \in Pools,
         NEW t, NEW n \in Nat, CanSwap(b, x, t, n), NEW to \in Users \cup {Router},
         NEW m, m = Swapped(b, x, t, n, to)
  PROVE  /\ m \in Balances
         /\ m[x][t] = b[x][t] - SiennaCommission(n)
         /\ m[x][Other(x, t)] = b[x][Other(x, t)] - ReturnAmount(b, x, t, n)
         /\ m[to][Other(x, t)] = b[to][Other(x, t)] + ReturnAmount(b, x, t, n)
         /\ \A c \in Accounts \ {Burner}, s \in Tokens :
              \/ c # x /\ c # to
              \/ c = to /\ s # Other(x, t)
              \/ c = x /\ s # Other(x, t) /\ s # t
              => m[c][s] = b[c][s]
<1> DEFINE o == Other(x, t)
           f == SiennaCommission(n)
           r == ReturnAmount(b, x, t, n)
           k == Moved(b, t, x, Burner, f)
<1>1. /\ f \in Nat /\ f <= n /\ r \in Nat /\ r <= b[x][o]
      /\ OfferPool(b, x, t, n) \in Nat
  BY ReturnFacts
<1>2. /\ t \in Tokens /\ o \in Tokens /\ o # t
      /\ x \in Accounts /\ to \in Accounts /\ Burner \in Accounts
      /\ x # Burner /\ x # to /\ to # Burner
  BY PairFacts, Addresses DEF CanSwap
<1>3. m = Moved(k, o, x, to, r)
  BY DEF Swapped
<1>4. b[x][t] \in Nat /\ f <= b[x][t]
  <2>1. b[x][t] \in Nat
    BY <1>2 DEF Balances
  <2>2. n <= b[x][t]
    BY <1>1, <2>1 DEF OfferPool
  <2> HIDE DEF f
  <2> QED
    BY <1>1, <2>1, <2>2
<1> HIDE DEF o, f, r
<1>5. /\ k \in Balances
      /\ k[x][t] + f = b[x][t]
      /\ \A c \in Accounts, s \in Tokens :
           s # t \/ (c # x /\ c # Burner) => k[c][s] = b[c][s]
  BY <1>1, <1>2, <1>4, MovedFacts
<1> HIDE DEF k
<1>6. k[x][o] = b[x][o] /\ k[to][o] = b[to][o] /\ k[x][t] \in Nat
      /\ \A s \in Tokens : k[to][s] = b[to][s]
  BY <1>2, <1>5 DEF Balances
<1>7. /\ m \in Balances
      /\ m[x][o] + r = k[x][o]
      /\ m[to][o] = k[to][o] + r
      /\ \A c \in Accounts, s \in Tokens :
           s # o \/ (c # x /\ c # to) => m[c][s] = k[c][s]
  BY <1>1, <1>2, <1>3, <1>5, <1>6, MovedFacts
<1>8. m[x][t] = k[x][t] /\ m[x][o] \in Nat
  BY <1>2, <1>7 DEF Balances
<1>9. m[x][t] = b[x][t] - f /\ m[x][o] = b[x][o] - r
  BY <1>1, <1>5, <1>6, <1>7, <1>8
<1>10. ASSUME NEW c \in Accounts \ {Burner}, NEW s \in Tokens,
              \/ c # x /\ c # to
              \/ c = to /\ s # o
              \/ c = x /\ s # o /\ s # t
       PROVE  m[c][s] = b[c][s]
  <2>1. m[c][s] = k[c][s]
    BY <1>2, <1>7, <1>10
  <2>2. k[c][s] = b[c][s]
    BY <1>2, <1>5, <1>10
  <2> QED
    BY <2>1, <2>2
<1> QED
  BY <1>6, <1>7, <1>9, <1>10 DEF o, f, r

\* The square root rounded down exists, and is positive for what is positive.
LEMMA SquareRootFacts ==
  ASSUME NEW n \in Nat
  PROVE  SquareRoot(n) \in Nat /\ (n > 0 => SquareRoot(n) > 0)
<1> DEFINE Over == {r \in Nat : n < (r + 1) * (r + 1)}
           Root(r) == r * r <= n /\ n < (r + 1) * (r + 1)
<1>1. n \in Over
  <2>1. n < (n + 1) * (n + 1)
    BY SMT
  <2> QED
    BY <2>1
<1>2. PICK r \in Over : \A m \in Over : r <= m
  BY <1>1, LeastNatural
<1>3. r \in 0..n
  BY <1>1, <1>2
<1>4. r * r <= n
  <2>1. CASE r = 0
    BY <2>1, SMT
  <2>2. CASE r # 0
    <3>1. r - 1 \in Nat /\ r - 1 \notin Over
      BY <1>2, <2>2
    <3>2. ~(n < (r - 1 + 1) * (r - 1 + 1)) /\ r - 1 + 1 = r
      BY <3>1
    <3>3. r * r \in Int
      BY SMT
    <3> QED
      BY <3>2, <3>3
  <2> QED
    BY <2>1, <2>2
<1>5. Root(r)
  BY <1>2, <1>4
<1>6. SquareRoot(n) \in 0..n /\ Root(SquareRoot(n))
  <2>1. SquareRoot(n) = CHOOSE s \in 0..n : Root(s)
    BY DEF SquareRoot
  <2> HIDE DEF Root
  <2> QED
    BY <1>3, <1>5, <2>1
<1>7. ASSUME n > 0, SquareRoot(n) = 0 PROVE FALSE
  BY <1>6, <1>7
<1> QED
  BY <1>6, <1>7

\* A deposit buys no more of the shares than its part of either reserve, and one
\* into an empty pool buys something.
LEMMA MintedFacts ==
  ASSUME NEW x \in Pools, supply[x] \in Nat, NEW d0 \in Nat \ {0}, NEW d1 \in Nat \ {0},
         NEW p0 \in Nat, NEW p1 \in Nat, supply[x] > 0 => p0 > 0 /\ p1 > 0
  PROVE  /\ Minted(x, d0, d1, p0, p1) \in Nat
         /\ supply[x] = 0 => Minted(x, d0, d1, p0, p1) > 0
         /\ supply[x] > 0 => /\ Minted(x, d0, d1, p0, p1) * p0 <= d0 * supply[x]
                             /\ Minted(x, d0, d1, p0, p1) * p1 <= d1 * supply[x]
<1>1. CASE supply[x] = 0
  <2>1. d0 * d1 \in Nat /\ d0 * d1 > 0
    BY SMT
  <2>2. Minted(x, d0, d1, p0, p1) = SquareRoot(d0 * d1)
    BY <1>1 DEF Minted
  <2> QED
    BY <1>1, <2>1, <2>2, SquareRootFacts
<1>2. CASE supply[x] > 0
  <2> DEFINE S == supply[x]
             s0 == (d0 * S) \div p0
             s1 == (d1 * S) \div p1
             m == Minted(x, d0, d1, p0, p1)
  <2>1. m = IF s0 < s1 THEN s0 ELSE s1
    BY <1>2 DEF Minted
  <2>2. p0 \in Nat \ {0} /\ p1 \in Nat \ {0} /\ S \in Nat
    BY <1>2
  <2> HIDE DEF S, m
  <2>3. d0 * S \in Int /\ d0 * S >= 0 /\ d1 * S \in Int /\ d1 * S >= 0
    BY <2>2, SMT
  <2>4. /\ s0 \in Nat /\ s0 * p0 \in Int /\ s0 * p0 <= d0 * S
        /\ s1 \in Nat /\ s1 * p1 \in Int /\ s1 * p1 <= d1 * S
    BY <2>2, <2>3, QuotientBounds
  <2> HIDE DEF s0, s1
  <2>5. m \in Nat /\ m <= s0 /\ m <= s1
    BY <2>1, <2>4
  <2>6. m * p0 <= s0 * p0 /\ m * p1 <= s1 * p1
    BY <2>2, <2>4, <2>5, ProductGrows
  <2>7. m * p0 \in Int /\ m * p1 \in Int
    BY <2>2, <2>5, SMT
  <2>8. m * p0 <= d0 * S /\ m * p1 <= d1 * S
    BY <2>3, <2>4, <2>6, <2>7
  <2> QED
    BY <1>2, <2>5, <2>8 DEF m, S
<1> QED
  BY <1>1, <1>2

\* What a part of the shares takes out of a reserve: no more than its part, and
\* all of it for all the shares.
LEMMA WithdrawnFacts ==
  ASSUME NEW x \in Pools, NEW t \in Tokens, balance[x][t] \in Nat,
         supply[x] \in Nat \ {0}, NEW n \in Nat, n <= supply[x]
  PROVE  /\ Withdrawn(x, t, n) \in Nat /\ Withdrawn(x, t, n) <= balance[x][t]
         /\ Withdrawn(x, t, n) * supply[x] <= balance[x][t] * n
         /\ n = supply[x] => Withdrawn(x, t, n) = balance[x][t]
<1> DEFINE p == balance[x][t]
           S == supply[x]
           w == (p * n) \div S
<1>1. Withdrawn(x, t, n) = w /\ p \in Nat /\ S \in Nat \ {0} /\ n <= S
  BY DEF Withdrawn
<1> HIDE DEF p, S
<1>2. p * n \in Int /\ p * n >= 0
  BY <1>1, SMT
<1>3. w \in Nat /\ w * S \in Int /\ w * S <= p * n /\ p * n < w * S + S
  BY <1>1, <1>2, QuotientBounds
<1> HIDE DEF w
<1>4. w <= p
  <2>1. p * n <= p * S /\ p * S \in Int
    BY <1>1, ProductGrows, SMT
  <2>2. w * S <= p * S
    BY <1>2, <1>3, <2>1
  <2> QED
    BY <1>1, <1>3, <2>2, ProductReflectsLe
<1>5. ASSUME n = S PROVE w = p
  <2>1. w * S + S = (w + 1) * S /\ p * S \in Int
    BY <1>1, <1>3, SMT
  <2>2. p * S < (w + 1) * S
    BY <1>2, <1>3, <1>5, <2>1
  <2>3. p < w + 1
    BY <1>1, <1>3, <2>2, ProductReflects
  <2> QED
    BY <1>1, <1>3, <1>4, <2>3
<1> QED
  BY <1>1, <1>3, <1>4, <1>5 DEF p, S

-----------------------------------------------------------------------------
(* The invariant.                                                          *)

Types ==
  /\ balance \in Balances
  /\ share \in [Pools -> [Users -> Nat]] /\ supply \in [Pools -> Nat]
  /\ settings \in SettingsChoices /\ gifted \subseteq Pools
  /\ registered \subseteq Tokens \ {Native}

\* What the users hold of a pool's shares is all there is of them.
SharesAddUp == \A x \in Pools : SumOver(share[x], Users) = supply[x]

Unfunded(x) == supply[x] = 0 /\ x \notin gifted

\* A pool without shares has what a route brings it, which it will not swap.
Emptied ==
  \A x \in Pools : Unfunded(x) => \A t \in PairOf(x) : balance[x][t] = Delivering(x, t)

\* What there is to go back to, and whom the route is for.
SentShape ==
  /\ sent.balance \in Balances /\ sent.from \in Users /\ sent.token \in Tokens
  /\ sent.amount \in Nat /\ sent.expected_return \in Nat /\ sent.to \in Users
  /\ sent.last \in Hops
  /\ \A x \in Pools : Unfunded(x) => \A t \in PairOf(x) : sent.balance[x][t] = 0

RouteStates ==
  [is_done: BOOLEAN, current_hop: Hops \cup {NoHop}, hops: Seq(Hops), expected_return: Nat,
   to: Users]

\* The hops stored are the end of the route that was sent.
RouteShape ==
  /\ route \in RouteStates
  /\ route.to = sent.to /\ route.expected_return = sent.expected_return
  /\ ~route.is_done => route.hops # <<>> /\ route.hops[Len(route.hops)] = sent.last

Paid(u, t) == IF u = sent.from /\ t = sent.token THEN sent.amount ELSE 0

\* Until the last pool has swapped, the sender has paid and nobody got anything.
SenderPaid ==
  \A u \in Users, t \in Tokens : balance[u][t] + Paid(u, t) = sent.balance[u][t]

\* The router has the n of token s that a message told it of, and what it had.
Holds(s, n) ==
  \A t \in Tokens :
    balance[Router][t] = sent.balance[Router][t] + (IF t = s THEN n ELSE 0)

HoldsNothing == \A t \in Tokens : balance[Router][t] = sent.balance[Router][t]

UsersServed ==
  \A u \in Users, t \in Tokens :
    IF u = sent.to /\ t = Other(sent.last.pool, sent.last.token)
    THEN balance[u][t] + Paid(u, t) >= sent.balance[u][t] + sent.expected_return
    ELSE balance[u][t] + Paid(u, t) = sent.balance[u][t]

Starting ==
  /\ message \in StartMessages /\ route = NoRoute
  /\ message.hops[Len(message.hops)] = sent.last
  /\ message.to = sent.to /\ message.expected_return = sent.expected_return
  /\ SenderPaid /\ Holds(message.token, message.amount)

\* Only the last swap pays the recipient, and it asks for the expected return.
Swapping ==
  /\ message \in SwapMessages /\ RouteShape
  /\ message.token \in PairOf(message.pool)
  /\ message.amount <= balance[message.pool][message.token]
  /\ SenderPaid /\ HoldsNothing
  /\ IF route.is_done
     THEN /\ message.to = sent.to /\ message.expected_return = sent.expected_return
          /\ message.pool = sent.last.pool /\ message.token = sent.last.token
     ELSE message.to = Router

Receiving ==
  /\ message \in ReceiveMessages /\ RouteShape /\ ~route.is_done
  /\ SenderPaid /\ Holds(message.token, message.amount)

\* A route that may be finalized has delivered, unless its last pool does not trade
\* what it was sent.
Finalizing ==
  /\ message = [kind |-> "finalize"] /\ RouteShape
  /\ route.is_done => /\ HoldsNothing
                      /\ sent.last.token \in PairOf(sent.last.pool) => UsersServed

Resting == message = None /\ route = NoRoute

Underway == SentShape /\ (Starting \/ Swapping \/ Receiving \/ Finalizing)

RouterInv == Types /\ SharesAddUp /\ Emptied /\ (Resting \/ Underway)

chainVars == <<share, supply, settings, gifted, registered>>

-----------------------------------------------------------------------------
(* The messages of a route.                                                *)

\* A message of a route is of one kind.
LEMMA Kinds ==
  /\ Resting => message.kind = "none"
  /\ Starting => message.kind = "start"
  /\ Swapping => message.kind = "swap"
  /\ Receiving => message.kind = "receive"
  /\ Finalizing => message.kind = "finalize"
  /\ Resting => ~Busy
  /\ Underway => Busy
<1>1. None.kind = "none"
  BY DEF None
<1>2. /\ Resting => message.kind = "none"
      /\ Starting => message.kind = "start"
      /\ Swapping => message.kind = "swap"
      /\ Receiving => message.kind = "receive"
      /\ Finalizing => message.kind = "finalize"
  BY <1>1 DEF Resting, Starting, Swapping, Receiving, Finalizing, StartMessages, SwapMessages,
              ReceiveMessages
<1> QED
  BY <1>1, <1>2 DEF Resting, Underway, Busy

\* Going back leaves everything as it was before the route.
LEMMA RevertKeeps ==
  ASSUME RouterInv, Underway, Revert, UNCHANGED chainVars PROVE RouterInv'
<1>1. balance' = sent.balance /\ message' = None /\ route' = NoRoute
  BY DEF Revert
<1>2. UNCHANGED <<share, supply, settings, gifted, registered>>
  BY DEF chainVars
<1>3. Types' /\ SharesAddUp'
  BY <1>1, <1>2 DEF RouterInv, Types, SharesAddUp, Underway, SentShape
<1>4. None.kind # "swap"
  BY DEF None
<1>5. Emptied'
  BY <1>1, <1>2, <1>4 DEF Emptied, Unfunded, Delivering, Underway, SentShape
<1> QED
  BY <1>1, <1>3, <1>5 DEF RouterInv, Resting

\* What was sent stays known while nobody else acts.
LEMMA SentStays ==
  ASSUME SentShape, UNCHANGED <<sent, supply, gifted>> PROVE SentShape'
BY DEF SentShape, Unfunded

\* The router passes on what it was told of: the next pool has it, and will be
\* asked to swap it if it can.
LEMMA ToPool ==
  ASSUME Types, SharesAddUp, Emptied, SentShape, SenderPaid,
         message.kind # "swap",
         NEW hop \in Hops, NEW n \in Nat, Holds(hop.token, n),
         NEW e \in Nat, NEW to \in Users \cup {Router},
         SendToPool(balance, hop, n, e, to), UNCHANGED <<chainVars, sent>>
  PROVE  /\ Types' /\ SharesAddUp' /\ Emptied' /\ SentShape' /\ SenderPaid' /\ HoldsNothing'
         /\ IF hop.token \in PairOf(hop.pool)
            THEN /\ message' \in SwapMessages
                 /\ message'.token = hop.token /\ message'.pool = hop.pool
                 /\ message'.amount <= balance'[hop.pool][hop.token]
                 /\ message'.expected_return = e /\ message'.to = to
            ELSE message' = [kind |-> "finalize"]
<1> DEFINE t == hop.token
           x == hop.pool
           m == Moved(balance, t, Router, x, n)
<1>1. /\ t \in Tokens /\ x \in Pools /\ x \in Accounts /\ Router \in Accounts /\ x # Router
      /\ Users \subseteq Accounts /\ x \notin Users /\ Router \notin Users
      /\ Pools \subseteq Accounts /\ Router \notin Pools
  BY Addresses DEF Hops
<1>2. /\ balance' = m
      /\ message' = IF t \in PairOf(x)
                    THEN [kind |-> "swap", pool |-> x, token |-> t,
                          amount |-> n, expected_return |-> e, to |-> to]
                    ELSE [kind |-> "finalize"]
  BY DEF SendToPool
<1>3. balance \in Balances /\ balance[Router][t] = sent.balance[Router][t] + n
      /\ sent.balance[Router][t] \in Nat
  BY <1>1 DEF Types, Holds, SentShape, Balances
<1>4. /\ m \in Balances
      /\ m[Router][t] + n = balance[Router][t]
      /\ m[x][t] = balance[x][t] + n
      /\ \A c \in Accounts, s \in Tokens :
           s # t \/ (c # Router /\ c # x) => m[c][s] = balance[c][s]
  <2>1. n <= balance[Router][t]
    BY <1>3
  <2> QED
    BY <1>1, <1>3, <2>1, MovedFacts
<1> HIDE DEF m
<1>5. UNCHANGED <<share, supply, settings, gifted, registered, sent>>
  BY DEF chainVars
<1>6. Types' /\ SharesAddUp' /\ SentShape'
  BY <1>2, <1>4, <1>5 DEF Types, SharesAddUp, SentShape, Unfunded
<1>7. SenderPaid'
  BY <1>1, <1>2, <1>4, <1>5 DEF SenderPaid, Paid
<1>8. HoldsNothing'
  <2> SUFFICES ASSUME NEW s \in Tokens PROVE balance'[Router][s] = sent'.balance[Router][s]
    BY DEF HoldsNothing
  <2>1. CASE s = t
    <3>1. m[Router][t] \in Nat
      BY <1>1, <1>4 DEF Balances
    <3> QED
      BY <1>2, <1>3, <1>4, <1>5, <2>1, <3>1
  <2>2. CASE s # t
    <3>1. balance[Router][s] = sent.balance[Router][s] /\ sent.balance[Router][s] \in Nat
      BY <1>1, <2>2 DEF Holds, SentShape, Balances
    <3> QED
      BY <1>1, <1>2, <1>4, <1>5, <2>2, <3>1
  <2> QED
    BY <2>1, <2>2
<1>9. Emptied'
  <2> SUFFICES ASSUME NEW y \in Pools, Unfunded(y), NEW s \in PairOf(y)
               PROVE  balance'[y][s] = Delivering(y, s)'
    BY <1>5 DEF Emptied, Unfunded
  <2>1. balance[y][s] = 0 /\ s \in Tokens
    BY PairFacts DEF Emptied, Delivering
  <2>2. CASE y = x /\ s = t
    <3>1. Delivering(y, s)' = n
      BY <1>2, <2>2 DEF Delivering
    <3> QED
      BY <1>2, <1>4, <2>1, <2>2, <3>1
  <2>3. CASE y # x \/ s # t
    <3>1. Delivering(y, s)' = 0
      BY <1>2, <2>3 DEF Delivering
    <3>2. balance'[y][s] = balance[y][s]
      BY <1>1, <1>2, <1>4, <2>1, <2>3
    <3> QED
      BY <2>1, <3>1, <3>2
  <2> QED
    BY <2>2, <2>3
<1>10. n <= m[x][t]
  <2>1. balance[x][t] \in Nat
    BY <1>1, <1>3 DEF Balances
  <2> QED
    BY <1>4, <2>1
<1> QED
  BY <1>1, <1>2, <1>6, <1>7, <1>8, <1>9, <1>10 DEF SwapMessages

\* The first hop: the rest of the route is stored, and is not empty.
LEMMA FirstHopKeeps ==
  ASSUME RouterInv, HandleFirstHop PROVE RouterInv'
<1>1. message.kind = "start" /\ UNCHANGED chainVars
  BY DEF HandleFirstHop, chainVars
<1>2. Underway /\ Starting
  BY <1>1, Kinds DEF RouterInv, Underway
<1>3. CASE Revert
  BY <1>1, <1>2, <1>3, RevertKeeps
<1>4. ASSUME CanRoute(message), UNCHANGED sent,
             route' = [is_done |-> FALSE, current_hop |-> message.hops[1],
                       hops |-> Tail(message.hops),
                       expected_return |-> message.expected_return, to |-> message.to],
             SendToPool(balance, message.hops[1], message.amount, 0, Router)
      PROVE  RouterInv'
  <2> DEFINE hops == message.hops
             hop == hops[1]
             l == Len(hops)
  <2>1. /\ message \in StartMessages /\ hops \in Seq(Hops) /\ l \in Nat /\ l >= 2
        /\ message.amount \in Nat /\ message.expected_return \in Nat /\ message.to \in Users
        /\ hop.token = message.token
    <3>1. message \in StartMessages
      BY <1>2 DEF Starting
    <3>2. /\ message.hops \in Routes /\ message.amount \in Nat
          /\ message.expected_return \in Nat /\ message.to \in Users
      BY <3>1 DEF StartMessages
    <3>3. hops \in Seq(Hops)
      BY <3>2, RouterAssumption
    <3>4. l \in Nat
      BY <3>3, LenProperties
    <3> QED
      BY <1>4, <3>1, <3>2, <3>3, <3>4 DEF CanRoute
  <2>2. hop \in Hops /\ hops # <<>>
    BY <2>1, ElementOfSeq, EmptySeq
  <2>3. /\ Tail(hops) \in Seq(Hops) /\ Len(Tail(hops)) = l - 1
        /\ Tail(hops)[l - 1] = hops[l]
    <3>1. /\ Tail(hops) \in Seq(Hops) /\ Len(Tail(hops)) = l - 1
          /\ \A i \in 1..Len(Tail(hops)) : Tail(hops)[i] = hops[i + 1]
      BY <2>1, <2>2, HeadTailProperties
    <3>2. l - 1 \in 1..Len(Tail(hops)) /\ l - 1 + 1 = l
      BY <2>1, <3>1
    <3> QED
      BY <3>1, <3>2
  <2>4. Tail(hops) # <<>>
    <3>1. Len(Tail(hops)) # 0
      BY <2>1, <2>3
    <3> QED
      BY <2>3, <3>1, EmptySeq
  <2>5. /\ Types' /\ SharesAddUp' /\ Emptied' /\ SentShape' /\ SenderPaid' /\ HoldsNothing'
        /\ IF hop.token \in PairOf(hop.pool)
           THEN /\ message' \in SwapMessages
                /\ message'.token = hop.token /\ message'.pool = hop.pool
                /\ message'.amount <= balance'[hop.pool][hop.token]
                /\ message'.expected_return = 0 /\ message'.to = Router
           ELSE message' = [kind |-> "finalize"]
    <3>1. Holds(hop.token, message.amount) /\ SenderPaid
      BY <1>2, <2>1 DEF Starting
    <3>2. Types /\ SharesAddUp /\ Emptied /\ SentShape /\ message.kind # "swap"
      BY <1>1, <1>2 DEF RouterInv, Underway
    <3>3. UNCHANGED <<chainVars, sent>> /\ 0 \in Nat /\ Router \in Users \cup {Router}
      BY <1>1, <1>4
    <3>4. SendToPool(balance, hop, message.amount, 0, Router)
      BY <1>4
    <3> HIDE DEF hop
    <3> QED
      BY <2>1, <2>2, <3>1, <3>2, <3>3, <3>4, ToPool
  <2>6. RouteShape' /\ ~route'.is_done
    <3>1. sent' = sent /\ hops[l] = sent.last
          /\ message.to = sent.to /\ message.expected_return = sent.expected_return
      BY <1>2, <1>4 DEF Starting
    <3> HIDE DEF hop, l
    <3>2. /\ route' = [is_done |-> FALSE, current_hop |-> hop, hops |-> Tail(hops),
                       expected_return |-> message.expected_return, to |-> message.to]
      BY <1>4 DEF hop
    <3> HIDE DEF hops
    <3> QED
      BY <2>1, <2>2, <2>3, <2>4, <3>1, <3>2 DEF RouteShape, RouteStates
  <2>7. CASE hop.token \in PairOf(hop.pool)
    BY <2>5, <2>6, <2>7 DEF RouterInv, Underway, Swapping
  <2>8. CASE hop.token \notin PairOf(hop.pool)
    BY <2>5, <2>6, <2>8 DEF RouterInv, Underway, Finalizing
  <2> QED
    BY <2>7, <2>8
<1> QED
  BY <1>3, <1>4 DEF HandleFirstHop

\* A later hop: what is left of the route ends as the route does, and the last hop
\* is the last of the route.
LEMMA HopKeeps == ASSUME RouterInv, HandleHop PROVE RouterInv'
<1>1. message.kind = "receive" /\ UNCHANGED chainVars
  BY DEF HandleHop, chainVars
<1>2. Underway /\ Receiving
  BY <1>1, Kinds DEF RouterInv, Underway
<1>3. CASE Revert
  BY <1>1, <1>2, <1>3, RevertKeeps
<1> DEFINE hops == route.hops
           hop == Head(hops)
           rest == Tail(hops)
           last == rest = <<>>
           to == IF last THEN route.to ELSE Router
<1>4. ASSUME hops # <<>>, hop.token = message.token, UNCHANGED sent,
             SendToPool(balance, hop, message.amount, LastExpected(rest), to),
             route' = [route EXCEPT !.is_done = last,
                                    !.current_hop = IF last THEN NoHop ELSE hop,
                                    !.hops = rest]
      PROVE  RouterInv'
  <2>1. /\ message \in ReceiveMessages /\ message.amount \in Nat
        /\ route \in RouteStates /\ hops \in Seq(Hops) /\ Len(hops) \in Nat
        /\ route.to = sent.to /\ route.expected_return = sent.expected_return
        /\ sent.to \in Users /\ sent.expected_return \in Nat
        /\ hops[Len(hops)] = sent.last
    <3>1. message \in ReceiveMessages /\ RouteShape /\ ~route.is_done /\ SentShape
      BY <1>2 DEF Receiving, Underway
    <3>2. message.amount \in Nat
      BY <3>1 DEF ReceiveMessages
    <3>3. hops \in Seq(Hops)
      BY <3>1 DEF RouteShape, RouteStates
    <3> QED
      BY <3>1, <3>2, <3>3, LenProperties DEF RouteShape, SentShape
  <2>2. /\ hop \in Hops /\ rest \in Seq(Hops) /\ hop = hops[1]
        /\ Len(rest) = Len(hops) - 1
        /\ \A i \in 1..Len(rest) : rest[i] = hops[i + 1]
    BY <1>4, <2>1, HeadTailProperties
  <2>3. Len(hops) > 0
    BY <1>4, <2>1, EmptySeq
  <2>4. last => hop = sent.last
    <3>1. last => Len(rest) = 0
      BY EmptySeq
    <3> QED
      BY <2>1, <2>2, <3>1
  <2>5. ~last => rest[Len(rest)] = sent.last
    <3> SUFFICES ASSUME ~last PROVE rest[Len(rest)] = sent.last
      OBVIOUS
    <3>1. Len(rest) # 0
      BY <2>2, EmptySeq
    <3>2. Len(rest) \in 1..Len(rest) /\ Len(rest) + 1 = Len(hops)
      BY <2>1, <2>2, <2>3, <3>1
    <3> QED
      BY <2>1, <2>2, <3>2
  <2>6. LastExpected(rest) \in Nat /\ (last => LastExpected(rest) = sent.expected_return)
    BY <2>1 DEF LastExpected
  <2>7. to \in Users \cup {Router} /\ (last => to = sent.to) /\ (~last => to = Router)
    BY <2>1
  <2>8. RouteShape' /\ route'.is_done = last
    <3>1. /\ route'.is_done = last /\ route'.hops = rest
          /\ route'.to = route.to /\ route'.expected_return = route.expected_return
          /\ route' \in RouteStates
      <4>1. DOMAIN route = {"is_done", "current_hop", "hops", "expected_return", "to"}
        BY <2>1 DEF RouteStates
      <4>2. last \in BOOLEAN /\ (IF last THEN NoHop ELSE hop) \in Hops \cup {NoHop}
        BY <2>2
      <4> HIDE DEF last, rest, hop
      <4> QED
        BY <1>4, <2>1, <2>2, <4>1, <4>2 DEF RouteStates
    <3> HIDE DEF rest, last
    <3>2. ~last => rest # <<>> /\ rest[Len(rest)] = sent.last
      BY <2>5 DEF last
    <3> QED
      BY <1>4, <2>1, <3>1, <3>2 DEF RouteShape
  <2> HIDE DEF hops, hop, rest, last, to
  <2>9. /\ Types' /\ SharesAddUp' /\ Emptied' /\ SentShape' /\ SenderPaid' /\ HoldsNothing'
        /\ IF hop.token \in PairOf(hop.pool)
           THEN /\ message' \in SwapMessages
                /\ message'.token = hop.token /\ message'.pool = hop.pool
                /\ message'.amount <= balance'[hop.pool][hop.token]
                /\ message'.expected_return = LastExpected(rest) /\ message'.to = to
           ELSE message' = [kind |-> "finalize"]
    <3>1. Holds(hop.token, message.amount) /\ SenderPaid
      BY <1>2, <1>4 DEF Receiving
    <3>2. Types /\ SharesAddUp /\ Emptied /\ SentShape /\ message.kind # "swap"
      BY <1>1, <1>2 DEF RouterInv, Underway
    <3>3. UNCHANGED <<chainVars, sent>>
      BY <1>1, <1>4
    <3>4. SendToPool(balance, hop, message.amount, LastExpected(rest), to)
      BY <1>4
    <3> QED
      BY <2>1, <2>2, <2>6, <2>7, <3>1, <3>2, <3>3, <3>4, ToPool
  <2>10. CASE hop.token \in PairOf(hop.pool)
    <3>1. IF route'.is_done
          THEN /\ message'.to = sent'.to /\ message'.expected_return = sent'.expected_return
               /\ message'.pool = sent'.last.pool /\ message'.token = sent'.last.token
          ELSE message'.to = Router
      BY <1>4, <2>4, <2>6, <2>7, <2>8, <2>9, <2>10
    <3>2. Swapping'
      BY <2>8, <2>9, <2>10, <3>1 DEF Swapping
    <3> QED
      BY <2>9, <3>2 DEF RouterInv, Underway
  <2>11. CASE hop.token \notin PairOf(hop.pool)
    <3>1. route'.is_done => sent'.last = hop
      BY <1>4, <2>4, <2>8
    <3>2. Finalizing'
      BY <2>8, <2>9, <2>11, <3>1 DEF Finalizing
    <3> QED
      BY <2>9, <3>2 DEF RouterInv, Underway
  <2> QED
    BY <2>10, <2>11
<1> QED
  BY <1>3, <1>4 DEF HandleHop

\* A pool swaps what it was sent: for the router, which is told of it, or, at the end,
\* for the recipient.
LEMMA PoolKeeps == ASSUME RouterInv, PoolSwaps PROVE RouterInv'
<1>1. message.kind = "swap" /\ UNCHANGED chainVars
  BY DEF PoolSwaps, chainVars
<1>2. Underway /\ Swapping
  BY <1>1, Kinds DEF RouterInv, Underway
<1>3. CASE Revert
  BY <1>1, <1>2, <1>3, RevertKeeps
<1> DEFINE x == message.pool
           t == message.token
           n == message.amount
           to == message.to
           out == Other(x, t)
           r == ReturnAmount(balance, x, t, n)
           b == Swapped(balance, x, t, n, to)
<1>4. ASSUME Delivered(message), balance' = b, UNCHANGED <<route, sent>>,
             message' = IF to = Router /\ out \in registered
                        THEN [kind |-> "receive", token |-> out, from |-> x, amount |-> r]
                        ELSE [kind |-> "finalize"]
      PROVE  RouterInv'
  <2>1. /\ x \in Pools /\ t \in PairOf(x) /\ n \in Nat /\ to \in Users \cup {Router}
        /\ message.expected_return \in Nat /\ n <= balance[x][t]
        /\ RouteShape /\ SenderPaid /\ HoldsNothing /\ SentShape /\ Types
    BY <1>2 DEF Swapping, SwapMessages, Underway, RouterInv
  <2>2. CanSwap(balance, x, t, n) /\ r >= message.expected_return
    BY <1>4 DEF Delivered
  <2>3. /\ t \in Tokens /\ out \in Tokens /\ out # t /\ out \in PairOf(x)
        /\ x \in Accounts \ {Burner} /\ to \in Accounts \ {Burner} /\ x # to /\ x # Router
        /\ Users \subseteq Accounts \ {Burner} /\ Router \in Accounts \ {Burner}
        /\ x \notin Users /\ Router \notin Users /\ Pools \subseteq Accounts \ {Burner}
        /\ \A y \in Pools : y # to
    BY <2>1, PairFacts, Addresses
  <2>4. r \in Nat /\ OfferPool(balance, x, t, n) > 0
    BY <2>1, <2>2, ReturnFacts DEF Types, CanSwap
  <2>5. /\ b \in Balances
        /\ b[to][out] = balance[to][out] + r
        /\ \A c \in Accounts \ {Burner}, s \in Tokens :
              \/ c # x /\ c # to
              \/ c = to /\ s # out
              \/ c = x /\ s # out /\ s # t
              => b[c][s] = balance[c][s]
    BY <2>1, <2>2, SwappedFacts DEF Types
  <2> HIDE DEF b, r, out
  <2>6. UNCHANGED <<share, supply, settings, gifted, registered, route, sent>>
    BY <1>1, <1>4 DEF chainVars
  <2>7. Types' /\ SharesAddUp' /\ SentShape' /\ RouteShape'
    BY <1>2, <1>4, <2>1, <2>5, <2>6
       DEF Types, SharesAddUp, SentShape, Unfunded, RouteShape, RouterInv
  <2>8. message'.kind # "swap"
    BY <1>4
  <2>9. Emptied'
    <3> SUFFICES ASSUME NEW y \in Pools, Unfunded(y), NEW s \in PairOf(y)
                 PROVE  balance'[y][s] = 0
      BY <2>6, <2>8 DEF Emptied, Unfunded, Delivering
    <3>1. y # x
      <4> SUFFICES ASSUME y = x PROVE FALSE
        OBVIOUS
      <4>1. balance[x][t] = n
        BY <1>1, <2>1 DEF RouterInv, Emptied, Delivering
      <4> QED
        BY <2>1, <2>4, <4>1 DEF OfferPool
    <3>2. balance[y][s] = 0 /\ s \in Tokens
      BY <3>1, PairFacts DEF RouterInv, Emptied, Delivering
    <3> QED
      BY <1>4, <2>3, <2>5, <3>1, <3>2
  <2>10. \A u \in Users, s \in Tokens :
           u # to \/ s # out => balance'[u][s] + Paid(u, s)' = sent'.balance[u][s]
    <3> SUFFICES ASSUME NEW u \in Users, NEW s \in Tokens, u # to \/ s # out
                 PROVE  balance'[u][s] + Paid(u, s)' = sent'.balance[u][s]
      OBVIOUS
    <3>1. balance'[u][s] = balance[u][s]
      BY <1>4, <2>3, <2>5
    <3> QED
      BY <2>1, <2>6, <3>1 DEF SenderPaid, Paid
  <2>11. ASSUME to = Router
         PROVE  /\ SenderPaid'
                /\ \A s \in Tokens : balance'[Router][s]
                     = sent'.balance[Router][s] + (IF s = out THEN r ELSE 0)
    <3>1. SenderPaid'
      BY <2>3, <2>10, <2>11 DEF SenderPaid
    <3>2. ASSUME NEW s \in Tokens
          PROVE  balance'[Router][s] = sent'.balance[Router][s] + (IF s = out THEN r ELSE 0)
      <4>1. balance[Router][s] = sent.balance[Router][s] /\ sent.balance[Router][s] \in Nat
        BY <2>1, <2>3 DEF HoldsNothing, SentShape, Balances
      <4>2. s # out => balance'[Router][s] = balance[Router][s]
        BY <1>4, <2>3, <2>5, <2>11
      <4>3. s = out => balance'[Router][s] = balance[Router][s] + r
        BY <1>4, <2>3, <2>5, <2>11
      <4> QED
        BY <2>6, <4>1, <4>2, <4>3
    <3> QED
      BY <3>1, <3>2
  <2>12. CASE to = Router /\ out \in registered
    <3>1. message' = [kind |-> "receive", token |-> out, from |-> x, amount |-> r]
      BY <1>4, <2>12
    <3>2. message' \in ReceiveMessages /\ message'.token = out /\ message'.amount = r
      BY <2>1, <2>3, <2>4, <3>1 DEF ReceiveMessages
    <3>3. ~route'.is_done
      BY <1>2, <2>3, <2>6, <2>12 DEF Swapping, Underway, SentShape
    <3>4. Receiving'
      <4>1. Holds(message.token, message.amount)'
        BY <2>11, <2>12, <3>2 DEF Holds
      <4> QED
        BY <2>7, <2>11, <2>12, <3>2, <3>3, <4>1 DEF Receiving
    <3> QED
      BY <2>7, <2>9, <3>4 DEF RouterInv, Underway
  <2>13. CASE ~(to = Router /\ out \in registered)
    <3>1. message' = [kind |-> "finalize"]
      BY <1>4, <2>13
    <3>2. ASSUME route'.is_done
          PROVE  HoldsNothing' /\ UsersServed'
      <4>1. /\ to = sent.to /\ message.expected_return = sent.expected_return
            /\ x = sent.last.pool /\ t = sent.last.token /\ sent.to \in Users
        BY <1>2, <2>1, <2>6, <3>2 DEF Swapping, SentShape
      <4>2. HoldsNothing'
        <5> SUFFICES ASSUME NEW s \in Tokens
                     PROVE  balance'[Router][s] = sent'.balance[Router][s]
          BY DEF HoldsNothing
        <5>1. balance'[Router][s] = balance[Router][s]
          BY <1>4, <2>3, <2>5, <4>1
        <5> QED
          BY <2>1, <2>6, <5>1 DEF HoldsNothing
      <4>3. ASSUME NEW u \in Users, NEW s \in Tokens, u = to, s = out
            PROVE  balance'[u][s] + Paid(u, s)' >= sent'.balance[u][s] + sent'.expected_return
        <5>1. balance[u][s] + Paid(u, s) = sent.balance[u][s]
          BY <2>1 DEF SenderPaid
        <5>2. balance[u][s] \in Nat /\ Paid(u, s) \in Nat /\ Paid(u, s)' = Paid(u, s)
          BY <2>1, <2>3, <2>6 DEF Types, Balances, Paid, SentShape
        <5>3. balance'[u][s] = balance[u][s] + r /\ r >= sent.expected_return
              /\ sent.expected_return \in Nat
          BY <1>4, <2>1, <2>2, <2>5, <4>1, <4>3 DEF r, SentShape
        <5> QED
          BY <2>4, <2>6, <5>1, <5>2, <5>3
      <4>4. sent'.to = to /\ Other(sent'.last.pool, sent'.last.token) = out
        BY <2>6, <4>1 DEF out
      <4>5. UsersServed'
        BY <2>10, <4>3, <4>4 DEF UsersServed
      <4> QED
        BY <4>2, <4>5
    <3>3. Finalizing'
      BY <2>7, <3>1, <3>2 DEF Finalizing
    <3> QED
      BY <2>7, <2>9, <3>3 DEF RouterInv, Underway
  <2> QED
    BY <2>12, <2>13
<1> QED
  BY <1>3, <1>4 DEF PoolSwaps

LEMMA FinalizeKeeps == ASSUME RouterInv, FinalizeRoute PROVE RouterInv'
<1>1. message.kind = "finalize" /\ UNCHANGED chainVars
  BY DEF FinalizeRoute, chainVars
<1>2. Underway /\ Finalizing
  BY <1>1, Kinds DEF RouterInv, Underway
<1>3. CASE Revert
  BY <1>1, <1>2, <1>3, RevertKeeps
<1>4. ASSUME route' = NoRoute, message' = None, UNCHANGED balance PROVE RouterInv'
  <2>1. UNCHANGED <<balance, share, supply, settings, gifted, registered>>
    BY <1>1, <1>4 DEF chainVars
  <2>2. Types' /\ SharesAddUp'
    BY <2>1 DEF RouterInv, Types, SharesAddUp
  <2>3. None.kind # "swap"
    BY DEF None
  <2>4. Emptied'
    BY <1>1, <1>4, <2>1, <2>3 DEF RouterInv, Emptied, Unfunded, Delivering
  <2> QED
    BY <1>4, <2>2, <2>4 DEF RouterInv, Resting
<1> QED
  BY <1>3, <1>4 DEF FinalizeRoute

\* A route starts with the sender's tokens with the router.
LEMMA SendKeeps ==
  ASSUME RouterInv, NEW u \in Traders, NEW to \in Providers, NEW t \in Tokens,
         NEW n \in Amounts, NEW e \in Amounts, NEW hops \in Routes,
         SendRoute(u, t, n, hops, e, to)
  PROVE  RouterInv'
<1> DEFINE b == Moved(balance, t, u, Router, n)
<1>1. /\ ~Busy /\ n <= balance[u][t] /\ balance' = b
      /\ UNCHANGED <<share, supply, settings, gifted, registered, route>>
  BY DEF SendRoute
<1>2. /\ Types /\ SharesAddUp /\ Emptied /\ Resting
  BY <1>1, Kinds DEF RouterInv
<1>3. /\ u \in Users /\ to \in Users /\ u \in Accounts /\ Router \in Accounts /\ u # Router
      /\ n \in Nat /\ e \in Nat /\ Users \subseteq Accounts /\ Router \notin Users
      /\ Pools \subseteq Accounts /\ Router \notin Pools /\ Users \cap Pools = {}
  BY Addresses
<1>4. /\ b \in Balances
      /\ b[u][t] + n = balance[u][t]
      /\ b[Router][t] = balance[Router][t] + n
      /\ \A c \in Accounts, s \in Tokens :
           s # t \/ (c # u /\ c # Router) => b[c][s] = balance[c][s]
  BY <1>1, <1>2, <1>3, MovedFacts DEF Types
<1> HIDE DEF b
<1>5. Types' /\ SharesAddUp'
  BY <1>1, <1>2, <1>4 DEF Types, SharesAddUp
<1>6. \A x \in Pools : Unfunded(x) => \A s \in PairOf(x) :
        balance'[x][s] = 0 /\ balance[x][s] = 0
  <2> SUFFICES ASSUME NEW x \in Pools, Unfunded(x), NEW s \in PairOf(x)
               PROVE  balance'[x][s] = 0 /\ balance[x][s] = 0
    OBVIOUS
  <2>1. balance[x][s] = 0 /\ s \in Tokens
    BY <1>2, PairFacts, Kinds DEF Emptied, Delivering
  <2> QED
    BY <1>1, <1>3, <1>4, <2>1
<1>7. message'.kind # "swap" => Emptied'
  BY <1>1, <1>6 DEF Emptied, Unfunded, Delivering
<1>8. CASE UNCHANGED <<message, sent>>
  <2>1. Resting'
    BY <1>1, <1>2, <1>8 DEF Resting
  <2>2. message'.kind # "swap"
    BY <1>2, <1>8, Kinds
  <2> QED
    BY <1>5, <1>7, <2>1, <2>2 DEF RouterInv
<1>9. ASSUME message' = [kind |-> "start", token |-> t, amount |-> n, hops |-> hops,
                         expected_return |-> e, to |-> to],
             sent' = [balance |-> balance, from |-> u, token |-> t, amount |-> n,
                      expected_return |-> e, to |-> to, last |-> hops[Len(hops)]]
      PROVE  RouterInv'
  <2>1. hops[Len(hops)] \in Hops
    <3>1. hops \in Seq(Hops) /\ hops # <<>>
      BY RouterAssumption
    <3>2. Len(hops) \in Nat /\ Len(hops) # 0
      BY <3>1, LenProperties, EmptySeq
    <3> QED
      BY <3>1, <3>2, ElementOfSeq
  <2>2. message' \in StartMessages /\ message'.kind = "start"
    BY <1>3, <1>9 DEF StartMessages
  <2>3. SentShape'
    BY <1>1, <1>2, <1>3, <1>6, <1>9, <2>1 DEF SentShape, Types, Unfunded
  <2>4. SenderPaid'
    <3> SUFFICES ASSUME NEW v \in Users, NEW s \in Tokens
                 PROVE  balance'[v][s] + Paid(v, s)' = balance[v][s]
      BY <1>9 DEF SenderPaid
    <3>1. CASE v = u /\ s = t
      BY <1>1, <1>4, <1>9, <3>1 DEF Paid
    <3>2. CASE v # u \/ s # t
      <4>1. Paid(v, s)' = 0
        BY <1>9, <3>2 DEF Paid
      <4>2. balance'[v][s] = balance[v][s] /\ balance[v][s] \in Nat
        BY <1>1, <1>2, <1>3, <1>4, <3>2 DEF Types, Balances
      <4> QED
        BY <4>1, <4>2
    <3> QED
      BY <3>1, <3>2
  <2>5. Holds(message.token, message.amount)'
    <3> SUFFICES ASSUME NEW s \in Tokens
                 PROVE  balance'[Router][s] = balance[Router][s] + (IF s = t THEN n ELSE 0)
      BY <1>9 DEF Holds
    <3>1. balance[Router][s] \in Nat
      BY <1>2, <1>3 DEF Types, Balances
    <3> QED
      BY <1>1, <1>3, <1>4, <3>1
  <2>6. Starting'
    BY <1>1, <1>2, <1>9, <2>2, <2>4, <2>5 DEF Starting, Resting
  <2> QED
    BY <1>5, <1>7, <2>2, <2>3, <2>6 DEF RouterInv, Underway
<1> QED
  BY <1>8, <1>9 DEF SendRoute

-----------------------------------------------------------------------------
(* Everything else, between routes.                                        *)

\* Between routes the invariant is about pools only.
LEMMA AtRest ==
  ASSUME RouterInv, ~Busy
  PROVE  /\ Types /\ SharesAddUp /\ Resting
         /\ \A x \in Pools : Unfunded(x) => \A t \in PairOf(x) : balance[x][t] = 0
BY Kinds DEF RouterInv, Emptied, Delivering

LEMMA StillAtRest ==
  ASSUME Resting, UNCHANGED <<route, message>>, Types', SharesAddUp',
         \A x \in Pools : Unfunded(x)' => \A t \in PairOf(x) : balance'[x][t] = 0
  PROVE  RouterInv'
<1>1. Resting'
  BY DEF Resting
<1>2. message'.kind # "swap"
  BY <1>1 DEF Resting, None
<1> QED
  BY <1>1, <1>2 DEF RouterInv, Emptied, Delivering

\* A user's swap: the pool's share of the product is looked at below.
LEMMA UserSwapFacts ==
  ASSUME Types, NEW u \in Users, NEW x \in Pools, NEW t, NEW n \in Nat, NEW e \in Nat,
         NEW to \in Users \cup {Router}, Swap(u, x, t, n, e, to)
  PROVE  \E b \in Balances :
           /\ CanSwap(b, x, t, n) /\ balance' = Swapped(b, x, t, n, to)
           /\ b[x][t] = balance[x][t] + n
           /\ \A y \in Pools, s \in Tokens : y # x \/ s # t => b[y][s] = balance[y][s]
<1> DEFINE b == Moved(balance, t, u, x, n)
<1>1. n <= balance[u][t] /\ CanSwap(b, x, t, n) /\ balance' = Swapped(b, x, t, n, to)
  BY DEF Swap
<1>2. t \in Tokens /\ u \in Accounts /\ x \in Accounts /\ u # x /\ \A y \in Pools : y # u
      /\ Pools \subseteq Accounts
  BY <1>1, PairFacts, Addresses DEF CanSwap
<1>3. /\ b \in Balances
      /\ b[x][t] = balance[x][t] + n
      /\ \A c \in Accounts, s \in Tokens :
           s # t \/ (c # u /\ c # x) => b[c][s] = balance[c][s]
  BY <1>1, <1>2, MovedFacts DEF Types
<1> HIDE DEF b
<1> QED
  BY <1>1, <1>2, <1>3

LEMMA UserSwapKeeps ==
  ASSUME RouterInv, ~Busy, NEW u \in Users, NEW x \in Pools, NEW t, NEW n \in Nat,
         NEW e \in Nat, NEW to \in Users \cup {Router}, Swap(u, x, t, n, e, to),
         UNCHANGED <<registered, route, message>>
  PROVE  RouterInv'
<1>1. /\ Types /\ SharesAddUp /\ Resting
      /\ \A y \in Pools : Unfunded(y) => \A s \in PairOf(y) : balance[y][s] = 0
  BY AtRest
<1>2. PICK b \in Balances :
        /\ CanSwap(b, x, t, n) /\ balance' = Swapped(b, x, t, n, to)
        /\ b[x][t] = balance[x][t] + n
        /\ \A y \in Pools, s \in Tokens : y # x \/ s # t => b[y][s] = balance[y][s]
  BY <1>1, UserSwapFacts
<1>3. /\ balance' \in Balances
      /\ \A c \in Accounts \ {Burner}, s \in Tokens :
           c # x /\ c # to => balance'[c][s] = b[c][s]
  BY <1>1, <1>2, SwappedFacts DEF Types
<1>4. UNCHANGED <<share, supply, settings, gifted>>
  BY DEF Swap
<1>5. Types' /\ SharesAddUp'
  BY <1>1, <1>3, <1>4 DEF Types, SharesAddUp
<1>6. ASSUME NEW y \in Pools, Unfunded(y), NEW s \in PairOf(y) PROVE balance'[y][s] = 0
  <2>1. balance[y][s] = 0 /\ s \in Tokens
    BY <1>1, <1>6, PairFacts
  <2>2. y # x
    <3> SUFFICES ASSUME y = x PROVE FALSE
      OBVIOUS
    <3>1. balance[x][t] = 0
      BY <1>1, <1>2, <1>6 DEF CanSwap
    <3> QED
      BY <1>2, <3>1 DEF CanSwap, OfferPool
  <2>3. y \in Accounts \ {Burner} /\ y # to
    BY Addresses
  <2> QED
    BY <1>2, <1>3, <2>1, <2>2, <2>3
<1>7. \A y \in Pools : Unfunded(y)' => \A s \in PairOf(y) : balance'[y][s] = 0
  BY <1>4, <1>6 DEF Unfunded
<1> QED
  BY <1>1, <1>5, <1>7, StillAtRest

\* What adding or removing liquidity does to the pool's reserves and shares.
LEMMA AddFacts ==
  ASSUME RouterInv, ~Busy, NEW u \in Users, NEW x \in Pools, NEW d \in Nat \X Nat,
         NEW slippage, AddLiquidity(u, x, d[1], d[2], slippage)
  PROVE  \E m \in Nat :
           /\ supply[x] = 0 => m > 0
           /\ supply[x] > 0 =>
                /\ m * balance[x][FirstToken[x]] <= d[1] * supply[x]
                /\ m * balance[x][SecondToken[x]] <= d[2] * supply[x]
           /\ share' = [share EXCEPT ![x][u] = @ + m]
           /\ supply' = [supply EXCEPT ![x] = @ + m]
           /\ balance' \in Balances
           /\ balance'[x][FirstToken[x]] = balance[x][FirstToken[x]] + d[1]
           /\ balance'[x][SecondToken[x]] = balance[x][SecondToken[x]] + d[2]
           /\ \A y \in Pools, s \in Tokens :
                y # x \/ s \notin PairOf(x) => balance'[y][s] = balance[y][s]
<1> DEFINE t0 == FirstToken[x]
           t1 == SecondToken[x]
           d0 == d[1]
           d1 == d[2]
           p0 == balance[x][t0]
           p1 == balance[x][t1]
           m == Minted(x, d0, d1, p0, p1)
<1>1. /\ d0 > 0 /\ d1 > 0 /\ d0 <= balance[u][t0] /\ d1 <= balance[u][t1]
      /\ supply[x] > 0 => p0 > 0 /\ p1 > 0
      /\ balance' = Moved(Moved(balance, t0, u, x, d0), t1, u, x, d1)
      /\ share' = [share EXCEPT ![x][u] = @ + m]
      /\ supply' = [supply EXCEPT ![x] = @ + m]
  BY DEF AddLiquidity
<1>2. Types /\ supply[x] \in Nat /\ balance \in Balances
  BY AtRest DEF Types
<1>3. d0 \in Nat \ {0} /\ d1 \in Nat \ {0}
  BY <1>1
<1>4. /\ t0 \in Tokens /\ t1 \in Tokens /\ u \in Accounts /\ x \in Accounts /\ u # x
      /\ Pools \subseteq Accounts /\ \A y \in Pools : y # u
  BY Addresses
<1>5. p0 \in Nat /\ p1 \in Nat
  BY <1>2, <1>4 DEF Balances
<1>6. /\ m \in Nat /\ (supply[x] = 0 => m > 0)
      /\ supply[x] > 0 => m * p0 <= d0 * supply[x] /\ m * p1 <= d1 * supply[x]
  <2> HIDE DEF p0, p1, d0, d1
  <2> QED
    BY <1>1, <1>2, <1>3, <1>5, MintedFacts
<1>7. /\ balance' \in Balances
      /\ balance'[x][t0] = balance[x][t0] + d0
      /\ balance'[x][t1] = balance[x][t1] + d1
      /\ \A c \in Accounts, s \in Tokens :
           s \notin PairOf(x) \/ (c # u /\ c # x) => balance'[c][s] = balance[c][s]
  <2> HIDE DEF d0, d1
  <2> QED
    BY <1>1, <1>2, <1>3, <1>4, BothMoved
<1> HIDE DEF m
<1> QED
  BY <1>1, <1>4, <1>6, <1>7

LEMMA RemoveFacts ==
  ASSUME RouterInv, ~Busy, NEW u \in Users, NEW x \in Pools, NEW n \in Nat \ {0},
         NEW to \in Users, RemoveLiquidity(u, x, n, to)
  PROVE  /\ n <= share[x][u] /\ n <= supply[x]
         /\ share' = [share EXCEPT ![x][u] = @ - n]
         /\ supply' = [supply EXCEPT ![x] = @ - n]
         /\ balance' \in Balances
         /\ \A t \in PairOf(x) :
              /\ Withdrawn(x, t, n) \in Nat
              /\ balance'[x][t] + Withdrawn(x, t, n) = balance[x][t]
              /\ Withdrawn(x, t, n) * supply[x] <= balance[x][t] * n
              /\ n = supply[x] => balance'[x][t] = 0
         /\ \A y \in Pools, s \in Tokens :
              y # x \/ s \notin PairOf(x) => balance'[y][s] = balance[y][s]
<1> DEFINE t0 == FirstToken[x]
           t1 == SecondToken[x]
           w0 == Withdrawn(x, t0, n)
           w1 == Withdrawn(x, t1, n)
<1>1. /\ n <= share[x][u]
      /\ balance' = Moved(Moved(balance, t0, x, to, w0), t1, x, to, w1)
      /\ share' = [share EXCEPT ![x][u] = @ - n]
      /\ supply' = [supply EXCEPT ![x] = @ - n]
  BY DEF RemoveLiquidity
<1>2. Types /\ SharesAddUp
  BY AtRest
<1>3. /\ share[x] \in [Users -> Nat] /\ supply[x] \in Nat /\ balance \in Balances
      /\ SumOver(share[x], Users) = supply[x]
  BY <1>2 DEF Types, SharesAddUp
<1>4. share[x][u] \in Nat /\ share[x][u] <= supply[x]
  BY <1>3, Addresses, OneEntryOfSum, 0 \in Int
<1>5. supply[x] \in Nat \ {0} /\ n <= supply[x]
  BY <1>1, <1>3, <1>4
<1>6. /\ t0 \in Tokens /\ t1 \in Tokens /\ to \in Accounts /\ x \in Accounts /\ to # x
      /\ Pools \subseteq Accounts /\ \A y \in Pools : y # to
  BY Addresses
<1>7. \A t \in Tokens :
        /\ balance[x][t] \in Nat
        /\ Withdrawn(x, t, n) \in Nat /\ Withdrawn(x, t, n) <= balance[x][t]
        /\ Withdrawn(x, t, n) * supply[x] <= balance[x][t] * n
        /\ n = supply[x] => Withdrawn(x, t, n) = balance[x][t]
  <2> TAKE t \in Tokens
  <2>1. balance[x][t] \in Nat
    BY <1>3, <1>6 DEF Balances
  <2> QED
    BY <1>5, <2>1, WithdrawnFacts
<1>8. /\ balance' \in Balances
      /\ balance'[x][t0] + w0 = balance[x][t0]
      /\ balance'[x][t1] + w1 = balance[x][t1]
      /\ \A c \in Accounts, s \in Tokens :
           s \notin PairOf(x) \/ (c # x /\ c # to) => balance'[c][s] = balance[c][s]
  <2>1. w0 \in Nat /\ w1 \in Nat /\ w0 <= balance[x][t0] /\ w1 <= balance[x][t1]
    BY <1>6, <1>7
  <2> HIDE DEF w0, w1
  <2> QED
    BY <1>1, <1>3, <1>6, <2>1, BothMoved
<1>9. ASSUME NEW t \in PairOf(x)
      PROVE  /\ Withdrawn(x, t, n) \in Nat
             /\ balance'[x][t] + Withdrawn(x, t, n) = balance[x][t]
             /\ Withdrawn(x, t, n) * supply[x] <= balance[x][t] * n
             /\ n = supply[x] => balance'[x][t] = 0
  <2>1. t \in Tokens /\ balance'[x][t] + Withdrawn(x, t, n) = balance[x][t]
    BY <1>6, <1>8 DEF PairOf
  <2>2. balance'[x][t] \in Nat
    BY <1>6, <1>8, <2>1 DEF Balances
  <2>3. n = supply[x] => balance'[x][t] = 0
    BY <1>7, <2>1, <2>2
  <2> QED
    BY <1>7, <2>1, <2>3
<1> QED
  BY <1>1, <1>5, <1>6, <1>8, <1>9

LEMMA AddKeeps ==
  ASSUME RouterInv, ~Busy, NEW u \in Users, NEW x \in Pools, NEW d \in Nat \X Nat,
         NEW slippage, AddLiquidity(u, x, d[1], d[2], slippage),
         UNCHANGED <<registered, route, message>>
  PROVE  RouterInv'
<1>1. /\ Types /\ SharesAddUp /\ Resting
      /\ \A y \in Pools : Unfunded(y) => \A s \in PairOf(y) : balance[y][s] = 0
  BY AtRest
<1>2. PICK m \in Nat :
           /\ supply[x] = 0 => m > 0
           /\ share' = [share EXCEPT ![x][u] = @ + m]
           /\ supply' = [supply EXCEPT ![x] = @ + m]
           /\ balance' \in Balances
           /\ \A y \in Pools, s \in Tokens :
                y # x \/ s \notin PairOf(x) => balance'[y][s] = balance[y][s]
  BY AddFacts
<1>3. UNCHANGED <<settings, gifted>>
  BY DEF AddLiquidity
<1>4. share[x] \in [Users -> Nat] /\ supply[x] \in Nat /\ SumOver(share[x], Users) = supply[x]
  BY <1>1 DEF Types, SharesAddUp
<1>5. /\ share' \in [Pools -> [Users -> Nat]] /\ supply' \in [Pools -> Nat]
      /\ share'[x] = [share[x] EXCEPT ![u] = share[x][u] + m] /\ supply'[x] = supply[x] + m
      /\ \A y \in Pools : y # x => share'[y] = share[y] /\ supply'[y] = supply[y]
  BY <1>1, <1>2, <1>4 DEF Types
<1>6. Types'
  BY <1>1, <1>2, <1>3, <1>5 DEF Types
<1>7. SumOver(share'[x], Users) = supply'[x]
  <2>1. PICK n \in Int : n = share[x][u] + m
    BY <1>4
  <2>2. /\ SumOver(share[x], Users) \in Nat /\ share[x][u] \in Nat
        /\ SumOver([share[x] EXCEPT ![u] = n], Users) + share[x][u]
             = SumOver(share[x], Users) + n
    BY <1>4, Addresses, OneEntryOfSum
  <2>3. SumOver([share[x] EXCEPT ![u] = n], Users) \in Int
    <3>1. \A v \in Users : [share[x] EXCEPT ![u] = n][v] \in Int
      BY <1>4
    <3> QED
      BY <3>1, Addresses, SumType
  <2>4. share'[x] = [share[x] EXCEPT ![u] = n]
    BY <1>5, <2>1
  <2> QED
    <3>1. /\ SumOver(share'[x], Users) + share[x][u] = supply[x] + n
          /\ SumOver(share'[x], Users) \in Int
      BY <1>4, <2>2, <2>3, <2>4
    <3>2. supply'[x] = supply[x] + m /\ share[x][u] \in Nat /\ supply[x] \in Nat
      BY <1>4, <1>5
    <3>3. PICK t \in Int : t = SumOver(share'[x], Users)
      BY <3>1
    <3>4. PICK h \in Nat, p \in Nat : h = share[x][u] /\ p = supply[x]
      BY <3>2
    <3>5. t + h = p + (h + m)
      BY <2>1, <3>1, <3>3, <3>4
    <3>6. t = p + m
      BY <3>5
    <3> QED
      BY <3>2, <3>3, <3>4, <3>6
<1>8. SharesAddUp'
  BY <1>1, <1>5, <1>7 DEF SharesAddUp
<1>9. supply'[x] # 0
  BY <1>2, <1>4, <1>5
<1>10. ASSUME NEW y \in Pools, Unfunded(y)', NEW s \in PairOf(y) PROVE balance'[y][s] = 0
  <2>1. y # x /\ Unfunded(y) /\ s \in Tokens
    BY <1>3, <1>5, <1>9, <1>10, PairFacts DEF Unfunded
  <2> QED
    BY <1>1, <1>2, <2>1
<1> QED
  BY <1>1, <1>6, <1>8, <1>10, StillAtRest

LEMMA RemoveKeeps ==
  ASSUME RouterInv, ~Busy, NEW u \in Users, NEW x \in Pools, NEW n \in Nat \ {0},
         NEW to \in Users, RemoveLiquidity(u, x, n, to),
         UNCHANGED <<registered, route, message>>
  PROVE  RouterInv'
<1>1. /\ Types /\ SharesAddUp /\ Resting
      /\ \A y \in Pools : Unfunded(y) => \A s \in PairOf(y) : balance[y][s] = 0
  BY AtRest
<1>2. /\ n <= share[x][u] /\ n <= supply[x]
      /\ share' = [share EXCEPT ![x][u] = @ - n]
      /\ supply' = [supply EXCEPT ![x] = @ - n]
      /\ balance' \in Balances
      /\ \A t \in PairOf(x) : n = supply[x] => balance'[x][t] = 0
      /\ \A y \in Pools, s \in Tokens :
           y # x \/ s \notin PairOf(x) => balance'[y][s] = balance[y][s]
  BY RemoveFacts
<1>3. UNCHANGED <<settings, gifted>>
  BY DEF RemoveLiquidity
<1>4. share[x] \in [Users -> Nat] /\ supply[x] \in Nat /\ SumOver(share[x], Users) = supply[x]
  BY <1>1 DEF Types, SharesAddUp
<1>5. /\ share' \in [Pools -> [Users -> Nat]] /\ supply' \in [Pools -> Nat]
      /\ share'[x] = [share[x] EXCEPT ![u] = share[x][u] - n] /\ supply'[x] = supply[x] - n
      /\ \A y \in Pools : y # x => share'[y] = share[y] /\ supply'[y] = supply[y]
  BY <1>1, <1>2, <1>4 DEF Types
<1>6. Types'
  BY <1>1, <1>2, <1>3, <1>5 DEF Types
<1>7. SumOver(share'[x], Users) = supply'[x]
  <2>1. PICK k \in Nat : k = share[x][u] - n
    BY <1>2, <1>4
  <2>2. /\ SumOver(share[x], Users) \in Nat /\ share[x][u] \in Nat
        /\ SumOver([share[x] EXCEPT ![u] = k], Users) + share[x][u]
             = SumOver(share[x], Users) + k
    BY <1>4, <2>1, Addresses, OneEntryOfSum, k \in Int
  <2>3. SumOver([share[x] EXCEPT ![u] = k], Users) \in Int
    <3>1. \A v \in Users : [share[x] EXCEPT ![u] = k][v] \in Int
      BY <1>4
    <3> QED
      BY <3>1, Addresses, SumType
  <2>4. share'[x] = [share[x] EXCEPT ![u] = k]
    BY <1>5, <2>1
  <2>5. /\ SumOver(share'[x], Users) + share[x][u] = supply[x] + k
        /\ SumOver(share'[x], Users) \in Int
    BY <1>4, <2>2, <2>3, <2>4
  <2>6. supply'[x] = supply[x] - n /\ share[x][u] \in Nat /\ supply[x] \in Nat
    BY <1>4, <1>5
  <2>7. n \in Nat /\ share[x][u] = k + n
    BY <1>4, <2>1
  <2>8. \A t \in Int, p, i, j \in Nat : t + (i + j) = p + i => t = p - j
    OBVIOUS
  <2>9. SumOver(share'[x], Users) = supply[x] - n
    BY <2>1, <2>5, <2>6, <2>7, <2>8
  <2> QED
    BY <2>6, <2>9
<1>8. SharesAddUp'
  BY <1>1, <1>5, <1>7 DEF SharesAddUp
<1>9. supply'[x] = 0 => n = supply[x]
  <2>1. supply'[x] = supply[x] - n /\ supply[x] \in Nat
    BY <1>4, <1>5
  <2> QED
    BY <2>1
<1>10. ASSUME NEW y \in Pools, Unfunded(y)', NEW s \in PairOf(y) PROVE balance'[y][s] = 0
  <2>1. s \in Tokens
    BY PairFacts
  <2>2. CASE y = x
    BY <1>2, <1>9, <1>10, <2>2 DEF Unfunded
  <2>3. CASE y # x
    <3>1. Unfunded(y)
      BY <1>3, <1>5, <1>10, <2>3 DEF Unfunded
    <3> QED
      BY <1>1, <1>2, <2>1, <2>3, <3>1
  <2> QED
    BY <2>2, <2>3
<1> QED
  BY <1>1, <1>6, <1>8, <1>10, StillAtRest

\* A gift is remembered as one, or goes to the router.
LEMMA TransferKeeps ==
  ASSUME RouterInv, ~Busy, NEW u \in Users, NEW t \in Tokens, NEW n \in Nat,
         NEW to \in Pools \cup {Router}, Transfer(u, t, n, to),
         UNCHANGED <<registered, route, message>>
  PROVE  RouterInv'
<1>1. /\ Types /\ SharesAddUp /\ Resting
      /\ \A y \in Pools : Unfunded(y) => \A s \in PairOf(y) : balance[y][s] = 0
  BY AtRest
<1>2. /\ n <= balance[u][t] /\ balance' = Moved(balance, t, u, to, n)
      /\ gifted' = gifted \cup ({to} \cap Pools)
      /\ UNCHANGED <<share, supply, settings>>
  BY DEF Transfer
<1>3. /\ u \in Accounts /\ to \in Accounts /\ u # to /\ Pools \subseteq Accounts
      /\ \A y \in Pools : y # u
  BY Addresses
<1>4. /\ balance' \in Balances
      /\ \A c \in Accounts, s \in Tokens :
           s # t \/ (c # u /\ c # to) => balance'[c][s] = balance[c][s]
  BY <1>1, <1>2, <1>3, MovedFacts DEF Types
<1>5. Types' /\ SharesAddUp'
  BY <1>1, <1>2, <1>4 DEF Types, SharesAddUp
<1>6. ASSUME NEW y \in Pools, Unfunded(y)', NEW s \in PairOf(y) PROVE balance'[y][s] = 0
  <2>1. Unfunded(y) /\ y # to /\ s \in Tokens
    BY <1>2, <1>6, PairFacts DEF Unfunded
  <2> QED
    BY <1>1, <1>3, <1>4, <2>1
<1> QED
  BY <1>1, <1>5, <1>6, StillAtRest

LEMMA RecoverKeeps ==
  ASSUME RouterInv, ~Busy, NEW t \in Tokens, NEW n \in Nat, NEW to \in Users,
         RecoverFunds(t, n, to)
  PROVE  RouterInv'
<1>1. /\ Types /\ SharesAddUp /\ Resting
      /\ \A y \in Pools : Unfunded(y) => \A s \in PairOf(y) : balance[y][s] = 0
  BY AtRest
<1>2. /\ n <= balance[Router][t] /\ balance' = Moved(balance, t, Router, to, n)
      /\ UNCHANGED <<share, supply, settings, gifted, registered, route, message>>
  BY DEF RecoverFunds
<1>3. /\ Router \in Accounts /\ to \in Accounts /\ Router # to /\ Pools \subseteq Accounts
      /\ \A y \in Pools : y # Router /\ y # to
  BY Addresses
<1>4. /\ balance' \in Balances
      /\ \A c \in Accounts, s \in Tokens :
           s # t \/ (c # Router /\ c # to) => balance'[c][s] = balance[c][s]
  BY <1>1, <1>2, <1>3, MovedFacts DEF Types
<1>5. Types' /\ SharesAddUp'
  BY <1>1, <1>2, <1>4 DEF Types, SharesAddUp
<1>6. ASSUME NEW y \in Pools, Unfunded(y)', NEW s \in PairOf(y) PROVE balance'[y][s] = 0
  <2>1. Unfunded(y) /\ s \in Tokens
    BY <1>2, <1>6, PairFacts DEF Unfunded
  <2> QED
    BY <1>1, <1>3, <1>4, <2>1
<1> QED
  BY <1>1, <1>2, <1>5, <1>6, StillAtRest

\* New fees, and a token that registers, move nothing.
LEMMA SettingKeeps ==
  ASSUME RouterInv, ~Busy,
         UNCHANGED <<balance, share, supply, gifted, route, message>>,
         settings' \in SettingsChoices, registered' \subseteq Tokens \ {Native}
  PROVE  RouterInv'
<1>1. /\ Types /\ SharesAddUp /\ Resting
      /\ \A y \in Pools : Unfunded(y) => \A s \in PairOf(y) : balance[y][s] = 0
  BY AtRest
<1>2. Types' /\ SharesAddUp'
  BY <1>1 DEF Types, SharesAddUp
<1>3. \A y \in Pools : Unfunded(y)' => \A s \in PairOf(y) : balance'[y][s] = 0
  BY <1>1 DEF Unfunded
<1> QED
  BY <1>1, <1>2, <1>3, StillAtRest

LEMMA SingleKeeps == ASSUME RouterInv, Single PROVE RouterInv'
<1>1. ~Busy
  BY DEF Single
<1>2. /\ Amounts \subseteq Nat \ {0} /\ Providers \subseteq Users /\ Traders \subseteq Users
      /\ Deposits \subseteq Nat \X Nat
      /\ Gifts \subseteq [token: Tokens, to: Pools \cup {Router}, amount: Nat]
      /\ TokenLists \subseteq SUBSET (Tokens \ {Native})
      /\ settings \in SettingsChoices /\ registered \subseteq Tokens \ {Native}
  BY Addresses, RouterAssumption DEF RouterInv, Types
<1>3. CASE UserSwaps /\ UNCHANGED <<registered, route, message, sent>>
  <2>1. PICK u \in Traders, x \in Pools, n \in Amounts, e \in Amounts,
             to \in Traders \cup {Router} :
          \E t \in PairOf(x) : Swap(u, x, t, n, e, to)
    BY <1>3 DEF UserSwaps
  <2>2. PICK t \in PairOf(x) : Swap(u, x, t, n, e, to)
    BY <2>1
  <2>3. u \in Users /\ to \in Users \cup {Router} /\ n \in Nat /\ e \in Nat
    BY <1>2
  <2> QED
    BY <1>1, <1>3, <2>2, <2>3, UserSwapKeeps
<1>4. CASE UserAddsLiquidity /\ UNCHANGED <<registered, route, message, sent>>
  <2>1. PICK u \in Providers, x \in Pools, d \in Deposits, s \in Slippages :
          AddLiquidity(u, x, d[1], d[2], s)
    BY <1>4 DEF UserAddsLiquidity
  <2>2. u \in Users /\ d \in Nat \X Nat
    BY <1>2
  <2> QED
    BY <1>1, <1>4, <2>1, <2>2, AddKeeps
<1>5. CASE UserRemovesLiquidity /\ UNCHANGED <<registered, route, message, sent>>
  <2>1. PICK u \in Providers, x \in Pools, n \in Amounts, to \in Users :
          RemoveLiquidity(u, x, n, to)
    BY <1>5 DEF UserRemovesLiquidity
  <2>2. u \in Users /\ n \in Nat \ {0}
    BY <1>2
  <2> QED
    BY <1>1, <1>5, <2>1, <2>2, RemoveKeeps
<1>6. CASE UserTransfers /\ UNCHANGED <<registered, route, message, sent>>
  <2>1. PICK u \in Users, g \in Gifts : Transfer(u, g.token, g.amount, g.to)
    BY <1>6 DEF UserTransfers
  <2>2. g.token \in Tokens /\ g.amount \in Nat /\ g.to \in Pools \cup {Router}
    BY <1>2
  <2> QED
    BY <1>1, <1>6, <2>1, <2>2, TransferKeeps
<1>7. CASE SetExchangeSettings /\ UNCHANGED <<registered, route, message, sent>>
  BY <1>1, <1>2, <1>7, SettingKeeps DEF SetExchangeSettings
<1>8. ASSUME NEW tokens \in TokenLists, RegisterTokens(tokens) PROVE RouterInv'
  <2>1. registered' \subseteq Tokens \ {Native}
    BY <1>2, <1>8 DEF RegisterTokens
  <2>2. UNCHANGED <<balance, share, supply, gifted, route, message, settings>>
    BY <1>8 DEF RegisterTokens, exchangeVars
  <2> QED
    BY <1>1, <1>2, <2>1, <2>2, SettingKeeps
<1>9. ASSUME NEW t \in Tokens, NEW n \in Amounts, NEW to \in Providers, RecoverFunds(t, n, to)
      PROVE  RouterInv'
  <2>1. n \in Nat /\ to \in Users
    BY <1>2
  <2> QED
    BY <1>1, <1>9, <2>1, RecoverKeeps
<1> QED
  BY <1>3, <1>4, <1>5, <1>6, <1>7, <1>8, <1>9 DEF Single

LEMMA RouterInit == Init => RouterInv
<1> SUFFICES ASSUME Init PROVE RouterInv
  OBVIOUS
<1>1. /\ balance = [a \in Accounts |->
                      IF a \in Users THEN Purse[a] ELSE [t \in Tokens |-> 0]]
      /\ share = [x \in Pools |-> [u \in Users |-> 0]]
      /\ supply = [x \in Pools |-> 0]
      /\ settings \in SettingsChoices /\ gifted = {}
      /\ registered = {} /\ route = NoRoute /\ message = None
  BY DEF Init, ExchangeInit
<1>2. Purse \in [Users -> [Tokens -> Nat]]
  BY ExchangeAssumption
<1>3. balance \in Balances
  <2>1. \A a \in Accounts :
          (IF a \in Users THEN Purse[a] ELSE [t \in Tokens |-> 0]) \in [Tokens -> Nat]
    BY <1>2
  <2> QED
    BY <1>1, <2>1 DEF Balances
<1>4. Types
  BY <1>1, <1>3 DEF Types
<1>5. SharesAddUp
  <2> SUFFICES ASSUME NEW x \in Pools PROVE SumOver(share[x], Users) = supply[x]
    BY DEF SharesAddUp
  <2>1. \A u \in Users : share[x][u] = 0
    BY <1>1
  <2>2. SumOver(share[x], Users) = 0
    BY <2>1, Addresses, SumOfZeros
  <2> QED
    BY <1>1, <2>2
<1>6. Emptied
  <2> SUFFICES ASSUME NEW x \in Pools, NEW t \in PairOf(x)
               PROVE  balance[x][t] = Delivering(x, t)
    BY DEF Emptied
  <2>1. x \in Accounts /\ x \notin Users /\ t \in Tokens
    BY Addresses, PairFacts
  <2>2. balance[x][t] = 0
    BY <1>1, <2>1
  <2>3. Delivering(x, t) = 0
    BY <1>1 DEF Delivering, None
  <2> QED
    BY <2>2, <2>3
<1> QED
  BY <1>1, <1>4, <1>5, <1>6 DEF RouterInv, Resting

LEMMA RouterStep == RouterInv /\ [Next]_vars => RouterInv'
<1> SUFFICES ASSUME RouterInv, [Next]_vars PROVE RouterInv'
  OBVIOUS
<1>1. CASE UNCHANGED vars
  <2>1. UNCHANGED <<balance, share, supply, settings, gifted, registered, route, message, sent>>
    BY <1>1 DEF vars, exchangeVars
  <2>2. (Types /\ SharesAddUp /\ Emptied)'
    BY <2>1 DEF RouterInv, Types, SharesAddUp, Emptied, Unfunded, Delivering
  <2>3. (Resting \/ Underway)'
    BY <2>1 DEF RouterInv, Resting, Underway, SentShape, Unfunded, Starting, Swapping,
                Receiving, Finalizing, RouteShape, SenderPaid, Paid, Holds, HoldsNothing,
                UsersServed
  <2> QED
    BY <2>2, <2>3 DEF RouterInv
<1>2. CASE UserSendsRoute
  <2>1. PICK u \in Traders, to \in Providers, t \in Tokens, n \in Amounts, e \in Amounts,
             hops \in Routes : SendRoute(u, t, n, hops, e, to)
    BY <1>2 DEF UserSendsRoute
  <2> QED
    BY <2>1, SendKeeps
<1> QED
  BY <1>1, <1>2, SingleKeeps, FirstHopKeeps, PoolKeeps, HopKeeps, FinalizeKeeps DEF Next

LEMMA RouterInvHolds == Spec => []RouterInv
<1> QED
  BY RouterInit, RouterStep, PTL DEF Spec

-----------------------------------------------------------------------------
(* What holds of the pools.                                                *)

LEMMA RouterTypes == RouterInv => TypeOK
<1> SUFFICES ASSUME RouterInv PROVE TypeOK
  OBVIOUS
<1>1. ExchangeTypeOK /\ registered \subseteq Tokens \ {Native}
  BY DEF RouterInv, Types, Balances, ExchangeTypeOK
<1>2. CASE Resting
  BY <1>1, <1>2 DEF Resting, TypeOK
<1>3. CASE Starting
  BY <1>1, <1>3 DEF Starting, TypeOK
<1>4. CASE Swapping
  BY <1>1, <1>4 DEF Swapping, RouteShape, RouteStates, TypeOK
<1>5. CASE Receiving
  BY <1>1, <1>5 DEF Receiving, RouteShape, RouteStates, TypeOK
<1>6. CASE Finalizing
  BY <1>1, <1>6 DEF Finalizing, RouteShape, RouteStates, TypeOK
<1> QED
  BY <1>2, <1>3, <1>4, <1>5, <1>6 DEF RouterInv, Underway

\* When a pool's last LP token is burned nothing is left in it, whatever was swapped,
\* deposited and withdrawn before: unless someone has transferred it tokens, which the
\* pool cannot tell from its reserves.  (exchange, remove_liquidity and compute_swap.)
THEOREM NothingStrandedHolds == Spec => []NothingStranded
<1>1. RouterInv => NothingStranded
  <2> SUFFICES ASSUME RouterInv PROVE NothingStranded
    OBVIOUS
  <2>1. ASSUME ~Busy, NEW x \in Pools, supply[x] = 0, x \notin gifted, NEW t \in PairOf(x)
        PROVE  balance[x][t] = 0
    BY <2>1, AtRest DEF Unfunded
  <2> QED
    BY <2>1, RouterTypes DEF NothingStranded
<1> QED
  BY <1>1, RouterInvHolds, PTL

\* Only adding and removing liquidity changes what there is of an LP token.
LEMMA SharesChange ==
  ASSUME [Next]_vars, supply' # supply
  PROVE  ~Busy /\ (UserAddsLiquidity \/ UserRemovesLiquidity)
<1>1. ~UNCHANGED vars /\ ~UNCHANGED supply
  BY DEF vars, exchangeVars
<1>2. ~UserSendsRoute
  BY <1>1 DEF UserSendsRoute, SendRoute
<1>3. ~HandleFirstHop /\ ~PoolSwaps /\ ~HandleHop /\ ~FinalizeRoute
  BY <1>1 DEF HandleFirstHop, PoolSwaps, HandleHop, FinalizeRoute
<1>4. ~UserSwaps /\ ~UserTransfers /\ ~SetExchangeSettings
  BY <1>1 DEF UserSwaps, Swap, UserTransfers, Transfer, SetExchangeSettings
<1>5. /\ \A tokens \in TokenLists : ~RegisterTokens(tokens)
      /\ \A t \in Tokens, n \in Amounts, to \in Providers : ~RecoverFunds(t, n, to)
  BY <1>1 DEF RegisterTokens, RecoverFunds, exchangeVars
<1> QED
  BY <1>1, <1>2, <1>3, <1>4, <1>5 DEF Next, Single

WorthKept ==
  \A x \in Pools :
    supply[x] > 0 /\ supply'[x] # supply[x] =>
      \A t \in PairOf(x) : balance'[x][t] * supply[x] >= balance[x][t] * supply'[x]

LEMMA AddKeepsWorth ==
  ASSUME RouterInv, ~Busy, NEW u \in Users, NEW y \in Pools, NEW d \in Nat \X Nat,
         NEW slippage, AddLiquidity(u, y, d[1], d[2], slippage)
  PROVE  WorthKept
<1>1. PICK m \in Nat :
        /\ supply[y] > 0 => /\ m * balance[y][FirstToken[y]] <= d[1] * supply[y]
                            /\ m * balance[y][SecondToken[y]] <= d[2] * supply[y]
        /\ supply' = [supply EXCEPT ![y] = @ + m]
        /\ balance'[y][FirstToken[y]] = balance[y][FirstToken[y]] + d[1]
        /\ balance'[y][SecondToken[y]] = balance[y][SecondToken[y]] + d[2]
  BY AddFacts
<1> SUFFICES ASSUME NEW x \in Pools, supply[x] > 0, supply'[x] # supply[x],
                    NEW t \in PairOf(x)
             PROVE  balance'[x][t] * supply[x] >= balance[x][t] * supply'[x]
  BY DEF WorthKept
<1>2. x = y /\ supply'[x] = supply[x] + m /\ supply[x] \in Nat
  BY <1>1 DEF RouterInv, Types
<1>3. PICK e \in Nat : m * balance[x][t] <= e * supply[x] /\ balance'[x][t] = balance[x][t] + e
  BY <1>1, <1>2 DEF PairOf
<1>4. balance[x][t] \in Nat
  <2>1. x \in Accounts /\ t \in Tokens
    BY PairFacts, Addresses
  <2> QED
    BY <2>1 DEF RouterInv, Types, Balances
<1> DEFINE p == balance[x][t]
           s == supply[x]
<1> HIDE DEF p, s
<1>5. /\ p \in Nat /\ s \in Nat /\ m * p <= e * s
      /\ balance'[x][t] = p + e /\ supply'[x] = s + m
  BY <1>2, <1>3, <1>4 DEF p, s
<1>6. (p + e) * s >= p * (s + m)
  <2>1. (p + e) * s = p * s + e * s /\ p * (s + m) = p * s + m * p
    BY <1>5, SMT
  <2>2. p * s \in Int /\ e * s \in Int /\ m * p \in Int
    BY <1>5, SMT
  <2> QED
    BY <1>5, <2>1, <2>2
<1> QED
  BY <1>5, <1>6 DEF p, s

LEMMA RemoveKeepsWorth ==
  ASSUME RouterInv, ~Busy, NEW u \in Users, NEW y \in Pools, NEW n \in Nat \ {0},
         NEW to \in Users, RemoveLiquidity(u, y, n, to)
  PROVE  WorthKept
<1>1. /\ n <= supply[y] /\ supply' = [supply EXCEPT ![y] = @ - n]
      /\ \A t \in PairOf(y) :
           /\ Withdrawn(y, t, n) \in Nat
           /\ balance'[y][t] + Withdrawn(y, t, n) = balance[y][t]
           /\ Withdrawn(y, t, n) * supply[y] <= balance[y][t] * n
      /\ balance' \in Balances
  BY RemoveFacts
<1> SUFFICES ASSUME NEW x \in Pools, supply[x] > 0, supply'[x] # supply[x],
                    NEW t \in PairOf(x)
             PROVE  balance'[x][t] * supply[x] >= balance[x][t] * supply'[x]
  BY DEF WorthKept
<1>2. x = y /\ supply'[x] = supply[x] - n /\ supply[x] \in Nat
  BY <1>1 DEF RouterInv, Types
<1>3. PICK w \in Nat : w * supply[x] <= balance[x][t] * n /\ balance'[x][t] + w = balance[x][t]
  BY <1>1, <1>2
<1>4. balance[x][t] \in Nat /\ balance'[x][t] \in Nat
  <2>1. x \in Accounts /\ t \in Tokens
    BY PairFacts, Addresses
  <2> QED
    BY <1>1, <2>1 DEF RouterInv, Types, Balances
<1> DEFINE p == balance[x][t]
           q == balance'[x][t]
           s == supply'[x]
<1> HIDE DEF p, q, s
<1>5. /\ p \in Nat /\ q \in Nat /\ s \in Nat /\ w * (s + n) <= p * n /\ q + w = p
      /\ supply[x] = s + n
  BY <1>1, <1>2, <1>3, <1>4 DEF p, q, s
<1>6. q * (s + n) >= p * s
  <2>1. (q + w) * (s + n) = q * (s + n) + w * (s + n) /\ p * (s + n) = p * s + p * n
    BY <1>5, SMT
  <2>2. /\ q * (s + n) \in Int /\ w * (s + n) \in Int /\ p * (s + n) \in Int
        /\ p * s \in Int /\ p * n \in Int
    BY <1>5, SMT
  <2> QED
    BY <1>5, <2>1, <2>2
<1> QED
  BY <1>5, <1>6 DEF p, q, s

\* Nobody's coming or going costs the other liquidity providers: the reserves behind
\* one LP token, in either of the pool's tokens, never shrink when LP tokens are minted
\* or burned, however the amounts round.  (exchange, add_liquidity, remove_liquidity.)
THEOREM SharesKeepWorthHolds == Spec => SharesKeepWorth
<1>1. RouterInv /\ [Next]_vars => WorthKept
  <2> SUFFICES ASSUME RouterInv, [Next]_vars PROVE WorthKept
    OBVIOUS
  <2>1. CASE supply' = supply
    BY <2>1 DEF WorthKept
  <2>2. CASE supply' # supply
    <3>1. ~Busy /\ (UserAddsLiquidity \/ UserRemovesLiquidity)
      BY <2>2, SharesChange
    <3>2. /\ Amounts \subseteq Nat \ {0} /\ Providers \subseteq Users
          /\ Deposits \subseteq Nat \X Nat
      BY Addresses, RouterAssumption
    <3>3. CASE UserAddsLiquidity
      <4>1. PICK u \in Providers, x \in Pools, d \in Deposits, s \in Slippages :
              AddLiquidity(u, x, d[1], d[2], s)
        BY <3>3 DEF UserAddsLiquidity
      <4>2. u \in Users /\ d \in Nat \X Nat
        BY <3>2
      <4> QED
        BY <3>1, <4>1, <4>2, AddKeepsWorth
    <3>4. CASE UserRemovesLiquidity
      <4>1. PICK u \in Providers, x \in Pools, n \in Amounts, to \in Users :
              RemoveLiquidity(u, x, n, to)
        BY <3>4 DEF UserRemovesLiquidity
      <4>2. u \in Users /\ n \in Nat \ {0}
        BY <3>2
      <4> QED
        BY <3>1, <4>1, <4>2, RemoveKeepsWorth
    <3> QED
      BY <3>1, <3>3, <3>4
  <2> QED
    BY <2>1, <2>2
<1>2. WorthKept =>
        \A x \in Pools :
          supply[x] > 0 /\ supply'[x] # supply[x] =>
            \A t \in PairOf(x) : balance'[x][t] * supply[x] >= balance[x][t] * supply'[x]
  BY DEF WorthKept
<1> QED
  BY <1>1, <1>2, RouterInvHolds, PTL DEF Spec, SharesKeepWorth

-----------------------------------------------------------------------------
(* What rounding costs the pools.                                          *)

PoolsOnlyGain == \A x \in Pools, s \in Tokens : balance'[x][s] >= balance[x][s]

LEMMA MoveToPools ==
  ASSUME Types, NEW t \in Tokens, NEW from \in Accounts \ Pools, NEW to \in Accounts,
         from # to, NEW n \in Nat, n <= balance[from][t],
         balance' = Moved(balance, t, from, to, n)
  PROVE  PoolsOnlyGain
<1> SUFFICES ASSUME NEW x \in Pools, NEW s \in Tokens
             PROVE  balance'[x][s] >= balance[x][s]
  BY DEF PoolsOnlyGain
<1>1. x \in Accounts /\ x # from
  BY Addresses
<1>2. balance[x][s] \in Nat
  BY <1>1 DEF Types, Balances
<1>3. /\ balance'[to][t] = balance[to][t] + n
      /\ s # t \/ x # to => balance'[x][s] = balance[x][s]
  BY <1>1, MovedFacts DEF Types
<1> QED
  BY <1>2, <1>3

RoundedByLessThanOne(x, t) ==
  LET o == Other(x, t)
      before == balance[x][t] - Delivering(x, t)
  IN /\ t \in PairOf(x) /\ supply'[x] = supply[x] /\ ~RouteEnds
     /\ balance'[x][t] > before /\ balance'[x][o] < balance[x][o]
     => balance'[x][t] * (balance'[x][o] + 1) > before * balance[x][o]

\* A pool that loses nothing rounds nothing.
LEMMA GainRounds ==
  ASSUME Types, NEW x \in Pools, NEW t \in Tokens, Types',
         balance'[x][Other(x, t)] >= balance[x][Other(x, t)]
  PROVE  RoundedByLessThanOne(x, t)
<1> SUFFICES ASSUME t \in PairOf(x), balance'[x][Other(x, t)] < balance[x][Other(x, t)]
             PROVE  FALSE
  BY DEF RoundedByLessThanOne
<1>1. x \in Accounts /\ Other(x, t) \in Tokens
  BY Addresses, PairFacts
<1>2. balance[x][Other(x, t)] \in Nat /\ balance'[x][Other(x, t)] \in Nat
  BY <1>1 DEF Types, Balances
<1> QED
  BY <1>2

LEMMA OnlyGainRounds ==
  ASSUME Types, Types', PoolsOnlyGain, NEW x \in Pools, NEW t \in Tokens
  PROVE  RoundedByLessThanOne(x, t)
<1>1. CASE t \in PairOf(x)
  <2>1. Other(x, t) \in Tokens
    BY <1>1, PairFacts
  <2> QED
    BY <2>1, GainRounds DEF PoolsOnlyGain
<1>2. CASE t \notin PairOf(x)
  BY <1>2 DEF RoundedByLessThanOne
<1> QED
  BY <1>1, <1>2

\* A swap in pool y of n of token s: b are the balances with the n there.
LEMMA SwapRounds ==
  ASSUME Types, Types', NEW b \in Balances, NEW y \in Pools, NEW s, NEW n \in Nat,
         CanSwap(b, y, s, n), NEW to \in Users \cup {Router},
         balance' = Swapped(b, y, s, n, to),
         b[y][s] = balance[y][s] - Delivering(y, s) + n, Delivering(y, s) \in Nat,
         Delivering(y, Other(y, s)) = 0,
         \A x \in Pools, t \in Tokens : x # y \/ t # s => b[x][t] = balance[x][t],
         NEW x \in Pools, NEW t \in Tokens
  PROVE  RoundedByLessThanOne(x, t)
<1>1. /\ s \in Tokens /\ Other(y, s) \in Tokens /\ Other(y, s) # s /\ s \in PairOf(y)
      /\ Other(y, Other(y, s)) = s /\ \A v \in PairOf(y) : v = s \/ v = Other(y, s)
      /\ y \in Accounts \ {Burner} /\ x \in Accounts \ {Burner} /\ x # to /\ y # to
  BY PairFacts, Addresses DEF CanSwap
<1> DEFINE o == Other(y, s)
           f == SiennaCommission(n)
           r == ReturnAmount(b, y, s, n)
<1>2. /\ balance'[y][s] = b[y][s] - f /\ balance'[y][o] = b[y][o] - r
      /\ \A c \in Accounts \ {Burner}, v \in Tokens :
            \/ c # y /\ c # to
            \/ c = to /\ v # o
            \/ c = y /\ v # o /\ v # s
            => balance'[c][v] = b[c][v]
  BY SwappedFacts DEF Types
<1>3. /\ f \in Nat /\ r \in Nat /\ r <= b[y][o]
      /\ OfferPool(b, y, s, n) \in Nat
      /\ OfferPool(b, y, s, n) * b[y][o] < (b[y][s] - f) * (b[y][o] - r + 1)
  BY ReturnFacts DEF Types
<1>4. b[y][o] = balance[y][o] /\ balance[y][o] \in Nat /\ balance[y][s] \in Nat
  BY <1>1 DEF Types, Balances
<1>5. CASE x # y
  <2> SUFFICES ASSUME t \in PairOf(x), balance'[x][Other(x, t)] < balance[x][Other(x, t)]
               PROVE  FALSE
    BY DEF RoundedByLessThanOne
  <2>1. Other(x, t) \in Tokens
    BY PairFacts
  <2>2. balance'[x][Other(x, t)] = balance[x][Other(x, t)] /\ balance[x][Other(x, t)] \in Nat
    BY <1>1, <1>2, <1>5, <2>1 DEF Types, Balances
  <2> QED
    BY <2>2
<1>6. CASE x = y /\ t = o
  <2>1. Delivering(x, t) = 0 /\ balance[x][t] \in Nat
    BY <1>4, <1>6
  <2>2. balance'[x][t] = balance[x][t] - r
    BY <1>2, <1>4, <1>6
  <2> HIDE DEF r, f, o
  <2>3. ~(balance'[x][t] > balance[x][t] - Delivering(x, t))
    BY <1>3, <2>1, <2>2
  <2> QED
    BY <2>3 DEF RoundedByLessThanOne
<1>7. CASE x = y /\ t = s
  <2>1. OfferPool(b, y, s, n) = balance[x][t] - Delivering(x, t)
    <3>1. b[y][s] - n = balance[y][s] - Delivering(y, s)
      BY <1>4
    <3> QED
      BY <1>7, <3>1 DEF OfferPool
  <2>2. /\ balance'[x][t] = b[y][s] - f
        /\ balance'[x][o] = b[y][o] - r
        /\ Other(x, t) = o /\ balance[x][o] = b[y][o]
    BY <1>2, <1>4, <1>7
  <2> HIDE DEF r, f, o
  <2>3. (balance[x][t] - Delivering(x, t)) * balance[x][o]
          < balance'[x][t] * (balance'[x][o] + 1)
    BY <1>3, <2>1, <2>2
  <2>4. /\ (balance[x][t] - Delivering(x, t)) * balance[x][o] \in Int
        /\ balance'[x][t] * (balance'[x][o] + 1) \in Int
    <3>1. balance[x][t] - Delivering(x, t) \in Int /\ balance[x][o] \in Int
      BY <1>3, <1>4, <2>1, <2>2
    <3>2. balance'[x][t] \in Int /\ balance'[x][o] \in Int
      BY <1>1, <1>7, <2>2 DEF Types, Balances, o
    <3> QED
      BY <3>1, <3>2, SMT
  <2> QED
    BY <2>2, <2>3, <2>4 DEF RoundedByLessThanOne
<1>8. CASE x = y /\ t # s /\ t # o
  BY <1>1, <1>8 DEF RoundedByLessThanOne
<1> QED
  BY <1>5, <1>6, <1>7, <1>8

LEMMA UserSwapRounds ==
  ASSUME RouterInv, Types', ~Busy, NEW u \in Users, NEW y \in Pools, NEW s, NEW n \in Nat,
         NEW e \in Nat, NEW to \in Users \cup {Router}, Swap(u, y, s, n, e, to),
         NEW x \in Pools, NEW t \in Tokens
  PROVE  RoundedByLessThanOne(x, t)
<1>1. Types /\ message = None
  BY AtRest DEF Resting
<1>2. PICK b \in Balances :
        /\ CanSwap(b, y, s, n) /\ balance' = Swapped(b, y, s, n, to)
        /\ b[y][s] = balance[y][s] + n
        /\ \A z \in Pools, v \in Tokens : z # y \/ v # s => b[z][v] = balance[z][v]
  BY <1>1, UserSwapFacts
<1>3. \A v : Delivering(y, v) = 0
  BY <1>1 DEF Delivering, None
<1>4. b[y][s] = balance[y][s] - Delivering(y, s) + n
  <2>1. y \in Accounts /\ s \in Tokens
    BY <1>2, PairFacts, Addresses DEF CanSwap
  <2>2. balance[y][s] \in Nat
    BY <1>1, <2>1 DEF Types, Balances
  <2> QED
    BY <1>2, <1>3, <2>2
<1>5. Delivering(y, s) \in Nat /\ Delivering(y, Other(y, s)) = 0
  BY <1>3
<1> QED
  BY <1>1, <1>2, <1>4, <1>5, SwapRounds

LEMMA PoolSwapRounds ==
  ASSUME RouterInv, Types', PoolSwaps, ~RouteEnds, NEW x \in Pools, NEW t \in Tokens
  PROVE  RoundedByLessThanOne(x, t)
<1> DEFINE y == message.pool
           s == message.token
           n == message.amount
           to == message.to
<1>1. message.kind = "swap"
  BY DEF PoolSwaps
<1>2. Underway /\ Swapping /\ Types
  BY <1>1, Kinds DEF RouterInv, Underway
<1>3. /\ y \in Pools /\ s \in PairOf(y) /\ n \in Nat /\ to \in Users \cup {Router}
  BY <1>2 DEF Swapping, SwapMessages
<1>4. ~Revert
  BY <1>2, Kinds DEF Revert, RouteEnds
<1>5. CanSwap(balance, y, s, n) /\ balance' = Swapped(balance, y, s, n, to)
  BY <1>4 DEF PoolSwaps, Delivered
<1>6. y \in Accounts /\ s \in Tokens /\ Other(y, s) # s
  BY <1>3, PairFacts, Addresses
<1>7. Delivering(y, s) = n /\ Delivering(y, Other(y, s)) = 0
  BY <1>1, <1>6 DEF Delivering
<1>8. balance[y][s] = balance[y][s] - Delivering(y, s) + n
  <2>1. balance[y][s] \in Nat
    BY <1>2, <1>6 DEF Types, Balances
  <2> HIDE DEF y, s, n
  <2> QED
    BY <1>3, <1>7, <2>1
<1>9. balance \in Balances
  BY <1>2 DEF Types
<1> HIDE DEF y, s, n, to
<1> QED
  BY <1>2, <1>3, <1>5, <1>7, <1>8, <1>9, SwapRounds

LEMMA MessagesRound ==
  ASSUME RouterInv, Types', ~RouteEnds, HandleFirstHop \/ HandleHop \/ FinalizeRoute
  PROVE  PoolsOnlyGain
<1>1. message.kind \in {"start", "receive", "finalize"}
  BY DEF HandleFirstHop, HandleHop, FinalizeRoute
<1>2. Types /\ Underway /\ (Starting \/ Receiving \/ Finalizing)
  BY <1>1, Kinds DEF RouterInv, Underway
<1>3. ~Revert /\ message' # None
  BY <1>2, Kinds DEF Revert, RouteEnds
<1>4. ASSUME NEW hop \in Hops, NEW n \in Nat, NEW e, NEW to, n <= balance[Router][hop.token],
             SendToPool(balance, hop, n, e, to)
      PROVE  PoolsOnlyGain
  <2>1. /\ hop.token \in Tokens /\ hop.pool \in Pools /\ Router \in Accounts \ Pools
        /\ hop.pool \in Accounts /\ hop.pool # Router
    BY Addresses DEF Hops
  <2>2. balance' = Moved(balance, hop.token, Router, hop.pool, n)
    BY <1>4 DEF SendToPool
  <2> QED
    BY <1>2, <1>4, <2>1, <2>2, MoveToPools
<1>5. ASSUME NEW t \in Tokens, NEW n \in Nat, Holds(t, n)
      PROVE  n <= balance[Router][t]
  <2>1. sent.balance[Router][t] \in Nat
    BY <1>2, Addresses DEF Underway, SentShape, Balances
  <2> QED
    BY <1>5, <2>1 DEF Holds
<1>6. CASE HandleFirstHop
  <2>1. Starting
    BY <1>2, <1>6, Kinds DEF HandleFirstHop
  <2>2. /\ SendToPool(balance, message.hops[1], message.amount, 0, Router)
        /\ CanRoute(message)
    BY <1>3, <1>6 DEF HandleFirstHop
  <2>3. message.hops \in Routes /\ message.amount \in Nat /\ message.token \in Tokens
    BY <2>1 DEF Starting, StartMessages
  <2>4. message.hops[1] \in Hops /\ message.hops[1].token = message.token
    BY <2>2, <2>3, RouterAssumption DEF CanRoute
  <2>5. message.amount <= balance[Router][message.hops[1].token]
    BY <1>5, <2>1, <2>3, <2>4 DEF Starting
  <2> QED
    BY <1>4, <2>2, <2>3, <2>4, <2>5
<1>7. CASE HandleHop
  <2>1. Receiving
    BY <1>2, <1>7, Kinds DEF HandleHop
  <2>2. /\ route.hops # <<>> /\ Head(route.hops).token = message.token
        /\ \E e, to : SendToPool(balance, Head(route.hops), message.amount, e, to)
    BY <1>3, <1>7 DEF HandleHop
  <2>3. message.amount \in Nat /\ message.token \in Tokens /\ Head(route.hops) \in Hops
    BY <2>1, <2>2 DEF Receiving, ReceiveMessages, RouteShape, RouteStates
  <2>4. message.amount <= balance[Router][Head(route.hops).token]
    BY <1>5, <2>1, <2>2, <2>3 DEF Receiving
  <2> QED
    BY <1>4, <2>2, <2>3, <2>4
<1>8. CASE FinalizeRoute
  BY <1>3, <1>8 DEF FinalizeRoute
<1> QED
  BY <1>6, <1>7, <1>8

\* What a user's single transaction, other than a swap, may take from a pool it also
\* takes the other token from.
LEMMA LiquidityRounds ==
  ASSUME RouterInv, Types', ~Busy, UserAddsLiquidity \/ UserRemovesLiquidity,
         NEW x \in Pools, NEW t \in Tokens
  PROVE  RoundedByLessThanOne(x, t)
<1>1. /\ Amounts \subseteq Nat \ {0} /\ Providers \subseteq Users
      /\ Deposits \subseteq Nat \X Nat
  BY Addresses, RouterAssumption
<1>2. Types /\ balance \in Balances /\ balance' \in Balances
  BY DEF RouterInv, Types
<1> SUFFICES ASSUME t \in PairOf(x), supply'[x] = supply[x],
                    balance'[x][Other(x, t)] < balance[x][Other(x, t)]
             PROVE  FALSE
  BY DEF RoundedByLessThanOne
<1>3. x \in Accounts /\ Other(x, t) \in Tokens /\ Other(x, t) \in PairOf(x)
  BY PairFacts, Addresses
<1>4. balance[x][Other(x, t)] \in Nat /\ balance'[x][Other(x, t)] \in Nat
  BY <1>2, <1>3 DEF Balances
<1>5. CASE UserAddsLiquidity
  <2>1. PICK u \in Providers, y \in Pools, d \in Deposits, s \in Slippages :
          AddLiquidity(u, y, d[1], d[2], s)
    BY <1>5 DEF UserAddsLiquidity
  <2>2. u \in Users /\ d \in Nat \X Nat /\ d[1] \in Nat /\ d[2] \in Nat
    BY <1>1
  <2>3. /\ balance'[y][FirstToken[y]] = balance[y][FirstToken[y]] + d[1]
        /\ balance'[y][SecondToken[y]] = balance[y][SecondToken[y]] + d[2]
        /\ \A z \in Pools, v \in Tokens :
             z # y \/ v \notin PairOf(y) => balance'[z][v] = balance[z][v]
    BY <2>1, <2>2, AddFacts
  <2>4. CASE x = y
    <3>1. Other(x, t) = FirstToken[y] \/ Other(x, t) = SecondToken[y]
      BY <1>3, <2>4 DEF PairOf
    <3> QED
      BY <1>4, <2>2, <2>3, <2>4, <3>1
  <2>5. CASE x # y
    BY <1>3, <1>4, <2>3, <2>5
  <2> QED
    BY <2>4, <2>5
<1>6. CASE UserRemovesLiquidity
  <2>1. PICK u \in Providers, y \in Pools, n \in Amounts, to \in Users :
          RemoveLiquidity(u, y, n, to)
    BY <1>6 DEF UserRemovesLiquidity
  <2>2. u \in Users /\ n \in Nat \ {0}
    BY <1>1
  <2>3. /\ supply' = [supply EXCEPT ![y] = @ - n]
        /\ \A z \in Pools, v \in Tokens :
             z # y \/ v \notin PairOf(y) => balance'[z][v] = balance[z][v]
    BY <2>1, <2>2, RemoveFacts
  <2>4. CASE x = y
    BY <1>2, <2>2, <2>3, <2>4 DEF Types
  <2>5. CASE x # y
    BY <1>3, <1>4, <2>3, <2>5
  <2> QED
    BY <2>4, <2>5
<1> QED
  BY <1>5, <1>6

LEMMA OthersOnlyGain ==
  ASSUME RouterInv, Types', ~Busy,
         \/ UserTransfers \/ SetExchangeSettings \/ UserSendsRoute
         \/ \E tokens \in TokenLists : RegisterTokens(tokens)
         \/ \E t \in Tokens, n \in Amounts, to \in Providers : RecoverFunds(t, n, to)
  PROVE  PoolsOnlyGain
<1>1. /\ Amounts \subseteq Nat \ {0} /\ Providers \subseteq Users /\ Traders \subseteq Users
      /\ Gifts \subseteq [token: Tokens, to: Pools \cup {Router}, amount: Nat]
      /\ Router \in Accounts \ Pools /\ Users \subseteq Accounts \ Pools /\ Router \notin Users
      /\ Pools \subseteq Accounts
  BY Addresses, RouterAssumption
<1>2. Types
  BY DEF RouterInv
<1>3. CASE UNCHANGED balance
  <2> SUFFICES ASSUME NEW x \in Pools, NEW s \in Tokens
               PROVE  balance'[x][s] >= balance[x][s]
    BY DEF PoolsOnlyGain
  <2>1. balance[x][s] \in Nat
    BY <1>1, <1>2 DEF Types, Balances
  <2> QED
    BY <1>3, <2>1
<1>4. CASE UserTransfers
  <2>1. PICK u \in Users, g \in Gifts : Transfer(u, g.token, g.amount, g.to)
    BY <1>4 DEF UserTransfers
  <2>2. /\ g.token \in Tokens /\ g.amount \in Nat /\ g.to \in Accounts /\ u # g.to
        /\ u \in Accounts \ Pools
    BY <1>1
  <2>3. /\ g.amount <= balance[u][g.token]
        /\ balance' = Moved(balance, g.token, u, g.to, g.amount)
    BY <2>1 DEF Transfer
  <2> QED
    BY <1>2, <2>2, <2>3, MoveToPools
<1>5. CASE UserSendsRoute
  <2>1. PICK u \in Traders, to \in Providers, t \in Tokens, n \in Amounts, e \in Amounts,
             hops \in Routes : SendRoute(u, t, n, hops, e, to)
    BY <1>5 DEF UserSendsRoute
  <2>2. n \in Nat /\ u \in Accounts \ Pools /\ Router \in Accounts /\ u # Router
    BY <1>1
  <2>3. n <= balance[u][t] /\ balance' = Moved(balance, t, u, Router, n)
    BY <2>1 DEF SendRoute
  <2> QED
    BY <1>2, <2>2, <2>3, MoveToPools
<1>6. ASSUME NEW t \in Tokens, NEW n \in Amounts, NEW to \in Providers, RecoverFunds(t, n, to)
      PROVE  PoolsOnlyGain
  <2>1. n \in Nat /\ to \in Accounts /\ Router # to
    BY <1>1
  <2>2. n <= balance[Router][t] /\ balance' = Moved(balance, t, Router, to, n)
    BY <1>6 DEF RecoverFunds
  <2> QED
    BY <1>1, <1>2, <2>1, <2>2, MoveToPools
<1>7. SetExchangeSettings => UNCHANGED balance
  BY DEF SetExchangeSettings
<1>8. \A tokens \in TokenLists : RegisterTokens(tokens) => UNCHANGED balance
  BY DEF RegisterTokens, exchangeVars
<1> QED
  BY <1>3, <1>4, <1>5, <1>6, <1>7, <1>8

LEMMA StepRounds ==
  ASSUME RouterInv, RouterInv', [Next]_vars, ~RouteEnds, NEW x \in Pools, NEW t \in Tokens
  PROVE  RoundedByLessThanOne(x, t)
<1>1. Types /\ Types'
  BY DEF RouterInv
<1>2. CASE UNCHANGED vars
  <2>1. UNCHANGED balance
    BY <1>2 DEF vars, exchangeVars
  <2>2. PoolsOnlyGain
    <3> SUFFICES ASSUME NEW z \in Pools, NEW s \in Tokens
                 PROVE  balance'[z][s] >= balance[z][s]
      BY DEF PoolsOnlyGain
    <3>1. balance[z][s] \in Nat
      BY <1>1, Addresses DEF Types, Balances
    <3> QED
      BY <2>1, <3>1
  <2> QED
    BY <1>1, <2>2, OnlyGainRounds
<1>3. CASE PoolSwaps
  BY <1>1, <1>3, PoolSwapRounds
<1>4. CASE HandleFirstHop \/ HandleHop \/ FinalizeRoute
  BY <1>1, <1>4, MessagesRound, OnlyGainRounds
<1>5. CASE UserSendsRoute
  <2>1. ~Busy
    BY <1>5 DEF UserSendsRoute, SendRoute
  <2> QED
    BY <1>1, <1>5, <2>1, OthersOnlyGain, OnlyGainRounds
<1>6. CASE Single
  <2>1. ~Busy
    BY <1>6 DEF Single
  <2>2. CASE UserSwaps
    <3>1. PICK u \in Traders, y \in Pools, n \in Amounts, e \in Amounts,
               to \in Traders \cup {Router} :
            \E s \in PairOf(y) : Swap(u, y, s, n, e, to)
      BY <2>2 DEF UserSwaps
    <3>2. PICK s \in PairOf(y) : Swap(u, y, s, n, e, to)
      BY <3>1
    <3>3. u \in Users /\ to \in Users \cup {Router} /\ n \in Nat /\ e \in Nat
      BY Addresses
    <3> QED
      BY <1>1, <2>1, <3>2, <3>3, UserSwapRounds
  <2>3. CASE UserAddsLiquidity \/ UserRemovesLiquidity
    BY <1>1, <2>1, <2>3, LiquidityRounds
  <2>4. CASE \/ UserTransfers \/ SetExchangeSettings
             \/ \E tokens \in TokenLists : RegisterTokens(tokens)
             \/ \E s \in Tokens, n \in Amounts, to \in Providers : RecoverFunds(s, n, to)
    BY <1>1, <2>1, <2>4, OthersOnlyGain, OnlyGainRounds
  <2> QED
    BY <1>6, <2>2, <2>3, <2>4 DEF Single
<1> QED
  BY <1>2, <1>3, <1>4, <1>5, <1>6 DEF Next

\* A swap never costs the pool as much as one unit of what it pays out: had that unit
\* stayed, the product of the reserves would have grown.  So however many swaps, in
\* whichever routes, the curve is never undercut by more than the rounding of each.
\* (exchange, compute_swap and do_swap.)
THEOREM SwapsRoundByLessThanOneHolds == Spec => SwapsRoundByLessThanOne
<1> DEFINE Rounded == ~RouteEnds => \A x \in Pools, t \in Tokens : RoundedByLessThanOne(x, t)
<1>1. RouterInv /\ RouterInv' /\ [Next]_vars => Rounded
  BY StepRounds
<1>2. Rounded =>
        \A x \in Pools, t \in Tokens :
          LET o == Other(x, t)
              before == balance[x][t] - Delivering(x, t)
          IN /\ t \in PairOf(x) /\ supply'[x] = supply[x] /\ ~RouteEnds
             /\ balance'[x][t] > before /\ balance'[x][o] < balance[x][o]
             => balance'[x][t] * (balance'[x][o] + 1) > before * balance[x][o]
  BY DEF RoundedByLessThanOne
<1> QED
  BY <1>1, <1>2, RouterInvHolds, PTL DEF Spec, SwapsRoundByLessThanOne

-----------------------------------------------------------------------------
(* What holds of a route.                                                  *)

\* The step that ends a route reverts it or finalizes it.
LEMMA RouteEndings ==
  ASSUME RouterInv, [Next]_vars, RouteEnds
  PROVE  \/ Revert
         \/ FinalizeRoute /\ MayFinalize /\ route' = NoRoute /\ UNCHANGED balance
<1>1. Busy /\ message' = None
  BY DEF RouteEnds
<1>2. ~Single /\ ~UserSendsRoute /\ ~UNCHANGED vars
  BY <1>1 DEF Single, UserSendsRoute, SendRoute, Busy, vars
<1>3. ASSUME NEW b, NEW hop, NEW n, NEW e, NEW to, SendToPool(b, hop, n, e, to)
      PROVE  FALSE
  BY <1>1, <1>3 DEF SendToPool, None
<1>4. HandleFirstHop => Revert
  BY <1>3 DEF HandleFirstHop
<1>5. HandleHop => Revert
  BY <1>3 DEF HandleHop
<1>6. PoolSwaps => Revert
  BY <1>1 DEF PoolSwaps, None
<1> QED
  BY <1>2, <1>4, <1>5, <1>6 DEF Next, FinalizeRoute

LEMMA ServedDelivers ==
  ASSUME Types, SentShape, UsersServed, UNCHANGED balance PROVE RouteDelivers
<1> SUFFICES ASSUME NEW u \in Users, NEW t \in Tokens
             PROVE  LET paid == IF u = sent.from /\ t = sent.token THEN sent.amount ELSE 0
                        change == balance'[u][t] - sent.balance[u][t] + paid
                    IN IF u = sent.to /\ t = Other(sent.last.pool, sent.last.token)
                       THEN change >= sent.expected_return ELSE change = 0
  BY DEF RouteDelivers
<1>1. u \in Accounts
  BY Addresses
<1>2. /\ balance'[u][t] = balance[u][t] /\ balance[u][t] \in Nat
      /\ sent.balance[u][t] \in Nat /\ sent.expected_return \in Nat /\ Paid(u, t) \in Nat
  BY <1>1 DEF Types, SentShape, Balances, Paid
<1>3. IF u = sent.to /\ t = Other(sent.last.pool, sent.last.token)
      THEN balance[u][t] + Paid(u, t) >= sent.balance[u][t] + sent.expected_return
      ELSE balance[u][t] + Paid(u, t) = sent.balance[u][t]
  BY DEF UsersServed
<1>4. Paid(u, t) = IF u = sent.from /\ t = sent.token THEN sent.amount ELSE 0
  BY DEF Paid
<1> DEFINE p == Paid(u, t)
<1> HIDE DEF p
<1>5. IF u = sent.to /\ t = Other(sent.last.pool, sent.last.token)
      THEN balance'[u][t] - sent.balance[u][t] + p >= sent.expected_return
      ELSE balance'[u][t] - sent.balance[u][t] + p = 0
  BY <1>2, <1>3 DEF p
<1> QED
  BY <1>4, <1>5 DEF p

LEMMA FinalizeDelivers ==
  ASSUME RouterInv, FinalizeRoute, MayFinalize, UNCHANGED balance
  PROVE  /\ balance'[Router] = sent.balance[Router]
         /\ sent.last.token \in PairOf(sent.last.pool) => RouteDelivers
<1>1. message.kind = "finalize" /\ route.is_done
  BY DEF FinalizeRoute, MayFinalize
<1>2. Underway /\ Finalizing /\ Types /\ SentShape
  BY <1>1, Kinds DEF RouterInv, Underway
<1>3. HoldsNothing /\ (sent.last.token \in PairOf(sent.last.pool) => UsersServed)
  BY <1>1, <1>2 DEF Finalizing
<1>4. balance'[Router] = sent.balance[Router]
  <2>1. balance[Router] \in [Tokens -> Nat] /\ sent.balance[Router] \in [Tokens -> Nat]
    BY <1>2, Addresses DEF Types, SentShape, Balances
  <2> QED
    BY <1>3, <2>1 DEF HoldsNothing
<1> QED
  BY <1>2, <1>3, <1>4, ServedDelivers

\* A route is all or nothing.  However many pools it goes through and whichever of its
\* messages fails, what is left of it is either nothing, or the sender's payment and, to
\* the recipient, at least the return expected; the router keeps no tokens and no state.
\* Only a last hop to a pool that does not trade the token is left out: it is paid in and
\* finalized.  (router, handle_first_hop, handle_hop, finalize_route.)
THEOREM RouteDeliversOrRevertsHolds == Spec => RouteDeliversOrReverts
<1> DEFINE Ended ==
      RouteEnds =>
        /\ route' = NoRoute /\ balance'[Router] = sent.balance[Router]
        /\ sent.last.token \in PairOf(sent.last.pool) =>
             balance' = sent.balance \/ RouteDelivers
<1>1. RouterInv /\ [Next]_vars => Ended
  <2> SUFFICES ASSUME RouterInv, [Next]_vars, RouteEnds
               PROVE  /\ route' = NoRoute /\ balance'[Router] = sent.balance[Router]
                      /\ sent.last.token \in PairOf(sent.last.pool) =>
                           balance' = sent.balance \/ RouteDelivers
    OBVIOUS
  <2>1. CASE Revert
    BY <2>1 DEF Revert
  <2>2. CASE FinalizeRoute /\ MayFinalize /\ route' = NoRoute /\ UNCHANGED balance
    BY <2>2, FinalizeDelivers
  <2> QED
    BY <2>1, <2>2, RouteEndings
<1> QED
  BY <1>1, RouterInvHolds, PTL DEF Spec, RouteDeliversOrReverts
=============================================================================
