------------------------------ MODULE Exchange ------------------------------
(***************************************************************************)
(* The exchanges of Sienna Swap (contracts/amm/exchange): constant-product *)
(* pools of two tokens, whose reserves are simply the balances of the      *)
(* exchange contract, and whose LP token is minted to liquidity providers  *)
(* and burned when they leave.                                             *)
(*                                                                         *)
(* An action is a whole transaction: a handler and the messages it returns *)
(* (transfers, mint, burn), reverted when any of them fails.               *)
(***************************************************************************)
EXTENDS Decimals, FiniteSets

CONSTANTS
  Users,
  Pools,            \* exchange contracts
  Router, Burner,   \* the router contract and the address fees are burned at
  Tokens,
  Native,           \* the token that is not a SNIP-20 contract (uscrt)
  FirstToken, SecondToken,  \* pair of each pool
  SettingsChoices,  \* values the factory's admin may give exchange_settings
  Purse,            \* tokens each user starts with
  Amounts,          \* amounts users pass
  Slippages         \* tolerances users pass, NoSlippage among them

NoSlippage == -1

Accounts == Users \cup Pools \cup {Router, Burner}
Fees == [nom: Nat, denom: Nat \ {0}]

ASSUME ExchangeAssumption ==
  /\ Native \in Tokens
  /\ FirstToken \in [Pools -> Tokens] /\ SecondToken \in [Pools -> Tokens]
  /\ \A x \in Pools : FirstToken[x] # SecondToken[x]
  /\ SettingsChoices \subseteq [swap_fee: Fees, sienna_fee: Fees, burned: BOOLEAN]
  /\ SettingsChoices # {}
  /\ Purse \in [Users -> [Tokens -> Nat]]
  /\ Amounts \subseteq Nat \ {0}
  /\ Slippages \subseteq Nat \cup {NoSlippage}
  /\ IsFiniteSet(Users) /\ Users \cap Pools = {} /\ Router # Burner
  /\ Router \notin Users \cup Pools /\ Burner \notin Users \cup Pools

VARIABLES
  balance,   \* tokens of every account
  share,     \* LP tokens of each pool held by each user
  supply,    \* total supply of each pool's LP token
  settings,  \* exchange_settings, queried from the factory by every swap
  gifted     \* history: pools that got tokens by a plain transfer

exchangeVars == <<balance, share, supply, settings, gifted>>

ExchangeTypeOK ==
  /\ balance \in [Accounts -> [Tokens -> Nat]]
  /\ share \in [Pools -> [Users -> Nat]]
  /\ supply \in [Pools -> Nat]
  /\ settings \in SettingsChoices
  /\ gifted \subseteq Pools

ExchangeInit ==
  /\ balance = [a \in Accounts |->
                  IF a \in Users THEN Purse[a] ELSE [t \in Tokens |-> 0]]
  /\ share = [x \in Pools |-> [u \in Users |-> 0]]
  /\ supply = [x \in Pools |-> 0]
  /\ settings \in SettingsChoices
  /\ gifted = {}

PairOf(x) == {FirstToken[x], SecondToken[x]}
Other(x, t) == IF t = FirstToken[x] THEN SecondToken[x] ELSE FirstToken[x]

\* Balances b after n of token t moved.
Moved(b, t, from, to, n) == [b EXCEPT ![from][t] = @ - n, ![to][t] = @ + n]

-----------------------------------------------------------------------------
(* Swaps.  b are the balances when the pool's handler runs: the n offered  *)
(* are already there, by the token's Send or as funds of the message.      *)

PercentageDecrease(n, fee) == (n * fee.nom) \div fee.denom

SwapCommission(n) == PercentageDecrease(n, settings.swap_fee)
SiennaCommission(n) ==
  IF settings.burned THEN PercentageDecrease(n, settings.sienna_fee) ELSE 0

OfferPool(b, x, t, n) == b[x][t] - n

\* Mutant of ReturnAmount: at the price of the reserves before the swap.
ReturnAtSpotPrice(b, x, t, n) == (b[x][Other(x, t)] * n) \div OfferPool(b, x, t, n)

\* compute_swap, of the amount less the commissions.
ReturnAmount(b, x, t, n) ==
  LET pool == OfferPool(b, x, t, n)
      ask == b[x][Other(x, t)]
  IN ask - (pool * ask) \div (pool + n - SwapCommission(n) - SiennaCommission(n))

\* do_swap does not fail: it divides by the offer pool for the spread.
CanSwap(b, x, t, n) ==
  /\ t \in PairOf(x)
  /\ OfferPool(b, x, t, n) > 0
  /\ SwapCommission(n) + SiennaCommission(n) <= n

Swapped(b, x, t, n, to) ==
  Moved(Moved(b, t, x, Burner, SiennaCommission(n)),
        Other(x, t), x, to, ReturnAmount(b, x, t, n))

\* A user's swap: Send with a Swap message, or Swap with native funds.
Swap(u, x, t, n, expected_return, to) ==
  LET paid == Moved(balance, t, u, x, n)
  IN /\ n <= balance[u][t]
     /\ CanSwap(paid, x, t, n)
     /\ ReturnAmount(paid, x, t, n) >= expected_return
     /\ balance' = Swapped(paid, x, t, n, to)
     /\ UNCHANGED <<share, supply, settings, gifted>>

-----------------------------------------------------------------------------
(* Liquidity.                                                              *)

SquareRoot(n) == CHOOSE r \in 0..n : r * r <= n /\ n < (r + 1) * (r + 1)

\* assert_slippage_tolerance
WithinSlippage(slippage, d0, d1, p0, p1) ==
  LET Dropped(d, e, p, q) ==
        q # 0 /\ Product(Ratio(d, e), DecimalOne - slippage) > Ratio(p, q)
  IN slippage # NoSlippage =>
       /\ slippage \in 1..(DecimalOne - 1)
       /\ ~Dropped(d0, d1, p0, p1)
       /\ ~Dropped(d1, d0, p1, p0)

\* Mutant of Minted: the larger of the two shares.
MintedForTheLarger(x, d0, d1, p0, p1) ==
  IF supply[x] = 0 THEN SquareRoot(d0 * d1)
  ELSE LET s0 == (d0 * supply[x]) \div p0
           s1 == (d1 * supply[x]) \div p1
       IN IF s0 < s1 THEN s1 ELSE s0

\* LP tokens for a deposit of d0 and d1 into reserves p0 and p1.
Minted(x, d0, d1, p0, p1) ==
  IF supply[x] = 0 THEN SquareRoot(d0 * d1)
  ELSE LET s0 == (d0 * supply[x]) \div p0
           s1 == (d1 * supply[x]) \div p1
       IN IF s0 < s1 THEN s0 ELSE s1

\* add_liquidity.  A native deposit is already in the balance and is subtracted,
\* a SNIP-20 deposit is pulled afterwards: either way p0 and p1 are without it.
AddLiquidity(u, x, d0, d1, slippage) ==
  LET t0 == FirstToken[x]
      t1 == SecondToken[x]
      p0 == balance[x][t0]
      p1 == balance[x][t1]
      minted == Minted(x, d0, d1, p0, p1)
  IN /\ d0 > 0 /\ d1 > 0
     /\ d0 <= balance[u][t0] /\ d1 <= balance[u][t1]
     /\ WithinSlippage(slippage, d0, d1, p0, p1)
     /\ supply[x] > 0 => p0 > 0 /\ p1 > 0
     /\ balance' = Moved(Moved(balance, t0, u, x, d0), t1, u, x, d1)
     /\ share' = [share EXCEPT ![x][u] = @ + minted]
     /\ supply' = [supply EXCEPT ![x] = @ + minted]
     /\ UNCHANGED <<settings, gifted>>

\* Mutant of Withdrawn: both tokens by the reserve of the first.
WithdrawnOfTheFirst(x, t, n) == (balance[x][FirstToken[x]] * n) \div supply[x]

Withdrawn(x, t, n) == (balance[x][t] * n) \div supply[x]

\* remove_liquidity, called by the LP token's Send to the pool.
RemoveLiquidity(u, x, n, recipient) ==
  LET t0 == FirstToken[x]
      t1 == SecondToken[x]
  IN /\ n <= share[x][u]
     /\ balance' = Moved(Moved(balance, t0, x, recipient, Withdrawn(x, t0, n)),
                         t1, x, recipient, Withdrawn(x, t1, n))
     /\ share' = [share EXCEPT ![x][u] = @ - n]
     /\ supply' = [supply EXCEPT ![x] = @ - n]
     /\ UNCHANGED <<settings, gifted>>

-----------------------------------------------------------------------------
(* The factory's admin, and plain transfers of tokens.                     *)

SetExchangeSettings ==
  /\ settings' \in SettingsChoices
  /\ UNCHANGED <<balance, share, supply, gifted>>

Transfer(u, t, n, to) ==
  /\ n <= balance[u][t]
  /\ balance' = Moved(balance, t, u, to, n)
  /\ gifted' = gifted \cup ({to} \cap Pools)
  /\ UNCHANGED <<share, supply, settings>>
=============================================================================
