-------------------------------- MODULE Lend --------------------------------
(***************************************************************************)
(* Sienna Lend: markets (contracts/lend/market) that take deposits and     *)
(* lend them out, and the overseer (contracts/lend/overseer) that decides  *)
(* whether a user's collateral, across all the markets the user entered,   *)
(* covers the user's debts.                                                *)
(*                                                                         *)
(* As in RewardPool one action is one committed transaction.  Its guard is *)
(* every check that could revert it.  A market queries its balance of the  *)
(* underlying token, the overseer, and through it every entered market;    *)
(* these queries see what the transaction has stored and moved so far.     *)
(*                                                                         *)
(* All markets are listed and use one interest model.                      *)
(***************************************************************************)
EXTENDS InterestModel, BorrowerList, Sums, FiniteSets

CONSTANTS
  N,               \* users are 1..N
  Markets,
  Funds,           \* Funds[m][u]: underlying tokens of user u at the start
  Amounts,         \* Amounts[m]: amounts users pass to market m
  Prices, LTVs,    \* Prices[m], LTVs[m]: values the oracle and the admin set
  ReserveFactors, Caps,   \* values the admin sets
  InitialRate,     \* initial_exchange_rate
  SeizeFactor,     \* share of seized collateral that goes to the reserves
  Premium,         \* what liquidators get for one unit of value repaid
  CloseFactor,     \* share of a debt one liquidation may repay
  MaxEntered,      \* MAX_MARKETS_ENTERED
  UserMay,         \* bound: which of UserMessages each user sends
  LendAdminMay,    \* bound: which of LendAdminMessages the admin sends
  MaxBlock         \* bound

UserMessages == {"deposit", "redeem", "borrow", "repay", "transfer", "liquidate",
                 "enter", "exit", "accrue"}
LendAdminMessages == {"pause", "configure market", "reduce reserves",
                      "change market"}
NoCap == -1

ASSUME LendAssumption ==
  /\ N \in Nat \ {0} /\ IsFiniteSet(Markets)
  /\ Funds \in [Markets -> [1..N -> Nat]]
  /\ Amounts \in [Markets -> SUBSET Nat]
  /\ Prices \in [Markets -> SUBSET Nat]
  /\ LTVs \in [Markets -> SUBSET (0..DecimalOne)]
  /\ ReserveFactors \subseteq 0..DecimalOne
  /\ Caps \subseteq Nat
  /\ InitialRate \in Nat \ {0}
  /\ SeizeFactor \in 0..DecimalOne /\ CloseFactor \in 0..DecimalOne
  /\ Premium \in Nat /\ Premium >= DecimalOne
  /\ MaxEntered \in Nat /\ MaxBlock \in Nat
  /\ UserMay \in [1..N -> SUBSET UserMessages]
  /\ LendAdminMay \subseteq LendAdminMessages

VARIABLES
  block,     \* env.block.height
  market,    \* of each market: total_borrows, interest_reserve, borrow_index,
             \* accrual_block_number, total_supply
  config,    \* of each market: reserve_factor and borrow cap
  paused,    \* markets whose killswitch is on
  slToken,   \* sl-token balance of each user in each market
  book,      \* the borrowers of each market
  entered,   \* overseer: the markets each user entered
  ltv,       \* overseer: ltv_ratio of each market
  price,     \* oracle: price of each market's token
  cash,      \* each market's balance of its underlying token
  wallet     \* each user's

marketVars == <<market, config, paused, slToken, book>>
overseerVars == <<entered, ltv>>
moneyVars == <<cash, wallet>>
lendVars == <<block, marketVars, overseerVars, price, moneyVars>>

Users == 1..N

MarketRecord == [borrows: Nat, reserves: Nat, index: Nat, accrued: Nat,
                 supply: Nat]
Snapshot == [who: Users, principal: Nat, index: Nat]
Book == [list: Seq(Snapshot), at: [Users -> Nat]]

LendTypeOK ==
  /\ block \in Nat
  /\ market \in [Markets -> MarketRecord]
  /\ config \in [Markets -> [factor: ReserveFactors, cap: Caps \cup {NoCap}]]
  /\ paused \subseteq Markets
  /\ slToken \in [Markets -> [Users -> Nat]]
  /\ book \in [Markets -> Book]
  /\ entered \in [Users -> SUBSET Markets]
  /\ ltv \in [Markets -> 0..DecimalOne] /\ \A m \in Markets : ltv[m] \in LTVs[m]
  /\ price \in [Markets -> Nat] /\ \A m \in Markets : price[m] \in Prices[m]
  /\ cash \in [Markets -> Nat]
  /\ wallet \in [Markets -> [Users -> Nat]]

LendInit ==
  /\ block = 0
  /\ market = [m \in Markets |-> [borrows |-> 0, reserves |-> 0,
                 index |-> DecimalOne, accrued |-> 0, supply |-> 0]]
  /\ config \in [Markets -> [factor: ReserveFactors, cap: {NoCap}]]
  /\ paused = {}
  /\ slToken = [m \in Markets |-> [u \in Users |-> 0]]
  /\ book = [m \in Markets |-> EmptyBook(Users)]
  /\ entered = [u \in Users |-> {}]
  /\ ltv \in {f \in [Markets -> 0..DecimalOne] : \A m \in Markets : f[m] \in LTVs[m]}
  /\ price \in {f \in [Markets -> UNION {Prices[m] : m \in Markets}] :
                   \A m \in Markets : f[m] \in Prices[m]}
  /\ cash = [m \in Markets |-> 0]
  /\ wallet = Funds

-----------------------------------------------------------------------------
(* Interest.                                                               *)

\* accrue_interest succeeds: the second call of a block does nothing, the first
\* asks the interest model for its rate.
Accrues(m) ==
  market[m].accrued = block
    \/ RateDefined(cash[m], market[m].borrows, market[m].reserves)

\* The interest since the last accrual, for one unit lent.
InterestFactor(m) ==
  IF market[m].accrued = block THEN 0
  ELSE (block - market[m].accrued)
         * BorrowRate(cash[m], market[m].borrows, market[m].reserves)

\* Mutant of Accrued: the debts grow, the total of the debts does not.
AccruedForgetful(m) ==
  LET s == market[m]
      factor == InterestFactor(m)
      interest == Times(s.borrows, factor)
  IN [s EXCEPT !.reserves = @ + Times(interest, config[m].factor),
               !.index = @ + Product(@, factor),
               !.accrued = block]

\* accrue_interest: the market's totals brought to the current block, the
\* balance read being the one before the transaction.
Accrued(m) ==
  LET s == market[m]
      factor == InterestFactor(m)
      interest == Times(s.borrows, factor)
  IN [s EXCEPT !.borrows = @ + interest,
               !.reserves = @ + Times(interest, config[m].factor),
               !.index = @ + Product(@, factor),
               !.accrued = block]

\* calc_exchange_rate: what one sl-token is worth.
HasRate(balance, s) == s.supply = 0 \/ balance + s.borrows >= s.reserves
ExchangeRate(balance, s) ==
  IF s.supply = 0 THEN InitialRate
  ELSE Ratio(balance + s.borrows - s.reserves, s.supply)

\* BorrowSnapshot::current_balance
Owed(snapshot, index) ==
  IF snapshot.principal = 0 THEN 0
  ELSE Per(Times(snapshot.principal, index), snapshot.index)

\* What u owes in m at the current block.
Debt(m, u) == Owed(SnapshotOf(book[m], u), Accrued(m).index)

-----------------------------------------------------------------------------
(* calc_liquidity of the overseer, each market holding balance[m].         *)

\* The value of one sl-token as collateral.
ConversionAt(m, rate) == Product(Product(ltv[m], rate), price[m])
Conversion(m, balance) == ConversionAt(m, ExchangeRate(balance[m], Accrued(m)))

CollateralIn(m, u, balance) == Times(slToken[m][u], Conversion(m, balance))
DebtIn(m, u) == Times(Debt(m, u), price[m])

\* What giving up `redeemed` sl-tokens and borrowing `borrowed` would cost.
CostIn(m, redeemed, borrowed, balance) ==
  Times(redeemed, Conversion(m, balance)) + Times(borrowed, price[m])

\* An amount that is worth nothing means the price is invalid.
Priced(amount, value) == amount # 0 => value # 0

LiquidityDefined(u, redeemed, target, borrowed, balance) ==
  \A m \in entered[u] :
    /\ Accrues(m) /\ HasRate(balance[m], Accrued(m))
    /\ ltv[m] # 0 =>
         /\ Priced(slToken[m][u], CollateralIn(m, u, balance))
         /\ Priced(Debt(m, u), DebtIn(m, u))
         /\ m = target =>
              /\ Priced(redeemed, CostIn(m, redeemed, 0, balance))
              /\ Priced(borrowed, CostIn(m, 0, borrowed, balance))

Collateral(u, balance) ==
  SumOver([m \in entered[u] |-> CollateralIn(m, u, balance)], entered[u])

Debts(u) == SumOver([m \in entered[u] |-> DebtIn(m, u)], entered[u])

\* How much u's debts, with that cost added, exceed u's collateral.
Shortfall(u, redeemed, target, borrowed, balance) ==
  MinusOrZero(Debts(u) + CostIn(target, redeemed, borrowed, balance),
              Collateral(u, balance))

\* The query with a target asset: it must have been entered.
StaysCovered(u, m, redeemed, borrowed) ==
  /\ m \in entered[u]
  /\ LiquidityDefined(u, redeemed, m, borrowed, cash)
  /\ Shortfall(u, redeemed, m, borrowed, cash) = 0

\* Mutant of CanTransfer: the overseer is not asked.
CanAlwaysTransfer(u, m, amount) == TRUE

\* can_transfer_internal: tokens of a market not entered are no collateral.
CanTransfer(u, m, amount) == m \notin entered[u] \/ StaysCovered(u, m, amount, 0)

-----------------------------------------------------------------------------
(* Transactions of users.                                                  *)

\* Underlying tokens move from a user to the market, or back.
PayIn(m, u, amount) ==
  /\ amount <= wallet[m][u]
  /\ cash' = [cash EXCEPT ![m] = @ + amount]
  /\ wallet' = [wallet EXCEPT ![m][u] = @ - amount]

PayOut(m, u, amount) ==
  /\ amount <= cash[m]
  /\ cash' = [cash EXCEPT ![m] = @ - amount]
  /\ wallet' = [wallet EXCEPT ![m][u] = @ + amount]

Minted(m, amount) == Per(amount, ExchangeRate(cash[m], Accrued(m)))

Deposit(m, u, amount) ==
  /\ "deposit" \in UserMay[u]
  /\ m \notin paused
  /\ Accrues(m) /\ HasRate(cash[m], Accrued(m))
  /\ ExchangeRate(cash[m], Accrued(m)) > 0
  /\ market' = [market EXCEPT ![m] =
                  [Accrued(m) EXCEPT !.supply = @ + Minted(m, amount)]]
  /\ slToken' = [slToken EXCEPT ![m][u] = @ + Minted(m, amount)]
  /\ PayIn(m, u, amount)
  /\ UNCHANGED <<block, config, paused, book, overseerVars, price>>

\* token::redeem: burn sl-tokens for their worth.
Redeem(m, u, burnt, received) ==
  /\ "redeem" \in UserMay[u]
  /\ m \notin paused
  /\ Accrues(m)
  /\ CanTransfer(u, m, burnt)
  /\ burnt <= slToken[m][u] /\ burnt <= market[m].supply
  /\ market' = [market EXCEPT ![m] = [Accrued(m) EXCEPT !.supply = @ - burnt]]
  /\ slToken' = [slToken EXCEPT ![m][u] = @ - burnt]
  /\ PayOut(m, u, received)
  /\ UNCHANGED <<block, config, paused, book, overseerVars, price>>

RedeemToken(m, u, amount) ==
  /\ amount > 0
  /\ HasRate(cash[m], Accrued(m))
  /\ Redeem(m, u, amount, Times(amount, ExchangeRate(cash[m], Accrued(m))))

\* The number of tokens burnt is rounded down.
RedeemUnderlying(m, u, amount) ==
  /\ HasRate(cash[m], Accrued(m))
  /\ ExchangeRate(cash[m], Accrued(m)) > 0
  /\ Redeem(m, u, Per(amount, ExchangeRate(cash[m], Accrued(m))), amount)

\* The snapshot after BorrowSnapshot::add_balance or subtract_balance.
Resnapshot(m, u, owed) ==
  Saved(book[m], u, [SnapshotOf(book[m], u) EXCEPT
                       !.principal = owed, !.index = Accrued(m).index])

Borrow(m, u, amount) ==
  /\ "borrow" \in UserMay[u]
  /\ m \notin paused /\ amount <= cash[m]
  /\ Accrues(m)
  /\ config[m].cap = NoCap \/ Accrued(m).borrows + amount <= config[m].cap
  /\ StaysCovered(u, m, 0, amount)
  /\ book' = [book EXCEPT ![m] = Resnapshot(m, u, Debt(m, u) + amount)]
  /\ market' = [market EXCEPT ![m] =
                  [Accrued(m) EXCEPT !.borrows = @ + amount]]
  /\ PayOut(m, u, amount)
  /\ UNCHANGED <<block, config, paused, slToken, overseerVars, price>>

\* payer repays borrower's debt; what is too much is sent back.  Repaying
\* somebody who owes nothing only accrues interest.
Repay(m, payer, borrower, amount) ==
  LET repaid == LeastOf(amount, Debt(m, borrower))
  IN /\ "repay" \in UserMay[payer]
     /\ m \notin paused
     /\ amount <= wallet[m][payer]
     /\ Accrues(m)
     /\ repaid <= Accrued(m).borrows           \* TotalBorrows::decrease
     /\ book' = [book EXCEPT ![m] =
                   Resnapshot(m, borrower, Debt(m, borrower) - repaid)]
     /\ market' = [market EXCEPT ![m] =
                     [Accrued(m) EXCEPT !.borrows = @ - repaid]]
     /\ PayIn(m, payer, repaid)
     /\ UNCHANGED <<block, config, paused, slToken, overseerVars, price>>

\* Mutant of Moved: both balances are read before either is written.
MovedStale(balances, u, to, amount) ==
  [balances EXCEPT ![u] = @ - amount, ![to] = balances[to] + amount]

\* do_transfer: one account is written before the other is read, for they may be
\* the same.
Moved(balances, u, to, amount) ==
  LET less == [balances EXCEPT ![u] = @ - amount]
  IN [less EXCEPT ![to] = @ + amount]

\* Transfer and Send of sl-tokens; no interest is accrued.
Transfer(m, u, to, amount) ==
  /\ "transfer" \in UserMay[u]
  /\ m \notin paused
  /\ CanTransfer(u, m, amount)
  /\ amount <= slToken[m][u]
  /\ slToken' = [slToken EXCEPT ![m] = Moved(@, u, to, amount)]
  /\ UNCHANGED <<block, market, config, paused, book, overseerVars, price,
                 moneyVars>>

AccrueInterest(m, u) ==
  /\ "accrue" \in UserMay[u]
  /\ m \notin paused
  /\ Accrues(m)
  /\ market' = [market EXCEPT ![m] = Accrued(m)]
  /\ UNCHANGED <<block, config, paused, slToken, book, overseerVars, price,
                 moneyVars>>

-----------------------------------------------------------------------------
(* Liquidations.                                                           *)

\* seize_amount of the overseer, which asks market c for its rate as stored:
\* c has not accrued interest yet, unless it is the market of the debt.
SeizeAmount(m, c, amount, rate) ==
  Times(amount, Quotient(Product(Premium, price[m]), Product(price[c], rate)))

\* Mutant of LiquidateAllowed: nobody asks whether the borrower is underwater.
LiquidateAnybody(m, u, amount) ==
  amount > 0 /\ amount <= Times(Debt(m, u), CloseFactor)

\* assert_liquidate_allowed
LiquidateAllowed(m, u, amount) ==
  LET balance == [cash EXCEPT ![m] = @ + amount]   \* the payment has arrived
  IN /\ amount > 0
     /\ entered[u] # {}
     /\ LiquidityDefined(u, 0, m, 0, balance)
     /\ Shortfall(u, 0, m, 0, balance) > 0
     /\ amount <= Times(Debt(m, u), CloseFactor)

\* Seized collateral leaves the borrower; the reserves keep a share of it as
\* underlying tokens, for which as many sl-tokens are burnt.
Seized(state, amount, rate) ==
  [state EXCEPT !.reserves = @ + Times(Times(amount, SeizeFactor), rate),
                !.supply = @ - Times(amount, SeizeFactor)]

MoveSeized(c, payer, u, amount) ==
  slToken' = [slToken EXCEPT ![c][u] = @ - amount,
                ![c][payer] = @ + amount - Times(amount, SeizeFactor)]

\* Seize(c), called by market m: c accrues interest and gives up the tokens.
LiquidateFrom(c, m, payer, u, amount) ==
  /\ c # m /\ c \notin paused
  /\ HasRate(cash[c], market[c])
  /\ Product(price[c], ExchangeRate(cash[c], market[c])) > 0
  /\ Accrues(c) /\ HasRate(cash[c], Accrued(c))
  /\ LET seize == SeizeAmount(m, c, amount, ExchangeRate(cash[c], market[c]))
     IN /\ seize <= slToken[c][u]
        /\ MoveSeized(c, payer, u, seize)
        /\ market' = [market EXCEPT
             ![m] = [Accrued(m) EXCEPT !.borrows = @ - amount],
             ![c] = Seized(Accrued(c), seize, ExchangeRate(cash[c], Accrued(c)))]

\* The collateral is in the market of the debt itself.  seize takes the total
\* borrows accrue_interest returned, which this payment has not lowered; in a
\* market that had accrued already it reads them back, lowered.
LiquidateSame(m, payer, u, amount) ==
  LET repaid == [Accrued(m) EXCEPT !.borrows = @ - amount]
      read == IF market[m].accrued = block THEN repaid ELSE Accrued(m)
      asked == ExchangeRate(cash[m] + amount, repaid)
      seize == SeizeAmount(m, m, amount, asked)
  IN /\ HasRate(cash[m] + amount, repaid) /\ HasRate(cash[m], read)
     /\ Product(price[m], asked) > 0
     /\ seize <= slToken[m][u]
     /\ MoveSeized(m, payer, u, seize)
     /\ market' = [market EXCEPT
          ![m] = Seized(repaid, seize, ExchangeRate(cash[m], read))]

Liquidate(m, payer, u, c, amount) ==
  /\ "liquidate" \in UserMay[payer]
  /\ payer # u
  /\ m \notin paused
  /\ Accrues(m)
  /\ LiquidateAllowed(m, u, amount)
  /\ amount <= Accrued(m).borrows              \* TotalBorrows::decrease
  /\ book' = [book EXCEPT ![m] = Resnapshot(m, u, Debt(m, u) - amount)]
  /\ \/ LiquidateFrom(c, m, payer, u, amount)
     \/ c = m /\ LiquidateSame(m, payer, u, amount)
  /\ PayIn(m, payer, amount)
  /\ UNCHANGED <<block, config, paused, overseerVars, price>>

-----------------------------------------------------------------------------
(* Markets entered and left.                                               *)

\* add_markets: the limit counts what is asked for, new or not.
Enter(u, asked) ==
  /\ "enter" \in UserMay[u]
  /\ Cardinality(entered[u]) + Cardinality(asked) <= MaxEntered
  /\ entered' = [entered EXCEPT ![u] = @ \cup asked]
  /\ UNCHANGED <<block, marketVars, ltv, price, moneyVars>>

\* Mutant of OwesNothing: a debt is no reason to stay.
OwesAnything(m, u) == TRUE

\* exit asks for the debt as of the last accrual.
OwesNothing(m, u) == Owed(SnapshotOf(book[m], u), market[m].index) = 0

Exit(u, m) ==
  /\ "exit" \in UserMay[u]
  /\ m \in entered[u]
  /\ HasRate(cash[m], market[m])
  /\ OwesNothing(m, u)
  /\ StaysCovered(u, m, slToken[m][u], 0)
  /\ entered' = [entered EXCEPT ![u] = @ \ {m}]
  /\ UNCHANGED <<block, marketVars, ltv, price, moneyVars>>

-----------------------------------------------------------------------------
(* The administrators, the oracle, time.                                   *)

\* The killswitch, either way.
Pause(m) ==
  /\ "pause" \in LendAdminMay
  /\ paused' = IF m \in paused THEN paused \ {m} ELSE paused \cup {m}
  /\ UNCHANGED <<block, market, config, slToken, book, overseerVars, price,
                 moneyVars>>

UpdateConfig(m, factor, cap) ==
  /\ "configure market" \in LendAdminMay
  /\ Accrues(m)
  /\ market' = [market EXCEPT ![m] = Accrued(m)]
  /\ config' = [config EXCEPT ![m] = [factor |-> factor, cap |-> cap]]
  /\ UNCHANGED <<block, paused, slToken, book, overseerVars, price, moneyVars>>

\* The tokens go to an address outside this model.
ReduceReserves(m, amount) ==
  /\ "reduce reserves" \in LendAdminMay
  /\ amount <= cash[m]
  /\ Accrues(m)
  /\ amount <= Accrued(m).reserves
  /\ market' = [market EXCEPT ![m] = [Accrued(m) EXCEPT !.reserves = @ - amount]]
  /\ cash' = [cash EXCEPT ![m] = @ - amount]
  /\ UNCHANGED <<block, config, paused, slToken, book, overseerVars, price,
                 wallet>>

ChangeMarket(m, ratio) ==
  /\ "change market" \in LendAdminMay
  /\ price[m] # 0
  /\ ltv' = [ltv EXCEPT ![m] = ratio]
  /\ UNCHANGED <<block, marketVars, entered, price, moneyVars>>

SetPrice(m, rate) ==
  /\ price' = [price EXCEPT ![m] = rate]
  /\ UNCHANGED <<block, marketVars, overseerVars, moneyVars>>

NextBlock ==
  /\ block < MaxBlock
  /\ block' = block + 1
  /\ UNCHANGED <<marketVars, overseerVars, price, moneyVars>>

LendNext ==
  \/ \E u \in Users, m \in Markets : \E amount \in Amounts[m] :
       \/ Deposit(m, u, amount)
       \/ RedeemToken(m, u, amount)
       \/ RedeemUnderlying(m, u, amount)
       \/ Borrow(m, u, amount)
       \/ \E other \in Users :
            \/ Repay(m, u, other, amount)
            \/ Transfer(m, u, other, amount)
            \/ \E c \in Markets : Liquidate(m, u, other, c, amount)
  \/ \E u \in Users :
       \/ \E asked \in SUBSET Markets \ {{}} : Enter(u, asked)
       \/ \E m \in Markets : Exit(u, m) \/ AccrueInterest(m, u)
  \/ \E m \in Markets :
       \/ Pause(m)
       \/ \E factor \in ReserveFactors, cap \in Caps \cup {config[m].cap} :
            UpdateConfig(m, factor, cap)
       \/ \E amount \in Amounts[m] : ReduceReserves(m, amount)
       \/ \E ratio \in LTVs[m] : ChangeMarket(m, ratio)
       \/ \E rate \in Prices[m] : SetPrice(m, rate)
  \/ NextBlock

LendSpec == LendInit /\ [][LendNext]_lendVars

-----------------------------------------------------------------------------
(* Safety.                                                                 *)

\* total_supply is the sum of the balances no code ever iterates over: mints,
\* burns, transfers between users or to oneself, and seizures that burn one
\* part and move the other all keep it.
SupplyIsSum ==
  /\ LendTypeOK
  /\ \A m \in Markets :
       market[m].supply = SumOver(slToken[m], Users)

\* Accruals are past, and no debt carries an index its market has not reached:
\* a debt may only grow until it is next read.
IndicesReached(m) ==
  /\ market[m].accrued <= block
  /\ DecimalOne <= market[m].index
  /\ \A i \in 1..Len(book[m].list) :
       book[m].list[i].index \in DecimalOne..market[m].index

\* The list of borrowers stays free of holes, duplicates and settled debts,
\* whoever repays whose debt in whatever order (save_borrow_snapshot), and every
\* debt in it can be brought up to date.
BorrowersIndexed ==
  \A m \in Markets : WellIndexed(book[m], Users) /\ IndicesReached(m)

\* Dust: what one unit owed since the market opened would have grown to by the
\* snapshot's index, or less.
IsDust(snapshot) == snapshot.principal * DecimalOne <= snapshot.index

\* A debt is always in a market its borrower entered, so calc_liquidity sees
\* it: exit asks for the debt first.  Only dust can escape: a debt of one unit
\* can read as nothing, current_balance rounding down twice.
DebtorsAreEntered ==
  \A m \in Markets, u \in Users :
    m \in entered[u] \/ IsDust(SnapshotOf(book[m], u))

\* What a market's sl-tokens are worth in all.
Net(m) == cash[m] + market[m].borrows - market[m].reserves

\* What the sl-tokens a step leaves are worth does not fall by more than one of
\* them, where the market can tell what they are worth.
KeepsValue(m) ==
  /\ market[m].supply > 0 /\ HasRate(cash[m], market[m])
  /\ market'[m].supply > 0
  => Net(m)' * DecimalOne
       >= ExchangeRate(cash[m], market[m]) * (market'[m].supply - 1)

\* No transaction takes value from those who keep their sl-tokens, beyond the
\* rounding of one sl-token: deposits, redemptions, loans, repayments, interest,
\* seizures and the reserves' withdrawals leave each token what it was worth.
SuppliersKeepValue == [][\A m \in Markets : KeepsValue(m)]_lendVars

\* The overseer can work out where u stands.
Valued(u) ==
  \A m \in entered[u] : Accrues(m) /\ HasRate(cash[m], Accrued(m))

Underwater(u) == Debts(u) > Collateral(u, cash)

\* Nobody loses collateral to a repayment of their debt unless they were
\* underwater: seize, which every market may call, moves tokens only then.
OnlyUnderwaterLiquidated ==
  [][\A u \in Users :
       (/\ \E m \in Markets : SnapshotOf(book[m], u).principal
                               > SnapshotOf(book[m], u)'.principal
        /\ \E m \in Markets : slToken'[m][u] < slToken[m][u])
       => Underwater(u)]_lendVars

\* The rate with the worth of one sl-token gone, spread over those a step leaves:
\* redeem_underlying rounds down the tokens it burns.
LoweredRate(m) ==
  LET left == market'[m].supply
      rate == ExchangeRate(cash[m], Accrued(m))
  IN IF left = 0 THEN rate ELSE (rate * (left - 1)) \div left

\* What that takes from u's collateral.
TokenShare(m, u) ==
  Times(slToken'[m][u], ConversionAt(m, ExchangeRate(cash[m], Accrued(m))))
    - Times(slToken'[m][u], ConversionAt(m, LoweredRate(m)))

\* The value of dust that exit left behind and enter finds again.
DustValue(m) == Times(Accrued(m).index \div DecimalOne, price[m])

\* What rounding may cost an account: in each of its markets a unit, where the
\* value of a sum is not the sum of the values, dust, and its share of one sl-token.
RoundingOf(u) ==
  SumOver([m \in entered'[u] |-> 1 + DustValue(m) + TokenShare(m, u)], entered'[u])

\* While blocks, prices and ratios stand still nothing a user, or anybody else,
\* does leaves a covered account underwater: every withdrawal of collateral,
\* every loan and every exit asks the overseer about all the markets together.
CoveredStayCovered ==
  [][UNCHANGED <<block, price, ltv>> =>
       \A u \in Users :
         Valued(u) /\ Valued(u)' /\ ~Underwater(u) =>
           Debts(u)' <= Collateral(u, cash)' + RoundingOf(u)]_lendVars
=============================================================================
