# A verification project for Sienna Network

Sienna Network is a set of CosmWasm contracts for Secret Network: a token with a
vesting schedule, an automated market maker, staking pools with governance, a
lending protocol and a launchpad. This directory holds TLA+ models of these
contracts, the TLC configurations that check them on small instances, and proofs,
checked by TLAPS, of what holds for every instance.

All contracts run one transaction at a time. A transaction runs a handler and
then, in order, the messages the handler returned, and is reverted as a whole when
any of them fails. What makes the code hard is therefore not pre-emption. It is
that nothing iterates over users, so every total is maintained beside its entries;
that contracts read each other's state in the middle of a transaction, when tokens
may already have moved; that every handler projects stored values to the block's
time before it changes them; and that each user decides when to act, so every
order of calls, epochs, configuration changes and vestings happens.

## 1. Inventory

### 1.1 Rewards (`contracts/amm/rewards`)

| component | state | operations |
|---|---|---|
| pool totals (`total.rs`) | `total.{volume, updated, staked, distributed}` | read (projects volume, queries the reward balance), commit_elapsed, commit_claim |
| accounts (`account.rs`) | per user `staked, volume, updated, entry volume, entry rewards, bonding` | deposit, deposit by Send, withdraw, claim, force_exit, reset |
| epoch clock (`time_utils.rs`) | `number, started, volume` | BeginEpoch by the timekeeper |
| configuration (`config.rs`, `handle.rs`) | tokens, bonding, timekeeper, closed seal | Configure, Close |
| migration (`migration.rs`, `lib.rs`) | lists of enabled successors and predecessors | enable and disable, RequestMigration, ExportState, ReceiveMigration |
| drain (`drain.rs`) | none (an allowance at a token) | Drain, after the pool was closed for a day |
| governance (`gov/`) | polls, their tallies and status, votes, per-user lists of open polls, configuration | CreatePoll, Vote, ChangeVoteChoice, Unvote, UpdateConfig, Close, and two calls from the pool: increase_vote_power on deposits, can_unstake on withdrawals |
| auth, permits, queries | viewing keys, revoked permits, admin | not about stakes or rewards |

Interactions: the pool queries its balance at the reward token on every read; it
pulls or receives LP tokens; RPT sends it rewards by plain transfers; pools of
different versions hand stakes over in one transaction; deposits raise open votes
and votes hold stakes back.

Hard: the reward balance is read in the middle of transactions that moved tokens;
accumulated volumes and released rewards must never shrink, or accounts cannot be
read at all; two ways out of the pool (force_exit, export) go around governance;
a pool whose LP token is its reward token mixes stakes and budget in one balance.

Correct when: totals are sums of entries; stakes are always backed by tokens held;
rewards paid were vested and are recorded; nobody is paid before the bonding
period; every account stays readable; votes weigh current stakes and finished
polls stay as they are.

### 1.2 Lend (`contracts/lend`)

The **market** keeps, for one asset, sl-token balances and supply, a list of
borrowers with principal and interest index (removed by swapping in the last one,
with an index map beside it), total borrows, reserves, the borrow index and the
block of the last accrual. Operations: deposit, redeem, borrow, repay, liquidate
(which seizes collateral here or, by a message, in another market), transfer, send,
reduce_reserves, update_config, killswitch. The **overseer** keeps the listed
markets and the markets each user entered; it computes liquidity by querying every
entered market and the **oracle**, whose prices come from a Band source. The
**interest model** is a pure jump-rate function.
Hard: rounding in both directions between the sum of debts and total borrows;
interest accrued once per block; the exchange rate read with the incoming payment
already in the balance; entering and leaving markets between borrows; prices and
factors changing under open debts; the borrowers' list and its index map.
Correct when: supply is the sum of balances; cash + borrows covers reserves;
a debt in a market implies having entered it; nobody borrows, redeems or transfers
into a shortfall; seizing moves exactly what was repaid for; everyone can repay.

### 1.3 AMM (`contracts/amm/{exchange,factory,router}`)

The **exchange** keeps its pair of tokens, its LP token and fee settings; swap,
add_liquidity, remove_liquidity work on balances it queries. The **factory** keeps
the exchanges by pair, an ephemeral creation signature, and the migration address;
it creates exchanges in two steps (instantiate, register callback) and hands them
to another factory in batches. The **router** keeps the route of the running
transaction and forwards the proceeds of each hop to the next.
Hard: rounding against the constant product; balances that include the payment;
the ephemeral signature shared by creations of one block; transfers in batches with
exclusions; route state left over by a failed or unfinished route.
Correct when: a swap costs a pool less than one unit in rounding, nobody's coming or
going takes from the shares of others, each listed exchange obeys the factory that
lists it and a factory has one exchange per pair, and a route pays its recipient or
changes nothing.

### 1.4 Launchpad and IDO (`contracts/launchpad`)

The **launchpad** keeps the tokens it supports, each with a segment and a bonding
period, and per account and token a balance and one timestamp for every segment locked.
Operations: lock (whole segments, the change goes back), unlock (the oldest entries
first), add and remove a token, and the draw, a query that picks addresses by the age of
their entries. The **sale** (IDO) keeps its configuration, a list of accounts with what
they pre-locked and bought, the seats taken and its schedule. It draws the addresses
missing from its whitelist when it is instantiated, is activated by the admin sending
the sold tokens, lets the listed pre-lock before the start and swap between start and
end, and afterwards lets the admin take what was paid and what was not sold.
Hard: activation inside a Receive whose balance already includes the payment; seats
counted for addresses that have one; amounts in two units, one pre-locked and the other
bought; the removal of a token, which iterates over accounts that never held it; and
segments whose size is read from the configuration of the day.
Correct when: everybody gets what they paid for and no more than their allocation, a
pre-lock is swapped once and can be, locked segments are backed and come back when a
token is removed, and the draw seats everybody who has bonded, once.

### 1.5 TGE (`contracts/tge`, `libraries/schedule`)

**MGMT** keeps the schedule, the launch time and what each address claimed; it
launches once, mints the total or checks that it has it, lets addresses claim what is
unlocked and the admin add accounts to partial pools or increase the allocation. The
**schedule** is a pure function from elapsed time to unlocked amounts, with its
validation. **RPT** is one account of the schedule, which anybody may make claim and
pass on whole portions to the reward pools. **SIENNA** is a SNIP-20 token: balances,
allowances that expire, minters, an admin, a status, and a history of transfers each
party pages through.
Hard: tokens are minted or checked once, and the schedule changes before and after;
portions that do not divide an amount, cliffs, accounts with an interval of 0; late
claims; minters taken away by MGMT and an admin who may set them again; transfers to
oneself; balances, supply and histories written by different code for each kind of
transfer.
Correct when: what is still to be given is always in MGMT, claims never exceed what is
unlocked and in the end reach all of it, nothing is minted after the launch, RPT keeps
less than a portion, the supply is what accounts hold, and one's history explains one's
balance.

### 1.6 Not contract logic

`frontends/` (client library and dashboard), `scripts/`, `settings/`, `receipts/`
(deployment), `experiments/`, `contracts/tge/wrapped*` (a stock ERC-20),
`contracts/amm/{lp-token,amm-snip20}` (wrappers around a library that is not in the
repository), `libraries/{migrate,linear-map}` (a status flag, a vector of pairs).

## 2. The modules

| module | models | of |
|---|---|---|
| `Sums`, `Lists` | running totals and their entries, sums over a set, saturating subtraction; loops that pass over entries | |
| `Governance` | polls, votes, tallies, per-user lists of open polls | `amm/rewards/gov` |
| `RewardPool` | the pool with its governance: EXTENDS `Governance` | `amm/rewards` |
| `StakingPromise` | abstract: what a staking pool promises its users | |
| `MCRewardPool` | instances for TLC, the refinement, claims of the documentation | |
| `SumsProofs` | lemmas every other proof uses: induction, sums, quotients, lists | |
| `RewardPoolProofs` | theorems about the pool, its governance and its refinement | |
| `LendProofs` | theorems about the markets and the overseer | |
| `FactoryProofs`, `RouterProofs` | theorems about the AMM | |
| `Snip20Proofs`, `TgeProofs` | theorems about the token and the token generation event | |
| `IdoProofs` | theorems about the launchpad, its draw and the sale | |
| `Decimals` | 256-bit fixed-point arithmetic, rounding down | fadroma (external) |
| `InterestModel` | the jump-rate formula and the market's cap on it | `lend-shared`, `lend/market` |
| `BorrowerList` | the borrowers of a market and their places | `lend/market/src/state.rs` |
| `Lend` | markets and overseer together: EXTENDS the three above | `lend/market`, `lend/overseer` |
| `MCLend` | instances for TLC and a claim of the source | |
| `Factory`, `MCFactory` | versions of the factory, their lists and statuses, the exchanges' `factory_info` | `amm/factory`, `amm/exchange` (ChangeFactory), `libraries/migrate` |
| `Exchange` | pools and balances: swaps, liquidity, fees; operators and actions without a `Next` of its own | `amm/exchange` |
| `Router`, `MCRouter` | the router over the exchanges: EXTENDS `Exchange` | `amm/router` |
| `Ledger` | the SIENNA token's balances, supply, minters, admin and status; actions without a `Next` of their own | `tge/snip20-sienna` |
| `Snip20`, `MCSnip20` | the token: EXTENDS `Ledger` with allowances, history and receivers | `tge/snip20-sienna` |
| `Schedule` | what accounts, pools and schedules unlock, their validation and amendment | `libraries/schedule` |
| `Tge`, `MCTge` | MGMT and RPT on the ledger: EXTENDS `Ledger`, `Schedule` | `tge/mgmt`, `tge/rpt` |
| `Launchpad` | locks, tokens and the draw; actions without a `Spec` of their own | `launchpad/launchpad` |
| `Ido`, `MCIdo` | a sale drawing its buyers from it: EXTENDS `Launchpad` | `launchpad/ido` |

How they correspond to the code:

* **One action is one committed transaction**: the handler and every message it
  returns. Its guard is the conjunction of all checks along the way, in whichever
  contract. A reverted transaction changes nothing and needs no action. Queries made
  in the middle see what the transaction has written and moved before them; where
  that matters the operator takes the balance as an argument (`Budget` in
  `RewardPool`, `balance` in `Lend`'s liquidity operators).
* **Lazy projection is kept.** `Total::get` and `Account::get` project stored values
  to the block's time; so do `calc_accrued_interest` and the queries built on it. The
  models store what the code stores and project with operators (`TotalVolume`,
  `UserVolume`, `Earned`; `Accrued`, `Debt`, `ExchangeRate`), so a read that would
  fail is a guard (`Readable`, `Accrues`, `HasRate`) and not an assumption.
* **`RewardPool`** keeps one record of totals, one account record per user, the clock,
  the configuration, balances of the pool, users and other contracts at the two
  tokens, and the migration links. Actions: `DepositLP`, deposit by Send, withdraw,
  claim, `force_exit`, epochs, configuration, closing, draining, migration in both
  directions, vesting by RPT, time. `bondedUntil`, `paid`, `judged` and `outlived` are history
  variables the properties refer to; no guard reads them. `judged` is the total each poll's
  status was last computed with, `outlived` what of a vote's stake has left around governance.
* **`Governance`** is written without variables of the pool: actions take the voter's
  stake and the total as arguments, and `RewardPool` passes what the code passes, at
  the moment the code passes it.
* **`Lend`** is a family of markets and one overseer. `Liquidate` is the payment, the
  check, the repayment and the seizure, in the same market (`LiquidateSame`) or by
  message in another (`LiquidateFrom`); the two read different values of the books,
  as the code does. `UserMay`, `LendAdminMay` and `AdminMay` say who sends what in an
  instance; they only bound the inputs.

* **`Factory`** keeps every exchange contract beside the lists of all versions, because
  the hazard is their disagreement. `CreateExchange` is the creation with both callbacks
  in its transaction; `TransferExchanges` is a batch with `ChangeFactory` at every
  exchange in it and `ReceiveExchanges` at the new factory.
* **`Router`** is the exception to one action per transaction: the router's state lives
  between the messages of one transaction, so there a step is a message (`SendRoute`,
  `HandleFirstHop`, `PoolSwaps`, `HandleHop`, `FinalizeRoute`), any of which may
  `Revert` to the balances recorded in `sent`. While a route is under way nothing else
  runs. Messages are delivered depth first, so `finalize` is what is left when a
  message calls nobody. Everything else (`Single`) is one step as usual.

* **`Ledger`** is shared: `Snip20` puts the token's own messages on it, `Tge` the vesting
  contracts, whose claims and mints are transactions of the token in the same step. A
  balance is 0 where nothing is stored; `InitialBalances` is the list `init` gets, which may
  name an address twice. In `Snip20`, `issued` and `told` are history variables: what was
  minted to an account, and what callbacks told a receiver.
* **`Tge`**: `Launch` is either of the two ways to fund the schedule; `Vest` is RPT's
  claim at MGMT and its transfers. What an address can claim is `Claimable`, for
  `portion()` and for RPT's query alike; an account whose interval is 0 cannot be read
  between its start and its end (`Readable`), which fails the whole claim. Migrating MGMT hands
  the token's administration back (`SetMgmtLevel`).
* **`Launchpad` and `Ido`**: entries are sequences of timestamps. The draw takes a
  percentage from its generator, any of `Percentages`, and is otherwise computed as the
  code does. `paid`, `covered` and `activations` are history variables. `StrictParsing` is as
  in the router: both contracts' `Receive` refuses the `sender` that SIENNA's callback
  contains, in the source as it is; the run `sale` sets it to `FALSE`.

The constants `Amounts`, `Vestings`, `Bondings`, `Prices`, ... are the inputs users, the
admin and the outside choose from. `MaxTime`, `MaxVested`, `MaxEpoch`, `MaxPolls`,
`MaxBlock`, `MaxTx`, `MaxPools`, `MaxLaunch` and `MaxActivations` are bounds: they stop
time, an outside source, or the number of times an admin or a user may do something.
`MaxUint`, `MaxDecimal` and `MaxCount` are the widths of the code's integers, scaled down.

## 3. What the runs check

`CHECK_DEADLOCK FALSE` is set where the bounded instance stops: time ends, and users
have nothing left to do. In the others somebody can always act.

Fairness is assumed in `Tge` alone. No handler of these contracts runs by itself, and a
user who never sends a transaction breaks no promise, so nowhere else is there a promise
that something happens. `WF(Tick)` says that blocks keep coming until `MaxTime`;
`WF(Payout)` that as long as an investor or RPT can be paid somebody sends a claim, which is
in the interest of whoever is owed. Neither says that pauses end: `EveryoneIsPaid`
assumes the contracts are left running from some moment on.

| run | instance | shows |
|---|---|---|
| `pool_open` | 2 users holding 1 and 2 LP tokens, LP token and SIENNA, changes of bonding, 2 units of time, 1 epoch | accounts stay readable, shares stay fractions, rewards come from what was vested and are counted, bonding is served |
| `pool_closing` | a pool whose LP token is SIENNA, with a predecessor and a successor, closed and drained, its governance closed too | stakes and budget in one balance: claims, hand-overs, closing and draining leave every stake backed; the pool refines `StakingPromise` |
| `gov_votes` | 2 voters with 4 and 2 units, a poll that expires, deposits and withdrawals between votes, a quorum that is changed, a successor to move to, a pool that is closed | tallies are the votes, lists are the open polls, a status is what its votes make it, votes weigh stakes and what of them left around governance, finished polls stay finished |
| `lend_one_market` | 2 users who supply, borrow, transfer, repay and liquidate in one market over 1 block of interest | totals, the list of borrowers, the worth of sl-tokens |
| `lend_two_markets` | collateral in atoms, debt in scrt at LTV 0, two prices, two ratios, cap, reserves, killswitches | debts only in entered markets, liquidation across markets only underwater, covered accounts stay covered |
| `factory_versions` | 3 versions, 3 pairs, up to 3 exchanges, batches of 2 | lists, owners and pairs agree after every batch, with exclusions and with users creating pairs in between |
| `amm_routes` | pools a-b and b-scrt, a provider and a trader, fees kept or burned, 7 routes of two and three hops, good and bad | rounding never favours the caller of the pool, a route delivers or reverts |
| `token` | an admin, an owner listed twice in `init`, a spender who registers for callbacks, 2 transfers, an allowance that expires | the supply is accounted for, histories explain balances |
| `tge` | an investor with a cliff, RPT with a remainder, schedules valid and not, prefunded or minting, accounts added, pauses and migration, times 0 to 3 | the schedule is funded, claims are what was unlocked, nothing is minted after the launch, RPT keeps less than a portion, everybody is paid |
| `sale` | 2 users, 2 tokens to lock, two sales, one paid in a token and one natively, additions to the whitelist, 2 activations | locks are backed and refunded, buyers pay, pre-locks can be swapped, seats go to the bonded and cover the listed |

In each a second user is there because most hazards need somebody else's
transaction between two of one's own; amounts include one that leaves a remainder
in every division the model makes (`DecimalOne` is 3 or 4), so rounding happens on
nearly every path. Two epochs' worth of time is enough for an account to be entered
in one state of the clock and read in another; one block of interest makes stored
and projected values differ, and liquidation possible. `lend_one_market` keeps the
LTV at 1/2 so that borrowing against what was borrowed ends.

`tge` lets elapsed time pass the end of every account, with a launch at time 0 or 1; what
a single account unlocks is checked for all small accounts besides (`SmallAccounts`), with
cliffs, remainders and intervals that do not divide the duration. In `token` all integers
are at most 3 and two tokens exist beside the one counted twice, so mints meet both limits
of `try_mint`. In `sale` one user can lock more, in several deposits, than a `Decimal`
holds, so that unlocking and removal meet that limit too.

Claims of the documentation or of comments the code does not meet, each refuted by
a run of its own:

| run | claim | what happens |
|---|---|---|
| `claim_markets_stay_open` | rates are capped so that nothing can freeze a market, lend/market/src/ops.rs:149-151 | repaid loans leave a unit of `total_borrows`; when suppliers leave, the utilization rate divides by zero |
| `claim_routes_start` | the first message with a route is routed, router/src/contract.rs | the router's `Receive` refuses the `sender` that tokens name, so no route from a token starts |

Others were met while modelling. The models follow the code in all of them:

* *Rewards.* In a single-sided pool a deposit by Send counts as released for a moment
  (total.rs:119 against :112-117), and the depositor's account cannot be read until rewards
  make up for it: no property that an account can always be read is stated for
  single-sided pools. After the reward token of a closed pool is drained some accounts
  cannot be read and so not exit (account.rs, `no_time_travel`), though README.md:174 and
  :202 say a closed pool returns the LP tokens. Closing does not stop the volumes (the
  README says time stops). `force_exit` and export return a stake whose vote is still open
  (gov/README says a voter cannot unstake), so the tokens can be staked by somebody else and
  vote again: `VotesWeighStakes` says by how much a vote outlives its stake and that it does so
  in no other way. Once everybody has left like this, changing or retracting a vote divides
  by a `total.staked` of 0. A poll's status is recomputed for the
  depositor's own votes only (gov/README says whenever anyone stakes or unstakes), and
  against what was staked before the deposit, which raises the votes and not yet the total:
  a voter's deposit can pass a poll that is short of its quorum.
  `StatusFollowsVotes` says what a status is worth, no more: the votes are the present ones, the
  stakes those of the last transaction that touched a vote.
  `create_poll` accepts a stake equal to the threshold, `can_unstake` then refuses even 0.
  An account whose stake was exported keeps its volume, and withdrawing 0 from it sets its
  bonding to what is configured by then (account.rs:236-273), so `BondingIsServed` is about
  pools without successors.
* *Lend.* The debts, each rounded down, can still add up to a unit more or less than
  `total_borrows`; when they are more, the last borrower cannot repay in full.
  `seize_amount` asks the collateral's market for its rate as of the last accrual. The
  overseer's README speaks of halting on stale prices, which no code does.
* *AMM.* Exchanges that a transfer skips vanish from every list, while users may create
  the pair again at the new factory; a skip list longer than the batch underflows a
  capacity and fails the transfer.
* *Sale.* The balance at activation already contains what is sent and is counted again, so
  half the tokens suffice (data.rs:41-43 says exactly the amount): then the last
  pre-locks cannot be claimed, against msg.rs:451. `PreLocksAreServed` is therefore about
  sales that were covered, and about those with at most half of their seats listed, which half
  the tokens do serve. A second activation reopens pre-locking for those who bought
  already. `total_pre_lock` is never lowered. A whitelist may have more addresses than
  seats, and an address may take several seats: the two drift apart, and `SeatsCoverListed`
  says in which direction, that a seat may be wasted and never shared.
* *Launchpad.* One account that never held a token, or one with more locked than a
  `Decimal` holds, makes the removal of that token fail for everybody (data.rs:242-243 and
  msg.rs:268-269 say all accounts are refunded); `RemovalRefundsAll` is about removals that
  succeed.
* *TGE.* The launch "prevents any more tokens from ever being minted" (mgmt/src/lib.rs:140-142)
  until MGMT migrates: its admin then administers the token and may set minters
  (`LaunchMintsLast` excludes that). `increase_allocation` works in a prefunded MGMT only,
  since the other has set no viewing key. An account with an interval of 0 passes the
  validation and cannot be read between its start and its end. RPT with an empty
  distribution cannot vest. An expired allowance is reset in a call that fails, so it stays
  stored, and an increase with a new expiration revives it. A transfer to oneself is in
  one's history twice.

`amm_routes` sets `StrictParsing` to `FALSE`: with the source as it is no route from a
token begins (`claim_routes_start`), and one from uscrt fails at the first pool, so
the run asks what the route protocol is worth once the router ignores the sender. It is,
with one reservation: a last hop into a pool that does not trade the token leaves the
token there and is still finalized, since the router sees no difference between a
pool that swapped and one that was not called. `RouteDeliversOrReverts` is about the
other routes.

Three properties of `Lend` allow for rounding, and need to. `SuppliersKeepValue`
allows one sl-token per transaction, since `redeem_underlying` rounds the burnt tokens
down. `CoveredStayCovered` allows `RoundingOf`, in each market of the account: a unit, since
the value of a sum is not the sum of the values (without it the instance of
`lend_one_market` has a redemption whose rounding leaves the redeemer a unit short); the account's share of the
sl-token that a redemption may keep from everybody; and dust, which comes back into
sight when its debtor enters the market again. The bounded instances do not call upon the
last two, which the proof needs at other constants. `DebtorsAreEntered`
speaks of debts above dust, which is what one unit borrowed at the opening index has grown
to: a principal of 1 recorded at an index above one reads as a debt of 0, and the borrower
may leave the market. `SwapsRoundByLessThanOne` is
what is true of the constant product: the payment is rounded up, so the product itself
may shrink, by less than one unit of the token paid out. A small pool can so be
drained of one token, and then accepts neither deposits nor swaps into the other
direction; the bounds of `amm_routes` reach this.

In `factory_versions` three exchanges and batches of two make full and partial batches,
and three versions let an exchange move twice. In `amm_routes` each token exists in two
or three units: a swap then drains a pool, rounds to nothing, or falls short of what
was expected, which are the cases rounding is about; seven routes include ones that end
at an unregistered token, go through scrt, or name a pool that trades no such token.

## 4. What is proved

With TLAPS, for every value of the constants: any number of users, any amounts, times,
configurations and schedules. The theorems assume the named assumptions on the constants
(`PoolAssumption`, `LendAssumption`, ...), which TLC evaluates in every run, and nothing
else but where a theorem's own `ASSUME` says so. Every safety invariant and every action
property that a passing run checks is the subject of a theorem; the liveness property
named at the end of this section is not. One action of `Next` is one step, or one lemma, of each proof.

*Sums and lists* (`SumsProofs`). Where a contract keeps a total, nothing iterates over the
entries. Such a sum is stated by a witness, the sequence of partial sums (`SumsTo`): when
one entry changes, the witness is shifted from that entry on (`ChangeOfOneEntry`), and no
induction is needed. Where the code does add up what it finds, and where two sums are
compared, the sum is `SumOver`, the community modules' fold, and facts about it do need
induction over the set. The library's induction theorems take an operator as a parameter,
which the installed provers cannot instantiate; that every set of naturals, or of subsets
of a finite set, has a minimal element is first-order, so `Induct` and `InductOverSets` have a
set in the place of the predicate. From these come what one entry, a union, a part, groups
and columns add up to (`SumWithout`, `SumOfUnion`, `SumOfPart`, `SumByGroups`, `SumsSwap`),
that sums compare as their entries do (`SumsCompare`), that the two notions agree
(`SumsToItsSum`), what a loop over a list that passes over entries collects
(`WithoutFacts`), and how quotients round (`QuotientBounds`, `QuotientGrows`).

*The pool and its governance* (`RewardPoolProofs`):

* `TypeCorrect` is not a formality: counters are in `Nat` and every subtraction in the code
  is on unsigned integers, so it says that no bookkeeping subtraction can fail. The
  invariant is `TypeInv`, `PoolTypeOK` with `total.updated <= now`; the two history variables
  of the votes get their types from `MemoryInv` below.
* `StakedIsSumHolds`: `total.staked` is the sum of all stakes. `StakesAreBackedHolds`: the
  pool holds what its users staked until the LP token is drained; in a single-sided pool
  claims leave the stakes alone, because `Earned` is at most the budget.
* `PromiseKeptHolds` is the refinement of `StakingPromise`. Each action is shown to be
  a step of the promise under the mapping (`DepositIsStake`, `PaymentIsRelease`,
  `ExitBySendIsSendToSealed`, `ExportIsMoveOut`, `ReceiveIsMoveIn`); it takes `TypeInv` and
  that a token is drained only when the pool is closed (`DrainedWhenClosed`).
* `SharesAreFractionsHolds`, `UnlockedIsVestedHolds`, `AccountsReadableHolds` rest on
  `PoolInv`. It adds that the clock's volume never passes the pool's, which is what keeps
  `SharesAreFractions` true for an account entered at the clock's volume, and that no
  account entered at more rewards than were vested.
* `BondingIsServedHolds`: `BondingInv` relates an account's countdown to the history
  variable `bondedUntil`, through the stored time of the account's last update.
* `TalliesMatchVotesHolds` and `ExpiredPollsAreFinalHolds` rest on `VotesInv`: for each poll
  its tallies and its voters' lists agree.
* `StatusFollowsVotesHolds` and `VotesWeighStakesHolds` rest on `MemoryInv`, for each poll a
  status that its votes and the remembered total decide (`Decided`), and for each open vote
  the stake and the remembered leavers that it weighs (`Weighed`). A status is computed on
  four paths, each of which changes the tally it is computed from in the same step
  (`SamePollRemembered`, `MovedVoteRemembered`, `DepositRemembered`); the way out of a
  stake is shut while its vote is open, or remembered (`LeaverRemembered`). That the quotient
  of the code exceeds the quorum exactly if the product does is `VerdictDecides`.

*Lend* (`LendProofs`). `LendInv` is `SupplyIsSum /\ BorrowersIndexed /\ DebtorsAreEntered`,
and inductive as it stands, but only as a whole: that a debt is seen by the overseer needs
that no snapshot's index has passed the market's own, and that needs the list of
borrowers to be indexed without duplicates.

* `SupplyIsSumHolds`: a transfer to oneself and a seizure that burns one part and moves the
  other change one or two entries of the sum. `BorrowersIndexedHolds` is a lemma on `Saved`,
  the removal that swaps in the last borrower (`SavedFacts`). `DebtorsAreEnteredHolds`: exit
  asks for the debt as of the last accrual, and a debt that reads as 0 then is dust.
* `SuppliersKeepValueHolds`: per action, the quotient that the handler rounds down is
  bounded from below by what it rounds; the token of slack is `redeem_underlying`'s.
* `OnlyUnderwaterLiquidatedHolds`: the overseer compares the debts with a collateral in which
  the payment has arrived, which is at least the collateral before (`RepaymentRaisesCollateral`,
  summed by `SumsCompare`), so whoever it lets be liquidated was underwater.
* `CoveredStayCoveredHolds`: what a handler leaves of a market is either the market as it
  was, or the market brought up to date with its tokens worth as much but for one
  (`Carried`, for every step by `StepCarries`). So in each entered market the debts and the
  collateral there was are at most the debts and the collateral there is, the allowance,
  and the cost the overseer reckoned with (`AccountCarried`, from what `Times` rounds:
  `TimesAdds`, `AmountCounts`, `CollateralFalls`); `CoverCarried` adds that up over the
  markets. The overseer's answer is that the collateral covers the cost (`AskedIsCovered`).
  Entering shows no more than dust, by `DebtorsAreEntered`; leaving gives up the
  market's tokens; a liquidated account was underwater.

*AMM* (`FactoryProofs`, `RouterProofs`):

* `ListedObeyTheirFactoryHolds`, `ListedOnceHolds`, `ListedUnlessSkippedHolds`:
  `FactoryInv` is the three and that what is listed exists. A hand-over is `Without`, the
  batch without what is skipped, whose members and order `WithoutFacts` describes; that
  nothing but the skipped vanishes is that batch and rest make up the list.
  `MigrationOnlyEmptiesHolds` follows from the same lemmas.
* `SwapsRoundByLessThanOneHolds` and `SharesKeepWorthHolds` are arithmetic of quotients:
  the return leaves the product short of one unit, and minting rounds down against both
  reserves. `NothingStrandedHolds` adds the sum of LP tokens (`SharesAddUp`): the last one
  to leave holds the whole supply, so that the rounded-down share is the whole reserve.
* `RouteDeliversOrRevertsHolds`: `RouterInv` says for each kind of message that can be
  under way what has been paid and by whom (`Starting`, `Swapping`, `Receiving`,
  `Finalizing`), relative to the balances recorded when the route was sent; it is the
  argument that `finalize` can only be reached with the route done.

*Token and token generation event* (`Snip20Proofs`, `TgeProofs`):

* `SupplyIsAccountedHolds`: supply and balances agree, by a lemma for each way to move, mint
  and burn. What `init` computes from its list, duplicates included, is part of the
  proof (`InitialSums`), by grouping the list's places by address.
* `HistoryExplainsBalancesHolds`: `HistoryInv` says of each account that balance and
  transfers paid add up to what was minted and received, and that no transfer in a
  history is numbered beyond the counter. The second part is what makes a transfer new,
  so that it is counted once though a transfer to oneself is stored twice; that pages of
  any size show every transfer is `PagesShowAll`.
* `ScheduleIsFundedHolds` and `LaunchMintsLastHolds`: the invariant has `MintersGone`, that
  between a minting launch and a migration MGMT is the token's only administrator.
  `RptPaysWholePortionsHolds` is an action property by arithmetic of quotients.
* `ClaimsAreUnlockedHolds`: `ClaimsInv` says that each address's claim is at most what the
  schedule has unlocked for it. That the claims together are at most the schedule's
  total takes a change of the order of summation (`SumsSwap`): the code unlocks per
  address, over all accounts, and validates per pool. Adding accounts keeps every earlier
  unlocked amount, and time only raises it.
* `UnlockedAsReleasedHolds`: for every account that `AddAccount` can bring into the schedule,
  what the closed formula of `vesting.rs` says is the sum of the dated releases that the
  documentation describes: cliff, portions and remainder are three groups of the sum.

*Launchpad and sale* (`IdoProofs`):

* `LocksAreBackedHolds` and `RemovalRefundsAllHolds` rest on `LaunchpadInv`: types, each
  token supported once (`OneEach`), nothing locked in a token that is not supported
  (`Vacant`: a token added again must not find old locks), and the funds being at least
  what is locked. They have two hypotheses that the code takes for granted and does not
  check, both facts about constants and both true in the run `sale`:
  `TokensListedOnce`, that `init` is not given a token twice (the admin could remove it
  and still support it), and `AllBondByForever`, that the timestamp `unlock_all` passes, the
  largest, lies beyond every bonding period (else a refund leaves entries behind).
* `SeatsGoToTheBondedHolds`: drawing without replacement from the bonded entries takes
  as many distinct owners as there are or as are asked for.
* `SeatsCoverListedHolds`: `SeatInv` adds to it that where the seats are exceeded nobody is
  listed but the whitelist, since then neither the draw nor an addition is made.
* `BoughtIsPaidHolds`: the rate's conversion rounds down, and a pre-lock is subtracted from
  what was paid until it is swapped. `PreLocksAreServedHolds`: `SaleInv` says that pre-locks
  are within the sale's limits whenever it starts, that in its only activation whoever has
  bought has no pre-lock left, and that what is left and what was bought make up half of
  what all the seats may buy, and all of it if covered (`ActivatedOnce`); so there is always
  enough for the rest of those listed, who by `SeatInv` are no more than the seats.

Only model-checked remains `EveryoneIsPaid`, which is liveness under fairness: its proof
needs `ENABLED`, which the installed tools cannot expand.

## 5. Not modelled

Viewing keys, permits and queries that only show state; logs, messages' wording and
padding; gas; canonical addresses. Amounts are unbounded naturals where the code has
`u128` or `u256` and nothing depends on their width; `Ledger`, `Launchpad` and `Ido` scale the
width down where it does. The administrators' two-step change is left out: the admin is
one actor who may do everything an admin may (SIENNA's one-step `ChangeAdmin` is an action,
because MGMT uses it). The killswitches of launchpad and sale only keep others
from acting and are left out; the others are part of the models.

Underlying tokens sent to a market or LP tokens to a pool by plain transfer are not
modelled; reward tokens sent to a pool are (`Vest`), and so are sold tokens sent to a sale.
In Lend all markets are listed from the start and one interest model serves all of them;
registering a market and its oracle symbol, and changing the model, happens once per
market by the admin. In the AMM the tokens are ledgers whose Send calls a receiver that
has registered; LP tokens are not transferred between users, fees have a denominator
other than 0, and a creation's signature is left out, being stored and removed by one
transaction. In the sale, the recipients of what is sold, refunded and claimed are outside;
in `Tge` the holders' own transfers are, since neither contract reads their balances.

The components without a model are clients and scripts, wrappers around code that is
not in the repository, a stock ERC-20, experiments, and read-only or key-checking
parts; `PROJECT.json` names the reason for each.

## 6. Plan

The models cover the contracts' own logic and the theorems every safety
property that a passing run checks.
What is left, the most valuable first:

1. *Lend*: markets that are listed later, with the symbol table.
2. *AMM*: LP tokens changing hands between users, which `SharesKeepWorth` does not depend on.
3. *Pool*: auth and permits, if they ever gate a transaction that moves stakes.
