----------------------------- MODULE RewardPool -----------------------------
(***************************************************************************)
(* One Sienna reward pool (contracts/amm/rewards): users stake LP tokens,  *)
(* the RPT contract sends reward tokens, and rewards are split by          *)
(* liquidity contributed over time.  Built with governance: every deposit  *)
(* raises open votes and a withdrawal is refused while votes are open.     *)
(*                                                                         *)
(* A transaction runs its handler and then the messages the handler        *)
(* returned, in order, and is reverted as a whole when any of them fails.  *)
(* One action is therefore one committed transaction: its guard is every   *)
(* check that could revert it, in the handler and in the token contracts.  *)
(*                                                                         *)
(* When LPToken = RewardToken the pool is single-sided.                    *)
(***************************************************************************)
EXTENDS Governance

CONSTANTS
  LPToken, RewardToken,
  Amounts,      \* amounts users pass to deposit and withdraw
  Vestings,     \* amounts the RPT contract sends
  Bondings,     \* values the admin may give bonding
  WaitPeriod,   \* drain::WAIT_PERIOD
  Successors,   \* contracts the admin may enable migration to
  Predecessors, \* contracts the admin may enable migration from
  InitialLP,    \* LP tokens each user starts with, by user
  LegacyStake,  \* stake each user has in each predecessor
  AdminMay,     \* bound: which of AdminMessages the admin sends
  MaxTime, MaxVested, MaxEpoch   \* bounds

AdminMessages == {"close", "configure", "close governance",
                  "configure governance", "drain"}

ASSUME PoolAssumption ==
  /\ Amounts \subseteq Nat /\ Vestings \subseteq Nat
  /\ Bondings \subseteq Nat /\ Bondings # {}
  /\ WaitPeriod \in Nat /\ InitialLP \in [Users -> Nat] /\ LegacyStake \in Nat
  /\ AdminMay \subseteq AdminMessages
  /\ MaxTime \in Nat /\ MaxVested \in Nat /\ MaxEpoch \in Nat

VARIABLES
  clock,        \* Clock: number, started, volume
  total,        \* Total: volume, updated, staked, distributed
  account,      \* Account of each user, as stored
  bonding,      \* RewardsConfig::BONDING
  closed,       \* RewardsConfig::CLOSED: when the pool was closed, or Never
  canMigrateTo, \* Emigration::CAN_MIGRATE_TO
  canMigrateFrom, \* Immigration::CAN_MIGRATE_FROM
  drainable,    \* tokens whose allowance was given away by Drain
  held,         \* balance of the pool in each token
  wallet,       \* LP tokens of each user
  abroad,       \* stake of each user in the other versions of the pool
  \* History variables: read by properties only.
  vested,       \* reward tokens ever sent by RPT
  paid,         \* reward tokens ever paid to each user's account
  bondedUntil,  \* when each user's running bonding period ends
  judged,       \* total.staked as each poll's status was last computed with it
  outlived      \* of each vote: the stake behind it that left around governance

poolVars == <<clock, total, account, bonding, closed, canMigrateTo,
              canMigrateFrom, drainable>>
tokenVars == <<held, wallet, abroad>>
history == <<vested, paid, bondedUntil, judged, outlived>>
vars == <<now, govVars, poolVars, tokenVars, history>>

Never == -1
Tokens == {LPToken, RewardToken}
SingleSided == LPToken = RewardToken
IsClosed == closed # Never

\* An account no transaction has touched reads as these defaults: with no
\* volume it has earned nothing, and its first commit resets it.
NewAccount == [staked |-> 0, volume |-> 0, updated |-> 0,
               entryVol |-> 0, entryRew |-> 0, bonding |-> 0]

ClockRecord == [number: Nat, started: Nat, volume: Nat]
TotalRecord == [volume: Nat, updated: Nat, staked: Nat, distributed: Nat]
AccountRecord == [staked: Nat, volume: Nat, updated: Nat,
                  entryVol: Nat, entryRew: Nat, bonding: Nat]

PoolTypeOK ==
  /\ GovTypeOK
  /\ clock \in ClockRecord
  /\ total \in TotalRecord
  /\ account \in [Users -> AccountRecord]
  /\ bonding \in Bondings
  /\ closed \in Nat \cup {Never}
  /\ canMigrateTo \subseteq Successors
  /\ canMigrateFrom \subseteq Predecessors
  /\ drainable \subseteq Tokens
  /\ held \in [Tokens -> Nat]
  /\ wallet \in [Users -> Nat]
  /\ abroad \in [Successors \cup Predecessors -> [Users -> Nat]]
  /\ vested \in Nat
  /\ paid \in [Users -> Nat]
  /\ bondedUntil \in [Users -> Nat]

TypeOK ==
  /\ PoolTypeOK
  /\ judged \in [PollIds -> Nat]
  /\ outlived \in [PollIds -> [Users -> Nat]]

Init ==
  /\ GovInit
  /\ clock = [number |-> 0, started |-> 0, volume |-> 0]
  /\ total = [volume |-> 0, updated |-> 0, staked |-> 0, distributed |-> 0]
  /\ account = [u \in Users |-> NewAccount]
  /\ bonding \in Bondings
  /\ closed = Never
  /\ canMigrateTo = {} /\ canMigrateFrom = {} /\ drainable = {}
  /\ held = [t \in Tokens |-> 0]
  /\ wallet = InitialLP
  /\ abroad = [c \in Successors \cup Predecessors |->
                 [u \in Users |-> IF c \in Predecessors THEN LegacyStake ELSE 0]]
  /\ vested = 0
  /\ paid = [u \in Users |-> 0]
  /\ bondedUntil = [u \in Users |-> 0]
  /\ judged = [p \in PollIds |-> 0]
  /\ outlived = [p \in PollIds |-> [u \in Users |-> 0]]

-----------------------------------------------------------------------------
(* Total::get and Account::get: the stored values projected to now.        *)
(* The handler reads the pool's reward balance h; in a transaction that    *)
(* brought tokens along, h already includes them.                          *)

Accumulate(last, elapsed, value) == last + elapsed * value

TotalVolume == Accumulate(total.volume, now - total.updated, total.staked)

\* Mutant of Budget: stakes are not set apart in a single-sided pool.
BudgetWithStakes(h) == h

Budget(h) == IF SingleSided THEN h - total.staked ELSE h

\* Mutant of Unlocked: what was distributed is forgotten.
UnlockedNow(h) == Budget(h)

Unlocked(h) == total.distributed + Budget(h)

Elapsed(u) == now - account[u].updated

UserVolume(u) == Accumulate(account[u].volume, Elapsed(u), account[u].staked)

\* Mutant of BondingLeft: the subtraction does not saturate.
BondingLeftUnsaturated(u) == account[u].bonding - Elapsed(u)

BondingLeft(u) ==
  IF account[u].staked > 0 THEN MinusOrZero(account[u].bonding, Elapsed(u))
                           ELSE account[u].bonding

\* The liquidity the pool has accumulated, and the rewards it has unlocked,
\* since the user's entry.
AccumulatedVolume(u) == TotalVolume - account[u].entryVol
AccumulatedRewards(u, h) == Unlocked(h) - account[u].entryRew

Earned(u, h) ==
  IF AccumulatedVolume(u) = 0 THEN 0
  ELSE LeastOf(Budget(h),
               (AccumulatedRewards(u, h) * UserVolume(u))
                  \div AccumulatedVolume(u))

\* Total::get succeeds (its subtraction does not underflow, time has not gone
\* back), and so does Account::get (no accumulator has decreased).
TotalReadable(h) == total.updated <= now /\ Budget(h) >= 0
Readable(u, h) ==
  /\ TotalReadable(h)
  /\ account[u].updated <= now
  /\ account[u].entryVol <= TotalVolume
  /\ account[u].entryRew <= Unlocked(h)

\* Account::reset of an account that holds `staked`.
Reset(staked, h) ==
  [staked |-> staked,
   volume |-> 0,
   updated |-> now,
   entryVol |-> IF staked = 0 THEN clock.volume ELSE TotalVolume,
   entryRew |-> Unlocked(h),
   bonding |-> bonding]

\* Mutant of CommitElapsed: UPDATED is not stored, time is counted twice.
CommitElapsedTwice(u, h) ==
  IF account[u].staked = 0 THEN Reset(0, h)
  ELSE [account[u] EXCEPT !.volume = UserVolume(u), !.bonding = BondingLeft(u)]

\* Mutant of CommitElapsed: a returning user is not reset.
CommitElapsedNoReset(u, h) ==
  [account[u] EXCEPT !.volume = UserVolume(u),
                     !.bonding = BondingLeft(u),
                     !.updated = now]

\* Account::commit_elapsed
CommitElapsed(u, h) ==
  IF account[u].staked = 0 THEN Reset(0, h)
  ELSE [account[u] EXCEPT !.volume = UserVolume(u),
                          !.bonding = BondingLeft(u),
                          !.updated = now]

\* Mutant of AccountAfter: a withdrawal is not written off.
AccountAfterDepositOnly(u, h, d) ==
  [CommitElapsed(u, h) EXCEPT !.staked = IF d > 0 THEN @ + d ELSE @]

\* The account after commit_deposit or commit_withdrawal, its stake changing
\* by d.
AccountAfter(u, h, d) == [CommitElapsed(u, h) EXCEPT !.staked = @ + d]

\* Mutant of TotalAfter: the totals are committed without Total::STAKED.
TotalAfterElapsedOnly(d) ==
  [total EXCEPT !.volume = TotalVolume, !.updated = now]

\* The totals after commit_deposit or commit_withdrawal.
TotalAfter(d) ==
  [total EXCEPT !.volume = TotalVolume, !.updated = now, !.staked = @ + d]

\* Mutant of AfterClaim: CLAIMED is not stored.
AfterUncountedClaim(t, reward) == t

\* Total::commit_claim
AfterClaim(t, reward) == [t EXCEPT !.distributed = @ + reward]

-----------------------------------------------------------------------------
(* Token transfers made by the messages of a transaction.                  *)

Debit(balance, t, amount) == [balance EXCEPT ![t] = @ - amount]
Credit(balance, t, amount) == [balance EXCEPT ![t] = @ + amount]

\* Rewards received are LP tokens to their recipient in a single-sided pool.
Spendable(reward) == IF SingleSided THEN reward ELSE 0

\* A pool holding `pool` pays u `lp` of the LP token and user `to` `reward` of
\* the reward token, in messages that fail when it cannot pay.
PayOut(pool, wallets, u, lp, to, reward) ==
  /\ lp <= pool[LPToken]
  /\ reward <= Debit(pool, LPToken, lp)[RewardToken]
  /\ held' = Debit(Debit(pool, LPToken, lp), RewardToken, reward)
  /\ wallet' = LET w == [wallets EXCEPT ![u] = @ + lp]
               IN [w EXCEPT ![to] = @ + Spendable(reward)]

-----------------------------------------------------------------------------
(* Transactions of users.                                                  *)

\* Account::commit_deposit, the reward balance read being h.
CommitDeposit(u, amount, h) ==
  /\ Readable(u, h)
  /\ IncreaseVotePower(u, amount, total.staked)
  /\ account' = [account EXCEPT ![u] =
                   AccountAfter(u, h, amount)]
  /\ total' = TotalAfter(amount)
  /\ bondedUntil' = IF account[u].staked = 0
                    THEN [bondedUntil EXCEPT ![u] = now + bonding]
                    ELSE bondedUntil
  /\ judged' = [p \in PollIds |->
                  IF p \in Unexpired(active[u]) THEN total.staked ELSE judged[p]]
  /\ UNCHANGED <<now, clock, bonding, closed, canMigrateTo, canMigrateFrom,
                 drainable, vested, paid, outlived>>

\* rewards.deposit: the handler commits, then its transfer_from message pulls
\* the tokens (the allowance is given with the transaction).
Deposit(u, amount) ==
  /\ ~IsClosed
  /\ amount <= wallet[u]
  /\ CommitDeposit(u, amount, held[RewardToken])
  /\ held' = Credit(held, LPToken, amount)
  /\ wallet' = [wallet EXCEPT ![u] = @ - amount]
  /\ UNCHANGED abroad

\* The LP token's Send to the pool: the tokens move, then the token calls
\* Receive on the pool, so the handler sees them in the pool's balance.
SendLP(u, amount) ==
  /\ amount <= wallet[u]
  /\ wallet' = [wallet EXCEPT ![u] = @ - amount]
  /\ held' = Credit(held, LPToken, amount)
  /\ UNCHANGED abroad

DepositBySend(u, amount) ==
  /\ ~IsClosed
  /\ SendLP(u, amount)
  /\ CommitDeposit(u, amount, Credit(held, LPToken, amount)[RewardToken])

\* Account::withdraw.  Leaving entirely also claims when bonding is over, and
\* otherwise forfeits.
Withdraw(u, amount) ==
  LET h == held[RewardToken]
      left == AccountAfter(u, h, -amount)
      claims == left.staked = 0 /\ Earned(u, h) > 0 /\ left.bonding = 0
      reward == IF claims THEN Earned(u, h) ELSE 0
  IN /\ ~IsClosed
     /\ Readable(u, h)
     /\ amount <= account[u].staked
     /\ amount <= total.staked
     /\ CanUnstake(u, account[u].staked, amount)
     /\ account' = [account EXCEPT ![u] =
                      IF left.staked = 0 THEN Reset(0, h) ELSE left]
     /\ total' = AfterClaim(TotalAfter(-amount), reward)
     /\ PayOut(held, wallet, u, amount, u, reward)
     /\ paid' = [paid EXCEPT ![u] = @ + reward]
     /\ UNCHANGED <<now, govVars, clock, bonding, closed, canMigrateTo,
                    canMigrateFrom, drainable, abroad, vested, bondedUntil, judged,
                    outlived>>

\* Account::claim, paid to the account the user names.
Claim(u, to) ==
  LET h == held[RewardToken]
      reward == Earned(u, h)
  IN /\ ~IsClosed
     /\ Readable(u, h)
     /\ BondingLeft(u) = 0
     /\ Budget(h) > 0
     /\ reward > 0
     /\ account' = [account EXCEPT ![u] = Reset(account[u].staked, h)]
     /\ total' = AfterClaim(total, reward)
     /\ PayOut(held, wallet, u, 0, to, reward)
     /\ paid' = [paid EXCEPT ![u] = @ + reward]
     /\ bondedUntil' = [bondedUntil EXCEPT ![u] = now + bonding]
     /\ UNCHANGED <<now, govVars, clock, bonding, closed, canMigrateTo,
                    canMigrateFrom, drainable, abroad, vested, judged, outlived>>

\* can_unstake is not asked when a stake leaves by force_exit or export: the open
\* votes of its owner go on weighing it (history).
LeavesAround(u) ==
  outlived' = [p \in PollIds |->
                 IF HasVoted(u, p) /\ ~Expired(p)
                 THEN [outlived[p] EXCEPT ![u] = @ + account[u].staked]
                 ELSE outlived[p]]

\* Account::force_exit: what every deposit, withdraw and claim does in a closed
\* pool.  The pool holds `pool` when the handler runs.
ForceExitFrom(u, pool, wallets) ==
  LET h == pool[RewardToken]
      staked == account[u].staked
      reward == Earned(u, h)
  IN /\ IsClosed
     /\ Readable(u, h)
     /\ staked <= total.staked
     /\ account' = [account EXCEPT ![u] =
                      IF reward > 0 THEN Reset(0, h)
                      ELSE AccountAfter(u, h, -staked)]
     /\ total' = AfterClaim(TotalAfter(-staked), reward)
     /\ PayOut(pool, wallets, u, staked, u, reward)
     /\ paid' = [paid EXCEPT ![u] = @ + reward]
     /\ LeavesAround(u)
     /\ UNCHANGED <<now, govVars, clock, bonding, closed, canMigrateTo,
                    canMigrateFrom, drainable, abroad, vested, bondedUntil, judged>>

ForceExit(u) == ForceExitFrom(u, held, wallet)

\* DepositReceiver in a closed pool: the tokens sent stay with the pool, the
\* exit returns the stake on record.
ForceExitBySend(u, amount) ==
  /\ amount <= wallet[u]
  /\ ForceExitFrom(u, Credit(held, LPToken, amount),
                   [wallet EXCEPT ![u] = @ - amount])

-----------------------------------------------------------------------------
(* Migration.  User u asks contract c of the next version for their state; *)
(* c asks this pool (ExportState), which sends c the stake and then the    *)
(* snapshot.  Neither step looks at votes, bonding or the closed seal.     *)

ExportState(c, u) ==
  LET staked == account[u].staked
  IN /\ c \in canMigrateTo
     /\ Readable(u, held[RewardToken])
     /\ staked > 0            \* otherwise nothing here changes
     /\ staked <= total.staked
     /\ staked <= held[LPToken]
     /\ account' = [account EXCEPT ![u] =
                      AccountAfter(u, held[RewardToken], -staked)]
     /\ total' = TotalAfter(-staked)
     /\ held' = Debit(held, LPToken, staked)
     /\ LeavesAround(u)
     /\ UNCHANGED <<now, govVars, clock, bonding, closed, canMigrateTo,
                    canMigrateFrom, drainable, wallet, vested, paid, bondedUntil,
                    judged>>
     /\ abroad' = [abroad EXCEPT ![c][u] = @ + staked]

\* RequestMigration from predecessor c: its whole stake arrives as LP tokens
\* and then as a ReceiveMigration that commits the deposit.
ReceiveMigration(c, u) ==
  LET staked == abroad[c][u]
  IN /\ c \in canMigrateFrom
     /\ held' = Credit(held, LPToken, staked)
     /\ abroad' = [abroad EXCEPT ![c][u] = 0]
     /\ CommitDeposit(u, staked, Credit(held, LPToken, staked)[RewardToken])
     /\ UNCHANGED wallet

-----------------------------------------------------------------------------
(* Governance transactions of users.                                       *)

notGov == <<now, poolVars, tokenVars, vested, paid, bondedUntil>>

\* The status of p is computed with what is staked now.
Judge(p) == judged' = [judged EXCEPT ![p] = total.staked]

StakerCreatesPoll(u) ==
  /\ Readable(u, held[RewardToken])
  /\ CreatePoll(u, account[u].staked)
  /\ UNCHANGED <<notGov, judged, outlived>>

StakerVotes(u, p, choice) ==
  /\ Readable(u, held[RewardToken])
  /\ CastVote(u, p, choice, account[u].staked, total.staked)
  /\ Judge(p)
  /\ UNCHANGED <<notGov, outlived>>

StakerChangesVote(u, p, choice) ==
  /\ TotalReadable(held[RewardToken])
  /\ ChangeVoteChoice(u, p, choice, total.staked)
  /\ Judge(p)
  /\ UNCHANGED <<notGov, outlived>>

StakerUnvotes(u, p) ==
  /\ TotalReadable(held[RewardToken])
  /\ Unvote(u, p, total.staked)
  /\ Judge(p)
  /\ outlived' = [outlived EXCEPT ![p][u] = 0]
  /\ UNCHANGED notGov

AdminRunsGovernance ==
  /\ \/ "configure governance" \in AdminMay /\ UpdateGovConfig
     \/ "close governance" \in AdminMay /\ CloseGovernance
  /\ UNCHANGED <<notGov, judged, outlived>>

-----------------------------------------------------------------------------
(* The timekeeper, the admin, and the world outside.                       *)

\* Clock::increment: the pool's volume so far becomes the epoch's; the totals
\* are not committed.
BeginEpoch ==
  /\ clock.number < MaxEpoch
  /\ clock' = [number |-> clock.number + 1, started |-> now,
               volume |-> TotalVolume]
  /\ UNCHANGED <<now, govVars, total, account, bonding, closed, canMigrateTo,
                 canMigrateFrom, drainable, tokenVars, history>>

Configure ==
  /\ "configure" \in AdminMay
  /\ bonding' \in Bondings
  /\ UNCHANGED <<now, govVars, clock, total, account, closed, canMigrateTo,
                 canMigrateFrom, drainable, tokenVars, history>>

\* Close: closing again moves the seal, and with it the wait before Drain.
Close ==
  /\ "close" \in AdminMay
  /\ closed' = now
  /\ UNCHANGED <<now, govVars, clock, total, account, bonding, canMigrateTo,
                 canMigrateFrom, drainable, tokenVars, history>>

\* Enable or disable migration to a successor or from a predecessor.
SetMigration ==
  /\ \/ \E c \in Successors :
          canMigrateTo' \in {canMigrateTo \cup {c}, canMigrateTo \ {c}}
        /\ UNCHANGED canMigrateFrom
     \/ \E c \in Predecessors :
          canMigrateFrom' \in {canMigrateFrom \cup {c}, canMigrateFrom \ {c}}
        /\ UNCHANGED canMigrateTo
  /\ UNCHANGED <<now, govVars, clock, total, account, bonding, closed,
                 drainable, tokenVars, history>>

\* Drain: an unlimited allowance over one of the pool's tokens.
Drain(t) ==
  /\ "drain" \in AdminMay
  /\ IsClosed
  /\ now - closed >= WaitPeriod
  /\ drainable' = drainable \cup {t}
  /\ UNCHANGED <<now, govVars, clock, total, account, bonding, closed,
                 canMigrateTo, canMigrateFrom, tokenVars, history>>

\* The holder of that allowance takes the pool's balance (token contract).
Sweep(t) ==
  /\ t \in drainable
  /\ held[t] > 0
  /\ held' = [held EXCEPT ![t] = 0]
  /\ UNCHANGED <<now, govVars, poolVars, wallet, abroad, history>>

\* RPT vests a portion to the pool by a plain transfer (token contract).
Vest(amount) ==
  /\ vested + amount <= MaxVested
  /\ held' = Credit(held, RewardToken, amount)
  /\ vested' = vested + amount
  /\ UNCHANGED <<now, govVars, poolVars, wallet, abroad, paid, bondedUntil, judged,
                 outlived>>

\* A block of a later time.
Tick ==
  /\ now < MaxTime
  /\ now' = now + 1
  /\ UNCHANGED <<govVars, poolVars, tokenVars, history>>

Next ==
  \/ Tick
  \/ \E amount \in Vestings : Vest(amount)
  \/ \E u \in Users, amount \in Amounts : Deposit(u, amount)
  \/ \E u \in Users, amount \in Amounts : DepositBySend(u, amount)
  \/ \E u \in Users, amount \in Amounts : Withdraw(u, amount)
  \/ \E u, to \in Users : Claim(u, to)
  \/ \E u \in Users : ForceExit(u)
  \/ \E u \in Users, amount \in Amounts : ForceExitBySend(u, amount)
  \/ \E c \in Successors, u \in Users : ExportState(c, u)
  \/ \E c \in Predecessors, u \in Users : ReceiveMigration(c, u)
  \/ \E u \in Users : StakerCreatesPoll(u)
  \/ \E u \in Users, p \in PollIds, c \in Choices : StakerVotes(u, p, c)
  \/ \E u \in Users, p \in PollIds, c \in Choices : StakerChangesVote(u, p, c)
  \/ \E u \in Users, p \in PollIds : StakerUnvotes(u, p)
  \/ AdminRunsGovernance
  \/ BeginEpoch
  \/ Configure
  \/ Close
  \/ SetMigration
  \/ \E t \in Tokens : Drain(t)
  \/ \E t \in Tokens : Sweep(t)

Spec == Init /\ [][Next]_vars

-----------------------------------------------------------------------------
(* Safety.                                                                 *)

\* total.staked, which no code path recomputes, is the sum of the stakes
\* (commit_deposit and commit_withdrawal change both).
StakedIsSum ==
  SumsTo([u \in Users |-> account[u].staked], N, total.staked)

\* Until the admin drains the LP token the pool can return every stake, and in
\* a single-sided pool paying rewards never eats into stakes.
StakesAreBacked == LPToken \notin drainable => held[LPToken] >= total.staked

\* No user's liquidity since entry exceeds the pool's: a reward share is at
\* most one, and entryVol never lies ahead of the pool's volume, whichever of
\* clock.volume and total.volume reset took it from.
SharesAreFractions ==
  \A u \in Users : account[u].entryVol + UserVolume(u) <= TotalVolume

\* distributed is the sum of what the accounts were paid; without stray deposits or
\* a drain, unlocked is what RPT ever released: each claim moves exactly as much from
\* the budget to distributed.
UnlockedIsVested ==
  /\ SumsTo(paid, N, total.distributed)
  /\ (drainable = {} /\ ~SingleSided) => Unlocked(held[RewardToken]) = vested

\* In a pool of two tokens that was not drained, every account can be read, so
\* no transaction fails with no_time_travel: entryRew never gets ahead of what
\* is unlocked.
AccountsReadable ==
  (drainable = {} /\ ~SingleSided) =>
    \A u \in Users : Readable(u, held[RewardToken])

\* A vote on an open poll weighs what its caster has staked now, by whatever deposits,
\* migrations, withdrawals and votes that came to be.  The stakes that leave by
\* force_exit and by export, which do not ask governance (account.rs:332), are the
\* only ones a vote outlives, and it outlives them by their amount.
VotesWeighStakes ==
  \A u \in Users, p \in PollIds :
    ~Expired(p) /\ HasVoted(u, p) =>
      vote[p][u].power = account[u].staked + outlived[p][u]

\* A poll's status is Passed exactly if its votes, as they are, are more yes than no
\* and were more than the quorum (rounded down to Decimal's precision) of all that was
\* staked before the last transaction that touched them: no cast, changed, raised
\* or withdrawn vote is left out of the status, and no later configuration
\* changes the quorum a poll was created with (Poll::update_result).
StatusFollowsVotes ==
  \A p \in PollIds :
    LET votes == result[p]["yes"] + result[p]["no"]
    IN poll[p].status = "passed" <=>
         /\ result[p]["yes"] > result[p]["no"]
         /\ votes * DecimalOne >= (poll[p].quorum + 1) * judged[p]

\* A payment in an open pool that exports no stakes comes no sooner than the bonding
\* in force when the account opened, or was last paid, has passed: partial withdrawals,
\* top-ups, forfeits, epochs and changes of the configuration do not shorten it.  (An
\* exported account keeps its volume, and may take another bonding by withdrawing 0.)
BondingIsServed ==
  [][\A u \in Users :
       Successors = {} /\ ~IsClosed /\ paid'[u] > paid[u] => now >= bondedUntil[u]]_vars
=============================================================================
