-------------------------------- MODULE Tge --------------------------------
(***************************************************************************)
(* The token generation event (contracts/tge): the vesting contract MGMT,  *)
(* which holds the supply and pays it out by the schedule, RPT, which      *)
(* claims its part and splits it among the reward pools, and the ledger of *)
(* the token underneath.                                                   *)
(*                                                                         *)
(* A handler and the messages it sends are one transaction: where one of   *)
(* them fails none happens.  Transfers leave no history here (Snip20).     *)
(***************************************************************************)
EXTENDS Ledger, Schedule

CONSTANTS
  MgmtAdmin,      \* the admin of MGMT and RPT, and at first of the token
  Mgmt, Rpt,      \* the contracts' own addresses
  Investors,      \* addresses that claim for themselves
  Schedules,      \* what the admin configures
  NewAccounts,    \* what it adds, as pairs of a pool's place and an account
  NewPools,       \* pools by which it increases the allocation
  Distributions,  \* how RPT splits a portion: functions from addresses
  RptLevels,      \* levels RPT's admin sets
  Mints,          \* amounts the token's minters mint to MGMT
  StartTime,      \* the time everything is instantiated
  MaxTime,        \* bound on env.block.time
  MaxLaunch,      \* bound on the time of the launch: the schedule ends by MaxTime
  MaxPools        \* bound on the pools of the schedule

NotLaunched == -1
Levels == {"Operational", "Paused", "Migrating"}

ASSUME TgeAssumption ==
  /\ Mgmt \in Holders /\ MgmtAdmin \in Holders \ {Mgmt} /\ Rpt \in Holders \ {Mgmt}
  /\ Schedules \subseteq SchedulesOf(Holders)
  /\ NewPools \subseteq PoolsOf(Holders)
  /\ NewAccounts \subseteq Nat \X AccountsOf(Holders)
  /\ Investors \subseteq Holders \ {Mgmt, Rpt}
  /\ \A d \in Distributions : DOMAIN d \subseteq Holders \ {Mgmt, Rpt} /\ d \in [DOMAIN d -> Nat]
  /\ Mints \subseteq Nat /\ RptLevels \subseteq Levels
  /\ MaxTime \in Nat /\ StartTime \in 0..MaxTime /\ MaxLaunch \in 0..MaxTime /\ MaxPools \in Nat

VARIABLES
  schedule,
  prefunded,      \* MGMT was instantiated with prefund, and has a viewing key
  launched,       \* the time of the launch
  claimed,        \* Participant.claimed
  total_claimed,  \* History's CURRENT_TOTAL
  level,          \* of MGMT's killswitch
  rpt_level,      \* of RPT's
  distribution,   \* of RPT; portion is its sum
  now             \* env.block.time

mgmtVars == <<schedule, prefunded, launched, claimed, total_claimed, level>>
rptVars == <<rpt_level, distribution>>
vars == <<ledgerVars, mgmtVars, rptVars, now>>

TypeOK ==
  /\ LedgerTypeOK
  /\ schedule \in SchedulesOf(Holders) /\ Valid(schedule)
  /\ prefunded \in BOOLEAN
  /\ launched \in {NotLaunched} \cup 0..MaxTime
  /\ claimed \in [Holders -> Nat]
  /\ total_claimed \in Nat
  /\ level \in Levels /\ rpt_level \in Levels
  /\ distribution \in Distributions
  /\ now \in StartTime..MaxTime

Init ==
  /\ LedgerInit
  /\ schedule \in {s \in Schedules : Valid(s)}
  /\ prefunded \in BOOLEAN
  /\ launched = NotLaunched
  /\ claimed = [h \in Holders |-> 0]
  /\ total_claimed = 0
  /\ level = "Operational"
  /\ rpt_level = "Operational"
  /\ distribution \in Distributions
  /\ now = StartTime

-----------------------------------------------------------------------------
(* MGMT.  The guard lets its operations through while it is operational.   *)

HasLaunched == launched # NotLaunched

\* get_elapsed
Elapsed == MinusOrZero(now, launched)

Configure(new) ==
  /\ level = "Operational"
  /\ ~HasLaunched
  /\ Valid(new)
  /\ schedule' = new
  /\ UNCHANGED <<ledgerVars, prefunded, launched, claimed, total_claimed, level, rptVars, now>>

\* add_account, before the launch or after
AddAccount(i, account) ==
  /\ level = "Operational"
  /\ i \in DOMAIN schedule.pools
  /\ CanAdd(schedule.pools[i], account)
  /\ schedule' = [schedule EXCEPT !.pools[i] = WithAccount(@, account)]
  /\ UNCHANGED <<ledgerVars, prefunded, launched, claimed, total_claimed, level, rptVars, now>>

\* Mutant of PrefundedLaunch: the balance is not checked.
LaunchOnTrust == prefunded /\ UNCHANGED ledgerVars

\* launch with prefund: MGMT already has what the schedule gives out.
PrefundedLaunch ==
  /\ prefunded
  /\ schedule.total <= balances[Mgmt]
  /\ UNCHANGED ledgerVars

\* Mutant of MintersAfterLaunch: the minters stay.
MintersAsBefore == minters

\* set_minters_msg(vec![])
MintersAfterLaunch == {}

\* launch without: MGMT mints it, then leaves the token without a minter.
MintingLaunch ==
  /\ ~prefunded
  /\ ~stopped
  /\ Mgmt \in minters
  /\ total_supply + schedule.total <= MaxUint
  /\ balances[Mgmt] + schedule.total <= MaxUint
  /\ total_supply' = total_supply + schedule.total
  /\ balances' = [balances EXCEPT ![Mgmt] = @ + schedule.total]
  /\ IsTokenAdmin(Mgmt)
  /\ minters' = MintersAfterLaunch
  /\ UNCHANGED <<token_admin, stopped>>

Launch ==
  /\ level = "Operational"
  /\ ~HasLaunched
  /\ now <= MaxLaunch
  /\ launched' = now
  /\ PrefundedLaunch \/ MintingLaunch
  /\ UNCHANGED <<schedule, prefunded, claimed, total_claimed, level, rptVars, now>>

\* Mutant of Claimable: what was claimed before can be claimed again.
ClaimableAgain(h) == Unlocked(schedule, Elapsed, h)

\* What an address can claim now, by portion() and by RPT's query_claimable.
Claimable(h) == MinusOrZero(Unlocked(schedule, Elapsed, h), claimed[h])

\* claim, up to the transfer of what can be claimed
ClaimBy(h, claimable) ==
  /\ level = "Operational"
  /\ HasLaunched
  /\ CanRead(schedule, Elapsed, h)
  /\ claimable \in 1..MaxUint
  /\ claimed' = [claimed EXCEPT ![h] = @ + claimable]
  /\ total_claimed' = total_claimed + claimable
  /\ UNCHANGED <<schedule, prefunded, launched, level>>

Claim(h) ==
  LET n == Claimable(h)
  IN /\ ClaimBy(h, n)
     /\ MoveTokens(Mgmt, h, n)
     /\ UNCHANGED <<rptVars, now>>

\* increase_allocation: the balance is queried with the key only a prefunded MGMT
\* has set.
IncreaseAllocation(pool) ==
  LET new == [total |-> schedule.total + pool.total, pools |-> Append(schedule.pools, pool)]
  IN /\ level = "Operational"
     /\ Len(schedule.pools) < MaxPools
     /\ Valid(new)
     /\ prefunded
     /\ total_claimed <= new.total
     /\ new.total - total_claimed <= balances[Mgmt]
     /\ schedule' = new
     /\ UNCHANGED <<ledgerVars, prefunded, launched, claimed, total_claimed, level, rptVars, now>>

\* can_set_status: there is no way back from Migrating.
CanSetLevel(old, new) == old = "Migrating" => new = "Migrating"

\* MgmtKillswitch::set_status: migrating hands the token to MGMT's admin.
SetMgmtLevel(new) ==
  /\ CanSetLevel(level, new)
  /\ level' = new
  /\ IF new = "Migrating" /\ ~prefunded
     THEN ChangeTokenAdmin(Mgmt, MgmtAdmin)
     ELSE UNCHANGED ledgerVars
  /\ UNCHANGED <<schedule, prefunded, launched, claimed, total_claimed, rptVars, now>>

-----------------------------------------------------------------------------
(* RPT                                                                     *)

\* sum_config, which validate makes the portion
Portion(d) == SumOver(d, DOMAIN d)

ConfigureRpt(new) ==
  /\ rpt_level = "Operational"
  /\ distribution' = new
  /\ UNCHANGED <<ledgerVars, mgmtVars, rpt_level, now>>

SetRptLevel(new) ==
  /\ CanSetLevel(rpt_level, new)
  /\ rpt_level' = new
  /\ UNCHANGED <<ledgerVars, mgmtVars, distribution, now>>

\* Mutant of Portions: a late call pays one portion only.
OnePortion(n) == IF n < Portion(distribution) THEN 0 ELSE 1

Portions(n) == n \div Portion(distribution)

\* The balances after RPT has claimed n and paid every address of the
\* distribution its part of each whole portion.
Distributed(n) ==
  LET portions == Portions(n)
  IN [h \in Holders |->
        CASE h = Mgmt -> balances[h] - n
          [] h = Rpt -> balances[h] + n - portions * Portion(distribution)
          [] h \in DOMAIN distribution -> balances[h] + portions * distribution[h]
          [] OTHER -> balances[h]]

\* vest, by anybody: claims, then transfers.  A portion of 0 divides by zero.
Vest ==
  LET n == Claimable(Rpt)
  IN /\ rpt_level = "Operational"
     /\ Portion(distribution) > 0
     /\ ClaimBy(Rpt, n)
     /\ ~stopped
     /\ CanTransfer(Mgmt, Rpt, n)
     /\ balances' = Distributed(n)
     /\ UNCHANGED <<total_supply, minters, token_admin, stopped, rptVars, now>>

-----------------------------------------------------------------------------
(* The token around them                                                   *)

\* Whoever instantiated the token may make MGMT its minter and its admin
\* (MGMTClient.acquire); the admin MGMT has when it migrates gets it back.
AdministerToken ==
  /\ \/ SetMinters(MgmtAdmin, {Mgmt}) \/ AddMinters(MgmtAdmin, {MgmtAdmin, Mgmt})
     \/ ChangeTokenAdmin(MgmtAdmin, Mgmt)
     \/ \E stop \in BOOLEAN : SetContractStatus(MgmtAdmin, stop)
  /\ UNCHANGED <<mgmtVars, rptVars, now>>

\* It may fund MGMT, by minting or with what it has, and burn its own.  What other
\* holders do with theirs concerns neither contract.
FundMgmt(n) ==
  /\ \/ MintTokens(MgmtAdmin, Mgmt, n)
     \/ MoveTokens(MgmtAdmin, Mgmt, n)
     \/ BurnTokens(MgmtAdmin, n)
  /\ UNCHANGED <<mgmtVars, rptVars, now>>

Tick ==
  /\ now < MaxTime
  /\ now' = now + 1
  /\ UNCHANGED <<ledgerVars, mgmtVars, rptVars>>

\* Somebody who is owed something gets it: an investor, or RPT on anyone's call.
Payout == Vest \/ \E h \in Investors : Claim(h)

Next ==
  \/ \E s \in Schedules : Configure(s)
  \/ \E p \in NewAccounts : AddAccount(p[1], p[2])
  \/ Launch
  \/ Payout
  \/ \E p \in NewPools : IncreaseAllocation(p)
  \/ \E l \in Levels : SetMgmtLevel(l)
  \/ \E l \in RptLevels : SetRptLevel(l)
  \/ \E d \in Distributions : ConfigureRpt(d)
  \/ AdministerToken
  \/ \E n \in Mints : FundMgmt(n)
  \/ Tick

\* Blocks keep coming, and as long as anybody is owed something, somebody claims.
Fairness == WF_vars(Tick) /\ WF_vars(Payout)

Spec == Init /\ [][Next]_vars /\ Fairness

-----------------------------------------------------------------------------
(* Properties                                                              *)

\* Once launched, MGMT holds all that the schedule has still to give: whichever of
\* the two ways it was funded, whatever accounts and pools were added since, and
\* whoever administers the token.
ScheduleIsFunded ==
  HasLaunched => schedule.total - total_claimed <= balances[Mgmt]

\* The total that increase_allocation relies on is the sum of the claims, and
\* nobody, RPT included, has claimed more than has been unlocked for it by now.
\* Nothing that is added makes the schedule invalid.
ClaimsAreUnlocked ==
  /\ TypeOK
  /\ total_claimed = SumOver(claimed, Holders)
  /\ total_claimed <= schedule.total
  /\ HasLaunched => \A h \in Investors \cup {Rpt} :
       CanRead(schedule, Elapsed, h) => claimed[h] <= Unlocked(schedule, Elapsed, h)

\* Unless it migrates, launching is the last time that tokens are minted, where
\* MGMT mints them (mgmt/src/lib.rs:139-142).
LaunchMintsLast ==
  [][HasLaunched /\ ~prefunded /\ level # "Migrating" => total_supply' <= total_supply]_vars

\* However long nobody called it, RPT passes on all it claims but less than one
\* portion ("remainder (locked forever)").
RptPaysWholePortions ==
  [][claimed'[Rpt] # claimed[Rpt] =>
       balances'[Rpt] < balances[Rpt] + Portion(distribution)]_vars

\* What the accounts of an address give in all.
Due(h) ==
  LET pools == schedule.pools
      InPool(p) == SumOver([j \in Of(h, p.accounts) |-> p.accounts[j].amount], Of(h, p.accounts))
  IN SumOver([i \in DOMAIN pools |-> InPool(pools[i])], DOMAIN pools)

Running == level = "Operational" /\ rpt_level = "Operational" /\ ~stopped

\* If in the end the contracts and the token are left running, everybody in the
\* schedule is paid in full: no pause, no account that cannot be read meanwhile and
\* no change of the schedule loses a claim.
EveryoneIsPaid ==
  <>[](Running /\ Portion(distribution) > 0)
  => (HasLaunched ~> \A h \in Investors \cup {Rpt} : claimed[h] >= Due(h))
=============================================================================
