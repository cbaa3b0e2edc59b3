----------------------------- MODULE TgeProofs -----------------------------
(***************************************************************************)
(* What holds of the token generation event for every schedule,            *)
(* distribution and number of addresses: MGMT has what it still owes,      *)
(* nothing is minted after the launch, and RPT keeps less than a portion.  *)
(***************************************************************************)
EXTENDS MCTge, SumsProofs

\* The types the arithmetic of the steps needs; what a schedule consists of is not
\* part of it.
Types ==
  /\ balances \in [Holders -> Nat]
  /\ total_supply \in Nat
  /\ DOMAIN schedule = {"total", "pools"} /\ schedule.total \in Nat
  /\ prefunded \in BOOLEAN
  /\ total_claimed \in Nat
  /\ level \in Levels
  /\ distribution \in Distributions
  /\ now \in Nat

\* After a launch that minted, until MGMT migrates, only MGMT administers the token,
\* and it has left it without minters.
MintersGone ==
  HasLaunched /\ ~prefunded /\ level # "Migrating" => minters = {} /\ token_admin = Mgmt

IInv == Types /\ ScheduleIsFunded /\ MintersGone

-----------------------------------------------------------------------------
\* What a quotient leaves is less than the divisor.
LEMMA WholePortions ==
  ASSUME NEW n \in Nat, NEW p \in Nat, p > 0
  PROVE  /\ n \div p \in Nat
         /\ (n \div p) * p \in Nat
         /\ (n \div p) * p <= n
         /\ n < (n \div p) * p + p
<1>1. n = (n \div p) * p + (n % p)
  BY SMT
<1>2. n % p \in 0..(p - 1)
  BY SMT
<1>3. n \div p \in Nat
  BY SMT
<1>4. (n \div p) * p \in Nat
  BY <1>3, SMT
<1>5. QED
  BY <1>1, <1>2, <1>3, <1>4

LEMMA Constants ==
  /\ Mgmt \in Holders /\ MgmtAdmin \in Holders /\ Rpt \in Holders
  /\ MgmtAdmin # Mgmt /\ Rpt # Mgmt
  /\ Investors \subseteq Holders /\ Mgmt \notin Investors /\ Rpt \notin Investors
  /\ Mints \subseteq Nat
  /\ MaxUint \in Nat
BY TgeAssumption, LedgerAssumption

\* The fields of schedules, pools and accounts.
LEMMA ScheduleFields ==
  ASSUME NEW s \in SchedulesOf(Holders)
  PROVE  /\ DOMAIN s = {"total", "pools"} /\ s.total \in Nat
         /\ s.pools \in Seq(PoolsOf(Holders))
BY DEF SchedulesOf

LEMMA PoolFields ==
  ASSUME NEW p \in PoolsOf(Holders)
  PROVE  p.partial \in BOOLEAN /\ p.total \in Nat /\ p.accounts \in Seq(AccountsOf(Holders))
BY DEF PoolsOf

\* A portion that RPT splits is the sum of its parts.
LEMMA PortionType == \A d \in Distributions : Portion(d) \in Nat
<1> SUFFICES ASSUME NEW d \in Distributions PROVE Portion(d) \in Nat
  OBVIOUS
<1>1. IsFiniteSet(Holders)
  BY LedgerAssumption, FS_Interval DEF Holders
<1>2. DOMAIN d \subseteq Holders /\ d \in [DOMAIN d -> Nat]
  BY TgeAssumption
<1>3. IsFiniteSet(DOMAIN d) /\ \A h \in DOMAIN d : d[h] \in Int /\ d[h] >= 0
  BY <1>1, <1>2, FS_Subset
<1>4. QED
  BY <1>3, SumType DEF Portion

\* The balances and the supply the token starts with are numbers.
LEMMA InitialLedger ==
  BalancesFrom(InitialBalances) \in [Holders -> Nat] /\ SupplyFrom(InitialBalances) \in Nat
<1> DEFINE list == InitialBalances
           D == DOMAIN list
           n == Len(list)
           f == [i \in D |-> list[i].amount]
<1>1. n \in Nat /\ D = 1..n /\ IsFiniteSet(D) /\ \A i \in D : list[i].amount \in Nat
  <2> DEFINE S == [address: Holders, amount: 0..MaxUint]
  <2>1. list \in Seq(S) /\ MaxUint \in Nat
    BY LedgerAssumption
  <2>2. \A e \in S : e.amount \in Nat
    BY <2>1
  <2> HIDE DEF S
  <2>3. n \in Nat /\ D = 1..n /\ \A i \in D : list[i] \in S
    BY <2>1, LenProperties, ElementOfSeq
  <2>4. IsFiniteSet(1..n)
    BY <2>3, 1 \in Int, n \in Int, FS_Interval
  <2>5. QED
    BY <2>2, <2>3, <2>4
<1>2. ASSUME NEW h \in Holders, Places(list, h) # {}
      PROVE  Max(Places(list, h)) \in D
  <2>1. Places(list, h) \in SUBSET D /\ Places(list, h) \in SUBSET (1..n)
    BY <1>1 DEF Places
  <2> HIDE DEF list, n, D
  <2>2. \E x \in Places(list, h) : \A y \in Places(list, h) : x >= y
    BY <1>1, <1>2, <2>1, GreatestBelow
  <2>3. Max(Places(list, h)) \in Places(list, h)
    BY <2>2 DEF Max
  <2>4. QED
    BY <2>1, <2>3
<1>3. BalancesFrom(list) \in [Holders -> Nat]
  BY <1>1, <1>2 DEF BalancesFrom
<1>4. SupplyFrom(list) = SumOver(f, D)
  BY DEF SupplyFrom, AddedUp
<1>5. \A i \in D : f[i] \in Int /\ f[i] >= 0
  BY <1>1
<1> HIDE DEF f
<1>6. SumOver(f, D) \in Nat
  BY <1>1, <1>5, SumType
<1>7. QED
  BY <1>3, <1>4, <1>6

LEMMA InitIInv == Init => IInv
<1> SUFFICES ASSUME Init PROVE IInv
  OBVIOUS
<1>1. balances \in [Holders -> Nat] /\ total_supply \in Nat
  BY InitialLedger DEF Init, LedgerInit
<1>2. DOMAIN schedule = {"total", "pools"} /\ schedule.total \in Nat
  BY TgeAssumption, ScheduleFields DEF Init
<1>3. now \in Nat /\ distribution \in Distributions /\ prefunded \in BOOLEAN
      /\ total_claimed = 0 /\ level = "Operational" /\ launched = NotLaunched
  BY TgeAssumption DEF Init
<1>4. Types
  BY <1>1, <1>2, <1>3 DEF Types, Levels
<1>5. ~HasLaunched
  BY <1>3 DEF HasLaunched
<1>6. QED
  BY <1>4, <1>5 DEF IInv, ScheduleIsFunded, MintersGone

-----------------------------------------------------------------------------
\* RPT's claim and the payments from it: MGMT gives what was claimed, and RPT keeps
\* less than a portion of it.
LEMMA DistributedBalances ==
  ASSUME NEW n \in Nat, Types, Portion(distribution) > 0, n <= balances[Mgmt]
  PROVE  /\ Distributed(n) \in [Holders -> Nat]
         /\ Distributed(n)[Mgmt] = balances[Mgmt] - n
         /\ Distributed(n)[Rpt] < balances[Rpt] + Portion(distribution)
<1> DEFINE portion == Portion(distribution)
           portions == n \div portion
<1>1. /\ distribution \in Distributions /\ portion \in Nat
      /\ DOMAIN distribution \subseteq Holders \ {Mgmt, Rpt}
      /\ distribution \in [DOMAIN distribution -> Nat]
      /\ balances \in [Holders -> Nat]
  BY TgeAssumption, PortionType DEF Types
<1>2. /\ portions \in Nat /\ portions * portion \in Nat
      /\ portions * portion <= n /\ n < portions * portion + portion
  <2> HIDE DEF portion
  <2>1. QED
    BY <1>1, WholePortions DEF portion
<1> HIDE DEF portions
<1>3. /\ balances[Mgmt] \in Nat /\ balances[Rpt] \in Nat
  BY <1>1, Constants
<1>4. balances[Mgmt] - n \in Nat
  BY <1>3
<1>5. balances[Rpt] + n - portions * portion \in Nat
  BY <1>2, <1>3
<1>6. ASSUME NEW h \in DOMAIN distribution
      PROVE  balances[h] + portions * distribution[h] \in Nat
  <2>1. balances[h] \in Nat /\ distribution[h] \in Nat
    BY <1>1
  <2>2. portions * distribution[h] \in Nat
    BY <1>2, <2>1
  <2>3. QED
    BY <2>1, <2>2
<1>7. Distributed(n) =
        [h \in Holders |->
           CASE h = Mgmt -> balances[h] - n
             [] h = Rpt -> balances[h] + n - portions * portion
             [] h \in DOMAIN distribution -> balances[h] + portions * distribution[h]
             [] OTHER -> balances[h]]
  BY DEF Distributed, Portions, portions
<1>8. Distributed(n)[Mgmt] = balances[Mgmt] - n
  BY <1>1, <1>7, Constants
<1>9. Distributed(n)[Rpt] = balances[Rpt] + n - portions * portion
  BY <1>1, <1>7, Constants
<1>10. ASSUME NEW h \in Holders PROVE Distributed(n)[h] \in Nat
  <2>1. CASE h = Mgmt
    BY <1>4, <1>8, <2>1
  <2>2. CASE h = Rpt
    BY <1>5, <1>9, <2>2
  <2>3. CASE h \in DOMAIN distribution
    BY <1>1, <1>6, <1>7, <2>3
  <2>4. CASE h \notin DOMAIN distribution /\ h # Mgmt /\ h # Rpt
    BY <1>1, <1>7, <2>4
  <2>5. QED
    BY <2>1, <2>2, <2>3, <2>4
<1>11. Distributed(n) \in [Holders -> Nat]
  BY <1>7, <1>10
<1>12. Distributed(n)[Rpt] < balances[Rpt] + portion
  BY <1>1, <1>2, <1>3, <1>9
<1>13. QED
  BY <1>8, <1>11, <1>12

\* What every claim does, an investor's or RPT's: MGMT pays what is booked.
LEMMA ClaimStep ==
  ASSUME IInv, NEW h, NEW n, ClaimBy(h, n),
         balances' \in [Holders -> Nat], balances'[Mgmt] = balances[Mgmt] - n,
         UNCHANGED <<total_supply, minters, token_admin, distribution, now>>
  PROVE  IInv'
<1>1. /\ n \in Nat /\ total_claimed' = total_claimed + n
      /\ UNCHANGED <<schedule, prefunded, launched, level>>
  BY Constants DEF ClaimBy
<1>2. Types'
  BY <1>1 DEF IInv, Types
<1>3. balances[Mgmt] \in Nat
  BY Constants DEF IInv, Types
<1>4. ScheduleIsFunded'
  BY <1>1, <1>3 DEF IInv, Types, ScheduleIsFunded, HasLaunched
<1>5. MintersGone'
  BY <1>1 DEF IInv, MintersGone, HasLaunched
<1>6. QED
  BY <1>2, <1>4, <1>5 DEF IInv

LEMMA ClaimKeepsIInv == ASSUME IInv, NEW h \in Investors, Claim(h) PROVE IInv'
<1>1. PICK n : ClaimBy(h, n) /\ MoveTokens(Mgmt, h, n) /\ UNCHANGED <<rptVars, now>>
  BY DEF Claim
<1>2. n \in Nat /\ h \in Holders /\ h # Mgmt
  BY <1>1, Constants DEF ClaimBy
<1>3. balances \in [Holders -> Nat] /\ n <= balances[Mgmt] /\ balances' = Transferred(Mgmt, h, n)
  BY <1>1 DEF IInv, Types, MoveTokens, CanTransfer
<1>4. balances' \in [Holders -> Nat] /\ balances'[Mgmt] = balances[Mgmt] - n
  BY <1>2, <1>3, Constants DEF Transferred
<1>5. UNCHANGED <<total_supply, minters, token_admin, distribution, now>>
  BY <1>1 DEF MoveTokens, rptVars
<1>6. QED
  BY <1>1, <1>4, <1>5, ClaimStep

LEMMA VestKeepsIInv == ASSUME IInv, Vest PROVE IInv'
<1>1. PICK n : /\ Portion(distribution) > 0 /\ ClaimBy(Rpt, n) /\ CanTransfer(Mgmt, Rpt, n)
               /\ balances' = Distributed(n)
               /\ UNCHANGED <<total_supply, minters, token_admin, stopped, rptVars, now>>
  BY DEF Vest
<1>2. n \in Nat /\ n <= balances[Mgmt]
  BY <1>1, Constants DEF ClaimBy, CanTransfer
<1>3. balances' \in [Holders -> Nat] /\ balances'[Mgmt] = balances[Mgmt] - n
  BY <1>1, <1>2, DistributedBalances DEF IInv
<1>4. distribution' = distribution
  BY <1>1 DEF rptVars
<1>5. QED
  BY <1>1, <1>3, <1>4, ClaimStep

LEMMA LaunchKeepsIInv == ASSUME IInv, Launch PROVE IInv'
<1>1. UNCHANGED <<schedule, prefunded, total_claimed, level, distribution, now>>
  BY DEF Launch, rptVars
<1>2. balances[Mgmt] \in Nat /\ schedule.total \in Nat /\ total_supply \in Nat /\ total_claimed \in Nat
  BY Constants DEF IInv, Types
<1>3. CASE PrefundedLaunch
  <2>1. prefunded /\ schedule.total <= balances[Mgmt] /\ UNCHANGED <<balances, total_supply>>
    BY <1>3 DEF PrefundedLaunch, ledgerVars
  <2>2. QED
    BY <1>1, <1>2, <2>1 DEF IInv, Types, ScheduleIsFunded, MintersGone
<1>4. CASE MintingLaunch
  <2>1. /\ balances' = [balances EXCEPT ![Mgmt] = @ + schedule.total]
        /\ total_supply' = total_supply + schedule.total
        /\ minters' = {} /\ token_admin' = Mgmt
    BY <1>4 DEF MintingLaunch, IsTokenAdmin, MintersAfterLaunch
  <2>2. balances' \in [Holders -> Nat] /\ balances'[Mgmt] = balances[Mgmt] + schedule.total
    BY <1>2, <2>1, Constants DEF IInv, Types
  <2>3. Types'
    BY <1>1, <1>2, <2>1, <2>2 DEF IInv, Types
  <2>4. ScheduleIsFunded' /\ MintersGone'
    BY <1>1, <1>2, <2>1, <2>2 DEF ScheduleIsFunded, MintersGone
  <2>5. QED
    BY <2>3, <2>4 DEF IInv
<1>5. QED
  BY <1>3, <1>4 DEF Launch

\* The schedule changes: before the launch to anything, afterwards within its total
\* or against what MGMT has.
LEMMA ScheduleKeepsIInv ==
  ASSUME IInv,
         \/ \E s \in Schedules : Configure(s)
         \/ \E p \in NewAccounts : AddAccount(p[1], p[2])
         \/ \E p \in NewPools : IncreaseAllocation(p)
  PROVE  IInv'
<1>1. CASE \E s \in Schedules : Configure(s)
  <2>1. PICK s \in Schedules : Configure(s)
    BY <1>1
  <2>2. ~HasLaunched /\ schedule' = s
    BY <2>1 DEF Configure
  <2>3. UNCHANGED <<balances, total_supply, minters, token_admin, prefunded, launched,
                    total_claimed, level, distribution, now>>
    BY <2>1 DEF Configure, ledgerVars, rptVars
  <2>4. DOMAIN s = {"total", "pools"} /\ s.total \in Nat
    BY TgeAssumption, ScheduleFields
  <2>5. QED
    BY <2>2, <2>3, <2>4 DEF IInv, Types, ScheduleIsFunded, MintersGone, HasLaunched
<1>2. CASE \E p \in NewAccounts : AddAccount(p[1], p[2])
  <2>1. PICK p \in NewAccounts : AddAccount(p[1], p[2])
    BY <1>2
  <2>2. schedule' = [schedule EXCEPT !.pools[p[1]] = WithAccount(@, p[2])]
    BY <2>1 DEF AddAccount
  <2>3. DOMAIN schedule' = {"total", "pools"} /\ schedule'.total = schedule.total
    BY <2>2 DEF IInv, Types
  <2>4. UNCHANGED <<balances, total_supply, minters, token_admin, prefunded, launched,
                    total_claimed, level, distribution, now>>
    BY <2>1 DEF AddAccount, ledgerVars, rptVars
  <2>5. QED
    BY <2>3, <2>4 DEF IInv, Types, ScheduleIsFunded, MintersGone, HasLaunched
<1>3. CASE \E p \in NewPools : IncreaseAllocation(p)
  <2>1. PICK p \in NewPools : IncreaseAllocation(p)
    BY <1>3
  <2> DEFINE new == [total |-> schedule.total + p.total, pools |-> Append(schedule.pools, p)]
  <2>2. schedule' = new /\ new.total - total_claimed <= balances[Mgmt]
    BY <2>1, Zenon DEF IncreaseAllocation
  <2>3. schedule.total + p.total \in Nat
    <3>1. p.total \in Nat
      BY TgeAssumption, PoolFields
    <3>2. QED
      BY <3>1 DEF IInv, Types
  <2>4. DOMAIN schedule' = {"total", "pools"} /\ schedule'.total = schedule.total + p.total
    BY <2>2
  <2> HIDE DEF new
  <2>5. UNCHANGED <<balances, total_supply, minters, token_admin, prefunded, launched,
                    total_claimed, level, distribution, now>>
    BY <2>1 DEF IncreaseAllocation, ledgerVars, rptVars
  <2>6. schedule'.total - total_claimed <= balances[Mgmt]
    BY <2>2
  <2>7. QED
    BY <2>3, <2>4, <2>5, <2>6 DEF IInv, Types, ScheduleIsFunded, MintersGone, HasLaunched
<1>4. QED
  BY <1>1, <1>2, <1>3

\* The token's admin is no longer MGMT's admin after a launch that minted.
LEMMA AdministerTokenKeepsIInv == ASSUME IInv, AdministerToken PROVE IInv'
<1>1. /\ UNCHANGED <<balances, total_supply>>
      /\ UNCHANGED <<schedule, prefunded, launched, total_claimed, level, distribution, now>>
  BY DEF AdministerToken, SetMinters, AddMinters, ChangeTokenAdmin, SetContractStatus,
         mgmtVars, rptVars
<1>2. token_admin = MgmtAdmin
  BY DEF AdministerToken, SetMinters, AddMinters, ChangeTokenAdmin, SetContractStatus,
         IsTokenAdmin
<1>3. ~(HasLaunched /\ ~prefunded /\ level # "Migrating")
  BY <1>2, Constants DEF IInv, MintersGone
<1>4. QED
  BY <1>1, <1>3 DEF IInv, Types, ScheduleIsFunded, MintersGone, HasLaunched

LEMMA FundMgmtKeepsIInv == ASSUME IInv, NEW n \in Mints, FundMgmt(n) PROVE IInv'
<1>1. UNCHANGED <<schedule, prefunded, launched, total_claimed, level, distribution, now>>
  BY DEF FundMgmt, mgmtVars, rptVars
<1>2. UNCHANGED <<minters, token_admin>>
  BY DEF FundMgmt, MintTokens, MoveTokens, BurnTokens
<1>3. n \in Nat /\ balances \in [Holders -> Nat] /\ total_supply \in Nat
  BY Constants DEF IInv, Types
<1>4. /\ balances' \in [Holders -> Nat] /\ total_supply' \in Nat
      /\ balances'[Mgmt] >= balances[Mgmt]
  <2>1. CASE MintTokens(MgmtAdmin, Mgmt, n)
    BY <1>3, <2>1, Constants DEF MintTokens
  <2>2. CASE MoveTokens(MgmtAdmin, Mgmt, n)
    BY <1>3, <2>2, Constants DEF MoveTokens, CanTransfer, Transferred
  <2>3. CASE BurnTokens(MgmtAdmin, n)
    BY <1>3, <2>3, Constants DEF BurnTokens
  <2>4. QED
    BY <2>1, <2>2, <2>3 DEF FundMgmt
<1>5. balances[Mgmt] \in Nat /\ balances'[Mgmt] \in Nat
  BY <1>3, <1>4, Constants
<1>6. QED
  BY <1>1, <1>2, <1>4, <1>5 DEF IInv, Types, ScheduleIsFunded, MintersGone, HasLaunched

LEMMA SetMgmtLevelKeepsIInv == ASSUME IInv, NEW l \in Levels, SetMgmtLevel(l) PROVE IInv'
<1>1. /\ level' = l /\ CanSetLevel(level, l)
      /\ UNCHANGED <<schedule, prefunded, launched, total_claimed, distribution, now>>
  BY DEF SetMgmtLevel, rptVars
<1>2. UNCHANGED <<balances, total_supply>>
  BY DEF SetMgmtLevel, ChangeTokenAdmin, ledgerVars
<1>3. l # "Migrating" => level # "Migrating" /\ UNCHANGED <<minters, token_admin>>
  BY <1>1 DEF SetMgmtLevel, CanSetLevel, ledgerVars
<1>4. QED
  BY <1>1, <1>2, <1>3 DEF IInv, Types, ScheduleIsFunded, MintersGone, HasLaunched

LEMMA StepIInv == IInv /\ [Next]_vars => IInv'
<1> SUFFICES ASSUME IInv, [Next]_vars PROVE IInv'
  OBVIOUS
<1>1. ASSUME NEW l, SetRptLevel(l) PROVE IInv'
  BY <1>1 DEF SetRptLevel, ledgerVars, mgmtVars, IInv, Types, ScheduleIsFunded, MintersGone,
              HasLaunched
<1>2. ASSUME NEW d \in Distributions, ConfigureRpt(d) PROVE IInv'
  BY <1>2 DEF ConfigureRpt, ledgerVars, mgmtVars, IInv, Types, ScheduleIsFunded, MintersGone,
              HasLaunched
<1>3. CASE Tick
  BY <1>3 DEF Tick, ledgerVars, mgmtVars, rptVars, IInv, Types, ScheduleIsFunded, MintersGone,
              HasLaunched
<1>4. CASE UNCHANGED vars
  BY <1>4 DEF vars, ledgerVars, mgmtVars, rptVars, IInv, Types, ScheduleIsFunded, MintersGone,
              HasLaunched
<1>5. CASE Payout
  BY <1>5, ClaimKeepsIInv, VestKeepsIInv DEF Payout
<1>6. QED
  BY <1>1, <1>2, <1>3, <1>4, <1>5, LaunchKeepsIInv, ScheduleKeepsIInv, AdministerTokenKeepsIInv,
     FundMgmtKeepsIInv, SetMgmtLevelKeepsIInv DEF Next

LEMMA IInvHolds == Spec => []IInv
BY InitIInv, StepIInv, PTL DEF Spec

-----------------------------------------------------------------------------
\* Once launched, MGMT always has all that the schedule has still to give
\* (contracts/tge/mgmt/src/lib.rs).
THEOREM ScheduleIsFundedHolds == Spec => []ScheduleIsFunded
<1>1. IInv => ScheduleIsFunded
  BY DEF IInv
<1>2. QED
  BY <1>1, IInvHolds, PTL

\* Unless MGMT migrates, nothing is minted after the launch, where MGMT mints.
THEOREM LaunchMintsLastHolds == Spec => LaunchMintsLast
<1> DEFINE MintsNoMore ==
      HasLaunched /\ ~prefunded /\ level # "Migrating" => total_supply' <= total_supply
<1>1. IInv /\ [Next]_vars => [MintsNoMore]_vars
  <2> SUFFICES ASSUME IInv, [Next]_vars, HasLaunched, ~prefunded, level # "Migrating"
               PROVE  total_supply' <= total_supply
    OBVIOUS
  <2>1. minters = {} /\ total_supply \in Nat
    BY DEF IInv, MintersGone, Types
  <2>2. CASE total_supply' = total_supply
    BY <2>1, <2>2
  <2>3. ASSUME NEW n \in Mints, FundMgmt(n) PROVE total_supply' <= total_supply
    <3>1. n \in Nat
      BY Constants
    <3>2. CASE BurnTokens(MgmtAdmin, n)
      BY <2>1, <3>1, <3>2 DEF BurnTokens
    <3>3. CASE MoveTokens(MgmtAdmin, Mgmt, n)
      BY <2>2, <3>3 DEF MoveTokens
    <3>4. CASE MintTokens(MgmtAdmin, Mgmt, n)
      BY <2>1, <3>4 DEF MintTokens, CanMint
    <3>5. QED
      BY <2>3, <3>2, <3>3, <3>4 DEF FundMgmt
  <2>4. CASE AdministerToken
    BY <2>2, <2>4 DEF AdministerToken, SetMinters, AddMinters, ChangeTokenAdmin, SetContractStatus
  <2>5. CASE Payout
    BY <2>2, <2>5 DEF Payout, Vest, Claim, MoveTokens
  <2>6. CASE Launch
    BY <2>6 DEF Launch
  <2>7. ASSUME NEW l, SetMgmtLevel(l) PROVE total_supply' <= total_supply
    BY <2>2, <2>7 DEF SetMgmtLevel, ChangeTokenAdmin, ledgerVars
  <2>8. ASSUME UNCHANGED ledgerVars PROVE total_supply' <= total_supply
    BY <2>2, <2>8 DEF ledgerVars
  <2>9. QED
    BY <2>3, <2>4, <2>5, <2>6, <2>7, <2>8
       DEF Next, Configure, AddAccount, IncreaseAllocation, SetRptLevel, ConfigureRpt, Tick, vars
<1>2. QED
  BY <1>1, IInvHolds, PTL DEF Spec, LaunchMintsLast

\* Whatever has come due, RPT keeps less than one portion of a claim
\* (contracts/tge/rpt/src/lib.rs:98-124).
THEOREM RptPaysWholePortionsHolds == Spec => RptPaysWholePortions
<1> DEFINE KeepsLess ==
      claimed'[Rpt] # claimed[Rpt] => balances'[Rpt] < balances[Rpt] + Portion(distribution)
<1>1. IInv /\ [Next]_vars => [KeepsLess]_vars
  <2> SUFFICES ASSUME IInv, Next, claimed'[Rpt] # claimed[Rpt]
               PROVE  balances'[Rpt] < balances[Rpt] + Portion(distribution)
    OBVIOUS
  <2>1. ASSUME NEW h \in Investors, Claim(h) PROVE FALSE
    <3>1. PICK n : claimed' = [claimed EXCEPT ![h] = @ + n] /\ h # Rpt
      BY <2>1, Constants DEF Claim, ClaimBy
    <3>2. QED
      BY <3>1
  <2>2. CASE Vest
    <3>1. PICK n : /\ Portion(distribution) > 0 /\ ClaimBy(Rpt, n) /\ CanTransfer(Mgmt, Rpt, n)
                   /\ balances' = Distributed(n)
      BY <2>2 DEF Vest
    <3>2. n \in Nat /\ n <= balances[Mgmt]
      BY <3>1, Constants DEF ClaimBy, CanTransfer
    <3>3. QED
      BY <3>1, <3>2, DistributedBalances DEF IInv
  <2>3. CASE UNCHANGED claimed
    BY <2>3
  <2>4. QED
    BY <2>1, <2>2, <2>3
       DEF Next, Payout, Configure, AddAccount, Launch, IncreaseAllocation, SetMgmtLevel,
           SetRptLevel, ConfigureRpt, AdministerToken, FundMgmt, Tick, mgmtVars
<1>2. QED
  BY <1>1, IInvHolds, PTL DEF Spec, RptPaysWholePortions

-----------------------------------------------------------------------------
(* What the schedule has given an address by some time: what its accounts  *)
(* unlock, without those that cannot be read then, and without the limits  *)
(* that Unlocked puts on it, which are never reached.                      *)

GivenBy(a, t) == IF Readable(a, t) THEN AccountUnlocked(a, t) ELSE 0

GivenIn(p, t) == [i \in DOMAIN p.accounts |-> GivenBy(p.accounts[i], t)]

InPool(p, t, h) == SumOver(GivenIn(p, t), Of(h, p.accounts))

Given(s, t, h) == SumOver([i \in DOMAIN s.pools |-> InPool(s.pools[i], t, h)], DOMAIN s.pools)

\* The four times of an account: before its start, from its end, and in between,
\* where its interval may make it unreadable.
LEMMA AccountCases ==
  ASSUME NEW A, NEW a \in AccountsOf(A), ValidAccount(a), NEW t \in Nat
  PROVE  /\ a.amount \in Nat /\ a.start_at \in Nat /\ End(a) \in Nat /\ a.start_at <= End(a)
         /\ t < a.start_at => Readable(a, t) /\ AccountUnlocked(a, t) = 0
         /\ t >= End(a) => Readable(a, t) /\ AccountUnlocked(a, t) = a.amount
         /\ a.start_at <= t /\ t < End(a) =>
              IF a.interval > 0
              THEN /\ Readable(a, t)
                   /\ AccountUnlocked(a, t)
                        = LeastOf(a.cliff + MostRecentPortion(a, t) * PortionSize(a), a.amount)
              ELSE ~Readable(a, t)
<1>1. /\ a.amount \in Nat /\ a.start_at \in Nat /\ a.duration \in Nat /\ a.interval \in Nat
  BY DEF AccountsOf
<1>2. /\ End(a) = a.start_at + a.duration /\ End(a) \in Nat /\ a.start_at <= End(a)
  BY <1>1 DEF End
<1>3. t < a.start_at => Readable(a, t) /\ AccountUnlocked(a, t) = 0
  BY <1>1, <1>2 DEF Readable, AccountUnlocked
<1>4. t >= End(a) => Readable(a, t) /\ AccountUnlocked(a, t) = a.amount
  BY <1>1, <1>2 DEF Readable, AccountUnlocked
<1>5. ASSUME a.start_at <= t, t < End(a), a.interval > 0
      PROVE  /\ Readable(a, t)
             /\ AccountUnlocked(a, t)
                  = LeastOf(a.cliff + MostRecentPortion(a, t) * PortionSize(a), a.amount)
  BY <1>1, <1>2, <1>5 DEF Readable, AccountUnlocked
<1>6. ASSUME a.start_at <= t, t < End(a), ~(a.interval > 0) PROVE ~Readable(a, t)
  BY <1>6 DEF Readable
<1>7. QED
  BY <1>1, <1>2, <1>3, <1>4, <1>5, <1>6

\* The portions of an account.
LEMMA Portioned ==
  ASSUME NEW A, NEW a \in AccountsOf(A), ValidAccount(a)
  PROVE  /\ a.cliff \in Nat /\ a.cliff <= a.amount /\ AmountAfterCliff(a) \in Nat
         /\ PortionCount(a) \in Nat /\ PortionSize(a) \in Nat
         /\ PortionSize(a) * PortionCount(a) \in Nat
         /\ PortionSize(a) * PortionCount(a) <= AmountAfterCliff(a)
         /\ a.interval > 0 => PortionCount(a) * a.interval <= a.duration
<1>1. /\ a.amount \in Nat /\ a.cliff \in Nat /\ a.cliff <= a.amount
      /\ a.duration \in Nat /\ a.interval \in Nat
  BY DEF AccountsOf, ValidAccount
<1>2. AmountAfterCliff(a) \in Nat
  BY <1>1 DEF AmountAfterCliff
<1>3. PortionCount(a) \in Nat /\ (a.interval > 0 => PortionCount(a) * a.interval <= a.duration)
  <2>1. CASE a.interval > 0
    <3>1. a.duration \in Int /\ a.duration >= 0 /\ a.interval \in Nat \ {0}
      BY <1>1, <2>1
    <3>2. a.duration \div a.interval \in Nat /\ (a.duration \div a.interval) * a.interval <= a.duration
      BY <3>1, QuotientBounds
    <3>3. QED
      BY <2>1, <3>2 DEF PortionCount
  <2>2. CASE ~(a.interval > 0)
    BY <2>2 DEF PortionCount
  <2>3. QED
    BY <2>1, <2>2
<1>4. /\ PortionSize(a) \in Nat /\ PortionSize(a) * PortionCount(a) \in Nat
      /\ PortionSize(a) * PortionCount(a) <= AmountAfterCliff(a)
  <2>1. CASE PortionCount(a) > 0
    <3>1. AmountAfterCliff(a) \in Int /\ PortionCount(a) \in Nat \ {0}
      BY <1>2, <1>3, <2>1
    <3>2. PortionSize(a) = AmountAfterCliff(a) \div PortionCount(a)
      BY <2>1 DEF PortionSize
    <3>3. PortionSize(a) \in Nat /\ PortionSize(a) * PortionCount(a) <= AmountAfterCliff(a)
      BY <1>2, <3>1, <3>2, QuotientBounds
    <3>4. QED
      BY <1>3, <3>3
  <2>2. CASE ~(PortionCount(a) > 0)
    BY <1>2, <1>3, <2>2 DEF PortionSize
  <2>3. QED
    BY <2>1, <2>2
<1>5. QED
  BY <1>1, <1>2, <1>3, <1>4

\* The portion reached never goes back.
LEMMA PortionsGrow ==
  ASSUME NEW A, NEW a \in AccountsOf(A), ValidAccount(a), a.interval > 0,
         NEW t \in Nat, NEW u \in Nat, a.start_at <= t, t <= u
  PROVE  /\ MostRecentPortion(a, t) \in Nat /\ MostRecentPortion(a, u) \in Nat
         /\ MostRecentPortion(a, t) <= MostRecentPortion(a, u)
<1> DEFINE Q(x) == (x - a.start_at) \div a.interval
<1>1. a.start_at \in Nat /\ a.interval \in Nat \ {0} /\ PortionCount(a) \in Nat
  BY Portioned DEF AccountsOf
<1>2. PICK v, w \in Nat : v = t - a.start_at /\ w = u - a.start_at /\ v <= w
  BY <1>1
<1>3. v \div a.interval \in Nat /\ w \div a.interval \in Nat
      /\ v \div a.interval <= w \div a.interval
  BY <1>1, <1>2, QuotientBounds, QuotientGrows
<1>4. Q(t) \in Nat /\ Q(u) \in Nat /\ Q(t) <= Q(u)
  BY <1>2, <1>3
<1>5. /\ MostRecentPortion(a, t) = LeastOf(Q(t) + (IF a.cliff = 0 THEN 1 ELSE 0), PortionCount(a))
      /\ MostRecentPortion(a, u) = LeastOf(Q(u) + (IF a.cliff = 0 THEN 1 ELSE 0), PortionCount(a))
  BY DEF MostRecentPortion
<1> HIDE DEF Q
<1>6. QED
  BY <1>1, <1>4, <1>5 DEF LeastOf

\* What an account has given is a part of its amount, and never becomes less.
LEMMA GivenByGrows ==
  ASSUME NEW A, NEW a \in AccountsOf(A), ValidAccount(a), NEW t \in Nat, NEW u \in Nat, t <= u
  PROVE  /\ a.amount \in Nat /\ GivenBy(a, t) \in Nat /\ GivenBy(a, t) <= a.amount
         /\ GivenBy(a, t) <= GivenBy(a, u)
<1> DEFINE By(x) == a.cliff + MostRecentPortion(a, x) * PortionSize(a)
<1>1. /\ a.amount \in Nat /\ a.start_at \in Nat /\ End(a) \in Nat /\ a.start_at <= End(a)
      /\ a.cliff \in Nat /\ PortionSize(a) \in Nat
  BY AccountCases, Portioned
<1>2. \A x \in Nat :
        \/ x < a.start_at /\ GivenBy(a, x) = 0
        \/ x >= End(a) /\ GivenBy(a, x) = a.amount
        \/ a.start_at <= x /\ x < End(a) /\ a.interval > 0 /\ GivenBy(a, x) = LeastOf(By(x), a.amount)
        \/ a.start_at <= x /\ x < End(a) /\ ~(a.interval > 0) /\ GivenBy(a, x) = 0
  <2> SUFFICES ASSUME NEW x \in Nat
               PROVE  \/ x < a.start_at /\ GivenBy(a, x) = 0
                      \/ x >= End(a) /\ GivenBy(a, x) = a.amount
                      \/ /\ a.start_at <= x /\ x < End(a) /\ a.interval > 0
                         /\ GivenBy(a, x) = LeastOf(By(x), a.amount)
                      \/ a.start_at <= x /\ x < End(a) /\ ~(a.interval > 0) /\ GivenBy(a, x) = 0
    OBVIOUS
  <2>1. CASE x < a.start_at
    BY <2>1, AccountCases DEF GivenBy
  <2>2. CASE x >= End(a)
    BY <2>2, AccountCases DEF GivenBy
  <2>3. CASE a.start_at <= x /\ x < End(a) /\ a.interval > 0
    BY <2>3, AccountCases DEF GivenBy
  <2>4. CASE a.start_at <= x /\ x < End(a) /\ ~(a.interval > 0)
    BY <2>4, AccountCases DEF GivenBy
  <2>5. QED
    BY <1>1, <2>1, <2>2, <2>3, <2>4
<1>3. ASSUME NEW x \in Nat, NEW y \in Nat, a.start_at <= x, x <= y, a.interval > 0
      PROVE  By(x) \in Nat /\ By(y) \in Nat /\ By(x) <= By(y)
  <2>1. PICK m, n \in Nat : m = MostRecentPortion(a, x) /\ n = MostRecentPortion(a, y) /\ m <= n
    BY <1>3, PortionsGrow
  <2>2. m * PortionSize(a) \in Nat /\ n * PortionSize(a) \in Nat
    BY <1>1
  <2>3. m * PortionSize(a) <= n * PortionSize(a)
    BY <1>1, <2>1, ProductGrows
  <2>4. By(x) = a.cliff + m * PortionSize(a) /\ By(y) = a.cliff + n * PortionSize(a)
    BY <2>1
  <2> HIDE DEF By
  <2>5. QED
    BY <1>1, <2>2, <2>3, <2>4
<1> HIDE DEF By
<1>4. \A x \in Nat : GivenBy(a, x) \in Nat /\ GivenBy(a, x) <= a.amount
  BY <1>1, <1>2, <1>3 DEF LeastOf
<1>5. GivenBy(a, t) <= GivenBy(a, u)
  <2>1. CASE t < a.start_at
    BY <1>1, <1>2, <1>4, <2>1
  <2>2. CASE u >= End(a)
    BY <1>1, <1>2, <1>4, <2>2
  <2>3. CASE a.start_at <= t /\ u < End(a) /\ a.interval > 0
    <3>1. By(t) \in Nat /\ By(u) \in Nat /\ By(t) <= By(u)
      BY <1>3, <2>3
    <3>2. GivenBy(a, t) = LeastOf(By(t), a.amount) /\ GivenBy(a, u) = LeastOf(By(u), a.amount)
      BY <1>1, <1>2, <2>3
    <3>3. QED
      BY <1>1, <3>1, <3>2 DEF LeastOf
  <2>4. CASE a.start_at <= t /\ u < End(a) /\ ~(a.interval > 0)
    BY <1>1, <1>2, <1>4, <2>4
  <2>5. QED
    BY <1>1, <2>1, <2>2, <2>3, <2>4
<1>6. QED
  BY <1>1, <1>4, <1>5

\* The accounts of a valid pool.
LEMMA AccountsFit ==
  ASSUME NEW p \in PoolsOf(Holders), ValidPool(p)
  PROVE  /\ DOMAIN p.accounts = 1..Len(p.accounts) /\ IsFiniteSet(DOMAIN p.accounts)
         /\ \A i \in DOMAIN p.accounts :
              p.accounts[i] \in AccountsOf(Holders) /\ ValidAccount(p.accounts[i])
         /\ \A h : Of(h, p.accounts) \in SUBSET DOMAIN p.accounts
         /\ Allocated(p) \in Nat /\ p.total \in Nat /\ Allocated(p) <= p.total
<1>1. p.total \in Nat /\ p.accounts \in Seq(AccountsOf(Holders))
  BY PoolFields
<1>2. /\ DOMAIN p.accounts = 1..Len(p.accounts) /\ Len(p.accounts) \in Nat
      /\ \A i \in DOMAIN p.accounts : p.accounts[i] \in AccountsOf(Holders)
  <2> DEFINE S == AccountsOf(Holders)
  <2>1. p.accounts \in Seq(S)
    BY <1>1
  <2> HIDE DEF S
  <2>2. /\ DOMAIN p.accounts = 1..Len(p.accounts) /\ Len(p.accounts) \in Nat
        /\ \A i \in DOMAIN p.accounts : p.accounts[i] \in S
    BY <2>1, LenProperties, ElementOfSeq
  <2>3. QED
    BY <2>2 DEF S
<1>3. IsFiniteSet(DOMAIN p.accounts)
  BY <1>2, FS_Interval
<1>4. \A i \in DOMAIN p.accounts : ValidAccount(p.accounts[i])
  BY DEF ValidPool, ToSet
<1>5. Allocated(p) \in Nat
  <2> DEFINE f == [i \in DOMAIN p.accounts |-> p.accounts[i].amount]
  <2>1. \A i \in DOMAIN p.accounts : f[i] \in Int /\ f[i] >= 0
    BY <1>2 DEF AccountsOf
  <2> HIDE DEF f
  <2>2. SumOver(f, DOMAIN p.accounts) \in Nat
    BY <1>3, <2>1, SumType
  <2>3. QED
    BY <2>2 DEF f, Allocated, AmountOf
<1>6. Allocated(p) <= p.total
  BY <1>1, <1>5 DEF ValidPool
<1>7. QED
  BY <1>1, <1>2, <1>3, <1>4, <1>5, <1>6 DEF Of

\* What a pool has given: to each address a part of what is allocated, to all
\* together no more than it, and never less than before.
LEMMA PoolGives ==
  ASSUME NEW p \in PoolsOf(Holders), ValidPool(p), NEW t \in Nat
  PROVE  /\ \A h : InPool(p, t, h) \in Nat /\ InPool(p, t, h) <= Allocated(p)
         /\ \A i \in DOMAIN p.accounts :
              GivenIn(p, t)[i] \in Nat /\ GivenIn(p, t)[i] = GivenBy(p.accounts[i], t)
         /\ SumOver(GivenIn(p, t), DOMAIN p.accounts) <= Allocated(p)
<1> DEFINE D == DOMAIN p.accounts
           f == GivenIn(p, t)
           all == [i \in D |-> p.accounts[i].amount]
<1>1. /\ IsFiniteSet(D)
      /\ \A i \in D : p.accounts[i] \in AccountsOf(Holders) /\ ValidAccount(p.accounts[i])
      /\ \A h : Of(h, p.accounts) \in SUBSET D
      /\ Allocated(p) \in Nat
  BY AccountsFit
<1>2. ASSUME NEW i \in D
      PROVE  f[i] \in Nat /\ f[i] = GivenBy(p.accounts[i], t) /\ all[i] \in Nat /\ f[i] <= all[i]
  <2>1. f[i] = GivenBy(p.accounts[i], t) /\ all[i] = p.accounts[i].amount
    BY DEF GivenIn
  <2>2. QED
    BY <1>1, <2>1, GivenByGrows
<1>3. SumOver(all, D) = Allocated(p)
  BY DEF Allocated, AmountOf
<1> HIDE DEF f, all, D
<1>4. \A i \in D : f[i] \in Int /\ all[i] \in Int /\ f[i] <= all[i]
  BY <1>2
<1>5. SumOver(f, D) <= Allocated(p)
  BY <1>1, <1>3, <1>4, SumsCompare
<1>6. ASSUME NEW h PROVE InPool(p, t, h) \in Nat /\ InPool(p, t, h) <= Allocated(p)
  <2>1. Of(h, p.accounts) \in SUBSET D
    BY <1>1
  <2>2. \A i \in D : f[i] \in Nat
    BY <1>2
  <2>3. /\ SumOver(f, Of(h, p.accounts)) \in Nat /\ SumOver(f, D) \in Nat
        /\ SumOver(f, Of(h, p.accounts)) <= SumOver(f, D)
    BY <1>1, <2>1, <2>2, SumOfPart
  <2>4. InPool(p, t, h) = SumOver(f, Of(h, p.accounts))
    BY DEF InPool, f
  <2>5. QED
    BY <1>1, <1>5, <2>3, <2>4
<1>7. QED
  BY <1>2, <1>5, <1>6 DEF D, f

LEMMA PoolGivesMore ==
  ASSUME NEW p \in PoolsOf(Holders), ValidPool(p), NEW t \in Nat, NEW u \in Nat, t <= u, NEW h
  PROVE  InPool(p, t, h) <= InPool(p, u, h)
<1> DEFINE mine == Of(h, p.accounts)
<1>1. /\ IsFiniteSet(DOMAIN p.accounts) /\ mine \in SUBSET DOMAIN p.accounts
      /\ \A i \in DOMAIN p.accounts :
           p.accounts[i] \in AccountsOf(Holders) /\ ValidAccount(p.accounts[i])
  BY AccountsFit
<1>2. IsFiniteSet(mine)
  BY <1>1, FS_Subset
<1>3. ASSUME NEW i \in mine
      PROVE  /\ GivenIn(p, t)[i] \in Int /\ GivenIn(p, u)[i] \in Int
             /\ GivenIn(p, t)[i] <= GivenIn(p, u)[i]
  <2>1. /\ i \in DOMAIN p.accounts
        /\ p.accounts[i] \in AccountsOf(Holders) /\ ValidAccount(p.accounts[i])
    BY <1>1
  <2>2. /\ GivenBy(p.accounts[i], t) \in Nat /\ GivenBy(p.accounts[i], u) \in Nat
        /\ GivenBy(p.accounts[i], t) <= GivenBy(p.accounts[i], u)
    BY <2>1, GivenByGrows
  <2>3. QED
    BY <2>1, <2>2 DEF GivenIn
<1> HIDE DEF mine
<1>4. SumOver(GivenIn(p, t), mine) <= SumOver(GivenIn(p, u), mine)
  BY <1>2, <1>3, SumsCompare
<1>5. QED
  BY <1>4 DEF InPool, mine

\* Where the accounts of an address can be read, they have unlocked what was given.
LEMMA PoolUnlocksGiven ==
  ASSUME NEW p \in PoolsOf(Holders), ValidPool(p), NEW t \in Nat, NEW h,
         \A i \in Of(h, p.accounts) : Readable(p.accounts[i], t)
  PROVE  PoolUnlocked(p, t, h) = InPool(p, t, h)
<1> DEFINE mine == Of(h, p.accounts)
           g == [i \in mine |-> AccountUnlocked(p.accounts[i], t)]
<1>1. /\ IsFiniteSet(DOMAIN p.accounts) /\ mine \in SUBSET DOMAIN p.accounts
      /\ Allocated(p) \in Nat
  BY AccountsFit
<1>2. IsFiniteSet(mine)
  BY <1>1, FS_Subset
<1>3. \A i \in DOMAIN p.accounts :
        GivenIn(p, t)[i] \in Nat /\ GivenIn(p, t)[i] = GivenBy(p.accounts[i], t)
  BY PoolGives
<1>4. ASSUME NEW i \in mine PROVE GivenIn(p, t)[i] \in Int /\ g[i] = GivenIn(p, t)[i]
  <2>1. i \in DOMAIN p.accounts /\ Readable(p.accounts[i], t)
    BY <1>1
  <2>2. GivenBy(p.accounts[i], t) = AccountUnlocked(p.accounts[i], t)
    BY <2>1 DEF GivenBy
  <2>3. g[i] = AccountUnlocked(p.accounts[i], t)
    OBVIOUS
  <2>4. QED
    BY <1>3, <2>1, <2>2, <2>3
<1>5. PoolUnlocked(p, t, h) = LeastOf(SumOver(g, mine), Allocated(p))
  BY DEF PoolUnlocked
<1> HIDE DEF mine, g
<1>6. SumOver(g, mine) = SumOver(GivenIn(p, t), mine)
  BY <1>2, <1>4, SameSum
<1>7. InPool(p, t, h) = SumOver(g, mine)
  BY <1>6 DEF InPool, mine
<1>8. InPool(p, t, h) \in Nat /\ InPool(p, t, h) <= Allocated(p)
  BY PoolGives
<1>9. QED
  BY <1>1, <1>5, <1>7, <1>8 DEF LeastOf

\* All addresses together are given what the accounts give: each belongs to one.
LEMMA PoolGivesAll ==
  ASSUME NEW p \in PoolsOf(Holders), ValidPool(p), NEW t \in Nat
  PROVE  /\ SumOver([h \in Holders |-> InPool(p, t, h)], Holders) \in Nat
         /\ SumOver([h \in Holders |-> InPool(p, t, h)], Holders) <= p.total
<1> DEFINE D == DOMAIN p.accounts
           f == GivenIn(p, t)
           of == [i \in D |-> p.accounts[i].address]
           g == [h \in Holders |-> InPool(p, t, h)]
<1>1. /\ IsFiniteSet(D)
      /\ \A i \in D : p.accounts[i] \in AccountsOf(Holders)
      /\ Allocated(p) \in Nat /\ p.total \in Nat /\ Allocated(p) <= p.total
  BY AccountsFit
<1>2. IsFiniteSet(Holders)
  BY LedgerAssumption, FS_Interval DEF Holders
<1>3. /\ \A i \in D : f[i] \in Int
      /\ SumOver(f, D) <= Allocated(p)
      /\ \A h : InPool(p, t, h) \in Nat
  BY PoolGives
<1>4. \A i \in D : of[i] \in Holders
  BY <1>1 DEF AccountsOf
<1>5. ASSUME NEW h \in Holders PROVE g[h] = SumOver(f, Group(of, D, h))
  <2>1. Group(of, D, h) = Of(h, p.accounts)
    BY DEF Of, Group
  <2>2. QED
    BY <2>1 DEF InPool
<1>6. \A h \in Holders : g[h] \in Int /\ g[h] >= 0
  BY <1>3
<1> HIDE DEF D, f, of, g
<1>7. SumOver(g, Holders) = SumOver(f, D)
  BY <1>1, <1>2, <1>3, <1>4, <1>5, SumByGroups
<1>8. SumOver(g, Holders) \in Nat
  BY <1>2, <1>6, SumType
<1>9. SumOver(g, Holders) <= p.total
  BY <1>1, <1>3, <1>7, <1>8
<1>10. QED
  BY <1>8, <1>9 DEF g

-----------------------------------------------------------------------------
(* The same of a schedule.                                                 *)

LEMMA PoolsFit ==
  ASSUME NEW s \in SchedulesOf(Holders), Valid(s)
  PROVE  /\ DOMAIN s.pools = 1..Len(s.pools) /\ IsFiniteSet(DOMAIN s.pools)
         /\ \A i \in DOMAIN s.pools : s.pools[i] \in PoolsOf(Holders) /\ ValidPool(s.pools[i])
         /\ s.total \in Nat
         /\ SumOver([i \in DOMAIN s.pools |-> s.pools[i].total], DOMAIN s.pools) = s.total
<1>1. s.total \in Nat /\ s.pools \in Seq(PoolsOf(Holders))
  BY ScheduleFields
<1>2. /\ DOMAIN s.pools = 1..Len(s.pools) /\ Len(s.pools) \in Nat
      /\ \A i \in DOMAIN s.pools : s.pools[i] \in PoolsOf(Holders)
  <2> DEFINE S == PoolsOf(Holders)
  <2>1. s.pools \in Seq(S)
    BY <1>1
  <2> HIDE DEF S
  <2>2. /\ DOMAIN s.pools = 1..Len(s.pools) /\ Len(s.pools) \in Nat
        /\ \A i \in DOMAIN s.pools : s.pools[i] \in S
    BY <2>1, LenProperties, ElementOfSeq
  <2>3. QED
    BY <2>2 DEF S
<1>3. IsFiniteSet(DOMAIN s.pools)
  BY <1>2, FS_Interval
<1>4. \A i \in DOMAIN s.pools : ValidPool(s.pools[i])
  BY DEF Valid, ToSet
<1>5. SumOver([i \in DOMAIN s.pools |-> s.pools[i].total], DOMAIN s.pools) = s.total
  BY DEF Valid, PoolsTotal
<1>6. QED
  BY <1>1, <1>2, <1>3, <1>4, <1>5

\* What each pool gives an address, and what it can give in all.
LEMMA PoolByPool ==
  ASSUME NEW s \in SchedulesOf(Holders), Valid(s), NEW t \in Nat, NEW h,
         NEW i \in DOMAIN s.pools
  PROVE  /\ InPool(s.pools[i], t, h) \in Nat
         /\ InPool(s.pools[i], t, h) <= s.pools[i].total
         /\ s.pools[i].total \in Nat
<1>1. s.pools[i] \in PoolsOf(Holders) /\ ValidPool(s.pools[i])
  BY PoolsFit
<1>2. /\ Allocated(s.pools[i]) \in Nat /\ s.pools[i].total \in Nat
      /\ Allocated(s.pools[i]) <= s.pools[i].total
  BY <1>1, AccountsFit
<1>3. InPool(s.pools[i], t, h) \in Nat /\ InPool(s.pools[i], t, h) <= Allocated(s.pools[i])
  BY <1>1, PoolGives
<1>4. QED
  BY <1>2, <1>3

LEMMA ScheduleGives ==
  ASSUME NEW s \in SchedulesOf(Holders), Valid(s), NEW t \in Nat, NEW h
  PROVE  /\ Given(s, t, h) \in Nat
         /\ Given(s, t, h) <= s.total
<1> DEFINE D == DOMAIN s.pools
           f == [i \in D |-> InPool(s.pools[i], t, h)]
           totals == [i \in D |-> s.pools[i].total]
<1>1. IsFiniteSet(D) /\ SumOver(totals, D) = s.total
  BY PoolsFit
<1>2. ASSUME NEW i \in D PROVE f[i] \in Nat /\ f[i] <= totals[i] /\ totals[i] \in Nat
  BY PoolByPool
<1>3. Given(s, t, h) = SumOver(f, D)
  BY DEF Given
<1> HIDE DEF D, f, totals
<1>4. \A i \in D : f[i] \in Int /\ f[i] >= 0 /\ totals[i] \in Int /\ f[i] <= totals[i]
  BY <1>2
<1>5. SumOver(f, D) \in Nat
  BY <1>1, <1>4, SumType
<1>6. SumOver(f, D) <= SumOver(totals, D)
  BY <1>1, <1>4, SumsCompare
<1>7. QED
  BY <1>1, <1>3, <1>5, <1>6

LEMMA ScheduleGivesMore ==
  ASSUME NEW s \in SchedulesOf(Holders), Valid(s), NEW t \in Nat, NEW u \in Nat, t <= u, NEW h
  PROVE  Given(s, t, h) <= Given(s, u, h)
<1> DEFINE D == DOMAIN s.pools
           f == [i \in D |-> InPool(s.pools[i], t, h)]
           g == [i \in D |-> InPool(s.pools[i], u, h)]
<1>1. IsFiniteSet(D)
  BY PoolsFit
<1>2. ASSUME NEW i \in D PROVE f[i] \in Int /\ g[i] \in Int /\ f[i] <= g[i]
  <2>1. InPool(s.pools[i], t, h) \in Nat /\ InPool(s.pools[i], u, h) \in Nat
    BY PoolByPool
  <2>2. InPool(s.pools[i], t, h) <= InPool(s.pools[i], u, h)
    BY PoolsFit, PoolGivesMore
  <2>3. QED
    BY <2>1, <2>2
<1>3. Given(s, t, h) = SumOver(f, D) /\ Given(s, u, h) = SumOver(g, D)
  BY DEF Given
<1> HIDE DEF D, f, g
<1>4. SumOver(f, D) <= SumOver(g, D)
  BY <1>1, <1>2, SumsCompare
<1>5. QED
  BY <1>3, <1>4

LEMMA ScheduleUnlocksGiven ==
  ASSUME NEW s \in SchedulesOf(Holders), Valid(s), NEW t \in Nat, NEW h, CanRead(s, t, h)
  PROVE  Unlocked(s, t, h) = Given(s, t, h)
<1> DEFINE D == DOMAIN s.pools
           f == [i \in D |-> InPool(s.pools[i], t, h)]
           g == [i \in D |-> PoolUnlocked(s.pools[i], t, h)]
<1>1. IsFiniteSet(D) /\ PoolsTotal(s.pools) = s.total /\ s.total \in Nat
  BY PoolsFit DEF Valid
<1>2. ASSUME NEW i \in D PROVE f[i] \in Int /\ g[i] = f[i]
  <2>1. s.pools[i] \in PoolsOf(Holders) /\ ValidPool(s.pools[i])
    BY PoolsFit
  <2>2. \A j \in Of(h, s.pools[i].accounts) : Readable(s.pools[i].accounts[j], t)
    BY DEF CanRead, ToSet
  <2>3. PoolUnlocked(s.pools[i], t, h) = InPool(s.pools[i], t, h)
    BY <2>1, <2>2, PoolUnlocksGiven
  <2>4. InPool(s.pools[i], t, h) \in Nat
    BY PoolByPool
  <2>5. QED
    BY <2>3, <2>4
<1>3. Given(s, t, h) = SumOver(f, D)
  BY DEF Given
<1>4. Unlocked(s, t, h) = LeastOf(SumOver(g, D), PoolsTotal(s.pools))
  BY DEF Unlocked
<1> HIDE DEF D, f, g
<1>5. SumOver(g, D) = SumOver(f, D)
  BY <1>1, <1>2, SameSum
<1>6. Given(s, t, h) \in Nat /\ Given(s, t, h) <= s.total
  BY ScheduleGives
<1>7. QED
  BY <1>1, <1>3, <1>4, <1>5, <1>6 DEF LeastOf

\* All addresses together never get more than the schedule's total.
LEMMA ScheduleGivesAll ==
  ASSUME NEW s \in SchedulesOf(Holders), Valid(s), NEW t \in Nat
  PROVE  SumOver([h \in Holders |-> Given(s, t, h)], Holders) <= s.total
<1> DEFINE D == DOMAIN s.pools
           f == [h \in Holders |-> [i \in D |-> InPool(s.pools[i], t, h)]]
           rows == [h \in Holders |-> Given(s, t, h)]
           columns == [i \in D |-> SumOver([h \in Holders |-> InPool(s.pools[i], t, h)], Holders)]
           totals == [i \in D |-> s.pools[i].total]
<1>1. IsFiniteSet(D) /\ SumOver(totals, D) = s.total
  BY PoolsFit
<1>2. IsFiniteSet(Holders)
  BY LedgerAssumption, FS_Interval DEF Holders
<1>3. \A h \in Holders : \A i \in D : f[h][i] \in Int
  <2> SUFFICES ASSUME NEW h \in Holders, NEW i \in D PROVE f[h][i] \in Int
    OBVIOUS
  <2>1. InPool(s.pools[i], t, h) \in Nat
    BY PoolByPool
  <2>2. QED
    BY <2>1
<1>4. \A h \in Holders : rows[h] = SumOver(f[h], D)
  BY DEF Given
<1>5. \A i \in D : columns[i] = SumOver(Column(f, Holders, i), Holders)
  <2> SUFFICES ASSUME NEW i \in D PROVE columns[i] = SumOver(Column(f, Holders, i), Holders)
    OBVIOUS
  <2>1. Column(f, Holders, i) = [h \in Holders |-> InPool(s.pools[i], t, h)]
    BY DEF Column
  <2>2. columns[i] = SumOver([h \in Holders |-> InPool(s.pools[i], t, h)], Holders)
    OBVIOUS
  <2> HIDE DEF f, columns
  <2>3. QED
    BY <2>1, <2>2
<1>6. \A i \in D : columns[i] \in Int /\ totals[i] \in Int /\ columns[i] <= totals[i]
  <2> SUFFICES ASSUME NEW i \in D
               PROVE  columns[i] \in Int /\ totals[i] \in Int /\ columns[i] <= totals[i]
    OBVIOUS
  <2>1. s.pools[i] \in PoolsOf(Holders) /\ ValidPool(s.pools[i]) /\ s.pools[i].total \in Nat
    BY PoolsFit, PoolFields
  <2>2. /\ SumOver([h \in Holders |-> InPool(s.pools[i], t, h)], Holders) \in Nat
        /\ SumOver([h \in Holders |-> InPool(s.pools[i], t, h)], Holders) <= s.pools[i].total
    BY <2>1, PoolGivesAll
  <2>3. QED
    BY <2>1, <2>2
<1> HIDE DEF D, f, rows, columns, totals
<1>7. SumOver(rows, Holders) = SumOver(columns, D)
  BY <1>1, <1>2, <1>3, <1>4, <1>5, SumsSwap
<1>8. SumOver(columns, D) <= SumOver(totals, D)
  BY <1>1, <1>6, SumsCompare
<1>9. SumOver(rows, Holders) <= s.total
  BY <1>1, <1>7, <1>8
<1>10. QED
  BY <1>9 DEF rows

-----------------------------------------------------------------------------
(* What amendments leave.                                                  *)

\* A list and what is appended to it.
LEMMA Appending ==
  ASSUME NEW S, NEW list \in Seq(S), NEW e \in S
  PROVE  /\ Append(list, e) \in Seq(S)
         /\ DOMAIN list = 1..Len(list) /\ Len(list) \in Nat /\ IsFiniteSet(DOMAIN list)
         /\ DOMAIN Append(list, e) = DOMAIN list \cup {Len(list) + 1}
         /\ IsFiniteSet(DOMAIN Append(list, e))
         /\ Len(list) + 1 \notin DOMAIN list
         /\ Append(list, e)[Len(list) + 1] = e
         /\ \A i \in DOMAIN list : Append(list, e)[i] = list[i] /\ list[i] \in S
<1>1. DOMAIN list = 1..Len(list) /\ Len(list) \in Nat
  BY LenProperties
<1>2. /\ Append(list, e) \in Seq(S) /\ Len(Append(list, e)) = Len(list) + 1
      /\ \A i \in 1..Len(list) : Append(list, e)[i] = list[i]
      /\ Append(list, e)[Len(list) + 1] = e
  BY AppendProperties
<1>3. \A i \in 1..Len(list) : list[i] \in S
  BY ElementOfSeq
<1>4. DOMAIN Append(list, e) = 1..(Len(list) + 1)
  BY <1>2, LenProperties
<1>5. 1..(Len(list) + 1) = 1..Len(list) \cup {Len(list) + 1} /\ Len(list) + 1 \notin 1..Len(list)
  BY <1>1
<1>6. IsFiniteSet(1..Len(list)) /\ IsFiniteSet(1..(Len(list) + 1))
  BY <1>1, FS_Interval
<1>7. QED
  BY <1>1, <1>2, <1>3, <1>4, <1>5, <1>6

\* A pool that an account was added to allocates as much more.
LEMMA WithAccountAllocates ==
  ASSUME NEW p \in PoolsOf(Holders), ValidPool(p), NEW a \in AccountsOf(Holders), CanAdd(p, a),
         NEW q, q = WithAccount(p, a)
  PROVE  /\ q \in PoolsOf(Holders) /\ q.accounts = Append(p.accounts, a) /\ q.total = p.total
         /\ ValidPool(q)
<1> DEFINE D == DOMAIN p.accounts
           n == Len(p.accounts) + 1
           f == [i \in D |-> p.accounts[i].amount]
           g == [i \in DOMAIN q.accounts |-> q.accounts[i].amount]
<1>1. /\ p.partial \in BOOLEAN /\ p.total \in Nat /\ p.accounts \in Seq(AccountsOf(Holders))
  BY PoolFields
<1>2. /\ q.accounts = Append(p.accounts, a) /\ q.total = p.total
      /\ q.partial = (Allocated(p) + a.amount < p.total)
      /\ q = [partial |-> q.partial, total |-> q.total, accounts |-> q.accounts]
  BY DEF WithAccount, PoolsOf
<1>3. /\ q.accounts \in Seq(AccountsOf(Holders))
      /\ DOMAIN q.accounts = D \cup {n} /\ n \notin D
      /\ IsFiniteSet(D) /\ IsFiniteSet(DOMAIN q.accounts)
      /\ q.accounts[n] = a
      /\ \A i \in D : q.accounts[i] = p.accounts[i] /\ p.accounts[i] \in AccountsOf(Holders)
  <2> DEFINE S == AccountsOf(Holders)
  <2>1. p.accounts \in Seq(S) /\ a \in S
    BY <1>1
  <2> HIDE DEF S
  <2>2. /\ Append(p.accounts, a) \in Seq(S)
        /\ DOMAIN Append(p.accounts, a) = DOMAIN p.accounts \cup {Len(p.accounts) + 1}
        /\ Len(p.accounts) + 1 \notin DOMAIN p.accounts
        /\ IsFiniteSet(DOMAIN p.accounts) /\ IsFiniteSet(DOMAIN Append(p.accounts, a))
        /\ Append(p.accounts, a)[Len(p.accounts) + 1] = a
        /\ \A i \in DOMAIN p.accounts :
             Append(p.accounts, a)[i] = p.accounts[i] /\ p.accounts[i] \in S
    BY <2>1, Appending
  <2>3. QED
    BY <1>2, <2>2 DEF S
<1>4. q \in PoolsOf(Holders)
  <2>1. q.partial \in BOOLEAN
    BY <1>2
  <2>2. QED
    BY <1>1, <1>2, <1>3, <2>1 DEF PoolsOf
<1>5. a.amount \in Nat /\ \A i \in D : p.accounts[i].amount \in Nat
  BY <1>3 DEF AccountsOf
<1>6. Allocated(q) = a.amount + Allocated(p)
  <2>1. \A i \in DOMAIN q.accounts : g[i] \in Int
    BY <1>3, <1>5
  <2>2. \A i \in D : f[i] \in Int /\ g[i] = f[i]
    BY <1>3, <1>5
  <2>3. g[n] = a.amount /\ n \in DOMAIN q.accounts /\ DOMAIN q.accounts \ {n} = D
    BY <1>3
  <2>4. Allocated(p) = SumOver(f, D) /\ Allocated(q) = SumOver(g, DOMAIN q.accounts)
    BY DEF Allocated, AmountOf
  <2> DEFINE E == DOMAIN q.accounts
  <2> HIDE DEF f, g, D, n
  <2>5. SumOver(g, E) = g[n] + SumOver(g, E \ {n})
    <3>1. IsFiniteSet(E) /\ n \in E /\ \A i \in E : g[i] \in Int
      BY <1>3, <2>1, <2>3
    <3> HIDE DEF E
    <3>2. QED
      BY <3>1, SumWithout
  <2>6. SumOver(g, D) = SumOver(f, D)
    BY <1>3, <2>2, SameSum
  <2>7. QED
    BY <2>3, <2>4, <2>5, <2>6
<1>7. ValidPool(q)
  <2>1. \A x \in ToSet(q.accounts) : ValidAccount(x)
    <3>1. ASSUME NEW i \in DOMAIN q.accounts PROVE ValidAccount(q.accounts[i])
      <4>1. CASE i = n
        BY <1>3, <4>1 DEF CanAdd
      <4>2. CASE i \in D
        BY <1>3, <4>2 DEF ValidPool, ToSet
      <4>3. QED
        BY <1>3, <4>1, <4>2
    <3>2. QED
      BY <3>1 DEF ToSet
  <2>2. Allocated(p) \in Nat
    BY AccountsFit
  <2>3. a.amount <= p.total - Allocated(p)
    BY DEF CanAdd
  <2>4. IF q.partial THEN Allocated(q) <= q.total ELSE Allocated(q) = q.total
    <3>1. PICK x, y, z \in Nat : x = Allocated(p) /\ y = a.amount /\ z = p.total
      BY <1>1, <1>5, <2>2
    <3>2. y <= z - x /\ Allocated(q) = y + x /\ q.total = z
      BY <1>2, <1>6, <2>3, <3>1
    <3>3. q.partial <=> x + y < z
      BY <1>2, <3>1
    <3>4. y + x <= z /\ (~(x + y < z) => y + x = z)
      BY <3>2
    <3>5. QED
      BY <3>2, <3>3, <3>4
  <2>5. QED
    BY <2>1, <2>4 DEF ValidPool
<1>8. QED
  BY <1>2, <1>4, <1>7

\* ... and has given everybody at least what it had.
LEMMA WithAccountGives ==
  ASSUME NEW p \in PoolsOf(Holders), ValidPool(p), NEW a \in AccountsOf(Holders), CanAdd(p, a),
         NEW q, q = WithAccount(p, a), NEW t \in Nat, NEW h
  PROVE  InPool(p, t, h) <= InPool(q, t, h)
<1> DEFINE D == DOMAIN p.accounts
           mine == Of(h, p.accounts)
           all == Of(h, q.accounts)
           f == GivenIn(p, t)
           g == GivenIn(q, t)
<1>1. /\ q \in PoolsOf(Holders) /\ q.accounts = Append(p.accounts, a) /\ ValidPool(q)
  BY WithAccountAllocates
<1>2. /\ IsFiniteSet(D) /\ IsFiniteSet(DOMAIN q.accounts) /\ all \in SUBSET DOMAIN q.accounts
      /\ mine \in SUBSET D
  BY <1>1, AccountsFit
<1>3. D \subseteq DOMAIN q.accounts /\ \A i \in D : q.accounts[i] = p.accounts[i]
  <2> DEFINE S == AccountsOf(Holders)
  <2>1. p.accounts \in Seq(S) /\ a \in S
    BY PoolFields
  <2> HIDE DEF S
  <2>2. /\ DOMAIN Append(p.accounts, a) = DOMAIN p.accounts \cup {Len(p.accounts) + 1}
        /\ \A i \in DOMAIN p.accounts : Append(p.accounts, a)[i] = p.accounts[i]
    BY <2>1, Appending
  <2>3. QED
    BY <1>1, <2>2
<1>4. mine \in SUBSET all
  BY <1>2, <1>3 DEF Of
<1>5. IsFiniteSet(mine) /\ IsFiniteSet(all)
  BY <1>2, FS_Subset
<1>6. \A i \in all : g[i] \in Nat
  BY <1>1, <1>2, PoolGives
<1>7. \A i \in mine : f[i] \in Int /\ g[i] = f[i]
  <2> SUFFICES ASSUME NEW i \in mine PROVE f[i] \in Int /\ g[i] = f[i]
    OBVIOUS
  <2>1. i \in D /\ i \in DOMAIN q.accounts /\ q.accounts[i] = p.accounts[i]
    BY <1>2, <1>3
  <2>2. f[i] \in Nat /\ f[i] = GivenBy(p.accounts[i], t) /\ g[i] = GivenBy(q.accounts[i], t)
    BY <1>1, <2>1, PoolGives
  <2>3. QED
    BY <2>1, <2>2
<1>8. InPool(p, t, h) = SumOver(f, mine) /\ InPool(q, t, h) = SumOver(g, all)
  BY DEF InPool
<1> HIDE DEF D, mine, all, f, g
<1>9. SumOver(g, mine) = SumOver(f, mine)
  BY <1>5, <1>7, SameSum
<1>10. SumOver(g, mine) <= SumOver(g, all)
  BY <1>4, <1>5, <1>6, SumOfPart
<1>11. QED
  BY <1>8, <1>9, <1>10

\* One schedule has given everybody at least what another has.
GivesAtLeast(r, s) == \A t \in Nat : \A h \in Holders : Given(s, t, h) <= Given(r, t, h)

\* add_account keeps a schedule valid, and what it gave.
LEMMA AccountAdded ==
  ASSUME NEW s \in SchedulesOf(Holders), Valid(s), NEW i \in DOMAIN s.pools,
         NEW a \in AccountsOf(Holders), CanAdd(s.pools[i], a),
         NEW r, r = [s EXCEPT !.pools[i] = WithAccount(@, a)]
  PROVE  r \in SchedulesOf(Holders) /\ Valid(r) /\ r.total = s.total /\ GivesAtLeast(r, s)
<1> DEFINE D == DOMAIN s.pools
           q == WithAccount(s.pools[i], a)
<1>1. /\ D = 1..Len(s.pools) /\ IsFiniteSet(D)
      /\ \A j \in D : s.pools[j] \in PoolsOf(Holders) /\ ValidPool(s.pools[j])
      /\ s.total \in Nat
      /\ SumOver([j \in D |-> s.pools[j].total], D) = s.total
  BY PoolsFit
<1>2. /\ q \in PoolsOf(Holders) /\ q.total = s.pools[i].total /\ ValidPool(q)
  BY <1>1, WithAccountAllocates
<1>3. /\ r = [s EXCEPT !.pools = [s.pools EXCEPT ![i] = q]]
  OBVIOUS
<1>4. ASSUME NEW t \in Nat, NEW h PROVE InPool(s.pools[i], t, h) <= InPool(q, t, h)
  BY <1>1, WithAccountGives
<1> HIDE DEF q
<1>5. r.total = s.total /\ r.pools = [s.pools EXCEPT ![i] = q]
  BY <1>3 DEF SchedulesOf
<1>6. /\ r.pools \in Seq(PoolsOf(Holders)) /\ DOMAIN r.pools = D
      /\ r.pools[i] = q /\ \A j \in D : j # i => r.pools[j] = s.pools[j]
  <2> DEFINE S == PoolsOf(Holders)
  <2>1. s.pools \in Seq(S) /\ q \in S /\ i \in 1..Len(s.pools)
    BY <1>1, <1>2, ScheduleFields
  <2> HIDE DEF S
  <2>2. [s.pools EXCEPT ![i] = q] \in Seq(S)
    BY <2>1, ExceptSeq
  <2>3. QED
    BY <1>5, <2>2 DEF S
<1>7. r \in SchedulesOf(Holders)
  BY <1>1, <1>3, <1>5, <1>6 DEF SchedulesOf
<1>8. \A j \in D : r.pools[j].total = s.pools[j].total /\ s.pools[j].total \in Nat
  BY <1>1, <1>2, <1>6, PoolFields
<1>9. Valid(r)
  <2> DEFINE f == [j \in D |-> s.pools[j].total]
             g == [j \in D |-> r.pools[j].total]
  <2>1. \A j \in D : f[j] \in Int /\ g[j] = f[j]
    BY <1>8
  <2>2. PoolsTotal(r.pools) = SumOver(g, D)
    BY <1>6 DEF PoolsTotal
  <2>3. SumOver(f, D) = s.total
    BY <1>1
  <2> HIDE DEF f, g, D
  <2>4. SumOver(g, D) = SumOver(f, D)
    BY <1>1, <2>1, SameSum
  <2>5. \A j \in D : ValidPool(r.pools[j])
    BY <1>1, <1>2, <1>6
  <2>6. \A p \in ToSet(r.pools) : ValidPool(p)
    BY <1>6, <2>5 DEF ToSet
  <2>7. QED
    BY <1>5, <2>2, <2>3, <2>4, <2>6 DEF Valid
<1>10. ASSUME NEW t \in Nat, NEW h \in Holders PROVE Given(s, t, h) <= Given(r, t, h)
  <2> DEFINE f == [j \in D |-> InPool(s.pools[j], t, h)]
             g == [j \in D |-> InPool(r.pools[j], t, h)]
  <2>1. ASSUME NEW j \in D PROVE f[j] \in Int /\ g[j] \in Int /\ f[j] <= g[j]
    <3>1. InPool(s.pools[j], t, h) \in Nat /\ InPool(r.pools[j], t, h) \in Nat
      BY <1>6, <1>7, <1>9, PoolByPool
    <3>2. CASE j = i
      BY <1>4, <1>6, <3>1, <3>2
    <3>3. CASE j # i
      BY <1>6, <3>1, <3>3
    <3>4. QED
      BY <3>2, <3>3
  <2>2. Given(s, t, h) = SumOver(f, D) /\ Given(r, t, h) = SumOver(g, D)
    BY <1>6 DEF Given
  <2> HIDE DEF f, g, D
  <2>3. SumOver(f, D) <= SumOver(g, D)
    BY <1>1, <2>1, SumsCompare
  <2>4. QED
    BY <2>2, <2>3
<1>11. GivesAtLeast(r, s)
  BY <1>10 DEF GivesAtLeast
<1>12. QED
  BY <1>5, <1>7, <1>9, <1>11

\* increase_allocation adds a pool, and with it what the pool gives.
LEMMA PoolAdded ==
  ASSUME NEW s \in SchedulesOf(Holders), Valid(s), NEW p \in PoolsOf(Holders), NEW r,
         r = [total |-> s.total + p.total, pools |-> Append(s.pools, p)], Valid(r)
  PROVE  r \in SchedulesOf(Holders) /\ s.total <= r.total /\ GivesAtLeast(r, s)
<1> DEFINE D == DOMAIN s.pools
<1>1. /\ IsFiniteSet(D) /\ s.total \in Nat /\ p.total \in Nat
  BY PoolsFit, PoolFields
<1>2. r.total = s.total + p.total /\ r.pools = Append(s.pools, p)
  OBVIOUS
<1>3. /\ r.pools \in Seq(PoolsOf(Holders)) /\ D \subseteq DOMAIN r.pools
      /\ \A i \in D : r.pools[i] = s.pools[i]
  <2> DEFINE S == PoolsOf(Holders)
  <2>1. s.pools \in Seq(S) /\ p \in S
    BY ScheduleFields
  <2> HIDE DEF S
  <2>2. /\ Append(s.pools, p) \in Seq(S)
        /\ DOMAIN Append(s.pools, p) = DOMAIN s.pools \cup {Len(s.pools) + 1}
        /\ \A i \in DOMAIN s.pools : Append(s.pools, p)[i] = s.pools[i]
    BY <2>1, Appending
  <2>3. QED
    BY <1>2, <2>2 DEF S
<1>4. r \in SchedulesOf(Holders)
  BY <1>1, <1>2, <1>3 DEF SchedulesOf
<1>5. IsFiniteSet(DOMAIN r.pools)
  BY <1>4, PoolsFit
<1>6. ASSUME NEW t \in Nat, NEW h \in Holders PROVE Given(s, t, h) <= Given(r, t, h)
  <2> DEFINE E == DOMAIN r.pools
             f == [i \in D |-> InPool(s.pools[i], t, h)]
             g == [i \in E |-> InPool(r.pools[i], t, h)]
  <2>1. \A i \in E : g[i] \in Nat
    BY <1>4, PoolByPool
  <2>2. \A i \in D : f[i] \in Int /\ g[i] = f[i]
    <3> SUFFICES ASSUME NEW i \in D PROVE f[i] \in Int /\ g[i] = f[i]
      OBVIOUS
    <3>1. InPool(s.pools[i], t, h) \in Nat
      BY PoolByPool
    <3>2. g[i] = InPool(s.pools[i], t, h)
      BY <1>3
    <3>3. QED
      BY <3>1, <3>2
  <2>3. Given(s, t, h) = SumOver(f, D) /\ Given(r, t, h) = SumOver(g, E)
    BY DEF Given
  <2>4. D \in SUBSET E
    BY <1>3
  <2> HIDE DEF D, E, f, g
  <2>5. SumOver(g, D) = SumOver(f, D)
    BY <1>1, <2>2, SameSum
  <2>6. IsFiniteSet(E)
    BY <1>5 DEF E
  <2>7. SumOver(g, D) <= SumOver(g, E)
    BY <2>1, <2>4, <2>6, SumOfPart
  <2>8. QED
    BY <2>3, <2>5, <2>7
<1>7. GivesAtLeast(r, s)
  BY <1>6 DEF GivesAtLeast
<1>8. QED
  BY <1>1, <1>2, <1>4, <1>7

-----------------------------------------------------------------------------
(* Nobody claims more than was given.  Before the launch nobody claims; from *)
(* then on time only adds to what was given, and so do amendments.         *)

ClaimsInv ==
  /\ TypeOK
  /\ total_claimed = SumOver(claimed, Holders)
  /\ ~HasLaunched => \A h \in Holders : claimed[h] = 0
  /\ HasLaunched => /\ launched <= now
                    /\ \A h \in Holders : claimed[h] <= Given(schedule, Elapsed, h)

LEMMA Times ==
  ASSUME TypeOK
  PROVE  /\ now \in Nat /\ now \in StartTime..MaxTime /\ StartTime \in 0..MaxTime /\ MaxTime \in Nat
         /\ HasLaunched => launched \in Nat
         /\ HasLaunched /\ launched <= now => Elapsed \in Nat /\ Elapsed = now - launched
<1>1. now \in StartTime..MaxTime /\ StartTime \in 0..MaxTime /\ MaxTime \in Nat
  BY TgeAssumption DEF TypeOK
<1>2. now \in Nat
  BY <1>1
<1>3. HasLaunched => launched \in Nat
  BY <1>1 DEF TypeOK, HasLaunched
<1>4. HasLaunched /\ launched <= now => Elapsed \in Nat /\ Elapsed = now - launched
  BY <1>2, <1>3 DEF Elapsed, MinusOrZero
<1>5. QED
  BY <1>1, <1>2, <1>3, <1>4

LEMMA InitClaimsInv == Init => ClaimsInv
<1> SUFFICES ASSUME Init PROVE ClaimsInv
  OBVIOUS
<1>1. LedgerTypeOK
  <2>1. balances \in [Holders -> Nat] /\ total_supply \in 0..MaxUint
    BY InitialLedger, LedgerAssumption DEF Init, LedgerInit
  <2>2. minters \subseteq Holders /\ token_admin \in Holders /\ stopped \in BOOLEAN
    BY LedgerAssumption DEF Init, LedgerInit
  <2>3. QED
    BY <2>1, <2>2 DEF LedgerTypeOK
<1>2. schedule \in SchedulesOf(Holders) /\ Valid(schedule)
  BY TgeAssumption DEF Init
<1>3. /\ prefunded \in BOOLEAN /\ launched = NotLaunched /\ claimed = [h \in Holders |-> 0]
      /\ total_claimed = 0 /\ level \in Levels /\ rpt_level \in Levels
      /\ distribution \in Distributions
  BY DEF Init, Levels
<1>4. now \in StartTime..MaxTime
  BY TgeAssumption DEF Init
<1>5. TypeOK
  BY <1>1, <1>2, <1>3, <1>4 DEF TypeOK
<1>6. IsFiniteSet(Holders)
  BY LedgerAssumption, FS_Interval DEF Holders
<1>7. \A h \in Holders : claimed[h] = 0
  BY <1>3
<1>8. SumOver(claimed, Holders) = 0
  BY <1>6, <1>7, SumOfZeros
<1>9. QED
  BY <1>3, <1>5, <1>7, <1>8 DEF ClaimsInv, HasLaunched

\* A step without a claim or a launch.
LEMMA NothingClaimed ==
  ASSUME ClaimsInv, TypeOK', UNCHANGED <<claimed, total_claimed, launched>>, now <= now',
         HasLaunched => schedule' = schedule \/ GivesAtLeast(schedule', schedule)
  PROVE  ClaimsInv'
<1>1. HasLaunched' = HasLaunched
  BY DEF HasLaunched
<1>2. TypeOK /\ total_claimed = SumOver(claimed, Holders)
  BY DEF ClaimsInv
<1>3. SumOver(claimed, Holders)' = SumOver(claimed, Holders)
  OBVIOUS
<1>4. (total_claimed = SumOver(claimed, Holders))'
  BY <1>2
<1>5. CASE ~HasLaunched
  BY <1>1, <1>4, <1>5 DEF ClaimsInv
<1>6. CASE HasLaunched
  <2>1. /\ launched \in Nat /\ now \in Nat /\ launched <= now
        /\ Elapsed \in Nat /\ Elapsed = now - launched
        /\ \A h \in Holders : claimed[h] <= Given(schedule, Elapsed, h)
    BY <1>2, <1>6, Times DEF ClaimsInv
  <2>2. now' \in Nat
    BY TgeAssumption DEF TypeOK
  <2>3. launched' <= now'
    BY <2>1, <2>2
  <2>4. Elapsed' \in Nat /\ Elapsed <= Elapsed'
    <3>1. Elapsed' = now' - launched
      BY <2>1, <2>2, <2>3 DEF Elapsed, MinusOrZero
    <3>2. launched \in Nat /\ now \in Nat /\ launched <= now /\ now <= now' /\ Elapsed = now - launched
      BY <2>1
    <3>3. \A x, y, z \in Nat : x <= y /\ y <= z => z - x \in Nat /\ y - x <= z - x
      OBVIOUS
    <3>4. now' - launched \in Nat /\ now - launched <= now' - launched
      BY <2>2, <3>2, <3>3
    <3>5. QED
      BY <3>1, <3>2, <3>4
  <2>5. /\ schedule \in SchedulesOf(Holders) /\ Valid(schedule)
        /\ schedule' \in SchedulesOf(Holders) /\ Valid(schedule')
        /\ claimed \in [Holders -> Nat]
    BY <1>2 DEF TypeOK
  <2>6. ASSUME NEW h \in Holders PROVE claimed'[h] <= Given(schedule', Elapsed', h)
    <3>1. PICK e \in Nat : e = Elapsed'
      BY <2>4
    <3>2. claimed[h] <= Given(schedule, Elapsed, h) /\ Elapsed <= e /\ claimed[h] \in Nat
      BY <2>1, <2>4, <2>5, <3>1
    <3>3. Given(schedule, Elapsed, h) <= Given(schedule, e, h)
      BY <2>1, <2>5, <3>2, ScheduleGivesMore
    <3>4. Given(schedule, Elapsed, h) \in Nat /\ Given(schedule, e, h) \in Nat
      BY <2>1, <2>5, ScheduleGives
    <3>5. Given(schedule, e, h) <= Given(schedule', e, h)
      <4>1. CASE schedule' = schedule
        BY <3>4, <4>1
      <4>2. CASE GivesAtLeast(schedule', schedule)
        BY <4>2 DEF GivesAtLeast
      <4>3. QED
        BY <1>6, <4>1, <4>2
    <3>6. Given(schedule', e, h) \in Nat
      BY <2>5, ScheduleGives
    <3>7. QED
      BY <3>1, <3>2, <3>3, <3>4, <3>5, <3>6
  <2>7. QED
    BY <1>1, <1>4, <1>6, <2>3, <2>6 DEF ClaimsInv
<1>7. QED
  BY <1>5, <1>6

\* A claim, an investor's or RPT's, takes what can be claimed and no more.
LEMMA ClaimIsGiven ==
  ASSUME ClaimsInv, LedgerTypeOK', NEW h \in Holders, ClaimBy(h, Claimable(h)),
         UNCHANGED <<rptVars, now>>
  PROVE  ClaimsInv'
<1>1. TypeOK /\ total_claimed = SumOver(claimed, Holders)
  BY DEF ClaimsInv
<1>2. PICK n \in Nat :
        /\ n = Claimable(h) /\ n > 0 /\ claimed' = [claimed EXCEPT ![h] = @ + n]
        /\ total_claimed' = total_claimed + n
  <2>1. /\ Claimable(h) \in 1..MaxUint
        /\ claimed' = [claimed EXCEPT ![h] = @ + Claimable(h)]
        /\ total_claimed' = total_claimed + Claimable(h)
    BY DEF ClaimBy
  <2>2. PICK n \in 1..MaxUint : n = Claimable(h)
    BY <2>1
  <2>3. n \in Nat /\ n > 0
    BY LedgerAssumption
  <2>4. QED
    BY <2>1, <2>2, <2>3
<1>3. /\ HasLaunched /\ CanRead(schedule, Elapsed, h)
      /\ UNCHANGED <<schedule, prefunded, launched, level, rpt_level, distribution, now>>
  BY DEF ClaimBy, rptVars
<1>4. /\ launched <= now /\ Elapsed \in Nat
      /\ \A k \in Holders : claimed[k] <= Given(schedule, Elapsed, k)
  BY <1>1, <1>3, Times DEF ClaimsInv
<1>5. /\ schedule \in SchedulesOf(Holders) /\ Valid(schedule) /\ claimed \in [Holders -> Nat]
      /\ claimed[h] \in Nat /\ total_claimed \in Nat
  BY <1>1 DEF TypeOK
<1>6. /\ Unlocked(schedule, Elapsed, h) = Given(schedule, Elapsed, h)
      /\ Given(schedule, Elapsed, h) \in Nat
  BY <1>3, <1>4, <1>5, ScheduleUnlocksGiven, ScheduleGives
<1>7. claimed[h] + n = Given(schedule, Elapsed, h)
  BY <1>2, <1>4, <1>5, <1>6 DEF Claimable, MinusOrZero
<1>8. /\ claimed' \in [Holders -> Nat] /\ claimed'[h] = claimed[h] + n
      /\ \A k \in Holders : k # h => claimed'[k] = claimed[k]
  BY <1>2, <1>5
<1>9. total_claimed' \in Nat
  BY <1>2, <1>5
<1>10. TypeOK'
  BY <1>1, <1>3, <1>8, <1>9 DEF TypeOK
<1>11. total_claimed' = SumOver(claimed', Holders)
  <2>1. IsFiniteSet(Holders)
    BY LedgerAssumption, FS_Interval DEF Holders
  <2>2. PICK m \in Int : m = claimed[h] + n
    BY <1>5
  <2>3. claimed' = [claimed EXCEPT ![h] = m]
    BY <1>2, <2>2
  <2>4. SumOver([claimed EXCEPT ![h] = m], Holders) + claimed[h] = SumOver(claimed, Holders) + m
    BY <1>5, <2>1, OneEntryOfSum
  <2>5. \A k \in Holders : [claimed EXCEPT ![h] = m][k] \in Int
    BY <1>8, <2>3
  <2>6. SumOver([claimed EXCEPT ![h] = m], Holders) \in Int
    BY <2>1, <2>5, SumType
  <2>7. PICK x \in Int : x = SumOver([claimed EXCEPT ![h] = m], Holders)
    BY <2>6
  <2>8. PICK c, y \in Nat : c = claimed[h] /\ y = total_claimed
    BY <1>5
  <2>9. x + c = y + (c + n)
    BY <1>1, <2>2, <2>4, <2>7, <2>8
  <2>10. x = y + n
    BY <2>9
  <2>11. QED
    BY <1>2, <2>3, <2>7, <2>8, <2>10
<1>12. HasLaunched' /\ Elapsed' = Elapsed /\ launched' <= now' /\ schedule' = schedule
  BY <1>3, <1>4 DEF HasLaunched, Elapsed
<1>13. \A k \in Holders : claimed'[k] <= Given(schedule', Elapsed', k)
  <2> SUFFICES ASSUME NEW k \in Holders PROVE claimed'[k] <= Given(schedule', Elapsed', k)
    OBVIOUS
  <2>1. claimed'[k] <= Given(schedule, Elapsed, k)
    BY <1>4, <1>6, <1>7, <1>8
  <2>2. QED
    BY <1>12, <2>1
<1>14. QED
  BY <1>10, <1>11, <1>12, <1>13 DEF ClaimsInv

\* The ledger keeps its types.
LEMMA LedgerStaysTyped ==
  ASSUME IInv, IInv', LedgerTypeOK, [Next]_vars
  PROVE  LedgerTypeOK'
<1>1. /\ balances' \in [Holders -> Nat] /\ total_supply' \in Nat /\ total_supply \in 0..MaxUint
      /\ minters \subseteq Holders /\ token_admin \in Holders /\ stopped \in BOOLEAN
      /\ MaxUint \in Nat /\ schedule.total \in Nat
  BY Constants DEF IInv, Types, LedgerTypeOK
<1>2. CASE UNCHANGED ledgerVars
  BY <1>1, <1>2 DEF ledgerVars, LedgerTypeOK
<1>3. CASE Launch
  <2>1. CASE PrefundedLaunch
    BY <1>2, <2>1 DEF PrefundedLaunch
  <2>2. CASE MintingLaunch
    <3>1. total_supply' = total_supply + schedule.total /\ total_supply + schedule.total <= MaxUint
          /\ minters' = {} /\ UNCHANGED <<token_admin, stopped>>
      BY <2>2 DEF MintingLaunch, MintersAfterLaunch
    <3>2. total_supply' \in 0..MaxUint
      BY <1>1, <3>1
    <3>3. QED
      BY <1>1, <3>1, <3>2 DEF LedgerTypeOK
  <2>3. QED
    BY <1>3, <2>1, <2>2 DEF Launch
<1>4. CASE Payout
  <2>1. UNCHANGED <<total_supply, minters, token_admin, stopped>>
    BY <1>4 DEF Payout, Vest, Claim, MoveTokens
  <2>2. QED
    BY <1>1, <2>1 DEF LedgerTypeOK
<1>5. ASSUME NEW l \in Levels, SetMgmtLevel(l) PROVE LedgerTypeOK'
  <2>1. CASE UNCHANGED ledgerVars
    BY <1>2, <2>1
  <2>2. CASE ChangeTokenAdmin(Mgmt, MgmtAdmin)
    BY <1>1, <2>2, Constants DEF ChangeTokenAdmin, LedgerTypeOK
  <2>3. QED
    BY <1>5, <2>1, <2>2 DEF SetMgmtLevel
<1>6. CASE AdministerToken
  <2>1. /\ minters' \subseteq Holders /\ token_admin' \in Holders /\ stopped' \in BOOLEAN
        /\ total_supply' = total_supply
    BY <1>1, <1>6, Constants
       DEF AdministerToken, SetMinters, AddMinters, ChangeTokenAdmin, SetContractStatus
  <2>2. QED
    BY <1>1, <2>1 DEF LedgerTypeOK
<1>7. ASSUME NEW n \in Mints, FundMgmt(n) PROVE LedgerTypeOK'
  <2>1. n \in Nat
    BY Constants
  <2>2. UNCHANGED <<minters, token_admin, stopped>>
    BY <1>7 DEF FundMgmt, MintTokens, MoveTokens, BurnTokens
  <2>3. total_supply' \in 0..MaxUint
    <3>1. CASE MintTokens(MgmtAdmin, Mgmt, n)
      BY <1>1, <2>1, <3>1 DEF MintTokens, CanMint
    <3>2. CASE MoveTokens(MgmtAdmin, Mgmt, n)
      BY <1>1, <3>2 DEF MoveTokens
    <3>3. CASE BurnTokens(MgmtAdmin, n)
      BY <1>1, <2>1, <3>3 DEF BurnTokens
    <3>4. QED
      BY <1>7, <3>1, <3>2, <3>3 DEF FundMgmt
  <2>4. QED
    BY <1>1, <2>2, <2>3 DEF LedgerTypeOK
<1>8. QED
  BY <1>2, <1>3, <1>4, <1>5, <1>6, <1>7
     DEF Next, Configure, AddAccount, IncreaseAllocation, SetRptLevel, ConfigureRpt, Tick, vars

LEMMA StepClaimsInv == ClaimsInv /\ IInv /\ IInv' /\ [Next]_vars => ClaimsInv'
<1> SUFFICES ASSUME ClaimsInv, IInv, IInv', [Next]_vars PROVE ClaimsInv'
  OBVIOUS
<1>1. TypeOK /\ LedgerTypeOK /\ now \in Nat /\ schedule \in SchedulesOf(Holders) /\ Valid(schedule)
  BY Times DEF ClaimsInv, TypeOK
<1>2. LedgerTypeOK'
  BY <1>1, LedgerStaysTyped
<1>3. now <= now
  BY <1>1
<1>4. ASSUME NEW s \in Schedules, Configure(s) PROVE ClaimsInv'
  <2>1. /\ ~HasLaunched /\ Valid(s) /\ schedule' = s
        /\ UNCHANGED <<prefunded, launched, claimed, total_claimed, level, rpt_level,
                       distribution, now>>
    BY <1>4 DEF Configure, rptVars
  <2>2. s \in SchedulesOf(Holders)
    BY TgeAssumption
  <2>3. TypeOK'
    BY <1>1, <1>2, <2>1, <2>2 DEF TypeOK
  <2>4. QED
    BY <1>3, <2>1, <2>3, NothingClaimed
<1>5. ASSUME NEW p \in NewAccounts, AddAccount(p[1], p[2]) PROVE ClaimsInv'
  <2>1. /\ p[1] \in DOMAIN schedule.pools /\ CanAdd(schedule.pools[p[1]], p[2])
        /\ schedule' = [schedule EXCEPT !.pools[p[1]] = WithAccount(@, p[2])]
        /\ UNCHANGED <<prefunded, launched, claimed, total_claimed, level, rpt_level,
                       distribution, now>>
    BY <1>5 DEF AddAccount, rptVars
  <2>2. p[2] \in AccountsOf(Holders)
    BY TgeAssumption
  <2>3. /\ schedule' \in SchedulesOf(Holders) /\ Valid(schedule')
        /\ GivesAtLeast(schedule', schedule)
    BY <1>1, <2>1, <2>2, AccountAdded
  <2>4. TypeOK'
    BY <1>1, <1>2, <2>1, <2>3 DEF TypeOK
  <2>5. QED
    BY <1>3, <2>1, <2>3, <2>4, NothingClaimed
<1>6. ASSUME NEW p \in NewPools, IncreaseAllocation(p) PROVE ClaimsInv'
  <2>1. /\ schedule' = [total |-> schedule.total + p.total, pools |-> Append(schedule.pools, p)]
        /\ Valid(schedule')
        /\ UNCHANGED <<prefunded, launched, claimed, total_claimed, level, rpt_level,
                       distribution, now>>
    BY <1>6 DEF IncreaseAllocation, rptVars
  <2>2. p \in PoolsOf(Holders)
    BY TgeAssumption
  <2>3. schedule' \in SchedulesOf(Holders) /\ GivesAtLeast(schedule', schedule)
    BY <1>1, <2>1, <2>2, PoolAdded
  <2>4. TypeOK'
    BY <1>1, <1>2, <2>1, <2>3 DEF TypeOK
  <2>5. QED
    BY <1>3, <2>1, <2>3, <2>4, NothingClaimed
<1>7. CASE Launch
  <2>1. /\ ~HasLaunched /\ launched' = now
        /\ UNCHANGED <<schedule, prefunded, claimed, total_claimed, level, rpt_level,
                       distribution, now>>
    BY <1>7 DEF Launch, rptVars
  <2>2. now \in 0..MaxTime
    BY <1>1, Times
  <2>3. TypeOK'
    BY <1>1, <1>2, <2>1, <2>2 DEF TypeOK
  <2>4. Elapsed' = 0 /\ launched' <= now'
    BY <1>1, <2>1 DEF Elapsed, MinusOrZero
  <2>5. HasLaunched'
    BY <1>1, <2>1 DEF HasLaunched, NotLaunched
  <2>6. ASSUME NEW h \in Holders PROVE claimed'[h] <= Given(schedule', Elapsed', h)
    <3>1. Given(schedule, 0, h) \in Nat
      BY <1>1, 0 \in Nat, ScheduleGives
    <3>2. claimed'[h] = 0
      BY <2>1 DEF ClaimsInv
    <3>3. QED
      BY <2>1, <2>4, <3>1, <3>2
  <2>7. total_claimed' = SumOver(claimed', Holders)
    BY <2>1 DEF ClaimsInv
  <2>8. QED
    BY <2>3, <2>4, <2>5, <2>6, <2>7 DEF ClaimsInv
<1>8. CASE Payout
  <2>1. CASE Vest
    BY <1>2, <2>1, Constants, ClaimIsGiven DEF Vest
  <2>2. ASSUME NEW h \in Investors, Claim(h) PROVE ClaimsInv'
    BY <1>2, <2>2, Constants, ClaimIsGiven DEF Claim
  <2>3. QED
    BY <1>8, <2>1, <2>2 DEF Payout
<1>9. ASSUME NEW l \in Levels, SetMgmtLevel(l) PROVE ClaimsInv'
  <2>1. /\ level' = l
        /\ UNCHANGED <<schedule, prefunded, launched, claimed, total_claimed, rpt_level,
                       distribution, now>>
    BY <1>9 DEF SetMgmtLevel, rptVars
  <2>2. TypeOK'
    BY <1>1, <1>2, <2>1 DEF TypeOK
  <2>3. QED
    BY <1>3, <2>1, <2>2, NothingClaimed
<1>10. ASSUME NEW l \in RptLevels, SetRptLevel(l) PROVE ClaimsInv'
  <2>1. /\ rpt_level' = l /\ l \in Levels
        /\ UNCHANGED <<schedule, prefunded, launched, claimed, total_claimed, level,
                       distribution, now>>
    BY <1>10, TgeAssumption DEF SetRptLevel, mgmtVars
  <2>2. TypeOK'
    BY <1>1, <1>2, <2>1 DEF TypeOK
  <2>3. QED
    BY <1>3, <2>1, <2>2, NothingClaimed
<1>11. ASSUME NEW d \in Distributions, ConfigureRpt(d) PROVE ClaimsInv'
  <2>1. /\ distribution' = d
        /\ UNCHANGED <<schedule, prefunded, launched, claimed, total_claimed, level,
                       rpt_level, now>>
    BY <1>11 DEF ConfigureRpt, mgmtVars
  <2>2. TypeOK'
    BY <1>1, <1>2, <2>1 DEF TypeOK
  <2>3. QED
    BY <1>3, <2>1, <2>2, NothingClaimed
<1>12. ASSUME UNCHANGED <<mgmtVars, rptVars, now>> PROVE ClaimsInv'
  <2>1. UNCHANGED <<schedule, prefunded, launched, claimed, total_claimed, level, rpt_level,
                    distribution, now>>
    BY <1>12 DEF mgmtVars, rptVars
  <2>2. TypeOK'
    BY <1>1, <1>2, <2>1 DEF TypeOK
  <2>3. QED
    BY <1>3, <2>1, <2>2, NothingClaimed
<1>13. CASE Tick
  <2>1. /\ now' = now + 1 /\ now < MaxTime
        /\ UNCHANGED <<schedule, prefunded, launched, claimed, total_claimed, level, rpt_level,
                       distribution>>
    BY <1>13 DEF Tick, mgmtVars, rptVars
  <2>2. now' \in StartTime..MaxTime /\ now <= now'
    BY <1>1, <2>1, Times
  <2>3. TypeOK'
    BY <1>1, <1>2, <2>1, <2>2 DEF TypeOK
  <2>4. QED
    BY <2>1, <2>2, <2>3, NothingClaimed
<1>14. QED
  BY <1>4, <1>5, <1>6, <1>7, <1>8, <1>9, <1>10, <1>11, <1>12, <1>13
     DEF Next, AdministerToken, FundMgmt, vars

\* The total that increase_allocation relies on is the sum of the claims, what was
\* added left the schedule valid, and nobody has claimed more than has been unlocked
\* for it, nor all together more than the schedule's total (mgmt/src/lib.rs,
\* schedule/lib/lib.rs).
THEOREM ClaimsAreUnlockedHolds == Spec => []ClaimsAreUnlocked
<1>1. ClaimsInv => ClaimsAreUnlocked
  <2> SUFFICES ASSUME ClaimsInv PROVE ClaimsAreUnlocked
    OBVIOUS
  <2>1. /\ TypeOK /\ schedule \in SchedulesOf(Holders) /\ Valid(schedule)
        /\ claimed \in [Holders -> Nat]
        /\ total_claimed = SumOver(claimed, Holders)
    BY DEF ClaimsInv, TypeOK
  <2>2. IsFiniteSet(Holders)
    BY LedgerAssumption, FS_Interval DEF Holders
  <2>3. schedule.total \in Nat
    BY <2>1, ScheduleFields
  <2>4. ASSUME HasLaunched
        PROVE  /\ Elapsed \in Nat /\ \A h \in Holders : claimed[h] <= Given(schedule, Elapsed, h)
    BY <2>1, <2>4, Times DEF ClaimsInv
  <2>5. total_claimed <= schedule.total
    <3>1. CASE ~HasLaunched
      <4>1. \A h \in Holders : claimed[h] = 0
        BY <3>1 DEF ClaimsInv
      <4>2. SumOver(claimed, Holders) = 0
        BY <2>2, <4>1, SumOfZeros
      <4>3. QED
        BY <2>1, <2>3, <4>2
    <3>2. CASE HasLaunched
      <4> DEFINE g == [h \in Holders |-> Given(schedule, Elapsed, h)]
      <4>1. \A h \in Holders : claimed[h] \in Int /\ g[h] \in Int /\ claimed[h] <= g[h]
        <5> SUFFICES ASSUME NEW h \in Holders
                     PROVE  claimed[h] \in Int /\ g[h] \in Int /\ claimed[h] <= g[h]
          OBVIOUS
        <5>1. Given(schedule, Elapsed, h) \in Nat
          BY <2>1, <2>4, <3>2, ScheduleGives
        <5>2. claimed[h] \in Nat /\ claimed[h] <= Given(schedule, Elapsed, h)
          BY <2>1, <2>4, <3>2
        <5>3. QED
          BY <5>1, <5>2
      <4>2. SumOver(g, Holders) <= schedule.total
        BY <2>1, <2>4, <3>2, ScheduleGivesAll
      <4> HIDE DEF g
      <4>3. SumOver(claimed, Holders) <= SumOver(g, Holders)
        BY <2>2, <4>1, SumsCompare
      <4>4. SumOver(claimed, Holders) \in Int /\ SumOver(g, Holders) \in Int
        BY <2>2, <4>1, SumType
      <4>5. QED
        BY <2>1, <2>3, <4>2, <4>3, <4>4
    <3>3. QED
      BY <3>1, <3>2
  <2>6. ASSUME HasLaunched, NEW h \in Investors \cup {Rpt}, CanRead(schedule, Elapsed, h)
        PROVE  claimed[h] <= Unlocked(schedule, Elapsed, h)
    <3>1. h \in Holders /\ Elapsed \in Nat /\ claimed[h] <= Given(schedule, Elapsed, h)
      BY <2>4, <2>6, Constants
    <3>2. Unlocked(schedule, Elapsed, h) = Given(schedule, Elapsed, h)
      BY <2>1, <2>6, <3>1, ScheduleUnlocksGiven
    <3>3. QED
      BY <3>1, <3>2
  <2>7. QED
    BY <2>1, <2>5, <2>6 DEF ClaimsAreUnlocked
<1>2. QED
  BY <1>1, InitClaimsInv, StepClaimsInv, IInvHolds, PTL DEF Spec

-----------------------------------------------------------------------------
(* What an account unlocks is what its releases add up to: before its start *)
(* none has come, from its end on all have, and in between the first and as *)
(* many portions as its intervals that have passed.                        *)

FirstRelease(a) == [at |-> a.start_at, amount |-> a.cliff, n |-> 0]
LastRelease(a) == [at |-> End(a), amount |-> Remainder(a), n |-> -1]

PortionAt(a, n) == a.start_at + a.interval * (IF a.cliff = 0 THEN n - 1 ELSE n)

PortionReleases(a) ==
  [n \in 1..PortionCount(a) |-> [at |-> PortionAt(a, n), amount |-> PortionSize(a), n |-> n]]

\* The releases are all different.
LEMMA ReleasesListed ==
  ASSUME NEW a
  PROVE  /\ Releases(a) = {FirstRelease(a), LastRelease(a)}
                          \cup {PortionReleases(a)[n] : n \in 1..PortionCount(a)}
         /\ FirstRelease(a) # LastRelease(a)
         /\ FirstRelease(a).at = a.start_at /\ FirstRelease(a).amount = a.cliff
         /\ LastRelease(a).at = End(a) /\ LastRelease(a).amount = Remainder(a)
         /\ \A n \in 1..PortionCount(a) :
              /\ PortionReleases(a)[n].at = PortionAt(a, n)
              /\ PortionReleases(a)[n].amount = PortionSize(a)
              /\ PortionReleases(a)[n].n = n
              /\ PortionReleases(a)[n] # FirstRelease(a) /\ PortionReleases(a)[n] # LastRelease(a)
<1> DEFINE portion(n) == [at |-> PortionAt(a, n), amount |-> PortionSize(a), n |-> n]
<1>1. FirstRelease(a).n = 0 /\ LastRelease(a).n = -1
      /\ FirstRelease(a).at = a.start_at /\ FirstRelease(a).amount = a.cliff
      /\ LastRelease(a).at = End(a) /\ LastRelease(a).amount = Remainder(a)
  BY DEF FirstRelease, LastRelease
<1>2. \A n \in 1..PortionCount(a) : PortionReleases(a)[n] = portion(n)
  BY DEF PortionReleases
<1>3. \A n : portion(n).at = PortionAt(a, n) /\ portion(n).amount = PortionSize(a) /\ portion(n).n = n
  OBVIOUS
<1>4. Releases(a) = {FirstRelease(a), LastRelease(a)}
                    \cup {portion(n) : n \in 1..PortionCount(a)}
  BY DEF Releases, FirstRelease, LastRelease, PortionAt
<1> HIDE DEF portion
<1>5. {portion(n) : n \in 1..PortionCount(a)}
        = {PortionReleases(a)[n] : n \in 1..PortionCount(a)}
  BY <1>2
<1>6. \A n \in 1..PortionCount(a) :
        /\ PortionReleases(a)[n].n = n
        /\ PortionReleases(a)[n] # FirstRelease(a) /\ PortionReleases(a)[n] # LastRelease(a)
  <2> SUFFICES ASSUME NEW n \in 1..PortionCount(a)
               PROVE  /\ PortionReleases(a)[n].n = n
                      /\ PortionReleases(a)[n] # FirstRelease(a)
                      /\ PortionReleases(a)[n] # LastRelease(a)
    OBVIOUS
  <2>1. PortionReleases(a)[n].n = n
    BY <1>2, <1>3
  <2>2. n # 0 /\ n # -1
    OBVIOUS
  <2>3. QED
    BY <1>1, <2>1, <2>2
<1>7. FirstRelease(a) # LastRelease(a)
  <2>1. 0 # -1
    OBVIOUS
  <2>2. QED
    BY <1>1, <2>1
<1>8. QED
  BY <1>1, <1>2, <1>3, <1>4, <1>5, <1>6, <1>7

\* When the portions come: none before the start, each by the end, and up to some
\* moment the first MostRecentPortion.
LEMMA PortionTimes ==
  ASSUME NEW A, NEW a \in AccountsOf(A), ValidAccount(a), a.interval > 0,
         NEW n \in 1..PortionCount(a)
  PROVE  /\ PortionAt(a, n) \in Nat /\ a.start_at <= PortionAt(a, n) /\ PortionAt(a, n) <= End(a)
         /\ \A t \in Nat : a.start_at <= t => (PortionAt(a, n) <= t <=> n <= MostRecentPortion(a, t))
<1> DEFINE b == IF a.cliff = 0 THEN 1 ELSE 0
<1>1. /\ a.start_at \in Nat /\ a.duration \in Nat /\ a.interval \in Nat \ {0}
      /\ PortionCount(a) \in Nat /\ PortionCount(a) * a.interval <= a.duration
  BY Portioned DEF AccountsOf
<1>2. n \in Nat /\ n >= 1 /\ n <= PortionCount(a) /\ b \in {0, 1}
  BY <1>1
<1>3. PICK m \in Nat : m = n - b
  BY <1>2
<1>4. PortionAt(a, n) = a.start_at + a.interval * m
  BY <1>2, <1>3 DEF PortionAt
<1>5. MostRecentPortion(a, 0) = MostRecentPortion(a, 0)
      /\ \A t : MostRecentPortion(a, t) = LeastOf((t - a.start_at) \div a.interval + b, PortionCount(a))
  BY DEF MostRecentPortion
<1> HIDE DEF b
<1>6. a.interval * m \in Nat /\ a.interval * m <= a.duration
  <2>1. m <= PortionCount(a)
    BY <1>1, <1>2, <1>3
  <2>2. a.interval * m <= a.interval * PortionCount(a)
    BY <1>1, <2>1, ProductGrows
  <2>3. a.interval * m \in Nat /\ a.interval * PortionCount(a) = PortionCount(a) * a.interval
        /\ PortionCount(a) * a.interval \in Nat
    BY <1>1, SMT
  <2>4. QED
    BY <1>1, <2>2, <2>3
<1>7. /\ PortionAt(a, n) \in Nat /\ a.start_at <= PortionAt(a, n) /\ PortionAt(a, n) <= End(a)
  BY <1>1, <1>4, <1>6 DEF End
<1>8. ASSUME NEW t \in Nat, a.start_at <= t
      PROVE  PortionAt(a, n) <= t <=> n <= MostRecentPortion(a, t)
  <2>1. PICK d \in Nat : d = t - a.start_at
    BY <1>1, <1>8
  <2>2. PortionAt(a, n) <= t <=> a.interval * m <= d
    BY <1>1, <1>4, <1>6, <2>1
  <2>3. a.interval * m <= d <=> m <= d \div a.interval
    BY <1>1, QuotientReached
  <2>4. PICK q \in Nat : q = d \div a.interval
    BY <1>1, QuotientBounds
  <2>5. m <= q <=> n <= q + b
    BY <1>2, <1>3
  <2>6. MostRecentPortion(a, t) = LeastOf(q + b, PortionCount(a))
    BY <1>5, <2>1, <2>4
  <2>7. n <= MostRecentPortion(a, t) <=> n <= q + b
    BY <1>1, <1>2, <2>6 DEF LeastOf
  <2>8. QED
    BY <2>2, <2>3, <2>4, <2>5, <2>7
<1>9. QED
  BY <1>7, <1>8

\* What some of the releases add up to: the first, the first k portions, and the last.
LEMMA ReleasesAddUp ==
  ASSUME NEW A, NEW a \in AccountsOf(A), ValidAccount(a), NEW k \in 0..PortionCount(a),
         NEW F, \A r \in Releases(a) : F[r] = r.amount
  PROVE  LET some == {FirstRelease(a)} \cup Firsts(PortionReleases(a), k)
         IN /\ IsFiniteSet(some \cup {LastRelease(a)})
            /\ SumOver(F, some) = a.cliff + k * PortionSize(a)
            /\ SumOver(F, some \cup {LastRelease(a)})
                 = a.cliff + k * PortionSize(a) + Remainder(a)
<1> DEFINE e == PortionReleases(a)
           first == FirstRelease(a)
           last == LastRelease(a)
           T == Firsts(e, k)
           some == {first} \cup T
           all == some \cup {last}
<1>1. /\ PortionCount(a) \in Nat /\ PortionSize(a) \in Nat /\ a.cliff \in Nat
      /\ AmountAfterCliff(a) \in Nat /\ PortionSize(a) * PortionCount(a) \in Nat
  BY Portioned
<1>2. Remainder(a) \in Int
  BY <1>1 DEF Remainder
<1>3. /\ Releases(a) = {first, last} \cup {e[n] : n \in 1..PortionCount(a)}
      /\ first # last /\ first.amount = a.cliff /\ last.amount = Remainder(a)
      /\ \A n \in 1..PortionCount(a) :
           e[n].amount = PortionSize(a) /\ e[n].n = n /\ e[n] # first /\ e[n] # last
  BY ReleasesListed
<1> HIDE DEF e, first, last
<1>4. \A n \in 1..PortionCount(a) : F[e[n]] = PortionSize(a)
  BY <1>3
<1>5. F[first] = a.cliff /\ F[last] = Remainder(a)
  BY <1>3
<1>6. \A i, j \in 1..PortionCount(a) : e[i] = e[j] => i = j
  BY <1>3
<1>7. k \in Nat /\ k <= PortionCount(a)
  BY <1>1
<1>8. IsFiniteSet(T) /\ SumOver(F, T) = k * PortionSize(a)
  <2> DEFINE m == PortionCount(a)
             c == PortionSize(a)
  <2>1. /\ m \in Nat /\ c \in Nat /\ k \in Nat /\ k <= m
        /\ \A r \in Firsts(e, m) : F[r] = c
        /\ Distinct(e, m)
    BY <1>1, <1>4, <1>6, <1>7 DEF Firsts, Distinct
  <2> HIDE DEF m, c
  <2>2. IsFiniteSet(Firsts(e, k)) /\ SumOver(F, Firsts(e, k)) = k * c
    BY <2>1, SumOfEqual
  <2>3. QED
    BY <2>2 DEF c
<1>9. 1..k \subseteq 1..PortionCount(a)
  BY <1>1, <1>7
<1>10. first \notin T /\ last \notin T /\ \A r \in T : F[r] = PortionSize(a)
  BY <1>3, <1>4, <1>9 DEF Firsts
<1>11. IsFiniteSet(some) /\ IsFiniteSet(all)
  BY <1>8, FS_AddElement
<1>12. /\ some \ {first} = T /\ first \in some
       /\ all \ {last} = some /\ last \in all
  BY <1>3, <1>10
<1>13. \A r \in all : F[r] \in Int
  BY <1>1, <1>2, <1>5, <1>10
<1>14. \A r \in some : F[r] \in Int
  BY <1>13
<1> HIDE DEF T, some, all
<1>15. SumOver(F, some) = F[first] + SumOver(F, some \ {first})
  BY <1>11, <1>12, <1>14, SumWithout
<1>16. SumOver(F, all) = F[last] + SumOver(F, all \ {last})
  BY <1>11, <1>12, <1>13, SumWithout
<1>17. PICK x \in Nat : x = k * PortionSize(a)
  BY <1>1, <1>7
<1>18. SumOver(F, some) = a.cliff + x
  BY <1>5, <1>8, <1>12, <1>15, <1>17
<1>19. SumOver(F, all) = Remainder(a) + (a.cliff + x)
  BY <1>5, <1>12, <1>16, <1>18
<1>20. SumOver(F, all) = a.cliff + x + Remainder(a)
  BY <1>1, <1>2, <1>19
<1>21. QED
  BY <1>11, <1>17, <1>18, <1>20 DEF T, some, all, e, first, last

\* ... and the releases due are these.
LEMMA UnlockedIsReleased ==
  ASSUME NEW A, NEW a \in AccountsOf(A), ValidAccount(a), NEW t \in Nat, Readable(a, t)
  PROVE  AccountUnlocked(a, t) = ReleasedBy(a, t)
<1> DEFINE due == {r \in Releases(a) : r.at <= t}
           e == PortionReleases(a)
           first == FirstRelease(a)
           last == LastRelease(a)
           F == [r \in due |-> r.amount]
           G == [r \in Releases(a) |-> r.amount]
<1>1. /\ a.amount \in Nat /\ a.start_at \in Nat /\ End(a) \in Nat /\ a.start_at <= End(a)
      /\ PortionCount(a) \in Nat /\ PortionSize(a) \in Nat /\ a.cliff \in Nat
      /\ AmountAfterCliff(a) = a.amount - a.cliff /\ a.cliff <= a.amount
      /\ PortionSize(a) * PortionCount(a) \in Nat
      /\ PortionSize(a) * PortionCount(a) <= AmountAfterCliff(a)
  BY AccountCases, Portioned DEF AmountAfterCliff
<1>2. /\ Releases(a) = {first, last} \cup {e[n] : n \in 1..PortionCount(a)}
      /\ first.at = a.start_at /\ first.amount = a.cliff
      /\ last.at = End(a) /\ last.amount = Remainder(a)
      /\ \A n \in 1..PortionCount(a) :
           e[n].at = PortionAt(a, n) /\ e[n].amount = PortionSize(a)
  BY ReleasesListed
<1>3. PortionCount(a) > 0 => a.interval > 0
  BY DEF PortionCount
<1>4. \A n \in 1..PortionCount(a) :
        /\ PortionAt(a, n) \in Nat /\ a.start_at <= PortionAt(a, n) /\ PortionAt(a, n) <= End(a)
        /\ a.start_at <= t => (PortionAt(a, n) <= t <=> n <= MostRecentPortion(a, t))
  BY <1>1, <1>3, PortionTimes
<1>5. ReleasedBy(a, t) = SumOver(F, due)
  BY DEF ReleasedBy
<1>6. \A r \in Releases(a) : G[r] = r.amount
  OBVIOUS
<1>7. Remainder(a) \in Int
  BY <1>1 DEF Remainder
<1>8. \A r \in due : F[r] = r.amount /\ F[r] = G[r] /\ G[r] \in Int
  BY <1>1, <1>2, <1>7
<1>9. IsFiniteSet(due)
  <2>1. Releases(a) = ({first} \cup Firsts(e, PortionCount(a))) \cup {last}
    BY <1>2 DEF Firsts
  <2>2. PortionCount(a) \in 0..PortionCount(a)
    BY <1>1
  <2>3. IsFiniteSet(({first} \cup Firsts(e, PortionCount(a))) \cup {last})
    BY <1>6, <2>2, ReleasesAddUp
  <2>4. QED
    BY <2>1, <2>3, FS_Subset
<1> HIDE DEF F, G, e, first, last
<1>10. SumOver(F, due) = SumOver(G, due)
  <2> HIDE DEF due
  <2>1. QED
    BY <1>8, <1>9, SameSum
<1>11. CASE t < a.start_at
  <2>1. due = {}
    BY <1>1, <1>2, <1>4, <1>11
  <2>2. SumOver(F, due) = 0
    BY <2>1, <1>9, SumOverRecurs
  <2>3. AccountUnlocked(a, t) = 0
    BY <1>11, AccountCases
  <2>4. QED
    BY <1>5, <2>2, <2>3
<1>12. CASE t >= End(a)
  <2>1. \A r \in Releases(a) : r.at <= t
    BY <1>1, <1>2, <1>4, <1>12
  <2>2. due = ({first} \cup Firsts(e, PortionCount(a))) \cup {last}
    BY <1>2, <2>1 DEF Firsts
  <2>3. PortionCount(a) \in 0..PortionCount(a)
    BY <1>1
  <2>4. SumOver(G, due) = a.cliff + PortionCount(a) * PortionSize(a) + Remainder(a)
    BY <1>6, <2>2, <2>3, ReleasesAddUp DEF first, last, e
  <2>5. PortionCount(a) * PortionSize(a) = PortionSize(a) * PortionCount(a)
    BY <1>1
  <2>6. PICK x \in Nat : x = PortionSize(a) * PortionCount(a)
    BY <1>1
  <2>7. Remainder(a) = a.amount - a.cliff - x
    BY <1>1, <2>6 DEF Remainder
  <2>8. a.cliff + x + (a.amount - a.cliff - x) = a.amount
    BY <1>1
  <2>9. AccountUnlocked(a, t) = a.amount
    BY <1>12, AccountCases
  <2>10. QED
    BY <1>5, <1>10, <2>4, <2>5, <2>6, <2>7, <2>8, <2>9
<1>13. CASE a.start_at <= t /\ t < End(a)
  <2>1. /\ a.interval > 0
        /\ AccountUnlocked(a, t)
             = LeastOf(a.cliff + MostRecentPortion(a, t) * PortionSize(a), a.amount)
    BY <1>13, AccountCases
  <2>2. PICK k \in Nat : k = MostRecentPortion(a, t) /\ k <= PortionCount(a)
    <3>1. MostRecentPortion(a, t) \in Nat
      BY <1>1, <1>13, <2>1, PortionsGrow
    <3>2. MostRecentPortion(a, t) <= PortionCount(a)
      <4>1. PICK d \in Nat : d = t - a.start_at
        BY <1>1, <1>13
      <4>2. a.interval \in Nat \ {0}
        BY <2>1 DEF AccountsOf
      <4>3. d \div a.interval \in Nat
        BY <4>1, <4>2, QuotientBounds
      <4>4. QED
        BY <1>1, <4>1, <4>3 DEF MostRecentPortion, LeastOf
    <3>3. QED
      BY <3>1, <3>2
  <2>3. first.at <= t /\ ~(last.at <= t)
    BY <1>1, <1>2, <1>13
  <2>4. \A n \in 1..PortionCount(a) : e[n].at <= t <=> n <= k
    BY <1>2, <1>4, <1>13, <2>2
  <2>5. 1..k = {n \in 1..PortionCount(a) : n <= k}
    BY <1>1, <2>2
  <2>6. due = {first} \cup Firsts(e, k)
    BY <1>2, <2>3, <2>4, <2>5 DEF Firsts
  <2>7. k \in 0..PortionCount(a)
    BY <1>1, <2>2
  <2>8. SumOver(G, due) = a.cliff + k * PortionSize(a)
    BY <1>6, <2>6, <2>7, ReleasesAddUp DEF first, e
  <2>9. k * PortionSize(a) \in Nat /\ k * PortionSize(a) <= PortionSize(a) * PortionCount(a)
    <3>1. k * PortionSize(a) <= PortionCount(a) * PortionSize(a)
      BY <1>1, <2>2, ProductGrows
    <3>2. k * PortionSize(a) \in Nat
          /\ PortionCount(a) * PortionSize(a) = PortionSize(a) * PortionCount(a)
      BY <1>1
    <3>3. QED
      BY <3>1, <3>2
  <2>10. PICK x, y \in Nat : x = k * PortionSize(a) /\ y = PortionSize(a) * PortionCount(a)
    BY <1>1, <2>9
  <2>11. a.cliff + x <= a.amount
    BY <1>1, <2>9, <2>10
  <2>12. AccountUnlocked(a, t) = a.cliff + x
    BY <1>1, <2>1, <2>2, <2>10, <2>11 DEF LeastOf
  <2>13. QED
    BY <1>5, <1>10, <2>8, <2>10, <2>12
<1>14. QED
  BY <1>1, <1>11, <1>12, <1>13

LEMMA ActingAsReleased ==
  ASSUME NEW A, NEW a \in AccountsOf(A), ValidAccount(a)
  PROVE  ActsAsReleased(a)
<1>1. End(a) \in Nat
  BY AccountCases, 0 \in Nat
<1>2. \A t \in 0..(End(a) + 1) : t \in Nat
  BY <1>1
<1>3. QED
  BY <1>2, UnlockedIsReleased DEF ActsAsReleased

\* At every moment at which they can be read, the accounts of the schedule have
\* unlocked what their releases until then add up to, whatever is added to it, and so
\* has every valid account (schedule/lib/vesting.rs).
THEOREM UnlockedAsReleasedHolds == Spec => []UnlockedAsReleased
<1>1. SmallAccountsActAsReleased
  <2> SUFFICES ASSUME NEW a \in SmallAccounts PROVE ActsAsReleased(a)
    BY DEF SmallAccountsActAsReleased
  <2>1. a \in AccountsOf({InvestorAddress}) /\ ValidAccount(a)
    BY DEF SmallAccounts, Periodic, AccountsOf
  <2>2. QED
    BY <2>1, ActingAsReleased
<1>2. ClaimsInv => UnlockedAsReleased
  <2> SUFFICES ASSUME ClaimsInv, NEW i \in DOMAIN schedule.pools,
                      NEW j \in DOMAIN schedule.pools[i].accounts
               PROVE  ActsAsReleased(schedule.pools[i].accounts[j])
    BY <1>1 DEF UnlockedAsReleased, ToSet
  <2>1. schedule \in SchedulesOf(Holders) /\ Valid(schedule)
    BY DEF ClaimsInv, TypeOK
  <2>2. schedule.pools[i] \in PoolsOf(Holders) /\ ValidPool(schedule.pools[i])
    BY <2>1, PoolsFit
  <2>3. /\ schedule.pools[i].accounts[j] \in AccountsOf(Holders)
        /\ ValidAccount(schedule.pools[i].accounts[j])
    BY <2>2, AccountsFit
  <2>4. QED
    BY <2>3, ActingAsReleased
<1>3. QED
  BY <1>2, InitClaimsInv, StepClaimsInv, IInvHolds, PTL DEF Spec
=============================================================================
