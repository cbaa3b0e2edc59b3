SPECIFICATION Spec
CONSTANTS
  N = 5
  MaxUint = 16
  InitialBalances <- AdminHasEight
  FirstAdmin = 1
  MgmtAdmin = 1
  Mgmt = 2
  Rpt = 3
  Investors = {4}
  AdminAddress = 1
  MgmtAddress = 2
  RptAddress = 3
  InvestorAddress = 4
  PoolAddress = 5
  Schedules <- PlannedOrMistaken
  NewAccounts <- Added
  NewPools <- Increase
  Distributions <- Splits
  Mints = {8}
  RptLevels <- PausedOrNot
  MaxTime = 3
  MaxLaunch = 1
  StartTime = 0
  MaxPools = 3
INVARIANTS
  ScheduleIsFunded
  ClaimsAreUnlocked
  UnlockedAsReleased
PROPERTIES
  LaunchMintsLast
  RptPaysWholePortions
  EveryoneIsPaid
