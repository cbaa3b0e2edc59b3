CONSTANTS
  N = 2
  MaxPolls = 0
  Thresholds = {1}
  Quorums = {1}
  Deadlines = {1}
  DecimalOne = 3
  LPToken = lp
  RewardToken = lp
  Amounts = {1}
  Vestings = {1}
  Bondings = {1}
  WaitPeriod = 1
  Successors = {new}
  Predecessors = {old}
  InitialLP <- OneFirst
  LegacyStake = 1
  AdminMay = {"close", "close governance", "drain"}
  MaxTime = 1
  MaxVested = 1
  MaxEpoch = 0
SPECIFICATION Spec
CHECK_DEADLOCK FALSE
INVARIANTS
  StakesAreBacked
PROPERTIES
  PromiseKept
