CONSTANTS
  N = 2
  MaxPolls = 0
  Thresholds = {1}
  Quorums = {1}
  Deadlines = {1}
  DecimalOne = 3
  LPToken = lp
  RewardToken = sienna
  Amounts = {1, 2}
  Vestings = {2}
  Bondings = {1, 2}
  WaitPeriod = 1
  Successors = {}
  Predecessors = {}
  InitialLP <- ByUserNumber
  LegacyStake = 0
  AdminMay = {"configure"}
  MaxTime = 2
  MaxVested = 2
  MaxEpoch = 1
SPECIFICATION Spec
CHECK_DEADLOCK FALSE
INVARIANTS
  TypeOK
  StakedIsSum
  SharesAreFractions
  UnlockedIsVested
  AccountsReadable
PROPERTIES
  BondingIsServed
