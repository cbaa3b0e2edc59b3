CONSTANTS
  N = 2
  MaxPolls = 1
  Thresholds = {1}
  Quorums = {0, 2}
  Deadlines = {1}
  DecimalOne = 3
  LPToken = lp
  RewardToken = sienna
  Amounts = {2}
  Vestings = {}
  Bondings = {0}
  WaitPeriod = 1
  Successors = {next}
  Predecessors = {}
  InitialLP <- FourAndTwo
  LegacyStake = 0
  AdminMay = {"configure governance", "close"}
  MaxTime = 1
  MaxVested = 0
  MaxEpoch = 0
SPECIFICATION Spec
CHECK_DEADLOCK FALSE
INVARIANTS
  TalliesMatchVotes
  StatusFollowsVotes
  VotesWeighStakes
PROPERTIES
  ExpiredPollsAreFinal
