SPECIFICATION Spec
CHECK_DEADLOCK FALSE
CONSTANTS
  u1 = u1
  u2 = u2
  a = a
  b = b
  Users = {u1, u2}
  LockTokens = {a, b}
  NativeToken = b
  InitialTokens <- AB
  Settings <- NewA
  Wallets <- SomeWallets
  Means <- SomeMeans
  Deposits = {1, 5}
  Strays = {0, 1}
  MaxDecimal = 5
  MaxCount = 3
  Forever = 9
  StrictParsing = FALSE
  MaxTime = 3
  Sales <- SomeSales
  Percentages = {0, 100}
  Payments = {1, 2}
  Supplies = {3, 6}
  Additions <- OneOrOther
  Starts = {1, 2}
  Ends = {2, 3}
  RateOne = 2
  MaxUint = 9
  MaxActivations = 2
INVARIANTS
  LocksAreBacked
  BoughtIsPaid
  SeatsCoverListed
  PreLocksAreServed
PROPERTIES
  RemovalRefundsAll
  SeatsGoToTheBonded
