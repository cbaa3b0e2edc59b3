CONSTANTS
  N = 2
  atom = atom
  scrt = scrt
  Markets = {scrt}
  Funds <- OnePurse
  DecimalOne = 4
  BaseRate = 0
  Multiplier = 4
  JumpMultiplier = 4
  JumpThreshold = 3
  MaxBorrowRate = 2
  Amounts <- OnePayments
  Prices <- OneQuote
  LTVs <- OneRatio
  ReserveFactors = {2}
  Caps = {}
  InitialRate = 4
  SeizeFactor = 2
  Premium = 5
  CloseFactor = 4
  MaxEntered = 3
  UserMay <- Anything
  LendAdminMay = {"reduce reserves"}
  MaxBlock = 1
SPECIFICATION LendSpec
CHECK_DEADLOCK FALSE
INVARIANTS
  SupplyIsSum
  BorrowersIndexed
PROPERTIES
  SuppliersKeepValue
