CONSTANTS
  N = 2
  atom = atom
  scrt = scrt
  Markets = {atom, scrt}
  Funds <- Purses
  DecimalOne = 4
  BaseRate = 0
  Multiplier = 4
  JumpMultiplier = 4
  JumpThreshold = 3
  MaxBorrowRate = 2
  Amounts <- Payments
  Prices <- Quotes
  LTVs <- Ratios
  ReserveFactors = {2}
  Caps = {8}
  InitialRate = 4
  SeizeFactor = 2
  Premium = 5
  CloseFactor = 4
  MaxEntered = 2
  UserMay <- Parts
  LendAdminMay = {"change market", "pause", "configure market", "reduce reserves"}
  MaxBlock = 1
SPECIFICATION LendSpec
CHECK_DEADLOCK FALSE
INVARIANTS
  DebtorsAreEntered
PROPERTIES
  OnlyUnderwaterLiquidated
  CoveredStayCovered
