SPECIFICATION Spec
CONSTANTS
  N = 3
  MaxUint = 3
  InitialBalances <- ListedTwice
  FirstAdmin = 1
  Amounts = {1}
  Expirations = {0}
  MinterLists = {{1}}
  Admins = {3}
  Contracts = {3}
  Approvals <- OwnerAndSpender
  MaxTx = 2
  MaxTime = 1
INVARIANTS
  SupplyIsAccounted
  HistoryExplainsBalances
