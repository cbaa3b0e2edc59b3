CONSTANTS
  v1 = v1
  v2 = v2
  v3 = v3
  ab = ab
  bc = bc
  ca = ca
  Factories <- Versions
  Nobody = nobody
  Pairs <- Swaps
  TransferLimit = 2
  MaxExchanges = 3
SPECIFICATION Spec
SYMMETRY Alike
INVARIANTS
  ListedObeyTheirFactory
  ListedOnce
  ListedUnlessSkipped
PROPERTIES
  MigrationOnlyEmpties
