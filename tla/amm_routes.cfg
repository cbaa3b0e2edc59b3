CONSTANTS
  ab = ab
  bs = bs
  a = a
  b = b
  scrt = scrt
  provider = provider
  trader = trader
  Users = {provider, trader}
  Pools = {ab, bs}
  Router = router
  Burner = burner
  Tokens = {a, b, scrt}
  Native = scrt
  FirstToken <- First
  SecondToken <- Second
  SettingsChoices <- KeptOrBurned
  Purse <- Purses
  Amounts = {1, 2}
  Slippages <- Tolerances
  DecimalOne = 4
  StrictParsing = FALSE
  Routes <- Paths
  Providers = {provider}
  Traders = {trader}
  Gifts <- ToThePool
  Deposits <- OneOrTwo
  TokenLists <- OneThenBoth
SPECIFICATION Spec
INVARIANTS
  NothingStranded
PROPERTIES
  SharesKeepWorth
  SwapsRoundByLessThanOne
  RouteDeliversOrReverts
