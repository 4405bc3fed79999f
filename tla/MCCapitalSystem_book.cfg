SPECIFICATION OrdinarySpec
CONSTANTS
  p1 = p1  p2 = p2  holder = holder  other = other  nobody = nobody  usd = usd
  MaxTime = 3
  Quotes <- OneBundle
  Holders = {holder, other}
  NoOwner = nobody
  MaxDeadline = 10
  MaxPolicies = 2
  Pools = {p1, p2}
  Currencies = {usd}
  CALC_PRECISION = 1
  RATE = 2
  Rates = {1, 2}
  Amounts = {1, 2}
  Ratios = {1}
  MaxCapital = 2
SYMMETRY PoolSymmetry
INVARIANTS CapitalIsSumOfPools UtilizedIsActiveCover ClaimsWithinCoverage TokenIsActive
CHECK_DEADLOCK FALSE
