SPECIFICATION ClaimsSpec
CONSTANTS
  u1 = u1  holder = holder  nobody = nobody  ssip = ssip  uno1 = uno1  x = x  y = y
  Users = {u1}
  ONE = 1
  MaxTime = 2
  Quotes <- OneQuote
  Holders = {holder}
  NoOwner = nobody
  MaxDeadline = 10
  MaxPolicies = 1
  Pools = {ssip}
  Currencies = {uno1}
  CALC_PRECISION = 1
  RATE = 1
  Rates = {1}
  ThisPool = ssip
  UNO = uno1
  ACC_UNO_PRECISION = 1
  InitialUno = 3
  InitialLockTime = 1
  InitialMultiplier = 0
  InitialMinLPCapital = 1
  InitialMLR = 1
  InitialRewarder = FALSE
  InitialRewards = 0
  Amounts = {1, 2}
  LpAmounts = {1}
  Times = {0, 1}
  MaxCapital = 3
  Members = {x, y}
  MaxAssertions = 2
INVARIANT PaidOnce
CHECK_DEADLOCK FALSE
