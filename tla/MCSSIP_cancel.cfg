SPECIFICATION CapitalSpec
CONSTANTS
  u1 = u1  u2 = u2  holder = holder  nobody = nobody  ssip = ssip  uno1 = uno1
  Users = {u1, u2}
  ONE = 3
  MaxTime = 3
  Quotes <- OneQuote
  Holders = {holder}
  NoOwner = nobody
  MaxDeadline = 10
  MaxPolicies = 1
  Pools = {ssip}
  Currencies = {uno1}
  CALC_PRECISION = 1
  RATE = 1
  Rates = {1}
  ThisPool = ssip
  UNO = uno1
  ACC_UNO_PRECISION = 1
  InitialUno = 3
  InitialLockTime = 1
  InitialMultiplier = 0
  InitialMinLPCapital = 1
  InitialMLR = 1
  InitialRewarder = FALSE
  InitialRewards = 0
  Amounts = {1, 2}
  LpAmounts = {1, 3}
  Times = {1}
  MaxCapital = 20
INVARIANT CancelAlwaysPossible
CHECK_DEADLOCK FALSE
