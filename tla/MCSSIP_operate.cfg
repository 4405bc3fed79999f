SPECIFICATION AdministeredSpec
CONSTANTS
  u1 = u1  u2 = u2  holder = holder  nobody = nobody  ssip = ssip  uno1 = uno1
  Users = {u1}
  ONE = 2
  MaxTime = 1
  Quotes <- OneQuote
  Holders = {holder}
  NoOwner = nobody
  MaxDeadline = 10
  MaxPolicies = 1
  Pools = {ssip}
  Currencies = {uno1}
  CALC_PRECISION = 1
  RATE = 1
  Rates = {1}
  ThisPool = ssip
  UNO = uno1
  ACC_UNO_PRECISION = 2
  InitialUno = 2
  InitialLockTime = 0
  InitialMultiplier = 1
  InitialMinLPCapital = 1
  InitialMLR = 1
  InitialRewarder = TRUE
  InitialRewards = 0
  Amounts = {2}
  LpAmounts = {2}
  Times = {1}
  MaxCapital = 3
PROPERTY PausedPoolHolds
CHECK_DEADLOCK FALSE
