SPECIFICATION RewardsSpec
CONSTANTS
  u1 = u1  u2 = u2  holder = holder  nobody = nobody  ssip = ssip  uno1 = uno1
  Users = {u1, u2}
  ONE = 2
  MaxTime = 3
  Quotes <- OneQuote
  Holders = {holder}
  NoOwner = nobody
  MaxDeadline = 10
  MaxPolicies = 1
  Pools = {ssip}
  Currencies = {uno1}
  CALC_PRECISION = 1
  RATE = 1
  Rates = {1}
  ThisPool = ssip
  UNO = uno1
  ACC_UNO_PRECISION = 2
  InitialUno = 1
  InitialLockTime = 1
  InitialMultiplier = 3
  InitialMinLPCapital = 1
  InitialMLR = 1
  InitialRewarder = TRUE
  InitialRewards = 2
  Amounts = {1, 2}
  LpAmounts = {1}
  Times = {1}
  MaxCapital = 4
SYMMETRY StakerSymmetry
INVARIANTS TypeOK CapitalIsVault
PROPERTY RewardsOnlyFromEmission
CHECK_DEADLOCK FALSE
