SPECIFICATION Spec
CONSTANTS
  p1 = p1  p2 = p2  p3 = p3
  Swaps = {p1, p2, p3}
  Tokens = {"USDC", "UNO"}
  MaxAmount = 2
  MaxFaults = 1
INVARIANTS SpentAsAsked LoneSwapSucceeds SomeoneSwaps
PROPERTIES WaitsOnlyForApi
CHECK_DEADLOCK FALSE
