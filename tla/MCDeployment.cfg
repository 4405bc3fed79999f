SPECIFICATION FairSpec
CONSTANTS
  Directories <- AllDirectories
  MaxChanges = 1
  MaxCrashes = 1
  MaxTagged = 1
  Tags = {"UnoRe", "ExchangeAgent", "CapitalAgent"}
INVARIANTS OneSystem PoolsShareAgent FullRunIsCurrent
PROPERTIES Promise EventuallyCurrent
CHECK_DEADLOCK FALSE
