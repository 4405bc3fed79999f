SPECIFICATION Spec
CONSTANTS
  u1 = u1  u2 = u2  u3 = u3
  Users = {u1, u2, u3}
  MaxRuns = 3
  MaxCrashes = 2
INVARIANTS NothingReplaced SecondHalfNeverRuns StakeBacked
PROPERTIES SetupReaches
CHECK_DEADLOCK FALSE
