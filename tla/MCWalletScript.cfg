SPECIFICATION ScriptSpec

CONSTANTS
    s1 = s1
    s2 = s2
    s3 = s3
    s4 = s4
    Signers = {s1, s2, s3, s4}
    EthersVersion = 5
    First = s1
    Second = s2
    numConfirmationsRequired = 2
    Values = {0, 1}
    MaxTransactions = 8
    MaxDepth = 2
    MaxBalance = 1
    FirstIdx = 1
    MaxRuns = 2
    MaxActs = 4
    MaxCrashes = 1

INVARIANTS ExecutedIsConfirmed CalledOnce OwnCallsOnly InOrder OneRunConfirms UndisturbedGetsThere
PROPERTIES RunEnds

CHECK_DEADLOCK FALSE
