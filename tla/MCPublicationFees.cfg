SPECIFICATION Spec
CONSTANTS
    Artifacts <- MCArtifacts
    MaxRepetitions = 1
    MaxNamed = 2
    MaxTransactions = 2
    MaxTotalWei = 11
    L1Reserve = 3
    Quotes <- MCQuotes
    L2Fees <- MCL2Fees
    L1Fees <- MCL1Fees
INVARIANTS
    RecordedFeesAreFinal
CHECK_DEADLOCK FALSE
