SPECIFICATION Spec
CONSTANTS
    Artifacts <- MCArtifacts
    MaxRepetitions = 2
    MaxNamed = 2
    MaxTransactions = 2
    MaxTotalWei = 11
    L1Reserve = 3
    Quotes <- MCQuotes
    L2Fees <- MCL2Fees
    L1Fees <- MCL1Fees
INVARIANTS
    TypeOK
    SpendsOnlyReservations
    ValidatedTotalIsWhatTheWalletLost
    ValidatedBundleIsWhole
    ValidatedFeesAreFinal
PROPERTIES
    PublicationEnds
    ImplementsLedger
CHECK_DEADLOCK FALSE
