SPECIFICATION Spec
CONSTANTS
    Requests <- MCRequests
    Sizes <- MCSizes
INVARIANTS
    TypeOK
    AcceptedIsComplete
    ConfiguredIsAccepted
    AnswersTheRequest
    ExportedIsFresh
CHECK_DEADLOCK FALSE
