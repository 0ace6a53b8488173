SPECIFICATION Spec
CONSTANTS
    CoarsePhases <- MCCoarsePhases
    Scripts <- MCScripts
    Request <- MCRequest
    Levels <- MCLevels
    MaxSwap = 1
    MaxCaptures <- MCMaxCaptures
    NoSample = NoSample
INVARIANTS
    TypeOK
    SwapVerdictCoversAdapter
    MinimumBelowEnds
    AcceptedAnswerIsWholeAndInTime
    NothingLeftRunning
PROPERTIES
    MeasurementsFrozen
    ExecutionEnds
    ImplementsContract
CHECK_DEADLOCK FALSE
