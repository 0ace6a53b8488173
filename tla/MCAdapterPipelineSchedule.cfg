SPECIFICATION Spec
CONSTANTS
    Requests <- MCRequests
    Sizes <- MCSizes
INVARIANTS
    ScheduleIsOptIn
CHECK_DEADLOCK FALSE
