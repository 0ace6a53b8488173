SPECIFICATION Spec
CONSTANTS
    Campaigns <- OneCampaign
    Cells <- MCCells
    InvalidCells <- MCInvalidCells
    Repetitions = 2
    InvalidRepetitions = 2
    PrimerRuns = 1
INVARIANTS
    TypeOK
    ValidatedRunsAreTheCampaign
    FailureIsLast
    SummaryCountsMeasurementsOnce
PROPERTIES
    CampaignEnds
    ImplementsEvidenceLog
CHECK_DEADLOCK FALSE
