SPECIFICATION Spec
CONSTANTS
    Campaigns <- OneCampaign
    Cells <- MCCells
    InvalidCells <- MCInvalidCells
    Repetitions = 1
    InvalidRepetitions = 1
    PrimerRuns = 1
INVARIANTS
    ValidatedSummaryCoversRaw
CHECK_DEADLOCK FALSE
