SPECIFICATION Spec
CONSTANTS
    Campaigns <- TwoCampaigns
    Cells <- MCCells
    InvalidCells <- MCInvalidCells
    Repetitions = 1
    InvalidRepetitions = 1
    PrimerRuns = 0
PROPERTIES
    EvidenceIsNotOverwritten
CHECK_DEADLOCK FALSE
