SPECIFICATION Spec
CONSTANTS
    Order = 46337
    GensCapacity = 4
    PartyCapacity = 1
    Lengths = {1, 2, 3, 4}
    Entries = {0, 1019}
    Factors = {1, 5}
    Challenges = {211, 3001}
    Unrelated = 977
INVARIANTS
    RoundsKeepTheClaim
    ScalarsFoldTheGenerators
    HonestProofsVerify
    OnlyTheProvedClaimVerifies
CHECK_DEADLOCK FALSE
