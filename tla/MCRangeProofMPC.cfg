SPECIFICATION Spec
CONSTANTS
    Order = 46337
    GensCapacity = 8
    PartyCapacity = 4
    BitSizes = {1, 2, 8, 16}
    Sessions <- MCSessions
    Draw <- MCDraw
    Yields <- MCYields
    Unrelated = 977
INVARIANTS
    HonestSessionsVerify
    AuditNamesTheDeviants
    VerifiedCommitmentsAreInRange
    AuditedProofsVerify
