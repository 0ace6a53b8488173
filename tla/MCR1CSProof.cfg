SPECIFICATION Spec
CONSTANTS
    Order = 46337
    GensCapacity = 16
    PartyCapacity = 1
    Sessions <- MCAllSessions
    Gadgets <- MCGadgets
    Publics <- MCPublics
    Yields <- MCYields
    Draw <- MCDraw
    Weight = 30011
    Unrelated = 977
INVARIANTS
    VerifiesIffSatisfied
    SystemsAgree
PROPERTIES
    CommittedWiresAreFinal
    ProverIsASystem
    VerifierIsASystem
