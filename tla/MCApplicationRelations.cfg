SPECIFICATION Spec
CONSTANTS
    Order = 46337
    STATE_UPDATE_BITS = 4
    STATE_HASH_ROUNDS = 2
    Splitmix <- MCSplitmix
    Sessions <- MCSessions
INVARIANTS
    RelationsAcceptThePredicate
