SPECIFICATION FairSpec
CONSTANTS
    Bodies <- TextBodies
    Capacity = 2
CHECK_DEADLOCK FALSE
INVARIANTS
    TypeOK
    RelayIsFifo
    CleanEndIsComplete
    SessionStreamIntact
PROPERTIES
    StreamHolds
    RequestIsAnswered
    RelayFinishes
    RelayNoticesHangUp
