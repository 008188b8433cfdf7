SPECIFICATION FairSpec
CONSTANT
    Connections = {c1, c2, c3}
PROPERTIES
    TermCutsNothing
    SignalStops
CHECK_DEADLOCK FALSE
