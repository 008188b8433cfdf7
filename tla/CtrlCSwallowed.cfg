SPECIFICATION FairSpec
CONSTANT
    Connections = {c1}
PROPERTY
    CtrlCStops
CHECK_DEADLOCK FALSE
