SPECIFICATION FairSpec
CONSTANTS
    Hosts = {"a", "b"}
    Ports = {"8080"}
    Paths = {"/", "/sse"}
    BadEndpoints = {malformed}
    malformed = malformed
    NoServer = NoServer
    Nodes = {n1, n2}
    Registrars = {n1}
    Keys = {k1, k2}
    Endpoints <- WithMalformed
    Ids = {1, 2}
    OperatorOps = {}
    MaxStarts <- NoRestart
    BusCapacity = 1
CHECK_DEADLOCK FALSE
PROPERTIES
    EventTaskSurvives
    AckedIsRouted
    StartLoadsTable
