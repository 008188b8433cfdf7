SPECIFICATION Spec
CONSTANTS
    Hosts = {"a", "b"}
    Ports = {"8080"}
    Paths = {"/", "/sse"}
    BadEndpoints = {malformed}
    malformed = malformed
    NoServer = NoServer
    Nodes = {n1}
    Registrars = {n1}
    Keys = {k1}
    Endpoints <- TwoServers
    Ids = {1, 2}
    OperatorOps = {"retire"}
    MaxStarts <- NoRestart
    BusCapacity = 1
CHECK_DEADLOCK FALSE
INVARIANT
    DeletedNeverReplacesLive
