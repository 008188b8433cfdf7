SPECIFICATION FairSpec
CONSTANTS
    Hosts = {"a", "b"}
    Ports = {"8080"}
    Paths = {"/", "/sse"}
    BadEndpoints = {malformed}
    malformed = malformed
    NoServer = NoServer
    Nodes = {n1, n2}
    Registrars = {n1}
    Keys = {k1, k2}
    Endpoints <- OneEndpoint
    Ids = {1, 2}
    OperatorOps = {}
    MaxStarts <- NoRestart
    BusCapacity = 2
CHECK_DEADLOCK FALSE
PROPERTY
    TableIsRouted
