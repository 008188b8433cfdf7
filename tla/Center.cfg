SPECIFICATION CenterSpec
CONSTANTS
    Hosts = {"a", "b"}
    Ports = {"8080"}
    Paths = {"/", "/sse"}
    BadEndpoints = {malformed}
    NoServer = NoServer
    malformed = malformed
    Nodes = {n1, n2}
    Registrars = {n1}
    Keys = {k1}
    Endpoints <- OneServerTwoSchemes
    Ids = {1}
    OperatorOps = {"edit", "retire"}
    MaxStarts <- RegistrarRestarts
    BusCapacity = 1
    Clients = {c1}
    Announcements <- Announced
CHECK_DEADLOCK FALSE
INVARIANT
    CacheHoldsPublished
PROPERTY
    SessionsHold
