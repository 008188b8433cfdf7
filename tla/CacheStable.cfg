SPECIFICATION Spec
CONSTANTS
    Hosts = {"a", "b"}
    Ports = {"8080"}
    Paths = {"/", "/sse"}
    BadEndpoints = {malformed}
    malformed = malformed
    NoServer = NoServer
    Nodes = {n1, n2}
    Registrars = {n1, n2}
    Keys = {k1, k2}
    Endpoints <- WithMalformed
    Ids = {1, 2}
    OperatorOps = {}
    MaxStarts <- OneRestart
    BusCapacity = 1
CHECK_DEADLOCK FALSE
SYMMETRY ReplicaSymmetry
INVARIANTS
    TypeOK
    CacheAgreesWithTable
    PassLoadsItsListing
    EmptyReplicaStillSyncs
PROPERTY
    RoutingViewHolds
