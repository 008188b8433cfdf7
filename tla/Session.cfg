SPECIFICATION Spec
CONSTANTS
    Hosts = {"a", "b"}
    Ports = {"8080"}
    Paths = {"/", "/sse"}
    BadEndpoints = {}
    None = None
    Nodes = {n1, n2}
    Keys = {k1, k2}
    Endpoints <- ThreeSites
    Rebindable = TRUE
    Clients = {c1}
    Announcements <- EverySortOfPath
SYMMETRY ReplicaSymmetry
INVARIANTS
    MessageReachesSession
    OnlyRootIsLost
    HomeReplicaNeverRefuses
    MessageStaysWithHosts
