SPECIFICATION Spec
CONSTANTS
    Hosts = {"a", "b"}
    Ports = {"8080"}
    Paths = {"/", "/sse"}
    BadEndpoints = {}
    None = None
    Nodes = {n1, n2}
    Keys = {k1}
    Endpoints <- ThreeSites
    Rebindable = FALSE
    Clients = {c1}
    Announcements <- PlainPath
INVARIANT
    MessageGoesToServer
