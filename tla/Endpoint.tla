------------------------------ MODULE Endpoint ------------------------------
(***************************************************************************)
(* MCP server endpoints and what the cache keeps of them                   *)
(* (mc-common/src/app/cache.rs, mc-common/src/types.rs).                   *)
(*                                                                         *)
(* An endpoint is the text an MCP server was registered with.  It is       *)
(* abstracted to the parts the code tells apart: scheme, host, optional    *)
(* port, optional path.  Any text REGEX_ENDPOINT refuses is one of         *)
(* BadEndpoints.                                                           *)
(***************************************************************************)
EXTENDS Naturals

CONSTANTS
    Hosts,          \* host names, [^/:]+ in the code
    Ports,          \* explicit ports, as the text of their digits
    Paths,          \* explicit paths, "/" among them
    BadEndpoints    \* texts that parse_endpoint refuses

Schemes == {"http", "https"}

Omitted == "omitted"    \* the optional port or path is not in the text

GoodEndpoints == [scheme : Schemes, host : Hosts,
                  port : Ports \cup {Omitted}, path : Paths \cup {Omitted}]

(* McpServerInfo, the value of a cache entry. *)
McpServerInfo == [endpoint : GoodEndpoints, scheme : Schemes, host : Hosts,
                  port : Ports \cup {"80", "443"}, path : Paths \cup {"/"}]

DefaultPort(scheme) == IF scheme = "http" THEN "80" ELSE "443"

Parses(e) == e \in GoodEndpoints

(* Mutant of parse_endpoint: a missing port is kept as it is.              *)
ParseWithoutDefaultPort(e) ==
    [endpoint |-> e,
     scheme   |-> e.scheme,
     host     |-> e.host,
     port     |-> e.port,
     path     |-> IF e.path = Omitted THEN "/" ELSE e.path]

(* Defined for an endpoint that Parses; the code returns Err otherwise. *)
parse_endpoint(e) ==
    [endpoint |-> e,
     scheme   |-> e.scheme,
     host     |-> e.host,
     port     |-> IF e.port = Omitted THEN DefaultPort(e.scheme) ELSE e.port,
     path     |-> IF e.path = Omitted THEN "/" ELSE e.path]

(* impl PartialEq for McpServerInfo: scheme and endpoint are not compared. *)
SameServer(a, b) == a.host = b.host /\ a.port = b.port /\ a.path = b.path

EndpointAssumption ==
    /\ Omitted \notin Ports \cup Paths
    /\ BadEndpoints \cap GoodEndpoints = {}

ASSUME EndpointAssumption
=============================================================================
