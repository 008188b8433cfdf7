--------------------------- MODULE MCServerCache ----------------------------
(* Values for the constants of ServerCache. *)
EXTENDS ServerCache, TLC

At(scheme, host, port, path) ==
    [scheme |-> scheme, host |-> host, port |-> port, path |-> path]

\* One server, another one, and the first again behind the other scheme.
sseA == At("http", "a", "8080", "/sse")
sseB == At("http", "b", Omitted, Omitted)
tlsA == At("https", "a", "8080", "/sse")

CONSTANT malformed

OneEndpoint == {sseA}
TwoServers == {sseA, sseB}
OneServerTwoSchemes == {sseA, tlsA}
WithMalformed == {sseB, malformed}

NoRestart == [n \in Nodes |-> 1]
OneRestart == [n \in Nodes |-> 2]

\* Keys and replicas are alike; ids are compared and endpoints differ.
ReplicaSymmetry == Permutations(Keys) \cup Permutations(Nodes)
=============================================================================
