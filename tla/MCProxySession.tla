--------------------------- MODULE MCProxySession ---------------------------
(* Values for the constants of ProxySession. *)
EXTENDS ProxySession, TLC

At(scheme, host, port, path) ==
    [scheme |-> scheme, host |-> host, port |-> port, path |-> path]

\* On the scheme's port, on another one, and behind https.
plainA == At("http", "a", Omitted, "/sse")
portA == At("http", "a", "8080", "/sse")
tlsB == At("https", "b", Omitted, Omitted)

ThreeSites == {plainA, portA, tlsB}

Announcing(path, more) == [path |-> path, more |-> more]

\* "/message", "/api/message", "/message/", "//message", "message", "/", and
\* "/message" with a parameter behind the session id
EverySortOfPath == {
    Announcing(<<"", "message">>, FALSE),
    Announcing(<<"", "api", "message">>, FALSE),
    Announcing(<<"", "message", "">>, FALSE),
    Announcing(<<"", "", "message">>, FALSE),
    Announcing(<<"message">>, FALSE),
    Announcing(<<"", "">>, FALSE),
    Announcing(<<"", "message">>, TRUE)}

\* Keys and replicas are alike.
ReplicaSymmetry == Permutations(Keys) \cup Permutations(Nodes)

PlainPath == {Announcing(<<"", "message">>, FALSE)}
=============================================================================
