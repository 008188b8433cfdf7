------------------------------ MODULE MCCenter ------------------------------
(* Values for the constants of Center. *)
EXTENDS Center

At(scheme, host, port, path) ==
    [scheme |-> scheme, host |-> host, port |-> port, path |-> path]

CONSTANT malformed

\* The scheme alone differs.
OneServerTwoSchemes == {At("http", "a", "8080", "/sse"), At("https", "a", "8080", "/sse")}

\* Only a replica that takes registrations is restarted.
RegistrarRestarts == [n \in Nodes |-> IF n \in Registrars THEN 2 ELSE 1]

\* "/message" with a parameter behind the session id, and "/"
Announced == {[path |-> <<"", "message">>, more |-> TRUE], [path |-> <<"", "">>, more |-> FALSE]}
=============================================================================
