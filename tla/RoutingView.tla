---------------------------- MODULE RoutingView -----------------------------
(***************************************************************************)
(* What a cluster of MCP Center replicas promises about routing.           *)
(*                                                                         *)
(* The shared table binds a server key (name, tag) to endpoints.  Every    *)
(* replica routes by a view of its own, which it learns one binding at a   *)
(* time and loses as a whole when its process ends.  A view never holds a  *)
(* binding the table never had, and never drops one key on its own.        *)
(***************************************************************************)
CONSTANTS
    Nodes,          \* the replicas
    Keys,           \* the (name, tag) pairs
    Endpoints,      \* the endpoint texts
    None,           \* a key the view does not route
    Rebindable      \* whether a key may get a second endpoint

VARIABLES
    published,      \* every <<key, endpoint>> the table ever held
    view            \* view[n][k]: the endpoint replica n routes k to

viewVars == <<published, view>>

Unrouted == [k \in Keys |-> None]

Init ==
    /\ published = {}
    /\ view = [n \in Nodes |-> Unrouted]

Bound(k) == \E e \in Endpoints : <<k, e>> \in published

(* The table gets a binding. *)
Publish(k, e) ==
    /\ ~Rebindable => ~Bound(k)
    /\ published' = published \cup {<<k, e>>}
    /\ UNCHANGED view

(* A replica adopts one binding, the newest or an older one. *)
Learn(n, k, e) ==
    /\ <<k, e>> \in published
    /\ view' = [view EXCEPT ![n][k] = e]
    /\ UNCHANGED published

(* A replica's process ends: the view lives in memory only. *)
Forget(n) ==
    /\ view' = [view EXCEPT ![n] = Unrouted]
    /\ UNCHANGED published

Next ==
    \/ \E k \in Keys, e \in Endpoints : Publish(k, e)
    \/ \E n \in Nodes, k \in Keys, e \in Endpoints : Learn(n, k, e)
    \/ \E n \in Nodes : Forget(n)

Spec == Init /\ [][Next]_viewVars
=============================================================================
