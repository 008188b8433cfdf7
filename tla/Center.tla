------------------------------- MODULE Center -------------------------------
(***************************************************************************)
(* The whole way of a message, from the registration of a server to the    *)
(* request it is forwarded with: the tasks and handlers of ServerCache, and *)
(* MCP clients whose connections and messages look servers up in the       *)
(* caches those tasks write (mc-service/src/reverse_proxy).                *)
(***************************************************************************)
EXTENDS ServerCache, Sequences

CONSTANTS
    Clients,        \* MCP clients, and the ids of their sessions
    Announcements   \* what servers announce, as in ProxySession

ASSUME CenterAssumption ==
    \A a \in Announcements : a.path \in Seq(STRING) /\ a.more \in BOOLEAN

VARIABLES session, posted       \* as in ProxySession

sessionVars == <<session, posted>>
centerVars == <<vars, sessionVars>>

(* Bindings and endpoints that a cache can hold. *)
Sound == {p \in published : Parses(p[2])}

(* Sessions over routing views, with the caches for the views. *)
PS == INSTANCE ProxySession WITH
        None       <- NoServer,
        Endpoints  <- Endpoints \cap GoodEndpoints,
        Rebindable <- ~StableTable,
        published  <- Sound,
        view       <- View
-----------------------------------------------------------------------------
CenterInit ==
    /\ Init
    /\ session = [c \in Clients |-> PS!NoSession]
    /\ posted = [c \in Clients |-> PS!NotPosted]

(* The handlers of reverse_proxy run in a process that serves. *)

load_server_info(n, k) == cache[n][k]

Connect(c, n, k) ==
    /\ up[n]
    /\ session[c] = PS!NoSession
    /\ load_server_info(n, k) # NoServer
    /\ session' = [session EXCEPT ![c] =
           [node |-> n, key |-> k, server |-> load_server_info(n, k)]]
    /\ UNCHANGED <<vars, posted>>

(* A message is routed by its path and looked up like a connection. *)
Message(c, n, status) ==
    /\ up[n]
    /\ PS!HasUrl(c)
    /\ posted' = [posted EXCEPT ![c] = status]
    /\ UNCHANGED <<vars, session>>

PostNotRouted(c, n) ==
    /\ Message(c, n, [status |-> "not routed", node |-> n])
    /\ ~PS!Routes(session[c].url)

PostRefused(c, n) ==
    /\ Message(c, n, [status |-> "refused", node |-> n])
    /\ PS!Routes(session[c].url)
    /\ load_server_info(n, PS!parse_message_router(session[c].url).key) = NoServer

PostForwarded(c, n) ==
    LET router == PS!parse_message_router(session[c].url)
        server == load_server_info(n, router.key)
    IN  /\ PS!HasUrl(c)
        /\ PS!Routes(session[c].url)
        /\ server # NoServer
        /\ Message(c, n, [status |-> "forwarded", node |-> n,
               to |-> PS!build_raw_message_path(server, router.sub_path,
                                                session[c].url.query)])

(* The upstream announces its message path, or either side closes. *)
StreamChanges(c) ==
    /\ UNCHANGED vars
    /\ (\E a \in Announcements : PS!Announce(c, a)) \/ PS!Disconnect(c)

(* A process ends, and the streams it relays with it. *)
ProcessEnds(n) ==
    /\ Stop(n)
    /\ session' = [c \in Clients |->
                      IF session[c].node = n THEN PS!NoSession ELSE session[c]]
    /\ posted' = [c \in Clients |->
                     IF session[c].node = n THEN PS!NotPosted ELSE posted[c]]

(* Registrations, events, listings and operators run beside the sessions. *)
CacheChanges ==
    /\ \/ \E n \in Nodes : Start(n) \/ Registration(n) \/ EventTask(n) \/ SyncTask(n)
       \/ \E op \in OperatorOps : Operator(op)
    /\ UNCHANGED sessionVars

CenterNext ==
    \/ CacheChanges
    \/ \E n \in Nodes : ProcessEnds(n)
    \/ \E c \in Clients, n \in Nodes :
          \/ \E k \in Keys : Connect(c, n, k)
          \/ PostNotRouted(c, n)
          \/ PostRefused(c, n)
          \/ PostForwarded(c, n)
    \/ \E c \in Clients : StreamChanges(c)

CenterSpec == CenterInit /\ [][CenterNext]_centerVars
-----------------------------------------------------------------------------
(* The center implements ProxySession: what connections and messages get   *)
(* from caches that two tasks write at any moment is what they would get   *)
(* from the routing views, restarts and operators' edits included.         *)
SessionsHold == PS!Spec
=============================================================================
