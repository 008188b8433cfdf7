---------------------------- MODULE ProxySession ----------------------------
(***************************************************************************)
(* Sessions of MCP clients with registered servers, through a cluster of   *)
(* replicas: ConnectionService opens the stream on one replica and passes  *)
(* the server's announcement on, MessageService of any replica forwards    *)
(* the messages.  Each looks the server up in its own replica's cache,     *)
(* whose changes are those of RoutingView.                                 *)
(***************************************************************************)
EXTENDS ProxyPath, FiniteSets

CONSTANTS
    Nodes,          \* replicas
    Keys,           \* (name, tag) pairs
    Endpoints,      \* endpoints in use: those a cache can hold
    None,           \* no entry
    Rebindable,     \* whether operators edit endpoints
    Clients,        \* MCP clients, and the ids of their sessions
    Announcements   \* what servers announce: a path, and whether parameters
                    \* follow the session id

ASSUME ProxySessionAssumption ==
    /\ Endpoints \subseteq GoodEndpoints
    /\ None \notin Endpoints
    /\ Rebindable \in BOOLEAN
    /\ \A a \in Announcements : a.path \in Seq(STRING) /\ a.more \in BOOLEAN

VARIABLES
    published,      \* see RoutingView
    view,           \* view[n][k]: the endpoint in replica n's cache
    session,        \* session[c]: the stream of client c
    posted          \* posted[c]: what became of its last message

vars == <<published, view, session, posted>>

RV == INSTANCE RoutingView
-----------------------------------------------------------------------------
Announced(c, a) == [path |-> a.path, query |-> [sid |-> c, more |-> a.more]]

NoSession == [node |-> "no session"]
NotPosted == [status |-> "not posted"]

Init ==
    /\ RV!Init
    /\ session = [c \in Clients |-> NoSession]
    /\ posted = [c \in Clients |-> NotPosted]

(* Caches change under the sessions. *)
TableOrCacheChanges ==
    /\ \/ \E k \in Keys, e \in Endpoints : RV!Publish(k, e)
       \/ \E n \in Nodes, k \in Keys, e \in Endpoints : RV!Learn(n, k, e)
    /\ UNCHANGED <<session, posted>>

(* Mutant: the cache is cleared under running streams, to be read anew. *)
ClearCache(n) == RV!Forget(n) /\ UNCHANGED <<session, posted>>

(* A replica's process ends, and the streams it relays with it. *)
Restart(n) ==
    /\ RV!Forget(n)
    /\ session' = [c \in Clients |->
                      IF session[c].node = n THEN NoSession ELSE session[c]]
    /\ posted' = [c \in Clients |->
                     IF session[c].node = n THEN NotPosted ELSE posted[c]]

(* Mutant: the tag is not looked at. *)
load_any_tag(n, k) ==
    parse_endpoint(view[n][CHOOSE j \in Keys : view[n][j] # None])

load_server_info(n, k) == parse_endpoint(view[n][k])

(* GET /proxy/connect/{name}/{tag} at replica n: the entry of its cache is *)
(* the upstream.  Without an entry the answer is 500, and without an       *)
(* answer from the upstream the handler panics and the connection is       *)
(* closed: stuttering steps, the client has no session.                    *)
Connect(c, n, k) ==
    /\ session[c] = NoSession
    /\ view[n][k] # None
    /\ session' = [session EXCEPT ![c] =
           [node |-> n, key |-> k, server |-> load_server_info(n, k)]]
    /\ UNCHANGED <<published, view, posted>>

HasUrl(c) == "url" \in DOMAIN session[c]

(* The upstream's first event, rewritten by the relay; StreamRelay says    *)
(* when.                                                                   *)
Announce(c, a) ==
    /\ session[c] # NoSession
    /\ ~HasUrl(c)
    /\ session' = [session EXCEPT ![c] =
           [node      |-> @.node, key |-> @.key, server |-> @.server,
            announced |-> Announced(c, a),
            url       |-> build_proxy_message_path(@.key, Announced(c, a))]]
    /\ UNCHANGED <<published, view, posted>>

(* POST to the announced path, at any replica. *)
PostNotRouted(c, n) ==
    /\ HasUrl(c)
    /\ ~Routes(session[c].url)
    /\ posted' = [posted EXCEPT ![c] = [status |-> "not routed", node |-> n]]
    /\ UNCHANGED <<published, view, session>>

PostRefused(c, n) ==
    /\ HasUrl(c)
    /\ Routes(session[c].url)
    /\ view[n][parse_message_router(session[c].url).key] = None
    /\ posted' = [posted EXCEPT ![c] = [status |-> "refused", node |-> n]]
    /\ UNCHANGED <<published, view, session>>

PostForwarded(c, n) ==
    LET router == parse_message_router(session[c].url)
        server == load_server_info(n, router.key)
    IN  /\ HasUrl(c)
        /\ Routes(session[c].url)
        /\ view[n][router.key] # None
        /\ posted' = [posted EXCEPT ![c] =
               [status |-> "forwarded", node |-> n,
                to     |-> build_raw_message_path(server, router.sub_path,
                                                  session[c].url.query)]]
        /\ UNCHANGED <<published, view, session>>

(* Either side closes the stream. *)
Disconnect(c) ==
    /\ session[c] # NoSession
    /\ session' = [session EXCEPT ![c] = NoSession]
    /\ posted' = [posted EXCEPT ![c] = NotPosted]
    /\ UNCHANGED <<published, view>>

Next ==
    \/ TableOrCacheChanges
    \/ \E n \in Nodes : Restart(n)
    \/ \E c \in Clients, n \in Nodes :
          \/ \E k \in Keys : Connect(c, n, k)
          \/ PostNotRouted(c, n)
          \/ PostRefused(c, n)
          \/ PostForwarded(c, n)
    \/ \E c \in Clients :
          \/ \E a \in Announcements : Announce(c, a)
          \/ Disconnect(c)

Spec == Init /\ [][Next]_vars
-----------------------------------------------------------------------------
Forwarded(c) == posted[c].status = "forwarded"

(* The URL the server means by a path that starts with a slash. *)
Resolved(server, announced) ==
    [scheme |-> server.scheme,
     host   |-> server.host,
     port   |-> server.port,
     path   |-> announced.path,
     query  |-> announced.query]

(* What the conversions keep: one slash at the start, none at the end, and *)
(* nothing behind the session id.                                          *)
Plain(announced) ==
    /\ announced.path = Rooted(TrimBoth(announced.path))
    /\ ~announced.query.more

(* While its key has been bound to one endpoint only, a message sent       *)
(* through any replica, however its cache was loaded, reaches the very URL *)
(* that the server of the session announced, if that path is plain and the *)
(* server listens on its scheme's port.                                    *)
MessageReachesSession ==
    \A c \in Clients :
        /\ Forwarded(c)
        /\ Cardinality({p \in published : p[1] = session[c].key}) = 1
        /\ Plain(session[c].announced)
        /\ session[c].server.port = DefaultPort(session[c].server.scheme)
        => posted[c].to = Resolved(session[c].server, session[c].announced)

(* A message sent through the replica that relays the session's stream is  *)
(* never refused for want of an entry, whatever edits and listings arrive  *)
(* between the two requests.                                               *)
HomeReplicaNeverRefuses ==
    \A c \in Clients :
        posted[c].status = "refused" => posted[c].node # session[c].node

(* Edits and other replicas' caches may move a session's messages to       *)
(* another host, but only to one that its key was bound to an endpoint of, *)
(* by the scheme of that endpoint; they still name the session, and leave  *)
(* for the port of the scheme, even if the endpoint has one of its own.    *)
MessageStaysWithHosts ==
    \A c \in Clients : Forwarded(c) =>
        /\ posted[c].to.query.sid = c
        /\ \E e \in Endpoints :
              /\ <<session[c].key, e>> \in published
              /\ posted[c].to.scheme = e.scheme
              /\ posted[c].to.host = e.host
              /\ posted[c].to.port = DefaultPort(e.scheme)

(* The only announcements whose message path cannot be routed are those of *)
(* slashes alone.                                                          *)
OnlyRootIsLost ==
    \A c \in Clients :
        posted[c].status = "not routed" => NonEmpty(session[c].announced.path) = {}

(* API.md:136, "This endpoint forwards messages to the corresponding path  *)
(* of the specified MCP server": a forwarded message goes to the address   *)
(* of the server it was looked up for.                                     *)
MessageGoesToServer ==
    \A c \in Clients : Forwarded(c) =>
        \E e \in Endpoints :
            /\ <<session[c].key, e>> \in published
            /\ posted[c].to.host = e.host
            /\ posted[c].to.port = parse_endpoint(e).port
=============================================================================
