---------------------------- MODULE CenterProofs ----------------------------
(***************************************************************************)
(* Theorems about Center: the tasks, handlers and sessions of a cluster    *)
(* together implement ProxySession, so what is proved of sessions over     *)
(* routing views holds of them.                                            *)
(***************************************************************************)
EXTENDS Center, ServerCacheProofs

(* Sessions have keys, and URLs with their keys. *)
KeyInv ==
    /\ DOMAIN session = Clients
    /\ \A c \in Clients :
          session[c] # PS!NoSession =>
              /\ session[c].key \in Keys
              /\ PS!HasUrl(c) => session[c].url.key = session[c].key

CenterInv == RoutingInv /\ KeyInv
-----------------------------------------------------------------------------
(* The caches under the sessions. *)

LEMMA CacheStep == [CenterNext]_centerVars => [Next]_vars
<1>1. CASE CacheChanges
  BY <1>1, ZenonT(60) DEF CacheChanges, Next, Process
<1>2. ASSUME NEW n \in Nodes, ProcessEnds(n) PROVE Next
  BY <1>2, ZenonT(60) DEF ProcessEnds, Next, Process
<1> QED
  BY <1>1, <1>2, ZenonT(60) DEF CenterNext, Connect, PostNotRouted, PostRefused,
     PostForwarded, Message, StreamChanges, centerVars

(* No step beside the end of a process is one. *)
LEMMA NothingElseStops ==
    ASSUME TypeOK, CacheChanges, NEW n \in Nodes
    PROVE  ~Stop(n)
<1>1. ASSUME NEW m \in Nodes, Start(m) PROVE \A p \in Nodes : up[p] => up'[p]
  BY <1>1 DEF TypeOK, Start
<1>2. ASSUME NEW m \in Nodes, Registration(m) PROVE up' = up
  BY <1>2 DEF Registration, Register, RegisterReturns, RegisterAbandoned, SendEvent
<1>3. ASSUME NEW m \in Nodes, EventTask(m) PROVE up' = up
  BY <1>3 DEF EventTask, ApplyEvent, EventTaskEnds
<1>4. ASSUME NEW m \in Nodes, SyncTask(m) PROVE up' = up
  BY <1>4 DEF SyncTask, ListAll, TakeRow, SyncReturns, WriteRow, EndPass
<1>5. ASSUME NEW op \in OperatorOps, Operator(op) PROVE up' = up
  BY <1>5 DEF Operator, OperatorEdit, OperatorRetire
<1>6. \A p \in Nodes : up[p] => up'[p]
  BY <1>1, <1>2, <1>3, <1>4, <1>5 DEF CacheChanges
<1> QED
  BY <1>6 DEF Stop, TypeOK

(* What a lookup gets is the parse of what the view has. *)
LEMMA Lookup ==
    ASSUME RoutingInv, NEW n \in Nodes, NEW k \in Keys
    PROVE  /\ (View[n][k] = NoServer) <=> (load_server_info(n, k) = NoServer)
           /\ load_server_info(n, k) # NoServer =>
                 load_server_info(n, k) = PS!load_server_info(n, k)
<1>1. View[n][k] = IF Cached(n, k) THEN cache[n][k].endpoint ELSE NoServer
  BY DEF View
<1>2. CASE Cached(n, k)
  <2>1. cache[n][k] \in McpServerInfo
    BY <1>2 DEF RoutingInv, TypeInv, TypeOK, Cached
  <2>2. cache[n][k].endpoint # NoServer
    BY <2>1, ServerCacheAssumption DEF McpServerInfo
  <2>3. cache[n][k] = parse_endpoint(cache[n][k].endpoint)
    BY <1>2 DEF RoutingInv, SourcesInv, CacheHoldsPublished
  <2> QED
    BY <1>1, <1>2, <2>2, <2>3 DEF load_server_info, Cached, PS!load_server_info,
       parse_endpoint, DefaultPort, Omitted, PS!parse_endpoint, PS!DefaultPort, PS!Omitted
<1>3. CASE ~Cached(n, k)
  BY <1>1, <1>3 DEF load_server_info, Cached
<1> QED
  BY <1>2, <1>3

(* The tasks and handlers change what sessions see as a routing view does. *)

LEMMA LearnStep ==
    ASSUME NEW n \in Nodes, NEW k \in Keys, NEW e \in Endpoints,
           Parses(e), RV!Learn(n, k, e)
    PROVE  PS!RV!Learn(n, k, e) /\ e \in Endpoints \cap GoodEndpoints
  BY DEF RV!Learn, PS!RV!Learn, Sound, Parses

LEMMA PublishStep ==
    ASSUME NEW k \in Keys, NEW e \in Endpoints, RV!Publish(k, e)
    PROVE  \/ UNCHANGED <<Sound, View>>
           \/ PS!RV!Publish(k, e) /\ e \in Endpoints \cap GoodEndpoints
<1>1. CASE ~Parses(e)
  <2>1. Sound' = Sound
    BY <1>1 DEF RV!Publish, Sound
  <2> QED
    BY <2>1 DEF RV!Publish
<1>2. CASE Parses(e)
  <2>1. Sound' = Sound \cup {<<k, e>>}
    BY <1>2 DEF RV!Publish, Sound
  <2>2. StableTable => ~PS!RV!Bound(k)
    BY DEF RV!Publish, RV!Bound, PS!RV!Bound, Sound
  <2> QED
    BY <1>2, <2>1, <2>2 DEF RV!Publish, PS!RV!Publish, Parses
<1> QED
  BY <1>1, <1>2

LEMMA CacheChangesStep ==
    ASSUME RoutingInv, CacheChanges
    PROVE  PS!TableOrCacheChanges \/ UNCHANGED <<Sound, View, session, posted>>
<1>1. TypeInv /\ TypeOK /\ SourcesInv
  BY DEF RoutingInv, TypeInv
<1>2. UNCHANGED <<session, posted>>
  BY DEF CacheChanges, sessionVars
<1>3. CASE UNCHANGED <<published, cache>>
  BY <1>2, <1>3 DEF Sound, View, Cached
<1>4. ASSUME NEW n \in Nodes, NEW k \in Keys, Stores(n, k), UNCHANGED published
      PROVE  PS!TableOrCacheChanges
  <2>1. PICK e \in Endpoints : Parses(e) /\ RV!Learn(n, k, e)
    BY <1>1, <1>4, StoreLearns
  <2> QED
    BY <1>2, <2>1, LearnStep DEF PS!TableOrCacheChanges
<1>5. ASSUME NEW k \in Keys, NEW e \in Endpoints, RV!Publish(k, e)
      PROVE  PS!TableOrCacheChanges \/ UNCHANGED <<Sound, View, session, posted>>
  BY <1>2, <1>5, PublishStep DEF PS!TableOrCacheChanges
<1>6. ASSUME NEW n \in Nodes, NEW i \in Ids, NEW k \in Keys, NEW e \in Endpoints,
             Register(n, i, k, e)
      PROVE  RV!Publish(k, e)
  BY <1>6, RegisterPublishes
<1>7. ASSUME ~StableTable, NEW r \in rows, NEW e \in Endpoints, OperatorEdit(r, e)
      PROVE  r.key \in Keys /\ RV!Publish(r.key, e)
  BY <1>1, <1>7, EditPublishes
<1>8. [Next]_vars
  BY CacheStep DEF CenterNext
<1> QED
  BY <1>1, <1>3, <1>4, <1>5, <1>6, <1>7, <1>8, NothingElseStops, RoutingSteps
-----------------------------------------------------------------------------
(* The steps of sessions. *)

LEMMA ProcessEndsStep ==
    ASSUME RoutingInv, NEW n \in Nodes, ProcessEnds(n)
    PROVE  PS!Restart(n)
<1>1. RV!Forget(n)
  BY StopForgets DEF ProcessEnds, RoutingInv, TypeInv
<1>2. published' = published
  BY DEF ProcessEnds, Stop
<1>3. PS!RV!Forget(n)
  BY <1>1, <1>2 DEF RV!Forget, RV!Unrouted, PS!RV!Forget, PS!RV!Unrouted, Sound
<1> QED
  BY <1>3 DEF ProcessEnds, PS!Restart, PS!NoSession, PS!NotPosted

LEMMA VarsUnchanged ==
    ASSUME UNCHANGED vars
    PROVE  UNCHANGED <<Sound, View>>
  BY DEF vars, Sound, View, Cached

LEMMA ConnectStep ==
    ASSUME RoutingInv, NEW c \in Clients, NEW n \in Nodes, NEW k \in Keys, Connect(c, n, k)
    PROVE  PS!Connect(c, n, k)
<1>1. UNCHANGED <<Sound, View>>
  BY VarsUnchanged DEF Connect
<1>2. View[n][k] # NoServer /\ load_server_info(n, k) = PS!load_server_info(n, k)
  BY Lookup DEF Connect
<1> QED
  BY <1>1, <1>2 DEF Connect, PS!Connect

LEMMA MessageStep ==
    ASSUME RoutingInv, KeyInv, NEW c \in Clients, NEW n \in Nodes
    PROVE  /\ PostNotRouted(c, n) => PS!PostNotRouted(c, n)
           /\ PostRefused(c, n) => PS!PostRefused(c, n)
           /\ PostForwarded(c, n) => PS!PostForwarded(c, n)
<1> DEFINE router == PS!parse_message_router(session[c].url)
<1>1. ASSUME NEW status, Message(c, n, status) PROVE UNCHANGED <<Sound, View>>
  BY <1>1, VarsUnchanged DEF Message
<1>2. ASSUME PS!HasUrl(c) PROVE router.key \in Keys
  <2>1. session[c] # PS!NoSession
    <3>1. "url" \notin DOMAIN PS!NoSession
      BY DEF PS!NoSession
    <3> QED
      BY <1>2, <3>1 DEF PS!HasUrl
  <2> QED
    BY <1>2, <2>1 DEF KeyInv, PS!parse_message_router
<1>3. PostNotRouted(c, n) => PS!PostNotRouted(c, n)
  BY <1>1 DEF PostNotRouted, Message, PS!PostNotRouted
<1> HIDE DEF router
<1>4. PostRefused(c, n) => PS!PostRefused(c, n)
  <2> SUFFICES ASSUME PostRefused(c, n) PROVE PS!PostRefused(c, n)
    OBVIOUS
  <2>1. PS!HasUrl(c) /\ UNCHANGED <<Sound, View>>
    BY <1>1 DEF PostRefused, Message
  <2>2. View[n][router.key] = NoServer
    BY <1>2, <2>1, Lookup DEF PostRefused, router
  <2> QED
    BY <2>1, <2>2 DEF PostRefused, Message, PS!PostRefused, router
<1>5. PostForwarded(c, n) => PS!PostForwarded(c, n)
  <2> SUFFICES ASSUME PostForwarded(c, n) PROVE PS!PostForwarded(c, n)
    OBVIOUS
  <2>1. PS!HasUrl(c) /\ UNCHANGED <<Sound, View>>
    BY <1>1 DEF PostForwarded, Message
  <2>2. load_server_info(n, router.key) # NoServer
    BY DEF PostForwarded, router
  <2>3. /\ View[n][router.key] # NoServer
        /\ load_server_info(n, router.key) = PS!load_server_info(n, router.key)
    BY <1>2, <2>1, <2>2, Lookup
  <2> QED
    BY <2>1, <2>2, <2>3 DEF PostForwarded, Message, PS!PostForwarded, router
<1> QED
  BY <1>3, <1>4, <1>5

LEMMA CenterStep ==
    ASSUME CenterInv, [CenterNext]_centerVars
    PROVE  [PS!Next]_(PS!vars)
<1>1. RoutingInv /\ KeyInv
  BY DEF CenterInv
<1>2. CASE CacheChanges
  BY <1>1, <1>2, CacheChangesStep DEF PS!Next, PS!vars
<1>3. ASSUME NEW n \in Nodes, ProcessEnds(n) PROVE PS!Next
  BY <1>1, <1>3, ProcessEndsStep DEF PS!Next
<1>4. ASSUME NEW c \in Clients, NEW n \in Nodes,
             \/ \E k \in Keys : Connect(c, n, k)
             \/ PostNotRouted(c, n) \/ PostRefused(c, n) \/ PostForwarded(c, n)
      PROVE  PS!Next
  BY <1>1, <1>4, ConnectStep, MessageStep, ZenonT(60) DEF PS!Next
<1>5. ASSUME NEW c \in Clients, StreamChanges(c) PROVE PS!Next
  BY <1>5 DEF StreamChanges, PS!Next
<1>6. CASE UNCHANGED centerVars
  BY <1>6, VarsUnchanged DEF centerVars, sessionVars, PS!vars
<1> QED
  BY <1>2, <1>3, <1>4, <1>5, <1>6, ZenonT(60) DEF CenterNext

LEMMA CenterStart == CenterInit => PS!Init
<1> SUFFICES ASSUME CenterInit PROVE PS!Init
  OBVIOUS
<1>1. RV!Init
  BY ViewInit DEF CenterInit
<1>2. Sound = {}
  BY DEF CenterInit, Init, Sound
<1>3. PS!RV!Init
  BY <1>1, <1>2 DEF RV!Init, RV!Unrouted, PS!RV!Init, PS!RV!Unrouted
<1> QED
  BY <1>3 DEF CenterInit, PS!Init

LEMMA KeyStart == CenterInit => KeyInv
  BY DEF CenterInit, KeyInv

(* A session that is changed is a new one, or one with the URL of its key. *)
LEMMA KeyStep ==
    ASSUME KeyInv, [CenterNext]_centerVars
    PROVE  KeyInv'
<1> DEFINE Keyed(s) == s # PS!NoSession =>
               s.key \in Keys /\ ("url" \in DOMAIN s => s.url.key = s.key)
<1>1. DOMAIN session = Clients /\ \A c \in Clients : Keyed(session[c])
  BY DEF KeyInv, PS!HasUrl
<1>2. SUFFICES DOMAIN session' = Clients /\ \A c \in Clients : Keyed(session'[c])
  BY DEF KeyInv, PS!HasUrl
<1>3. Keyed(PS!NoSession)
  OBVIOUS
<1>4. ASSUME NEW c \in Clients, NEW s, Keyed(s), session' = [session EXCEPT ![c] = s]
      PROVE  DOMAIN session' = Clients /\ \A d \in Clients : Keyed(session'[d])
  BY <1>1, <1>4
<1>5. ASSUME NEW c \in Clients, NEW n \in Nodes, NEW k \in Keys, Connect(c, n, k)
      PROVE  DOMAIN session' = Clients /\ \A d \in Clients : Keyed(session'[d])
  <2> DEFINE s == [node |-> n, key |-> k, server |-> load_server_info(n, k)]
  <2>1. Keyed(s)
    OBVIOUS
  <2>2. session' = [session EXCEPT ![c] = s]
    BY <1>5 DEF Connect
  <2> QED
    BY <1>4, <2>1, <2>2
<1>6. ASSUME NEW c \in Clients, NEW a \in Announcements, PS!Announce(c, a)
      PROVE  DOMAIN session' = Clients /\ \A d \in Clients : Keyed(session'[d])
  <2> DEFINE k == session[c].key
             s == [node |-> session[c].node, key |-> k, server |-> session[c].server,
                   announced |-> PS!Announced(c, a),
                   url |-> PS!build_proxy_message_path(k, PS!Announced(c, a))]
  <2>1. k \in Keys
    BY <1>1, <1>6 DEF PS!Announce
  <2>2. Keyed(s)
    BY <2>1 DEF PS!build_proxy_message_path
  <2>3. session' = [session EXCEPT ![c] = s]
    BY <1>6 DEF PS!Announce
  <2> QED
    BY <1>4, <2>2, <2>3
<1>7. ASSUME NEW c \in Clients, PS!Disconnect(c)
      PROVE  DOMAIN session' = Clients /\ \A d \in Clients : Keyed(session'[d])
  BY <1>3, <1>4, <1>7 DEF PS!Disconnect
<1>8. ASSUME NEW n \in Nodes, ProcessEnds(n)
      PROVE  DOMAIN session' = Clients /\ \A d \in Clients : Keyed(session'[d])
  BY <1>1, <1>3, <1>8 DEF ProcessEnds
<1>9. CASE UNCHANGED session
  BY <1>1, <1>9
<1> HIDE DEF Keyed
<1>10. \/ UNCHANGED session
       \/ \E n \in Nodes : ProcessEnds(n)
       \/ \E c \in Clients, n \in Nodes, k \in Keys : Connect(c, n, k)
       \/ \E c \in Clients, a \in Announcements : PS!Announce(c, a)
       \/ \E c \in Clients : PS!Disconnect(c)
  BY ZenonT(60) DEF CenterNext, CacheChanges, sessionVars, centerVars, PostNotRouted,
     PostRefused, PostForwarded, Message, StreamChanges
<1> QED
  BY <1>5, <1>6, <1>7, <1>8, <1>9, <1>10

LEMMA CenterInvariance == CenterSpec => []CenterInv
<1>1. CenterInit => CenterInv
  BY RoutingInit, KeyStart DEF CenterInit, CenterInv
<1>2. CenterInv /\ [CenterNext]_centerVars => CenterInv'
  BY CacheStep, RoutingStep, KeyStep DEF CenterInv
<1> QED
  BY <1>1, <1>2, PTL DEF CenterSpec

(* Registrations, events, listings, restarts, operators' edits, connections *)
(* and messages together implement ProxySession: initial states map to its  *)
(* initial states, every step of a task, handler, process, operator or      *)
(* client to one of its steps or a stutter.                                 *)
THEOREM CenterImplementsSessions == CenterSpec => SessionsHold
  BY CenterInvariance, CenterStart, CenterStep, PTL DEF CenterSpec, SessionsHold, PS!Spec
-----------------------------------------------------------------------------
(* What is proved of sessions, about the center: SP is PS with the         *)
(* theorems of SessionProofs.                                              *)

SP == INSTANCE SessionProofs WITH
        None       <- NoServer,
        Endpoints  <- Endpoints \cap GoodEndpoints,
        Rebindable <- ~StableTable,
        published  <- Sound,
        view       <- View

LEMMA SessionAssumptions == SP!ProxySessionAssumption /\ SP!EndpointAssumption
<1>1. SP!EndpointAssumption
  BY EndpointAssumption
  DEF EndpointAssumption, GoodEndpoints, Schemes, Omitted,
      SP!EndpointAssumption, SP!GoodEndpoints, SP!Schemes, SP!Omitted
<1>2. SP!ProxySessionAssumption
  <2>1. SP!GoodEndpoints = GoodEndpoints
    BY DEF GoodEndpoints, Schemes, Omitted, SP!GoodEndpoints, SP!Schemes, SP!Omitted
  <2>2. NoServer \notin GoodEndpoints
    BY ServerCacheAssumption
  <2>3. (~StableTable) \in BOOLEAN
    <3>1. CASE StableTable
      <4>1. (~StableTable) = FALSE
        BY <3>1
      <4> QED
        BY <4>1
    <3>2. CASE ~StableTable
      <4>1. (~StableTable) = TRUE
        BY <3>2
      <4> QED
        BY <4>1
    <3> QED
      BY <3>1, <3>2
  <2> QED
    BY <2>1, <2>2, <2>3, CenterAssumption DEF SP!ProxySessionAssumption, CenterAssumption
<1> QED
  BY <1>1, <1>2

LEMMA SameInit == PS!Init <=> SP!Init
  BY DEF PS!Init, PS!RV!Init, PS!RV!Unrouted, PS!NoSession, PS!NotPosted,
         SP!Init, SP!RV!Init, SP!RV!Unrouted, SP!NoSession, SP!NotPosted

LEMMA SameConversions ==
    /\ \A key, announced : PS!build_proxy_message_path(key, announced)
                            = SP!build_proxy_message_path(key, announced)
    /\ \A server, sub_path, query : PS!build_raw_message_path(server, sub_path, query)
                                     = SP!build_raw_message_path(server, sub_path, query)
    /\ \A url : /\ PS!parse_message_router(url) = SP!parse_message_router(url)
                /\ (PS!Routes(url) <=> SP!Routes(url))
    /\ \A n, k : PS!load_server_info(n, k) = SP!load_server_info(n, k)
    /\ PS!NoSession = SP!NoSession /\ PS!NotPosted = SP!NotPosted
    /\ \A c, a : PS!Announced(c, a) = SP!Announced(c, a)
    /\ \A c : (PS!HasUrl(c) <=> SP!HasUrl(c))
<1>1. \A path : /\ PS!TrimStart(path) = SP!TrimStart(path)
               /\ PS!TrimBoth(path) = SP!TrimBoth(path)
               /\ PS!Rooted(path) = SP!Rooted(path)
  BY DEF PS!TrimStart, PS!TrimBoth, PS!Rooted, PS!NonEmpty, PS!Empty, PS!Min, PS!Max,
         SP!TrimStart, SP!TrimBoth, SP!Rooted, SP!NonEmpty, SP!Empty, SP!Min, SP!Max
<1>2. \A e : /\ PS!DefaultPort(e) = SP!DefaultPort(e)
            /\ PS!parse_endpoint(e) = SP!parse_endpoint(e)
  BY DEF PS!DefaultPort, PS!parse_endpoint, PS!Omitted,
         SP!DefaultPort, SP!parse_endpoint, SP!Omitted
<1> QED
  BY <1>1, <1>2
  DEF PS!build_proxy_message_path, PS!build_raw_message_path, PS!parse_message_router,
      PS!Routes, PS!Empty, PS!load_server_info, PS!NoSession, PS!NotPosted, PS!Announced,
      PS!HasUrl,
      SP!build_proxy_message_path, SP!build_raw_message_path, SP!parse_message_router,
      SP!Routes, SP!Empty, SP!load_server_info, SP!NoSession, SP!NotPosted, SP!Announced,
      SP!HasUrl

LEMMA SameNext == PS!Next <=> SP!Next
<1> USE SameConversions
<1>1. PS!TableOrCacheChanges <=> SP!TableOrCacheChanges
  BY DEF PS!TableOrCacheChanges, PS!RV!Publish, PS!RV!Learn, PS!RV!Bound,
         SP!TableOrCacheChanges, SP!RV!Publish, SP!RV!Learn, SP!RV!Bound
<1>2. \A n : PS!Restart(n) <=> SP!Restart(n)
  BY DEF PS!Restart, PS!RV!Forget, PS!RV!Unrouted, SP!Restart, SP!RV!Forget, SP!RV!Unrouted
<1>3. \A c, n, k : PS!Connect(c, n, k) <=> SP!Connect(c, n, k)
  BY DEF PS!Connect, SP!Connect
<1>4. \A c, n : /\ (PS!PostNotRouted(c, n) <=> SP!PostNotRouted(c, n))
               /\ (PS!PostRefused(c, n) <=> SP!PostRefused(c, n))
               /\ (PS!PostForwarded(c, n) <=> SP!PostForwarded(c, n))
  <2>1. \A c, n : PS!PostNotRouted(c, n) <=> SP!PostNotRouted(c, n)
    BY DEF PS!PostNotRouted, SP!PostNotRouted
  <2>2. \A c, n : PS!PostRefused(c, n) <=> SP!PostRefused(c, n)
    BY DEF PS!PostRefused, SP!PostRefused
  <2>3. \A c, n : PS!PostForwarded(c, n) <=> SP!PostForwarded(c, n)
    BY DEF PS!PostForwarded, SP!PostForwarded
  <2> QED
    BY <2>1, <2>2, <2>3
<1>5. \A c, a : PS!Announce(c, a) <=> SP!Announce(c, a)
  BY DEF PS!Announce, SP!Announce
<1>6. \A c : PS!Disconnect(c) <=> SP!Disconnect(c)
  BY DEF PS!Disconnect, SP!Disconnect
<1> QED
  BY <1>1, <1>2, <1>3, <1>4, <1>5, <1>6, ZenonT(60) DEF PS!Next, SP!Next

LEMMA SameSpec == CenterSpec => SP!Spec
<1>1. [PS!Next]_(PS!vars) => [SP!Next]_(SP!vars)
  BY SameNext DEF PS!vars, SP!vars
<1> QED
  BY <1>1, SameInit, CenterImplementsSessions, PTL DEF SessionsHold, PS!Spec, SP!Spec

LEMMA SameProperties ==
    /\ PS!MessageReachesSession <=> SP!MessageReachesSession
    /\ PS!HomeReplicaNeverRefuses <=> SP!HomeReplicaNeverRefuses
    /\ PS!MessageStaysWithHosts <=> SP!MessageStaysWithHosts
    /\ PS!OnlyRootIsLost <=> SP!OnlyRootIsLost
<1> USE SameConversions
<1>1. \A path : PS!Rooted(PS!TrimBoth(path)) = SP!Rooted(SP!TrimBoth(path))
  BY DEF PS!TrimBoth, PS!Rooted, PS!NonEmpty, PS!Empty, PS!Min, PS!Max,
         SP!TrimBoth, SP!Rooted, SP!NonEmpty, SP!Empty, SP!Min, SP!Max
<1>2. PS!MessageReachesSession <=> SP!MessageReachesSession
  <2>1. \A c : PS!Forwarded(c) <=> SP!Forwarded(c)
    BY DEF PS!Forwarded, SP!Forwarded
  <2>2. \A a : PS!Plain(a) <=> SP!Plain(a)
    BY <1>1, Zenon DEF PS!Plain, SP!Plain
  <2>3. \A server, a : PS!Resolved(server, a) = SP!Resolved(server, a)
    BY Zenon DEF PS!Resolved, SP!Resolved
  <2>4. \A e : PS!DefaultPort(e) = SP!DefaultPort(e)
    BY Zenon DEF PS!DefaultPort, SP!DefaultPort
  <2>5. \A S : PS!Cardinality(S) = SP!Cardinality(S)
    BY Zenon DEF PS!Cardinality, SP!Cardinality
  <2> QED
    BY <2>1, <2>2, <2>3, <2>4, <2>5
    DEF PS!MessageReachesSession, SP!MessageReachesSession
<1>3. PS!HomeReplicaNeverRefuses <=> SP!HomeReplicaNeverRefuses
  BY DEF PS!HomeReplicaNeverRefuses, SP!HomeReplicaNeverRefuses
<1>4. PS!MessageStaysWithHosts <=> SP!MessageStaysWithHosts
  BY DEF PS!MessageStaysWithHosts, PS!Forwarded, PS!DefaultPort,
         SP!MessageStaysWithHosts, SP!Forwarded, SP!DefaultPort
<1>5. PS!OnlyRootIsLost <=> SP!OnlyRootIsLost
  BY DEF PS!OnlyRootIsLost, PS!NonEmpty, SP!OnlyRootIsLost, SP!NonEmpty
<1> QED
  BY <1>2, <1>3, <1>4, <1>5

(* A message that a replica forwards names its session and goes to a host, *)
(* by the scheme and on the scheme's port, that its session's key was      *)
(* registered or edited with, whatever two tasks made of the replica's     *)
(* cache meanwhile.                                                        *)
THEOREM CenterKeepsHosts == CenterSpec => []PS!MessageStaysWithHosts
<1>1. SP!Spec => []SP!MessageStaysWithHosts
  BY SessionAssumptions, SP!MessagesStayWithHosts
<1> QED
  BY <1>1, SameSpec, SameProperties, PTL

(* The replica that relays a session's stream has the entry its messages   *)
(* need until its process ends: no event, listing or edit drops it.        *)
THEOREM CenterHomeServes == CenterSpec => []PS!HomeReplicaNeverRefuses
<1>1. SP!Spec => []SP!HomeReplicaNeverRefuses
  BY SessionAssumptions, SP!HomeReplicaServes
<1> QED
  BY <1>1, SameSpec, SameProperties, PTL

(* While the rows of a key have had one parsable endpoint, every message   *)
(* of its sessions reaches the URL that the server announced, for plain    *)
(* paths of servers at their scheme's port, through every replica.         *)
THEOREM CenterReachesSession == CenterSpec => []PS!MessageReachesSession
<1>1. SP!Spec => []SP!MessageReachesSession
  BY SessionAssumptions, SP!MessagesReachSession
<1> QED
  BY <1>1, SameSpec, SameProperties, PTL

(* The only messages of sessions that no route matches are those for       *)
(* announcements of slashes alone.                                         *)
THEOREM CenterLosesOnlyRoots == CenterSpec => []PS!OnlyRootIsLost
<1>1. SP!Spec => []SP!OnlyRootIsLost
  BY SessionAssumptions, SP!OnlyRootsAreLost
<1> QED
  BY <1>1, SameSpec, SameProperties, PTL
=============================================================================
