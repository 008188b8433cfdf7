---------------------------- MODULE SessionProofs ---------------------------
(***************************************************************************)
(* Theorems about ProxySession, for every cluster, any endpoints and       *)
(* whatever servers announce: where messages go, and which are lost.       *)
(***************************************************************************)
EXTENDS ProxySession, WellFoundedInduction, SequenceTheorems, FiniteSetTheorems, TLAPS

(* What a session, and a message, can be. *)
Opened(n, k, e) == [node |-> n, key |-> k, server |-> parse_endpoint(e)]

Named(c, n, k, e, a) ==
    [node      |-> n, key |-> k, server |-> parse_endpoint(e),
     announced |-> Announced(c, a),
     url       |-> build_proxy_message_path(k, Announced(c, a))]

NotRouted(n) == [status |-> "not routed", node |-> n]
Refused(n) == [status |-> "refused", node |-> n]

Sent(n, e, url) ==
    [status |-> "forwarded", node |-> n,
     to     |-> build_raw_message_path(parse_endpoint(e), Rooted(url.rest), url.query)]

(* Views hold published bindings.  *)
ViewInv ==
    /\ published \subseteq Keys \X Endpoints /\ IsFiniteSet(published)
    /\ view \in [Nodes -> [Keys -> Endpoints \cup {None}]]
    /\ \A n \in Nodes, k \in Keys : view[n][k] # None => <<k, view[n][k]>> \in published

(* A session's entry stays in its replica's view, and its server is one    *)
(* that its key was bound to.                                              *)
SessionInv(c) ==
    \/ session[c] = NoSession
    \/ \E n \in Nodes, k \in Keys, e \in Endpoints :
          /\ view[n][k] # None
          /\ <<k, e>> \in published
          /\ \/ session[c] = Opened(n, k, e)
             \/ \E a \in Announcements : session[c] = Named(c, n, k, e, a)

(* A message was sent to the session's URL. *)
PostedInv(c) ==
    \/ posted[c] = NotPosted
    \/ /\ HasUrl(c)
       /\ \E n \in Nodes :
             \/ posted[c] = NotRouted(n) /\ ~Routes(session[c].url)
             \/ posted[c] = Refused(n) /\ n # session[c].node
             \/ \E e \in Endpoints :
                   /\ <<session[c].key, e>> \in published
                   /\ posted[c] = Sent(n, e, session[c].url)

IInv ==
    /\ ViewInv
    /\ DOMAIN session = Clients /\ DOMAIN posted = Clients
    /\ \A c \in Clients : SessionInv(c) /\ PostedInv(c)
-----------------------------------------------------------------------------
(* A session is one thing only: its records have different fields. *)
LEMMA OpenedFields ==
    ASSUME NEW n, NEW k, NEW e
    PROVE  /\ Opened(n, k, e) # NoSession
           /\ "url" \notin DOMAIN Opened(n, k, e)
  BY DEF Opened, NoSession

LEMMA NamedFields ==
    ASSUME NEW c, NEW n, NEW k, NEW e, NEW a
    PROVE  /\ Named(c, n, k, e, a) # NoSession
           /\ "url" \in DOMAIN Named(c, n, k, e, a)
  BY DEF Named, NoSession

LEMMA NoSessionFields == "url" \notin DOMAIN NoSession
  BY DEF NoSession

LEMMA InitInv == Init => IInv
  BY FS_EmptySet DEF Init, RV!Init, RV!Unrouted, IInv, ViewInv, SessionInv, PostedInv

(* The three ways a view changes keep it honest, and none drops the entry  *)
(* of a key but the end of the replica.                                    *)
LEMMA ViewSteps ==
    ASSUME ViewInv,
           \/ \E k \in Keys, e \in Endpoints : RV!Publish(k, e)
           \/ \E n \in Nodes, k \in Keys, e \in Endpoints : RV!Learn(n, k, e)
    PROVE  /\ ViewInv'
           /\ published \subseteq published'
           /\ \A n \in Nodes, k \in Keys : view[n][k] # None => view'[n][k] # None
<1> USE ProxySessionAssumption DEF ViewInv
<1>1. CASE \E k \in Keys, e \in Endpoints : RV!Publish(k, e)
  <2>1. PICK k \in Keys, e \in Endpoints : RV!Publish(k, e)
    BY <1>1
  <2>2. published' = published \cup {<<k, e>>} /\ view' = view
    BY <2>1 DEF RV!Publish
  <2>3. IsFiniteSet(published')
    BY <2>2, FS_AddElement
  <2> QED
    BY <2>2, <2>3
<1>2. CASE \E n \in Nodes, k \in Keys, e \in Endpoints : RV!Learn(n, k, e)
  <2>1. PICK n \in Nodes, k \in Keys, e \in Endpoints : RV!Learn(n, k, e)
    BY <1>2
  <2>2. /\ view' \in [Nodes -> [Keys -> Endpoints \cup {None}]]
        /\ published' = published /\ <<k, e>> \in published
        /\ \A m \in Nodes, j \in Keys :
              view'[m][j] = IF m = n /\ j = k THEN e ELSE view[m][j]
    BY <2>1 DEF RV!Learn
  <2> QED
    BY <2>2
<1> QED
  BY <1>1, <1>2

LEMMA ForgetStep ==
    ASSUME ViewInv, NEW n \in Nodes, RV!Forget(n)
    PROVE  /\ ViewInv'
           /\ published' = published
           /\ \A m \in Nodes \ {n} : view'[m] = view[m]
  BY DEF ViewInv, RV!Forget, RV!Unrouted

(* A session that does not change is kept by any step that keeps its entry *)
(* and forgets no binding.                                                 *)
LEMMA SessionStays ==
    ASSUME NEW c \in Clients, SessionInv(c), PostedInv(c),
           session'[c] = session[c], posted'[c] = posted[c],
           published \subseteq published',
           \A n \in Nodes, k \in Keys :
               session[c].node = n /\ view[n][k] # None => view'[n][k] # None
    PROVE  SessionInv(c)' /\ PostedInv(c)'
<1>1. SessionInv(c)'
  <2>1. CASE session[c] = NoSession
    BY <2>1 DEF SessionInv
  <2>2. ASSUME NEW n \in Nodes, NEW k \in Keys, NEW e \in Endpoints,
               view[n][k] # None, <<k, e>> \in published,
               \/ session[c] = Opened(n, k, e)
               \/ \E a \in Announcements : session[c] = Named(c, n, k, e, a)
        PROVE  SessionInv(c)'
    <3>1. session[c].node = n
      <4>1. CASE session[c] = Opened(n, k, e)
        BY <4>1 DEF Opened
      <4>2. ASSUME NEW a \in Announcements, session[c] = Named(c, n, k, e, a)
            PROVE  session[c].node = n
        BY <4>2 DEF Named
      <4> QED
        BY <2>2, <4>1, <4>2
    <3>2. view'[n][k] # None /\ <<k, e>> \in published'
      BY <2>2, <3>1
    <3> QED
      BY <2>2, <3>2 DEF SessionInv
  <2> QED
    BY <2>1, <2>2 DEF SessionInv
<1>2. PostedInv(c)'
  BY DEF PostedInv, HasUrl
<1> QED
  BY <1>1, <1>2
-----------------------------------------------------------------------------
(* A client without a URL has not posted. *)
LEMMA NotPostedWithoutUrl ==
    ASSUME NEW c \in Clients, PostedInv(c), ~HasUrl(c)
    PROVE  posted[c] = NotPosted
  BY DEF PostedInv

LEMMA UrlOfSession ==
    ASSUME NEW c \in Clients, SessionInv(c), HasUrl(c)
    PROVE  \E n \in Nodes, k \in Keys, e \in Endpoints, a \in Announcements :
              /\ view[n][k] # None
              /\ <<k, e>> \in published
              /\ session[c] = Named(c, n, k, e, a)
<1>1. session[c] # NoSession
  BY NoSessionFields DEF HasUrl
<1>2. PICK n \in Nodes, k \in Keys, e \in Endpoints :
          /\ view[n][k] # None
          /\ <<k, e>> \in published
          /\ \/ session[c] = Opened(n, k, e)
             \/ \E a \in Announcements : session[c] = Named(c, n, k, e, a)
  BY <1>1 DEF SessionInv
<1>3. session[c] # Opened(n, k, e)
  BY OpenedFields DEF HasUrl
<1> QED
  BY <1>2, <1>3

LEMMA StepInv == IInv /\ [Next]_vars => IInv'
<1> SUFFICES ASSUME IInv, [Next]_vars PROVE IInv'
  OBVIOUS
<1> USE DEF IInv
<1>1. CASE TableOrCacheChanges
  <2>1. /\ ViewInv'
        /\ published \subseteq published'
        /\ \A n \in Nodes, k \in Keys : view[n][k] # None => view'[n][k] # None
    BY <1>1, ViewSteps DEF TableOrCacheChanges
  <2>2. UNCHANGED <<session, posted>>
    BY <1>1 DEF TableOrCacheChanges
  <2>3. ASSUME NEW c \in Clients PROVE SessionInv(c)' /\ PostedInv(c)'
    BY <2>1, <2>2, SessionStays
  <2> QED
    BY <2>1, <2>2, <2>3
<1>2. ASSUME NEW n \in Nodes, Restart(n) PROVE IInv'
  <2>1. /\ ViewInv'
        /\ published' = published
        /\ \A m \in Nodes \ {n} : view'[m] = view[m]
    BY <1>2, ForgetStep DEF Restart
  <2>2. ASSUME NEW c \in Clients PROVE SessionInv(c)' /\ PostedInv(c)'
    <3>1. CASE session[c].node = n
      <4>1. session'[c] = NoSession /\ posted'[c] = NotPosted
        BY <1>2, <3>1 DEF Restart
      <4> QED
        BY <4>1 DEF SessionInv, PostedInv
    <3>2. CASE session[c].node # n
      <4>1. session'[c] = session[c] /\ posted'[c] = posted[c]
        BY <1>2, <3>2 DEF Restart
      <4> QED
        BY <2>1, <3>2, <4>1, SessionStays
    <3> QED
      BY <3>1, <3>2
  <2>3. DOMAIN session' = Clients /\ DOMAIN posted' = Clients
    BY <1>2 DEF Restart
  <2> QED
    BY <2>1, <2>2, <2>3
(* The other actions change one client. *)
<1>3. ASSUME NEW c \in Clients,
             DOMAIN session' = Clients, DOMAIN posted' = Clients,
             \A d \in Clients \ {c} : session'[d] = session[d] /\ posted'[d] = posted[d],
             UNCHANGED <<published, view>>, SessionInv(c)', PostedInv(c)'
      PROVE  IInv'
  <2>1. ViewInv'
    BY <1>3 DEF ViewInv
  <2>2. ASSUME NEW d \in Clients, d # c PROVE SessionInv(d)' /\ PostedInv(d)'
    <3>1. session'[d] = session[d] /\ posted'[d] = posted[d]
      BY <1>3, <2>2
    <3> QED
      BY <1>3, <3>1, SessionStays
  <2> QED
    BY <1>3, <2>1, <2>2
<1>4. ASSUME NEW c \in Clients, NEW n \in Nodes, NEW k \in Keys, Connect(c, n, k)
      PROVE  IInv'
  <2>1. view[n][k] \in Endpoints /\ <<k, view[n][k]>> \in published
    BY <1>4 DEF Connect, ViewInv
  <2>2. session'[c] = Opened(n, k, view[n][k])
    BY <1>4 DEF Connect, Opened, load_server_info
  <2>3. posted'[c] = NotPosted
    BY <1>4, NoSessionFields, NotPostedWithoutUrl DEF Connect, HasUrl
  <2>4. SessionInv(c)'
    BY <1>4, <2>1, <2>2 DEF Connect, SessionInv
  <2>5. PostedInv(c)'
    BY <2>3 DEF PostedInv
  <2> QED
    BY <1>3, <1>4, <2>3, <2>4, <2>5 DEF Connect
<1>5. ASSUME NEW c \in Clients, NEW a \in Announcements, Announce(c, a)
      PROVE  IInv'
  <2>1. PICK n \in Nodes, k \in Keys, e \in Endpoints :
            view[n][k] # None /\ <<k, e>> \in published /\ session[c] = Opened(n, k, e)
    <3>1. \A n, k, e, b : session[c] # Named(c, n, k, e, b)
      BY <1>5, NamedFields DEF Announce, HasUrl
    <3> QED
      BY <1>5, <3>1 DEF Announce, SessionInv
  <2>2. session'[c] = Named(c, n, k, e, a)
    BY <1>5, <2>1 DEF Announce, Opened, Named
  <2>3. posted'[c] = NotPosted
    BY <1>5, NotPostedWithoutUrl DEF Announce
  <2>4. SessionInv(c)'
    BY <1>5, <2>1, <2>2 DEF Announce, SessionInv
  <2>5. PostedInv(c)'
    BY <2>3 DEF PostedInv
  <2> QED
    BY <1>3, <1>5, <2>3, <2>4, <2>5 DEF Announce
<1>6. ASSUME NEW c \in Clients, NEW n \in Nodes,
             PostNotRouted(c, n) \/ PostRefused(c, n) \/ PostForwarded(c, n)
      PROVE  IInv'
  <2>1. /\ HasUrl(c)
        /\ UNCHANGED <<published, view, session>>
        /\ \E p : posted' = [posted EXCEPT ![c] = p]
    BY <1>6 DEF PostNotRouted, PostRefused, PostForwarded
  <2>2. PICK m \in Nodes, k \in Keys, e \in Endpoints, a \in Announcements :
            /\ view[m][k] # None
            /\ <<k, e>> \in published
            /\ session[c] = Named(c, m, k, e, a)
    BY <2>1, UrlOfSession
  <2>3. session[c].node = m /\ session[c].key = k /\ session[c].url.key = k
    BY <2>2 DEF Named, build_proxy_message_path
  <2>4. parse_message_router(session[c].url) =
            [key |-> k, sub_path |-> Rooted(session[c].url.rest)]
    BY <2>3 DEF parse_message_router
  <2>5. SessionInv(c)'
    BY <2>1, <2>2 DEF SessionInv
  <2>6. PostedInv(c)'
    <3>1. CASE PostNotRouted(c, n)
      <4>1. posted'[c] = NotRouted(n) /\ ~Routes(session[c].url)
        BY <3>1 DEF PostNotRouted, NotRouted
      <4> QED
        BY <2>1, <4>1 DEF PostedInv, HasUrl
    <3>2. CASE PostRefused(c, n)
      <4>1. posted'[c] = Refused(n) /\ view[n][k] = None
        BY <2>4, <3>2 DEF PostRefused, Refused
      <4>2. n # session[c].node
        BY <2>2, <2>3, <4>1
      <4> QED
        BY <2>1, <4>1, <4>2 DEF PostedInv, HasUrl
    <3>3. CASE PostForwarded(c, n)
      <4>1. view[n][k] # None
        BY <2>4, <3>3 DEF PostForwarded
      <4>2. view[n][k] \in Endpoints /\ <<k, view[n][k]>> \in published
        BY <4>1 DEF ViewInv
      <4>3. posted'[c] = Sent(n, view[n][k], session[c].url)
        BY <2>4, <3>3 DEF PostForwarded, Sent, load_server_info
      <4> QED
        BY <2>1, <2>3, <4>2, <4>3 DEF PostedInv, HasUrl
    <3> QED
      BY <1>6, <3>1, <3>2, <3>3
  <2> QED
    BY <1>3, <2>1, <2>5, <2>6
<1>7. ASSUME NEW c \in Clients, Disconnect(c) PROVE IInv'
  <2>1. SessionInv(c)' /\ PostedInv(c)'
    BY <1>7 DEF Disconnect, SessionInv, PostedInv
  <2> QED
    BY <1>3, <1>7, <2>1 DEF Disconnect
<1>8. CASE UNCHANGED vars
  <2>1. UNCHANGED <<published, view, session, posted>>
    BY <1>8 DEF vars
  <2>2. ViewInv'
    BY <2>1 DEF ViewInv
  <2>3. ASSUME NEW c \in Clients PROVE SessionInv(c)' /\ PostedInv(c)'
    BY <2>1, SessionStays
  <2> QED
    BY <2>1, <2>2, <2>3
<1> QED
  BY <1>1, <1>2, <1>4, <1>5, <1>6, <1>7, <1>8 DEF Next

(* Every behaviour keeps what sessions and messages are made of.           *)
THEOREM SessionInvariant == Spec => []IInv
  BY InitInv, StepInv, PTL DEF Spec
-----------------------------------------------------------------------------
(* What can have become of a message, in terms of its session's record.    *)
LEMMA PostedCases ==
    ASSUME IInv, NEW c \in Clients, posted[c] # NotPosted
    PROVE  /\ \E n \in Nodes, k \in Keys, e \in Endpoints, a \in Announcements :
                 <<k, e>> \in published /\ session[c] = Named(c, n, k, e, a)
           /\ \E m \in Nodes :
                 \/ posted[c] = NotRouted(m) /\ ~Routes(session[c].url)
                 \/ posted[c] = Refused(m) /\ m # session[c].node
                 \/ \E f \in Endpoints :
                       /\ <<session[c].key, f>> \in published
                       /\ posted[c] = Sent(m, f, session[c].url)
<1>1. HasUrl(c)
  BY DEF IInv, PostedInv
<1>2. PICK n \in Nodes, k \in Keys, e \in Endpoints, a \in Announcements :
          <<k, e>> \in published /\ session[c] = Named(c, n, k, e, a)
  BY <1>1, UrlOfSession DEF IInv
<1> QED
  BY <1>2 DEF IInv, PostedInv

LEMMA Statuses ==
    /\ NotPosted.status = "not posted"
    /\ \A n : NotRouted(n).status = "not routed"
    /\ \A n : Refused(n).status = "refused"
    /\ \A n, e, url : Sent(n, e, url).status = "forwarded"
  BY DEF NotPosted, NotRouted, Refused, Sent

(* So what became of a message is told by its status. *)
LEMMA ByStatus ==
    ASSUME NEW p, NEW n
    PROVE  /\ p.status = "refused" => p # NotRouted(n)
           /\ p.status = "not routed" => p # Refused(n)
           /\ p.status \in {"refused", "not routed"} =>
                 \A e, url : p # Sent(n, e, url)
<1>1. NotRouted(n).status = "not routed" /\ Refused(n).status = "refused"
  BY Statuses
<1>2. ASSUME NEW e, NEW url PROVE Sent(n, e, url).status = "forwarded"
  BY Statuses
<1> QED
  BY <1>1, <1>2

(* What is forwarded belongs to a session with a URL.                      *)
LEMMA ForwardedIsSent ==
    ASSUME IInv, NEW c \in Clients, Forwarded(c)
    PROVE  \E n \in Nodes, k \in Keys, e \in Endpoints, f \in Endpoints,
              a \in Announcements :
              /\ session[c] = Named(c, n, k, e, a)
              /\ {<<k, e>>, <<k, f>>} \subseteq published
              /\ posted[c].to = build_raw_message_path(parse_endpoint(f),
                                    Rooted(session[c].url.rest), session[c].url.query)
<1>1. posted[c] # NotPosted
  BY Statuses DEF Forwarded
<1>2. PICK n \in Nodes, k \in Keys, e \in Endpoints, a \in Announcements :
          <<k, e>> \in published /\ session[c] = Named(c, n, k, e, a)
  BY <1>1, PostedCases
<1>3. session[c].key = k
  BY <1>2 DEF Named
<1>4. PICK m \in Nodes, f \in Endpoints :
          <<k, f>> \in published /\ posted[c] = Sent(m, f, session[c].url)
  <2>1. PICK m \in Nodes :
            \/ posted[c] = NotRouted(m) /\ ~Routes(session[c].url)
            \/ posted[c] = Refused(m) /\ m # session[c].node
            \/ \E f \in Endpoints :
                  /\ <<session[c].key, f>> \in published
                  /\ posted[c] = Sent(m, f, session[c].url)
    BY <1>1, PostedCases
  <2>2. posted[c] # NotRouted(m) /\ posted[c] # Refused(m)
    BY Statuses DEF Forwarded
  <2> QED
    BY <1>3, <2>1, <2>2
<1>5. posted[c].to = build_raw_message_path(parse_endpoint(f),
                         Rooted(session[c].url.rest), session[c].url.query)
  BY <1>4 DEF Sent
<1> QED
  BY <1>2, <1>4, <1>5

(* The replica that relays a session's stream never refuses its messages,  *)
(* as a running replica keeps the entries it has.                          *)
THEOREM HomeReplicaServes == Spec => []HomeReplicaNeverRefuses
<1>1. ASSUME IInv, NEW c \in Clients, posted[c].status = "refused"
      PROVE  posted[c].node # session[c].node
  <2>1. posted[c] # NotPosted
    BY <1>1, Statuses
  <2>2. PICK m \in Nodes :
            \/ posted[c] = NotRouted(m)
            \/ posted[c] = Refused(m) /\ m # session[c].node
            \/ \E f \in Endpoints : posted[c] = Sent(m, f, session[c].url)
    BY <1>1, <2>1, PostedCases
  <2>3. posted[c] # NotRouted(m) /\ \A f \in Endpoints : posted[c] # Sent(m, f, session[c].url)
    BY <1>1, ByStatus
  <2>4. posted[c].node = m
    BY <2>2, <2>3 DEF Refused
  <2> QED
    BY <2>2, <2>3, <2>4
<1>2. IInv => HomeReplicaNeverRefuses
  BY <1>1 DEF HomeReplicaNeverRefuses
<1> QED
  BY SessionInvariant, <1>2, PTL

(* A message names its session and goes to the host of an endpoint that    *)
(* its session's key had, by the scheme of it, on the scheme's port.       *)
THEOREM MessagesStayWithHosts == Spec => []MessageStaysWithHosts
<1>1. ASSUME IInv, NEW c \in Clients, Forwarded(c)
      PROVE  /\ posted[c].to.query.sid = c
             /\ \E e \in Endpoints :
                   /\ <<session[c].key, e>> \in published
                   /\ posted[c].to.scheme = e.scheme
                   /\ posted[c].to.host = e.host
                   /\ posted[c].to.port = DefaultPort(e.scheme)
  <2>1. PICK n \in Nodes, k \in Keys, e \in Endpoints, f \in Endpoints,
             a \in Announcements :
            /\ session[c] = Named(c, n, k, e, a)
            /\ {<<k, e>>, <<k, f>>} \subseteq published
            /\ posted[c].to = build_raw_message_path(parse_endpoint(f),
                                  Rooted(session[c].url.rest), session[c].url.query)
    BY <1>1, ForwardedIsSent
  <2>2. session[c].key = k
    BY <2>1 DEF Named
  <2>3. /\ posted[c].to.scheme = f.scheme /\ posted[c].to.host = f.host
        /\ posted[c].to.port = DefaultPort(f.scheme)
        /\ posted[c].to.query = session[c].url.query
    BY <2>1 DEF build_raw_message_path, parse_endpoint
  <2>4. session[c].url.query.sid = c
    BY <2>1 DEF Named, build_proxy_message_path, Announced
  <2> QED
    BY <2>1, <2>2, <2>3, <2>4
<1>2. IInv => MessageStaysWithHosts
  BY <1>1 DEF MessageStaysWithHosts
<1> QED
  BY SessionInvariant, <1>2, PTL
-----------------------------------------------------------------------------
(* Numbers have a least and, below a bound, a greatest. *)
Less == {p \in Nat \X Nat : p[1] < p[2]}

LEMMA LeastOf ==
    ASSUME NEW T, T \subseteq Nat, T # {}
    PROVE  \E m \in T : \A i \in T : m <= i
<1>1. IsWellFoundedOn(Less, Nat)
  <2>1. OpToRel(<, Nat) = Less
    BY DEF OpToRel, Less
  <2> QED
    BY NatLessThanWellFounded, <2>1
<1>2. PICK m \in T : \A i \in T : ~ (<<i, m>> \in Less)
  BY <1>1, WFMin
<1>3. \A i \in T : i < m => <<i, m>> \in Less
  BY DEF Less
<1>4. \A i \in T : ~(i < m)
  BY <1>2, <1>3, Zenon
<1> QED
  BY <1>4

LEMMA GreatestOf ==
    ASSUME NEW N \in Nat, NEW T, T \subseteq 1..N, T # {}
    PROVE  \E m \in T : \A i \in T : i <= m
<1> DEFINE U == {N - i : i \in T}
<1>1. U \subseteq Nat /\ U # {}
  OBVIOUS
<1> HIDE DEF U
<1>2. PICK u \in U : \A i \in U : u <= i
  BY <1>1, LeastOf
<1>3. PICK m \in T : u = N - m
  BY <1>2 DEF U
<1>4. ASSUME NEW i \in T PROVE i <= m
  <2>1. N - i \in U
    BY DEF U
  <2>2. N - m <= N - i
    BY <1>2, <1>3, <2>1
  <2>3. i \in Nat /\ m \in Nat
    OBVIOUS
  <2> QED
    BY <2>2, <2>3
<1> QED
  BY <1>4

(* Blank texts between slashes are what is trimmed. *)
LEMMA BlankText ==
    /\ Empty \in Seq(STRING \cup {""}) /\ Len(Empty) = 1
    /\ Empty[1] = ""
    /\ \A path : \A i \in NonEmpty(path) : i \in DOMAIN path /\ path[i] # ""
<1>1. Empty \in Seq(STRING \cup {""}) /\ Len(Empty) = 1
  <2>1. \A S : \A t \in S : <<t>> \in Seq(S) /\ Len(<<t>>) = 1
    OBVIOUS
  <2>2. "" \in STRING \cup {""}
    BY Zenon
  <2> QED
    BY <2>1, <2>2, Zenon DEF Empty
<1>2. Empty[1] = ""
  BY DEF Empty
<1>3. \A path : \A i \in NonEmpty(path) : i \in DOMAIN path /\ path[i] # ""
  BY Zenon DEF NonEmpty
<1> QED
  BY <1>1, <1>2, <1>3, Zenon

LEMMA EndsOfPath ==
    ASSUME NEW path \in Seq(STRING), NonEmpty(path) # {}
    PROVE  /\ Min(NonEmpty(path)) \in 1..Max(NonEmpty(path))
           /\ Max(NonEmpty(path)) \in Min(NonEmpty(path)) .. Len(path)
           /\ Min(NonEmpty(path)) \in NonEmpty(path)
<1>1. DOMAIN path = 1..Len(path) /\ Len(path) \in Nat
  OBVIOUS
<1>2. NonEmpty(path) \subseteq DOMAIN path
  BY BlankText, Zenon
<1>3. NonEmpty(path) \subseteq 1..Len(path) /\ NonEmpty(path) \subseteq Nat
  BY <1>1, <1>2
<1>4. \E m \in NonEmpty(path) : \A i \in NonEmpty(path) : m <= i
  BY <1>3, LeastOf
<1>5. \E m \in NonEmpty(path) : \A i \in NonEmpty(path) : i <= m
  BY <1>1, <1>3, GreatestOf
<1>6. \E m \in NonEmpty(path) : \A i \in NonEmpty(path) : m >= i
  BY <1>3, <1>5
<1>7. /\ Min(NonEmpty(path)) \in NonEmpty(path)
      /\ \A i \in NonEmpty(path) : Min(NonEmpty(path)) <= i
  BY <1>4 DEF Min
<1>8. Max(NonEmpty(path)) \in NonEmpty(path)
  BY <1>6 DEF Max
<1> QED
  BY <1>3, <1>7, <1>8

(* Trimming leaves something of every path but those of slashes alone. *)
LEMMA TrimmedAway ==
    ASSUME NEW path \in Seq(STRING), TrimStart(path) = Empty
    PROVE  NonEmpty(path) = {}
<1> SUFFICES ASSUME NonEmpty(path) # {} PROVE FALSE
  OBVIOUS
<1> DEFINE lo == Min(NonEmpty(path))
<1>1. lo \in 1..Len(path) /\ lo \in NonEmpty(path)
  BY EndsOfPath
<1>2. SubSeq(path, lo, Len(path)) = Empty
  BY DEF TrimStart
<1> HIDE DEF lo
<1>3. SubSeq(path, lo, Len(path))[1] = path[lo]
  BY <1>1, SubSeqProperties
<1>4. path[lo] = ""
  BY <1>2, <1>3, BlankText, Zenon
<1>5. path[lo] # ""
  BY <1>1, BlankText, Zenon
<1> QED
  BY <1>4, <1>5

(* A plain path survives the way through the proxy's path and back. *)
LEMMA PlainPathSurvives ==
    ASSUME NEW path \in Seq(STRING), path = Rooted(TrimBoth(path))
    PROVE  Rooted(TrimBoth(Rooted(TrimStart(path)))) = path
<1>1. Rooted(TrimStart(path)) = path
  <2>1. CASE NonEmpty(path) = {}
    BY <2>1 DEF TrimStart, TrimBoth
  <2>2. CASE NonEmpty(path) # {}
    <3> DEFINE lo == Min(NonEmpty(path))
               hi == Max(NonEmpty(path))
               mid == SubSeq(path, lo, hi)
    <3>1. lo \in 1..hi /\ hi \in lo .. Len(path) /\ lo \in NonEmpty(path)
      BY <2>2, EndsOfPath
    <3>2. TrimBoth(path) = mid /\ TrimStart(path) = SubSeq(path, lo, Len(path))
      BY <2>2 DEF TrimBoth, TrimStart
    <3> HIDE DEF lo, hi
    <3>3. path = Empty \o mid
      BY <3>2 DEF Rooted
    <3>4. mid \in Seq(STRING \cup {""}) /\ Len(mid) = hi - lo + 1
      <4>1. \A i \in lo .. hi : path[i] \in STRING
        BY <3>1
      <4>2. \A i \in lo .. hi : path[i] \in STRING \cup {""}
        BY <4>1, Zenon
      <4>3. lo \in Int /\ hi \in Int /\ lo <= hi
        BY <3>1
      <4>4. /\ mid \in Seq(STRING \cup {""})
            /\ Len(mid) = IF lo <= hi THEN hi - lo + 1 ELSE 0
        BY <4>2, <4>3, SubSeqProperties, Zenon DEF mid
      <4> QED
        BY <4>3, <4>4
    <3> HIDE DEF mid
    <3>5. Len(path) = hi - lo + 2 /\ path[1] = Empty[1]
      <4>1. Empty \in Seq(STRING \cup {""}) /\ Len(Empty) = 1
        BY BlankText, Zenon
      <4>2. /\ Len(path) = Len(Empty) + Len(mid)
            /\ \A i \in 1 .. Len(Empty) + Len(mid) :
                  path[i] = IF i <= Len(Empty) THEN Empty[i] ELSE mid[i - Len(Empty)]
        BY <3>3, <3>4, <4>1, ConcatProperties, Zenon
      <4>3. Len(Empty) = 1 /\ Len(mid) = hi - lo + 1
        BY <3>4, <4>1, Zenon
      <4> QED
        BY <3>1, <4>2, <4>3
    <3>6. lo # 1
      BY <3>1, <3>5, BlankText, Zenon
    <3>7. hi = Len(path)
      BY <3>1, <3>5, <3>6
    <3> QED
      BY <3>2, <3>3, <3>7 DEF mid, Rooted
  <2> QED
    BY <2>1, <2>2
<1> QED
  BY <1>1

(* The only messages without a route are those of servers that announce    *)
(* nothing but slashes.                                                    *)
THEOREM OnlyRootsAreLost == Spec => []OnlyRootIsLost
<1>1. ASSUME IInv, NEW c \in Clients, posted[c].status = "not routed"
      PROVE  NonEmpty(session[c].announced.path) = {}
  <2>1. posted[c] # NotPosted
    BY <1>1, Statuses
  <2>2. PICK n \in Nodes, k \in Keys, e \in Endpoints, a \in Announcements :
            session[c] = Named(c, n, k, e, a)
    BY <1>1, <2>1, PostedCases
  <2>3. ~Routes(session[c].url)
    <3>1. PICK m \in Nodes :
              \/ posted[c] = NotRouted(m) /\ ~Routes(session[c].url)
              \/ posted[c] = Refused(m)
              \/ \E f \in Endpoints : posted[c] = Sent(m, f, session[c].url)
      BY <1>1, <2>1, PostedCases
    <3>2. posted[c] # Refused(m) /\ \A f \in Endpoints : posted[c] # Sent(m, f, session[c].url)
      BY <1>1, ByStatus
    <3> QED
      BY <3>1, <3>2
  <2>4. session[c].announced.path = a.path /\ session[c].url.rest = TrimStart(a.path)
    BY <2>2 DEF Named, Announced, build_proxy_message_path
  <2>5. a.path \in Seq(STRING)
    BY ProxySessionAssumption
  <2> QED
    BY <2>3, <2>4, <2>5, TrimmedAway DEF Routes
<1>2. IInv => OnlyRootIsLost
  BY <1>1 DEF OnlyRootIsLost
<1> QED
  BY SessionInvariant, <1>2, PTL

(* With one binding of its key, a plain path and the scheme's port, a      *)
(* message reaches the URL that the session's server announced.            *)
THEOREM MessagesReachSession == Spec => []MessageReachesSession
<1>1. ASSUME IInv, NEW c \in Clients, Forwarded(c),
             Cardinality({p \in published : p[1] = session[c].key}) = 1,
             Plain(session[c].announced),
             session[c].server.port = DefaultPort(session[c].server.scheme)
      PROVE  posted[c].to = Resolved(session[c].server, session[c].announced)
  <2>1. PICK n \in Nodes, k \in Keys, e \in Endpoints, f \in Endpoints,
             a \in Announcements :
            /\ session[c] = Named(c, n, k, e, a)
            /\ {<<k, e>>, <<k, f>>} \subseteq published
            /\ posted[c].to = build_raw_message_path(parse_endpoint(f),
                                  Rooted(session[c].url.rest), session[c].url.query)
    BY <1>1, ForwardedIsSent
  <2>2. /\ session[c].key = k
        /\ session[c].server = parse_endpoint(e)
        /\ session[c].announced = Announced(c, a)
        /\ session[c].url.rest = TrimStart(a.path)
        /\ session[c].url.query = [sid |-> c, more |-> FALSE]
    <3>1. /\ session[c].key = k
          /\ session[c].server = parse_endpoint(e)
          /\ session[c].announced = Announced(c, a)
          /\ session[c].url = build_proxy_message_path(k, Announced(c, a))
      BY <2>1 DEF Named
    <3>2. Announced(c, a).path = a.path /\ Announced(c, a).query.sid = c
      BY DEF Announced
    <3>3. LET url == build_proxy_message_path(k, Announced(c, a))
          IN  url.rest = TrimStart(a.path) /\ url.query = [sid |-> c, more |-> FALSE]
      BY <3>2 DEF build_proxy_message_path
    <3> QED
      BY <3>1, <3>3
  <2>3. e = f
    <3> DEFINE bindings == {p \in published : p[1] = k}
    <3>1. IsFiniteSet(bindings) /\ Cardinality(bindings) = 1
      BY <1>1, <2>2, FS_Subset DEF IInv, ViewInv
    <3>2. PICK x : bindings = {x}
      BY <3>1, FS_Singleton
    <3>3. <<k, e>> \in bindings /\ <<k, f>> \in bindings
      BY <2>1
    <3>4. <<k, e>> = <<k, f>>
      BY <3>2, <3>3
    <3> QED
      BY <3>4
  <2>4. /\ a.path \in Seq(STRING)
        /\ a.path = Rooted(TrimBoth(a.path))
        /\ Announced(c, a).query = [sid |-> c, more |-> FALSE]
    <3>1. a.path \in Seq(STRING) /\ a.more \in BOOLEAN
      BY ProxySessionAssumption
    <3>2. /\ Announced(c, a).path = a.path
          /\ Announced(c, a).query = [sid |-> c, more |-> a.more]
      BY DEF Announced
    <3>3. Announced(c, a).path = Rooted(TrimBoth(Announced(c, a).path))
      BY <1>1, <2>2 DEF Plain
    <3>4. ~Announced(c, a).query.more
      BY <1>1, <2>2 DEF Plain
    <3>5. a.more = FALSE
      BY <3>1, <3>2, <3>4
    <3>6. Announced(c, a).query = [sid |-> c, more |-> FALSE]
      BY <3>2, <3>5, Zenon
    <3> QED
      BY <3>1, <3>2, <3>3, <3>6
  <2>5. Rooted(TrimBoth(Rooted(TrimStart(a.path)))) = a.path
    BY <2>4, PlainPathSurvives
  <2>6. /\ parse_endpoint(e).port = DefaultPort(parse_endpoint(e).scheme)
        /\ Announced(c, a).path = a.path
    BY <1>1, <2>2 DEF Announced
  <2> QED
    BY <2>1, <2>2, <2>3, <2>4, <2>5, <2>6 DEF build_raw_message_path, Resolved
<1>2. IInv => MessageReachesSession
  BY <1>1 DEF MessageReachesSession
<1> QED
  BY SessionInvariant, <1>2, PTL
=============================================================================
