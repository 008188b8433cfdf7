-------------------------- MODULE ServerCacheProofs -------------------------
(***************************************************************************)
(* Theorems about ServerCache, for every value of its constants: types,    *)
(* what the routing caches hold, and that they implement RoutingView.      *)
(***************************************************************************)
EXTENDS ServerCache, TLAPS

-----------------------------------------------------------------------------
(* Type correctness.  A pass writes a row that parses because the row it   *)
(* checked is the row it writes: ids are unique in the table, so in every  *)
(* listing, and the next row of a listing is one row.                      *)

OneRowPerId(S) == \A r, s \in S : r.id = s.id => r = s

ListingInv ==
    /\ OneRowPerId(rows)
    /\ \A n \in Nodes :
          /\ OneRowPerId(sync[n].list)
          /\ sync[n].todo \subseteq sync[n].list
          /\ \A r \in sync[n].todo :
                sync[n].pc = "write" /\ NextRow(n, r) => Parses(r.endpoint)

TypeInv == TypeOK /\ ListingInv

(* What a send leaves on a channel is a channel again. *)
LEMMA SendType ==
    ASSUME NEW E, NEW b \in Bus(E), NEW ev \in E
    PROVE  Send(b, ev) \in Bus(E)
<1>1. CASE ~b.open
  BY <1>1 DEF Send
<1>2. CASE b.open /\ Len(b.queue) < BusCapacity
  BY <1>2 DEF Send, Bus
<1>3. CASE b.open /\ ~(Len(b.queue) < BusCapacity)
  <2>1. Len(b.queue) \in Nat /\ b.queue # <<>>
    BY <1>3, BusCapacityAssumption DEF Bus
  <2>2. Tail(b.queue) \in Seq(E)
    BY <2>1 DEF Bus
  <2>3. Append(Tail(b.queue), ev) \in Seq(E)
    BY <2>2
  <2>4. Send(b, ev) = [queue |-> Append(Tail(b.queue), ev),
                       lagged |-> TRUE, open |-> b.open]
    BY <1>3 DEF Send, Bus
  <2> QED
    BY <2>3, <2>4 DEF Bus
<1> QED
  BY <1>1, <1>2, <1>3

(* The parse of a well-formed endpoint is a McpServerInfo. *)
LEMMA ParseType ==
    ASSUME NEW e, Parses(e)
    PROVE  parse_endpoint(e) \in McpServerInfo
BY DEF Parses, parse_endpoint, McpServerInfo, GoodEndpoints, DefaultPort, Schemes

(* The rows of a listing have no two first ones. *)
LEMMA NextRowUnique ==
    ASSUME NEW S \in SUBSET Row, OneRowPerId(S), NEW r \in S, NEW s \in S,
           r.id <= s.id, s.id <= r.id
    PROVE  s = r
<1>1. r.id \in Nat /\ s.id \in Nat
  BY ServerCacheAssumption DEF Row
<1>2. \A a, b \in Nat : a <= b /\ b <= a => a = b
  OBVIOUS
<1>3. r.id = s.id
  BY <1>1, <1>2
<1> QED
  BY <1>3 DEF OneRowPerId

(* A recv leaves a channel behind. *)
LEMMA RecvType ==
    ASSUME NEW E, NEW b \in Bus(E), b.queue # <<>>
    PROVE  /\ Head(b.queue) \in E
           /\ [b EXCEPT !.queue = Tail(@)] \in Bus(E)
<1>1. b.queue \in Seq(E)
  BY DEF Bus
<1>2. Head(b.queue) \in E /\ Tail(b.queue) \in Seq(E)
  BY <1>1
<1>3. [b EXCEPT !.queue = Tail(@)]
        = [queue |-> Tail(b.queue), lagged |-> b.lagged, open |-> b.open]
  BY SMTT(30) DEF Bus
<1> QED
  BY <1>2, <1>3 DEF Bus

(* A retired row is a row with the same id and binding. *)
LEMMA RetiredType ==
    ASSUME NEW r \in Row
    PROVE  LET s == [r EXCEPT !.deleted = TRUE]
           IN  s \in Row /\ s.id = r.id /\ s.key = r.key /\ s.endpoint = r.endpoint
BY DEF Row

LEMMA TypeInit == Init => TypeInv
<1> SUFFICES ASSUME Init PROVE TypeInv
  OBVIOUS
<1> USE DEF Init
<1>1. rows \subseteq Row /\ published \subseteq Keys \X Endpoints
  OBVIOUS
<1>2. up \in [Nodes -> BOOLEAN] /\ starts \in [Nodes -> Nat]
  BY ServerCacheAssumption
<1>3. inserted \in [Nodes -> SUBSET Row] /\ outbox \in [Nodes -> SUBSET Row]
  OBVIOUS
<1>4. bus \in [Nodes -> Bus(Event)]
  BY DEF Bus, Unsubscribed
<1>5. cache \in [Nodes -> [Keys -> McpServerInfo \cup {NoServer}]]
  BY DEF EmptyCache
<1>6. sync \in [Nodes -> [pc : {"tick", "scan", "write", "ended"},
                         list : SUBSET Row, todo : SUBSET Row]]
  BY DEF Ended
<1>7. ListingInv
  BY DEF ListingInv, OneRowPerId, Ended, NextRow
<1> QED
  BY <1>1, <1>2, <1>3, <1>4, <1>5, <1>6, <1>7 DEF TypeInv, TypeOK

(* What a sync task can be, and the steps between them. *)
Syncs == [pc : {"tick", "scan", "write", "ended"}, list : SUBSET Row, todo : SUBSET Row]

LEMMA SyncTypes ==
    /\ Idle \in Syncs /\ Ended \in Syncs
    /\ \A s \in Syncs : [s EXCEPT !.pc = "write"] \in Syncs
  BY DEF Syncs, Idle, Ended

LEMMA SyncReplaced ==
    ASSUME sync \in [Nodes -> Syncs], NEW n \in Nodes, NEW s \in Syncs,
           sync' = [sync EXCEPT ![n] = s]
    PROVE  sync' \in [Nodes -> Syncs]
  OBVIOUS

(* One step of the process, of a registration, of either task or of the    *)
(* operator keeps TypeInv. *)
LEMMA TypeStep == TypeInv /\ [Next]_vars => TypeInv'
<1> SUFFICES ASSUME TypeInv, [Next]_vars PROVE TypeInv'
  OBVIOUS
<1> USE DEF TypeInv, TypeOK, ListingInv, OneRowPerId, NextRow
<1>1. ASSUME NEW n \in Nodes, Start(n) PROVE TypeInv'
  BY <1>1, ServerCacheAssumption DEF Start, Subscribed, Bus, Idle
<1>2. ASSUME NEW n \in Nodes, Stop(n) PROVE TypeInv'
  BY <1>2 DEF Stop, Unsubscribed, Bus, Ended, EmptyCache
<1>3. ASSUME NEW n \in Nodes, NEW i \in Ids, NEW k \in Keys, NEW e \in Endpoints,
             Register(n, i, k, e)
      PROVE  TypeInv'
  <2>1. NewRow(i, k, e) \in Row
    BY DEF NewRow, Row
  <2>2. \A s \in rows : s.id # NewRow(i, k, e).id
    BY <1>3 DEF Register, Insertable
  <2> QED
    BY <1>3, <2>1, <2>2 DEF Register
<1>4. ASSUME NEW n \in Nodes, NEW r \in inserted[n],
             RegisterReturns(n, r) \/ RegisterAbandoned(n, r)
      PROVE  TypeInv'
  <2>1. r \in Row
    OBVIOUS
  <2>2. inserted' = [inserted EXCEPT ![n] = inserted[n] \ {r}]
    BY <1>4 DEF RegisterReturns, RegisterAbandoned
  <2>3. outbox' \in [Nodes -> SUBSET Row]
    <3>1. CASE RegisterReturns(n, r)
      BY <2>1, <3>1 DEF RegisterReturns
    <3>2. CASE RegisterAbandoned(n, r)
      BY <3>2 DEF RegisterAbandoned
    <3> QED
      BY <1>4, <3>1, <3>2
  <2>4. UNCHANGED <<rows, up, starts, bus, cache, sync, published>>
    BY <1>4 DEF RegisterReturns, RegisterAbandoned
  <2> QED
    BY <2>2, <2>3, <2>4
<1>5. ASSUME NEW n \in Nodes, NEW r \in outbox[n], SendEvent(n, r) PROVE TypeInv'
  <2> DEFINE ev == [kind |-> "CreateOrUpdate", key |-> r.key,
                    endpoint |-> r.endpoint]
  <2>1. ev \in Event
    BY DEF Event, Row
  <2>2. Send(bus[n], ev) \in Bus(Event)
    BY <2>1, SendType
  <2>3. bus' = [bus EXCEPT ![n] = Send(bus[n], ev)]
    BY <1>5 DEF SendEvent
  <2>4. bus' \in [Nodes -> Bus(Event)]
    BY <2>2, <2>3
  <2> QED
    BY <1>5, <2>4 DEF SendEvent
<1>6. ASSUME NEW n \in Nodes, ApplyEvent(n) PROVE TypeInv'
  <2> DEFINE ev == Head(bus[n].queue)
  <2>1. bus[n] \in Bus(Event) /\ bus[n].queue # <<>>
    BY <1>6 DEF ApplyEvent
  <2>2. ev \in Event /\ [bus[n] EXCEPT !.queue = Tail(@)] \in Bus(Event)
    BY <2>1, RecvType
  <2>3. bus' \in [Nodes -> Bus(Event)]
    BY <1>6, <2>2 DEF ApplyEvent
  <2>4. Applied(cache[n], ev) \in [Keys -> McpServerInfo \cup {NoServer}]
    BY <1>6, <2>2, ParseType DEF ApplyEvent, Applied, Applicable, Event
  <2>5. cache' = [cache EXCEPT ![n] = Applied(cache[n], ev)]
    BY <1>6 DEF ApplyEvent
  <2> HIDE DEF ev
  <2>6. cache' \in [Nodes -> [Keys -> McpServerInfo \cup {NoServer}]]
    BY <2>4, <2>5
  <2> QED
    BY <1>6, <2>3, <2>6 DEF ApplyEvent
<1>7. ASSUME NEW n \in Nodes, EventTaskEnds(n) PROVE TypeInv'
  BY <1>7 DEF EventTaskEnds, Unsubscribed, Bus
<1>8. ASSUME NEW n \in Nodes, ListAll(n) PROVE TypeInv'
  BY <1>8 DEF ListAll
<1>9. ASSUME NEW n \in Nodes, TakeRow(n) PROVE TypeInv'
  <2>1. PICK r \in sync[n].todo : NextRow(n, r) /\ Parses(r.endpoint)
    BY <1>9 DEF TakeRow
  <2>2. ASSUME NEW s \in sync[n].todo, NextRow(n, s) PROVE s = r
    <3>1. sync[n].todo \in SUBSET Row /\ OneRowPerId(sync[n].todo)
      OBVIOUS
    <3>2. r.id <= s.id /\ s.id <= r.id
      BY <2>1, <2>2
    <3> HIDE DEF OneRowPerId
    <3> QED
      BY <3>1, <3>2, <2>1, <2>2, NextRowUnique
  <2>3. sync' = [sync EXCEPT ![n] = [sync[n] EXCEPT !.pc = "write"]]
    BY <1>9 DEF TakeRow
  <2>4. \A m \in Nodes : /\ sync'[m].list = sync[m].list
                         /\ sync'[m].todo = sync[m].todo
                         /\ m # n => sync'[m] = sync[m]
    BY <2>3
  <2>5. UNCHANGED <<rows, up, starts, inserted, outbox, bus, cache, published>>
    BY <1>9 DEF TakeRow
  <2>6. ListingInv'
    BY <2>1, <2>2, <2>4, <2>5
  <2>7. sync' \in [Nodes -> Syncs]
    <3>1. sync \in [Nodes -> Syncs]
      BY DEF Syncs
    <3>2. sync[n] \in Syncs
      BY <3>1
    <3> QED
      BY ONLY <2>3, <3>1, <3>2, n \in Nodes, SyncTypes, SyncReplaced
  <2>8. TypeOK'
    BY <2>5, <2>7 DEF Syncs
  <2> QED
    BY <2>6, <2>8
<1>10. ASSUME NEW n \in Nodes, SyncReturns(n) \/ EndPass(n) PROVE TypeInv'
  <2>1. \/ sync' = [sync EXCEPT ![n] = Ended]
        \/ sync' = [sync EXCEPT ![n] = Idle]
    BY <1>10 DEF SyncReturns, EndPass
  <2>2. UNCHANGED <<rows, up, starts, inserted, outbox, bus, cache, published>>
    BY <1>10 DEF SyncReturns, EndPass
  <2>3. \A m \in Nodes : \/ sync'[m] = sync[m]
                         \/ sync'[m].list = {} /\ sync'[m].todo = {}
    BY <2>1 DEF Ended, Idle
  <2>4. sync' \in [Nodes -> Syncs]
    <3>1. sync \in [Nodes -> Syncs]
      BY DEF Syncs
    <3> QED
      BY ONLY <2>1, <3>1, n \in Nodes, SyncTypes, SyncReplaced
  <2>5. TypeOK'
    BY <2>2, <2>4 DEF Syncs
  <2>6. ListingInv'
    BY <2>2, <2>3
  <2> QED
    BY <2>5, <2>6
<1>11. ASSUME NEW n \in Nodes, WriteRow(n) PROVE TypeInv'
  <2>1. PICK r \in sync[n].todo :
           /\ NextRow(n, r)
           /\ cache' = [cache EXCEPT ![n][r.key] = parse_endpoint(r.endpoint)]
           /\ sync' = [sync EXCEPT ![n].pc = "scan",
                                   ![n].todo = sync[n].todo \ {r}]
    BY <1>11 DEF WriteRow
  <2>2. Parses(r.endpoint)
    BY <1>11, <2>1 DEF WriteRow
  <2>3. parse_endpoint(r.endpoint) \in McpServerInfo
    BY <2>2, ParseType
  <2>4. cache' \in [Nodes -> [Keys -> McpServerInfo \cup {NoServer}]]
    BY <2>1, <2>3 DEF Row
  <2>5. sync' \in [Nodes -> Syncs]
    <3> DEFINE next == [sync[n] EXCEPT !.pc = "scan", !.todo = sync[n].todo \ {r}]
    <3>1. sync \in [Nodes -> Syncs]
      BY DEF Syncs
    <3>2. sync' = [sync EXCEPT ![n] = next]
      BY <2>1
    <3>3. next \in Syncs
      BY ONLY <3>1, n \in Nodes DEF Syncs
    <3> HIDE DEF next
    <3> QED
      BY ONLY <3>1, <3>2, <3>3, n \in Nodes, SyncReplaced
  <2>6. \A m \in Nodes : /\ sync'[m].list = sync[m].list
                         /\ m # n => sync'[m] = sync[m]
    BY <2>1
  <2>7. sync'[n].todo = sync[n].todo \ {r} /\ sync'[n].pc = "scan"
    BY <2>1
  <2>8. UNCHANGED <<rows, up, starts, inserted, outbox, bus, published>>
    BY <1>11 DEF WriteRow
  <2>9. TypeOK'
    BY <2>4, <2>5, <2>8 DEF Syncs
  <2>10. ListingInv'
    BY <2>6, <2>7, <2>8
  <2> QED
    BY <2>9, <2>10
<1>12. ASSUME NEW r \in rows, NEW e \in Endpoints, OperatorEdit(r, e) PROVE TypeInv'
  <2>1. /\ [r EXCEPT !.endpoint = e] \in Row
        /\ [r EXCEPT !.endpoint = e].id = r.id
    BY SMTT(30) DEF Row
  <2>2. published' \subseteq Keys \X Endpoints
    BY <1>12 DEF OperatorEdit, Row
  <2>3. UNCHANGED <<up, starts, inserted, outbox, bus, cache, sync>>
    BY <1>12 DEF OperatorEdit
  <2> QED
    BY <1>12, <2>1, <2>2, <2>3, ZenonT(60) DEF OperatorEdit, Update
<1>13. ASSUME NEW r \in rows, OperatorRetire(r) PROVE TypeInv'
  <2>1. PICK s \in Row : s.id = r.id /\ Update(r, s)
    <3>1. [r EXCEPT !.deleted = TRUE] \in Row /\ [r EXCEPT !.deleted = TRUE].id = r.id
      BY RetiredType
    <3> QED
      BY <1>13, <3>1, Zenon DEF OperatorRetire
  <2>2. UNCHANGED <<up, starts, inserted, outbox, bus, cache, sync, published>>
    BY <1>13 DEF OperatorRetire
  <2> QED
    BY <2>1, <2>2 DEF Update
<1>14. CASE UNCHANGED vars
  BY <1>14 DEF vars
<1> QED
  BY <1>1, <1>2, <1>3, <1>4, <1>5, <1>6, <1>7, <1>8, <1>9, <1>10, <1>11, <1>12,
     <1>13, <1>14
  DEF Next, Process, Registration, EventTask, SyncTask, Operator

(* Every variable of the cluster keeps its type. *)
THEOREM TypeCorrect == Spec => []TypeOK
<1>1. TypeInv => TypeOK
  BY DEF TypeInv
<1> QED
  BY TypeInit, TypeStep, <1>1, PTL DEF Spec
-----------------------------------------------------------------------------
(* What the routing caches hold: every writer of a cache carries bindings  *)
(* the table had.                                                          *)

Binding(r) == <<r.key, r.endpoint>>

PublishedEvents ==
    {ev \in Event : ev.kind = "CreateOrUpdate" /\ <<ev.key, ev.endpoint>> \in published}

PublishedRows == {r \in Row : Binding(r) \in published}

(* Handlers, spawned senders, channels and listings are the sources of a   *)
(* cache write.  A Delete event is never on a channel: nothing sends one.  *)
SourcesInv ==
    /\ rows \subseteq PublishedRows
    /\ \A n \in Nodes : /\ inserted[n] \subseteq PublishedRows
                        /\ outbox[n] \subseteq PublishedRows
                        /\ sync[n].list \subseteq PublishedRows
                        /\ bus[n] \in Bus(PublishedEvents)
    /\ CacheHoldsPublished

LEMMA BusGrows ==
    ASSUME NEW A, NEW B, A \subseteq B
    PROVE  Bus(A) \subseteq Bus(B)
<1>1. Seq(A) \subseteq Seq(B)
  OBVIOUS
<1> QED
  BY <1>1 DEF Bus

(* An entry that is the parse of a published endpoint may be written. *)
LEMMA ParseKeepsEndpoint ==
    ASSUME NEW e
    PROVE  parse_endpoint(e).endpoint = e
BY DEF parse_endpoint

LEMMA SourcesInit == Init => SourcesInv
<1> SUFFICES ASSUME Init PROVE SourcesInv
  OBVIOUS
<1>1. \A n \in Nodes : bus[n] \in Bus(PublishedEvents)
  BY DEF Init, Unsubscribed, Bus
<1>2. CacheHoldsPublished
  BY DEF Init, CacheHoldsPublished, Cached, EmptyCache
<1> QED
  BY <1>1, <1>2 DEF Init, SourcesInv, Ended

LEMMA PublishedGrows == [Next]_vars => published \subseteq published'
BY ZenonT(60) DEF Next, vars, Process, Start, Stop, Registration, Register, RegisterReturns,
       RegisterAbandoned, SendEvent, EventTask, ApplyEvent, EventTaskEnds, SyncTask,
       ListAll, TakeRow, SyncReturns, WriteRow, EndPass,
       Operator, OperatorEdit, OperatorRetire

(* A step leaves an entry alone, drops it with its process, or stores the  *)
(* parse of an endpoint that was published for its key.                    *)
Stores(n, k) ==
    \E e \in Endpoints :
        /\ <<k, e>> \in published
        /\ Parses(e)
        /\ cache' = [cache EXCEPT ![n][k] = parse_endpoint(e)]

LEMMA ApplyStores ==
    ASSUME TypeInv, SourcesInv, NEW n \in Nodes, ApplyEvent(n)
    PROVE  \E k \in Keys : Stores(n, k)
<1> DEFINE ev == Head(bus[n].queue)
<1>1. bus[n] \in Bus(PublishedEvents) /\ bus[n].queue # <<>>
  BY DEF ApplyEvent, SourcesInv
<1>2. ev \in PublishedEvents
  BY <1>1, RecvType
<1>3. ev \in Event /\ ev.kind = "CreateOrUpdate" /\ <<ev.key, ev.endpoint>> \in published
  BY <1>2 DEF PublishedEvents
<1>4. cache' = [cache EXCEPT ![n] = Applied(cache[n], ev)]
  BY DEF ApplyEvent
<1>5. Parses(ev.endpoint)
  <2>1. Applicable(ev)
    BY DEF ApplyEvent
  <2> QED
    BY <1>3, <2>1 DEF Applicable
<1> HIDE DEF ev
<1>6. Applied(cache[n], ev) = [cache[n] EXCEPT ![ev.key] = parse_endpoint(ev.endpoint)]
  BY <1>3 DEF Applied
<1>7. cache' = [cache EXCEPT ![n][ev.key] = parse_endpoint(ev.endpoint)]
  BY <1>4, <1>6
<1> QED
  BY <1>3, <1>5, <1>7 DEF Stores, Event

LEMMA WriteStores ==
    ASSUME TypeInv, SourcesInv, NEW n \in Nodes, WriteRow(n)
    PROVE  \E k \in Keys : Stores(n, k)
<1>1. PICK r \in sync[n].todo :
         /\ NextRow(n, r)
         /\ cache' = [cache EXCEPT ![n][r.key] = parse_endpoint(r.endpoint)]
  BY DEF WriteRow
<1>2. r \in PublishedRows /\ Parses(r.endpoint)
  BY <1>1 DEF WriteRow, TypeInv, ListingInv, SourcesInv
<1>3. r.key \in Keys /\ r.endpoint \in Endpoints /\ <<r.key, r.endpoint>> \in published
  BY <1>2 DEF PublishedRows, Binding, Row
<1> QED
  BY <1>1, <1>2, <1>3 DEF Stores

LEMMA EntriesStep ==
    ASSUME TypeInv, SourcesInv, [Next]_vars
    PROVE  \/ UNCHANGED cache
           \/ \E n \in Nodes : Stop(n)
           \/ \E n \in Nodes, k \in Keys : Stores(n, k)
<1>1. ASSUME NEW n \in Nodes, ApplyEvent(n) PROVE \E k \in Keys : Stores(n, k)
  BY <1>1, ApplyStores
<1>2. ASSUME NEW n \in Nodes, WriteRow(n) PROVE \E k \in Keys : Stores(n, k)
  BY <1>2, WriteStores
<1>3. CASE UNCHANGED vars
  BY <1>3 DEF vars
<1> QED
  BY <1>1, <1>2, <1>3, ZenonT(60)
  DEF Next, Process, Start, Registration, Register, RegisterReturns,
      RegisterAbandoned, SendEvent, EventTask, EventTaskEnds, SyncTask,
      ListAll, TakeRow, SyncReturns, EndPass,
      Operator, OperatorEdit, OperatorRetire

LEMMA HoldsStep ==
    ASSUME TypeInv, SourcesInv, [Next]_vars
    PROVE  CacheHoldsPublished'
<1> USE DEF CacheHoldsPublished, Cached
<1>1. published \subseteq published' /\ CacheHoldsPublished
  BY PublishedGrows DEF SourcesInv
<1>2. CASE UNCHANGED cache
  BY <1>1, <1>2
<1>3. ASSUME NEW n \in Nodes, Stop(n) PROVE CacheHoldsPublished'
  BY <1>1, <1>3 DEF Stop, EmptyCache, TypeInv, TypeOK
<1>4. ASSUME NEW n \in Nodes, NEW k \in Keys, Stores(n, k) PROVE CacheHoldsPublished'
  <2>1. PICK e \in Endpoints :
           <<k, e>> \in published /\ cache' = [cache EXCEPT ![n][k] = parse_endpoint(e)]
    BY <1>4 DEF Stores
  <2>2. cache \in [Nodes -> [Keys -> McpServerInfo \cup {NoServer}]]
    BY DEF TypeInv, TypeOK
  <2>3. cache'[n][k] = parse_endpoint(e)
    BY <2>1, <2>2
  <2>4. \A m \in Nodes, j \in Keys :
           <<m, j>> # <<n, k>> => cache'[m][j] = cache[m][j]
    BY <2>1, <2>2
  <2> QED
    BY <1>1, <2>1, <2>3, <2>4, ParseKeepsEndpoint
<1> QED
  BY <1>2, <1>3, <1>4, EntriesStep

LEMMA SourcesStep == TypeInv /\ SourcesInv /\ [Next]_vars => SourcesInv'
<1> SUFFICES ASSUME TypeInv, SourcesInv, [Next]_vars PROVE SourcesInv'
  OBVIOUS
<1> DEFINE Others ==
        /\ rows \subseteq PublishedRows
        /\ \A n \in Nodes : /\ inserted[n] \subseteq PublishedRows
                            /\ outbox[n] \subseteq PublishedRows
                            /\ sync[n].list \subseteq PublishedRows
                            /\ bus[n] \in Bus(PublishedEvents)
<1>1. /\ PublishedRows \subseteq PublishedRows'
      /\ Bus(PublishedEvents) \subseteq Bus(PublishedEvents)'
  <2>1. published \subseteq published'
    BY PublishedGrows
  <2>2. PublishedEvents \subseteq PublishedEvents'
    BY <2>1 DEF PublishedEvents
  <2>3. Bus(PublishedEvents) \subseteq Bus(PublishedEvents')
    BY <2>2, BusGrows
  <2> QED
    BY <2>1, <2>3 DEF PublishedRows, Bus
<1>2. Others
  BY DEF SourcesInv
<1>3. TypeOK
  BY DEF TypeInv
<1>4. ASSUME NEW n \in Nodes, Start(n) PROVE Others'
  <2>1. Subscribed \in Bus(PublishedEvents)'
    BY DEF Subscribed, Bus
  <2>2. \A m \in Nodes : bus'[m] \in Bus(PublishedEvents)'
    BY <1>1, <1>2, <1>3, <1>4, <2>1 DEF Start, TypeOK
  <2>3. \A m \in Nodes : sync'[m].list \subseteq sync[m].list
    BY <1>3, <1>4 DEF Start, Idle, TypeOK
  <2>4. UNCHANGED <<rows, inserted, outbox>>
    BY <1>4 DEF Start
  <2> QED
    BY <1>1, <1>2, <2>2, <2>3, <2>4
<1>5. ASSUME NEW n \in Nodes, Stop(n) PROVE Others'
  <2>1. Unsubscribed \in Bus(PublishedEvents)'
    BY DEF Unsubscribed, Bus
  <2>2. \A m \in Nodes : bus'[m] \in Bus(PublishedEvents)'
    BY <1>1, <1>2, <1>3, <1>5, <2>1 DEF Stop, TypeOK
  <2>3. \A m \in Nodes : /\ sync'[m].list \subseteq sync[m].list
                         /\ inserted'[m] \subseteq inserted[m]
                         /\ outbox'[m] \subseteq outbox[m]
    BY <1>3, <1>5 DEF Stop, Ended, TypeOK
  <2>4. UNCHANGED rows
    BY <1>5 DEF Stop
  <2> QED
    BY <1>1, <1>2, <2>2, <2>3, <2>4
<1>6. ASSUME NEW n \in Nodes, NEW i \in Ids, NEW k \in Keys, NEW e \in Endpoints,
             Register(n, i, k, e)
      PROVE  Others'
  <2>1. NewRow(i, k, e) \in PublishedRows'
    BY <1>6 DEF Register, NewRow, Row, PublishedRows, Binding
  <2> QED
    BY <1>1, <1>2, <1>3, <1>6, <2>1 DEF Register, TypeOK
<1>7. ASSUME NEW n \in Nodes, NEW r \in inserted[n], RegisterReturns(n, r) PROVE Others'
  BY <1>1, <1>2, <1>3, <1>7 DEF RegisterReturns, TypeOK
<1>8. ASSUME NEW n \in Nodes, NEW r \in inserted[n], RegisterAbandoned(n, r) PROVE Others'
  BY <1>1, <1>2, <1>3, <1>8 DEF RegisterAbandoned, TypeOK
<1>9. ASSUME NEW n \in Nodes, NEW r \in outbox[n], SendEvent(n, r) PROVE Others'
  <2> DEFINE ev == [kind |-> "CreateOrUpdate", key |-> r.key,
                    endpoint |-> r.endpoint]
  <2>1. ev \in PublishedEvents
    BY <1>2 DEF PublishedEvents, PublishedRows, Binding, Row, Event
  <2>2. Send(bus[n], ev) \in Bus(PublishedEvents)
    BY <1>2, <2>1, SendType
  <2>3. bus' = [bus EXCEPT ![n] = Send(bus[n], ev)]
    BY <1>9 DEF SendEvent
  <2> HIDE DEF ev
  <2>4. \A m \in Nodes : bus'[m] \in Bus(PublishedEvents)
    BY <1>2, <1>3, <2>2, <2>3 DEF TypeOK
  <2> QED
    BY <1>1, <1>2, <1>3, <1>9, <2>4 DEF SendEvent, TypeOK
<1>10. ASSUME NEW n \in Nodes, ApplyEvent(n) PROVE Others'
  <2>1. [bus[n] EXCEPT !.queue = Tail(@)] \in Bus(PublishedEvents)
    BY <1>2, <1>10, RecvType DEF ApplyEvent
  <2>2. \A m \in Nodes : bus'[m] \in Bus(PublishedEvents)
    BY <1>2, <1>3, <1>10, <2>1 DEF ApplyEvent, TypeOK
  <2> QED
    BY <1>1, <1>2, <1>10, <2>2 DEF ApplyEvent
<1>11. ASSUME NEW n \in Nodes, EventTaskEnds(n) PROVE Others'
  <2>1. Unsubscribed \in Bus(PublishedEvents)'
    BY DEF Unsubscribed, Bus
  <2> QED
    BY <1>1, <1>2, <1>3, <1>11, <2>1 DEF EventTaskEnds, TypeOK
<1>12. ASSUME NEW n \in Nodes, SyncTask(n) PROVE Others'
  <2>1. ASSUME NEW x, sync' = [sync EXCEPT ![n] = x],
               x.list \subseteq sync[n].list \cup rows
        PROVE  \A m \in Nodes : sync'[m].list \subseteq sync[m].list \cup rows
    BY <1>3, <2>1 DEF TypeOK
  <2>2. \A m \in Nodes : sync'[m].list \subseteq sync[m].list \cup rows
    <3>1. CASE ListAll(n)
      BY <2>1, <3>1 DEF ListAll
    <3>2. CASE TakeRow(n)
      BY <2>1, <3>2, <1>3 DEF TakeRow, TypeOK
    <3>3. CASE SyncReturns(n)
      BY <2>1, <3>3 DEF SyncReturns, Ended
    <3>4. CASE WriteRow(n)
      BY <2>1, <3>4, <1>3 DEF WriteRow, TypeOK
    <3>5. CASE EndPass(n)
      BY <2>1, <3>5 DEF EndPass, Idle
    <3> QED
      BY <1>12, <3>1, <3>2, <3>3, <3>4, <3>5 DEF SyncTask
  <2>3. UNCHANGED <<rows, inserted, outbox, bus>>
    BY <1>12 DEF SyncTask, ListAll, TakeRow, SyncReturns, WriteRow, EndPass
  <2>4. /\ rows' \subseteq PublishedRows'
        /\ \A m \in Nodes : /\ inserted'[m] \subseteq PublishedRows'
                            /\ outbox'[m] \subseteq PublishedRows'
                            /\ bus'[m] \in Bus(PublishedEvents)'
    BY <1>1, <1>2, <2>3
  <2>5. \A m \in Nodes : sync'[m].list \subseteq PublishedRows'
    BY <1>1, <1>2, <2>2
  <2> QED
    BY <2>4, <2>5
<1>13. ASSUME NEW r \in rows, NEW e \in Endpoints, OperatorEdit(r, e) PROVE Others'
  <2>1. [r EXCEPT !.endpoint = e] \in PublishedRows'
    <3> DEFINE s == [r EXCEPT !.endpoint = e]
    <3>1. s \in Row /\ s.key = r.key /\ s.endpoint = e
      BY <1>3 DEF TypeOK, Row
    <3>2. <<r.key, e>> \in published'
      BY <1>13 DEF OperatorEdit
    <3> HIDE DEF s
    <3>3. s \in PublishedRows'
      BY <3>1, <3>2 DEF PublishedRows, Binding
    <3> QED
      BY <3>3 DEF s
  <2> QED
    BY <1>1, <1>2, <1>13, <2>1 DEF OperatorEdit, Update
<1>14. ASSUME NEW r \in rows, OperatorRetire(r) PROVE Others'
  <2>1. PICK s \in Row : Binding(s) = Binding(r) /\ Update(r, s)
    BY <1>3, <1>14, RetiredType DEF OperatorRetire, TypeOK, Binding
  <2>2. s \in PublishedRows
    BY <1>2, <2>1 DEF PublishedRows
  <2> QED
    BY <1>1, <1>2, <1>14, <2>1, <2>2 DEF OperatorRetire, Update
<1>15. ASSUME UNCHANGED vars PROVE Others'
  <2>1. UNCHANGED <<rows, inserted, outbox, sync, bus>>
    BY <1>15 DEF vars
  <2> QED
    BY <1>1, <1>2, <2>1
<1> HIDE DEF Others
<1>16. Others'
  BY <1>4, <1>5, <1>6, <1>7, <1>8, <1>9, <1>10, <1>11, <1>12, <1>13, <1>14, <1>15
  DEF Next, Process, Registration, EventTask, Operator
<1> QED
  BY <1>16, HoldsStep DEF SourcesInv, Others

(* Whatever the order of registrations, events, listings, restarts and     *)
(* operator edits, an entry is the parse of an endpoint its key had.       *)
THEOREM EntriesArePublished == Spec => []CacheHoldsPublished
<1>1. SourcesInv => CacheHoldsPublished
  BY DEF SourcesInv
<1> QED
  BY TypeInit, TypeStep, SourcesInit, SourcesStep, <1>1, PTL DEF Spec
-----------------------------------------------------------------------------
(* How the caches relate to the table while only registrations bind keys,  *)
(* and that they implement RoutingView.                                    *)

(* Every binding there ever was is that of the one row of its key, which   *)
(* is not deleted.                                                         *)
TableInv ==
    StableTable =>
        /\ \A p \in published : \E r \in rows : Binding(r) = p
        /\ \A r \in rows : ~r.deleted
        /\ \A r, s \in rows : r.key = s.key => r = s

RoutingInv == TypeInv /\ SourcesInv /\ TableInv

LEMMA TableInit == Init => TableInv
BY DEF Init, TableInv

(* Steps that leave the table and the history alone. *)
TableUnchanged == UNCHANGED <<rows, published>>

LEMMA TableSteps ==
    [Next]_vars =>
        \/ TableUnchanged
        \/ \E n \in Nodes, i \in Ids, k \in Keys, e \in Endpoints : Register(n, i, k, e)
        \/ \E op \in OperatorOps : Operator(op)
BY ServerCacheAssumption
DEF Next, vars, Process, Start, Stop, Registration, RegisterReturns, RegisterAbandoned,
    SendEvent, EventTask, ApplyEvent, EventTaskEnds, SyncTask, ListAll, TakeRow,
    SyncReturns, WriteRow, EndPass, TableUnchanged

LEMMA TableStep == RoutingInv /\ [Next]_vars => TableInv'
<1> SUFFICES ASSUME RoutingInv, [Next]_vars, StableTable
             PROVE  /\ \A p \in published' : \E r \in rows' : Binding(r) = p
                    /\ \A r \in rows' : ~r.deleted
                    /\ \A r, s \in rows' : r.key = s.key => r = s
  BY DEF TableInv, Binding, StableTable
<1> DEFINE Bound(P, R) == \A p \in P : \E r \in R : Binding(r) = p
           Live(R) == \A r \in R : ~r.deleted
           OnePerKey(R) == \A r, s \in R : r.key = s.key => r = s
<1>1. Bound(published, rows) /\ Live(rows) /\ OnePerKey(rows) /\ rows \subseteq Row
  BY DEF RoutingInv, TableInv, TypeInv, TypeOK
<1>2. CASE TableUnchanged
  BY <1>1, <1>2 DEF TableUnchanged
<1>3. ASSUME NEW n \in Nodes, NEW i \in Ids, NEW k \in Keys, NEW e \in Endpoints,
             Register(n, i, k, e)
      PROVE  Bound(published', rows') /\ Live(rows') /\ OnePerKey(rows')
  <2> DEFINE new == NewRow(i, k, e)
  <2>1. /\ rows' = rows \cup {new}
        /\ published' = published \cup {<<k, e>>}
        /\ \A s \in rows : s.key # new.key
    BY <1>1, <1>3 DEF Register, Insertable
  <2>2. Binding(new) = <<k, e>> /\ ~new.deleted
    BY DEF NewRow, Binding
  <2> HIDE DEF new
  <2> QED
    BY <1>1, <2>1, <2>2
<1>4. ~\E op \in OperatorOps : Operator(op)
  BY DEF StableTable
<1> HIDE DEF Bound, Live, OnePerKey
<1>5. Bound(published', rows') /\ Live(rows') /\ OnePerKey(rows')
  <2>1. CASE TableUnchanged
    BY <1>1, <2>1 DEF TableUnchanged
  <2> QED
    BY <2>1, <1>3, <1>4, TableSteps
<1> QED
  BY <1>5 DEF Bound, Live, OnePerKey

LEMMA RoutingInit == Init => RoutingInv
BY TypeInit, SourcesInit, TableInit DEF RoutingInv

LEMMA RoutingStep == RoutingInv /\ [Next]_vars => RoutingInv'
BY TypeStep, SourcesStep, TableStep DEF RoutingInv

(* While only registrations bind keys, an entry is the parse of its key's  *)
(* row, in every replica alike.                                            *)
THEOREM CachesAgreeWithTable == Spec => []CacheAgreesWithTable
<1>1. RoutingInv => CacheAgreesWithTable
  <2> SUFFICES ASSUME RoutingInv, StableTable, NEW n \in Nodes, NEW k \in Keys, Cached(n, k)
               PROVE  \E r \in rows : /\ r.key = k
                                      /\ cache[n][k] = parse_endpoint(r.endpoint)
    BY DEF CacheAgreesWithTable
  <2>1. /\ <<k, cache[n][k].endpoint>> \in published
        /\ cache[n][k] = parse_endpoint(cache[n][k].endpoint)
    BY DEF RoutingInv, SourcesInv, CacheHoldsPublished
  <2>2. PICK r \in rows : Binding(r) = <<k, cache[n][k].endpoint>>
    BY <2>1 DEF RoutingInv, TableInv
  <2> QED
    BY <2>1, <2>2 DEF Binding
<1> QED
  BY RoutingInit, RoutingStep, <1>1, PTL DEF Spec
-----------------------------------------------------------------------------
(* The refinement of RoutingView.                                          *)

(* A step that stores an entry leaves the history alone, and one that      *)
(* extends the history leaves the caches alone.                            *)
LEMMA RoutingSteps ==
    ASSUME TypeInv, SourcesInv, [Next]_vars
    PROVE  \/ UNCHANGED <<published, cache>>
           \/ \E n \in Nodes : Stop(n)
           \/ \E n \in Nodes, k \in Keys : Stores(n, k) /\ UNCHANGED published
           \/ \E n \in Nodes, i \in Ids, k \in Keys, e \in Endpoints : Register(n, i, k, e)
           \/ ~StableTable /\ \E r \in rows, e \in Endpoints : OperatorEdit(r, e)
<1>1. ASSUME NEW n \in Nodes, ApplyEvent(n)
      PROVE  \E k \in Keys : Stores(n, k) /\ UNCHANGED published
  BY <1>1, ApplyStores DEF ApplyEvent
<1>2. ASSUME NEW n \in Nodes, WriteRow(n)
      PROVE  \E k \in Keys : Stores(n, k) /\ UNCHANGED published
  BY <1>2, WriteStores DEF WriteRow
<1> QED
  BY <1>1, <1>2
  DEF Next, vars, Process, Start, Registration, RegisterReturns, RegisterAbandoned,
      SendEvent, EventTask, EventTaskEnds, SyncTask, ListAll, TakeRow, SyncReturns,
      EndPass, Operator, OperatorRetire, StableTable

LEMMA ViewInit == Init => RV!Init
BY DEF Init, EmptyCache, Cached, View, RV!Init, RV!Unrouted

LEMMA StopForgets ==
    ASSUME TypeOK, NEW n \in Nodes, Stop(n)
    PROVE  RV!Forget(n)
<1>1. \A m \in Nodes : cache'[m] = IF m = n THEN EmptyCache ELSE cache[m]
  BY DEF Stop, TypeOK
<1>2. View' = [View EXCEPT ![n] = [k \in Keys |-> NoServer]]
  BY <1>1, ZenonT(60) DEF View, Cached, EmptyCache
<1> QED
  BY <1>2 DEF RV!Forget, RV!Unrouted, View, Stop

LEMMA StoreLearns ==
    ASSUME TypeOK, NEW n \in Nodes, NEW k \in Keys, Stores(n, k), UNCHANGED published
    PROVE  \E e \in Endpoints : Parses(e) /\ RV!Learn(n, k, e)
<1>1. PICK e \in Endpoints :
         /\ <<k, e>> \in published
         /\ Parses(e)
         /\ cache' = [cache EXCEPT ![n][k] = parse_endpoint(e)]
  BY DEF Stores
<1>2. parse_endpoint(e) # NoServer /\ parse_endpoint(e).endpoint = e
  BY <1>1, ParseType, ParseKeepsEndpoint, ServerCacheAssumption
<1>3. \A m \in Nodes, j \in Keys :
         cache'[m][j] = IF m = n /\ j = k THEN parse_endpoint(e) ELSE cache[m][j]
  BY <1>1 DEF TypeOK
<1>4. \A m \in Nodes, j \in Keys :
         View'[m][j] = IF m = n /\ j = k THEN e ELSE View[m][j]
  BY <1>2, <1>3 DEF View, Cached
<1>5. View' = [View EXCEPT ![n][k] = e]
  <2>1. View' = [m \in Nodes |-> [j \in Keys |-> View'[m][j]]]
    BY DEF View
  <2>2. [View EXCEPT ![n][k] = e]
          = [m \in Nodes |-> [j \in Keys |-> IF m = n /\ j = k THEN e ELSE View[m][j]]]
    BY DEF View
  <2> HIDE DEF View
  <2> QED
    BY <1>4, <2>1, <2>2
<1> QED
  BY <1>1, <1>5 DEF RV!Learn, View

(* A registration binds a key no row holds, so no binding was published    *)
(* for it when operators bind none.                                        *)
LEMMA RegisterPublishes ==
    ASSUME RoutingInv, NEW n \in Nodes, NEW i \in Ids, NEW k \in Keys,
           NEW e \in Endpoints, Register(n, i, k, e)
    PROVE  RV!Publish(k, e)
<1>1. ASSUME StableTable, NEW x \in Endpoints, <<k, x>> \in published PROVE FALSE
  <2>1. PICK r \in rows : Binding(r) = <<k, x>>
    BY <1>1 DEF RoutingInv, TableInv
  <2>2. r.key = k /\ ~r.deleted
    BY <1>1, <2>1 DEF RoutingInv, TableInv, Binding
  <2> QED
    BY <2>2 DEF Register, Insertable, NewRow
<1> QED
  BY <1>1 DEF Register, RV!Publish, RV!Bound, View, Cached

LEMMA EditPublishes ==
    ASSUME TypeOK, ~StableTable, NEW r \in rows, NEW e \in Endpoints, OperatorEdit(r, e)
    PROVE  r.key \in Keys /\ RV!Publish(r.key, e)
BY DEF OperatorEdit, TypeOK, Row, RV!Publish, View, Cached

LEMMA ViewStep == RoutingInv /\ [Next]_vars => [RV!Next]_(RV!viewVars)
<1> SUFFICES ASSUME RoutingInv, [Next]_vars PROVE [RV!Next]_(RV!viewVars)
  OBVIOUS
<1>1. TypeInv /\ TypeOK /\ SourcesInv
  BY DEF RoutingInv, TypeInv
<1>2. CASE UNCHANGED <<published, cache>>
  BY <1>2 DEF RV!viewVars, View, Cached
<1>3. ASSUME NEW n \in Nodes, Stop(n) PROVE RV!Next
  BY <1>1, <1>3, StopForgets DEF RV!Next
<1>4. ASSUME NEW n \in Nodes, NEW k \in Keys, Stores(n, k), UNCHANGED published
      PROVE  RV!Next
  BY <1>1, <1>4, StoreLearns DEF RV!Next
<1>5. ASSUME NEW n \in Nodes, NEW i \in Ids, NEW k \in Keys, NEW e \in Endpoints,
             Register(n, i, k, e)
      PROVE  RV!Next
  BY <1>5, RegisterPublishes DEF RV!Next
<1>6. ASSUME ~StableTable, NEW r \in rows, NEW e \in Endpoints, OperatorEdit(r, e)
      PROVE  RV!Next
  BY <1>1, <1>6, EditPublishes DEF RV!Next
<1> QED
  BY <1>1, <1>2, <1>3, <1>4, <1>5, <1>6, RoutingSteps

(* The replicas' caches implement the routing view: initial states map to  *)
(* its initial states, and every step of a task, a handler, a process or   *)
(* an operator maps to one of its steps or to a stutter.                   *)
THEOREM CachesImplementView == Spec => RoutingViewHolds
BY RoutingInit, RoutingStep, ViewInit, ViewStep, PTL
DEF Spec, RoutingViewHolds, RV!Spec
=============================================================================
