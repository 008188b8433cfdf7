----------------------------- MODULE PassProofs -----------------------------
(***************************************************************************)
(* What the sync task of ServerCache achieves beside the event task, and   *)
(* when either task ends, for every value of the constants.                *)
(***************************************************************************)
EXTENDS ServerCacheProofs, FiniteSetTheorems

(* While only registrations bind keys, two bindings of a key are one. *)
LEMMA OneBindingPerKey ==
    ASSUME TableInv, StableTable,
           NEW p \in published, NEW q \in published, p[1] = q[1]
    PROVE  p = q
<1>1. PICK r \in rows : Binding(r) = p
  BY DEF TableInv
<1>2. PICK s \in rows : Binding(s) = q
  BY DEF TableInv
<1>3. r.key = s.key
  BY <1>1, <1>2 DEF Binding
<1> QED
  BY <1>1, <1>2, <1>3 DEF TableInv

(* What a pass has behind it. *)
Loaded(n) == sync[n].list \ sync[n].todo

(* A pass gets a row behind it by writing it, and only then. *)
LEMMA LoadedStep ==
    ASSUME TypeInv, SourcesInv, [Next]_vars, NEW n \in Nodes
    PROVE  \/ Loaded(n)' = {}
           \/ WriteRow(n)
           \/ /\ Loaded(n)' = Loaded(n)
              /\ cache'[n] = cache[n] \/ \E k \in Keys : Stores(n, k)
<1>1. TypeOK
  BY DEF TypeInv
<1>2. ASSUME NEW m \in Nodes, Start(m) \/ Stop(m)
      PROVE  Loaded(n)' = {} \/ (sync'[n] = sync[n] /\ cache'[n] = cache[n])
  <2>1. CASE m # n
    BY <1>1, <1>2, <2>1 DEF Start, Stop, TypeOK
  <2>2. CASE m = n
    <3>1. sync'[n] = Idle \/ sync'[n] = Ended
      BY <1>1, <1>2, <2>2 DEF Start, Stop, TypeOK
    <3> QED
      BY <3>1 DEF Idle, Ended, Loaded
  <2> QED
    BY <2>1, <2>2
<1>3. ASSUME NEW m \in Nodes, ListAll(m) \/ SyncReturns(m) \/ EndPass(m)
      PROVE  Loaded(n)' = {} \/ (sync'[n] = sync[n] /\ cache'[n] = cache[n])
  BY <1>1, <1>3 DEF ListAll, SyncReturns, EndPass, Idle, Ended, Loaded, TypeOK
<1>4. ASSUME NEW m \in Nodes, TakeRow(m)
      PROVE  Loaded(n)' = Loaded(n) /\ cache'[n] = cache[n]
  BY <1>1, <1>4 DEF TakeRow, Loaded, TypeOK
<1>5. ASSUME NEW m \in Nodes, WriteRow(m)
      PROVE  WriteRow(n) \/ (sync'[n] = sync[n] /\ cache'[n] = cache[n])
  <2>1. CASE m # n
    BY <1>1, <1>5, <2>1 DEF WriteRow, TypeOK
  <2> QED
    BY <1>5, <2>1
<1>6. ASSUME NEW m \in Nodes, ApplyEvent(m)
      PROVE  /\ sync' = sync
             /\ cache'[n] = cache[n] \/ \E k \in Keys : Stores(n, k)
  <2>1. CASE m = n
    BY <1>6, <2>1, ApplyStores DEF ApplyEvent
  <2>2. CASE m # n
    BY <1>1, <1>6, <2>2 DEF ApplyEvent, TypeOK
  <2> QED
    BY <2>1, <2>2
<1>7. \/ UNCHANGED <<sync, cache>>
      \/ \E m \in Nodes : \/ Start(m) \/ Stop(m)
                          \/ ListAll(m) \/ SyncReturns(m) \/ EndPass(m)
                          \/ TakeRow(m) \/ WriteRow(m) \/ ApplyEvent(m)
  BY ZenonT(60) DEF Next, vars, Process, Registration, Register, RegisterReturns,
         RegisterAbandoned, SendEvent, EventTask, EventTaskEnds, SyncTask,
         Operator, OperatorEdit, OperatorRetire
<1>8. sync'[n] = sync[n] => Loaded(n)' = Loaded(n)
  BY DEF Loaded
<1> QED
  BY <1>2, <1>3, <1>4, <1>5, <1>6, <1>7, <1>8

LEMMA PassStep ==
    RoutingInv /\ PassLoadsItsListing /\ [Next]_vars => PassLoadsItsListing'
<1> SUFFICES ASSUME RoutingInv, PassLoadsItsListing, [Next]_vars, StableTable,
                    NEW n \in Nodes, NEW r \in Loaded(n)'
             PROVE  cache'[n][r.key] = parse_endpoint(r.endpoint)
  BY DEF PassLoadsItsListing, Loaded, StableTable
<1>1. TypeInv /\ TypeOK /\ SourcesInv /\ TableInv
  BY DEF RoutingInv, TypeInv
<1>2. \A s \in Loaded(n) : cache[n][s.key] = parse_endpoint(s.endpoint)
  BY DEF PassLoadsItsListing, Loaded
<1>3. cache \in [Nodes -> [Keys -> McpServerInfo \cup {NoServer}]]
  BY <1>1 DEF TypeOK
<1>4. sync[n].list \subseteq PublishedRows
  BY <1>1 DEF SourcesInv
<1>5. CASE WriteRow(n)
  <2>1. PICK s \in sync[n].todo :
           /\ cache' = [cache EXCEPT ![n][s.key] = parse_endpoint(s.endpoint)]
           /\ sync' = [sync EXCEPT ![n].pc = "scan", ![n].todo = sync[n].todo \ {s}]
    BY <1>5 DEF WriteRow
  <2>2. s \in PublishedRows
    BY <1>1, <1>4 DEF TypeInv, ListingInv
  <2>3. r = s \/ r \in Loaded(n)
    BY <1>1, <2>1 DEF Loaded, TypeOK
  <2>4. r \in PublishedRows
    BY <1>4, <2>2, <2>3 DEF Loaded
  <2>5. r.key = s.key => r.endpoint = s.endpoint
    BY <1>1, <2>2, <2>4, OneBindingPerKey DEF PublishedRows, Binding
  <2>6. r.key \in Keys /\ s.key \in Keys
    BY <2>2, <2>4 DEF PublishedRows, Row
  <2>7. /\ cache'[n][s.key] = parse_endpoint(s.endpoint)
        /\ r.key # s.key => cache'[n][r.key] = cache[n][r.key]
    BY <1>3, <2>1, <2>6
  <2> QED
    BY <1>2, <2>3, <2>5, <2>7
<1>6. CASE Loaded(n)' = Loaded(n) /\ cache'[n] = cache[n]
  BY <1>2, <1>6
<1>7. ASSUME NEW k \in Keys, Stores(n, k), Loaded(n)' = Loaded(n)
      PROVE  cache'[n][r.key] = parse_endpoint(r.endpoint)
  <2>1. PICK e \in Endpoints :
           /\ <<k, e>> \in published
           /\ cache' = [cache EXCEPT ![n][k] = parse_endpoint(e)]
    BY <1>7 DEF Stores
  <2>2. r \in PublishedRows /\ cache[n][r.key] = parse_endpoint(r.endpoint)
    BY <1>2, <1>4, <1>7 DEF Loaded
  <2>3. r.key = k => r.endpoint = e
    BY <1>1, <2>1, <2>2, OneBindingPerKey DEF PublishedRows, Binding
  <2>4. r.key \in Keys
    BY <2>2 DEF PublishedRows, Row
  <2>5. /\ cache'[n][k] = parse_endpoint(e)
        /\ r.key # k => cache'[n][r.key] = cache[n][r.key]
    BY <1>3, <2>1, <2>4
  <2> QED
    BY <2>2, <2>3, <2>5
<1> QED
  BY <1>1, <1>5, <1>6, <1>7, LoadedStep

(* While only registrations bind keys, a pass that ends has loaded every   *)
(* row it listed, although the locks it takes leave room for events        *)
(* between its look at a row and its write.                                *)
THEOREM PassesLoadTheirListing == Spec => []PassLoadsItsListing
<1>1. Init => PassLoadsItsListing
  BY DEF Init, Ended, PassLoadsItsListing
<1> QED
  BY RoutingInit, RoutingStep, PassStep, <1>1, PTL DEF Spec
-----------------------------------------------------------------------------
SomeCached(n) == \E k \in Keys : Cached(n, k)

(* A running process never loses an entry. *)
LEMMA CachedStays ==
    ASSUME TypeInv, SourcesInv, [Next]_vars, NEW n \in Nodes, SomeCached(n)
    PROVE  SomeCached(n)' \/ Stop(n)
<1>1. cache \in [Nodes -> [Keys -> McpServerInfo \cup {NoServer}]]
  BY DEF TypeInv, TypeOK
<1>2. ASSUME NEW m \in Nodes, Stop(m), m # n PROVE SomeCached(n)'
  BY <1>1, <1>2 DEF Stop, SomeCached, Cached
<1>3. ASSUME NEW m \in Nodes, NEW j \in Keys, Stores(m, j) PROVE SomeCached(n)'
  <2>1. PICK e \in Endpoints : /\ Parses(e)
                               /\ cache' = [cache EXCEPT ![m][j] = parse_endpoint(e)]
    BY <1>3 DEF Stores
  <2>2. parse_endpoint(e) # NoServer
    BY <2>1, ParseType, ServerCacheAssumption
  <2>3. \A k \in Keys : cache'[n][k] = cache[n][k] \/ cache'[n][k] = parse_endpoint(e)
    BY <1>1, <2>1
  <2> QED
    BY <2>2, <2>3 DEF SomeCached, Cached
<1>4. CASE UNCHANGED cache
  BY <1>4 DEF SomeCached, Cached
<1> QED
  BY <1>2, <1>3, <1>4, EntriesStep

(* The sync task ends at a row that is cached, when all rows parse. *)
LEMMA EndedAtCachedRow ==
    ASSUME TypeInv, SourcesInv, NEW n \in Nodes, SyncReturns(n), WellFormed
    PROVE  SomeCached(n)'
<1>1. PICK r \in sync[n].todo : Parses(r.endpoint) => CachedAlready(n, r)
  BY DEF SyncReturns
<1>2. r \in PublishedRows
  BY DEF TypeInv, ListingInv, SourcesInv
<1>3. Parses(r.endpoint) /\ r.key \in Keys
  BY <1>2 DEF WellFormed, PublishedRows, Binding, Row
<1> QED
  BY <1>1, <1>3 DEF CachedAlready, SyncReturns, SomeCached, Cached

(* Only a running task ends, and it ends by returning. *)
LEMMA EndedStep ==
    ASSUME TypeInv, [Next]_vars, NEW n \in Nodes, up'[n], sync'[n].pc = "ended"
    PROVE  SyncReturns(n) \/ (up[n] /\ sync[n].pc = "ended" /\ ~Stop(n))
<1> USE DEF TypeInv, TypeOK
<1>1. ASSUME NEW m \in Nodes, Start(m) \/ Stop(m) PROVE m # n
  BY <1>1 DEF Start, Stop, Idle
<1>2. ASSUME NEW m \in Nodes, ListAll(m) \/ TakeRow(m) \/ WriteRow(m) \/ EndPass(m)
      PROVE  m # n
  BY <1>2 DEF ListAll, TakeRow, WriteRow, EndPass, Idle
<1>3. ASSUME NEW m \in Nodes, m # n,
             \/ Start(m) \/ Stop(m) \/ ListAll(m) \/ TakeRow(m) \/ SyncReturns(m)
             \/ WriteRow(m) \/ EndPass(m)
      PROVE  up'[n] = up[n] /\ sync'[n] = sync[n]
  BY <1>3 DEF Start, Stop, ListAll, TakeRow, SyncReturns, WriteRow, EndPass
<1>4. ~Stop(n)
  BY DEF Stop
<1>5. \/ UNCHANGED <<sync, up>>
      \/ \E m \in Nodes : \/ Start(m) \/ Stop(m) \/ ListAll(m) \/ TakeRow(m)
                          \/ SyncReturns(m) \/ WriteRow(m) \/ EndPass(m)
  BY ZenonT(60) DEF Next, vars, Process, Registration, Register, RegisterReturns,
         RegisterAbandoned, SendEvent, EventTask, ApplyEvent, EventTaskEnds,
         SyncTask, Operator, OperatorEdit, OperatorRetire
<1> QED
  BY <1>1, <1>2, <1>3, <1>4, <1>5

LEMMA EndedSyncStep ==
    TypeInv /\ SourcesInv /\ EmptyReplicaStillSyncs /\ [Next]_vars
        => EmptyReplicaStillSyncs'
<1> SUFFICES ASSUME TypeInv, SourcesInv, EmptyReplicaStillSyncs, [Next]_vars,
                    WellFormed', NEW n \in Nodes, up'[n], sync'[n].pc = "ended"
             PROVE  SomeCached(n)'
  BY DEF EmptyReplicaStillSyncs, WellFormed, SomeCached
<1>1. WellFormed
  BY PublishedGrows DEF WellFormed
<1>2. CASE SyncReturns(n)
  BY <1>1, <1>2, EndedAtCachedRow
<1>3. CASE up[n] /\ sync[n].pc = "ended" /\ ~Stop(n)
  <2>1. SomeCached(n)
    BY <1>1, <1>3 DEF EmptyReplicaStillSyncs, WellFormed, SomeCached
  <2> QED
    BY <1>3, <2>1, CachedStays
<1> QED
  BY <1>2, <1>3, EndedStep

(* With well-formed endpoints only, a running replica whose sync task has  *)
(* ended has an entry in its cache: one that routes nothing still reads    *)
(* the table.                                                              *)
THEOREM EmptyReplicasSync == Spec => []EmptyReplicaStillSyncs
<1>1. Init => EmptyReplicaStillSyncs
  BY DEF Init, EmptyReplicaStillSyncs
<1> QED
  BY TypeInit, TypeStep, SourcesInit, SourcesStep, EndedSyncStep, <1>1, PTL DEF Spec
-----------------------------------------------------------------------------
(* The event task.                                                         *)

(* A full channel does not lose an event; one with room gets one more. *)
LEMMA SendLength ==
    ASSUME NEW E, NEW b \in Bus(E), NEW ev \in E, ~b.lagged, Len(b.queue) < BusCapacity
    PROVE  /\ Len(Send(b, ev).queue) \in {Len(b.queue), Len(b.queue) + 1}
           /\ ~Send(b, ev).lagged /\ Send(b, ev).open = b.open
<1>1. b.queue \in Seq(E)
  BY DEF Bus
<1>2. CASE b.open
  <2>1. Send(b, ev) = [queue |-> Append(b.queue, ev), lagged |-> b.lagged, open |-> b.open]
    BY <1>2 DEF Send, Bus
  <2>2. Len(Append(b.queue, ev)) = Len(b.queue) + 1
    BY <1>1
  <2> QED
    BY <2>1, <2>2
<1>3. CASE ~b.open
  BY <1>3 DEF Send
<1> QED
  BY <1>2, <1>3

SentEvent(r) ==
    [kind |-> "CreateOrUpdate", key |-> r.key, endpoint |-> r.endpoint]

(* Everything that may happen to the rows, to the registrations of a       *)
(* replica or to its channel.                                              *)
LEMMA EventSteps ==
    ASSUME [Next]_vars, NEW n \in Nodes
    PROVE  \/ Start(n) \/ Stop(n)
           \/ \E i \in Ids, k \in Keys, e \in Endpoints : Register(n, i, k, e)
           \/ \E r \in inserted[n] : RegisterReturns(n, r) \/ RegisterAbandoned(n, r)
           \/ \E r \in outbox[n] : SendEvent(n, r)
           \/ ApplyEvent(n) \/ EventTaskEnds(n)
           \/ \E m \in Nodes \ {n} : \/ Process(m) \/ EventTask(m)
                                     \/ Registration(m)
           \/ \E m \in Nodes : SyncTask(m)
           \/ \E op \in OperatorOps : Operator(op)
           \/ UNCHANGED vars
  BY DEF Next, Process, Registration, EventTask

(* Other replicas, the sync tasks and operators leave a replica's          *)
(* registrations and its channel alone.                                    *)
LEMMA OthersLeaveAlone ==
    ASSUME TypeOK, NEW n \in Nodes,
           \/ \E m \in Nodes \ {n} : Process(m) \/ EventTask(m) \/ Registration(m)
           \/ \E m \in Nodes : SyncTask(m)
           \/ \E op \in OperatorOps : Operator(op)
           \/ UNCHANGED vars
    PROVE  /\ inserted'[n] = inserted[n] /\ outbox'[n] = outbox[n]
           /\ bus'[n] = bus[n] /\ up'[n] = up[n]
<1> USE DEF TypeOK
<1>1. ASSUME NEW m \in Nodes \ {n}, Process(m) \/ EventTask(m)
      PROVE  /\ inserted'[n] = inserted[n] /\ outbox'[n] = outbox[n]
             /\ bus'[n] = bus[n] /\ up'[n] = up[n]
  BY <1>1 DEF Process, Start, Stop, EventTask, ApplyEvent, EventTaskEnds
<1>2. ASSUME NEW m \in Nodes \ {n}, Registration(m)
      PROVE  /\ inserted'[n] = inserted[n] /\ outbox'[n] = outbox[n]
             /\ bus'[n] = bus[n] /\ up'[n] = up[n]
  BY <1>2 DEF Registration, Register, RegisterReturns, RegisterAbandoned, SendEvent
<1>3. ASSUME NEW m \in Nodes, SyncTask(m) PROVE UNCHANGED <<inserted, outbox, bus, up>>
  BY <1>3 DEF SyncTask, ListAll, TakeRow, SyncReturns, WriteRow, EndPass
<1>4. CASE \E op \in OperatorOps : Operator(op)
  BY <1>4 DEF Operator, OperatorEdit, OperatorRetire
<1>5. CASE UNCHANGED vars
  BY <1>5 DEF vars
<1> QED
  BY <1>1, <1>2, <1>3, <1>4, <1>5

(* What keeps the task of a replica alive: it has lost no event, and those *)
(* on its channel apply.                                                   *)
Alive(n) ==
    /\ ~bus[n].lagged
    /\ up[n] => bus[n].open
    /\ bus[n] \in Bus({ev \in Event : Applicable(ev)})
    /\ IsFiniteSet(outbox[n])

LEMMA SendKeepsAlive ==
    ASSUME TypeOK, NEW n \in Nodes, Alive(n), Undisturbed(n),
           NEW r \in outbox[n], SendEvent(n, r)
    PROVE  Alive(n)'
<1> DEFINE Good == {ev \in Event : Applicable(ev)}
<1>1. /\ bus'[n] = Send(bus[n], SentEvent(r)) /\ up' = up
      /\ outbox'[n] = outbox[n] \ {r}
  BY DEF SendEvent, TypeOK, SentEvent
<1>2. bus[n] \in Bus(Good) /\ ~bus[n].lagged /\ IsFiniteSet(outbox[n])
  BY DEF Alive
<1>3. SentEvent(r) \in Good
  <2>1. r \in Row /\ Parses(r.endpoint)
    BY DEF TypeOK, Undisturbed
  <2> QED
    BY <2>1 DEF SentEvent, Event, Row, Applicable
<1>4. Len(bus[n].queue) < BusCapacity
  <2>1. Cardinality(outbox[n]) \in Nat \ {0}
    BY <1>2, FS_CardinalityType, FS_EmptySet
  <2>2. Len(bus[n].queue) \in Nat /\ BusCapacity \in Nat
    BY <1>2, BusCapacityAssumption DEF Bus
  <2>3. Cardinality(outbox[n]) + Len(bus[n].queue) <= BusCapacity
    BY DEF Undisturbed
  <2> QED
    BY <2>1, <2>2, <2>3
<1>5. IsFiniteSet(outbox'[n])
  BY <1>1, <1>2, FS_Subset
<1> HIDE DEF Good
<1>6. /\ ~Send(bus[n], SentEvent(r)).lagged
      /\ Send(bus[n], SentEvent(r)).open = bus[n].open
  BY <1>2, <1>3, <1>4, SendLength
<1>7. Send(bus[n], SentEvent(r)) \in Bus(Good)
  BY <1>2, <1>3, SendType
<1> QED
  BY <1>1, <1>5, <1>6, <1>7 DEF Alive, Good, Applicable

LEMMA AliveStep ==
    ASSUME NEW n \in Nodes
    PROVE  TypeInv /\ Alive(n) /\ Undisturbed(n) /\ [Next]_vars => Alive(n)'
<1> SUFFICES ASSUME TypeInv, Alive(n), Undisturbed(n), [Next]_vars
             PROVE  Alive(n)'
  OBVIOUS
<1> DEFINE Good == {ev \in Event : Applicable(ev)}
<1>1. TypeOK
  BY DEF TypeInv
<1>2. /\ bus[n] \in Bus(Good) /\ ~bus[n].lagged /\ IsFiniteSet(outbox[n])
      /\ up[n] => bus[n].open
  BY DEF Alive
<1>3. Subscribed \in Bus(Good) /\ Unsubscribed \in Bus(Good)
  BY DEF Subscribed, Unsubscribed, Bus
<1>4. Alive(n)' <=> /\ ~bus'[n].lagged /\ IsFiniteSet(outbox'[n])
                    /\ up'[n] => bus'[n].open
                    /\ bus'[n] \in Bus(Good)
  BY DEF Alive, Applicable
<1>5. bus[n].queue # <<>> => Applicable(Head(bus[n].queue))
  <2>1. bus[n].queue # <<>> => Head(bus[n].queue) \in Good
    BY <1>2, RecvType
  <2> QED
    BY <2>1
<1> HIDE DEF Good
<1>6. CASE Start(n)
  <2>1. bus'[n] = Subscribed /\ outbox' = outbox
    BY <1>1, <1>6 DEF Start, TypeOK
  <2> QED
    BY <1>2, <1>3, <1>4, <2>1 DEF Subscribed
<1>7. CASE Stop(n)
  <2>1. bus'[n] = Unsubscribed /\ outbox'[n] = {} /\ ~up'[n]
    BY <1>1, <1>7 DEF Stop, TypeOK
  <2> QED
    BY <1>3, <1>4, <2>1, FS_EmptySet DEF Unsubscribed
<1>8. CASE ApplyEvent(n)
  <2>1. bus'[n] = [bus[n] EXCEPT !.queue = Tail(@)] /\ up' = up /\ outbox' = outbox
    BY <1>1, <1>8 DEF ApplyEvent, TypeOK
  <2>2. bus[n].queue # <<>>
    BY <1>8 DEF ApplyEvent
  <2>3. bus'[n] \in Bus(Good)
    BY <1>2, <2>1, <2>2, RecvType
  <2>4. bus'[n].lagged = bus[n].lagged /\ bus'[n].open = bus[n].open
    BY <1>2, <2>1 DEF Bus
  <2> QED
    BY <1>2, <1>4, <2>1, <2>3, <2>4
<1>9. ~EventTaskEnds(n)
  BY <1>2, <1>5 DEF EventTaskEnds
<1>10. CASE \E i \in Ids, k \in Keys, e \in Endpoints : Register(n, i, k, e)
  BY <1>2, <1>4, <1>10 DEF Register
<1>11. CASE \E r \in inserted[n] : RegisterReturns(n, r) \/ RegisterAbandoned(n, r)
  <2>1. PICK r : outbox'[n] = outbox[n] \/ outbox'[n] = outbox[n] \cup {r}
    BY <1>1, <1>11 DEF RegisterReturns, RegisterAbandoned, TypeOK
  <2>2. bus' = bus /\ up' = up
    BY <1>11 DEF RegisterReturns, RegisterAbandoned
  <2>3. IsFiniteSet(outbox'[n])
    BY <1>2, <2>1, FS_AddElement
  <2> QED
    BY <1>2, <1>4, <2>2, <2>3
<1>12. CASE \/ \E m \in Nodes \ {n} : Process(m) \/ EventTask(m) \/ Registration(m)
            \/ \E m \in Nodes : SyncTask(m)
            \/ \E op \in OperatorOps : Operator(op)
            \/ UNCHANGED vars
  <2>1. bus'[n] = bus[n] /\ up'[n] = up[n] /\ outbox'[n] = outbox[n]
    BY <1>1, <1>12, OthersLeaveAlone
  <2> QED
    BY <1>2, <1>4, <2>1
<1> QED
  BY <1>1, <1>6, <1>7, <1>8, <1>9, <1>10, <1>11, <1>12, EventSteps, SendKeepsAlive

(* The event task of a replica ends with its process only, as long as the  *)
(* registrations it answers itself are well-formed and no more of them     *)
(* wait than its channel holds; what other replicas and operators do never *)
(* ends it.                                                                *)
THEOREM EventTasksSurvive == Spec => EventTaskSurvives
<1>1. ASSUME NEW n \in Nodes
      PROVE  Spec => ([]Undisturbed(n) => [](up[n] => bus[n].open))
  <2>1. Init => Alive(n)
    BY FS_EmptySet DEF Init, Alive, Unsubscribed, Bus
  <2>2. Alive(n) => (up[n] => bus[n].open)
    BY DEF Alive
  <2>3. TypeInv /\ Alive(n) /\ Undisturbed(n) /\ [Next]_vars => Alive(n)'
    BY AliveStep
  <2> QED
    BY TypeInit, TypeStep, <2>1, <2>2, <2>3, PTL DEF Spec
<1> QED
  BY <1>1 DEF EventTaskSurvives
=============================================================================
