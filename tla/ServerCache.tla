---------------------------- MODULE ServerCache -----------------------------
(***************************************************************************)
(* How a registered MCP server reaches the in-memory routing cache of      *)
(* every MCP Center replica.                                               *)
(*                                                                         *)
(*   register_mcp_server (mc-registry)  inserts a row, then spawns a task  *)
(*                                      that sends an event                *)
(*   handle_event        (mc-common)    task that applies events           *)
(*   async_cache         (mc-common)    task that reads the whole table at *)
(*                                      every tick                         *)
(*                                                                         *)
(* The table is in Postgres and shared by the replicas; events stay inside *)
(* the replica that took the registration.  A replica's two tasks write    *)
(* the same cache behind a RwLock, and neither is ever restarted: each     *)
(* ends for good at its first error, until the process starts again.       *)
(***************************************************************************)
EXTENDS Endpoint, EventBus, FiniteSets

CONSTANTS
    Nodes,          \* replicas (processes) sharing the table
    Registrars,     \* replicas that clients register servers with
    Keys,           \* (name, tag) pairs
    Endpoints,      \* endpoint texts that clients and operators use
    Ids,            \* primary keys; Uuid::new_v4 gives them in any order
    OperatorOps,    \* what an operator does in SQL: "edit", "retire"
    MaxStarts,      \* bound: process starts of each replica
    NoServer        \* no entry in the cache

ASSUME ServerCacheAssumption ==
    /\ Registrars \subseteq Nodes
    /\ Endpoints \subseteq GoodEndpoints \cup BadEndpoints
    /\ Ids \subseteq Nat
    /\ OperatorOps \subseteq {"edit", "retire"}
    /\ MaxStarts \in [Nodes -> Nat]
    /\ NoServer \notin McpServerInfo \cup GoodEndpoints \cup BadEndpoints

VARIABLES
    rows,           \* tb_mcp_servers
    up,             \* up[n]: the process runs
    starts,         \* starts[n]: how often it was started
    inserted,       \* inserted[n]: rows whose handler still awaits create()
    outbox,         \* outbox[n]: rows whose spawned task has yet to send
    bus,            \* bus[n]: the event channel and its receiving task
    cache,          \* cache[n][k]: server_cache
    sync,           \* sync[n]: the task of async_cache
    published       \* history: every <<key, endpoint>> the table ever held

vars == <<rows, up, starts, inserted, outbox, bus, cache, sync, published>>
-----------------------------------------------------------------------------
Row == [id : Ids, key : Keys, endpoint : Endpoints, deleted : BOOLEAN]

Event == [kind : {"Delete", "CreateOrUpdate"}, key : Keys, endpoint : Endpoints]

EmptyCache == [k \in Keys |-> NoServer]

(* pc:   "tick"   waits for the ticker, then for list_all                  *)
(*       "scan"   holds a listing, about to look at its next row           *)
(*       "write"  has dropped the read lock, awaits the write lock         *)
(*       "ended"  the task has returned                                    *)
(* list: the rows listed; todo: those the for loop has not finished.       *)
Idle  == [pc |-> "tick", list |-> {}, todo |-> {}]
Ended == [pc |-> "ended", list |-> {}, todo |-> {}]

Init ==
    /\ rows = {}
    /\ up = [n \in Nodes |-> FALSE]
    /\ starts = [n \in Nodes |-> 0]
    /\ inserted = [n \in Nodes |-> {}]
    /\ outbox = [n \in Nodes |-> {}]
    /\ bus = [n \in Nodes |-> Unsubscribed]
    /\ cache = [n \in Nodes |-> EmptyCache]
    /\ sync = [n \in Nodes |-> Ended]
    /\ published = {}
-----------------------------------------------------------------------------
(* The process.  prepare() subscribes and spawns both tasks before the     *)
(* listener opens.  Everything but the table is in memory.                 *)

Start(n) ==
    /\ ~up[n]
    /\ starts[n] < MaxStarts[n]
    /\ up' = [up EXCEPT ![n] = TRUE]
    /\ starts' = [starts EXCEPT ![n] = @ + 1]
    /\ bus' = [bus EXCEPT ![n] = Subscribed]
    /\ sync' = [sync EXCEPT ![n] = Idle]
    /\ UNCHANGED <<rows, inserted, outbox, cache, published>>

(* Exit or crash, at any point of any task. *)
Stop(n) ==
    /\ up[n]
    /\ up' = [up EXCEPT ![n] = FALSE]
    /\ inserted' = [inserted EXCEPT ![n] = {}]
    /\ outbox' = [outbox EXCEPT ![n] = {}]
    /\ bus' = [bus EXCEPT ![n] = Unsubscribed]
    /\ cache' = [cache EXCEPT ![n] = EmptyCache]
    /\ sync' = [sync EXCEPT ![n] = Ended]
    /\ UNCHANGED <<rows, starts, published>>
-----------------------------------------------------------------------------
(* register_mcp_server.  A refused or failed insert answers 500 and        *)
(* changes nothing: it is a stuttering step.                               *)

(* Mutant: the index covers no row, only the primary key does. *)
InsertableWithoutIndex(r) == \A s \in rows : s.id # r.id

(* The unique index on (name, tag) covers the rows that are not deleted. *)
Insertable(r) ==
    \A s \in rows : s.id # r.id /\ (s.key = r.key => s.deleted)

NewRow(i, k, e) ==
    [id |-> i, key |-> k, endpoint |-> e, deleted |-> FALSE]

(* Mutant: the handler goes on although create() failed. *)
RegisterUncommitted(n, i, k, e) ==
    /\ up[n]
    /\ Insertable(NewRow(i, k, e))
    /\ inserted' = [inserted EXCEPT ![n] = @ \cup {NewRow(i, k, e)}]
    /\ UNCHANGED <<rows, up, starts, outbox, bus, cache, sync, published>>

(* create() commits; nothing validates the endpoint before. *)
Register(n, i, k, e) ==
    /\ up[n]
    /\ Insertable(NewRow(i, k, e))
    /\ rows' = rows \cup {NewRow(i, k, e)}
    /\ inserted' = [inserted EXCEPT ![n] = @ \cup {NewRow(i, k, e)}]
    /\ published' = published \cup {<<k, e>>}
    /\ UNCHANGED <<up, starts, outbox, bus, cache, sync>>

(* The handler resumes: it spawns the sender and answers 200. *)
RegisterReturns(n, r) ==
    /\ r \in inserted[n]
    /\ inserted' = [inserted EXCEPT ![n] = @ \ {r}]
    /\ outbox' = [outbox EXCEPT ![n] = @ \cup {r}]
    /\ UNCHANGED <<rows, up, starts, bus, cache, sync, published>>

(* The client hangs up, which drops the handler at its await, or the       *)
(* database connection fails after the commit: no event is ever sent.      *)
RegisterAbandoned(n, r) ==
    /\ r \in inserted[n]
    /\ inserted' = [inserted EXCEPT ![n] = @ \ {r}]
    /\ UNCHANGED <<rows, up, starts, outbox, bus, cache, sync, published>>

(* The spawned tasks run in any order. *)
SendEvent(n, r) ==
    /\ r \in outbox[n]
    /\ outbox' = [outbox EXCEPT ![n] = @ \ {r}]
    /\ bus' = [bus EXCEPT ![n] = Send(@, [kind     |-> "CreateOrUpdate",
                                          key      |-> r.key,
                                          endpoint |-> r.endpoint])]
    /\ UNCHANGED <<rows, up, starts, inserted, cache, sync, published>>
-----------------------------------------------------------------------------
(* handle_event: while let Ok(event) = receiver.recv().await               *)

(* Mutants: the map is rebuilt with the one entry; the two kinds of event  *)
(* are swapped.                                                            *)
AppliedAlone(entries, ev) ==
    [EmptyCache EXCEPT ![ev.key] =
        IF ev.kind = "Delete" THEN NoServer ELSE parse_endpoint(ev.endpoint)]

AppliedSwapped(entries, ev) ==
    [entries EXCEPT ![ev.key] =
        IF ev.kind = "Delete" THEN parse_endpoint(ev.endpoint) ELSE NoServer]

Applied(entries, ev) ==
    [entries EXCEPT ![ev.key] =
        IF ev.kind = "Delete" THEN NoServer ELSE parse_endpoint(ev.endpoint)]

Applicable(ev) == ev.kind = "Delete" \/ Parses(ev.endpoint)

ApplyEvent(n) ==
    /\ ~bus[n].lagged
    /\ bus[n].queue # <<>>
    /\ Applicable(Head(bus[n].queue))
    /\ cache' = [cache EXCEPT ![n] = Applied(@, Head(bus[n].queue))]
    /\ bus' = [bus EXCEPT ![n].queue = Tail(@)]
    /\ UNCHANGED <<rows, up, starts, inserted, outbox, sync, published>>

(* Mutant: an empty channel ends the loop, as try_recv would. *)
EventTaskEndsWhenEmpty(n) ==
    /\ bus[n].open
    /\ \/ bus[n].lagged
       \/ bus[n].queue # <<>> => ~Applicable(Head(bus[n].queue))
    /\ bus' = [bus EXCEPT ![n] = Unsubscribed]
    /\ UNCHANGED <<rows, up, starts, inserted, outbox, cache, sync, published>>

(* unwrap() of a parse error panics; Lagged is not Ok and leaves the loop. *)
EventTaskEnds(n) ==
    /\ \/ bus[n].lagged
       \/ bus[n].queue # <<>> /\ ~Applicable(Head(bus[n].queue))
    /\ bus' = [bus EXCEPT ![n] = Unsubscribed]
    /\ UNCHANGED <<rows, up, starts, inserted, outbox, cache, sync, published>>
-----------------------------------------------------------------------------
(* async_cache *)

(* Mutant: a pass builds the map anew. *)
ListAllAnew(n) ==
    /\ sync[n].pc = "tick"
    /\ cache' = [cache EXCEPT ![n] = EmptyCache]
    /\ sync' = [sync EXCEPT ![n] = [pc |-> "scan", list |-> rows, todo |-> rows]]
    /\ UNCHANGED <<rows, up, starts, inserted, outbox, bus, published>>

(* A tick and a successful list_all, which filters nothing.  After a       *)
(* failed list_all the loop continues to the next tick: a stuttering step. *)
ListAll(n) ==
    /\ sync[n].pc = "tick"
    /\ sync' = [sync EXCEPT ![n] = [pc |-> "scan", list |-> rows, todo |-> rows]]
    /\ UNCHANGED <<rows, up, starts, inserted, outbox, bus, cache, published>>

(* ORDER BY id *)
NextRow(n, r) == r \in sync[n].todo /\ \A s \in sync[n].todo : r.id <= s.id

(* Mutant: an entry of any key counts as the row's own. *)
CachedAnywhere(n, r) ==
    \E k \in Keys : /\ cache[n][k] # NoServer
                    /\ SameServer(cache[n][k], parse_endpoint(r.endpoint))

CachedAlready(n, r) ==
    /\ cache[n][r.key] # NoServer
    /\ SameServer(cache[n][r.key], parse_endpoint(r.endpoint))

(* Under the read lock: the row parses and is not cached as it is. *)
TakeRow(n) ==
    /\ sync[n].pc = "scan"
    /\ \E r \in sync[n].todo :
          NextRow(n, r) /\ Parses(r.endpoint) /\ ~CachedAlready(n, r)
    /\ sync' = [sync EXCEPT ![n].pc = "write"]
    /\ UNCHANGED <<rows, up, starts, inserted, outbox, bus, cache, published>>

(* Both early returns leave the spawned task, not just the row. *)
SyncReturns(n) ==
    /\ sync[n].pc = "scan"
    /\ \E r \in sync[n].todo :
          NextRow(n, r) /\ (Parses(r.endpoint) => CachedAlready(n, r))
    /\ sync' = [sync EXCEPT ![n] = Ended]
    /\ UNCHANGED <<rows, up, starts, inserted, outbox, bus, cache, published>>

(* Under the write lock, taken after the read lock was dropped. *)
WriteRow(n) ==
    /\ sync[n].pc = "write"
    /\ \E r \in sync[n].todo :
          /\ NextRow(n, r)
          /\ cache' = [cache EXCEPT ![n][r.key] = parse_endpoint(r.endpoint)]
          /\ sync' = [sync EXCEPT ![n].pc = "scan", ![n].todo = @ \ {r}]
    /\ UNCHANGED <<rows, up, starts, inserted, outbox, bus, published>>

(* Mutant: the table is read only once. *)
EndPassForGood(n) ==
    /\ sync[n].pc = "scan"
    /\ sync[n].todo = {}
    /\ sync' = [sync EXCEPT ![n] = Ended]
    /\ UNCHANGED <<rows, up, starts, inserted, outbox, bus, cache, published>>

EndPass(n) ==
    /\ sync[n].pc = "scan"
    /\ sync[n].todo = {}
    /\ sync' = [sync EXCEPT ![n] = Idle]
    /\ UNCHANGED <<rows, up, starts, inserted, outbox, bus, cache, published>>
-----------------------------------------------------------------------------
(* The operator, in SQL: no handler updates a row, but the schema has      *)
(* updated_at and deleted_at, and async_cache compares a row with its      *)
(* entry because rows may change.  An update of a column that nothing      *)
(* reads, as disabled, is a stuttering step.                               *)

Update(r, s) == rows' = (rows \ {r}) \cup {s}

OperatorEdit(r, e) ==
    /\ r.endpoint # e
    /\ Update(r, [r EXCEPT !.endpoint = e])
    /\ published' = published \cup {<<r.key, e>>}
    /\ UNCHANGED <<up, starts, inserted, outbox, bus, cache, sync>>

OperatorRetire(r) ==
    /\ ~r.deleted
    /\ Update(r, [r EXCEPT !.deleted = TRUE])
    /\ UNCHANGED <<up, starts, inserted, outbox, bus, cache, sync, published>>
-----------------------------------------------------------------------------
Process(n) == Start(n) \/ Stop(n)

Registration(n) ==
    \/ n \in Registrars /\ \E i \in Ids, k \in Keys, e \in Endpoints :
                              Register(n, i, k, e)
    \/ \E r \in inserted[n] : RegisterReturns(n, r) \/ RegisterAbandoned(n, r)
    \/ \E r \in outbox[n] : SendEvent(n, r)

EventTask(n) == ApplyEvent(n) \/ EventTaskEnds(n)

SyncTask(n) ==
    ListAll(n) \/ TakeRow(n) \/ SyncReturns(n) \/ WriteRow(n) \/ EndPass(n)

Operator(op) ==
    \E r \in rows :
        \/ op = "edit" /\ \E e \in Endpoints : OperatorEdit(r, e)
        \/ op = "retire" /\ OperatorRetire(r)

Next ==
    \/ \E n \in Nodes : Process(n) \/ Registration(n) \/ EventTask(n) \/ SyncTask(n)
    \/ \E op \in OperatorOps : Operator(op)

Spec == Init /\ [][Next]_vars

(* The tokio runtime polls every ready task, so a spawned sender, the      *)
(* event task and the sync task do not stay ready forever; ticks recur and *)
(* some list_all succeeds.  Nothing makes clients, operators or process    *)
(* starts happen.                                                          *)
Fairness ==
    \A n \in Nodes :
        /\ WF_vars(\E r \in outbox[n] : SendEvent(n, r))
        /\ WF_vars(EventTask(n))
        /\ WF_vars(SyncTask(n))

FairSpec == Spec /\ Fairness
-----------------------------------------------------------------------------
(* Every variable has its type. *)
TypeOK ==
    /\ rows \subseteq Row
    /\ up \in [Nodes -> BOOLEAN]
    /\ starts \in [Nodes -> Nat]
    /\ inserted \in [Nodes -> SUBSET Row]
    /\ outbox \in [Nodes -> SUBSET Row]
    /\ bus \in [Nodes -> Bus(Event)]
    /\ cache \in [Nodes -> [Keys -> McpServerInfo \cup {NoServer}]]
    /\ sync \in [Nodes -> [pc : {"tick", "scan", "write", "ended"},
                           list : SUBSET Row, todo : SUBSET Row]]
    /\ published \subseteq Keys \X Endpoints

Cached(n, k) == cache[n][k] # NoServer

(* No registration and no edit ever had a malformed endpoint. *)
WellFormed == \A p \in published : Parses(p[2])

(* No operator changes what a key is bound to: only registrations do. *)
StableTable == OperatorOps = {}

(* Both writers of the cache (events and listings, which may be older than *)
(* the table) only ever store what the table bound the key to at some      *)
(* time, parsed: whatever the order of their steps, and whatever operators *)
(* edit meanwhile.                                                         *)
CacheHoldsPublished ==
    \A n \in Nodes, k \in Keys :
        Cached(n, k) => /\ <<k, cache[n][k].endpoint>> \in published
                        /\ cache[n][k] = parse_endpoint(cache[n][k].endpoint)

(* While only registrations bind keys, an entry is the parse of the row    *)
(* that holds its key, so no replica routes a key elsewhere than another.  *)
CacheAgreesWithTable ==
    StableTable =>
        \A n \in Nodes, k \in Keys :
            Cached(n, k) => \E r \in rows :
                                /\ r.key = k
                                /\ cache[n][k] = parse_endpoint(r.endpoint)

(* While only registrations bind keys, every row a pass of async_cache has *)
(* left behind is in the cache with its own endpoint, although events are  *)
(* applied between its steps: a pass that ends has loaded its listing.     *)
PassLoadsItsListing ==
    StableTable =>
        \A n \in Nodes : \A r \in sync[n].list \ sync[n].todo :
            cache[n][r.key] = parse_endpoint(r.endpoint)

(* The sync task of a running replica ends only after a malformed endpoint *)
(* was accepted or when there is an entry in the replica's cache: a        *)
(* replica that routes nothing still reads the table.                      *)
EmptyReplicaStillSyncs ==
    WellFormed =>
        \A n \in Nodes : up[n] /\ sync[n].pc = "ended" =>
            \E k \in Keys : Cached(n, k)

(* Of the registrations a replica has answered, those not applied yet are  *)
(* well-formed and no more than its channel holds.                         *)
Undisturbed(n) ==
    /\ \A r \in outbox[n] : Parses(r.endpoint)
    /\ Cardinality(outbox[n]) + Len(bus[n].queue) <= BusCapacity

(* Only what a replica itself answers can end its event task: a malformed  *)
(* registration, or a burst of more than the channel holds before the task *)
(* gets to them.  While neither happens the task of the running replica    *)
(* goes on, whatever the order of senders, whatever happens at others and  *)
(* in the table, and through restarts.                                     *)
EventTaskSurvives ==
    \A n \in Nodes : []Undisturbed(n) => [](up[n] => bus[n].open)

(* The endpoints in the caches. *)
View == [n \in Nodes |-> [k \in Keys |->
            IF Cached(n, k) THEN cache[n][k].endpoint ELSE NoServer]]

(* The replicas' caches implement the routing view of RoutingView: a key   *)
(* is learnt from the table only, one at a time, and a running replica     *)
(* never drops one.                                                        *)
RV == INSTANCE RoutingView WITH
        None       <- NoServer,
        Rebindable <- ~StableTable,
        view       <- View

RoutingViewHolds == RV!Spec
-----------------------------------------------------------------------------
(* A registration answered with 200 is routed by the replica that answered *)
(* (unless it stops), if what it answers does not end its event task.      *)
AckedIsRouted ==
    \A n \in Nodes : []Undisturbed(n) =>
        \A k \in Keys :
            (\E r \in outbox[n] : r.key = k) ~> (Cached(n, k) \/ ~up[n])

(* A replica that takes no registrations routes, some time after each of   *)
(* its starts, every server that was in the table when it started, if no   *)
(* malformed endpoint ever gets there.                                     *)
StartLoadsTable ==
    []WellFormed => \A n \in Nodes \ Registrars, k \in Keys :
        (/\ up[n]
         /\ cache[n] = EmptyCache
         /\ sync[n].pc = "tick"
         /\ \E r \in rows : r.key = k)
            ~> (Cached(n, k) \/ ~up[n])

(* server.rs:160, "mcp cache for reverse proxy, load mcp servers from      *)
(* postgres", and the periodic listing of async_cache: a server in the     *)
(* table is sooner or later routed by every running replica.               *)
TableIsRouted ==
    \A n \in Nodes, k \in Keys :
        (up[n] /\ \E r \in rows : r.key = k) ~> (Cached(n, k) \/ ~up[n])

(* 20250822_mcp_servers.sql:36, "Logical deletion time (NULL means not     *)
(* deleted)": a listing never replaces the entry of a key's live row by    *)
(* that of a deleted row.                                                  *)
DeletedNeverReplacesLive ==
    \A n \in Nodes : \A r, s \in sync[n].list :
        /\ sync[n].pc = "write"
        /\ NextRow(n, r) /\ r.deleted
        /\ s.key = r.key /\ ~s.deleted
        => cache[n][r.key] # parse_endpoint(s.endpoint)
=============================================================================
