# MCP Center in TLA+

MCP Center is a registry and reverse proxy for MCP servers. A server is
registered under a key (name, tag) with an endpoint; clients open a stream of
server-sent events to it through `/proxy/connect/{name}/{tag}` and post messages
to `/proxy/message/{name}/{tag}/...`. Several replicas share one Postgres table.

This directory holds TLA+ specifications of its core logic, the TLC
configurations that check them on small instances, and TLAPS proofs for every
value of the constants. `PROJECT.json` maps every definition to the source lines
it models and lists the components, runs, mutants, findings, hazards and theorems.

    tlc -workers 4 -config CacheStable.cfg MCServerCache      # one run
    tlapm ServerCacheProofs.tla                               # one module's proofs

Contents: [1 Inventory](#1-inventory), [2 Modules](#2-modules-and-how-they-correspond-to-the-code),
[3 Runs](#3-runs), [4 Fairness](#4-fairness), [5 Proofs](#5-proofs),
[6 Findings](#6-findings), [7 What is not modelled](#7-what-is-not-modelled),
[8 Plan](#8-plan).

## 1 Inventory

| Component | State | Operations | Talks to |
|---|---|---|---|
| Routing cache, `mc-common/src/app/cache.rs` | `server_cache`: name, tag -> `McpServerInfo`, behind a tokio `RwLock` | event task `handle_event`; sync task `async_cache` (every 100 s); `load_server_info`; `parse_endpoint` | reads the table; receives events; read by the proxy |
| Event channel, `mc-common/src/app/event.rs` | a tokio broadcast channel of 100 events per process | `send`, `recv` | registration -> cache |
| Registration, `mc-registry/src/mcp_server.rs` | none of its own | `register_mcp_server`: insert, spawn the sender, answer | writes the table; sends events |
| Listing, same file | none of its own; page numbers and offsets are `i64` | `list_all`: a page or everything, then a count | reads the table |
| Table, `mc-db/src/mcp_handler.rs`, `.migration/20250822_mcp_servers.sql` | `tb_mcp_servers`: primary key `id`, partial unique index on (name, tag) | `create`, `list_all`, `list_with_limit`, `count`; updates by SQL only | shared by the replicas |
| Stream relay, `mc-service/src/reverse_proxy` | per request: the handler's future, then a task and an mpsc channel of 100 frames | look up, refuse or ask the upstream; take a chunk, rewrite the announcement, send, stop | the upstream's response -> the client |
| Session routing, same directory | none in the proxy: the announced path carries key and session id | connect, announce, message | cache; conversions of paths |
| Process life cycle, `mc-booter/src/booter.rs`, `mc-service/src/server.rs` | the cancellation token, the signal task, axum's connections | start-up, SIGTERM, Ctrl+C, draining | the platform |
| Authorization, `mc-service/src/server.rs` | the admin token, from the configuration file as read at the start | one decision per request: the login path, no header, admin token, API key, failing query | API key table |
| Admin login, `mc-token/src/token.rs` | none | `admin_login`: compares with the variable `MCP_ADMIN_TOKEN` at each call | environment |
| API keys and settings, `mc-db/src/apikey.rs`, `settings_handler.rs` | `tb_api_keys`, `tb_system_settings` | `create`, `find`; `get_system_settings` | read by authorization and listing |
| Configuration, `mc-booter/src/booter.rs`, `mc-service/src/config.rs` | `AppConfig`, fixed after start-up | replace `${VAR:default}`, parse TOML with its types and defaults, connect to Postgres | environment -> everything |
| Wiring, `mc-common/src/app/mod.rs`, `router` | handles | construction, once, before the listener is bound | everything |
| Loaders, `mc-loader` | a list of servers | `list_mcp` | nothing: unused |

What is hard about them, and what makes each correct:

* **Routing cache.** Two tasks write one cache, fed by sources of different age:
  a listing is worked off row by row long after it was read, an event is sent by
  a spawned task at some time after the insert. The sync task drops its read lock
  before it takes the write lock. Both tasks end for good at their first
  difficulty: a malformed endpoint, a lagging channel, a row that is already
  cached. It is correct when an entry is always something its key was really
  bound to, when all replicas route a key alike, when a pass loads what it
  listed, and when every registered server is in the end routed by every replica
  (the last is not so: section 6).
* **Registration.** The insert is committed before the event is sent, and
  nothing makes up for an event that is never sent except the sync task.
* **Stream relay.** The upstream may be out of reach or silent, the network cuts
  the stream anywhere, the client may stop reading or leave, the upstream may
  break off, in any order, and no step has a timeout. It is correct when a
  client learns of every failure, when nothing is lost, repeated or reordered,
  when a client can tell a broken stream from a complete one, when only the
  announcement is changed, and when the task ends.
* **Session routing.** Connect and message are separate requests, to any two
  replicas, and each looks the server up anew. It is correct when a message
  reaches the server that announced the session.
* **Listing.** Pages are separate queries while rows are inserted anywhere in
  the id order; a query may fail, and the offset is a product that may not fit an
  `i64`. It is correct when a walk misses nothing and a count goes with its page.
* **Life cycle.** Signals come at any moment. It is correct when SIGTERM lets
  streams finish and a signal ends the process.
* **Authorization, login, configuration.** The admin token is in two places, the
  file as it was read at the start and the environment, and between them lies a
  substitution that decides by the look of a value whether it is text. The query
  for a key is awaited while keys are issued and removed, and it may fail. They
  are correct when a request is served only with a credential, when a valid one is
  not called invalid, when login and layer accept the same token, and when a
  process runs with what its environment says or not at all.

## 2 Modules, and how they correspond to the code

| Module | Models | Uses |
|---|---|---|
| `Endpoint` | `parse_endpoint`, `McpServerInfo`, its `PartialEq` | |
| `EventBus` | one receiver of the broadcast channel (a library, as the code relies on it) | |
| `RoutingView` | abstract specification: what a cluster promises about routing | |
| `ServerCache` | registration, event task, sync task, processes and operators over the table, for any number of replicas | `Endpoint`, `EventBus`; refines `RoutingView` |
| `MCServerCache` | constants for TLC | `ServerCache` |
| `ResponseStream` | abstract specification: what the client of a proxied request may observe | |
| `StreamRelay` | handler and relay task of both services, `parse_message`, the channel, the client; the task of an error answer | refines `ResponseStream` |
| `MCStreamRelay` | constants for TLC | `StreamRelay` |
| `ProxyPath` | the conversions between announced path, proxy path and message URL | `Endpoint` |
| `ProxySession` | connect, announcement, message over several replicas | `ProxyPath`; its caches are a `RoutingView` |
| `MCProxySession` | constants for TLC | `ProxySession` |
| `Center` | sessions over the caches themselves: connections and messages beside registrations, events, listings, restarts and operators | `ServerCache`; refines `ProxySession` |
| `MCCenter` | constants for TLC | `Center` |
| `Listing` | `list_all`, pagination, count and 64-bit offsets, with a walking client | |
| `MCListing` | constants for TLC | `Listing` |
| `Lifecycle` | `Booter::run`, the signal task, graceful shutdown | |
| `Config` | operators: `replace_env_variables`, TOML and the types of the settings, `DBClient::create` | |
| `Access` | the authorization layer, `admin_login`, API keys, and the processes and environments they run in | `Config` |
| `MCAccess` | constants for TLC | `Access` |
| `ServerCacheProofs`, `PassProofs` | theorems about `ServerCache` | the second extends the first |
| `CenterProofs` | theorems about `Center` | `ServerCacheProofs`, an instance of `SessionProofs` |
| `RelayProofs`, `SessionProofs`, `ListingProofs`, `AccessProofs`, `LifecycleProofs` | theorems about the module of that name | |

`RoutingView` is the joint of the project. `ServerCache` is shown to implement
it, and `ProxySession` is built on it instead of on `ServerCache`, which keeps
the state space of sessions small. `Center` puts the two together again:
handlers look servers up in the caches that the tasks write, and the whole is
shown to implement `ProxySession`, so that what holds of sessions over a routing
view holds of the program.

### ServerCache

| State | Code |
|---|---|
| `rows` | `tb_mcp_servers`: id, key, endpoint, `deleted_at` |
| `inserted[n]`, `outbox[n]` | handlers that await `create()`, and tasks spawned at `mcp_server.rs:165`; both are lost with the process |
| `bus[n]` | the channel and the receiver of `handle_event` |
| `cache[n]` | `server_cache`, name and tag taken together as the key |
| `sync[n]` | the task of `async_cache`: where it stands, the listing it works off, what is left of it |
| `published` | history: every binding the table ever had |

`Register`, `RegisterReturns` or `RegisterAbandoned`, and `SendEvent` are the
steps of `register_mcp_server` between which something else can happen: the
commit, the handler resuming (or being dropped because its client hung up, or
losing the database after the commit), the spawned task. `ApplyEvent` and
`EventTaskEnds` are one turn of `while let Ok(..) = recv()`. `ListAll`,
`TakeRow`, `SyncReturns`, `WriteRow` and `EndPass` are the sync task; `TakeRow`
runs under the read lock and `WriteRow` under the write lock. The write lock of
`ApplyEvent` needs no step of its own: nothing is read before it but the event.
Ids are compared because the listing is ordered by them, and drawn in any order
because they are UUIDs. Operators change rows in SQL; no handler does, but the
schema has `updated_at` and `deleted_at` for it. An update of a column that
nothing reads, as `disabled`, and a failing query change nothing here: both are
stuttering steps.

### StreamRelay

| State | Code |
|---|---|
| `request` | its kind, a connection or a message, and the text the upstream would send in answer |
| `pc` | the handler: "lookup", then `client.request(req)` awaited; from the spawn on the task: reading, what it is sending, or ended |
| `upstream` | not asked yet, asked, out of reach, and the state of its body once it has answered |
| `answer` | the head of the response: the 500 of an error answer, or the upstream's |
| `sent`, `read`, `hand`, `queue`, `delivered` | pieces the upstream sent and the task took, the chunk it took last, the mpsc channel, what the client has |
| `client` | whether it is there, and which end of the response it saw |

`Refuse` stands for every early answer with `build_error_stream_response`, whose
task sends one text through a channel of its own. `HandOver` is the spawn after
`client.request(req).await`, `RequestPanics` its `unwrap()`. A client that hangs
up during the request takes the handler's future with it; later it only drops the
receiver, which the task finds out when it sends.

The body of an upstream is a sequence of pieces: what `parse_message` and its
regular expression tell apart, cut so finely ("data:" in two, each run of digits of
a session id in as many as one likes) that a chunk is an interval of them.
`parse_message` looks for the first data line of the chunk, or takes the chunk's own
start, and for an address there (`IsAddress`: a path up to the first "?", then
"sessionId=" and digits, as many as follow within the chunk); so a cut inside the
session id makes a shortened one, and a cut behind a "?" may make an announcement of
a text that is none. A chunk that matches is replaced by one announcement, which
says which pieces it was made of (`names`); all else in the chunk is gone. Lines
with blanks before "data:", which the code trims, and chunks of blanks alone are
left out, and bytes that are not UTF-8.

`pc` says what the task is sending; `AfterSend`
and `AfterRefusal` are the transitions at `tx.send(..).await`, so that the
trailers after an error and after a refused chunk are sent as in the code.
A response that ends by an error is "aborted" for the client whatever follows in
the channel. MessageService's loop is the same without the rewriting; one module
stands for both (`kind`).

The mapping to `ResponseStream` reads the upstream's state, `sent`, the runs of
pieces delivered, and the client's end of the response; handler, channel and
task are stutters.

### ProxyPath and ProxySession

A path is the sequence of texts between its slashes, which makes trimming and
prefixing exact without characters. The regular expressions are modelled by what
they keep: of an announced query only the session id. `ProxySession` records with
each session what the server announced, the URL the client was given and what
became of its last message.

### Center

The variables of `ServerCache`, and `session` and `posted` of `ProxySession`. The
handlers `Connect`, `PostNotRouted`, `PostRefused` and `PostForwarded` read
`cache[n]`, parsed entries and not endpoints, of a replica that is up; they wait
for no step of a task, as `load_server_info` only takes the read lock.
`CacheChanges` is any step of `ServerCache` (registrations, the two tasks, starts,
operators) but the end of a process, which is
`ProcessEnds` and takes the streams of that process with it. The mapping takes
the endpoints in the caches for the views (`View`) and the bindings that parse
for the published ones (`Sound`): the row of a malformed endpoint is registered,
but no view ever learns it.

### Listing and Lifecycle

`handler` is the request being served, `answer` what it got. The order of a
listing is given by `Rank`, the number of rows up to a row: `ById` puts each row at
its rank. `ListWhole` or
`ListPage`, and `Count`, are separate steps since they are separate queries, and
each may fail. Of an offset that does not fit, `PanicOnOverflow` is what a debug
build does; in a release build the product wraps (`Wrap`), Postgres refuses a
negative offset, and any other is a page like all. The clients, one that asks once
and one that walks and asks again for a page that failed, are the environment. In
`Lifecycle` a signal kills the process until the signal task listens, and is
queued for it from then on, for the rest of the process's life, as tokio
documents. The two signals are caught one after the other, `ListenTerm` at
`signal()` and `ListenInt` at the first poll of `ctrl_c()`; in between a Ctrl+C still
kills, and a SIGTERM may be received before Ctrl+C is listened to at all.

### Config and Access

A text is a value and the sort that decides its fate on the way through
`replace_env_variables` (a number or boolean loses its quotes), TOML (escapes) and
the database URL (slashes). `TomlValue` is what the parser reads, a string, an
integer or something else; `Accepts` says which of these the type of a field takes
(a port is 16 bits wide). A file that does not parse, or a database that refuses,
ends the start (`Start` is not enabled).

`file` and `env` are what a process starts with, `config` is its `AppConfig`,
`keys` the table of API keys. `request` is the request under way: `pc` goes through
"layer" (`authorization()` up to the query), "lookup" (the query awaited) and
"handler" to the status of the answer. History, kept with the request, are the
keys that were in the table at some time and at all times since it came. A header
beyond ASCII makes the layer panic: "closed", a connection closed without an answer,
is an outcome of its own. `granted`
holds the tokens this process's login has accepted. Handlers share no state, so one
request at a time shows every interleaving of a request with the table.

## 3 Runs

| Run | Question | Distinct states |
|---|---|---|
| `cache_stable` | With registrations only, do caches agree with the table, do passes load what they list, does a replica that routes nothing still sync, do the caches implement `RoutingView`? | 125,400 |
| `center` | With operators editing and retiring rows: does a cache still hold only what its key once had, parsed? Do tasks, handlers, processes, operators and a client together implement `ProxySession`? | 376,504 |
| `cache_live` | Is an acknowledged registration routed by its replica, does a restarted replica load the table, what can end the event task? | 44,132 |
| `relay` | Is a request answered, what does the client see of the upstream's body, what of it is rewritten, when does the task end, do handler and task implement `ResponseStream`? | 447,388 |
| `session` | Where do messages go, over two replicas, edits and restarts? | 163,536 |
| `pages` | Does a walk through pages miss rows, does it overflow, is the count consistent with the page? | 34,572 |
| `access` | Who is served, do login and layer agree, does a process run with what its environment says? | 462,272 |
| `shutdown` | Do signals stop the process, does SIGTERM cut streams? | 190 |
| `table_not_routed`, `deleted_loaded`, `port_dropped`, `ctrl_c_swallowed` | the disagreements of section 6 | violations |

What the properties say:

* `CacheHoldsPublished`, `CacheAgreesWithTable`: an entry is the parse of an
  endpoint its key had; with registrations only, of its key's row, so that no two
  replicas route a key differently.
* `PassLoadsItsListing`: between the locks, an event may replace what the pass
  compared with; the rows a pass has behind it are cached with their endpoint
  all the same.
* `EmptyReplicaStillSyncs`: the early return can only end the sync task of a
  replica that routes something already.
* `RoutingViewHolds`: refinement of `RoutingView`; in particular a running
  replica never drops a key and learns one binding at a time.
* `SessionsHold`: what connections and messages get from caches that two tasks
  write at any moment is what they would get from routing views, so that the
  properties of `session` below hold of the whole; an entry used by a handler is
  the parse of what the view has, and a pass never takes away what a stream was
  opened with.
* `EventTaskSurvives`, `AckedIsRouted`, `StartLoadsTable`: what is left of
  "every server is routed" in the code as it is. Malformed registrations and
  overflowing channels occur in the run; a replica's event task survives, and its
  registrations are routed, as long as it does not itself answer a malformed one nor
  more at a time than its channel holds (`Undisturbed`), whatever other replicas do.
* `RelayIsFifo`: chunks received, queued and in hand join up to exactly what was
  read. `CleanEndIsComplete`: the trailers sent after an error do not make a
  broken stream look complete; a complete one is every chunk of the body, and as it
  was sent unless it is a connection's and the body names a session. (Then a chunk
  may be an announcement in the place of all that was in it: events that share the
  announcement's chunk are lost.) `SessionStreamIntact`: an endpoint event that the
  first chunk holds up to the last digit of its session is announced with that very
  path and session, and nothing behind it is changed unless the rest names a session
  again. Not said, because not so: of a cut within the event, which may announce a
  shortened session or nothing, and of other texts with "?sessionId=", which may be
  taken for an announcement when a cut puts them first. `StreamHolds`: the refinement
  of `ResponseStream`, which puts order and ends together and adds that a refusal
  carries nothing of an upstream.
* `RequestIsAnswered`: an upstream that fails, at whatever moment, leaves no client
  without an answer or a closed connection; one that never answers does.
  `RelayFinishes`, `RelayNoticesHangUp`: what can keep a task for ever (a client
  that stays and does not read; a silent upstream).
* `MessageReachesSession`: a plain path and a default port are needed, and one
  binding of the key; `HomeReplicaNeverRefuses`, `MessageStaysWithHosts`,
  `OnlyRootIsLost` say what holds without them: a message keeps its session and goes
  to the scheme and host of some endpoint its key had, though always to the scheme's
  port (`port_dropped`).
* `WalkMissesNothing`, `QuietWalkIsExact`: with insertions anywhere and failed
  pages asked for again. `WalkNeverOverflows`: the overflow is for those who ask
  for it; a walk does not come near it. `CountReachesPage`: the count is another
  query's and fits its page all the same, unless the offset was a wrapped one.
* `ServedWithCredential`, `ValidKeyNeverRefused`: across the awaited query, with
  keys issued and removed, and with failing queries, which must not be taken for
  a missing row. `LoginAgreesWithLayer`: a token the login accepted is not refused
  while the process runs, although the two compare with different sources; the
  property names what the agreement needs: the file names the variable, no default
  takes its place, no escape in the value (it would be looked up among the keys), and
  no character beyond ASCII (the layer panics). `SettingsFit`: what a field cannot hold
  (a port beyond 16 bits, an empty pool, a text for a number, digits for a token or a
  password) ends the start; a process that runs has the environment's values, escapes
  aside.
* `TermCutsNothing`, `SignalStops`.

### Bounds

* Two replicas and two keys: agreement between replicas and interference between
  keys need two; a third is symmetric to the second (`ReplicaSymmetry` in
  `cache_stable` and `session`; no symmetry where liveness is checked).
* Two ids: a listing of two rows is the smallest whose second row is lost by an
  early return, and two insertions in either id order give both listing orders.
  In `deleted_loaded`, two rows of one key are the live and the retired one.
* `center`: two replicas, since a message may come to another one than its
  stream; one registers, the other has listings only. One key and one row, which
  is edited between two endpoints that differ in the scheme alone (equal by
  `PartialEq`) or retired: what several rows and keys do to caches is the question
  of `cache_stable`. One client, a plain announcement with a parameter behind the
  session id, and the root, whose messages are not routed.
* `MaxStarts`: two starts, that is one restart, of each replica in `cache_stable`, and
  in `center` of the replica that takes registrations, whose cache is then written by
  both tasks again (processes of both end). In the other runs restarts are not the
  question, and each process starts once.
* `BusCapacity = 1` in `cache_stable` and `cache_live`, so that the channel overflows
  with two registrations and the event task ends; the code asks for 100.
* Endpoints: one server on its own port, one with omitted port and path, the
  first behind the other scheme (equal by `PartialEq`), and a malformed one.
* `relay`: both services, every outcome of lookup and request; four bodies: an
  endpoint event, whose session id can be cut, with something ordinary behind; a text
  that only a cut makes an announcement; an endpoint event with another data line
  behind it, and one with a line above. Every way to cut each of them. Two frames in
  the channel: full with one more in hand.
* `session`: three endpoints (the scheme's port, another one, https) and seven
  sorts of announced path: plain, of two segments, with a trailing slash, with
  two leading slashes, without one, the root, and with parameters behind the
  session id.
* `pages`: five ids, pages of two: three pages, insertions before, in and behind
  the page being read. `Half = 8` stands for 2^63: with it some products of the
  sizes and page numbers asked for wrap to a negative offset and one wraps to 0,
  which are the cases the code tells apart; 2^63 has no others.
* `access`: three configuration files (bootstrap.toml, one without the line of the
  admin token, one with a default in it); variables of every sort, unset ones
  included; ports that fit, do not fit and are no number; no connection in the
  pool, and passwords that are digits or need escaping; two API keys, one of them
  a text that is also a token; credentials of every sort a header may have, one
  beyond ASCII. One
  request at a time (section 2).
* `shutdown`: three connections; their number does not matter to the code, one is
  enough to keep the process.

`CHECK_DEADLOCK FALSE` stands where everything may really be over: all processes
stopped and no start left, a response finished, a process exited.

### Mutants

Every property of every passing run has a mutant in `PROJECT.json`: a definition,
and a changed form of it next to it in the module (commented "Mutant"), that TLC
finds the property violated with. They are plausible slips in the code: a
dropped index, try_send for send, a count of the page, a swapped match arm.

## 4 Fairness

`ServerCache`: weak fairness of the spawned senders, of the event task and of the
sync task of each replica. The tokio runtime polls a woken task; ticks recur;
`list_all` is retried at every tick, so some call succeeds unless the database is
away for good. Clients, operators, process starts and stops are not fair, and
neither is a handler's return: a client may always hang up first.

`StreamRelay`: weak fairness of the handler, which the upstream's answer wakes, and
of the task. No step has a timeout, so the upstream may be silent for ever, before
its answer as after it, and the client may never read. `RequestIsAnswered` therefore
starts when the upstream has answered or turned out to be out of reach,
`RelayFinishes` assumes room again and again, and `RelayNoticesHangUp` states the
exception.

`Lifecycle`: weak fairness of start-up, of the server and of the signal task.
Connections need not close; `SignalStops` assumes they do and that no more come.

## 5 Proofs

For every value of the constants, under the assumptions each module names
(`ServerCacheAssumption`, `BusCapacityAssumption`, `EndpointAssumption`,
`CenterAssumption`, `StreamRelayAssumption`, `ProxySessionAssumption`,
`ListingAssumption`, `AccessAssumption`; TLC evaluates them at each run):

| Theorem | Module | Says |
|---|---|---|
| `TypeCorrect` | `ServerCacheProofs` | `Spec => []TypeOK` |
| `EntriesArePublished` | `ServerCacheProofs` | `Spec => []CacheHoldsPublished` |
| `CachesAgreeWithTable` | `ServerCacheProofs` | `Spec => []CacheAgreesWithTable` |
| `CachesImplementView` | `ServerCacheProofs` | `Spec => RoutingViewHolds`, the refinement |
| `PassesLoadTheirListing` | `PassProofs` | `Spec => []PassLoadsItsListing` |
| `EmptyReplicasSync` | `PassProofs` | `Spec => []EmptyReplicaStillSyncs` |
| `EventTasksSurvive` | `PassProofs` | `Spec => EventTaskSurvives`, a temporal formula |
| `RelayTyped` | `RelayProofs` | `Spec => []TypeOK` |
| `RelayKeepsOrder` | `RelayProofs` | `Spec => []RelayIsFifo` |
| `CleanEndsAreComplete` | `RelayProofs` | `Spec => []CleanEndIsComplete` |
| `SessionStreamsIntact` | `RelayProofs` | `Spec => []SessionStreamIntact` |
| `RelayImplementsStream` | `RelayProofs` | `Spec => StreamHolds`, the refinement |
| `HomeReplicaServes` | `SessionProofs` | `Spec => []HomeReplicaNeverRefuses` |
| `MessagesStayWithHosts` | `SessionProofs` | `Spec => []MessageStaysWithHosts` |
| `OnlyRootsAreLost` | `SessionProofs` | `Spec => []OnlyRootIsLost` |
| `MessagesReachSession` | `SessionProofs` | `Spec => []MessageReachesSession` |
| `CenterImplementsSessions` | `CenterProofs` | `CenterSpec => SessionsHold`, the refinement |
| `CenterHomeServes`, `CenterKeepsHosts`, `CenterLosesOnlyRoots`, `CenterReachesSession` | `CenterProofs` | `CenterSpec => []` each of the four above, of the center's sessions |
| `WalksMissNothing` | `ListingProofs` | `Spec => []WalkMissesNothing` |
| `QuietWalksAreExact` | `ListingProofs` | `Spec => []QuietWalkIsExact` |
| `WalksNeverOverflow` | `ListingProofs` | `Spec => []WalkNeverOverflows` |
| `CountsReachPages` | `ListingProofs` | `Spec => []CountReachesPage` |
| `OnlyCredentialsAreServed` | `AccessProofs` | `Spec => []ServedWithCredential` |
| `ValidKeysAreNotRefused` | `AccessProofs` | `Spec => []ValidKeyNeverRefused` |
| `LayerAgreesWithLogin` | `AccessProofs` | `Spec => []LoginAgreesWithLayer` |
| `RunningSettingsFit` | `AccessProofs` | `Spec => []SettingsFit` |
| `TermsCutNothing` | `LifecycleProofs` | `Spec => TermCutsNothing`, an action property |

### ServerCache

The inductive invariant has three layers.

1. `TypeInv` = `TypeOK` and `ListingInv`. `TypeOK` is not inductive: a cache
   entry is a `McpServerInfo` only if the row that `WriteRow` parses was found to
   parse by `TakeRow`, two steps before. That is the same row because the next
   row of a listing is unique, which holds because ids are unique in the table,
   hence in every listing.
2. `SourcesInv`: everything a cache can be written from (rows, waiting handlers,
   spawned senders, channels, listings) carries only published bindings.
   `CacheHoldsPublished` alone does not survive an event. `EntriesStep` reduces
   the fifteen actions to three things that can happen to a cache: nothing, the
   end of its process, or storing the parse of a published endpoint.
3. `TableInv`: with registrations only, each published binding is that of a live
   row, one per key. It follows from the partial unique index and is what turns
   "published at some time" into "in the table now". It also makes two bindings
   of a key equal (`OneBindingPerKey`), from which `PassLoadsItsListing` is
   inductive: whatever an event writes over a loaded row is the same endpoint.

The refinement maps a view to the endpoints in a cache. `RoutingSteps` says that
no step changes caches and history at once; `Stop` maps to `Forget`, storing an
entry to `Learn`, a registration or an edit to `Publish`, everything else to a
stutter.

`EmptyReplicaStillSyncs` is inductive over the first two layers, as a running
process never loses an entry (`CachedStays`).

`EventTaskSurvives` assumes no bound on the ids and no particular channel. What
ends the task is a full channel at a `send` or a malformed event. `Alive` says that
the channel has not lagged and holds parsable events only; `SendKeepsAlive`, that a
`send` out of an `Undisturbed` outbox finds room, since the event it sends is counted
there, and adds an event that parses. `AliveStep` goes through the other steps; the
assumption is taken at each state, as `[]Undisturbed(n)` in the last, temporal, step.

### StreamRelay

`RelayIsFifo` speaks of what is received and under way; its invariant has to
say where in the sequence the signals are, and what follows once the client has
left. `RelayInv` has four parts. `ControlInv` relates the task's position, the
answer and the upstream. `OpenInv`, while the client is there: `Flow`, everything
delivered, queued and in hand, is a row of chunks that join up to `read`
(`Sound`) and behind them what the task's position allows (`Behind`): nothing, a
failure, trailers, both in this order, or the text of a refusal. Sending and
receiving only move the borders within `Flow`, which `SendFlow` and the lemmas
next to it state once. `DeliveredInv` keeps what is left of it when the client has
gone, and `CleanEndIsComplete` is the fourth: trailers behind a failure are never
reached. `StreamInit` and `StreamStep` are the refinement: one step per action,
each a step of `ResponseStream` or a stutter.

`SessionStreamIntact` and the last part of `CleanEndIsComplete` are about contents:
`MadeInv` says that every chunk delivered, queued or in hand is what `parse_message`
makes of the very pieces it stands for, and `LaterInv` that those received behind the
first chunk begin behind its end. The rest is about `parse_message` alone: an address
has "?sessionId=" and a digit, so a chunk without them is not replaced
(`WithoutSession`); and of a chunk that holds an endpoint event up to its last digit
the first data line is that event's, its only address starts behind "data:" and ends at
that digit (`EndpointEventParses`).

### ProxySession

`IInv` says what a session can be: `ViewInv`, views hold published bindings;
`SessionInv`, a session's entry stays in the view of its replica and its server is
one its key had; `PostedInv`, a message was sent to the session's URL and what
became of it follows from the view it was looked up in. From this
`HomeReplicaNeverRefuses` and `MessageStaysWithHosts` are immediate.
`OnlyRootIsLost` and `MessageReachesSession` need the conversions: trimming is
defined by the least and the greatest place with a text, whose existence is
well-foundedness (`LeastOf`, `GreatestOf`); `TrimmedAway` says which paths it
leaves empty and `PlainPathSurvives` that a plain path comes out as it went in.

### Center

`CenterInv` adds to the first two layers of `ServerCache` only that a session's URL
has its key, so that a message looks up a key there is. `Lookup` is the heart of the
refinement: an entry is the parse of its own endpoint, which needs
`CacheHoldsPublished`, so a handler that reads an entry gets what a handler of
`ProxySession` gets by parsing the view. Each step of a task that stores an entry
learns one binding that parses, which is the refinement of `RoutingView` over again;
registrations and edits of malformed endpoints become stutters. The four theorems
about sessions are those of `SessionProofs`, instantiated under the mapping: its
assumptions hold of the mapped constants (`SessionAssumptions`), among them that an
endpoint a view has is well-formed, which here is a fact about caches.

### Listing

That `ById` lists every row once, in order, is about ranks: they grow with the ids
and lie in 1..n, so that n rows have n different ranks, and an injection of a set of n
elements into 1..n takes every value (`RankOnto`). No induction is needed. The
invariant has to relate pages of different tables to each other. `SeenBy`: each row
the walk started with has been seen or has a rank beyond the pages it asked for; an
insertion can only raise that rank (`SeenGrows`), which is why nothing is missed while
rows shift. `PageFor` says the same of the page under way, from its query to the
client, also past insertions that come between the query and the count. With no
insertion the rows seen are the first ones in order, and a short page is the last. Full pages
are no more than the rows, which bounds the offset (`BehindFits`). `ReachInv` needs
that rows are never removed: then a count taken later is large enough.

### Access and Lifecycle

In `Access`, `Decided` is what the layer has found out at each of its steps,
relative to the keys at some time and at all times since the request came;
`RequestInv` ties these to the table while the request is under way. `ProcessInv`
says that a process's settings stay what its file and its environment make of
them and that its login accepts one text. The four properties follow. `Lifecycle`
needs only that a Ctrl+C which waits for the signal task was sent
(`QueuedWasSent`).

### Only model-checked

* Liveness (`AckedIsRouted`, `StartLoadsTable`, `RequestIsAnswered`,
  `RelayFinishes`, `RelayNoticesHangUp`, `SignalStops`), which is out of the
  prover's reach.
* The refutations of section 6.

## 6 Findings

Each is a run that TLC ends with a counterexample; `PROJECT.json` quotes the
statement it contradicts.

* `table_not_routed` (`cache.rs:96`): the early return inside the loop over rows
  ends the sync task at the first row that is cached already. Other rows of the
  listing, and all rows that other replicas register later, are never routed by
  this replica until its process is started again.
* `deleted_loaded` (`mcp_handler.rs:15`): a listing contains deleted rows, and one
  with a larger id replaces the live row's entry.
* `port_dropped` (`message.rs:169`): a message URL is built without the port, so
  servers on other ports than the scheme's get no messages.
* `ctrl_c_swallowed` (`booter.rs:91`): after SIGTERM, a Ctrl+C is caught and never
  received; a long stream then keeps the process.

Seen while reading or modelling, without a run:

* An endpoint that cannot be parsed is stored and answered with 200
  (`mcp_server.rs:137`); its event ends the event task of the replica by a panic,
  and its row the sync task of every replica. `EventTaskSurvives` and
  `EmptyReplicaStillSyncs` name these exceptions.
* Events that come in one chunk with the announcement are lost (`connection.rs:145`),
  and an announcement that the network cuts inside its session id is passed on with a
  shortened one, to a session the server does not know.
* Disabled rows are proxied like others (`20250822_mcp_servers.sql:33` says the
  flag disables the proxy), and `find()` looks at no `deleted_at`, which
  `20250902_api_keys.sql:17` calls the mark of a deleted key.
* An admin token or a database password that is a number or a boolean ends the
  start; `QUICK_START.md:80` lets one set any own token.
* The login looks only at the variable. With a default in the file, without the
  line, or with an escape in the value, the layer has another token than it; on a
  token beyond ASCII the layer panics (`server.rs:222`) and closes the connection.
* A page number whose offset wraps to an ordinary one is answered with 200 and the
  rows of another page (release build), or with a closed connection (debug build).
* Half a pair of `page_size` and `page_num` is answered with 500 where
  `API.md:143` lists 400 for invalid parameters.

## 7 What is not modelled

* Text: regular expressions and formats beyond what they keep, headers other than
  the credential, JSON, logging, the rewriting of listed endpoints to the center's
  own address (with the fallback of `get_system_settings` behind it).
* Time: the 100 s between ticks, so the length of the gap after a failed first
  listing. The code has no other clock and no timeout.
* Names and tags with slashes, which are accepted and cannot be routed: keys are
  atoms here.
* The column `disabled` of a server: nothing reads it (section 6).
* `deleted_at` of API keys: nothing in the code sets it and `find()` does not read
  it. A key is valid while its row is there.
* Texts with a quotation mark or a line break in an environment variable, and escapes
  unknown to TOML: the file does not parse, which is the same as other refused starts.
  Tokens with blanks at either end, which no header keeps.
* Lines of a body with blanks before "data:", and chunks of blanks alone.
* The database's failures beyond a failed call, and the pool's limit: requests wait
  in sqlx, outside the repository.
* Wiring (`mc-common/src/app/mod.rs`, `router`): handles built once before the
  listener is bound; no state changes after that, and the routes and layers it
  installs are part of `Access`, `ProxyPath` and `ProxySession`.
* Loaders (`mc-loader`): nothing calls them; `prepare()` only stores the
  configuration of a registry.
* Command-line arguments, worker threads, deployment files, docs.

## 8 Plan

Done, in this order: `Endpoint`, `EventBus`, `ServerCache` with its runs and the
abstract `RoutingView`; `ProxyPath` and `ProxySession`; `Listing`; `Lifecycle`; the
proofs about `ServerCache`; then `StreamRelay` from the handler's lookup to the end
of its task with the abstract `ResponseStream`, `Config` and `Access`, failing
queries and 64-bit offsets in `Listing`, and the proofs about `StreamRelay`,
`ProxySession`, `Access`, `Lifecycle` and the event task; then the proofs about
`Listing` and about what the relay changes, and `Center`, sessions over the caches
themselves, with its proofs. Every safety property that a passing run checks is a
theorem.

Left, in this order:

1. A replica's life as one specification: `Lifecycle`'s phases for the starts and
   stops of `Center`, whose tasks start before the listener is bound and whose
   streams drain at a signal.
2. Soft deletion of API keys, once the code has a handler that deletes one.
