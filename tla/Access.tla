-------------------------------- MODULE Access -------------------------------
(***************************************************************************)
(* Who is served: the authorization layer of a process                     *)
(* (mc-service/src/server.rs), with its admin token from the configuration *)
(* file and its API keys in a table, and admin_login (mc-token), which     *)
(* looks into the environment, over changes of the environment, restarts,  *)
(* and keys that come and go while a request is handled.                   *)
(*                                                                         *)
(* The handlers share no state: one request at a time shows every          *)
(* interleaving of a request with the table and the process.               *)
(***************************************************************************)
EXTENDS Config

CONSTANTS
    Files,          \* configuration files: for each field a line or Absent
    EnvTexts,       \* EnvTexts[var]: what an environment may give a variable
    AdminVar,       \* MCP_ADMIN_TOKEN
    Texts,          \* credentials clients send, API keys among them
    ApiKeys,        \* apikeys that rows may have
    DatabasePassword

ASSUME AccessAssumption ==
    /\ \A file \in Files : DOMAIN file = Fields
    /\ AdminVar \in DOMAIN EnvTexts /\ AdminVar # ""
    /\ \A v \in DOMAIN EnvTexts : \A t \in EnvTexts[v] : t.sort \in Sorts \cup {"unset"}
    /\ ApiKeys \subseteq Texts
    /\ \A t \in Texts : t.sort \in Sorts

VARIABLES
    file,           \* the configuration file
    env,            \* the environment; a process sees the one it started with
    config,         \* the AppConfig of the running process, or NotRunning
    keys,           \* tb_api_keys
    request,        \* the request under way or answered
    granted         \* history: tokens the running process's login accepted

vars == <<file, env, config, keys, request, granted>>
-----------------------------------------------------------------------------
NotRunning == [f \in Fields |-> Unset]
Idle == [pc |-> "idle"]
NoHeader == Text("no header", "")

Environments == {e \in [DOMAIN EnvTexts -> UNION {EnvTexts[v] : v \in DOMAIN EnvTexts}] :
                    \A v \in DOMAIN EnvTexts : e[v] \in EnvTexts[v]}

Init ==
    /\ file \in Files
    /\ env \in Environments
    /\ config = NotRunning
    /\ keys = {}
    /\ request = Idle
    /\ granted = {}

Running == config # NotRunning

(* Booter::run and prepare().  When the file does not parse, or Postgres   *)
(* refuses, the process exits and leaves nothing.                          *)
Start ==
    /\ ~Running
    /\ Parses(file, env)
    /\ Connects(Loaded(file, env), DatabasePassword)
    /\ config' = Loaded(file, env)
    /\ UNCHANGED <<file, env, keys, request, granted>>

Stop ==
    /\ Running
    /\ config' = NotRunning
    /\ request' = Idle
    /\ granted' = {}
    /\ UNCHANGED <<file, env, keys>>

(* The deployment changes a variable for the next process. *)
SetEnv(v, t) ==
    /\ ~Running
    /\ env' = [env EXCEPT ![v] = t]
    /\ UNCHANGED <<file, config, keys, request, granted>>
-----------------------------------------------------------------------------
(* The table of API keys. *)

UnderWay == request.pc \in {"layer", "lookup", "handler"}

(* ApiKeyDBHandler::create, by whoever issues keys. *)
IssueKey(k) ==
    /\ k \notin keys
    /\ keys' = keys \cup {k}
    /\ request' = IF UnderWay THEN [request EXCEPT !.ever = @ \cup {k}] ELSE request
    /\ UNCHANGED <<file, env, config, granted>>

(* Its row is removed. *)
RemoveKey(k) ==
    /\ k \in keys
    /\ keys' = keys \ {k}
    /\ request' = IF UnderWay THEN [request EXCEPT !.always = @ \ {k}] ELSE request
    /\ UNCHANGED <<file, env, config, granted>>
-----------------------------------------------------------------------------
(* A request: its path, and the value of its Authorization header without  *)
(* "Bearer "; texts with blanks at either end, which no header keeps, are  *)
(* left out.  History: the keys that were in the table at some time, and   *)
(* at all times, since it came.                                            *)
Arrive(path, header) ==
    /\ Running
    /\ request = Idle
    /\ request' = [pc |-> "layer", path |-> path, header |-> header,
                   ever |-> keys, always |-> keys]
    /\ UNCHANGED <<file, env, config, keys, granted>>

(* The client has its answer or finds its connection closed, or hangs up.  *)
Leave ==
    /\ request # Idle
    /\ request' = Idle
    /\ UNCHANGED <<file, env, config, keys, granted>>

GoOn(pc, next) ==
    /\ request.pc = pc
    /\ request' = [request EXCEPT !.pc = next]
    /\ UNCHANGED <<file, env, config, keys, granted>>

Answer(pc, status) ==
    /\ request.pc = pc
    /\ request' = [request EXCEPT !.pc = status]
    /\ UNCHANGED <<file, env, config, keys, granted>>

IsLogin == request.path = "login"

(* authorization(), up to the query. *)
PassLogin == GoOn("layer", "handler") /\ IsLogin

RefuseNoHeader == Answer("layer", "401") /\ ~IsLogin /\ request.header = NoHeader

(* to_str().unwrap() panics, and the connection is closed: no answer.      *)
PanicOnHeader ==
    /\ GoOn("layer", "closed")
    /\ ~IsLogin
    /\ request.header.sort = "unicode"

HasCredential ==
    ~IsLogin /\ request.header # NoHeader /\ request.header.sort # "unicode"

PassAdmin ==
    /\ GoOn("layer", "handler")
    /\ HasCredential
    /\ request.header = config.admin_token

AskTable ==
    /\ GoOn("layer", "lookup")
    /\ HasCredential
    /\ request.header # config.admin_token

(* The query finds a row, finds none (RowNotFound), or fails. *)
Found == GoOn("lookup", "handler") /\ request.header \in keys

RefuseNotFound == Answer("lookup", "401") /\ request.header \notin keys

(* Mutants: the error arms are one; an error lets the request pass. *)
RefuseWhenFails == Answer("lookup", "401")
PassWhenFails == GoOn("lookup", "handler")

LookupFails == Answer("lookup", "500")

(* next.run(req) of any handler but the login. *)
Serve == Answer("handler", "200") /\ ~IsLogin
-----------------------------------------------------------------------------
(* admin_login *)

EnvToken == IF env[AdminVar] = Unset THEN EmptyText ELSE env[AdminVar]

Admin == "admin"

(* A login without a token is refused like one with a wrong one. *)
AcceptLogin(username, token) ==
    /\ request.pc = "handler"
    /\ IsLogin
    /\ username = Admin
    /\ token = EnvToken
    /\ request' = [request EXCEPT !.pc = "200"]
    /\ granted' = granted \cup {token}
    /\ UNCHANGED <<file, env, config, keys>>

RefuseLogin(username, token) ==
    /\ Answer("handler", "401")
    /\ IsLogin
    /\ username # Admin \/ token # EnvToken
-----------------------------------------------------------------------------
Layer ==
    \/ PassLogin \/ RefuseNoHeader \/ PanicOnHeader \/ PassAdmin
    \/ AskTable \/ Found \/ RefuseNotFound \/ LookupFails

admin_login ==
    \E username \in {Admin, "other"}, token \in Texts \cup {NoHeader} :
        AcceptLogin(username, token) \/ RefuseLogin(username, token)

Next ==
    \/ Start \/ Stop
    \/ \E v \in DOMAIN EnvTexts : \E t \in EnvTexts[v] : SetEnv(v, t)
    \/ \E k \in ApiKeys : IssueKey(k) \/ RemoveKey(k)
    \/ \E path \in {"login", "api"}, header \in Texts \cup {NoHeader} : Arrive(path, header)
    \/ Leave \/ Layer \/ Serve \/ admin_login

Spec == Init /\ [][Next]_vars
-----------------------------------------------------------------------------
Answered(status) == request.pc = status /\ request.path = "api"

(* A handler runs only for a request with the process's admin token, or    *)
(* with a key that was in the table at some time since the request came.   *)
ServedWithCredential ==
    Answered("200") => request.header \in {config.admin_token} \cup request.ever

(* A key that stays in the table is never called invalid, whatever happens *)
(* to other keys or to the database: the answer to a failed query is 500.  *)
ValidKeyNeverRefused ==
    Answered("401") => request.header \notin request.always

(* The layer has its token from the file, as read at the start, the login  *)
(* from the environment.  As long as the process runs, a token that the    *)
(* login accepted is neither refused, nor looked up among the keys, nor    *)
(* does it end the connection, with three exceptions: the file does not    *)
(* name the variable, or has a default in its place; a backslash in the    *)
(* token begins an escape; or it is beyond ASCII, and then the layer       *)
(* panics on it.                                                           *)
OneSource ==
    /\ file["admin_token"].var = AdminVar
    /\ env[AdminVar] = Unset => file["admin_token"].default = EmptyText

LoginAgreesWithLayer ==
    /\ OneSource
    /\ request.pc \in {"lookup", "401", "500", "closed"}
    /\ request.path = "api"
    /\ request.header \in granted
    => request.header.sort = IF request.pc = "closed" THEN "unicode" ELSE "escape"

(* A process never runs beside its environment: a port beyond 16 bits, an  *)
(* empty pool, a text for a number, and a number or a boolean for a token  *)
(* or a password end the start instead of being cut, defaulted or quoted.  *)
(* Whatever does start is what the environment says, escapes excepted.     *)
SettingsFit ==
    Running => \A f \in Fields :
        LET value == env[file[f].var]
        IN  Given(file, f) /\ value # Unset =>
                \/ /\ f \in {"http_port", "max_connection"}
                   /\ value.sort = "number" /\ config[f] = value
                   /\ f = "http_port" => value.value < 65536
                   /\ f = "max_connection" => value.value >= 1
                \/ /\ f \in {"admin_token", "password"}
                   /\ value.sort \notin {"number", "odd", "boolean"}
                   /\ config[f] = value \/ value.sort = "escape"
=============================================================================
