---------------------------- MODULE AccessProofs -----------------------------
(***************************************************************************)
(* Who is served, refused and started by Access, for every set of files,   *)
(* environments, credentials and keys.                                     *)
(***************************************************************************)
EXTENDS Access, TLAPS

Requests ==
    [pc     : {"layer", "lookup", "handler", "200", "401", "500", "closed"},
     path   : {"login", "api"},
     header : Texts \cup {NoHeader},
     ever   : SUBSET ApiKeys,
     always : SUBSET ApiKeys]

TypeInv ==
    /\ file \in Files
    /\ env \in Environments
    /\ keys \in SUBSET ApiKeys
    /\ request \in {Idle} \cup Requests

(* The environment and the file of a running process do not change, so its *)
(* settings stay what they were made from, and what its login accepts is   *)
(* one text.                                                               *)
ProcessInv ==
    /\ Running => /\ Parses(file, env) /\ config = Loaded(file, env)
                  /\ Connects(config, DatabasePassword)
    /\ ~Running => request = Idle /\ granted = {}
    /\ granted \subseteq {EnvToken}

(* What the layer has found out of a request at each of its steps. *)
Decided ==
    LET admin == request.header = config.admin_token
    IN  /\ request.pc \in {"handler", "200"} => admin \/ request.header \in request.ever
        /\ request.pc \in {"lookup", "500"} => ~admin
        /\ request.pc = "401" =>
              request.header = NoHeader \/ (~admin /\ request.header \notin request.always)
        /\ request.pc = "closed" => request.header.sort = "unicode"

RequestInv ==
    request # Idle =>
        /\ UnderWay => request.always \subseteq keys /\ keys \subseteq request.ever
        /\ request.path = "api" => Decided

IInv == TypeInv /\ ProcessInv /\ RequestInv

LEMMA IdleIsNoRequest == Idle \notin Requests
<1>1. \A r \in Requests : r.pc # "idle"
  BY DEF Requests
<1> QED
  BY <1>1 DEF Idle

LEMMA NoHeaderIsNoText == NoHeader \notin Texts /\ NoHeader \notin ApiKeys
<1>1. NoHeader.sort \notin Sorts
  BY DEF NoHeader, Text, Sorts
<1> QED
  BY <1>1, AccessAssumption

LEMMA InitInv == Init => IInv
<1> SUFFICES ASSUME Init PROVE IInv
  OBVIOUS
<1> QED
  BY DEF Init, IInv, TypeInv, ProcessInv, RequestInv, Running

(* A step of a request that is under way changes its pc and nothing else.  *)
Steps(pc, next) ==
    /\ request \in Requests
    /\ request.pc = pc
    /\ request' \in Requests
    /\ request'.pc = next
    /\ request'.path = request.path
    /\ request'.header = request.header
    /\ request'.ever = request.ever
    /\ request'.always = request.always
    /\ UNCHANGED <<file, env, config, keys>>

LEMMA PcSteps ==
    ASSUME TypeInv, NEW pc \in {"layer", "lookup", "handler"},
           NEW next \in {"lookup", "handler", "200", "401", "500", "closed"},
           request.pc = pc, request' = [request EXCEPT !.pc = next],
           UNCHANGED <<file, env, config, keys>>
    PROVE  Steps(pc, next) /\ TypeInv'
<1>1. request \in Requests
  BY DEF TypeInv, Idle
<1>2. Environments' = Environments
  BY DEF Environments
<1> QED
  BY <1>1, <1>2 DEF TypeInv, Requests, Steps

(* The process and its environment. *)
LEMMA ProcessKeepsInv ==
    ASSUME IInv,
           Start \/ Stop \/ \E v \in DOMAIN EnvTexts : \E t \in EnvTexts[v] : SetEnv(v, t)
    PROVE  IInv'
<1> USE DEF IInv, TypeInv, ProcessInv
<1>1. Environments' = Environments
  BY DEF Environments
<1>2. CASE Start
  <2>1. request = Idle /\ granted = {} /\ UNCHANGED <<file, env, keys, request, granted>>
    BY <1>2 DEF Start
  <2>2. /\ Parses(file, env)' /\ config' = Loaded(file, env)'
        /\ Connects(config, DatabasePassword)'
    BY <1>2 DEF Start
  <2> QED
    BY <1>1, <2>1, <2>2 DEF RequestInv
<1>3. CASE Stop
  BY <1>1, <1>3 DEF Stop, RequestInv, Running
<1>4. ASSUME NEW v \in DOMAIN EnvTexts, NEW t \in EnvTexts[v], SetEnv(v, t)
      PROVE  IInv'
  <2>1. request' = Idle /\ granted' = {} /\ ~Running'
    BY <1>4 DEF SetEnv, Running
  <2>2. env' \in Environments
    BY <1>4 DEF SetEnv, Environments
  <2> QED
    BY <1>1, <1>4, <2>1, <2>2 DEF SetEnv, RequestInv
<1> QED
  BY <1>2, <1>3, <1>4

(* Keys come and go behind a request's back. *)
LEMMA KeysKeepInv ==
    ASSUME IInv, NEW k \in ApiKeys, IssueKey(k) \/ RemoveKey(k)
    PROVE  IInv'
<1> USE DEF IInv, TypeInv
<1>1. UNCHANGED <<file, env, config, granted>>
  BY DEF IssueKey, RemoveKey
<1>2. ProcessInv'
  <2>1. ~Running => request' = request
    BY DEF IssueKey, RemoveKey, UnderWay, ProcessInv, Idle
  <2>2. Running' = Running /\ EnvToken' = EnvToken
    BY <1>1 DEF Running, EnvToken
  <2> QED
    BY <1>1, <2>1, <2>2 DEF ProcessInv
<1>3. CASE request = Idle
  <2>1. request' = Idle
    BY <1>3 DEF IssueKey, RemoveKey, UnderWay, Idle
  <2> QED
    BY <1>1, <1>2, <2>1 DEF IssueKey, RemoveKey, Environments, RequestInv
<1>4. CASE request \in Requests
  <2>1. request # Idle
    BY <1>4, IdleIsNoRequest
  <2>2. CASE ~UnderWay
    <3>1. request' = request /\ keys' \in SUBSET ApiKeys
      BY <2>2 DEF IssueKey, RemoveKey
    <3>2. ~UnderWay' /\ Decided' = Decided
      BY <1>1, <2>2, <3>1 DEF UnderWay, Decided
    <3> QED
      BY <1>1, <1>2, <3>1, <3>2 DEF RequestInv, Environments
  <2>3. CASE UnderWay
    <3>1. /\ request' \in Requests
          /\ keys' \in SUBSET ApiKeys
          /\ request'.pc = request.pc
          /\ request'.path = request.path
          /\ request'.header = request.header
          /\ request.ever \subseteq request'.ever
          /\ request'.always \subseteq keys'
          /\ keys' \subseteq request'.ever
      BY <1>4, <2>1, <2>3 DEF IssueKey, RemoveKey, Requests, RequestInv
    <3>2. request.path = "api" => Decided
      BY <2>1 DEF RequestInv
    <3>3. request'.path = "api" => Decided'
      BY <1>1, <2>3, <3>1, <3>2 DEF Decided, UnderWay
    <3> QED
      BY <1>1, <1>2, <3>1, <3>3 DEF RequestInv, Environments
  <2> QED
    BY <2>2, <2>3
<1> QED
  BY <1>3, <1>4

LEMMA ClientsKeepInv ==
    ASSUME IInv,
           \/ Leave
           \/ \E path \in {"login", "api"}, header \in Texts \cup {NoHeader} :
                 Arrive(path, header)
    PROVE  IInv'
<1> USE DEF IInv, TypeInv
<1>1. UNCHANGED <<file, env, config, keys, granted>>
  BY DEF Leave, Arrive
<1>2. Running' = Running /\ EnvToken' = EnvToken /\ Environments' = Environments
  BY <1>1 DEF Running, EnvToken, Environments
<1>3. CASE Leave
  <2>1. request' = Idle
    BY <1>3 DEF Leave
  <2> QED
    BY <1>1, <1>2, <2>1 DEF ProcessInv, RequestInv
<1>4. ASSUME NEW path \in {"login", "api"}, NEW header \in Texts \cup {NoHeader},
             Arrive(path, header)
      PROVE  IInv'
  <2>1. /\ request' \in Requests
        /\ request'.pc = "layer"
        /\ request'.ever = keys /\ request'.always = keys
    BY <1>4 DEF Arrive, Requests
  <2>2. Running
    BY <1>4 DEF Arrive
  <2>3. Decided'
    BY <2>1 DEF Decided
  <2> QED
    BY <1>1, <1>2, <2>1, <2>2, <2>3 DEF ProcessInv, RequestInv
<1> QED
  BY <1>3, <1>4

(* A step of the layer or of a handler keeps the invariant when what it    *)
(* decides of a request is true.                                           *)
LEMMA StepKeepsInv ==
    ASSUME IInv, NEW pc, NEW next, Steps(pc, next), TypeInv',
           granted' \subseteq {EnvToken},
           UnderWay' => UnderWay,
           request.path = "api" => Decided'
    PROVE  IInv'
<1>1. request # Idle /\ request' # Idle
  BY IdleIsNoRequest DEF Steps
<1>2. Running /\ Running' /\ EnvToken' = EnvToken
  BY <1>1 DEF IInv, ProcessInv, Running, Steps, EnvToken
<1>3. ProcessInv'
  BY <1>2 DEF IInv, ProcessInv, Steps
<1>4. RequestInv'
  BY <1>1 DEF IInv, RequestInv, Steps
<1> QED
  BY <1>3, <1>4 DEF IInv

LEMMA LayerKeepsInv ==
    ASSUME IInv, Layer \/ Serve
    PROVE  IInv'
<1> USE DEF IInv, Answer, GoOn, IsLogin
<1>1. request.pc \in {"layer", "lookup", "handler"}
  BY DEF Layer, PassLogin, RefuseNoHeader, PanicOnHeader, PassAdmin, AskTable,
         Found, RefuseNotFound, LookupFails, Serve
<1>2. request # Idle /\ UnderWay
  BY <1>1 DEF Idle, UnderWay
<1>3. request.always \subseteq keys /\ keys \subseteq request.ever
      /\ (request.path = "api" => Decided)
  BY <1>2 DEF RequestInv
<1>4. granted \subseteq {EnvToken} /\ request \in Requests
  BY <1>2 DEF ProcessInv, TypeInv
<1>6. ASSUME NEW pc \in {"layer", "lookup", "handler"},
             NEW next \in {"lookup", "handler", "200", "401", "500", "closed"},
             GoOn(pc, next), request.path = "api" => Decided'
      PROVE  IInv'
  <2>1. Steps(pc, next) /\ TypeInv'
    BY <1>6, PcSteps
  <2> QED
    BY <1>2, <1>4, <1>6, <2>1, StepKeepsInv
<1>7. ASSUME NEW pc \in {"layer", "lookup", "handler"},
             NEW next \in {"lookup", "handler", "200", "401", "500", "closed"},
             GoOn(pc, next)
      PROVE  /\ request'.pc = next /\ request'.path = request.path
             /\ request'.header = request.header
             /\ request'.ever = request.ever /\ request'.always = request.always
             /\ UNCHANGED <<keys, config>>
  BY <1>7, <1>4, PcSteps DEF Steps
<1>5. CASE PanicOnHeader
  BY <1>6, <1>7, <1>5 DEF PanicOnHeader, Decided
<1>8. CASE PassLogin
  BY <1>4, <1>6, <1>8 DEF PassLogin, Requests
<1>9. CASE RefuseNoHeader
  BY <1>6, <1>7, <1>9 DEF RefuseNoHeader, Decided
<1>10. CASE PassAdmin
  BY <1>6, <1>7, <1>10 DEF PassAdmin, HasCredential, Decided
<1>11. CASE AskTable
  BY <1>6, <1>7, <1>11 DEF AskTable, HasCredential, Decided
<1>12. CASE Found
  BY <1>3, <1>6, <1>7, <1>12 DEF Found, Decided
<1>13. CASE RefuseNotFound
  BY <1>3, <1>6, <1>7, <1>13 DEF RefuseNotFound, Decided
<1>14. CASE LookupFails
  BY <1>3, <1>6, <1>7, <1>14 DEF LookupFails, Decided
<1>15. CASE Serve
  BY <1>3, <1>6, <1>7, <1>15 DEF Serve, Decided
<1> QED
  BY <1>5, <1>8, <1>9, <1>10, <1>11, <1>12, <1>13, <1>14, <1>15 DEF Layer

LEMMA LoginKeepsInv ==
    ASSUME IInv, admin_login
    PROVE  IInv'
<1>1. PICK username \in {Admin, "other"}, token \in Texts \cup {NoHeader} :
          AcceptLogin(username, token) \/ RefuseLogin(username, token)
  BY DEF admin_login
<1>2. PICK next \in {"200", "401"} :
          /\ request.pc = "handler" /\ request.path = "login"
          /\ request' = [request EXCEPT !.pc = next]
          /\ UNCHANGED <<file, env, config, keys>>
  BY <1>1 DEF AcceptLogin, RefuseLogin, Answer, IsLogin
<1>3. Steps("handler", next) /\ TypeInv' /\ UnderWay
  BY <1>2, PcSteps DEF IInv, UnderWay
<1>4. granted' \subseteq {EnvToken}
  BY <1>1 DEF AcceptLogin, RefuseLogin, Answer, IInv, ProcessInv
<1> QED
  BY <1>2, <1>3, <1>4, StepKeepsInv

LEMMA NextKeepsInv == IInv /\ [Next]_vars => IInv'
<1> SUFFICES ASSUME IInv, [Next]_vars PROVE IInv'
  OBVIOUS
<1>1. CASE UNCHANGED vars
  BY <1>1 DEF vars, IInv, TypeInv, ProcessInv, RequestInv, Decided, UnderWay,
              Running, EnvToken, Environments
<1>2. CASE \E k \in ApiKeys : IssueKey(k) \/ RemoveKey(k)
  BY <1>2, KeysKeepInv
<1>3. CASE Next
  BY <1>2, <1>3, ProcessKeepsInv, ClientsKeepInv, LayerKeepsInv, LoginKeepsInv DEF Next
<1> QED
  BY <1>1, <1>3

THEOREM AccessInvariant == Spec => []IInv
BY InitInv, NextKeepsInv, PTL DEF Spec

(* A handler runs only for the admin token of its process or for a key     *)
(* that was in the table since the request came.                           *)
THEOREM OnlyCredentialsAreServed == Spec => []ServedWithCredential
<1>1. IInv => ServedWithCredential
  BY DEF IInv, RequestInv, Decided, ServedWithCredential, Answered, Idle
<1> QED
  BY <1>1, AccessInvariant, PTL

(* A key that stays in the table while its request is handled is never     *)
(* called invalid, however many others come and go and queries fail.       *)
THEOREM ValidKeysAreNotRefused == Spec => []ValidKeyNeverRefused
<1>1. ASSUME IInv, Answered("401") PROVE request.header \notin request.always
  <2>1. request \in Requests /\ Decided
    BY <1>1 DEF IInv, TypeInv, RequestInv, Answered, Idle
  <2>2. request.header = NoHeader \/ request.header \notin request.always
    BY <1>1, <2>1 DEF Decided, Answered
  <2> QED
    BY <2>1, <2>2, NoHeaderIsNoText DEF Requests
<1>2. IInv => ValidKeyNeverRefused
  BY <1>1 DEF ValidKeyNeverRefused
<1> QED
  BY <1>2, AccessInvariant, PTL

(* Where the file names the variable, the layer's token is the login's but *)
(* for an escape.                                                          *)
LEMMA OneSourceOneToken ==
    ASSUME IInv, Running, OneSource, EnvToken.sort # "escape"
    PROVE  config.admin_token = EnvToken
<1>1. "admin_token" \in Fields
  BY DEF Fields, FieldType
<1>2. Given(file, "admin_token")
  <2>1. Absent.var = ""
    BY DEF Absent, Reference
  <2> QED
    BY <2>1, AccessAssumption DEF OneSource, Given
<1>3. config["admin_token"] = TomlValue(Substituted(file["admin_token"], env)).content
  BY <1>1, <1>2 DEF IInv, ProcessInv, Loaded
<1>4. Substituted(file["admin_token"], env) = EnvToken
  BY DEF OneSource, Substituted, EnvToken
<1> QED
  BY <1>3, <1>4 DEF TomlValue

(* Where the file names the variable and no default takes its place, login *)
(* and layer agree on every token of the environment but those in which a  *)
(* backslash begins an escape and those beyond ASCII, which the layer      *)
(* answers with a closed connection.                                       *)
THEOREM LayerAgreesWithLogin == Spec => []LoginAgreesWithLayer
<1>1. ASSUME IInv, OneSource, request.pc \in {"lookup", "401", "500", "closed"},
             request.path = "api", request.header \in granted
      PROVE  request.header.sort = IF request.pc = "closed" THEN "unicode" ELSE "escape"
  <2>1. request # Idle /\ Running
    BY <1>1 DEF Idle, IInv, ProcessInv
  <2>2. request.header = EnvToken
    BY <1>1 DEF IInv, ProcessInv
  <2>3. EnvToken.sort # "no header"
    <3>1. \A v \in DOMAIN EnvTexts : env[v] \in EnvTexts[v]
      BY <1>1 DEF IInv, TypeInv, Environments
    <3>2. env[AdminVar] \in EnvTexts[AdminVar]
      BY <3>1, AccessAssumption
    <3>3. env[AdminVar].sort \in Sorts \cup {"unset"}
      BY <3>2, AccessAssumption
    <3>4. EmptyText.sort = "empty"
      BY DEF EmptyText, Text
    <3> QED
      BY <3>3, <3>4 DEF EnvToken, Sorts
  <2>4. NoHeader.sort = "no header"
    BY DEF NoHeader, Text
  <2>5. CASE request.pc = "closed"
    BY <1>1, <2>1, <2>5 DEF IInv, RequestInv, Decided
  <2>6. CASE request.pc # "closed"
    <3>1. request.header # config.admin_token
      BY <1>1, <2>1, <2>2, <2>3, <2>4, <2>6 DEF IInv, RequestInv, Decided
    <3> QED
      BY <1>1, <2>1, <2>2, <2>6, <3>1, OneSourceOneToken
  <2> QED
    BY <2>5, <2>6
<1>2. IInv => LoginAgreesWithLayer
  BY <1>1 DEF LoginAgreesWithLayer
<1> QED
  BY <1>2, AccessInvariant, PTL

(* A process runs only with what its environment says and its fields can   *)
(* hold: the parser's types, the width of the port and the least pool      *)
(* refuse everything else before there are settings.                       *)
THEOREM RunningSettingsFit == Spec => []SettingsFit
<1>1. ASSUME IInv, Running, NEW f \in Fields, Given(file, f), env[file[f].var] # Unset
      PROVE  LET value == env[file[f].var]
             IN  \/ /\ f \in {"http_port", "max_connection"}
                    /\ value.sort = "number" /\ config[f] = value
                    /\ f = "http_port" => value.value < 65536
                    /\ f = "max_connection" => value.value >= 1
                 \/ /\ f \in {"admin_token", "password"}
                    /\ value.sort \notin {"number", "odd", "boolean"}
                    /\ config[f] = value \/ value.sort = "escape"
  <2> DEFINE value == env[file[f].var]
  <2>1. /\ Accepts(f, TomlValue(value))
        /\ config[f] = TomlValue(value).content
    BY <1>1 DEF IInv, ProcessInv, Parses, Loaded, Substituted
  <2>2. Connects(config, DatabasePassword)
    BY <1>1 DEF IInv, ProcessInv
  <2>3. CASE f \in {"http_port", "max_connection"}
    <3>1. IsNumber(f) /\ (f = "http_port" => FieldType[f] = "u16")
      BY <2>3 DEF IsNumber, FieldType
    <3>2. TomlValue(value).type = "integer"
      BY <2>1, <3>1 DEF Accepts
    <3>3. value.sort = "number" /\ TomlValue(value).content = value
      BY <3>2 DEF TomlValue
    <3>4. f = "http_port" => value.value < 65536
      BY <2>1, <3>1, <3>3 DEF Accepts
    <3>5. f = "max_connection" => value.value >= 1
      BY <2>1, <2>2, <3>3 DEF Connects
    <3> QED
      BY <2>1, <2>3, <3>3, <3>4, <3>5
  <2>4. CASE f \in {"admin_token", "password"}
    <3>1. ~IsNumber(f)
      BY <2>4 DEF IsNumber, FieldType
    <3>2. TomlValue(value).type = "string"
      BY <2>1, <3>1 DEF Accepts
    <3>3. ~Unquoted(value)
      BY <3>2 DEF TomlValue
    <3>4. config[f] = value \/ value.sort = "escape"
      BY <2>1, <3>3 DEF TomlValue
    <3> QED
      BY <2>4, <3>3, <3>4 DEF Unquoted
  <2> QED
    BY <2>3, <2>4 DEF Fields, FieldType
<1>2. IInv => SettingsFit
  BY <1>1 DEF SettingsFit
<1> QED
  BY <1>2, AccessInvariant, PTL
=============================================================================
