-------------------------------- MODULE Config -------------------------------
(***************************************************************************)
(* From the environment to the settings of a process: replace_env_variables*)
(* (mc-booter/src/booter.rs), the TOML parser behind it with the types of  *)
(* mc-service/src/config.rs, and what DBClient::create makes of them.      *)
(*                                                                         *)
(* A text is abstracted to a value and the sort that the way through TOML  *)
(* and URL tells apart.  Texts with a quotation mark, a line break or an   *)
(* escape that TOML does not know are left out: the file does not parse.   *)
(***************************************************************************)
EXTENDS Naturals

Sorts == {
    "text",         \* anything else
    "empty",
    "number",       \* an integer of TOML from 0 on; the value is the number
    "odd",          \* any other f64 of Rust: 1e5, inf, 007, -1
    "boolean",      \* true, false
    "escape",       \* with a backslash that begins an escape of TOML
    "unescaped",    \* what TOML makes of it
    "reserved",     \* with a slash, "?", "#" or a percent escape, which mean
                    \* something else in a URL
    "unicode"}      \* beyond ASCII

Text(sort, value) == [sort |-> sort, value |-> value]
EmptyText == Text("empty", "")
Unset == Text("unset", "")

(* The settings that differ in their type or in what is made of them: host,*)
(* user name, database and definition path are texts without a check.      *)
FieldType == [http_port |-> "u16", max_connection |-> "u32",
              admin_token |-> "String", password |-> "String"]
Fields == DOMAIN FieldType
IsNumber(field) == FieldType[field] \in {"u16", "u32"}

(* A line of the file: field = "${var:default}", or none at all. *)
Reference(var, default) == [var |-> var, default |-> default]
Absent == Reference("", Unset)

(* Mutant: the default wins over the variable. *)
DefaultFirst(line, env) ==
    IF line.default # EmptyText THEN line.default ELSE env[line.var]

Substituted(line, env) ==
    IF env[line.var] = Unset THEN line.default ELSE env[line.var]

(* parse::<f64>().is_ok(), or "true" or "false": written without quotes. *)
Unquoted(t) == t.sort \in {"number", "odd", "boolean"}

(* What the TOML parser reads in its place: a string when it was quoted,   *)
(* in which an escape stands for another character; else an integer or a   *)
(* value of another type.                                                  *)
TomlValue(t) ==
    IF Unquoted(t)
    THEN [type |-> IF t.sort = "number" THEN "integer" ELSE "other", content |-> t]
    ELSE [type |-> "string",
          content |-> IF t.sort = "escape" THEN Text("unescaped", t.value) ELSE t]

(* Mutant: any integer is a port. *)
AcceptsWide(field, v) ==
    IF IsNumber(field) THEN v.type = "integer" ELSE v.type = "string"

(* The value is deserialized into a field of its type.  The numbers of the *)
(* models are far below 2^32.                                              *)
Accepts(field, v) ==
    IF IsNumber(field)
    THEN v.type = "integer" /\ (FieldType[field] = "u16" => v.content.value < 65536)
    ELSE v.type = "string"

(* #[serde(default)] *)
SerdeDefault(field) == IF IsNumber(field) THEN Text("number", 0) ELSE EmptyText

Given(file, f) == file[f] # Absent

(* toml::from_str succeeds.  In a [postgres] section nothing has a default.*)
Parses(file, env) ==
    \A f \in Fields :
        IF Given(file, f) THEN Accepts(f, TomlValue(Substituted(file[f], env)))
        ELSE f \in {"http_port", "admin_token"}

(* AppConfig, where the file Parses. *)
Loaded(file, env) ==
    [f \in Fields |-> IF Given(file, f) THEN TomlValue(Substituted(file[f], env)).content
                      ELSE SerdeDefault(f)]

(* DBClient::create: a pool of at least one connection, and a URL in which *)
(* the password is not escaped.  unwrap() panics otherwise.                *)
Connects(config, database_password) ==
    /\ config.max_connection.value >= 1
    /\ config.password.sort # "reserved"
    /\ config.password = database_password
=============================================================================
