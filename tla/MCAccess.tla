------------------------------- MODULE MCAccess ------------------------------
(* Values for the constants of Access. *)
EXTENDS Access

word == Text("text", "word")
other == Text("text", "other")
key == Text("text", "key")
digits == Text("number", 5432)
backslash == Text("escape", "backslash")
accent == Text("unicode", "accent")

Tokens == {Unset, EmptyText, word, other, digits, Text("odd", "1e5"),
           Text("boolean", "true"), backslash, accent}

\* A port that fits, one that does not, and a text.
PortTexts == {Unset, digits, Text("number", 70000), word}
postgres == Text("text", "postgres")
PasswordTexts == {Unset, postgres, digits, Text("reserved", "slash")}
PoolTexts == {Unset, Text("number", 0), Text("number", 70000)}

EveryEnvText == [MCP_ADMIN_TOKEN |-> Tokens, HTTP_PORT |-> PortTexts,
                 POSTGRES_PASSWORD |-> PasswordTexts,
                 POSTGRES_MAX_CONNECTION |-> PoolTexts]

\* bootstrap.toml; the same without the line of the admin token; and with a
\* default in it.
bootstrap ==
    [http_port      |-> Reference("HTTP_PORT", digits),
     admin_token    |-> Reference("MCP_ADMIN_TOKEN", EmptyText),
     password       |-> Reference("POSTGRES_PASSWORD", postgres),
     max_connection |-> Reference("POSTGRES_MAX_CONNECTION", Text("number", 5))]

ThreeFiles == {bootstrap, [bootstrap EXCEPT !.admin_token = Absent],
    [bootstrap EXCEPT !.admin_token = Reference("MCP_ADMIN_TOKEN", other)]}

EveryCredential == {word, other, key, EmptyText, digits, backslash, accent}
TwoKeys == {key, other}
=============================================================================
