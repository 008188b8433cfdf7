------------------------------ MODULE ProxyPath -----------------------------
(***************************************************************************)
(* The conversions between the message path an MCP server announces, the   *)
(* path of the proxy that stands for it, and the URL a message is          *)
(* forwarded to (connection.rs and message.rs of                           *)
(* mc-service/src/reverse_proxy).                                          *)
(*                                                                         *)
(* A path is the sequence of the texts between its slashes: "/a/b" is      *)
(* <<"", "a", "b">>, "a" is <<"a">>, "/" is <<"", "">>, and the empty text *)
(* is <<"">>.                                                              *)
(***************************************************************************)
EXTENDS Endpoint, SequencesExt

Empty == <<"">>

NonEmpty(path) == {i \in DOMAIN path : path[i] # ""}

(* Mutant: the path is taken to begin with a slash. *)
DropFirst(path) == IF Len(path) = 1 THEN Empty ELSE Tail(path)

(* trim_start_matches('/') *)
TrimStart(path) ==
    IF NonEmpty(path) = {} THEN Empty
    ELSE SubSeq(path, Min(NonEmpty(path)), Len(path))

(* trim_matches('/') *)
TrimBoth(path) ==
    IF NonEmpty(path) = {} THEN Empty
    ELSE SubSeq(path, Min(NonEmpty(path)), Max(NonEmpty(path)))

Rooted(path) == Empty \o path       \* "/" followed by path

(* /proxy/message/{name}/{tag}/{rest}?{query}.  Of the announced query     *)
(* only the session id is kept: REGEX_MESSAGE ends there.                  *)
build_proxy_message_path(key, announced) ==
    [key   |-> key,
     rest  |-> TrimStart(announced.path),
     query |-> [sid |-> announced.query.sid, more |-> FALSE]]

(* The wildcard of /proxy/message/{name}/{tag}/{*subPath} matches no empty *)
(* text: the router answers 404 by itself.                                 *)
Routes(url) == url.rest # Empty

(* REGEX_MESSAGE_ROUTER: the sub path begins with the slash. *)
parse_message_router(url) == [key |-> url.key, sub_path |-> Rooted(url.rest)]

(* Mutant: the slash of the sub path is not trimmed. *)
RawPathUntrimmed(server, sub_path, query) ==
    [scheme |-> server.scheme,
     host   |-> server.host,
     port   |-> DefaultPort(server.scheme),
     path   |-> Rooted(sub_path),
     query  |-> query]

(* {scheme}://{host}/{sub_path}?{query}: without a port, so the HTTP       *)
(* client takes the scheme's.                                              *)
build_raw_message_path(server, sub_path, query) ==
    [scheme |-> server.scheme,
     host   |-> server.host,
     port   |-> DefaultPort(server.scheme),
     path   |-> Rooted(TrimBoth(sub_path)),
     query  |-> query]
=============================================================================
