---------------------------- MODULE MCStreamRelay ----------------------------
(* Values for the constants of StreamRelay. *)
EXTENDS StreamRelay

\* "data: /message?sessionId=36" and a line break.
opening == <<"da", "ta:", "text", "?", "sessionId=", "hex", "hex", "newline">>

\* Something ordinary behind it; "why? http://x?sessionId=a", which matches
\* only when it is cut behind its first "?"; an endpoint event with another
\* data line behind it; and one with a line above, "event: endpoint".
TextBodies == {
    opening \o <<"text">>,
    <<"text", "?", "text", "?", "sessionId=", "hex">>,
    <<"da", "ta:", "text", "?", "sessionId=", "hex", "newline", "da", "ta:",
      "text">>,
    <<"text", "newline", "da", "ta:", "text", "?", "sessionId=", "hex">>}
=============================================================================
