---------------------------- MODULE ResponseStream ---------------------------
(***************************************************************************)
(* What the client of a proxied request may observe: one chunk for every   *)
(* run of the upstream's body, and one of three ends.                      *)
(***************************************************************************)
EXTENDS Integers, Sequences

VARIABLES
    source,         \* the upstream: "pending", "open", "done", "failed"
    sent,           \* pieces of its body that it has sent
    received,       \* the runs of pieces that the client's chunks stand for
    response        \* "open", "refused", "complete", "aborted", "gone"

streamVars == <<source, sent, received, response>>

Reach == IF received = <<>> THEN 0 ELSE received[Len(received)].to

Init ==
    /\ source = "pending"
    /\ sent = 0
    /\ received = <<>>
    /\ response = "open"

Refuse ==
    /\ source = "pending"
    /\ response = "open"
    /\ response' = "refused"
    /\ UNCHANGED <<source, sent, received>>

Respond ==
    /\ source = "pending"
    /\ source' \in {"open", "failed"}
    /\ UNCHANGED <<sent, received, response>>

Send ==
    /\ source = "open"
    /\ sent' = sent + 1
    /\ UNCHANGED <<source, received, response>>

Stop ==
    /\ source = "open"
    /\ source' \in {"done", "failed"}
    /\ UNCHANGED <<sent, received, response>>

(* The next run of what was sent. *)
Receive ==
    /\ response = "open"
    /\ \E n \in Reach + 1 .. sent :
          received' = Append(received, [from |-> Reach + 1, to |-> n])
    /\ UNCHANGED <<source, sent, response>>

(* The client sees an ordinary end, or a broken one, or leaves. *)
Complete ==
    /\ response = "open"
    /\ source = "done"
    /\ Reach = sent
    /\ response' = "complete"
    /\ UNCHANGED <<source, sent, received>>

Abort ==
    /\ response = "open"
    /\ source = "failed"
    /\ response' = "aborted"
    /\ UNCHANGED <<source, sent, received>>

Leave ==
    /\ response = "open"
    /\ response' = "gone"
    /\ UNCHANGED <<source, sent, received>>

Next ==
    \/ Refuse \/ Respond \/ Send \/ Stop
    \/ Receive \/ Complete \/ Abort \/ Leave

Spec == Init /\ [][Next]_streamVars
=============================================================================
