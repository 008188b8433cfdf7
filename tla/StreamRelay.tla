----------------------------- MODULE StreamRelay ----------------------------
(***************************************************************************)
(* One proxied request: the handler in ConnectionService or MessageService *)
(* (mc-service/src/reverse_proxy), which refuses it or asks the upstream;  *)
(* the task it spawns to relay the body; the bounded channel behind that   *)
(* task and the client at the other end; and the task of                   *)
(* build_error_stream_response, which sends one text.                      *)
(*                                                                         *)
(* The upstream sends server-sent events.  Their text is abstracted to the *)
(* pieces that parse_message tells apart, cut finely enough that a chunk,  *)
(* which the network makes of any length, is a run of them: the relay      *)
(* looks at one chunk at a time.                                           *)
(***************************************************************************)
EXTENDS Integers, Sequences

CONSTANTS
    Bodies,         \* what upstreams may send, piece by piece
    Capacity        \* mpsc::channel(100)

(* "data:" in two pieces, the latter with every "data:" right behind it; a *)
(* run of digits of REGEX_MESSAGE's session id; line breaks; and text that *)
(* is none of these, blanks included, but not blanks alone.                *)
Piece == {"da", "ta:", "?", "sessionId=", "hex", "newline", "text"}

ASSUME StreamRelayAssumption ==
    /\ Bodies \subseteq Seq(Piece)
    /\ Capacity \in Nat \ {0}

VARIABLES
    request,        \* its kind, "connect" or "message", and the text of the
                    \* body that the upstream would send for it
    upstream,       \* "idle", "asked", "unreachable", and once it has answered
                    \* its body: "open", "done", "failed"
    answer,         \* the head of the response: "none", "refusal", "relayed"
    sent,           \* pieces the upstream has sent
    read,           \* pieces the task has taken
    pc,             \* the handler: "lookup", "request"; then the task: "read",
                    \* what it is sending, or "ended"
    hand,           \* the chunk it took last
    queue,          \* frames in the channel
    client,         \* "open", "gone", "aborted" (saw an error), "complete"
    delivered       \* history: the chunks and texts the client has received

vars == <<request, upstream, answer, sent, read, pc, hand, queue, client, delivered>>

body == <<sent, read, hand, queue, delivered>>
-----------------------------------------------------------------------------
text == request.text
Pieces == Len(text)

(* A chunk holds the pieces from..to.  names is empty when it is relayed   *)
(* as it is; otherwise it is replaced by one announcement, made of the     *)
(* pieces a..z of each <<a, z>> in names (one, or none): a message path, a *)
(* "?" and a session id.                                                   *)
Chunk == [from : Nat, to : Nat, names : SUBSET (Nat \X Nat)]

NoChunk == [from |-> 0, to |-> 0, names |-> {}]

(* The other frames: Err(io::Error), the trailers, and the body of an      *)
(* error answer.  The task sends the frame its pc names, or its chunk.     *)
Signals == {"failure", "trailers", "text"}
Sending == Signals \cup {"chunk"}

Frame == [is : Sending, chunk : Chunk]

FrameAtHand == [is |-> pc, chunk |-> IF pc = "chunk" THEN hand ELSE NoChunk]

(* Where a line of the chunk from..to starts with "data:". *)
DataLines(from, to) ==
    {i \in from .. to - 1 : /\ text[i] = "da" /\ text[i + 1] = "ta:"
                            /\ i = from \/ text[i - 1] = "newline"}

(* Mutant: the last of them is taken. *)
LastOf(lines) == {i \in lines : \A j \in lines : j <= i}

FirstOf(lines) == {i \in lines : \A j \in lines : i <= j}

(* REGEX_MESSAGE on the pieces a..z: a path up to the first "?", which may *)
(* run over lines, and a session id.                                       *)
IsAddress(a, z) ==
    \E q \in a + 1 .. z - 2 :
        /\ \A i \in a .. q - 1 : text[i] # "?"
        /\ \E i \in a .. q - 1 : text[i] # "newline"
        /\ text[q] = "?" /\ text[q + 1] = "sessionId="
        /\ \A i \in q + 2 .. z : text[i] = "hex"

(* The address at the start of the first data line of a chunk, and in a    *)
(* chunk without such a line at the chunk's own start; its session id ends *)
(* where the digits do, or the chunk.                                      *)
parse_message(from, to) ==
    LET lines == DataLines(from, to)
        Searched(a, z) ==
            IF lines = {} THEN a = from
            ELSE /\ a - 2 \in FirstOf(lines)
                 /\ \A i \in a .. z : text[i] # "newline"
    IN  {r \in (from .. to) \X (from .. to) :
            /\ Searched(r[1], r[2])
            /\ IsAddress(r[1], r[2])
            /\ r[2] = to \/ text[r[2] + 1] # "hex"}

(* Only ConnectionService parses. *)
Relayed(from, to) ==
    [from |-> from, to |-> to,
     names |-> IF request.kind = "connect" THEN parse_message(from, to) ELSE {}]

Init ==
    /\ request \in [kind : {"connect", "message"}, text : Bodies]
    /\ upstream = "idle"
    /\ answer = "none"
    /\ sent = 0
    /\ read = 0
    /\ pc = "lookup"
    /\ hand = NoChunk
    /\ queue = <<>>
    /\ client = "open"
    /\ delivered = <<>>
-----------------------------------------------------------------------------
(* The handler. *)

(* The path is none of the proxy's, the cache has no entry, or the URL is  *)
(* no Uri: status 500, and a task for the text.                            *)
Refuse ==
    /\ pc = "lookup"
    /\ pc' = "text"
    /\ answer' = "refusal"
    /\ UNCHANGED <<request, upstream, client, body>>

(* client.request(req) *)
Ask ==
    /\ pc = "lookup"
    /\ pc' = "request"
    /\ upstream' = "asked"
    /\ UNCHANGED <<request, answer, client, body>>

(* Its future yields a response: the task is spawned, and status and       *)
(* headers go to the client.                                               *)
HandOver ==
    /\ pc = "request"
    /\ upstream \in {"open", "done", "failed"}
    /\ pc' = "read"
    /\ answer' = "relayed"
    /\ UNCHANGED <<request, upstream, client, body>>

(* Mutant: a failed request is repeated. *)
AskAgain ==
    /\ pc = "request"
    /\ upstream = "unreachable"
    /\ upstream' = "asked"
    /\ UNCHANGED <<request, answer, pc, client, body>>

(* It yields an error: unwrap() panics, and the connection is closed.      *)
RequestPanics ==
    /\ pc = "request"
    /\ upstream = "unreachable"
    /\ pc' = "ended"
    /\ client' = "aborted"
    /\ UNCHANGED <<request, upstream, answer, body>>
-----------------------------------------------------------------------------
(* The upstream. *)

UpstreamAnswers ==
    /\ upstream = "asked"
    /\ upstream' \in {"open", "unreachable"}
    /\ UNCHANGED <<request, answer, pc, client, body>>

UpstreamSends ==
    /\ upstream = "open"
    /\ sent < Pieces
    /\ sent' = sent + 1
    /\ UNCHANGED <<request, upstream, answer, read, pc, hand, queue, client, delivered>>

UpstreamEnds ==
    /\ upstream = "open"
    /\ upstream' \in {"done", "failed"}
    /\ UNCHANGED <<request, answer, pc, client, body>>
-----------------------------------------------------------------------------
(* The task. *)

AfterSend ==
    [chunk |-> "read", failure |-> "trailers", trailers |-> "ended", text |-> "ended"]

(* Mutant: a refused chunk is sent again. *)
RetryRefusal == [AfterSend EXCEPT !.chunk = "chunk"]

(* Only a sent chunk keeps the task in its loop. *)
AfterRefusal == [AfterSend EXCEPT !.chunk = "trailers"]

(* response_stream.next() yields a chunk. *)
TakeChunk ==
    /\ pc = "read"
    /\ \E to \in read + 1 .. sent :
          /\ hand' = Relayed(read + 1, to)
          /\ read' = to
    /\ pc' = "chunk"
    /\ UNCHANGED <<request, upstream, answer, sent, queue, client, delivered>>

(* Mutants: the task leaves its loop without passing the error on; it goes *)
(* on as if another chunk could follow.                                    *)
TakeFailureSilently ==
    /\ pc = "read"
    /\ upstream = "failed"
    /\ pc' = "trailers"
    /\ UNCHANGED <<request, upstream, answer, sent, read, hand, queue, client, delivered>>

TakeFailureAndGoOn ==
    /\ pc = "read"
    /\ upstream = "failed"
    /\ UNCHANGED vars

(* It yields the error of a broken connection, which may overtake chunks. *)
TakeFailure ==
    /\ pc = "read"
    /\ upstream = "failed"
    /\ pc' = "failure"
    /\ UNCHANGED <<request, upstream, answer, sent, read, hand, queue, client, delivered>>

(* Mutant: is_end_stream() is asked instead, chunks may be left behind. *)
TakeEndEarly ==
    /\ pc = "read"
    /\ upstream = "done"
    /\ pc' = "trailers"
    /\ UNCHANGED <<request, upstream, answer, sent, read, hand, queue, client, delivered>>

(* It yields None: the while loop is left. *)
TakeEnd ==
    /\ pc = "read"
    /\ upstream = "done"
    /\ read = sent
    /\ pc' = "trailers"
    /\ UNCHANGED <<request, upstream, answer, sent, read, hand, queue, client, delivered>>

(* Mutant: one frame too many is let in. *)
HasRoomLate == client = "open" /\ Len(queue) <= Capacity

HasRoom == client = "open" /\ Len(queue) < Capacity

(* Mutant: try_send, which drops the frame when the channel is full. *)
SendWithoutWaiting ==
    /\ pc \in Sending
    /\ client = "open"
    /\ queue' = IF HasRoom THEN Append(queue, FrameAtHand) ELSE queue
    /\ pc' = AfterSend[pc]
    /\ UNCHANGED <<request, upstream, answer, sent, read, hand, client, delivered>>

(* tx.send(frame).await, with room in the channel. *)
SendFrame ==
    /\ pc \in Sending
    /\ HasRoom
    /\ queue' = Append(queue, FrameAtHand)
    /\ pc' = AfterSend[pc]
    /\ UNCHANGED <<request, upstream, answer, sent, read, hand, client, delivered>>

(* tx.send(frame).await fails: the response body was dropped.  For the     *)
(* text of an error answer that is a panic, which ends its task too.       *)
SendRefused ==
    /\ pc \in Sending
    /\ client # "open"
    /\ pc' = AfterRefusal[pc]
    /\ UNCHANGED <<request, upstream, answer, sent, read, hand, queue, client, delivered>>
-----------------------------------------------------------------------------
(* The client, through hyper and the ReceiverStream. *)

ReceiveChunk ==
    /\ client = "open"
    /\ queue # <<>>
    /\ Head(queue).is \in {"chunk", "text"}
    /\ delivered' = Append(delivered, Head(queue))
    /\ queue' = Tail(queue)
    /\ UNCHANGED <<request, upstream, answer, sent, read, pc, hand, client>>

(* hyper ends the response at the trailers, and aborts it at an error. *)
ReceiveSignal ==
    /\ client = "open"
    /\ queue # <<>>
    /\ Head(queue).is \in {"failure", "trailers"}
    /\ client' = IF Head(queue).is = "failure" THEN "aborted" ELSE "complete"
    /\ queue' = <<>>
    /\ UNCHANGED <<request, upstream, answer, sent, read, pc, hand, delivered>>

(* The sender was dropped and the channel is drained. *)
ReceiveEnd ==
    /\ client = "open"
    /\ queue = <<>>
    /\ pc = "ended"
    /\ client' = "complete"
    /\ UNCHANGED <<request, upstream, answer, sent, read, pc, hand, queue, delivered>>

(* The client hangs up.  The future of a waiting handler is dropped; later *)
(* it is the body and with it the receiver, and nothing tells the task     *)
(* until it sends.                                                         *)
HangUp ==
    /\ client = "open"
    /\ client' = "gone"
    /\ pc' = IF pc \in {"lookup", "request"} THEN "ended" ELSE pc
    /\ queue' = <<>>
    /\ UNCHANGED <<request, upstream, answer, sent, read, hand, delivered>>
-----------------------------------------------------------------------------
Upstream == UpstreamAnswers \/ UpstreamSends \/ UpstreamEnds

Handler == Refuse \/ Ask \/ HandOver \/ RequestPanics

Task == TakeChunk \/ TakeFailure \/ TakeEnd \/ SendFrame \/ SendRefused

Client == ReceiveChunk \/ ReceiveSignal \/ ReceiveEnd \/ HangUp

Next == Upstream \/ Handler \/ Task \/ Client

Spec == Init /\ [][Next]_vars

(* The runtime polls the handler when the upstream's answer wakes it, and  *)
(* the task when a chunk, the end of the body, room in the channel or its  *)
(* closing does.  Nothing makes the upstream answer, send or end, or the   *)
(* client read or leave: there is no timeout anywhere.                     *)
FairSpec == Spec /\ WF_vars(Handler) /\ WF_vars(Task)
-----------------------------------------------------------------------------
(* Every variable has its type. *)
TypeOK ==
    /\ request \in [kind : {"connect", "message"}, text : Bodies]
    /\ upstream \in {"idle", "asked", "unreachable", "open", "done", "failed"}
    /\ answer \in {"none", "refusal", "relayed"}
    /\ sent \in 0..Pieces
    /\ read \in 0..sent
    /\ pc \in {"lookup", "request", "read", "ended"} \cup Sending
    /\ hand \in Chunk
    /\ queue \in Seq(Frame)
    /\ Len(queue) <= Capacity
    /\ client \in {"open", "gone", "aborted", "complete"}
    /\ delivered \in Seq(Frame)

(* What the client has received and, while it is there, what is under way  *)
(* to it.                                                                  *)
AtHand == IF pc \in Sending THEN <<FrameAtHand>> ELSE <<>>
Pipeline == IF client = "open" THEN delivered \o queue \o AtHand ELSE delivered

(* The first n frames are chunks that join up to the pieces 1..reach.      *)
Joined(frames, n, reach) ==
    /\ \A i \in 1..n :
          /\ frames[i].is = "chunk"
          /\ frames[i].chunk.from = IF i = 1 THEN 1 ELSE frames[i - 1].chunk.to + 1
    /\ reach = IF n = 0 THEN 0 ELSE frames[n].chunk.to

(* Whatever the chunks, the back-pressure and the moment the client leaves *)
(* or the upstream fails, the relay loses, repeats and reorders no chunk:  *)
(* those received and underway, as they were or replaced, were made of     *)
(* exactly what was read, in order.  Once the client is lost, of the start *)
(* of it.                                                                  *)
RelayIsFifo ==
    \E n \in 0 .. Len(Pipeline), reach \in 0..read :
        /\ Joined(Pipeline, n, reach)
        /\ \A i \in n + 1 .. Len(Pipeline) : Pipeline[i].is # "chunk"
        /\ client = "open" => reach = read

(* "?sessionId=" and a digit: without it, no chunk can match. *)
NamesSession(i) == text[i] = "?" /\ text[i + 1] = "sessionId=" /\ text[i + 2] = "hex"

Unchanged == \A i \in 1 .. Len(delivered) : delivered[i].chunk.names = {}

(* A client that sees the response end normally has got every chunk that   *)
(* the body of the upstream was cut into, as it was or replaced by an      *)
(* announcement, and the upstream did not break off.  What else was in a   *)
(* replaced chunk is lost; none is replaced, and the client has all that   *)
(* was sent, if it got the response to a message, or if nothing in the     *)
(* body names a session.                                                   *)
CleanEndIsComplete ==
    client = "complete" =>
        IF answer = "refusal" THEN delivered = <<[is |-> "text", chunk |-> NoChunk]>>
        ELSE /\ upstream = "done"
             /\ Joined(delivered, Len(delivered), sent)
             /\ \/ request.kind = "message"
                \/ \A i \in 1 .. Pieces - 2 : ~NamesSession(i)
                => Unchanged

(* The body opens with an endpoint event: lines that are not data, then at *)
(* d the line "data: path?sessionId=...", whose session id ends at z.      *)
EndpointEvent(d, z) ==
    /\ \A i \in 1 .. d - 1 : text[i] \in {"text", "newline"}
    /\ d = 1 \/ text[d - 1] = "newline"
    /\ text[d] = "da" /\ text[d + 1] = "ta:"
    /\ \E q \in d + 3 .. z - 2 :
          /\ \A i \in d + 2 .. q - 1 : text[i] = "text"
          /\ text[q] = "?" /\ text[q + 1] = "sessionId="
          /\ \A i \in q + 2 .. z : text[i] = "hex"
    /\ z = Pieces \/ text[z + 1] # "hex"

(* The endpoint event of a connection, when its first chunk holds it up to *)
(* the last digit, is replaced by the announcement of that very path and   *)
(* session, whatever follows it in the chunk; every chunk behind, however  *)
(* the rest is cut, arrives unchanged unless that rest names a session     *)
(* again.  (A cut within the event may announce a shortened session, or    *)
(* nothing.)  Responses to messages are never changed.                     *)
SessionStreamIntact ==
    /\ request.kind = "message" => Unchanged
    /\ \A d, z \in 1 .. Pieces :
          /\ request.kind = "connect" /\ EndpointEvent(d, z)
          /\ delivered # <<>> /\ delivered[1].chunk.to >= z
          => /\ delivered[1].chunk.names = {<<d + 2, z>>}
             /\ (\A i \in z + 1 .. Pieces - 2 : ~NamesSession(i)) =>
                   \A i \in 2 .. Len(delivered) : delivered[i].chunk.names = {}

(* When the upstream has answered, or could not be reached, its client     *)
(* gets a head or finds its connection closed: no failure leaves it        *)
(* waiting.                                                                *)
RequestIsAnswered ==
    upstream \notin {"idle", "asked"} ~> answer # "none" \/ client # "open"

(* Once the upstream has ended, the task ends too, unless its client stays *)
(* connected and from some time on does not read.                          *)
RelayFinishes ==
    []<>(HasRoom \/ client # "open") =>
        (upstream \in {"unreachable", "done", "failed"} ~> pc = "ended")

(* Once its client has gone, the task ends at the next thing the upstream  *)
(* does: only a silent upstream keeps it, and that connection, for ever.   *)
RelayNoticesHangUp ==
    [](client # "open" =>
          \/ <>(pc = "ended")
          \/ <>[](pc = "read" /\ upstream = "open" /\ read = sent))

(* The refinement mapping to ResponseStream. *)
Source ==
    IF upstream \in {"idle", "asked"} THEN "pending"
    ELSE IF upstream = "unreachable" THEN "failed" ELSE upstream

Runs(frames) == [i \in DOMAIN frames |-> [from |-> frames[i].chunk.from,
                                          to   |-> frames[i].chunk.to]]

Received == IF answer = "refusal" THEN <<>> ELSE Runs(delivered)

Response == IF answer = "refusal" THEN "refused" ELSE client

Stream == INSTANCE ResponseStream WITH
    source <- Source, received <- Received, response <- Response

(* Whatever handler, task and channel do, the client sees a response as    *)
(* ResponseStream promises it: chunks made of runs of the upstream's body, *)
(* in order and without a gap, then a complete end only behind the last, a *)
(* broken one only after a failure; or a refusal and no chunk at all.      *)
StreamHolds == Stream!Spec
=============================================================================
