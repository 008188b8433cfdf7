---------------------------- MODULE RelayProofs ------------------------------
(***************************************************************************)
(* What StreamRelay promises a client, for any number of events and any    *)
(* capacity of the channel: order, completeness of a clean end, and the    *)
(* abstract ResponseStream.                                                *)
(***************************************************************************)
EXTENDS StreamRelay, SequenceTheorems, TLAPS

(* Whatever is or was on its way to the client, in order.  A frame that is *)
(* sent or received only moves on within it.                               *)
Flow == delivered \o queue \o AtHand

TextFrame == [is |-> "text", chunk |-> NoChunk]

LEMMA PiecesType ==
    ASSUME TypeOK
    PROVE  text \in Seq(Piece) /\ Pieces \in Nat
<1>1. request.text \in Bodies
  BY DEF TypeOK
<1> QED
  BY <1>1, StreamRelayAssumption, LenProperties DEF text, Pieces

LEMMA RequestStays ==
    ASSUME [Next]_vars
    PROVE  request' = request
BY DEF Next, vars, body, Upstream, UpstreamAnswers, UpstreamSends, UpstreamEnds,
       Handler, Refuse, Ask, HandOver, RequestPanics, Task, TakeChunk, TakeFailure, TakeEnd,
       SendFrame, SendRefused, Client, ReceiveChunk, ReceiveSignal, ReceiveEnd, HangUp

LEMMA NoChunkType == NoChunk \in Chunk
BY DEF NoChunk, Chunk

LEMMA AtHandType ==
    ASSUME TypeOK
    PROVE  AtHand \in Seq(Frame) /\ (pc \in Sending => FrameAtHand \in Frame)
<1>1. pc \in Sending => FrameAtHand \in Frame
  BY NoChunkType DEF TypeOK, FrameAtHand, Frame
<1> QED
  BY <1>1 DEF AtHand

LEMMA RelayedType ==
    ASSUME NEW from \in Nat, NEW to \in Nat
    PROVE  /\ Relayed(from, to) \in Chunk
           /\ Relayed(from, to).from = from /\ Relayed(from, to).to = to
<1>1. parse_message(from, to) \subseteq Nat \X Nat
  BY DEF parse_message
<1> QED
  BY <1>1 DEF Relayed, Chunk

LEMMA TypeInit == Init => TypeOK
<1> SUFFICES ASSUME Init PROVE TypeOK
  OBVIOUS
<1>1. Pieces \in Nat
  <2>1. request.text \in Bodies
    BY DEF Init
  <2> QED
    BY <2>1, StreamRelayAssumption, LenProperties DEF text, Pieces
<1> QED
  BY <1>1, StreamRelayAssumption, NoChunkType DEF Init, TypeOK

LEMMA HeadInFrames ==
    ASSUME NEW q \in Seq(Frame), q # <<>>
    PROVE  Head(q) \in Frame /\ Tail(q) \in Seq(Frame) /\ Len(Tail(q)) = Len(q) - 1
BY HeadTailProperties

LEMMA TypeStep == TypeOK /\ [Next]_vars => TypeOK'
<1> SUFFICES ASSUME TypeOK, [Next]_vars PROVE TypeOK'
  OBVIOUS
<1> USE DEF TypeOK, body
<1>1. Pieces \in Nat /\ Capacity \in Nat \ {0} /\ Pieces' = Pieces /\ request' = request
  BY PiecesType, StreamRelayAssumption, RequestStays DEF Pieces, text
<1>2. CASE Handler
  BY <1>1, <1>2 DEF Handler, Refuse, Ask, HandOver, RequestPanics, Sending, Signals
<1>3. CASE Upstream
  BY <1>1, <1>3 DEF Upstream, UpstreamAnswers, UpstreamSends, UpstreamEnds
<1>4. CASE TakeChunk
  <2>1. PICK to \in read + 1 .. sent : hand' = Relayed(read + 1, to) /\ read' = to
    BY <1>4 DEF TakeChunk
  <2>2. hand' \in Chunk /\ read' \in 0..sent
    BY <1>1, <2>1, RelayedType
  <2> QED
    BY <1>1, <1>4, <2>2 DEF TakeChunk, Sending
<1>5. CASE TakeFailure \/ TakeEnd \/ SendRefused
  BY <1>1, <1>5 DEF TakeFailure, TakeEnd, SendRefused, AfterRefusal, AfterSend, Sending, Signals
<1>6. CASE SendFrame
  <2>1. /\ queue' \in Seq(Frame)
        /\ Len(queue') = Len(queue) + 1
    BY <1>6, AtHandType, AppendProperties DEF SendFrame
  <2> QED
    BY <1>1, <1>6, <2>1 DEF SendFrame, HasRoom, AfterSend, Sending, Signals
<1>7. CASE ReceiveChunk
  <2>1. queue' \in Seq(Frame) /\ Len(queue') <= Capacity /\ delivered' \in Seq(Frame)
    BY <1>1, <1>7, HeadInFrames, AppendProperties DEF ReceiveChunk
  <2> QED
    BY <1>1, <1>7, <2>1 DEF ReceiveChunk
<1>8. CASE ReceiveSignal \/ ReceiveEnd
  <2>1. queue' = <<>> /\ client' \in {"aborted", "complete"}
    BY <1>8 DEF ReceiveSignal, ReceiveEnd
  <2> QED
    BY <1>1, <1>8, <2>1 DEF ReceiveSignal, ReceiveEnd
<1>9. CASE HangUp
  BY <1>1, <1>9 DEF HangUp
<1>10. CASE UNCHANGED vars
  BY <1>1, <1>10 DEF vars
<1> QED
  BY <1>2, <1>3, <1>4, <1>5, <1>6, <1>7, <1>8, <1>9, <1>10 DEF Next, Task, Client

(* Every variable of a relayed request keeps its type; in particular the   *)
(* channel never holds more frames than its capacity.                      *)
THEOREM RelayTyped == Spec => []TypeOK
BY TypeInit, TypeStep, PTL DEF Spec
-----------------------------------------------------------------------------
(* The first n frames are runs of the pieces 1..top that join up to        *)
(* 1..reach.                                                               *)
Sound(frames, n, reach, top) ==
    /\ Joined(frames, n, reach)
    /\ \A i \in 1..n : /\ frames[i].chunk.from <= frames[i].chunk.to
                       /\ frames[i].chunk.to <= top

(* What may be behind those n chunks, by how far the task is.              *)
Behind(frames, n) ==
    \/ pc \in {"lookup", "request"} /\ Len(frames) = 0
    \/ pc \in {"read", "chunk"} /\ Len(frames) = n
    \/ pc = "failure" /\ Len(frames) = n + 1 /\ frames[n + 1].is = "failure"
    \/ /\ pc \in {"trailers", "ended"} /\ answer = "relayed"
       /\ upstream = "done" /\ read = sent
       /\ Len(frames) = n + 1 /\ frames[n + 1].is = "trailers"
    \/ /\ pc \in {"trailers", "ended"} /\ answer = "relayed"
       /\ upstream = "failed"
       /\ Len(frames) = n + 2
       /\ frames[n + 1].is = "failure" /\ frames[n + 2].is = "trailers"
    \/ /\ pc \in {"text", "ended"} /\ answer = "refusal"
       /\ n = 0 /\ Len(frames) = 1 /\ frames[1] = TextFrame

ControlInv ==
    /\ pc \in {"lookup", "request"} => answer = "none" /\ client = "open"
    /\ pc = "lookup" => upstream = "idle"
    /\ pc = "request" => upstream # "idle"
    /\ pc \in {"read", "chunk", "failure", "trailers"} => answer = "relayed"
    /\ pc = "failure" => upstream = "failed"
    /\ pc = "text" => answer = "refusal"
    /\ answer = "none" => delivered = <<>> /\ queue = <<>>
    /\ answer = "refusal" => upstream = "idle"
    /\ answer = "relayed" => upstream \in {"open", "done", "failed"}
    /\ upstream \in {"idle", "asked", "unreachable"} => sent = 0

OpenInv ==
    client = "open" => \E n \in 0..Len(Flow) : Sound(Flow, n, read, read) /\ Behind(Flow, n)

DeliveredInv ==
    IF answer = "refusal" THEN delivered \in {<<>>, <<TextFrame>>}
    ELSE \E reach \in 0..read : Sound(delivered, Len(delivered), reach, read)

(* The chunks of a response that ended normally. *)
CleanEnd ==
    client = "complete" =>
        IF answer = "refusal" THEN delivered = <<TextFrame>>
        ELSE upstream = "done" /\ Joined(delivered, Len(delivered), sent)

RelayInv == ControlInv /\ OpenInv /\ DeliveredInv /\ CleanEnd

LEMMA FlowType ==
    ASSUME TypeOK
    PROVE  /\ Flow \in Seq(Frame)
           /\ delivered \o queue \in Seq(Frame)
           /\ Len(Flow) = Len(delivered) + Len(queue) + Len(AtHand)
           /\ \A i \in 1..Len(delivered) : Flow[i] = delivered[i]
           /\ \A i \in 1..Len(queue) : Flow[Len(delivered) + i] = queue[i]
<1>1. delivered \in Seq(Frame) /\ queue \in Seq(Frame) /\ AtHand \in Seq(Frame)
  BY AtHandType DEF TypeOK
<1>2. /\ delivered \o queue \in Seq(Frame)
      /\ Len(delivered \o queue) = Len(delivered) + Len(queue)
      /\ \A i \in 1 .. Len(delivered) + Len(queue) :
            (delivered \o queue)[i] =
                IF i <= Len(delivered) THEN delivered[i] ELSE queue[i - Len(delivered)]
  BY <1>1, ConcatProperties
<1>3. /\ Flow \in Seq(Frame)
      /\ Len(Flow) = Len(delivered \o queue) + Len(AtHand)
      /\ \A i \in 1 .. Len(delivered \o queue) + Len(AtHand) :
            Flow[i] = IF i <= Len(delivered \o queue) THEN (delivered \o queue)[i]
                      ELSE AtHand[i - Len(delivered \o queue)]
  BY <1>1, <1>2, ConcatProperties DEF Flow
<1>4. Len(delivered) \in Nat /\ Len(queue) \in Nat /\ Len(AtHand) \in Nat
  BY <1>1, LenProperties
<1>5. \A i \in 1..Len(delivered) : Flow[i] = delivered[i]
  BY <1>2, <1>3, <1>4
<1>6. \A i \in 1..Len(queue) : Flow[Len(delivered) + i] = queue[i]
  <2> SUFFICES ASSUME NEW i \in 1..Len(queue) PROVE Flow[Len(delivered) + i] = queue[i]
    OBVIOUS
  <2>1. Len(delivered) + i \in 1 .. Len(delivered) + Len(queue)
    BY <1>4
  <2>2. Flow[Len(delivered) + i] = (delivered \o queue)[Len(delivered) + i]
    BY <1>2, <1>3, <1>4, <2>1
  <2> QED
    BY <1>2, <1>4, <2>1, <2>2
<1> QED
  BY <1>2, <1>3, <1>4, <1>5, <1>6

LEMMA FrameAdded ==
    ASSUME NEW F \in Seq(Frame), NEW x \in Frame
    PROVE  /\ F \o <<x>> \in Seq(Frame)
           /\ Len(F \o <<x>>) = Len(F) + 1
           /\ \A i \in 1..Len(F) : (F \o <<x>>)[i] = F[i]
           /\ (F \o <<x>>)[Len(F) + 1] = x
<1>1. F \o <<x>> = Append(F, x)
  BY AppendIsConcat
<1> QED
  BY <1>1, AppendProperties

(* A sent or received frame stays where it is in the flow.                 *)
LEMMA SendFlow ==
    ASSUME TypeOK, SendFrame
    PROVE  Flow' = Flow \o AtHand'
<1>1. delivered \in Seq(Frame) /\ queue \in Seq(Frame) /\ <<FrameAtHand>> \in Seq(Frame)
      /\ FrameAtHand \in Frame
  BY AtHandType DEF TypeOK, SendFrame
<1>2. queue' = queue \o <<FrameAtHand>> /\ delivered' = delivered /\ AtHand = <<FrameAtHand>>
  BY <1>1, AppendIsConcat DEF SendFrame, AtHand
<1>3. delivered \o (queue \o <<FrameAtHand>>) = (delivered \o queue) \o <<FrameAtHand>>
  BY <1>1, ConcatAssociative
<1> QED
  BY <1>2, <1>3 DEF Flow

LEMMA TakeFlow ==
    ASSUME TypeOK, pc \notin Sending, UNCHANGED <<delivered, queue>>
    PROVE  Flow' = Flow \o AtHand'
<1>1. Flow = delivered \o queue
  BY FlowType, ConcatEmptySeq DEF Flow, AtHand
<1> QED
  BY <1>1 DEF Flow

LEMMA ReceiveFlow ==
    ASSUME TypeOK, ReceiveChunk
    PROVE  Flow' = Flow
<1> DEFINE h == Head(queue)
           t == Tail(queue)
<1>1. delivered \in Seq(Frame) /\ queue \in Seq(Frame) /\ h \in Frame /\ t \in Seq(Frame)
      /\ <<h>> \in Seq(Frame)
  BY HeadInFrames DEF TypeOK, ReceiveChunk
<1>2. queue = <<h>> \o t
  BY <1>1 DEF ReceiveChunk
<1>3. (delivered \o <<h>>) \o t = delivered \o (<<h>> \o t)
  BY <1>1, ConcatAssociative
<1>4. delivered' = delivered \o <<h>> /\ queue' = t
  BY <1>1, AppendIsConcat DEF ReceiveChunk
<1>5. AtHand' = AtHand
  BY DEF ReceiveChunk, AtHand, FrameAtHand
<1> QED
  BY <1>2, <1>3, <1>4, <1>5 DEF Flow

LEMMA RelayInit == Init => RelayInv
<1> SUFFICES ASSUME Init PROVE RelayInv
  OBVIOUS
<1>1. ControlInv /\ CleanEnd
  BY DEF Init, ControlInv, CleanEnd
<1>2. Flow = <<>> /\ delivered = <<>> /\ read = 0
  BY DEF Init, Flow, AtHand, Sending, Signals
<1>3. Sound(<<>>, 0, 0, 0) /\ Len(<<>>) = 0
  BY DEF Sound, Joined
<1>4. Behind(Flow, 0)
  BY <1>2, <1>3 DEF Init, Behind
<1>5. OpenInv
  BY <1>2, <1>3, <1>4 DEF OpenInv
<1>6. DeliveredInv
  BY <1>2, <1>3 DEF Init, DeliveredInv
<1> QED
  BY <1>1, <1>5, <1>6 DEF RelayInv

LEMMA ControlStep == TypeOK /\ RelayInv /\ [Next]_vars => ControlInv'
<1> SUFFICES ASSUME TypeOK, ControlInv, [Next]_vars PROVE ControlInv'
  BY DEF RelayInv
<1> USE DEF ControlInv, body
<1>1. CASE Handler
  BY <1>1 DEF Handler, Refuse, Ask, HandOver, RequestPanics
<1>2. CASE Upstream
  BY <1>2 DEF Upstream, UpstreamAnswers, UpstreamSends, UpstreamEnds
<1>3. CASE TakeChunk \/ TakeFailure \/ TakeEnd
  BY <1>3 DEF TakeChunk, TakeFailure, TakeEnd
<1>4. CASE SendFrame \/ SendRefused
  BY <1>4 DEF SendFrame, SendRefused, HasRoom, AfterRefusal, AfterSend, Sending, Signals
<1>5. CASE ReceiveChunk
  BY <1>5 DEF ReceiveChunk
<1>6. CASE ReceiveSignal
  BY <1>6 DEF ReceiveSignal
<1>7. CASE ReceiveEnd
  BY <1>7 DEF ReceiveEnd
<1>8. CASE HangUp
  BY <1>8 DEF HangUp
<1>9. CASE UNCHANGED vars
  BY <1>9 DEF vars
<1> QED
  BY <1>1, <1>2, <1>3, <1>4, <1>5, <1>6, <1>7, <1>8, <1>9 DEF Next, Task, Client

(* The head of the queue is the frame of the flow behind those delivered.  *)
LEMMA HeadInFlow ==
    ASSUME TypeOK, queue # <<>>
    PROVE  /\ Len(delivered) \in Nat
           /\ Len(delivered) + 1 \in 1..Len(Flow)
           /\ Head(queue) = Flow[Len(delivered) + 1]
           /\ Head(queue) \in Frame
           /\ \A i \in 1..Len(delivered) : Flow[i] = delivered[i]
<1>1. queue \in Seq(Frame) /\ Len(queue) \in Nat \ {0} /\ Len(delivered) \in Nat
      /\ Len(AtHand) \in Nat
  BY EmptySeq, LenProperties, AtHandType DEF TypeOK
<1>2. Head(queue) = queue[1] /\ Head(queue) \in Frame
  BY <1>1, HeadInFrames
<1>3. Flow[Len(delivered) + 1] = queue[1]
  BY <1>1, FlowType
<1> QED
  BY <1>1, <1>2, <1>3, FlowType

(* What a client that receives a frame of data has then received.          *)
LEMMA ReceivesRun ==
    ASSUME TypeOK, RelayInv, ReceiveChunk, answer # "refusal"
    PROVE  \E reach \in 0..read : Sound(delivered', Len(delivered'), reach, read)
<1> DEFINE p == Len(delivered) + 1
           h == Head(queue)
<1>1. PICK n \in 0..Len(Flow) : Sound(Flow, n, read, read) /\ Behind(Flow, n)
  BY DEF RelayInv, OpenInv, ReceiveChunk
<1>2. /\ p \in 1..Len(Flow) /\ h = Flow[p] /\ h \in Frame /\ p \in Nat \ {0}
      /\ \A i \in 1..Len(delivered) : Flow[i] = delivered[i]
      /\ h.is \in {"chunk", "text"}
  BY HeadInFlow DEF ReceiveChunk
<1>3. /\ delivered' \in Seq(Frame) /\ Len(delivered') = p
      /\ \A i \in 1..Len(delivered) : delivered'[i] = delivered[i]
      /\ delivered'[p] = h
  BY <1>2, AppendProperties DEF TypeOK, ReceiveChunk
<1>4. p <= n
  <2>1. Len(Flow) \in Nat
    BY FlowType, LenProperties
  <2> QED
    BY <1>1, <1>2, <2>1 DEF Behind
<1>5. \A i \in 1..p : delivered'[i] = Flow[i] /\ i \in 1..n
  BY <1>1, <1>2, <1>3, <1>4
<1>6. h.chunk.to \in 0..read
  <2>1. h.chunk.to \in Nat /\ read \in Nat
    BY <1>2, PiecesType DEF Frame, Chunk, NoChunk, TypeOK
  <2> QED
    BY <1>1, <1>2, <1>5, <2>1 DEF Sound
<1>7. Joined(delivered', p, h.chunk.to)
  <2>1. ASSUME NEW i \in 1..p
        PROVE  /\ delivered'[i].is = "chunk"
               /\ delivered'[i].chunk.from =
                     IF i = 1 THEN 1 ELSE delivered'[i - 1].chunk.to + 1
    <3>1. i = 1 \/ i - 1 \in 1..p
      BY <1>2
    <3> QED
      BY <1>1, <1>5, <3>1 DEF Sound, Joined
  <2> QED
    BY <1>2, <1>3, <2>1 DEF Joined
<1>8. Sound(delivered', p, h.chunk.to, read)
  BY <1>1, <1>5, <1>7 DEF Sound
<1> QED
  BY <1>3, <1>6, <1>8

LEMMA ReceivesText ==
    ASSUME TypeOK, RelayInv, ReceiveChunk, answer = "refusal"
    PROVE  delivered' = <<TextFrame>>
<1>1. PICK n \in 0..Len(Flow) : Sound(Flow, n, read, read) /\ Behind(Flow, n)
  BY DEF RelayInv, OpenInv, ReceiveChunk
<1>2. Len(Flow) = 1 /\ Flow[1] = TextFrame
  BY <1>1 DEF Behind, RelayInv, ControlInv
<1>3. Len(delivered) = 0 /\ Head(queue) = TextFrame
  BY <1>2, HeadInFlow DEF ReceiveChunk
<1>4. delivered = <<>>
  BY <1>3, EmptySeq DEF TypeOK
<1> QED
  BY <1>3, <1>4 DEF ReceiveChunk

LEMMA DeliveredStep == TypeOK /\ TypeOK' /\ RelayInv /\ [Next]_vars => DeliveredInv'
<1> SUFFICES ASSUME TypeOK, TypeOK', RelayInv, [Next]_vars PROVE DeliveredInv'
  OBVIOUS
<1>1. CASE ReceiveChunk
  BY <1>1, ReceivesRun, ReceivesText DEF DeliveredInv, ReceiveChunk
<1>2. CASE Refuse
  BY <1>2 DEF Refuse, body, DeliveredInv, RelayInv, ControlInv
<1>3. CASE ~ReceiveChunk /\ ~Refuse
  <2>1. delivered' = delivered /\ (answer' = answer \/ (answer' = "relayed" /\ answer = "none"))
    BY <1>3 DEF Next, vars, body, Upstream, UpstreamAnswers, UpstreamSends, UpstreamEnds,
                Handler, Ask, HandOver, RequestPanics, Task, TakeChunk, TakeFailure, TakeEnd,
                SendFrame, SendRefused, Client, ReceiveSignal, ReceiveEnd, HangUp,
                RelayInv, ControlInv
  <2>2. read \in Nat /\ read' \in Nat /\ read <= read'
    BY <1>3, PiecesType DEF TypeOK, Next, vars, body, Upstream, UpstreamAnswers,
                UpstreamSends, UpstreamEnds,
                Handler, Ask, HandOver, RequestPanics, Task, TakeChunk, TakeFailure, TakeEnd,
                SendFrame, SendRefused, Client, ReceiveSignal, ReceiveEnd, HangUp
  <2>3. CASE answer = "refusal"
    BY <2>1, <2>3 DEF RelayInv, DeliveredInv
  <2>4. CASE answer # "refusal"
    <3>1. PICK reach \in 0..read : Sound(delivered, Len(delivered), reach, read)
      BY <2>4 DEF RelayInv, DeliveredInv
    <3>2. \A i \in 1..Len(delivered) : delivered[i].chunk.to \in Nat
      <4>1. \A x \in Frame : x.chunk.to \in Nat
        BY PiecesType DEF Frame, Chunk, NoChunk
      <4>2. \A i \in 1..Len(delivered) : delivered[i] \in Frame
        BY ElementOfSeq DEF TypeOK
      <4> QED
        BY <4>1, <4>2
    <3>3. Sound(delivered', Len(delivered'), reach, read') /\ reach \in 0..read'
      BY <2>1, <2>2, <3>1, <3>2 DEF Sound
    <3> QED
      BY <2>1, <2>4, <3>3 DEF DeliveredInv
  <2> QED
    BY <2>3, <2>4
<1> QED
  BY <1>1, <1>2, <1>3

LEMMA FrameNumbers ==
    ASSUME NEW F \in Seq(Frame), NEW i \in 1..Len(F)
    PROVE  F[i].chunk.from \in Nat /\ F[i].chunk.to \in Nat
<1>1. \A x \in Frame : x.chunk.from \in Nat /\ x.chunk.to \in Nat
  BY PiecesType DEF Frame, Chunk, NoChunk
<1> QED
  BY <1>1, ElementOfSeq

LEMMA SoundStays ==
    ASSUME NEW F, NEW G, NEW n \in Nat, NEW reach, NEW top,
           Sound(F, n, reach, top), \A i \in 1..n : G[i] = F[i]
    PROVE  Sound(G, n, reach, top)
<1>1. ASSUME NEW i \in 1..n
      PROVE  G[i].is = "chunk"
             /\ G[i].chunk.from = IF i = 1 THEN 1 ELSE G[i - 1].chunk.to + 1
  <2>1. i = 1 \/ i - 1 \in 1..n
    OBVIOUS
  <2> QED
    BY <2>1 DEF Sound, Joined
<1>2. n = 0 \/ n \in 1..n
  OBVIOUS
<1> QED
  BY <1>1, <1>2 DEF Sound, Joined

LEMMA SoundGrows ==
    ASSUME NEW F \in Seq(Frame), NEW x \in Frame, NEW reach \in Nat, NEW to \in Nat,
           Sound(F, Len(F), reach, reach), x.is = "chunk",
           x.chunk.from = reach + 1, x.chunk.to = to, reach + 1 <= to
    PROVE  Sound(F \o <<x>>, Len(F) + 1, to, to)
<1> DEFINE G == F \o <<x>>
           n == Len(F)
<1>1. n \in Nat /\ (\A i \in 1..n : G[i] = F[i]) /\ G[n + 1] = x
  BY FrameAdded, LenProperties
<1>2. Sound(G, n, reach, reach)
  BY <1>1, SoundStays
<1>3. \A i \in 1..n : G[i].chunk.to \in Nat /\ G[i].chunk.to <= to
                      /\ G[i].chunk.from <= G[i].chunk.to
  BY <1>1, <1>2, FrameNumbers DEF Sound
<1>4. \A i \in 1 .. n + 1 : i \in 1..n \/ i = n + 1
  BY <1>1
<1>5. x.chunk.from = IF n + 1 = 1 THEN 1 ELSE G[n].chunk.to + 1
  BY <1>1, <1>2 DEF Sound, Joined
<1>6. ASSUME NEW i \in 1 .. n + 1
      PROVE  /\ G[i].is = "chunk"
             /\ G[i].chunk.from = IF i = 1 THEN 1 ELSE G[i - 1].chunk.to + 1
             /\ G[i].chunk.from <= G[i].chunk.to /\ G[i].chunk.to <= to
  <2>1. CASE i \in 1..n
    BY <1>2, <1>3, <2>1 DEF Sound, Joined
  <2>2. CASE i = n + 1
    BY <1>1, <1>5, <2>2
  <2> QED
    BY <1>4, <2>1, <2>2
<1>7. to = G[n + 1].chunk.to /\ n + 1 # 0
  BY <1>1
<1> HIDE DEF G, n
<1>8. Sound(G, n + 1, to, to)
  BY <1>6, <1>7 DEF Sound, Joined
<1> QED
  BY <1>8 DEF G, n

(* The frame a step puts behind the flow. *)
LEMMA FlowGrows ==
    ASSUME TypeOK, TypeOK', Flow' = Flow \o AtHand', pc' \in Sending
    PROVE  /\ Flow \in Seq(Frame) /\ Len(Flow) \in Nat
           /\ FrameAtHand' \in Frame
           /\ Flow' = Flow \o <<FrameAtHand'>>
           /\ Len(Flow') = Len(Flow) + 1
           /\ \A i \in 1..Len(Flow) : Flow'[i] = Flow[i]
           /\ Flow'[Len(Flow) + 1] = FrameAtHand'
           /\ FrameAtHand'.is = pc'
<1>1. Flow \in Seq(Frame) /\ Len(Flow) \in Nat
  BY FlowType, LenProperties
<1>2. FrameAtHand' \in Frame
  <2>1. hand' \in Chunk /\ NoChunk \in Chunk
    BY NoChunkType DEF TypeOK
  <2> QED
    BY <2>1 DEF FrameAtHand, Frame
<1>3. AtHand' = <<FrameAtHand'>> /\ FrameAtHand'.is = pc'
  BY DEF AtHand, FrameAtHand
<1> QED
  BY <1>1, <1>2, <1>3, FrameAdded

LEMMA TakeChunkKeepsOpen ==
    ASSUME TypeOK, TypeOK', RelayInv, client = "open", TakeChunk
    PROVE  OpenInv'
<1>1. PICK n \in 0..Len(Flow) : Sound(Flow, n, read, read) /\ Behind(Flow, n)
  BY DEF RelayInv, OpenInv
<1>2. Len(Flow) = n
  BY <1>1 DEF TakeChunk, Behind
<1>3. PICK to \in read + 1 .. sent : hand' = Relayed(read + 1, to) /\ read' = to
  BY DEF TakeChunk
<1>4. pc' = "chunk" /\ Flow' = Flow \o AtHand'
  BY TakeFlow DEF TakeChunk, Sending, Signals
<1>5. /\ Flow \in Seq(Frame) /\ Len(Flow) \in Nat
      /\ FrameAtHand' \in Frame
      /\ Flow' = Flow \o <<FrameAtHand'>>
      /\ Len(Flow') = Len(Flow) + 1
      /\ FrameAtHand'.is = "chunk"
  BY <1>4, FlowGrows DEF Sending
<1>6. hand'.from = read + 1 /\ hand'.to = to /\ read \in Nat /\ to \in Nat
      /\ read + 1 <= to
  BY <1>3, RelayedType, PiecesType DEF TypeOK
<1>7. FrameAtHand'.chunk = hand'
  BY <1>4 DEF FrameAtHand
<1>8. Sound(Flow', n + 1, read', read')
  BY <1>1, <1>2, <1>3, <1>5, <1>6, <1>7, SoundGrows
<1>9. Behind(Flow, n + 1)' /\ n + 1 \in 0..Len(Flow')
  BY <1>2, <1>4, <1>5 DEF Behind
<1> QED
  BY <1>8, <1>9 DEF OpenInv

LEMMA TakeEndKeepsOpen ==
    ASSUME TypeOK, TypeOK', RelayInv, client = "open", TakeFailure \/ TakeEnd
    PROVE  OpenInv'
<1>1. PICK n \in 0..Len(Flow) : Sound(Flow, n, read, read) /\ Behind(Flow, n)
  BY DEF RelayInv, OpenInv
<1>2. Len(Flow) = n /\ answer' = "relayed" /\ read' = read /\ sent' = sent
      /\ upstream' = upstream
  BY <1>1 DEF TakeFailure, TakeEnd, Behind, RelayInv, ControlInv
<1>3. pc' \in Sending /\ Flow' = Flow \o AtHand'
  BY TakeFlow DEF TakeFailure, TakeEnd, Sending, Signals
<1>4. /\ Len(Flow') = n + 1 /\ n \in Nat
      /\ \A i \in 1..n : Flow'[i] = Flow[i]
      /\ Flow'[n + 1].is = pc'
  BY <1>2, <1>3, FlowGrows
<1>5. Sound(Flow', n, read', read')
  BY <1>1, <1>2, <1>4, SoundStays
<1>6. Behind(Flow, n)'
  BY <1>2, <1>4 DEF Behind, TakeFailure, TakeEnd
<1> QED
  BY <1>4, <1>5, <1>6 DEF OpenInv

LEMMA SendKeepsOpen ==
    ASSUME TypeOK, TypeOK', RelayInv, SendFrame
    PROVE  OpenInv'
<1>1. PICK n \in 0..Len(Flow) : Sound(Flow, n, read, read) /\ Behind(Flow, n)
  BY DEF RelayInv, OpenInv, SendFrame, HasRoom
<1>2. Flow' = Flow \o AtHand' /\ Flow \in Seq(Frame) /\ n \in Nat
  BY SendFlow, FlowType, LenProperties
<1>3. UNCHANGED <<read, sent, upstream, answer>> /\ pc' = AfterSend[pc]
  BY DEF SendFrame
<1>4. CASE pc = "failure"
  <2>1. pc' = "trailers" /\ answer = "relayed" /\ upstream = "failed"
    BY <1>3, <1>4 DEF AfterSend, RelayInv, ControlInv
  <2>2. Len(Flow) = n + 1 /\ Flow[n + 1].is = "failure"
    BY <1>1, <1>4 DEF Behind
  <2>3. /\ Len(Flow') = n + 2
        /\ \A i \in 1..n : Flow'[i] = Flow[i]
        /\ Flow'[n + 1] = Flow[n + 1]
        /\ Flow'[n + 2].is = "trailers"
    <3>1. /\ Len(Flow') = Len(Flow) + 1
          /\ \A i \in 1..Len(Flow) : Flow'[i] = Flow[i]
          /\ Flow'[Len(Flow) + 1].is = "trailers"
      BY <1>2, <2>1, FlowGrows DEF Sending, Signals
    <3>2. \A i \in 1..n : i \in 1..Len(Flow)
      BY <1>2, <2>2
    <3>3. n + 1 \in 1..Len(Flow) /\ Len(Flow) + 1 = n + 2
      BY <1>2, <2>2
    <3> QED
      BY <3>1, <3>2, <3>3
  <2>4. Sound(Flow', n, read', read')
    BY <1>1, <1>2, <1>3, <2>3, SoundStays
  <2>5. Behind(Flow, n)'
    BY <1>2, <1>3, <2>1, <2>2, <2>3 DEF Behind
  <2> QED
    BY <1>2, <2>3, <2>4, <2>5 DEF OpenInv
<1>5. CASE pc # "failure"
  <2>1. \/ pc = "chunk" /\ pc' = "read"
        \/ pc \in {"trailers", "text"} /\ pc' = "ended"
    BY <1>3, <1>5 DEF SendFrame, AfterSend, Sending, Signals
  <2>2. Flow' = Flow
    BY <1>2, <2>1, ConcatEmptySeq DEF AtHand, Sending, Signals
  <2>3. Behind(Flow, n)'
    BY <1>1, <1>3, <2>1, <2>2 DEF Behind
  <2> QED
    BY <1>1, <1>3, <2>2, <2>3 DEF OpenInv
<1> QED
  BY <1>4, <1>5

LEMMA HandlerKeepsOpen ==
    ASSUME TypeOK, TypeOK', RelayInv, Handler
    PROVE  OpenInv'
<1>1. PICK n \in 0..Len(Flow) : Sound(Flow, n, read, read) /\ Behind(Flow, n)
  BY DEF RelayInv, OpenInv, ControlInv, Handler, Refuse, Ask, HandOver, RequestPanics
<1>2. UNCHANGED <<read, sent, hand, queue, delivered>> /\ pc \in {"lookup", "request"}
  BY DEF Handler, Refuse, Ask, HandOver, RequestPanics, body
<1>3. n = 0 /\ Len(Flow) = 0 /\ Flow' = Flow \o AtHand' /\ Flow \in Seq(Frame)
  BY <1>1, <1>2, TakeFlow, FlowType DEF Behind, Sending, Signals
<1>4. CASE Refuse
  <2>1. pc' = "text" /\ answer' = "refusal" /\ FrameAtHand' = TextFrame
    BY <1>4 DEF Refuse, FrameAtHand, TextFrame
  <2>2. Len(Flow') = 1 /\ Flow'[1] = TextFrame
    BY <1>3, <2>1, FlowGrows DEF Sending, Signals
  <2>3. Sound(Flow', 0, read', read')
    BY <1>1, <1>2, <1>3 DEF Sound, Joined
  <2>4. Behind(Flow, 0)'
    BY <2>1, <2>2 DEF Behind
  <2> QED
    BY <2>2, <2>3, <2>4 DEF OpenInv
<1>5. CASE Ask \/ HandOver
  <2>1. pc' \in {"request", "read"}
    BY <1>5 DEF Ask, HandOver
  <2>2. Flow' = Flow
    BY <1>3, <2>1, ConcatEmptySeq DEF AtHand, Sending, Signals
  <2>3. Behind(Flow, 0)'
    BY <1>3, <2>1, <2>2 DEF Behind
  <2> QED
    BY <1>1, <1>2, <1>3, <2>2, <2>3 DEF OpenInv
<1>6. CASE RequestPanics
  BY <1>6 DEF RequestPanics, OpenInv
<1> QED
  BY <1>4, <1>5, <1>6 DEF Handler

LEMMA OpenStep == TypeOK /\ TypeOK' /\ RelayInv /\ [Next]_vars => OpenInv'
<1> SUFFICES ASSUME TypeOK, TypeOK', RelayInv, [Next]_vars, client' = "open" PROVE OpenInv'
  BY DEF OpenInv
<1>1. client = "open"
  BY DEF Next, vars, body, Upstream, UpstreamAnswers, UpstreamSends, UpstreamEnds,
         Handler, Refuse, Ask, HandOver, RequestPanics, Task, TakeChunk, TakeFailure, TakeEnd,
         SendFrame, SendRefused, Client, ReceiveChunk, ReceiveSignal, ReceiveEnd, HangUp
<1>2. PICK n \in 0..Len(Flow) : Sound(Flow, n, read, read) /\ Behind(Flow, n)
  BY <1>1 DEF RelayInv, OpenInv
<1>3. CASE Handler
  BY <1>3, HandlerKeepsOpen
<1>4. CASE Task
  BY <1>1, <1>4, TakeChunkKeepsOpen, TakeEndKeepsOpen, SendKeepsOpen DEF Task, SendRefused
<1>5. CASE Upstream
  <2>1. Flow' = Flow /\ UNCHANGED <<read, pc, answer>> /\ upstream \notin {"done", "failed"}
    BY <1>5 DEF Upstream, UpstreamAnswers, UpstreamSends, UpstreamEnds, body,
                Flow, AtHand, FrameAtHand
  <2>2. Behind(Flow, n)'
    BY <1>2, <2>1 DEF Behind
  <2> QED
    BY <1>2, <2>1, <2>2 DEF OpenInv
<1>6. CASE ReceiveChunk
  <2>1. Flow' = Flow /\ UNCHANGED <<read, sent, pc, answer, upstream>>
    BY <1>6, ReceiveFlow DEF ReceiveChunk
  <2>2. Behind(Flow, n)'
    BY <1>2, <2>1 DEF Behind
  <2> QED
    BY <1>2, <2>1, <2>2 DEF OpenInv
<1>7. CASE ReceiveSignal \/ ReceiveEnd \/ HangUp
  BY <1>7 DEF ReceiveSignal, ReceiveEnd, HangUp
<1>8. CASE UNCHANGED vars
  <2>1. Flow' = Flow /\ UNCHANGED <<read, sent, pc, answer, upstream>>
    BY <1>8 DEF vars, Flow, AtHand, FrameAtHand
  <2>2. Behind(Flow, n)'
    BY <1>2, <2>1 DEF Behind
  <2> QED
    BY <1>2, <2>1, <2>2 DEF OpenInv
<1> QED
  BY <1>3, <1>4, <1>5, <1>6, <1>7, <1>8 DEF Next, Client

(* A relayed response has delivered chunks only. *)
LEMMA DeliveredChunks ==
    ASSUME TypeOK, RelayInv, answer # "refusal"
    PROVE  \A i \in 1..Len(delivered) : delivered[i].is = "chunk"
BY DEF RelayInv, DeliveredInv, Sound, Joined

(* Trailers that reach the client mark the end of everything.              *)
LEMMA TrailersAreLast ==
    ASSUME TypeOK, RelayInv, client = "open", queue # <<>>, Head(queue).is = "trailers"
    PROVE  /\ answer = "relayed" /\ upstream = "done" /\ read = sent
           /\ Joined(delivered, Len(delivered), sent)
<1> DEFINE p == Len(delivered) + 1
<1>1. PICK n \in 0..Len(Flow) : Sound(Flow, n, read, read) /\ Behind(Flow, n)
  BY DEF RelayInv, OpenInv
<1>2. /\ Len(delivered) \in Nat /\ p \in 1..Len(Flow) /\ Flow[p].is = "trailers"
      /\ \A i \in 1..Len(delivered) : Flow[i] = delivered[i]
      /\ Len(Flow) \in Nat /\ n \in Nat
  BY HeadInFlow, FlowType, LenProperties
<1>3. ~(p <= n)
  BY <1>1, <1>2 DEF Sound, Joined
<1>4. answer # "refusal"
  <2> SUFFICES ASSUME answer = "refusal" PROVE FALSE
    OBVIOUS
  <2>1. Len(Flow) = 1 /\ Flow[1] = TextFrame
    BY <1>1, <1>2 DEF Behind, RelayInv, ControlInv
  <2>2. p = 1
    BY <1>2, <2>1
  <2> QED
    BY <1>2, <2>1, <2>2 DEF TextFrame
<1>5. ~(n + 1 < p /\ Flow[n + 1].is = "failure")
  BY <1>2, <1>4, DeliveredChunks
<1>6. /\ answer = "relayed" /\ upstream = "done" /\ read = sent
      /\ p = n + 1
  BY <1>1, <1>2, <1>3, <1>4, <1>5 DEF Behind
<1>7. Sound(delivered, Len(delivered), read, read)
  <2>1. n = Len(delivered) /\ Sound(Flow, Len(delivered), read, read)
    BY <1>1, <1>2, <1>6
  <2> QED
    BY <1>2, <2>1, SoundStays
<1> QED
  BY <1>6, <1>7 DEF Sound

LEMMA FailureIsTrue ==
    ASSUME TypeOK, RelayInv, client = "open", queue # <<>>, Head(queue).is = "failure"
    PROVE  answer = "relayed" /\ upstream = "failed"
<1> DEFINE p == Len(delivered) + 1
<1>1. PICK n \in 0..Len(Flow) : Sound(Flow, n, read, read) /\ Behind(Flow, n)
  BY DEF RelayInv, OpenInv
<1>2. p \in 1..Len(Flow) /\ Flow[p].is = "failure" /\ p \in Nat /\ n \in Nat
  BY HeadInFlow, FlowType, LenProperties
<1>3. ~(p <= n)
  BY <1>1, <1>2 DEF Sound, Joined
<1> QED
  BY <1>1, <1>2, <1>3 DEF Behind, RelayInv, ControlInv, TextFrame

(* A drained channel whose sender is gone held the text of a refusal.      *)
LEMMA DrainedIsRefused ==
    ASSUME TypeOK, RelayInv, ReceiveEnd
    PROVE  answer = "refusal" /\ delivered = <<TextFrame>>
<1>1. PICK n \in 0..Len(Flow) : Sound(Flow, n, read, read) /\ Behind(Flow, n)
  BY DEF RelayInv, OpenInv, ReceiveEnd
<1>2. Len(Flow) = Len(delivered) /\ Len(delivered) \in Nat /\ n \in Nat
      /\ \A i \in 1..Len(delivered) : Flow[i] = delivered[i]
  BY FlowType, LenProperties, EmptySeq DEF ReceiveEnd, AtHand, Sending, Signals, TypeOK
<1>3. answer = "refusal"
  <2> SUFFICES ASSUME answer # "refusal" PROVE FALSE
    OBVIOUS
  <2>1. \A i \in 1..Len(Flow) : Flow[i].is = "chunk"
    BY <1>2, DeliveredChunks
  <2>2. n + 1 \in 1..Len(Flow) /\ Flow[n + 1].is \in {"failure", "trailers"}
    BY <1>1, <1>2 DEF Behind, ReceiveEnd
  <2> QED
    BY <2>1, <2>2
<1>4. delivered # <<>>
  BY <1>1, <1>2, <1>3, EmptySeq DEF Behind, ReceiveEnd
<1> QED
  BY <1>3, <1>4 DEF RelayInv, DeliveredInv

LEMMA CleanStep == TypeOK /\ RelayInv /\ [Next]_vars => CleanEnd'
<1> SUFFICES ASSUME TypeOK, RelayInv, [Next]_vars PROVE CleanEnd'
  OBVIOUS
<1>1. CASE ReceiveSignal
  <2>1. client = "open" /\ queue # <<>> /\ UNCHANGED <<answer, upstream, sent, delivered>>
        /\ (client' = "complete" => Head(queue).is = "trailers")
    BY <1>1 DEF ReceiveSignal
  <2> QED
    BY <2>1, TrailersAreLast DEF CleanEnd
<1>2. CASE ReceiveEnd
  BY <1>2, DrainedIsRefused DEF ReceiveEnd, CleanEnd
<1>3. CASE ~ReceiveSignal /\ ~ReceiveEnd
  <2>1. client' = "complete" => client = "complete" /\ UNCHANGED <<answer, delivered>>
    BY <1>3 DEF Next, vars, body, Upstream, UpstreamAnswers, UpstreamSends, UpstreamEnds,
           Handler, Refuse, Ask, HandOver, RequestPanics, Task, TakeChunk, TakeFailure, TakeEnd,
           SendFrame, SendRefused, Client, ReceiveChunk, HangUp, RelayInv, ControlInv
  <2>2. upstream = "done" => UNCHANGED <<upstream, sent>>
    BY <1>3 DEF Next, vars, body, Upstream, UpstreamAnswers, UpstreamSends, UpstreamEnds,
           Handler, Refuse, Ask, HandOver, RequestPanics, Task, TakeChunk, TakeFailure, TakeEnd,
           SendFrame, SendRefused, Client, ReceiveChunk, HangUp, RelayInv, ControlInv
  <2> QED
    BY <2>1, <2>2 DEF RelayInv, CleanEnd
<1> QED
  BY <1>1, <1>2, <1>3

THEOREM RelayInvariant == Spec => [](TypeOK /\ RelayInv)
<1>1. TypeOK /\ RelayInv /\ [Next]_vars => (TypeOK /\ RelayInv)'
  BY TypeStep, ControlStep, OpenStep, DeliveredStep, CleanStep DEF RelayInv
<1> QED
  BY <1>1, TypeInit, RelayInit, PTL DEF Spec

(* No chunk is lost, repeated or reordered between the upstream and the    *)
(* client, wherever the network cuts the stream, however small the channel *)
(* is, and whoever leaves first.                                           *)
THEOREM RelayKeepsOrder == Spec => []RelayIsFifo
<1>1. ASSUME TypeOK, RelayInv PROVE RelayIsFifo
  <2>1. CASE client = "open"
    <3>1. PICK n \in 0..Len(Flow) : Sound(Flow, n, read, read) /\ Behind(Flow, n)
      BY <1>1, <2>1 DEF RelayInv, OpenInv
    <3>2. Pipeline = Flow /\ Len(Flow) \in Nat /\ n \in Nat /\ read \in 0..read
      BY <1>1, <2>1, FlowType, LenProperties, PiecesType DEF Pipeline, Flow, TypeOK
    <3>3. \A i \in n + 1 .. Len(Flow) : Flow[i].is # "chunk"
      <4> SUFFICES ASSUME NEW i \in n + 1 .. Len(Flow) PROVE Flow[i].is # "chunk"
        OBVIOUS
      <4>1. i = n + 1 \/ i = n + 2
        BY <3>1, <3>2 DEF Behind
      <4> QED
        BY <3>1, <3>2, <4>1 DEF Behind, TextFrame
    <3> QED
      BY <2>1, <3>1, <3>2, <3>3 DEF RelayIsFifo, Sound
  <2>2. CASE client # "open" /\ answer # "refusal"
    <3>1. PICK reach \in 0..read : Sound(delivered, Len(delivered), reach, read)
      BY <1>1, <2>2 DEF RelayInv, DeliveredInv
    <3>2. Pipeline = delivered /\ Len(delivered) \in Nat
      BY <1>1, <2>2, LenProperties DEF Pipeline, TypeOK
    <3> QED
      BY <2>2, <3>1, <3>2 DEF RelayIsFifo, Sound
  <2>3. CASE client # "open" /\ answer = "refusal"
    <3>1. Pipeline = delivered /\ delivered \in {<<>>, <<TextFrame>>}
      BY <1>1, <2>3 DEF Pipeline, RelayInv, DeliveredInv
    <3>2. \A i \in 0 + 1 .. Len(Pipeline) : Pipeline[i].is # "chunk"
      BY <3>1 DEF TextFrame
    <3>3. Joined(Pipeline, 0, 0) /\ 0 \in 0..Len(Pipeline) /\ 0 \in 0..read
      BY <1>1, <3>1, PiecesType DEF Joined, TypeOK
    <3> QED
      BY <2>3, <3>2, <3>3 DEF RelayIsFifo
  <2> QED
    BY <2>1, <2>2, <2>3
<1> QED
  BY <1>1, RelayInvariant, PTL
-----------------------------------------------------------------------------
(* What is changed on the way.  Every chunk was made by the rewriting of   *)
(* the very pieces it stands for, and those behind the first one delivered *)
(* begin behind its end.                                                   *)
Made(x) ==
    x.is = "chunk" => x.chunk = Relayed(x.chunk.from, x.chunk.to)

MadeInv ==
    /\ \A i \in 1..Len(delivered) : Made(delivered[i])
    /\ \A i \in 1..Len(queue) : Made(queue[i])
    /\ pc = "chunk" => hand = Relayed(hand.from, hand.to)

LaterInv ==
    answer # "refusal" =>
        \A i \in 2..Len(delivered) : delivered[1].chunk.to < delivered[i].chunk.from

LEMMA MadeStep == TypeOK /\ MadeInv /\ [Next]_vars => MadeInv'
<1> SUFFICES ASSUME TypeOK, MadeInv, [Next]_vars PROVE MadeInv'
  OBVIOUS
<1>1. request' = request /\ text' = text
  BY RequestStays DEF text
<1>2. \A from, to : Relayed(from, to)' = Relayed(from, to)
  BY <1>1 DEF Relayed, parse_message, DataLines, IsAddress
<1>3. \A x : Made(x)' = Made(x)
  BY <1>2 DEF Made
<1>4. CASE TakeChunk
  <2>1. PICK to \in read + 1 .. sent : hand' = Relayed(read + 1, to)
    BY <1>4 DEF TakeChunk
  <2>2. hand'.from = read + 1 /\ hand'.to = to
    BY <2>1 DEF Relayed
  <2> QED
    BY <1>2, <1>3, <1>4, <2>1, <2>2 DEF TakeChunk, MadeInv
<1>5. CASE SendFrame
  <2>1. /\ queue \in Seq(Frame) /\ FrameAtHand \in Frame /\ Len(queue) \in Nat
        /\ Len(queue') = Len(queue) + 1
        /\ \A i \in 1..Len(queue) : queue'[i] = queue[i]
        /\ queue'[Len(queue) + 1] = FrameAtHand
    BY <1>5, AtHandType, AppendProperties, LenProperties DEF SendFrame, TypeOK
  <2>2. Made(FrameAtHand)
    BY <1>5 DEF MadeInv, Made, FrameAtHand
  <2>3. ASSUME NEW i \in 1..Len(queue') PROVE Made(queue'[i])
    <3>1. i \in 1..Len(queue) \/ i = Len(queue) + 1
      BY <2>1
    <3> QED
      BY <2>1, <2>2, <3>1 DEF MadeInv
  <2>4. delivered' = delivered /\ pc' # "chunk"
    BY <1>5 DEF SendFrame, AfterSend, Sending, Signals
  <2> QED
    BY <1>3, <2>3, <2>4 DEF MadeInv
<1>6. CASE ReceiveChunk
  <2>1. /\ queue \in Seq(Frame) /\ delivered \in Seq(Frame)
        /\ Head(queue) \in Frame /\ Head(queue) = queue[1] /\ 1 \in 1..Len(queue)
        /\ Len(delivered) \in Nat /\ Len(Tail(queue)) = Len(queue) - 1
        /\ \A i \in 1..Len(Tail(queue)) : Tail(queue)[i] = queue[i + 1]
    BY <1>6, HeadTailProperties, EmptySeq, LenProperties DEF ReceiveChunk, TypeOK
  <2>2. /\ Len(delivered') = Len(delivered) + 1
        /\ \A i \in 1..Len(delivered) : delivered'[i] = delivered[i]
        /\ delivered'[Len(delivered) + 1] = Head(queue)
    BY <1>6, <2>1, AppendProperties DEF ReceiveChunk
  <2>3. ASSUME NEW i \in 1..Len(delivered') PROVE Made(delivered'[i])
    <3>1. i \in 1..Len(delivered) \/ i = Len(delivered) + 1
      BY <2>1, <2>2
    <3> QED
      BY <2>1, <2>2, <3>1 DEF MadeInv
  <2>4. ASSUME NEW i \in 1..Len(queue') PROVE Made(queue'[i])
    <3>1. queue' = Tail(queue) /\ i + 1 \in 1..Len(queue)
      BY <1>6, <2>1, LenProperties DEF ReceiveChunk
    <3> QED
      BY <2>1, <3>1 DEF MadeInv
  <2>5. pc' = pc /\ hand' = hand
    BY <1>6 DEF ReceiveChunk
  <2> QED
    BY <1>2, <1>3, <2>3, <2>4, <2>5 DEF MadeInv
<1>7. CASE ReceiveSignal \/ ReceiveEnd \/ HangUp
  <2>1. queue' = <<>> /\ delivered' = delivered /\ hand' = hand
        /\ (pc' = "chunk" => pc = "chunk")
    BY <1>7 DEF ReceiveSignal, ReceiveEnd, HangUp
  <2>2. Len(queue') = 0
    BY <2>1
  <2> QED
    BY <1>2, <1>3, <2>1, <2>2 DEF MadeInv
<1>8. CASE \/ Handler \/ Upstream \/ TakeFailure \/ TakeEnd \/ SendRefused
           \/ UNCHANGED vars
  <2>1. UNCHANGED <<delivered, queue, hand>> /\ (pc' = "chunk" => pc = "chunk")
    BY <1>8 DEF vars, body, Upstream, UpstreamAnswers, UpstreamSends, UpstreamEnds,
         Handler, Refuse, Ask, HandOver, RequestPanics, TakeFailure, TakeEnd,
         SendRefused, AfterRefusal, AfterSend, Sending, Signals
  <2> QED
    BY <1>2, <1>3, <2>1 DEF MadeInv
<1> QED
  BY <1>4, <1>5, <1>6, <1>7, <1>8 DEF Next, Task, Client

LEMMA LaterStep ==
    TypeOK /\ RelayInv /\ TypeOK' /\ RelayInv' /\ LaterInv /\ [Next]_vars => LaterInv'
<1> SUFFICES ASSUME TypeOK, RelayInv, TypeOK', RelayInv', LaterInv, [Next]_vars,
                    answer' # "refusal", NEW i \in 2..Len(delivered')
             PROVE  delivered'[1].chunk.to < delivered'[i].chunk.from
  BY DEF LaterInv
<1>1. CASE ReceiveChunk
  <2>1. /\ delivered \in Seq(Frame) /\ Len(delivered) \in Nat
        /\ Len(delivered') = Len(delivered) + 1
        /\ \A j \in 1..Len(delivered) : delivered'[j] = delivered[j]
    BY <1>1, HeadInFrames, AppendProperties, LenProperties DEF ReceiveChunk, TypeOK
  <2>2. answer # "refusal"
    BY <1>1 DEF ReceiveChunk
  <2>3. CASE i \in 2..Len(delivered)
    BY <2>1, <2>2, <2>3 DEF LaterInv
  <2>4. CASE i = Len(delivered) + 1
    <3>1. \A j \in 1..Len(delivered') : /\ delivered'[j].chunk.from \in Nat
                                        /\ delivered'[j].chunk.to \in Nat
      BY FrameNumbers DEF TypeOK
    <3>2. PICK reach \in 0..read' : Sound(delivered', Len(delivered'), reach, read')
      BY DEF RelayInv, DeliveredInv
    <3>3. i - 1 \in 1..Len(delivered) /\ i - 1 \in 1..Len(delivered') /\ 1 \in 1..Len(delivered)
          /\ i \in 1..Len(delivered')
      BY <2>1, <2>4
    <3>4. /\ delivered'[i].chunk.from = delivered'[i - 1].chunk.to + 1
          /\ delivered'[i - 1].chunk.from <= delivered'[i - 1].chunk.to
      <4>1. i # 1
        BY <2>1, <2>4, <3>3
      <4>2. delivered'[i].chunk.from =
                IF i = 1 THEN 1 ELSE delivered'[i - 1].chunk.to + 1
        BY <3>2, <3>3 DEF Sound, Joined
      <4>3. delivered'[i - 1].chunk.from <= delivered'[i - 1].chunk.to
        BY <3>2, <3>3 DEF Sound
      <4> QED
        BY <4>1, <4>2, <4>3
    <3>5. i - 1 = 1 \/ delivered'[1].chunk.to < delivered'[i - 1].chunk.from
      <4>1. i - 1 = 1 \/ i - 1 \in 2..Len(delivered)
        BY <3>3
      <4> QED
        BY <2>1, <2>2, <3>3, <4>1 DEF LaterInv
    <3>6. 1 \in 1..Len(delivered') /\ i - 1 \in 1..Len(delivered') /\ i \in 1..Len(delivered')
      BY <3>3
    <3>7. /\ delivered'[1].chunk.to \in Nat /\ delivered'[i - 1].chunk.to \in Nat
          /\ delivered'[i - 1].chunk.from \in Nat
      BY <3>1, <3>6
    <3>8. i - 1 = 1 => delivered'[1].chunk.to < delivered'[i].chunk.from
      BY <3>4, <3>7
    <3>9. i - 1 # 1 => delivered'[1].chunk.to < delivered'[i].chunk.from
      BY <3>4, <3>5, <3>7
    <3> QED
      BY <3>8, <3>9
  <2> QED
    BY <2>1, <2>3, <2>4
<1>2. CASE ~ReceiveChunk
  <2>1. delivered' = delivered
    BY <1>2 DEF Next, vars, body, Upstream, UpstreamAnswers, UpstreamSends, UpstreamEnds,
         Handler, Refuse, Ask, HandOver, RequestPanics, Task, TakeChunk, TakeFailure, TakeEnd,
         SendFrame, SendRefused, Client, ReceiveSignal, ReceiveEnd, HangUp
  <2>2. answer = "refusal" => answer' = "refusal"
    BY <1>2 DEF Next, vars, body, Upstream, UpstreamAnswers, UpstreamSends, UpstreamEnds,
         Handler, Refuse, Ask, HandOver, RequestPanics, Task, TakeChunk, TakeFailure, TakeEnd,
         SendFrame, SendRefused, Client, ReceiveSignal, ReceiveEnd, HangUp,
         RelayInv, ControlInv
  <2> QED
    BY <2>1, <2>2 DEF LaterInv
<1> QED
  BY <1>1, <1>2

THEOREM RelayContents == Spec => [](TypeOK /\ RelayInv /\ MadeInv /\ LaterInv)
<1>1. Init => MadeInv /\ LaterInv
  BY DEF Init, MadeInv, LaterInv
<1> QED
  BY <1>1, RelayInvariant, MadeStep, LaterStep, PTL DEF Spec

(* The delivered chunks of a relayed response, as the task made them.      *)
LEMMA ChunksMade ==
    ASSUME TypeOK, RelayInv, MadeInv, answer # "refusal", NEW i \in 1..Len(delivered)
    PROVE  \E from, to \in 1..Pieces :
              delivered[i].chunk = Relayed(from, to) /\ delivered[i].chunk.from = from
              /\ delivered[i].chunk.to = to
<1>1. PICK reach \in 0..read : Sound(delivered, Len(delivered), reach, read)
  BY DEF RelayInv, DeliveredInv
<1>2. delivered[i].chunk = Relayed(delivered[i].chunk.from, delivered[i].chunk.to)
  BY <1>1 DEF Sound, Joined, MadeInv, Made
<1>3. /\ delivered[i].chunk.from \in Nat /\ delivered[i].chunk.to \in Nat
      /\ delivered[i].chunk.from <= delivered[i].chunk.to /\ delivered[i].chunk.to <= Pieces
  BY <1>1, FrameNumbers, PiecesType DEF Sound, TypeOK
<1>4. delivered[i].chunk.from # 0
  <2>1. i = 1 \/ i - 1 \in 1..Len(delivered)
    BY LenProperties DEF TypeOK
  <2>2. \A j \in 1..Len(delivered) : delivered[j].chunk.to \in Nat
    BY FrameNumbers DEF TypeOK
  <2> QED
    BY <1>1, <2>1, <2>2 DEF Sound, Joined
<1> QED
  BY <1>2, <1>3, <1>4, PiecesType

(* Where no session is named, nothing is replaced. *)
LEMMA WithoutSession ==
    ASSUME NEW from \in Nat, NEW to \in Nat, to <= Pieces, Pieces \in Nat,
           \/ request.kind = "message"
           \/ \A i \in from .. Pieces - 2 : ~NamesSession(i)
    PROVE  Relayed(from, to).names = {}
<1>1. ASSUME NEW r \in parse_message(from, to)
      PROVE  \E i \in from .. Pieces - 2 : NamesSession(i)
  <2>1. r[1] \in from .. to /\ r[2] \in from .. to /\ IsAddress(r[1], r[2])
    BY DEF parse_message
  <2>2. PICK q \in r[1] + 1 .. r[2] - 2 :
            /\ text[q] = "?" /\ text[q + 1] = "sessionId="
            /\ \A i \in q + 2 .. r[2] : text[i] = "hex"
    BY <2>1 DEF IsAddress
  <2>3. q \in from .. Pieces - 2 /\ q + 2 \in q + 2 .. r[2]
    BY <2>1
  <2> QED
    BY <2>2, <2>3 DEF NamesSession
<1> QED
  BY <1>1 DEF Relayed

(* A chunk from the start of the body that holds the endpoint event up to  *)
(* its last digit yields its address and nothing else.                     *)
LEMMA EndpointEventParses ==
    ASSUME TypeOK, NEW d \in 1..Pieces, NEW z \in 1..Pieces, NEW to \in z..Pieces,
           EndpointEvent(d, z)
    PROVE  parse_message(1, to) = {<<d + 2, z>>}
<1>1. PICK q \in d + 3 .. z - 2 :
          /\ \A i \in d + 2 .. q - 1 : text[i] = "text"
          /\ text[q] = "?" /\ text[q + 1] = "sessionId="
          /\ \A i \in q + 2 .. z : text[i] = "hex"
  BY DEF EndpointEvent
<1>2. Pieces \in Nat /\ q \in Nat
  BY PiecesType
<1>3. d \in DataLines(1, to) /\ \A i \in DataLines(1, to) : d <= i
  <2>1. d \in 1 .. to - 1
    BY <1>2
  <2>2. d \in DataLines(1, to)
    BY <2>1 DEF DataLines, EndpointEvent
  <2>3. ASSUME NEW i \in DataLines(1, to) PROVE d <= i
    <3>1. i \in 1 .. to - 1 /\ text[i] = "da"
      BY DEF DataLines
    <3>2. i \notin 1 .. d - 1
      BY <3>1 DEF EndpointEvent
    <3> QED
      BY <1>2, <3>1, <3>2
  <2> QED
    BY <2>2, <2>3
<1>4. FirstOf(DataLines(1, to)) = {d}
  <2>1. d \in FirstOf(DataLines(1, to))
    BY <1>3 DEF FirstOf
  <2>2. ASSUME NEW i \in FirstOf(DataLines(1, to)) PROVE i = d
    <3>1. i \in DataLines(1, to) /\ i <= d
      BY <1>3 DEF FirstOf
    <3>2. d <= i /\ i \in Int
      BY <1>3, <3>1 DEF DataLines
    <3> QED
      BY <3>1, <3>2
  <2> QED
    BY <2>1, <2>2
<1>5. \A i \in d + 2 .. z : /\ i < q => text[i] = "text"
                            /\ i > q + 1 => text[i] = "hex"
                            /\ text[i] # "newline"
  <2> SUFFICES ASSUME NEW i \in d + 2 .. z
               PROVE  /\ i < q => text[i] = "text"
                      /\ i > q + 1 => text[i] = "hex"
                      /\ text[i] # "newline"
    OBVIOUS
  <2>1. i \in d + 2 .. q - 1 \/ i = q \/ i = q + 1 \/ i \in q + 2 .. z
    BY <1>2
  <2> QED
    BY <1>1, <1>2, <2>1
<1>6. <<d + 2, z>> \in parse_message(1, to)
  <2>1. d + 2 \in 1 .. to /\ z \in 1 .. to
    BY <1>2
  <2>2. IsAddress(d + 2, z)
    <3>1. q \in (d + 2) + 1 .. z - 2 /\ d + 2 \in d + 2 .. q - 1
      BY <1>2
    <3>2. \A i \in d + 2 .. q - 1 : text[i] # "?" /\ text[i] # "newline"
      BY <1>1
    <3> QED
      BY <1>1, <3>1, <3>2 DEF IsAddress
  <2>3. z = to \/ text[z + 1] # "hex"
    BY <1>2 DEF EndpointEvent
  <2>4. (d + 2) - 2 \in FirstOf(DataLines(1, to)) /\ DataLines(1, to) # {}
    BY <1>3, <1>4
  <2> QED
    BY <1>5, <2>1, <2>2, <2>3, <2>4 DEF parse_message
<1>7. ASSUME NEW r \in parse_message(1, to) PROVE r = <<d + 2, z>>
  <2>1. /\ r \in (1 .. to) \X (1 .. to)
        /\ r[1] - 2 \in FirstOf(DataLines(1, to))
        /\ IsAddress(r[1], r[2])
        /\ r[2] = to \/ text[r[2] + 1] # "hex"
    BY <1>3 DEF parse_message
  <2>2. r[1] = d + 2 /\ r[2] \in 1 .. to /\ r = <<r[1], r[2]>>
    BY <1>2, <1>4, <2>1
  <2>3. PICK p \in d + 3 .. r[2] - 2 :
            /\ \A i \in d + 2 .. p - 1 : text[i] # "?"
            /\ text[p] = "?"
            /\ \A i \in p + 2 .. r[2] : text[i] = "hex"
    <3>1. (d + 2) + 1 = d + 3
      BY <1>2
    <3> QED
      BY <2>1, <2>2, <3>1 DEF IsAddress
  <2>4. p = q
    <3>1. q \notin d + 2 .. p - 1
      BY <1>1, <2>3
    <3>2. p \notin d + 2 .. q - 1
      BY <1>1, <2>3
    <3> QED
      BY <1>2, <2>2, <2>3, <3>1, <3>2
  <2>5. ~(r[2] > z)
    <3> SUFFICES ASSUME r[2] > z PROVE FALSE
      OBVIOUS
    <3>1. z + 1 \in p + 2 .. r[2] /\ z # Pieces
      BY <1>2, <2>2, <2>4
    <3> QED
      BY <2>3, <3>1 DEF EndpointEvent
  <2>6. ~(r[2] < z)
    <3> SUFFICES ASSUME r[2] < z PROVE FALSE
      OBVIOUS
    <3>1. r[2] + 1 \in q + 2 .. z /\ r[2] # to
      BY <1>2, <2>2, <2>3, <2>4
    <3> QED
      BY <1>1, <2>1, <3>1
  <2> QED
    BY <1>2, <2>2, <2>5, <2>6
<1> QED
  BY <1>6, <1>7

(* A response that ends normally has brought every chunk, and everything   *)
(* the upstream sent where no chunk can be taken for an announcement.      *)
THEOREM CleanEndsAreComplete == Spec => []CleanEndIsComplete
<1>1. ASSUME TypeOK, RelayInv, MadeInv,
             request.kind = "message" \/ \A i \in 1 .. Pieces - 2 : ~NamesSession(i)
      PROVE  Unchanged
  <2> SUFFICES ASSUME NEW i \in 1..Len(delivered)
               PROVE  delivered[i].chunk.names = {}
    BY DEF Unchanged
  <2>1. CASE answer = "refusal"
    <3>1. delivered = <<TextFrame>>
      BY <1>1, <2>1 DEF RelayInv, DeliveredInv
    <3> QED
      BY <3>1 DEF TextFrame, NoChunk
  <2>2. CASE answer # "refusal"
    <3>1. PICK from, to \in 1..Pieces : delivered[i].chunk = Relayed(from, to)
      BY <1>1, <2>2, ChunksMade
    <3>2. /\ Pieces \in Nat /\ from \in Nat /\ to \in Nat /\ to <= Pieces
          /\ \A j \in from .. Pieces - 2 : j \in 1 .. Pieces - 2
      BY <1>1, PiecesType
    <3>3. \/ request.kind = "message"
          \/ \A j \in from .. Pieces - 2 : ~NamesSession(j)
      BY <1>1, <3>2
    <3>4. Relayed(from, to).names = {}
      BY <3>2, <3>3, WithoutSession
    <3> QED
      BY <3>1, <3>4
  <2> QED
    BY <2>1, <2>2
<1>2. TypeOK /\ RelayInv /\ MadeInv => CleanEndIsComplete
  <2> SUFFICES ASSUME TypeOK, RelayInv, MadeInv, client = "complete"
               PROVE  CleanEndIsComplete
    BY DEF CleanEndIsComplete
  <2>1. IF answer = "refusal" THEN delivered = <<TextFrame>>
        ELSE upstream = "done" /\ Joined(delivered, Len(delivered), sent)
    BY DEF RelayInv, CleanEnd
  <2>2. \/ request.kind = "message"
        \/ \A i \in 1 .. Pieces - 2 : ~NamesSession(i)
        => Unchanged
    BY <1>1
  <2> QED
    BY <2>1, <2>2 DEF CleanEndIsComplete, TextFrame
<1> QED
  BY <1>2, RelayContents, PTL

(* For every body and every way to cut it: the endpoint event that comes   *)
(* first and in one chunk is announced as it is meant, what follows is     *)
(* changed only where it names a session again, and a response to a        *)
(* message arrives as it was.                                              *)
THEOREM SessionStreamsIntact == Spec => []SessionStreamIntact
<1>1. ASSUME TypeOK, RelayInv, MadeInv, LaterInv PROVE SessionStreamIntact
  <2>1. CASE answer = "refusal"
    <3>1. delivered \in {<<>>, <<TextFrame>>}
      BY <1>1, <2>1 DEF RelayInv, DeliveredInv
    <3>2. Unchanged
      BY <3>1 DEF TextFrame, NoChunk, Unchanged
    <3>3. delivered # <<>> => delivered[1].chunk.to = 0
      BY <3>1 DEF TextFrame, NoChunk
    <3>4. \A z \in 1..Pieces : ~(delivered # <<>> /\ delivered[1].chunk.to >= z)
      BY <1>1, <3>3, PiecesType
    <3> QED
      BY <3>2, <3>4 DEF SessionStreamIntact
  <2>2. CASE answer # "refusal"
    <3>1. request.kind = "message" => Unchanged
      <4> SUFFICES ASSUME request.kind = "message", NEW i \in 1..Len(delivered)
                   PROVE  delivered[i].chunk.names = {}
        BY DEF Unchanged
      <4>1. PICK from, to \in 1..Pieces : delivered[i].chunk = Relayed(from, to)
        BY <1>1, <2>2, ChunksMade
      <4> QED
        BY <1>1, <4>1, WithoutSession, PiecesType
    <3>2. ASSUME NEW d \in 1..Pieces, NEW z \in 1..Pieces,
                 request.kind = "connect", EndpointEvent(d, z),
                 delivered # <<>>, delivered[1].chunk.to >= z
          PROVE  /\ delivered[1].chunk.names = {<<d + 2, z>>}
                 /\ (\A i \in z + 1 .. Pieces - 2 : ~NamesSession(i)) =>
                       \A i \in 2 .. Len(delivered) : delivered[i].chunk.names = {}
      <4>1. 1 \in 1..Len(delivered) /\ Len(delivered) \in Nat
        BY <1>1, <3>2, EmptySeq, LenProperties DEF TypeOK
      <4>2. PICK from, to \in 1..Pieces :
                /\ delivered[1].chunk = Relayed(from, to)
                /\ delivered[1].chunk.from = from /\ delivered[1].chunk.to = to
        BY <1>1, <2>2, <4>1, ChunksMade
      <4>3. from = 1
        BY <1>1, <2>2, <4>1, <4>2 DEF RelayInv, DeliveredInv, Sound, Joined
      <4>4. to \in z..Pieces
        BY <1>1, <3>2, <4>2, PiecesType
      <4>5. delivered[1].chunk.names = {<<d + 2, z>>}
        BY <1>1, <3>2, <4>2, <4>3, <4>4, EndpointEventParses DEF Relayed
      <4>6. ASSUME \A i \in z + 1 .. Pieces - 2 : ~NamesSession(i),
                   NEW i \in 2 .. Len(delivered)
            PROVE  delivered[i].chunk.names = {}
        <5>1. i \in 1..Len(delivered)
          BY <4>1
        <5>2. PICK f, t \in 1..Pieces :
                  delivered[i].chunk = Relayed(f, t) /\ delivered[i].chunk.from = f
          BY <1>1, <2>2, <5>1, ChunksMade
        <5>3. to < f
          BY <1>1, <2>2, <4>2, <5>2 DEF LaterInv
        <5>4. \A j \in f .. Pieces - 2 : j \in z + 1 .. Pieces - 2
          BY <1>1, <4>4, <5>3, PiecesType
        <5> QED
          BY <1>1, <4>6, <5>2, <5>4, WithoutSession, PiecesType
      <4> QED
        BY <4>5, <4>6
    <3> QED
      BY <3>1, <3>2 DEF SessionStreamIntact
  <2> QED
    BY <2>1, <2>2
<1> QED
  BY <1>1, RelayContents, PTL
-----------------------------------------------------------------------------
(* The refinement.  Runs are the abstract image of what was delivered.     *)
Run == [from : Nat, to : Nat]

LEMMA RunsType ==
    ASSUME NEW F \in Seq(Frame)
    PROVE  /\ Runs(F) \in Seq(Run) /\ Len(Runs(F)) = Len(F) /\ Len(F) \in Nat
           /\ \A i \in 1..Len(F) :
                 Runs(F)[i] = [from |-> F[i].chunk.from, to |-> F[i].chunk.to]
           /\ Runs(F) = <<>> <=> Len(F) = 0
<1>1. Len(F) \in Nat /\ DOMAIN F = 1..Len(F)
  BY LenProperties
<1>2. \A i \in 1..Len(F) : F[i].chunk.from \in Nat /\ F[i].chunk.to \in Nat
  BY FrameNumbers
<1>3. Runs(F) \in [1..Len(F) -> Run]
  BY <1>1, <1>2 DEF Runs, Run
<1>4. Runs(F) \in Seq(Run)
  BY <1>1, <1>3, SeqDef
<1>5. DOMAIN Runs(F) = 1..Len(Runs(F)) /\ Len(Runs(F)) \in Nat
  BY <1>4, LenProperties
<1>6. Len(Runs(F)) = Len(F)
  BY <1>1, <1>3, <1>5
<1>7. Runs(F) = <<>> <=> Len(F) = 0
  BY <1>4, <1>6, EmptySeq
<1> QED
  BY <1>1, <1>4, <1>6, <1>7 DEF Runs

LEMMA StreamInit == Init => Stream!Init
<1> SUFFICES ASSUME Init PROVE Stream!Init
  OBVIOUS
<1>1. Runs(delivered) = <<>>
  BY TypeInit, RunsType DEF Init, TypeOK
<1> QED
  BY <1>1 DEF Init, Stream!Init, Source, Received, Response

(* How far the client has got. *)
LEMMA ReachIsLast ==
    ASSUME TypeOK, answer # "refusal"
    PROVE  Stream!Reach = IF Len(delivered) = 0 THEN 0
                          ELSE delivered[Len(delivered)].chunk.to
<1>1. /\ Len(delivered) \in Nat /\ Len(Runs(delivered)) = Len(delivered)
      /\ Runs(delivered) = <<>> <=> Len(delivered) = 0
      /\ Len(delivered) # 0 =>
            Runs(delivered)[Len(delivered)].to = delivered[Len(delivered)].chunk.to
  <2>1. /\ Len(delivered) \in Nat /\ Len(Runs(delivered)) = Len(delivered)
        /\ Runs(delivered) = <<>> <=> Len(delivered) = 0
        /\ \A i \in 1..Len(delivered) :
              Runs(delivered)[i] = [from |-> delivered[i].chunk.from,
                                    to   |-> delivered[i].chunk.to]
    BY RunsType DEF TypeOK
  <2>2. ASSUME Len(delivered) # 0
        PROVE  Runs(delivered)[Len(delivered)].to = delivered[Len(delivered)].chunk.to
    <3>1. Len(delivered) \in 1..Len(delivered)
      BY <2>1, <2>2
    <3>2. Runs(delivered)[Len(delivered)] = [from |-> delivered[Len(delivered)].chunk.from,
                                             to   |-> delivered[Len(delivered)].chunk.to]
      BY <2>1, <3>1
    <3> QED
      BY <3>2
  <2> QED
    BY <2>1, <2>2
<1> QED
  BY <1>1 DEF Stream!Reach, Received

(* A received chunk is the next run of the stream.                         *)
LEMMA ReceiveImplements ==
    ASSUME TypeOK, TypeOK', RelayInv, ReceiveChunk, answer # "refusal"
    PROVE  Stream!Receive
<1> DEFINE p == Len(delivered) + 1
           to == delivered'[p].chunk.to
           next == [from |-> Stream!Reach + 1, to |-> to]
<1>1. /\ delivered \in Seq(Frame) /\ Len(delivered) \in Nat
      /\ delivered' \in Seq(Frame) /\ Len(delivered') = p
      /\ \A i \in 1..Len(delivered) : delivered'[i] = delivered[i]
  BY HeadInFrames, LenProperties, AppendProperties DEF TypeOK, ReceiveChunk
<1>2. PICK reach \in 0..read : Sound(delivered', p, reach, read)
  BY <1>1, ReceivesRun
<1>3. /\ delivered'[p].chunk.from = IF p = 1 THEN 1 ELSE delivered'[p - 1].chunk.to + 1
      /\ delivered'[p].chunk.from <= to /\ to <= read
  BY <1>1, <1>2 DEF Sound, Joined
<1>4. delivered'[p].chunk.from = Stream!Reach + 1
  BY <1>1, <1>3, ReachIsLast
<1>5. delivered'[p].chunk.from \in Nat /\ to \in Nat
  BY <1>1, FrameNumbers
<1>6. Runs(delivered') = Append(Runs(delivered), next)
  <2>1. next \in Run
    BY <1>4, <1>5 DEF Run
  <2>2. /\ Append(Runs(delivered), next) \in Seq(Run)
        /\ Len(Append(Runs(delivered), next)) = p
        /\ \A i \in 1..Len(delivered) :
              Append(Runs(delivered), next)[i] = Runs(delivered)[i]
        /\ Append(Runs(delivered), next)[p] = next
    BY <1>1, <2>1, RunsType, AppendProperties
  <2>3. \A i \in 1..p : i \in 1..Len(delivered) \/ i = p
    BY <1>1
  <2>4. \A i \in 1..p : Runs(delivered')[i] = Append(Runs(delivered), next)[i]
    <3>1. /\ \A i \in 1..p :
                Runs(delivered')[i] = [from |-> delivered'[i].chunk.from,
                                       to   |-> delivered'[i].chunk.to]
          /\ \A i \in 1..Len(delivered) :
                Runs(delivered)[i] = [from |-> delivered[i].chunk.from,
                                      to   |-> delivered[i].chunk.to]
      BY <1>1, RunsType
    <3>2. Runs(delivered')[p] = next
      BY <1>1, <1>4, <3>1
    <3>3. ASSUME NEW i \in 1..Len(delivered)
          PROVE  Runs(delivered')[i] = Append(Runs(delivered), next)[i]
      <4>1. i \in 1..p /\ delivered'[i] = delivered[i]
        BY <1>1
      <4>2. Runs(delivered')[i] = Runs(delivered)[i]
        BY <3>1, <4>1
      <4> QED
        BY <2>2, <4>2
    <3> QED
      BY <2>2, <2>3, <3>2, <3>3
  <2> QED
    BY <1>1, <2>2, <2>4, RunsType, SeqEqual
<1>7. to \in Stream!Reach + 1 .. sent
  <2>1. read \in Nat /\ sent \in Nat /\ read <= sent
    BY PiecesType DEF TypeOK
  <2> QED
    BY <1>3, <1>4, <1>5, <2>1
<1> QED
  BY <1>6, <1>7 DEF Stream!Receive, Received, Response, Source, ReceiveChunk

(* The signals and the drained channel give the client its ordinary or     *)
(* broken end.                                                             *)
LEMMA EndImplements ==
    ASSUME TypeOK, RelayInv, ReceiveSignal \/ ReceiveEnd
    PROVE  Stream!Complete \/ Stream!Abort \/ UNCHANGED Stream!streamVars
<1>1. UNCHANGED <<Source, sent, Received>>
  BY DEF ReceiveSignal, ReceiveEnd, Source, Received, Runs
<1>2. CASE ReceiveSignal /\ Head(queue).is = "failure"
  <2>1. answer = "relayed" /\ upstream = "failed"
    BY <1>2, FailureIsTrue DEF ReceiveSignal
  <2>2. Source = "failed" /\ Response = "open" /\ Response' = "aborted"
    BY <1>2, <2>1 DEF ReceiveSignal, Source, Response
  <2> QED
    BY <1>1, <2>2 DEF Stream!Abort
<1>3. CASE ReceiveSignal /\ Head(queue).is # "failure"
  <2>1. /\ answer = "relayed" /\ upstream = "done"
        /\ Joined(delivered, Len(delivered), sent)
    BY <1>3, TrailersAreLast DEF ReceiveSignal
  <2>2. Stream!Reach = sent
    BY <2>1, ReachIsLast DEF Joined
  <2>3. Source = "done" /\ Response = "open" /\ Response' = "complete"
    BY <1>3, <2>1 DEF ReceiveSignal, Source, Response
  <2> QED
    BY <1>1, <2>2, <2>3 DEF Stream!Complete
<1>4. CASE ReceiveEnd
  <2>1. UNCHANGED Response
    BY <1>4, DrainedIsRefused DEF ReceiveEnd, Response
  <2> QED
    BY <1>1, <2>1 DEF Stream!streamVars
<1> QED
  BY <1>2, <1>3, <1>4

LEMMA StreamStep ==
    TypeOK /\ TypeOK' /\ RelayInv /\ [Next]_vars => [Stream!Next]_(Stream!streamVars)
<1> SUFFICES ASSUME TypeOK, TypeOK', RelayInv, [Next]_vars
             PROVE  Stream!Next \/ UNCHANGED Stream!streamVars
  OBVIOUS
<1> USE DEF body, Source, Response, Received
<1>1. CASE Refuse
  <2>1. upstream = "idle" /\ answer = "none" /\ client = "open" /\ delivered = <<>>
    BY <1>1 DEF Refuse, RelayInv, ControlInv
  <2>2. Runs(delivered) = <<>>
    BY <2>1, RunsType DEF TypeOK
  <2> QED
    BY <1>1, <2>1, <2>2 DEF Refuse, Stream!Next, Stream!Refuse
<1>2. CASE Ask \/ HandOver
  <2>1. answer # "refusal"
    BY <1>2 DEF Ask, HandOver, RelayInv, ControlInv
  <2> QED
    BY <1>2, <2>1 DEF Ask, HandOver, RelayInv, ControlInv, Runs, Stream!streamVars
<1>3. CASE RequestPanics
  <2>1. client = "open" /\ answer = "none"
    BY <1>3 DEF RequestPanics, RelayInv, ControlInv
  <2> QED
    BY <1>3, <2>1 DEF RequestPanics, Runs, Stream!Next, Stream!Abort
<1>4. CASE UpstreamAnswers
  BY <1>4 DEF UpstreamAnswers, Runs, Stream!Next, Stream!Respond
<1>5. CASE UpstreamSends
  BY <1>5 DEF UpstreamSends, Runs, Stream!Next, Stream!Send
<1>6. CASE UpstreamEnds
  BY <1>6 DEF UpstreamEnds, Runs, Stream!Next, Stream!Stop
<1>7. CASE Task
  BY <1>7 DEF Task, TakeChunk, TakeFailure, TakeEnd, SendFrame, SendRefused, Runs,
              Stream!streamVars
<1>8. CASE ReceiveChunk
  <2>1. CASE answer = "refusal"
    BY <1>8, <2>1 DEF ReceiveChunk, Stream!streamVars
  <2>2. CASE answer # "refusal"
    BY <1>8, <2>2, ReceiveImplements DEF Stream!Next
  <2> QED
    BY <2>1, <2>2
<1>9. CASE ReceiveSignal \/ ReceiveEnd
  BY <1>9, EndImplements DEF Stream!Next
<1>10. CASE HangUp
  BY <1>10 DEF HangUp, Runs, Stream!Next, Stream!Leave, Stream!streamVars
<1>11. CASE UNCHANGED vars
  BY <1>11 DEF vars, Runs, Stream!streamVars
<1> QED
  BY <1>1, <1>2, <1>3, <1>4, <1>5, <1>6, <1>7, <1>8, <1>9, <1>10, <1>11
     DEF Next, Handler, Upstream, Client

(* Handler, task and channel together implement the response of            *)
(* ResponseStream.                                                         *)
THEOREM RelayImplementsStream == Spec => StreamHolds
<1>1. Spec => Stream!Init /\ [][Stream!Next]_(Stream!streamVars)
  BY RelayInvariant, StreamInit, StreamStep, PTL DEF Spec
<1> QED
  BY <1>1 DEF StreamHolds, Stream!Spec
=============================================================================
