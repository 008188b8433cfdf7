--------------------------- MODULE LifecycleProofs --------------------------
(***************************************************************************)
(* SIGTERM never cuts a stream, for any number of connections.             *)
(***************************************************************************)
EXTENDS Lifecycle, TLAPS

(* A Ctrl+C that waits for the signal task was sent. *)
QueuedWasSent == ints \in BOOLEAN /\ (ints => "Ctrl+C" \in asked)

LEMMA InitInv == Init => QueuedWasSent
  BY DEF Init, QueuedWasSent

LEMMA StepInv == QueuedWasSent /\ [Next]_vars => QueuedWasSent'
<1> SUFFICES ASSUME QueuedWasSent, [Next]_vars PROVE QueuedWasSent'
  OBVIOUS
<1> USE DEF QueuedWasSent
<1>1. ASSUME UNCHANGED <<ints, asked>> PROVE QueuedWasSent'
  BY <1>1
<1>2. CASE Startup
  BY <1>1, <1>2 DEF Startup, PrepareFails, Prepare, Bind, BindFails
<1>3. CASE Serve
  BY <1>1, <1>3 DEF Serve, StopAccepting, Return
<1>4. CASE SignalTask
  <2>1. CASE ListenTerm \/ ListenInt
    BY <1>1, <2>1 DEF ListenTerm, ListenInt
  <2>2. CASE ReceiveTerm
    BY <1>1, <2>2 DEF ReceiveTerm
  <2>3. CASE ReceiveInt
    BY <2>3 DEF ReceiveInt
  <2> QED
    BY <1>4, <2>1, <2>2, <2>3 DEF SignalTask
<1>5. CASE SigTerm
  BY <1>5 DEF SigTerm
<1>6. CASE CtrlC
  BY <1>6 DEF CtrlC
<1>7. CASE \E c \in Connections : Connect(c) \/ Close(c)
  BY <1>1, <1>7 DEF Connect, Close
<1>8. CASE UNCHANGED vars
  BY <1>1, <1>8 DEF vars
<1> QED
  BY <1>2, <1>3, <1>4, <1>5, <1>6, <1>7, <1>8 DEF Next

(* The body of TermCutsNothing. *)
NothingCut ==
    /\ phase \in {"serving", "draining"} /\ phase' = "exited"
    /\ asked' \subseteq {"SIGTERM"} /\ "SIGTERM" \in caught
    => open = {}

(* Only Return and ReceiveInt end a process that serves and listens to     *)
(* SIGTERM; a Ctrl+C that finds its default action was sent.               *)
LEMMA WhatEndsIt ==
    ASSUME [Next]_vars, "SIGTERM" \in caught,
           phase \in {"serving", "draining"}, phase' = "exited"
    PROVE  Return \/ ReceiveInt \/ "Ctrl+C" \in asked'
<1>1. CASE Startup
  BY <1>1 DEF Startup, PrepareFails, Prepare, Bind, BindFails
<1>2. CASE Serve
  BY <1>2 DEF Serve, StopAccepting
<1>3. CASE SignalTask
  BY <1>3 DEF SignalTask, ListenTerm, ListenInt, ReceiveTerm
<1>4. CASE SigTerm \/ CtrlC
  BY <1>4 DEF SigTerm, CtrlC
<1>5. CASE \E c \in Connections : Connect(c) \/ Close(c)
  BY <1>5 DEF Connect, Close
<1>6. CASE UNCHANGED vars
  BY <1>6 DEF vars
<1> QED
  BY <1>1, <1>2, <1>3, <1>4, <1>5, <1>6 DEF Next

LEMMA StepCutsNothing == QueuedWasSent /\ [Next]_vars => NothingCut
<1> SUFFICES ASSUME QueuedWasSent, [Next]_vars, "SIGTERM" \in caught,
                    phase \in {"serving", "draining"}, phase' = "exited",
                    asked' \subseteq {"SIGTERM"}
             PROVE  open = {}
  BY DEF NothingCut
<1>1. CASE Return
  BY <1>1 DEF Return
<1>2. CASE ReceiveInt
  <2>1. "Ctrl+C" \in asked /\ asked' = asked
    BY <1>2 DEF ReceiveInt, QueuedWasSent
  <2> QED
    BY <2>1
<1> QED
  BY <1>1, <1>2, WhatEndsIt

(* While only SIGTERM is used, a process that serves and listens for       *)
(* signals exits when it has no connection, whatever the moment.           *)
THEOREM TermsCutNothing == Spec => TermCutsNothing
<1>1. QueuedWasSent /\ [Next]_vars => [NothingCut]_vars
  BY StepCutsNothing
<1>2. Spec => [][NothingCut]_vars
  BY InitInv, StepInv, <1>1, PTL DEF Spec
<1> QED
  BY <1>2 DEF TermCutsNothing, NothingCut
=============================================================================
