------------------------------ MODULE Lifecycle -----------------------------
(***************************************************************************)
(* From start to exit of a process: Booter::run (mc-booter), the signal    *)
(* task it spawns, and axum's graceful shutdown in McpCenterServer::start  *)
(* (mc-service).  Connections stay open as long as the streams relayed     *)
(* over them.                                                              *)
(***************************************************************************)
EXTENDS Naturals

CONSTANT Connections

VARIABLES
    phase,          \* "preparing", "starting", "serving", "draining", "exited"
    task,           \* the signal task: "none", "spawned", "listening", "waiting",
                    \* "ended"
    caught,         \* the signals whose default action tokio has replaced
    terms,          \* a SIGTERM was delivered and not yet received
    ints,           \* the same for Ctrl+C
    token,          \* the CancellationToken is cancelled
    open,           \* connections
    asked           \* history: signals sent to the process

vars == <<phase, task, caught, terms, ints, token, open, asked>>
-----------------------------------------------------------------------------
Init ==
    /\ phase = "preparing"
    /\ task = "none"
    /\ caught = {}
    /\ terms = FALSE
    /\ ints = FALSE
    /\ token = FALSE
    /\ open = {}
    /\ asked = {}

Exit == phase' = "exited" /\ open' = {}

(* Reading the configuration or prepare() fails: run() returns the error.  *)
PrepareFails ==
    /\ phase = "preparing"
    /\ Exit
    /\ UNCHANGED <<task, caught, terms, ints, token, asked>>

(* prepare() is done, the signal task is spawned. *)
Prepare ==
    /\ phase = "preparing"
    /\ phase' = "starting"
    /\ task' = "spawned"
    /\ UNCHANGED <<caught, terms, ints, token, open, asked>>

(* application.run(): the listener is bound, or bind().unwrap() panics. *)
Bind ==
    /\ phase = "starting"
    /\ phase' = "serving"
    /\ UNCHANGED <<task, caught, terms, ints, token, open, asked>>

BindFails ==
    /\ phase = "starting"
    /\ Exit
    /\ UNCHANGED <<task, caught, terms, ints, token, asked>>

Connect(c) ==
    /\ phase = "serving"
    /\ open' = open \cup {c}
    /\ UNCHANGED <<phase, task, caught, terms, ints, token, asked>>

Close(c) ==
    /\ c \in open
    /\ open' = open \ {c}
    /\ UNCHANGED <<phase, task, caught, terms, ints, token, asked>>

(* with_graceful_shutdown: no new connections, the open ones go on. *)
StopAccepting ==
    /\ phase = "serving"
    /\ token
    /\ phase' = "draining"
    /\ UNCHANGED <<task, caught, terms, ints, token, open, asked>>

(* Mutant: the open connections are not waited for. *)
ReturnAtOnce ==
    /\ phase = "draining"
    /\ Exit
    /\ UNCHANGED <<task, caught, terms, ints, token, asked>>

(* serve() returns when the last connection is closed, then run() and main. *)
Return ==
    /\ phase = "draining"
    /\ open = {}
    /\ Exit
    /\ UNCHANGED <<task, caught, terms, ints, token, asked>>
-----------------------------------------------------------------------------
(* The signal task.  tokio replaces the default action of a signal when it *)
(* is first listened to, and for the rest of the process's life.           *)

(* signal(SignalKind::terminate()) *)
ListenTerm ==
    /\ task = "spawned"
    /\ phase # "exited"
    /\ task' = "listening"
    /\ caught' = {"SIGTERM"}
    /\ UNCHANGED <<phase, terms, ints, token, open, asked>>

(* The first poll of ctrl_c(), which is an async function. *)
ListenInt ==
    /\ task = "listening"
    /\ phase # "exited"
    /\ task' = "waiting"
    /\ caught' = {"SIGTERM", "Ctrl+C"}
    /\ UNCHANGED <<phase, terms, ints, token, open, asked>>

(* The platform stops the process. *)
SigTerm ==
    /\ phase # "exited"
    /\ asked' = asked \cup {"SIGTERM"}
    /\ IF "SIGTERM" \in caught THEN terms' = TRUE /\ UNCHANGED <<phase, open>>
                                ELSE Exit /\ UNCHANGED terms
    /\ UNCHANGED <<task, caught, ints, token>>

(* The operator does. *)
CtrlC ==
    /\ phase # "exited"
    /\ asked' = asked \cup {"Ctrl+C"}
    /\ IF "Ctrl+C" \in caught THEN ints' = TRUE /\ UNCHANGED <<phase, open>>
                               ELSE Exit /\ UNCHANGED ints
    /\ UNCHANGED <<task, caught, terms, token>>

(* Mutant: the token is not cancelled. *)
ReceiveTermOnly ==
    /\ task \in {"listening", "waiting"}
    /\ terms
    /\ phase # "exited"
    /\ terms' = FALSE
    /\ task' = "ended"
    /\ UNCHANGED <<phase, caught, ints, token, open, asked>>

(* The two branches of select!, polled in random order: a SIGTERM may be   *)
(* received before Ctrl+C is listened to.                                  *)
ReceiveTerm ==
    /\ task \in {"listening", "waiting"}
    /\ terms
    /\ phase # "exited"
    /\ terms' = FALSE
    /\ token' = TRUE
    /\ task' = "ended"
    /\ UNCHANGED <<phase, caught, ints, open, asked>>

(* exit(0), with whatever connections are open. *)
ReceiveInt ==
    /\ task = "waiting"
    /\ ints
    /\ phase # "exited"
    /\ Exit
    /\ ints' = FALSE
    /\ UNCHANGED <<task, caught, terms, token, asked>>
-----------------------------------------------------------------------------
Startup == PrepareFails \/ Prepare \/ Bind \/ BindFails
Serve == StopAccepting \/ Return
SignalTask == ListenTerm \/ ListenInt \/ ReceiveTerm \/ ReceiveInt

Next ==
    \/ Startup \/ Serve \/ SignalTask
    \/ SigTerm \/ CtrlC
    \/ \E c \in Connections : Connect(c) \/ Close(c)

Spec == Init /\ [][Next]_vars

(* Start-up, the server and the signal task run; nothing makes connections *)
(* close or signals come.                                                  *)
FairSpec ==
    Spec /\ WF_vars(Startup) /\ WF_vars(Serve) /\ WF_vars(SignalTask)
-----------------------------------------------------------------------------
(* While only SIGTERM is used, a process that got as far as serving never  *)
(* cuts a connection: it exits when there is none.  (One that comes before *)
(* the signal task listens to it still kills the process.)                 *)
TermCutsNothing ==
    [][/\ phase \in {"serving", "draining"} /\ phase' = "exited"
       /\ asked' \subseteq {"SIGTERM"} /\ "SIGTERM" \in caught
       => open = {}]_vars

(* A signal stops the process, whenever it comes, if every connection is   *)
(* closed some time and no more are opened after that.                     *)
SignalStops ==
    <>[](open = {}) => (asked # {} ~> phase = "exited")

(* booter.rs:96-97, "Received Ctrl+C, shutting down directly..." and "When *)
(* long connections exist, axum seems unable to gracefully shut down. So   *)
(* need exit(0)": Ctrl+C ends the process, whatever connections are open.  *)
CtrlCStops == "Ctrl+C" \in asked ~> phase = "exited"
=============================================================================
