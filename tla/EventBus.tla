------------------------------ MODULE EventBus ------------------------------
(***************************************************************************)
(* One receiver's view of the tokio broadcast channel created in           *)
(* mc-service/src/server.rs and read by Cache::handle_event.  The channel  *)
(* is a library: this is what the code relies on.  A send never waits: on  *)
(* a full channel it overwrites the oldest event, and the receiver learns  *)
(* of it (Lagged) at its next recv.  A send without a receiver fails.      *)
(***************************************************************************)
EXTENDS Naturals, Sequences

CONSTANT BusCapacity    \* broadcast::channel(100), which tokio rounds to 128

ASSUME BusCapacityAssumption == BusCapacity \in Nat \ {0}

Bus(Event) == [queue : Seq(Event), lagged : BOOLEAN, open : BOOLEAN]

(* cache.subscribe() at start-up; the other receiver is dropped at once. *)
Subscribed == [queue |-> <<>>, lagged |-> FALSE, open |-> TRUE]

(* The receiving task has ended and its receiver is dropped. *)
Unsubscribed == [queue |-> <<>>, lagged |-> FALSE, open |-> FALSE]

(* event_sender.send(ev): lost when no receiver is left. *)
Send(bus, ev) ==
    IF ~bus.open THEN bus
    ELSE IF Len(bus.queue) < BusCapacity
         THEN [bus EXCEPT !.queue = Append(@, ev)]
         ELSE [bus EXCEPT !.queue = Append(Tail(@), ev), !.lagged = TRUE]
=============================================================================
