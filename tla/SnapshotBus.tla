----------------------------- MODULE SnapshotBus -----------------------------
(***************************************************************************)
(* What the event bus of rtos/app/rust promises its users: an event goes   *)
(* to the handlers that were registered when it was dispatched, to each    *)
(* once and in the order of their registration; events dispatched by a     *)
(* handler are delivered before the one it is handling; and the list of    *)
(* handlers changes only while nothing is being delivered.                 *)
(***************************************************************************)
EXTENDS Naturals, Sequences

CONSTANTS Handlers, Events

VARIABLES subs,    \* registered handlers, in order
          todo,    \* events being delivered, innermost last, and who is left
          stopped  \* the program has panicked

vars == <<subs, todo, stopped>>

Init == subs = << >> /\ todo = << >> /\ stopped = FALSE

Subscribe(h) ==
  /\ ~ stopped /\ todo = << >>
  /\ subs' = Append(subs, h)
  /\ UNCHANGED <<todo, stopped>>

Publish(e) ==
  /\ ~ stopped
  /\ todo' = Append(todo, [event |-> e, left |-> subs])
  /\ UNCHANGED <<subs, stopped>>

Deliver ==
  /\ ~ stopped /\ todo # << >>
  /\ todo[Len(todo)].left # << >>
  /\ todo' = [todo EXCEPT ![Len(todo)].left = Tail(@)]
  /\ UNCHANGED <<subs, stopped>>

Finish ==
  /\ ~ stopped /\ todo # << >>
  /\ todo[Len(todo)].left = << >>
  /\ todo' = SubSeq(todo, 1, Len(todo) - 1)
  /\ UNCHANGED <<subs, stopped>>

Stop == stopped' = TRUE /\ UNCHANGED <<subs, todo>>

Next == \/ \E h \in Handlers : Subscribe(h)
        \/ \E e \in Events : Publish(e)
        \/ Deliver \/ Finish \/ Stop

Spec == Init /\ [][Next]_vars
=============================================================================
