------------------------------ MODULE EventBus ------------------------------
(***************************************************************************)
(* The event bus of rtos/app/rust/src/framework.  The handlers are in a    *)
(* RefCell: dispatch holds a shared borrow of the list while it calls the  *)
(* handlers one after the other, register_handler takes an exclusive one   *)
(* and panics when the list is borrowed.  A handler has a reference to the *)
(* bus at most, so what it can do to it is to call dispatch or             *)
(* register_handler again, from inside handle.                             *)
(***************************************************************************)
EXTENDS Naturals, Sequences

CONSTANTS Handlers,        \* [id, type, expects, strict]: what handle downcasts to, the
                           \* message it asserts ("any": none), and whether it asserts
                           \* that no event has another name
          Events,          \* [name, type, message]: get_type() and the concrete value
          MaxHandlers,     \* length of the handler list (bound)
          MaxNested,       \* calls handlers make during one dispatch (bound): what
                           \* is cut off are handlers that recurse for ever
          NestedRegister,  \* do handlers call register_handler?
          HeapMayFill      \* may the allocator be out of its 512 bytes?

ASSUME EventsAssumption ==
  /\ \A h \in Handlers : {"type", "expects", "strict"} \subseteq DOMAIN h
  /\ \A e \in Events : {"name", "type", "message"} \subseteq DOMAIN e
ASSUME BoundsAssumption == MaxHandlers \in Nat /\ MaxNested \in Nat

VARIABLES
  handlers,   \* the Vec in the RefCell
  borrow,     \* shared borrows of the RefCell
  frames,     \* dispatch calls in progress, innermost last
  nested,     \* calls made by handlers during this dispatch
  halted      \* panic_handler: loop {}

vars == <<handlers, borrow, frames, nested, halted>>

Frame == [event : Events, pos : Nat, at : {"loop", "handler"}]
top   == frames[Len(frames)]

TypeOK ==
  /\ handlers \in Seq(Handlers)
  /\ borrow \in Nat
  /\ frames \in Seq(Frame)
  /\ nested \in 0 .. MaxNested
  /\ halted \in BOOLEAN

Init ==
  /\ handlers = << >> /\ borrow = 0 /\ frames = << >> /\ nested = 0
  /\ halted = FALSE

\* the caller of the bus is the program itself or the handler being called
InHandler == frames # << >> /\ top.at = "handler"
CanCall   == ~ halted /\ (frames = << >> \/ (InHandler /\ nested < MaxNested))
CountCall == nested' = IF frames = << >> THEN 0 ELSE nested + 1

Panic == halted' = TRUE /\ UNCHANGED <<handlers, borrow, frames>>

\* (variant) the list is changed without asking the RefCell
ListIsFreeAlways == TRUE
\* borrow_mut() succeeds
ListIsFree == borrow = 0

Register(h) ==
  /\ CanCall
  /\ frames = << >> \/ NestedRegister
  /\ CountCall
  /\ \/ /\ ListIsFree
        /\ Len(handlers) < MaxHandlers
        /\ handlers' = Append(handlers, h)
        /\ UNCHANGED <<borrow, frames, halted>>
     \/ ListIsFree /\ HeapMayFill /\ Panic   \* push has to grow the Vec
     \/ ~ ListIsFree /\ Panic

Dispatch(e) ==
  /\ CanCall
  /\ CountCall
  /\ borrow' = borrow + 1
  /\ frames' = Append(frames, [event |-> e, pos |-> 0, at |-> "loop"])
  /\ UNCHANGED <<handlers, halted>>

\* (variant) the last handler is left out
LastLeftOut == top.pos + 1 < Len(handlers)
\* iter().next() returns a handler
HasNext == top.pos < Len(handlers)

\* (variant) the iterator stays where it is
NotAdvanced(pos) == pos
\* iter().next() moves on
Advanced(pos) == pos + 1

\* handle goes by the name of the event: downcast_ref().unwrap(), in the test also
\* assert_eq!(message, "hey"); under another name it returns, or assert!(false)
Named(e)        == e.name = "MyEvent"
Unwraps(h, e)   == e.type = h.type
Expected(h, e)  == h.expects \in {"any", e.message}
Accepts(h, e)   == IF Named(e) THEN Unwraps(h, e) /\ Expected(h, e) ELSE ~ h.strict

CallHandler ==
  /\ ~ halted /\ frames # << >> /\ top.at = "loop"
  /\ HasNext
  /\ IF Accepts(handlers[top.pos + 1], top.event)
     THEN /\ frames' = [frames EXCEPT ![Len(frames)].pos = Advanced(@),
                                      ![Len(frames)].at = "handler"]
          /\ UNCHANGED <<handlers, borrow, halted>>
     ELSE Panic
  /\ UNCHANGED nested

Return ==
  /\ ~ halted /\ InHandler
  /\ frames' = [frames EXCEPT ![Len(frames)].at = "loop"]
  /\ UNCHANGED <<handlers, borrow, nested, halted>>

\* (variants) every borrow is given back at once, or none
AllBorrowsDropped == 0
BorrowKept == borrow
\* the borrow of dispatch ends with its loop
BorrowDropped == borrow - 1

EndDispatch ==
  /\ ~ halted /\ frames # << >> /\ top.at = "loop"
  /\ ~ HasNext
  /\ frames' = SubSeq(frames, 1, Len(frames) - 1)
  /\ borrow' = BorrowDropped
  /\ UNCHANGED <<handlers, nested, halted>>

\* panic_handler
Spin == halted /\ UNCHANGED vars

Bus  == CallHandler \/ EndDispatch
Next == \/ \E h \in Handlers : Register(h)
        \/ \E e \in Events : Dispatch(e)
        \/ Bus \/ Return \/ Spin

Spec == Init /\ [][Next]_vars

\* the loop of dispatch goes on, and a handler returns: it has no loop
FairSpec == Spec /\ WF_vars(Bus) /\ WF_vars(Return)

-----------------------------------------------------------------------------
\* The RefCell counts exactly the dispatch calls in progress, nested ones
\* included, so the exclusive borrow fails during all of them and only then.
BorrowsAreFrames == borrow = Len(frames)

\* The list never changes while an iterator of dispatch walks over it.
ListStable == [][frames # << >> => handlers' = handlers]_vars

\* No iterator is ever past the end of the list.
IteratorsValid == \A i \in 1 .. Len(frames) : frames[i].pos <= Len(handlers)

\* A panic has one of these causes: there was no memory for the list, a handler
\* registered another one, the name of an event stands for another type than the
\* handler's, or a handler asserted on its message or on another name.  Nothing the
\* bus has been through before, nested dispatches included, is a cause of its own.
PanicsAreExplained ==
  halted => \/ frames = << >> /\ ListIsFree /\ HeapMayFill
            \/ InHandler /\ NestedRegister
            \/ /\ frames # << >> /\ top.at = "loop" /\ HasNext
               /\ LET h == handlers[top.pos + 1]  e == top.event
                  IN \/ Named(e) /\ ~ Unwraps(h, e)
                     \/ Named(e) /\ ~ Expected(h, e)
                     \/ ~ Named(e) /\ h.strict

\* A dispatch ends, or the program has panicked, provided the handlers make no more
\* than MaxNested calls during one dispatch.
DispatchEnds == frames # << >> ~> frames = << >> \/ halted

\* The bus keeps its promise: the handlers an event is still owed are those
\* the live list holds behind the position of its iterator.
owed == [i \in 1 .. Len(frames) |->
           [event |-> frames[i].event,
            left |-> SubSeq(handlers, frames[i].pos + 1, Len(handlers))]]
Promise == INSTANCE SnapshotBus WITH subs <- handlers, todo <- owed, stopped <- halted
KeepsPromise == Promise!Spec
=============================================================================
