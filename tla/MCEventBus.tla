----------------------------- MODULE MCEventBus -----------------------------
(* Values of the constants of EventBus for TLC: the handler and event of      *)
(* features/example.rs, and those of tests/integration_test.rs, whose event   *)
(* type has the same name.                                                    *)
EXTENDS EventBus

MyHandler   == [id |-> 1, type |-> "MyEvent", expects |-> "any", strict |-> FALSE]
TestHandler == [id |-> 2, type |-> "ExampleEvent", expects |-> "hey", strict |-> TRUE]

MyEvent      == [name |-> "MyEvent", type |-> "MyEvent", message |-> "hey"]
ExampleEvent == [name |-> "MyEvent", type |-> "ExampleEvent", message |-> "hey"]
AnotherEvent == [name |-> "MyEvent", type |-> "ExampleEvent", message |-> "bye"]
OtherEvent   == [name |-> "Other", type |-> "Other", message |-> "hey"]

AllHandlers  == {MyHandler, TestHandler}
AllEvents    == {MyEvent, ExampleEvent, AnotherEvent, OtherEvent}
=============================================================================
