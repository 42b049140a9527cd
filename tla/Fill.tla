-------------------------------- MODULE Fill --------------------------------
(***************************************************************************)
(* What memset promises: the bytes of the area get the value converted to  *)
(* an unsigned char, in any order and any number of times, no other byte   *)
(* changes, and the call returns when the whole area is done.              *)
(***************************************************************************)
CONSTANT Addr   \* the addresses

VARIABLES
  area, value,  \* the parameters, the value being converted
  mem,
  returned

Store ==
  /\ \A a \in Addr : mem'[a] = mem[a] \/ (a \in area /\ mem'[a] = value)
  /\ UNCHANGED <<area, value>>

Write  == ~ returned /\ Store /\ UNCHANGED returned
Return == ~ returned /\ Store /\ returned' /\ \A a \in area : mem'[a] = value

Next == Write \/ Return
=============================================================================
