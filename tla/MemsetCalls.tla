---------------------------- MODULE MemsetCalls ----------------------------
(* The calls of memset, and the memory they write to.                       *)
EXTENDS Integers

CONSTANTS Room,   \* size of the address space
          Octet,  \* values of a byte, with 0
          Old,    \* what the memory holds before the call
          Calls   \* the calls: [impl, dst, count, low, high], low being the lowest
                  \* byte of the register of val and high all of its other bytes

Impls == {"c", "aarch64", "aarch32"}
Cell  == 0 .. Room - 1

ASSUME RoomAssumption == Room \in Nat /\ 0 \in Octet /\ Old \notin Octet
ASSUME CallsAssumption ==
  \A c \in Calls :
    /\ c \in [impl : Impls, dst : Cell, count : 0 .. Room, low : Octet, high : Octet]
    /\ c.dst + c.count <= Room
=============================================================================
