------------------------------ MODULE MCMemory ------------------------------
(* memmove and the functions for byte orders: every overlap of two areas and *)
(* every content of a small address space, in which a byte has two values    *)
(* and a field of eight bytes fits twice.  Or memset: every alignment to a   *)
(* word of eight, counts around every width and block, registers with and    *)
(* without a zero byte and other bits above it.                              *)
EXTENDS Fields, Memset

VARIABLE asked   \* what is called: "memmove" or "memset"

Bits         == {0, 1}
XorBit(a, b) == (a + b) % 2

Counts   == 0 .. 41 \cup 62 .. 73 \cup 94 .. 97 \cup 126 .. 131
AllCalls == [impl : Impls, dst : 8 .. 15, count : Counts, low : Bits, high : Bits]

-----------------------------------------------------------------------------
NoMove == /\ call = [dst |-> 0, src |-> 0, len |-> 0]
          /\ mem = [a \in Addr |-> 0] /\ Init
NoSet  == params = (CHOOSE c \in Calls : TRUE) /\ SetInit

MCInit == \/ asked = "memmove" /\ NoSet /\ Init
          \/ asked = "memset" /\ NoMove /\ SetInit
MCNext == \/ asked = "memmove" /\ Next /\ UNCHANGED <<asked, setVars>>
          \/ asked = "memset" /\ SetNext /\ UNCHANGED <<asked, vars>>
MCSpec == MCInit /\ [][MCNext]_<<asked, vars, setVars>>
=============================================================================
