------------------------------ MODULE Memmove ------------------------------
(***************************************************************************)
(* memmove and memcpy of rtos/libc, byte by byte, in an address space of N *)
(* bytes: size_t and uintptr_t are the numbers 0 .. N - 1 and their        *)
(* subtraction wraps around.  The two areas lie inside the address space;  *)
(* they may overlap in any way.                                            *)
(***************************************************************************)
EXTENDS Integers

CONSTANTS N,     \* size of the address space
          Byte   \* values of a byte

ASSUME SpaceAssumption == N \in Nat \ {0}

Addr  == 0 .. N - 1
Areas == {a \in [dst : Addr, src : Addr, len : 0 .. N - 1] :
            a.dst + a.len <= N /\ a.src + a.len <= N}

VARIABLES
  pc,     \* "test", "memcpy", "backwards", "returned"
  call,   \* the parameters
  left,   \* bytes still to be copied
  mem,    \* the memory now
  before  \* the memory when memmove was called

vars == <<pc, call, left, mem, before>>

TypeOK ==
  /\ pc \in {"test", "memcpy", "backwards", "returned"}
  /\ call \in Areas
  /\ left \in 0 .. N - 1
  /\ mem \in [Addr -> Byte] /\ before \in [Addr -> Byte]

Init ==
  /\ pc = "test"
  /\ call \in Areas /\ left = call.len
  /\ mem \in [Addr -> Byte] /\ before = mem

\* (variant) the pointers are compared as signed numbers
SignedMinus(a, b) == a - b
\* (size_t)a - (size_t)b
Minus(a, b) == IF a >= b THEN a - b ELSE a - b + N

\* (variant) off by one: the last byte of the source is dst
OverlapAfterLast == Minus(call.dst, call.src) >= call.len - 1
\* the destination is not in the source data
DstOutsideSrc == Minus(call.dst, call.src) >= call.len

Test ==
  /\ pc = "test"
  /\ pc' = IF DstOutsideSrc THEN "memcpy" ELSE "backwards"
  /\ UNCHANGED <<call, left, mem, before>>

\* *d = *s, at the same distance from the start of both areas
CopyByte(i) == mem' = [mem EXCEPT ![call.dst + i] = mem[call.src + i]]

\* len-- of memcpy; the pointers of the other loop
Counted == left - 1

\* while (len--) *d++ = *s++
MemcpyByte ==
  /\ pc = "memcpy" /\ left # 0
  /\ CopyByte(call.len - left)
  /\ left' = Counted
  /\ UNCHANGED <<pc, call, before>>

\* while (d != end) *--d = *--s
BackwardsByte ==
  /\ pc = "backwards" /\ left # 0
  /\ CopyByte(left - 1)
  /\ left' = Counted
  /\ UNCHANGED <<pc, call, before>>

Return ==
  /\ pc \in {"memcpy", "backwards"} /\ left = 0
  /\ pc' = "returned"
  /\ UNCHANGED <<call, left, mem, before>>

Next == Test \/ MemcpyByte \/ BackwardsByte \/ Return

Spec == Init /\ [][Next]_vars

-----------------------------------------------------------------------------
\* The bytes of the source that are still to be read: the last ones of a forward
\* copy, the first ones of a backward copy.
Unread(i) == IF pc = "backwards" THEN i < left ELSE i >= call.len - left

\* No byte of the source is overwritten before it has been read, whatever the
\* overlap of the two areas.
SourceIntact ==
  pc \in {"memcpy", "backwards"} =>
    \A i \in 0 .. call.len - 1 :
      Unread(i) => mem[call.src + i] = before[call.src + i]

\* memmove returns with the old bytes of the source at the destination and all
\* other memory as it was.
Moved ==
  pc = "returned" =>
    \A a \in Addr :
      mem[a] = IF call.dst <= a /\ a < call.dst + call.len
               THEN before[a - call.dst + call.src]
               ELSE before[a]
=============================================================================
