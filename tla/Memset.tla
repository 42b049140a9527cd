------------------------------- MODULE Memset -------------------------------
(***************************************************************************)
(* The three versions of memset in rtos/libc: memset.c and the assembly of *)
(* aarch64 and aarch32.  Each writes bytes until the pointer is aligned,   *)
(* then whole blocks, then what is left: byte by byte in C, by the bits of *)
(* the count in assembly.  One action is one round of a loop or one store  *)
(* that a bit decides about.                                               *)
(***************************************************************************)
EXTENDS MemsetCalls

VARIABLES
  phase,  \* "entry", "head", "blocks", "tail", "less_16", "returned"
  params, \* the parameters
  ptr,    \* ptr and ptr64, x3, r12
  count,  \* count, x2, r2: the bits that are done with are gone
  width,  \* of the next store that a bit decides about
  reg,    \* the bytes of fill, x1, r1
  bytes   \* the memory

setVars == <<phase, params, ptr, count, width, reg, bytes>>

\* bytes of a register
Word  == IF params.impl = "aarch32" THEN 4 ELSE 8
\* bytes written in one round of the loop
Block == CASE params.impl = "c" -> 8 [] params.impl = "aarch64" -> 64 [] OTHER -> 32

Widths == {1, 2, 4, 8, 16, 32}
SetTypeOK ==
  /\ phase \in {"entry", "head", "blocks", "tail", "less_16", "returned"}
  /\ params \in Calls
  /\ ptr \in 0 .. Room /\ count \in 0 .. Room
  /\ width \in Widths
  /\ reg \in [0 .. 7 -> Octet]
  /\ bytes \in [Cell -> Octet \cup {Old}]

\* fill = (unsigned char)val in C; in assembly the register is as the caller left it
SetInit ==
  /\ phase = "entry" /\ params \in Calls
  /\ ptr = params.dst /\ count = params.count /\ width = 32
  /\ reg = [i \in 0 .. 7 |-> IF i = 0 THEN params.low
                             ELSE IF params.impl = "c" THEN 0 ELSE params.high]
  /\ bytes = [a \in Cell |-> Old]

\* k bytes at ptr from the register, again and again when k is more than a word
Store(k) ==
  /\ bytes' = [a \in Cell |-> IF ptr <= a /\ a < ptr + k THEN reg[(a - ptr) % Word]
                                                          ELSE bytes[a]]
  /\ ptr' = ptr + k /\ count' = count - k

NoStore == UNCHANGED <<bytes, ptr, count>>

\* count == 0; aarch32 does not ask
Entry ==
  /\ phase = "entry"
  /\ phase' = IF count = 0 /\ params.impl # "aarch32" THEN "returned" ELSE "head"
  /\ UNCHANGED <<params, ptr, count, width, reg, bytes>>

\* (variant) half a word is enough
HalfAligned == ptr % (Word \div 2) = 0
\* (uintptr_t)ptr & 7, tst #7, tst #3
WordAligned == ptr % Word = 0

\* the subs of aarch32 borrows when nothing is left: no store, return
Head ==
  /\ phase = "head" /\ ~ WordAligned
  /\ IF count = 0
     THEN NoStore /\ phase' = "returned"
     ELSE Store(1) /\ phase' = IF count = 1 THEN "returned" ELSE "head"
  /\ UNCHANGED <<params, width, reg>>

\* fill |= fill << 8 * w, bfi: the lower w bytes once more above them
Doubled(r, w) == [i \in 0 .. 7 |-> IF w <= i /\ i < 2 * w THEN r[i - w] ELSE r[i]]

\* (variant) the upper half of the word is forgotten
HalfPropagated == Doubled(Doubled(reg, 1), 2)
\* the value in every byte; aarch64 skips this for a register of zeros
Propagated ==
  IF params.impl = "aarch64" /\ params.low = 0 /\ params.high = 0 THEN reg
  ELSE Doubled(Doubled(Doubled(reg, 1), 2), 4)

Aligned ==
  /\ phase = "head" /\ WordAligned
  /\ reg' = Propagated
  /\ IF params.impl = "aarch32" /\ count < 16
     THEN phase' = "less_16" /\ width' = 8
     ELSE phase' = "blocks" /\ UNCHANGED width
  /\ UNCHANGED params /\ NoStore

\* a round that writes a block; subs ... popeq of aarch32 returns behind the last one
BlockRound ==
  /\ phase = "blocks" /\ count >= Block
  /\ Store(Block)
  /\ phase' = IF params.impl = "aarch32" /\ count = Block THEN "returned" ELSE "blocks"
  /\ UNCHANGED <<params, width, reg>>

\* the low bits of the count are as before the last, borrowing subs
BlocksDone ==
  /\ phase = "blocks" /\ count < Block
  /\ phase' = "tail" /\ width' = Block \div 2
  /\ UNCHANGED <<params, reg>> /\ NoStore

\* while (count-- > 0U)
TailByte ==
  /\ phase = "tail" /\ params.impl = "c"
  /\ IF count > 0 THEN Store(1) /\ UNCHANGED phase
                  ELSE NoStore /\ phase' = "returned"
  /\ UNCHANGED <<params, width, reg>>

\* tbz, or the carry and sign flags behind lsls
Bit == (count \div width) % 2 = 1

\* popeq and bxeq of aarch32: no bit below is set
NothingBelow ==
  /\ params.impl = "aarch32" /\ count % width = 0
  /\ width \in IF phase = "less_16" THEN {8} ELSE {16, 4}

TailBit ==
  /\ phase \in {"tail", "less_16"} /\ params.impl # "c"
  /\ IF Bit THEN Store(width) ELSE NoStore
  /\ IF width = 1 \/ NothingBelow
     THEN phase' = "returned" /\ UNCHANGED width
     ELSE width' = width \div 2 /\ UNCHANGED phase
  /\ UNCHANGED <<params, reg>>

SetNext == Entry \/ Head \/ Aligned \/ BlockRound \/ BlocksDone \/ TailByte \/ TailBit

SetSpec == SetInit /\ [][SetNext]_setVars

-----------------------------------------------------------------------------
Area     == params.dst .. params.dst + params.count - 1
Returned == phase = "returned"

Promise == INSTANCE Fill WITH Addr <- Cell, mem <- bytes, area <- Area,
                              value <- params.low, returned <- Returned

\* Every version, for every alignment and count, does what memset promises: each step
\* writes the value into bytes of the area or nothing, and the return comes when the
\* last of them is written, whatever the other bytes of the register held.
FillsTheArea == [][Promise!Next]_<<params, bytes, Returned>>

\* Every store of more than a byte lies at a multiple of its width, or of the word for
\* the pairs and multiples: with the MMU off, an unaligned access is an abort.
StoresAligned ==
  /\ phase = "blocks" => ptr % Word = 0
  /\ phase \in {"tail", "less_16"} /\ params.impl # "c" /\ Bit =>
       ptr % (IF width < Word THEN width ELSE Word) = 0
=============================================================================
