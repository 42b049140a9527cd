--------------------------- MODULE Assembly_proofs ---------------------------
(* Theorems about the functions of rtos/libc that are written in assembly:         *)
(* memset, with its version in C, and setjmp with longjmp.  They hold for an       *)
(* address space of any size, any calls and bytes of any kind, and for registers   *)
(* of any width and a stack of any size; the widths of words, blocks and stores    *)
(* are those of the code.                                                          *)
EXTENDS Memset, TLAPS

\* behind the last byte of the area
End == params.dst + params.count

\* how far the call has come, in bytes
Place ==
  /\ params.dst <= ptr /\ ptr + count = End
  /\ phase = "returned" => count = 0
  /\ phase \in {"tail", "less_16"} /\ params.impl # "c" => count < 2 * width

\* what the pointer is a multiple of
Grain   == IF phase = "blocks" \/ 2 * width > Word THEN Word ELSE 2 * width
OnGrain == phase = "blocks" \/ (phase \in {"tail", "less_16"} /\ params.impl # "c") => ptr % Grain = 0

\* what the register holds before and after the value is propagated
AsGiven == [i \in 0 .. 7 |-> IF i = 0 THEN params.low
                             ELSE IF params.impl = "c" THEN 0 ELSE params.high]
Full    == \A i \in 0 .. 7 : reg[i] = params.low
Value   == /\ phase \in {"entry", "head"} => reg = AsGiven
           /\ phase \in {"blocks", "tail", "less_16"} => Full

\* the memory at every step
Written == \A a \in Cell : bytes[a] = IF params.dst <= a /\ a < ptr THEN params.low ELSE Old

\* The inductive invariant: that a step writes nothing but the value depends on what the
\* register holds, and that the last one completes the area on the bits of the count.
IInv == SetTypeOK /\ Place /\ OnGrain /\ Value /\ Written

LEMMA CallFacts ==
  ASSUME SetTypeOK
  PROVE  /\ Room \in Nat /\ 0 \in Octet
         /\ params.impl \in Impls /\ params.low \in Octet /\ params.high \in Octet
         /\ params.dst \in 0 .. Room - 1 /\ params.count \in 0 .. Room /\ End <= Room
         /\ ptr \in 0 .. Room /\ count \in 0 .. Room
BY RoomAssumption, CallsAssumption DEF SetTypeOK, End, Cell

LEMMA CallOf ==
  ASSUME NEW c \in Calls
  PROVE  /\ c.impl \in Impls /\ c.low \in Octet /\ c.high \in Octet
         /\ c.dst \in 0 .. Room - 1 /\ c.count \in 0 .. Room /\ c.dst + c.count <= Room
BY CallsAssumption DEF Cell

\* The bit of a width says whether that much is left, when less than twice as much is,
\* and no lower bit is set when what is left is nothing or exactly that.
LEMMA Bits ==
  ASSUME NEW w \in Widths, NEW l \in Nat, l < 2 * w
  PROVE  /\ (l \div w) % 2 = 1 <=> l >= w
         /\ l % w = 0 => l = 0 \/ l = w
<1>1. CASE w = 1   BY <1>1
<1>2. CASE w = 2   BY <1>2
<1>3. CASE w = 4   BY <1>3
<1>4. CASE w = 8   BY <1>4
<1>5. CASE w = 16  BY <1>5
<1>6. CASE w = 32  BY <1>6
<1>7. QED
  BY <1>1, <1>2, <1>3, <1>4, <1>5, <1>6 DEF Widths

\* A store moves on by its width and leaves the value in all the bytes it covers.
LEMMA StoreWrites ==
  ASSUME SetTypeOK, Place, Written, NEW k \in Nat, k <= count, Store(k), params' = params,
         reg[0] = params.low, k = 1 \/ Full
  PROVE  /\ Written'
         /\ ptr' = ptr + k /\ count' = count - k
         /\ ptr' \in 0 .. Room /\ count' \in 0 .. Room
         /\ params.dst <= ptr' /\ ptr' + count' = End
         /\ bytes' \in [Cell -> Octet \cup {Old}]
<1>1. /\ ptr' = ptr + k /\ count' = count - k
      /\ bytes' = [a \in Cell |-> IF ptr <= a /\ a < ptr + k THEN reg[(a - ptr) % Word] ELSE bytes[a]]
  BY DEF Store
<1>2. /\ Room \in Nat /\ ptr \in Nat /\ count \in Nat /\ params.dst \in Nat /\ params.low \in Octet
      /\ params.dst <= ptr /\ ptr + count = End /\ End <= Room
  BY CallFacts DEF Place
<1>3. ASSUME NEW a \in Cell, ptr <= a, a < ptr + k
      PROVE  reg[(a - ptr) % Word] = params.low
  <2>1. CASE k = 1
    <3>1. a - ptr = 0
      BY <1>2, <1>3, <2>1 DEF Cell
    <3>2. (a - ptr) % Word = 0
      BY <3>1 DEF Word
    <3>3. QED
      BY <3>2
  <2>2. CASE Full
    <3>1. (a - ptr) % Word \in 0 .. 7
      BY <1>2, <1>3 DEF Word, Cell
    <3>2. QED
      BY <2>2, <3>1 DEF Full
  <2>3. QED
    BY <2>1, <2>2
<1>4. \A a \in Cell : bytes'[a] = IF params.dst <= a /\ a < ptr + k THEN params.low ELSE Old
  <2>1. SUFFICES ASSUME NEW a \in Cell
                 PROVE  bytes'[a] = IF params.dst <= a /\ a < ptr + k THEN params.low ELSE Old
    OBVIOUS
  <2>2. CASE ptr <= a /\ a < ptr + k
    BY <1>1, <1>2, <1>3, <2>2 DEF Cell
  <2>3. CASE ~ (ptr <= a /\ a < ptr + k)
    BY <1>1, <1>2, <2>3 DEF Written, Cell
  <2>4. QED
    BY <2>2, <2>3
<1>5. Written'
  BY <1>1, <1>4 DEF Written
<1>6. bytes' \in [Cell -> Octet \cup {Old}]
  BY <1>1, <1>2, <1>4
<1>7. QED
  BY <1>1, <1>2, <1>5, <1>6

LEMMA NoStoreWrites ==
  ASSUME SetTypeOK, Place, Written, NoStore, params' = params
  PROVE  /\ Written'
         /\ ptr' = ptr /\ count' = count
         /\ ptr' \in 0 .. Room /\ count' \in 0 .. Room
         /\ params.dst <= ptr' /\ ptr' + count' = End
         /\ bytes' \in [Cell -> Octet \cup {Old}]
BY CallFacts DEF NoStore, Written, Place, SetTypeOK

\* What is left of a step when its store is known: its next place, width and register.
LEMMA Rest ==
  ASSUME SetTypeOK, params' = params,
         Written', ptr' \in 0 .. Room, count' \in 0 .. Room,
         params.dst <= ptr', ptr' + count' = End, bytes' \in [Cell -> Octet \cup {Old}],
         phase' \in {"entry", "head", "blocks", "tail", "less_16", "returned"},
         width' \in Widths, reg' \in [0 .. 7 -> Octet],
         phase' = "returned" => count' = 0,
         phase' \in {"tail", "less_16"} /\ params.impl # "c" => count' < 2 * width',
         OnGrain', Value'
  PROVE  IInv'
<1>1. SetTypeOK'
  BY DEF SetTypeOK
<1>2. Place'
  BY DEF Place, End
<1>3. QED
  BY <1>1, <1>2 DEF IInv

LEMMA InitInv == SetInit => IInv
<1>. SUFFICES ASSUME SetInit PROVE IInv
  OBVIOUS
<1>1. /\ phase = "entry" /\ params \in Calls /\ ptr = params.dst /\ count = params.count
      /\ width = 32 /\ reg = AsGiven /\ bytes = [a \in Cell |-> Old]
  BY DEF SetInit, AsGiven
<1>2. /\ params.low \in Octet /\ params.high \in Octet /\ 0 \in Octet /\ Room \in Nat
      /\ params.dst \in 0 .. Room - 1 /\ params.count \in 0 .. Room
  BY <1>1, CallOf, RoomAssumption
<1>3. reg \in [0 .. 7 -> Octet]
  BY <1>1, <1>2 DEF AsGiven
<1>4. SetTypeOK
  BY <1>1, <1>2, <1>3 DEF SetTypeOK, Widths
<1>5. Place
  BY <1>1, <1>2 DEF Place, End
<1>6. Written
  BY <1>1, <1>2 DEF Written, Cell
<1>7. OnGrain /\ Value
  BY <1>1 DEF OnGrain, Value
<1>8. QED
  BY <1>4, <1>5, <1>6, <1>7 DEF IInv

\* Propagated puts the lowest byte into all of them.
LEMMA PropagatedFull ==
  ASSUME SetTypeOK, reg = AsGiven
  PROVE  /\ Propagated \in [0 .. 7 -> Octet]
         /\ \A i \in 0 .. 7 : Propagated[i] = params.low
<1>0. /\ params.low \in Octet /\ reg \in [0 .. 7 -> Octet] /\ reg[0] = params.low
  BY CallFacts DEF AsGiven, SetTypeOK
<1>1. CASE params.impl = "aarch64" /\ params.low = 0 /\ params.high = 0
  <2>1. Propagated = reg /\ \A i \in 0 .. 7 : reg[i] = params.low
    BY <1>1 DEF Propagated, AsGiven
  <2>2. QED
    BY <1>0, <2>1
<1>2. CASE ~ (params.impl = "aarch64" /\ params.low = 0 /\ params.high = 0)
  <2>. DEFINE a == Doubled(reg, 1)
              b == Doubled(a, 2)
              c == Doubled(b, 4)
  <2>1. Propagated = c
    BY <1>2 DEF Propagated
  <2>2. \A i \in 0 .. 1 : a[i] = params.low
    BY <1>0 DEF Doubled
  <2>. HIDE DEF a
  <2>3. \A i \in 0 .. 3 : b[i] = params.low
    BY <2>2 DEF Doubled
  <2>. HIDE DEF b
  <2>4. \A i \in 0 .. 7 : c[i] = params.low
    BY <2>3 DEF Doubled
  <2>5. c = [i \in 0 .. 7 |-> c[i]]
    BY DEF Doubled
  <2>6. c \in [0 .. 7 -> Octet]
    <3>. HIDE DEF c
    <3>1. QED
      BY <1>0, <2>4, <2>5
  <2>7. QED
    BY <2>1, <2>4, <2>6
<1>3. QED
  BY <1>1, <1>2

LEMMA EntryInv == IInv /\ Entry => IInv'
<1>. SUFFICES ASSUME IInv, Entry PROVE IInv'
  OBVIOUS
<1>1. SetTypeOK /\ Place /\ Value /\ Written
  BY DEF IInv
<1>2. UNCHANGED <<params, ptr, count, width, reg, bytes>> /\ phase = "entry" /\ phase' \in {"returned", "head"}
      /\ (phase' = "returned" => count = 0)
  BY DEF Entry
<1>3. Place'
  BY <1>1, <1>2 DEF Place, End
<1>4. SetTypeOK' /\ Written' /\ Value' /\ OnGrain'
  BY <1>1, <1>2 DEF SetTypeOK, Written, Value, AsGiven, OnGrain
<1>5. QED
  BY <1>3, <1>4 DEF IInv

LEMMA HeadInv == IInv /\ Head => IInv'
<1>. SUFFICES ASSUME IInv, Head PROVE IInv'
  OBVIOUS
<1>1. SetTypeOK /\ Place /\ Value /\ Written
  BY DEF IInv
<1>2. UNCHANGED <<params, width, reg>> /\ phase = "head" /\ phase' \in {"returned", "head"}
  BY DEF Head
<1>3. reg = AsGiven /\ reg[0] = params.low
  BY <1>1, <1>2 DEF Value, AsGiven
<1>4. Value' /\ OnGrain'
  BY <1>2, <1>3 DEF Value, AsGiven, OnGrain
<1>5. width' \in Widths /\ reg' \in [0 .. 7 -> Octet] /\ count \in Nat
  BY <1>1, <1>2, CallFacts DEF SetTypeOK
<1>6. CASE count = 0
  BY <1>1, <1>2, <1>4, <1>5, <1>6, NoStoreWrites, Rest DEF Head
<1>7. CASE count # 0
  <2>1. Store(1) /\ 1 <= count /\ (phase' = "returned" => count = 1)
    BY <1>5, <1>7 DEF Head
  <2>2. count' = count - 1
    BY <2>1 DEF Store
  <2>3. QED
    BY <1>1, <1>2, <1>3, <1>4, <1>5, <2>1, <2>2, StoreWrites, Rest
<1>8. QED
  BY <1>6, <1>7

LEMMA AlignedInv == IInv /\ Aligned => IInv'
<1>. SUFFICES ASSUME IInv, Aligned PROVE IInv'
  OBVIOUS
<1>1. SetTypeOK /\ Place /\ Value /\ Written
  BY DEF IInv
<1>2. params' = params /\ NoStore /\ phase = "head" /\ ptr % Word = 0 /\ reg' = Propagated
  BY DEF Aligned, WordAligned
<1>3. reg' \in [0 .. 7 -> Octet] /\ \A i \in 0 .. 7 : reg'[i] = params.low
  BY <1>1, <1>2, PropagatedFull DEF Value
<1>4. ptr' = ptr /\ count' = count
  BY <1>2 DEF NoStore
<1>5. CASE params.impl = "aarch32" /\ count < 16
  <2>1. phase' = "less_16" /\ width' = 8
    BY <1>5 DEF Aligned
  <2>2. Value'
    BY <1>2, <1>3, <2>1 DEF Value, Full
  <2>3. OnGrain'
    BY <1>2, <1>4, <1>5, <2>1 DEF OnGrain, Grain, Word
  <2>4. width' \in Widths /\ count' < 2 * width'
    BY <1>4, <1>5, <2>1 DEF Widths
  <2>5. QED
    BY <1>1, <1>2, <1>3, <2>1, <2>2, <2>3, <2>4, NoStoreWrites, Rest
<1>6. CASE ~ (params.impl = "aarch32" /\ count < 16)
  <2>1. phase' = "blocks" /\ width' = width
    BY <1>6 DEF Aligned
  <2>2. Value'
    BY <1>2, <1>3, <2>1 DEF Value, Full
  <2>3. OnGrain'
    BY <1>2, <1>4, <2>1 DEF OnGrain, Grain, Word
  <2>4. width' \in Widths
    BY <1>1, <2>1 DEF SetTypeOK
  <2>5. QED
    BY <1>1, <1>2, <1>3, <2>1, <2>2, <2>3, <2>4, NoStoreWrites, Rest
<1>7. QED
  BY <1>5, <1>6

\* a block is a number of whole words
LEMMA BlockWords ==
  ASSUME NEW p \in Nat, p % Word = 0
  PROVE  Block \in Nat /\ Block > 0 /\ (p + Block) % Word = 0
BY DEF Block, Word

LEMMA BlockRoundInv == IInv /\ BlockRound => IInv'
<1>. SUFFICES ASSUME IInv, BlockRound PROVE IInv'
  OBVIOUS
<1>1. SetTypeOK /\ Place /\ Value /\ Written /\ OnGrain
  BY DEF IInv
<1>2. /\ UNCHANGED <<params, width, reg>> /\ phase = "blocks" /\ phase' \in {"returned", "blocks"}
      /\ Store(Block) /\ count >= Block /\ (phase' = "returned" => count = Block)
  BY DEF BlockRound
<1>3. Full /\ reg[0] = params.low
  BY <1>1, <1>2 DEF Value, Full
<1>4. ptr \in Nat /\ count \in Nat /\ ptr % Word = 0
  BY <1>1, <1>2, CallFacts DEF OnGrain, Grain
<1>5. Block \in Nat /\ (ptr + Block) % Word = 0
  BY <1>4, BlockWords
<1>6. ptr' = ptr + Block /\ count' = count - Block
  BY <1>2 DEF Store
<1>7. OnGrain'
  BY <1>2, <1>5, <1>6 DEF OnGrain, Grain, Word
<1>8. Value'
  BY <1>2, <1>3 DEF Value, Full
<1>9. width' \in Widths /\ reg' \in [0 .. 7 -> Octet] /\ (phase' = "returned" => count' = 0)
  BY <1>1, <1>2, <1>4, <1>5, <1>6 DEF SetTypeOK
<1>10. QED
  BY <1>1, <1>2, <1>3, <1>4, <1>5, <1>7, <1>8, <1>9, StoreWrites, Rest

LEMMA BlocksDoneInv == IInv /\ BlocksDone => IInv'
<1>. SUFFICES ASSUME IInv, BlocksDone PROVE IInv'
  OBVIOUS
<1>1. SetTypeOK /\ Place /\ Value /\ Written /\ OnGrain
  BY DEF IInv
<1>2. /\ UNCHANGED <<params, reg>> /\ phase = "blocks" /\ phase' = "tail"
      /\ NoStore /\ count < Block /\ width' = Block \div 2
  BY DEF BlocksDone
<1>3. width' \in Widths /\ 2 * width' = Block
  BY <1>2 DEF Block, Widths
<1>4. ptr' = ptr /\ count' = count /\ ptr % Word = 0
  BY <1>1, <1>2 DEF NoStore, OnGrain, Grain
<1>5. OnGrain'
  BY <1>2, <1>3, <1>4 DEF OnGrain, Grain, Word, Block
<1>6. Value' /\ reg' \in [0 .. 7 -> Octet]
  BY <1>1, <1>2 DEF Value, Full, SetTypeOK
<1>7. count' < 2 * width'
  BY <1>2, <1>3, <1>4
<1>8. QED
  BY <1>1, <1>2, <1>3, <1>5, <1>6, <1>7, NoStoreWrites, Rest

LEMMA TailByteInv == IInv /\ TailByte => IInv'
<1>. SUFFICES ASSUME IInv, TailByte PROVE IInv'
  OBVIOUS
<1>1. SetTypeOK /\ Place /\ Value /\ Written
  BY DEF IInv
<1>2. UNCHANGED <<params, width, reg>> /\ params.impl = "c" /\ phase = "tail" /\ phase' \in {"returned", "tail"}
  BY DEF TailByte
<1>3. Full /\ reg[0] = params.low
  BY <1>1, <1>2 DEF Value, Full
<1>4. Value' /\ OnGrain' /\ width' \in Widths /\ reg' \in [0 .. 7 -> Octet]
  BY <1>1, <1>2, <1>3 DEF Value, Full, OnGrain, SetTypeOK
<1>5. count \in Nat
  BY <1>1, CallFacts
<1>6. CASE count > 0
  <2>1. Store(1) /\ phase' = "tail" /\ 1 <= count
    BY <1>2, <1>5, <1>6 DEF TailByte
  <2>2. QED
    BY <1>1, <1>2, <1>3, <1>4, <2>1, StoreWrites, Rest
<1>7. CASE count = 0
  <2>1. NoStore /\ phase' = "returned"
    BY <1>7 DEF TailByte
  <2>2. QED
    BY <1>1, <1>2, <1>4, <1>7, <2>1, NoStoreWrites, Rest
<1>8. QED
  BY <1>5, <1>6, <1>7

\* half the width, half the grain: a store of the width keeps it
LEMMA Halves ==
  ASSUME NEW w \in Widths, w # 1, NEW p \in Nat, NEW q \in {p, p + w},
         p % (IF 2 * w > Word THEN Word ELSE 2 * w) = 0
  PROVE  /\ w \div 2 \in Widths /\ 2 * (w \div 2) = w
         /\ q % (IF w > Word THEN Word ELSE w) = 0
<1>. DEFINE Goal(u) == /\ w \div 2 \in Widths /\ 2 * (w \div 2) = w
                       /\ q % (IF w > u THEN u ELSE w) = 0
<1>1. ASSUME NEW u \in {4, 8}, p % (IF 2 * w > u THEN u ELSE 2 * w) = 0
      PROVE  Goal(u)
  <2>1. CASE w = 2   BY <1>1, <2>1 DEF Widths
  <2>2. CASE w = 4   BY <1>1, <2>2 DEF Widths
  <2>3. CASE w = 8   BY <1>1, <2>3 DEF Widths
  <2>4. CASE w = 16  BY <1>1, <2>4 DEF Widths
  <2>5. CASE w = 32  BY <1>1, <2>5 DEF Widths
  <2>6. QED
    BY <2>1, <2>2, <2>3, <2>4, <2>5 DEF Widths
<1>. HIDE DEF Goal
<1>2. Word \in {4, 8}
  BY DEF Word
<1>3. Goal(Word)
  BY <1>1, <1>2
<1>4. QED
  BY <1>3 DEF Goal

LEMMA TailBitInv == IInv /\ TailBit => IInv'
<1>. SUFFICES ASSUME IInv, TailBit PROVE IInv'
  OBVIOUS
<1>1. SetTypeOK /\ Place /\ Value /\ Written /\ OnGrain
  BY DEF IInv
<1>2. /\ UNCHANGED <<params, reg>> /\ phase \in {"tail", "less_16"} /\ params.impl # "c"
      /\ IF Bit THEN Store(width) ELSE NoStore
      /\ IF width = 1 \/ NothingBelow
         THEN phase' = "returned" /\ width' = width
         ELSE width' = width \div 2 /\ phase' = phase
  BY DEF TailBit
<1>3. Full /\ reg[0] = params.low
  BY <1>1, <1>2 DEF Value, Full
<1>4. /\ width \in Widths /\ width \in Nat /\ count \in Nat /\ ptr \in Nat /\ count < 2 * width
      /\ ptr % (IF 2 * width > Word THEN Word ELSE 2 * width) = 0
  BY <1>1, <1>2, CallFacts DEF SetTypeOK, Widths, Place, OnGrain, Grain
<1>5. Bit <=> count >= width
  BY <1>4, Bits DEF Bit
<1>6. /\ ptr' = IF Bit THEN ptr + width ELSE ptr
      /\ count' = IF Bit THEN count - width ELSE count
  BY <1>2 DEF Store, NoStore
<1>7. /\ Written'
      /\ ptr' \in 0 .. Room /\ count' \in 0 .. Room
      /\ params.dst <= ptr' /\ ptr' + count' = End
      /\ bytes' \in [Cell -> Octet \cup {Old}]
  <2>1. CASE Bit
    BY <1>1, <1>2, <1>3, <1>4, <1>5, <2>1, StoreWrites
  <2>2. CASE ~ Bit
    BY <1>1, <1>2, <2>2, NoStoreWrites
  <2>3. QED
    BY <2>1, <2>2
<1>8. Value' /\ reg' \in [0 .. 7 -> Octet]
  BY <1>1, <1>2, <1>3 DEF Value, Full, SetTypeOK
<1>9. CASE width = 1 \/ NothingBelow
  <2>1. count = 0 \/ count = width
    <3>1. CASE width = 1
      BY <1>4, <3>1
    <3>2. CASE NothingBelow
      BY <1>4, <3>2, Bits DEF NothingBelow
    <3>3. QED
      BY <1>9, <3>1, <3>2
  <2>2. count' = 0
    <3>1. width > 0
      BY <1>4 DEF Widths
    <3>2. QED
      BY <1>4, <1>5, <1>6, <2>1, <3>1
  <2>3. phase' = "returned" /\ width' \in Widths
    BY <1>2, <1>4, <1>9
  <2>4. OnGrain'
    BY <2>3 DEF OnGrain
  <2>5. QED
    BY <1>1, <1>2, <1>7, <1>8, <2>2, <2>3, <2>4, Rest
<1>10. CASE ~ (width = 1 \/ NothingBelow)
  <2>1. phase' = phase /\ width' = width \div 2 /\ width # 1
    BY <1>2, <1>10
  <2>2. ptr' \in {ptr, ptr + width}
    BY <1>6
  <2>3. /\ width \div 2 \in Widths /\ 2 * (width \div 2) = width
        /\ ptr' % (IF width > Word THEN Word ELSE width) = 0
    BY <1>4, <2>1, <2>2, Halves
  <2>4. OnGrain'
    BY <1>2, <2>1, <2>3 DEF OnGrain, Grain, Word
  <2>5. count' < 2 * width'
    BY <1>4, <1>5, <1>6, <2>1, <2>3
  <2>6. QED
    BY <1>1, <1>2, <1>7, <1>8, <2>1, <2>3, <2>4, <2>5, Rest
<1>11. QED
  BY <1>9, <1>10

LEMMA StepInv == IInv /\ [SetNext]_setVars => IInv'
<1>1. CASE UNCHANGED setVars
  BY <1>1 DEF setVars, IInv, SetTypeOK, Place, End, OnGrain, Grain, Word, Value, AsGiven, Full, Written
<1>2. QED
  BY <1>1, EntryInv, HeadInv, AlignedInv, BlockRoundInv, BlocksDoneInv, TailByteInv, TailBitInv
     DEF SetNext

LEMMA Inductive == SetSpec => []IInv
<1>1. QED
  BY InitInv, StepInv, PTL DEF SetSpec

\* Wherever the area begins and ends, every store of more than a byte is aligned.
THEOREM Alignment == SetSpec => []StoresAligned
<1>1. IInv => StoresAligned
  <2>. SUFFICES ASSUME IInv PROVE StoresAligned
    OBVIOUS
  <2>1. /\ OnGrain /\ ptr \in Nat /\ width \in Widths
    BY CallFacts DEF IInv, SetTypeOK
  <2>2. phase = "blocks" => ptr % Word = 0
    BY <2>1 DEF OnGrain, Grain
  <2>3. ASSUME phase \in {"tail", "less_16"}, params.impl # "c"
        PROVE  ptr % (IF width < Word THEN width ELSE Word) = 0
    <3>1. CASE width = 1
      BY <2>1, <3>1 DEF Word
    <3>2. CASE width # 1
      <4>1. ptr % (IF 2 * width > Word THEN Word ELSE 2 * width) = 0
        BY <2>1, <2>3 DEF OnGrain, Grain
      <4>2. ptr % (IF width > Word THEN Word ELSE width) = 0
        BY <2>1, <3>2, <4>1, Halves
      <4>3. QED
        BY <2>1, <4>2 DEF Word, Widths
    <3>3. QED
      BY <3>1, <3>2
  <2>4. QED
    BY <2>2, <2>3 DEF StoresAligned
<1>2. QED
  BY <1>1, Inductive, PTL

\* Before the return every step stores forward, or nothing.
LEMMA Forward ==
  IInv /\ SetNext => params' = params /\ phase # "returned" /\ ptr' \in Nat /\ ptr <= ptr'
<1>. SUFFICES ASSUME IInv, SetNext PROVE params' = params /\ phase # "returned" /\ ptr' \in Nat /\ ptr <= ptr'
  OBVIOUS
<1>1. ptr \in Nat /\ width \in Nat
  BY CallFacts DEF IInv, SetTypeOK, Widths
<1>2. CASE Entry        BY <1>1, <1>2 DEF Entry
<1>3. CASE Head         BY <1>1, <1>3 DEF Head, Store, NoStore
<1>4. CASE Aligned      BY <1>1, <1>4 DEF Aligned, NoStore
<1>5. CASE BlockRound   BY <1>1, <1>5 DEF BlockRound, Store, Block
<1>6. CASE BlocksDone   BY <1>1, <1>6 DEF BlocksDone, NoStore
<1>7. CASE TailByte     BY <1>1, <1>7 DEF TailByte, Store, NoStore
<1>8. CASE TailBit      BY <1>1, <1>8 DEF TailBit, Store, NoStore
<1>9. QED
  BY <1>2, <1>3, <1>4, <1>5, <1>6, <1>7, <1>8 DEF SetNext

LEMMA StepFills == IInv /\ IInv' /\ [SetNext]_setVars => [Promise!Next]_<<params, bytes, Returned>>
<1>1. CASE UNCHANGED setVars
  BY <1>1 DEF setVars, Returned
<1>2. ASSUME IInv, IInv', SetNext
      PROVE  Promise!Next
  <2>1. params' = params /\ phase # "returned" /\ ptr' \in Nat /\ ptr <= ptr'
    BY <1>2, Forward
  <2>2. /\ params.dst \in Nat /\ params.count \in Nat /\ params.low \in Octet
        /\ ptr \in Nat /\ Room \in Nat
    BY <1>2, CallFacts DEF IInv, End
  <2>3. ptr' <= params.dst + params.count /\ (Returned' => ptr' = params.dst + params.count)
    BY <1>2, <2>1, <2>2 DEF IInv, SetTypeOK, Place, End, Returned
  <2>4. Area' = Area
    BY <2>1 DEF Area
  <2>5. ASSUME NEW a \in Cell
        PROVE  /\ bytes'[a] = bytes[a] \/ (a \in Area /\ bytes'[a] = params.low)
               /\ a \in Area /\ Returned' => bytes'[a] = params.low
    <3>1. bytes[a] = IF params.dst <= a /\ a < ptr THEN params.low ELSE Old
      BY <1>2 DEF IInv, Written
    <3>2. bytes'[a] = IF params.dst <= a /\ a < ptr' THEN params.low ELSE Old
      BY <1>2, <2>1 DEF IInv, Written
    <3>3. a \in Nat
      BY <2>2 DEF Cell
    <3>4. a \in Area <=> params.dst <= a /\ a < params.dst + params.count
      BY <2>2, <3>3 DEF Area
    <3>5. QED
      BY <2>1, <2>2, <2>3, <3>1, <3>2, <3>3, <3>4
  <2>6. Promise!Store
    BY <2>1, <2>4, <2>5 DEF Promise!Store
  <2>7. \A a \in Area : a \in Cell
    BY <1>2, <2>2, CallFacts DEF IInv, Area, Cell, End
  <2>8. CASE Returned'
    <3>1. \A a \in Area : bytes'[a] = params.low
      BY <2>5, <2>7, <2>8
    <3>2. QED
      BY <2>1, <2>6, <2>8, <3>1 DEF Promise!Next, Promise!Return, Returned
  <2>9. CASE ~ Returned'
    BY <2>1, <2>6, <2>9 DEF Promise!Next, Promise!Write, Returned
  <2>10. QED
    BY <2>8, <2>9
<1>3. QED
  BY <1>1, <1>2

\* Each version of memset implements Fill: step by step it writes the value into bytes of
\* the area and nothing else, and it returns when the last of them is written.
THEOREM Implements == SetSpec => FillsTheArea
<1>1. QED
  BY Inductive, StepInv, StepFills, PTL DEF SetSpec, FillsTheArea

-----------------------------------------------------------------------------
(* setjmp and longjmp, which share no state with memset                    *)

CONSTANTS Register, Bottom, Half, Assertions   \* those of Setjmp
VARIABLES at, regs, sp, x0, env, set, then     \* those of Setjmp, at being its pc

J == INSTANCE Setjmp WITH Word <- Register, pc <- at

\* what env holds of the call of setjmp
Hosted == set => /\ env[J!JMP_CTX_SP] = then.sp
                 /\ \A r \in J!Saved : env[J!Offset[r]] = then.regs[r]

\* registers are a function, stack pointers are numbers, and so are those that were saved
Shape == /\ regs \in [J!Saved -> Register] /\ sp \in J!Stack
         /\ then.regs \in [J!Saved -> Register] /\ then.sp \in J!Stack

\* The inductive invariant: ContextRestored says nothing until longjmp has run, and what
\* longjmp does depends on env still hosting what setjmp stored.
Kept == Shape /\ Hosted /\ J!ContextRestored

\* no two registers share a word of env, and none has that of sp
LEMMA OwnWords ==
  /\ J!Saved = {"x19", "x20", "x21", "x22", "x23", "x24", "x25", "x26", "x27", "x28", "x29", "x30"}
  /\ \A r \in J!Saved : J!Offset[r] \in J!Slots /\ J!Offset[r] < J!JMP_CTX_SP
  /\ \A q, r \in J!Saved : J!Offset[q] = J!Offset[r] => q = r
<1>1. J!Saved = {"x19", "x20", "x21", "x22", "x23", "x24", "x25", "x26", "x27", "x28", "x29", "x30"}
  BY DEF J!Saved, J!Offset
<1>2. \A r \in J!Saved : J!Offset[r] \in J!Slots /\ J!Offset[r] < J!JMP_CTX_SP
  BY <1>1 DEF J!Offset, J!Slots, J!JMP_CTX_SP, J!JMP_SIZE
<1>3. \A q, r \in J!Saved : J!Offset[q] = J!Offset[r] => q = r
  BY <1>1, SMTT(60) DEF J!Offset
<1>4. QED
  BY <1>1, <1>2, <1>3

\* setjmp fills env with the registers it finds, each at its own place
LEMMA SetjmpHosts ==
  ASSUME Shape, J!Setjmp
  PROVE  Shape' /\ Hosted'
<1>1. /\ env' = [i \in J!Slots |-> IF i < J!JMP_CTX_SP
                                 THEN regs[CHOOSE r \in J!Saved : J!Offset[r] = i]
                                 ELSE IF i = J!JMP_CTX_SP THEN sp ELSE 0]
      /\ then' = [regs |-> regs, sp |-> sp]
      /\ UNCHANGED <<regs, sp>>
  BY DEF J!Setjmp
<1>2. Shape' /\ then'.regs = regs /\ then'.sp = sp
  BY <1>1 DEF Shape
<1>3. env'[J!JMP_CTX_SP] = sp
  BY <1>1 DEF J!Slots, J!JMP_CTX_SP, J!JMP_SIZE
<1>4. ASSUME NEW r \in J!Saved
      PROVE  env'[J!Offset[r]] = regs[r]
  <2>1. (CHOOSE q \in J!Saved : J!Offset[q] = J!Offset[r]) = r
    BY OwnWords
  <2>2. env'[J!Offset[r]] = regs[CHOOSE q \in J!Saved : J!Offset[q] = J!Offset[r]]
    BY <1>1, OwnWords
  <2>3. QED
    BY <2>1, <2>2
<1>5. QED
  BY <1>2, <1>3, <1>4 DEF Hosted

\* longjmp finds in env what setjmp stored
LEMMA LongjmpRestores ==
  ASSUME Shape, Hosted, NEW val, J!Longjmp(val)
  PROVE  Shape' /\ Hosted' /\ J!ContextRestored'
<1>1. UNCHANGED <<env, set, then>> /\ set
  BY DEF J!Longjmp
<1>2. CASE at' = "assertion"
  BY <1>1, <1>2 DEF J!Longjmp, Shape, Hosted, J!ContextRestored
<1>3. CASE at' # "assertion"
  <2>1. regs' = [r \in J!Saved |-> env[J!Offset[r]]] /\ sp' = env[J!JMP_CTX_SP]
    BY <1>3 DEF J!Longjmp
  <2>2. regs' = [r \in J!Saved |-> then.regs[r]]
    BY <1>1, <2>1 DEF Hosted
  <2>3. regs' = then.regs
    BY <2>2 DEF Shape
  <2>4. sp' = then.sp
    BY <1>1, <2>1 DEF Hosted
  <2>5. QED
    BY <1>1, <2>3, <2>4 DEF Shape, Hosted, J!ContextRestored
<1>4. QED
  BY <1>2, <1>3

LEMMA KeptAtFirst == J!Init => Kept
<1>. SUFFICES ASSUME J!Init PROVE Kept
  OBVIOUS
<1>1. Shape /\ ~ set /\ at = "running"
  BY DEF J!Init, Shape
<1>2. QED
  BY <1>1 DEF Kept, Hosted, J!ContextRestored

LEMMA StepKeeps == Kept /\ [J!Next]_J!vars => Kept'
<1>. SUFFICES ASSUME Kept, [J!Next]_J!vars PROVE Kept'
  OBVIOUS
<1>0. Shape /\ Hosted /\ J!ContextRestored
  BY DEF Kept
<1>1. ASSUME NEW r \in J!Saved, NEW value \in Register, NEW to \in J!Stack, J!Run(r, value, to)
      PROVE  Kept'
  <2>1. UNCHANGED <<env, set, then>> /\ at' = "running"
    BY <1>1 DEF J!Run
  <2>2. regs' \in [J!Saved -> Register]
    BY <1>0, <1>1 DEF J!Run, Shape
  <2>3. sp' \in J!Stack
    BY <1>1 DEF J!Run
  <2>4. QED
    BY <1>0, <2>1, <2>2, <2>3 DEF Kept, Shape, Hosted, J!ContextRestored
<1>2. CASE J!Setjmp
  <2>1. at' = "running"
    BY <1>2 DEF J!Setjmp
  <2>2. QED
    BY <1>0, <1>2, <2>1, SetjmpHosts DEF Kept, J!ContextRestored
<1>3. ASSUME NEW val \in [high : Half, low : Half], J!Longjmp(val)
      PROVE  Kept'
  BY <1>0, <1>3, LongjmpRestores DEF Kept
<1>4. CASE UNCHANGED J!vars
  BY <1>0, <1>4 DEF J!vars, Kept, Shape, Hosted, J!ContextRestored
<1>5. QED
  BY <1>1, <1>2, <1>3, <1>4 DEF J!Next

\* However often a program sets and jumps, and whatever it does to the registers in
\* between, setjmp returns for the second time with the registers and the stack pointer
\* of the first time.
THEOREM Restores == J!Spec => []J!ContextRestored
<1>1. Kept => J!ContextRestored
  BY DEF Kept
<1>2. QED
  BY KeptAtFirst, StepKeeps, <1>1, PTL DEF J!Spec

LEMMA StepShallower ==
  Kept /\ [J!Next]_J!vars => [at' = "returned" /\ Assertions => sp' >= sp]_J!vars
<1>. SUFFICES ASSUME Kept, J!Next, at' = "returned", Assertions PROVE sp' >= sp
  BY DEF J!vars
<1>1. PICK val \in [high : Half, low : Half] : J!Longjmp(val)
  BY DEF J!Next, J!Run, J!Setjmp
<1>2. ~ (env[J!JMP_CTX_SP] < sp) /\ sp' = env[J!JMP_CTX_SP]
  BY <1>1 DEF J!Longjmp
<1>3. sp \in Int /\ env[J!JMP_CTX_SP] \in Int
  <2>1. set
    BY <1>1 DEF J!Longjmp
  <2>2. QED
    BY <2>1 DEF Kept, Shape, Hosted, J!Stack
<1>4. QED
  BY <1>2, <1>3

\* With assertions, longjmp leaves no frame for one below it.
THEOREM Shallower == J!Spec => J!NeverDeeper
<1>1. QED
  BY KeptAtFirst, StepKeeps, StepShallower, PTL DEF J!Spec, J!NeverDeeper
=============================================================================
