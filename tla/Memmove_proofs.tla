--------------------------- MODULE Memmove_proofs ---------------------------
(* Theorems about Memmove, for an address space of any size and bytes of any  *)
(* kind, and about the byte order functions in the same memory, for bytes of  *)
(* any number of values.                                                      *)
EXTENDS Fields, TLAPS

\* the part of the destination that has been written
Copied(a) ==
  IF pc = "backwards"
  THEN call.dst + left <= a /\ a < call.dst + call.len
  ELSE call.dst <= a /\ a < call.dst + call.len - left

\* all the memory, at every step, in terms of the memory before the call
Written ==
  \A a \in Addr :
    mem[a] = IF Copied(a) THEN before[a - call.dst + call.src] ELSE before[a]

\* what is known of the place in the code
Control ==
  /\ left <= call.len
  /\ pc = "test" => left = call.len
  /\ pc = "returned" => left = 0
  /\ pc = "memcpy" => DstOutsideSrc
  /\ pc = "backwards" => ~ DstOutsideSrc

\* The inductive invariant: Moved says nothing before the return, and SourceIntact
\* depends on the direction the test of the pointers has chosen.
IInv == TypeOK /\ Control /\ Written

\* the parameters are numbers, and the areas lie in the address space
LEMMA CallFacts ==
  ASSUME TypeOK
  PROVE  /\ N \in Nat \ {0} /\ left \in 0 .. N - 1
         /\ call.dst \in 0 .. N - 1 /\ call.src \in 0 .. N - 1 /\ call.len \in 0 .. N - 1
         /\ call.dst + call.len <= N /\ call.src + call.len <= N
         /\ mem \in [0 .. N - 1 -> Byte] /\ before \in [0 .. N - 1 -> Byte]
BY SpaceAssumption DEF TypeOK, Areas, Addr

\* a byte of an area is a byte of the address space
LEMMA InsideArea ==
  ASSUME NEW n \in Nat, NEW b \in Nat, NEW l \in Nat, b + l <= n, NEW j \in 0 .. l - 1
  PROVE  b + j \in 0 .. n - 1
OBVIOUS

\* What the wrapping subtraction decides: memcpy runs when the destination begins
\* before the source or behind its end, the other loop when it begins inside.
LEMMA Directions ==
  ASSUME TypeOK
  PROVE  DstOutsideSrc <=> call.dst < call.src \/ call.dst >= call.src + call.len
BY CallFacts DEF DstOutsideSrc, Minus

\* no byte is overwritten before it is read
LEMMA UnreadIntact == IInv => SourceIntact
<1>. SUFFICES ASSUME IInv, pc \in {"memcpy", "backwards"},
                     NEW i \in 0 .. call.len - 1, Unread(i)
              PROVE  mem[call.src + i] = before[call.src + i]
  BY DEF SourceIntact
<1>1. TypeOK /\ Control /\ Written
  BY DEF IInv
<1>2. /\ N \in Nat /\ left \in Nat /\ call.dst \in Nat /\ call.src \in Nat /\ call.len \in Nat
      /\ call.src + call.len <= N /\ left <= call.len
  BY <1>1, CallFacts DEF Control
<1>3. i \in Nat /\ i < call.len /\ call.src + i \in Addr
  BY <1>2 DEF Addr
<1>4. CASE pc = "memcpy"
  <2>1. (call.dst < call.src \/ call.dst >= call.src + call.len) /\ i >= call.len - left
    BY <1>1, <1>4, Directions DEF Control, Unread
  <2>2. ~ Copied(call.src + i)
    BY <1>2, <1>3, <1>4, <2>1 DEF Copied
  <2>. QED  BY <1>1, <1>3, <2>2 DEF Written
<1>5. CASE pc = "backwards"
  <2>1. ~ (call.dst < call.src \/ call.dst >= call.src + call.len) /\ i < left
    BY <1>1, <1>5, Directions DEF Control, Unread
  <2>2. ~ Copied(call.src + i)
    BY <1>2, <1>3, <1>5, <2>1 DEF Copied
  <2>. QED  BY <1>1, <1>3, <2>2 DEF Written
<1>. QED  BY <1>4, <1>5

\* one more byte of the destination is right
LEMMA ByteCopied ==
  ASSUME IInv, NEW i \in 0 .. call.len - 1, pc \in {"memcpy", "backwards"}, Unread(i),
         CopyByte(i)
  PROVE  /\ mem' \in [Addr -> Byte]
         /\ mem'[call.dst + i] = before[call.src + i]
         /\ \A a \in Addr : a # call.dst + i => mem'[a] = mem[a]
<1>1. call.dst + i \in Addr /\ call.src + i \in Addr /\ mem \in [Addr -> Byte]
  <2>1. TypeOK
    BY DEF IInv
  <2>2. /\ N \in Nat /\ call.dst \in Nat /\ call.src \in Nat /\ call.len \in Nat
        /\ call.dst + call.len <= N /\ call.src + call.len <= N
        /\ mem \in [0 .. N - 1 -> Byte]
    BY <2>1, CallFacts
  <2>3. i \in 0 .. call.len - 1
    OBVIOUS
  <2>4. call.dst + i \in 0 .. N - 1 /\ call.src + i \in 0 .. N - 1
    BY <2>2, <2>3, InsideArea, Zenon
  <2>. QED  BY <2>2, <2>4 DEF Addr
<1>2. mem[call.src + i] = before[call.src + i]
  BY UnreadIntact DEF SourceIntact
<1>. QED  BY <1>1, <1>2 DEF CopyByte

(* Any two areas and any content at the call satisfy the invariant.        *)
THEOREM InitIInv == Init => IInv
<1>. SUFFICES ASSUME Init
              PROVE  IInv
  OBVIOUS
<1>1. TypeOK
  BY DEF Init, TypeOK, Areas
<1>2. Control
  BY <1>1, CallFacts DEF Init, Control
<1>3. Written
  BY <1>1, CallFacts DEF Init, Written, Copied, Addr
<1>. QED  BY <1>1, <1>2, <1>3 DEF IInv

\* a round of either loop
LEMMA LoopStep ==
  ASSUME IInv, NEW i \in 0 .. call.len - 1, Unread(i), CopyByte(i),
         \/ pc = "memcpy" /\ i = call.len - left
         \/ pc = "backwards" /\ i = left - 1,
         left > 0, left' = left - 1, UNCHANGED <<pc, call, before>>
  PROVE  IInv'
<1>1. TypeOK /\ Control /\ Written
  BY DEF IInv
<1>2. /\ mem' \in [Addr -> Byte]
      /\ mem'[call.dst + i] = before[call.src + i]
      /\ \A a \in Addr : a # call.dst + i => mem'[a] = mem[a]
  BY ByteCopied
<1>3. /\ left \in Int /\ call.dst \in Int /\ call.src \in Int /\ call.len \in Int
      /\ 0 <= left /\ left <= N - 1 /\ left <= call.len /\ N \in Nat
  BY <1>1, CallFacts DEF Control
<1>4. TypeOK'
  BY <1>1, <1>2, <1>3 DEF TypeOK
<1>5. Control'
  BY <1>1, <1>3 DEF Control, DstOutsideSrc
<1>6. ASSUME NEW a \in Addr
      PROVE  /\ Copied(a)' <=> Copied(a) \/ a = call.dst + i
             /\ a = call.dst + i => a - call.dst + call.src = call.src + i
  <2>1. a \in Int
    BY <1>3 DEF Addr
  <2>. QED  BY <1>3, <2>1 DEF Copied
<1>7. ASSUME NEW a \in Addr
      PROVE  mem'[a] = IF Copied(a)' THEN before[a - call.dst + call.src] ELSE before[a]
  <2>1. CASE a = call.dst + i
    BY <1>2, <1>6, <2>1
  <2>2. CASE a # call.dst + i
    BY <1>1, <1>2, <1>6, <2>2 DEF Written
  <2>. QED  BY <2>1, <2>2
<1>8. Written'
  BY <1>7 DEF Written
<1>. QED  BY <1>4, <1>5, <1>8 DEF IInv

(* Each copied byte keeps the invariant, whichever direction memmove took. *)
LEMMA StepIInv == IInv /\ [Next]_vars => IInv'
<1>. SUFFICES ASSUME IInv, [Next]_vars
              PROVE  IInv'
  OBVIOUS
<1>0. TypeOK /\ Control /\ Written
  BY DEF IInv
<1>1. CASE Test
  <2>1. TypeOK' /\ Control'
    BY <1>0, <1>1 DEF Test, TypeOK, Control, DstOutsideSrc
  <2>2. \A a \in Addr : ~ Copied(a) /\ ~ Copied(a)'
    BY <1>0, <1>1, CallFacts DEF Test, Copied, Addr, Control
  <2>3. Written'
    BY <1>0, <1>1, <2>2 DEF Test, Written
  <2>. QED  BY <2>1, <2>3 DEF IInv
<1>2. CASE MemcpyByte
  <2>1. /\ call.len - left \in 0 .. call.len - 1 /\ Unread(call.len - left)
        /\ pc = "memcpy" /\ CopyByte(call.len - left) /\ left > 0
        /\ left' = left - 1 /\ UNCHANGED <<pc, call, before>>
    BY <1>0, <1>2, CallFacts DEF MemcpyByte, Control, Unread, Counted
  <2>. QED  BY <1>0, <2>1, LoopStep DEF IInv
<1>3. CASE BackwardsByte
  <2>1. /\ left - 1 \in 0 .. call.len - 1 /\ Unread(left - 1)
        /\ pc = "backwards" /\ CopyByte(left - 1) /\ left > 0
        /\ left' = left - 1 /\ UNCHANGED <<pc, call, before>>
    BY <1>0, <1>3, CallFacts DEF BackwardsByte, Control, Unread, Counted
  <2>. QED  BY <1>0, <2>1, LoopStep DEF IInv
<1>4. CASE Return
  <2>1. TypeOK' /\ Control'
    BY <1>0, <1>4 DEF Return, TypeOK, Control, DstOutsideSrc
  <2>2. \A a \in Addr : Copied(a)' <=> Copied(a)
    BY <1>0, <1>4, CallFacts DEF Return, Copied, Addr
  <2>3. Written'
    BY <1>0, <1>4, <2>2 DEF Return, Written
  <2>. QED  BY <2>1, <2>3 DEF IInv
<1>5. CASE UNCHANGED vars
  BY <1>0, <1>5 DEF vars, IInv, TypeOK, Control, DstOutsideSrc, Written, Copied
<1>. QED  BY <1>1, <1>2, <1>3, <1>4, <1>5 DEF Next

\* The memory is described by Written after every step.
THEOREM Invariance == Spec => []IInv
BY InitIInv, StepIInv, PTL DEF Spec

\* The bytes of the source are read before they are overwritten.
THEOREM SourceStaysIntact == Spec => []SourceIntact
BY Invariance, UnreadIntact, PTL

\* what is written at the return is all of the destination
LEMMA InvMoves == IInv => Moved
<1>. SUFFICES ASSUME IInv, pc = "returned", NEW a \in Addr
              PROVE  mem[a] = IF call.dst <= a /\ a < call.dst + call.len
                              THEN before[a - call.dst + call.src]
                              ELSE before[a]
  BY DEF Moved
<1>1. left = 0 /\ TypeOK /\ Written
  BY DEF IInv, Control
<1>2. Copied(a) <=> call.dst <= a /\ a < call.dst + call.len
  BY <1>1, CallFacts DEF Copied, Addr
<1>. QED  BY <1>1, <1>2 DEF Written

\* memmove moves: the result is right for every overlap of the two areas, and no
\* byte outside the destination changes.
THEOREM MemmoveMoves == Spec => []Moved
BY Invariance, InvMoves, PTL

-----------------------------------------------------------------------------
(* Numbers and their bytes.                                                 *)

LEMMA Regroup ==
  ASSUME NEW p \in Int, NEW q \in Int, NEW r \in Int, NEW t \in Int, NEW v \in Int, NEW w \in Int,
         q = w * p + r
  PROVE  v * q + t = (v * w) * p + (v * r + t)
OBVIOUS

LEMMA Quotient ==
  ASSUME NEW x \in Nat, NEW v \in Nat \ {0}
  PROVE  /\ x \div v \in Nat /\ x % v \in 0 .. v - 1
         /\ x = v * (x \div v) + (x % v)
OBVIOUS

LEMMA QuotientIs ==
  ASSUME NEW v \in Nat \ {0}, NEW p \in Nat, NEW l \in 0 .. v - 1
  PROVE  (v * p + l) \div v = p /\ (v * p + l) % v = l
OBVIOUS

\* division by a product
LEMMA DivTwice ==
  ASSUME NEW x \in Nat, NEW v \in Nat \ {0}, NEW w \in Nat \ {0}
  PROVE  x \div (v * w) = (x \div v) \div w
<1>. DEFINE q == x \div v
            t == x % v
            p == q \div w
            r == q % w
<1>1. q \in Nat /\ t \in 0 .. v - 1 /\ x = v * q + t
  BY Quotient
<1>2. p \in Nat /\ r \in 0 .. w - 1 /\ q = w * p + r
  <2>. HIDE DEF q
  <2>. QED  BY <1>1, Quotient
<1>. HIDE DEF p, q, r, t
<1>3. x = (v * w) * p + (v * r + t)
  BY <1>1, <1>2, Regroup
<1>4. v * r + t \in 0 .. v * w - 1
  <2>1. v * r \in Nat /\ v * r <= v * (w - 1)
    BY <1>2
  <2>2. v * (w - 1) = v * w - v
    OBVIOUS
  <2>. QED  BY <1>1, <2>1, <2>2
<1>5. v * w \in Nat \ {0}
  OBVIOUS
<1>6. x \div (v * w) = p
  BY <1>2, <1>3, <1>4, <1>5, QuotientIs
<1>. QED  BY <1>6 DEF p, q

\* division of a product by one of its factors
LEMMA DivFactor ==
  ASSUME NEW x \in Nat, NEW l \in Nat, NEW v \in Nat \ {0}
  PROVE  (v * x + l) \div v = x + (l \div v)
<1>. DEFINE q == l \div v
            t == l % v
<1>1. q \in Nat /\ t \in 0 .. v - 1 /\ l = v * q + t
  BY Quotient
<1>. HIDE DEF q, t
<1>2. v * x + l = v * (x + q) + t
  BY <1>1
<1>. QED
  <2>1. (v * x + l) \div v = x + q
    BY <1>1, <1>2, QuotientIs
  <2>. QED  BY <2>1 DEF q

\* products of the radix
LEMMA Weights ==
  /\ Radix \in Nat \ {0, 1} /\ Weight(0) = 1 /\ Weight(1) = Radix
  /\ \A k \in 0 .. 7 : Weight(k) \in Nat \ {0}
  /\ \A k \in 0 .. 6 : Weight(k + 1) = Weight(k) * Radix
  /\ \A k, j \in 0 .. 7 : k + j <= 7 => Weight(k + j) = Weight(k) * Weight(j)
<1>1. Radix \in Nat \ {0, 1}
  BY RadixAssumption
<1>. DEFINE two == Radix * Radix
            four == two * two
<1>2. /\ Weight(0) = 1 /\ Weight(1) = Radix /\ Weight(2) = two /\ Weight(3) = two * Radix
      /\ Weight(4) = four /\ Weight(5) = four * Radix /\ Weight(6) = four * two
      /\ Weight(7) = four * (two * Radix)
  BY DEF Weight
<1>3. two \in Nat \ {0} /\ four \in Nat \ {0}
  BY <1>1
<1>4. \A k \in 0 .. 7 : Weight(k) \in Nat \ {0}
  <2>1. two * Radix \in Nat \ {0} /\ four * Radix \in Nat \ {0} /\ four * two \in Nat \ {0}
    BY <1>1, <1>3
  <2>2. four * (two * Radix) \in Nat \ {0}
    BY <1>3, <2>1
  <2>. HIDE DEF two, four
  <2>. QED  BY <1>1, <1>2, <1>3, <2>1, <2>2
<1>5. ASSUME NEW k \in 0 .. 7, NEW j \in 0 .. 7, k + j <= 7
      PROVE  Weight(k + j) = Weight(k) * Weight(j)
  BY <1>1, <1>2, <1>3, <1>5
<1>. QED  BY <1>1, <1>2, <1>4, <1>5

LEMMA LowWeights ==
  /\ Radix \in Nat \ {0, 1} /\ Weight(0) = 1 /\ Weight(1) = Radix
  /\ 0 \in Bytes /\ \A a \in Bytes : a \in Nat
BY RadixAssumption DEF Weight, Bytes

LEMMA WeightNat == ASSUME NEW k \in 0 .. 7 PROVE Weight(k) \in Nat \ {0}
BY Weights

LEMMA WeightSum ==
  ASSUME NEW k \in 0 .. 7, NEW j \in 0 .. 7, k + j <= 7
  PROVE  Weight(k + j) = Weight(k) * Weight(j)
BY Weights

\* Shifts go together: right by i and by j, and left by i and right by more or by less.
LEMMA Shifts ==
  ASSUME NEW x \in Nat, NEW i \in 0 .. 7, NEW j \in 0 .. 7, i + j <= 7
  PROVE  /\ Shr(x, i) \in Nat /\ Shl(x, i) \in Nat
         /\ Shr(Shr(x, i), j) = Shr(x, i + j)
         /\ Shr(Shl(x, i), i + j) = Shr(x, j)
         /\ Shr(Shl(x, i + j), i) = Shl(x, j)
         /\ Shl(Shl(x, i), j) = Shl(x, i + j)
<1>. DEFINE v == Weight(i)
            w == Weight(j)
<1>1. v \in Nat \ {0} /\ w \in Nat \ {0} /\ Weight(i + j) = v * w
  BY Weights
<1>. HIDE DEF v, w
<1>2. /\ x * v \in Nat /\ x \div v \in Nat /\ x * v = v * x + 0 /\ 0 \div v = 0
      /\ x * (v * w) = v * (x * w) + 0 /\ (x * v) * w = x * (v * w) /\ x * w \in Nat
  BY <1>1
<1>3. (x * v) \div v = x /\ (x * (v * w)) \div v = x * w
  BY <1>1, <1>2, DivFactor
<1>4. x \div (v * w) = (x \div v) \div w /\ (x * v) \div (v * w) = ((x * v) \div v) \div w
  BY <1>1, <1>2, DivTwice
<1>. QED  BY <1>1, <1>2, <1>3, <1>4 DEF Shr, Shl, v, w

LEMMA RightTwice ==
  ASSUME NEW x \in Nat, NEW i \in 0 .. 7, NEW j \in 0 .. 7, i + j <= 7
  PROVE  Shr(Shr(x, i), j) = Shr(x, i + j)
BY Shifts

\* the lowest byte, and what is above it
LEMMA Peel ==
  ASSUME NEW h \in Nat, NEW l \in Bytes, NEW k \in 0 .. 6
  PROVE  /\ h * Radix + l \in Nat /\ Low(h * Radix + l) = l
         /\ Shr(h * Radix + l, k + 1) = Shr(h, k)
<1>. DEFINE x == h * Radix + l
<1>1. Radix \in Nat \ {0} /\ l \in 0 .. Radix - 1
  BY Weights DEF Bytes
<1>2. x \in Nat /\ x = Radix * h + l
  BY <1>1
<1>3. x % Radix = l /\ x \div Radix = h
  BY <1>1, <1>2, QuotientIs
<1>4. Shr(x, 1) = h
  BY <1>3, Weights DEF Shr
<1>5. Shr(Shr(x, 1), k) = Shr(x, k + 1)
  <2>. HIDE DEF x
  <2>1. Shr(Shr(x, 1), k) = Shr(x, 1 + k)
    <3>1. 1 + k <= 7 /\ k \in 0 .. 7 /\ 1 \in 0 .. 7
      OBVIOUS
    <3>. QED  BY <1>2, <3>1, RightTwice
  <2>. QED  BY <2>1
<1>. QED  BY <1>2, <1>3, <1>4, <1>5 DEF Low

\* the number of four bytes, the highest first
Quad(a, b, c, d) == Shl(a, 3) + Shl(b, 2) + Shl(c, 1) + d

LEMMA QuadBytes ==
  ASSUME NEW a \in Bytes, NEW b \in Bytes, NEW c \in Bytes, NEW d \in Bytes
  PROVE  LET x == Quad(a, b, c, d)
         IN  /\ x \in 0 .. Weight(4) - 1
             /\ Low(x) = d /\ Low(Shr(x, 0)) = d /\ Low(Shr(x, 1)) = c
             /\ Low(Shr(x, 2)) = b /\ Low(Shr(x, 3)) = a /\ Shr(x, 3) = a
<1>. DEFINE R == Radix
            x1 == a * R + b
            x2 == x1 * R + c
            x  == x2 * R + d
<1>1. /\ R \in Nat \ {0, 1} /\ a \in 0 .. R - 1 /\ b \in 0 .. R - 1
      /\ c \in 0 .. R - 1 /\ d \in 0 .. R - 1
  BY Weights DEF Bytes
<1>2. x1 \in Nat /\ x2 \in Nat /\ x \in Nat
  BY <1>1
<1>3. Quad(a, b, c, d) = x
  <2>1. Weight(3) = (R * R) * R /\ Weight(2) = R * R /\ Weight(1) = R
    BY DEF Weight
  <2>. QED  BY <1>1, <2>1 DEF Quad, Shl
<1>4. Weight(4) = ((R * R) * R) * R
  BY <1>1 DEF Weight
<1>5. x1 <= R * R - 1 /\ x2 <= (R * R) * R - 1 /\ x <= ((R * R) * R) * R - 1
  <2>1. \A y, z \in Nat, l \in 0 .. R - 1 : y <= z - 1 => y * R + l <= z * R - 1
    <3>. SUFFICES ASSUME NEW y \in Nat, NEW z \in Nat, NEW l \in 0 .. R - 1, y <= z - 1
                  PROVE  y * R + l <= z * R - 1
      OBVIOUS
    <3>1. y * R <= (z - 1) * R /\ (z - 1) * R = z * R - R
      BY <1>1
    <3>. QED  BY <1>1, <3>1
  <2>2. R * R \in Nat /\ (R * R) * R \in Nat
    BY <1>1
  <2>3. x1 <= R * R - 1
    BY <1>1, <2>1
  <2>4. x2 <= (R * R) * R - 1
    BY <1>1, <1>2, <2>1, <2>2, <2>3
  <2>. QED  BY <1>1, <1>2, <2>1, <2>2, <2>3, <2>4
<1>6. Shr(x, 0) = x /\ Shr(x1, 0) = x1 /\ Shr(x2, 0) = x2 /\ Shr(a, 0) = a
  <2>1. \A y \in Nat : Shr(y, 0) = y
    BY Weights DEF Shr
  <2>. QED  BY <1>1, <1>2, <2>1
<1>7. Low(a) = a
  BY <1>1 DEF Low
<1>8. Low(x1) = b /\ Shr(x1, 1) = a
  BY <1>1, <1>6, Peel
<1>9. Low(x2) = c /\ Shr(x2, 1) = x1 /\ Shr(x2, 2) = a
  <2>. HIDE DEF x1
  <2>1. Shr(x2, 0 + 1) = Shr(x1, 0) /\ Shr(x2, 1 + 1) = Shr(x1, 1) /\ Low(x2) = c
    BY <1>2, Peel
  <2>. QED  BY <1>6, <1>8, <2>1
<1>10. Low(x) = d /\ Shr(x, 1) = x2 /\ Shr(x, 2) = x1 /\ Shr(x, 3) = a
  <2>. HIDE DEF x1, x2
  <2>1. /\ Shr(x, 0 + 1) = Shr(x2, 0) /\ Shr(x, 1 + 1) = Shr(x2, 1)
        /\ Shr(x, 2 + 1) = Shr(x2, 2) /\ Low(x) = d
    BY <1>2, Peel
  <2>. QED  BY <1>6, <1>9, <2>1
<1>. QED
  <2>. HIDE DEF x, x1, x2
  <2>. QED  BY <1>1, <1>2, <1>3, <1>4, <1>5, <1>6, <1>7, <1>8, <1>9, <1>10

\* the halves of eight bytes, and their bytes
LEMMA Halves ==
  ASSUME NEW h \in 0 .. Weight(4) - 1, NEW l \in 0 .. Weight(4) - 1
  PROVE  LET x == Shl(h, 4) + l
         IN  /\ x \in Nat /\ Shr(x, 4) = h /\ x % Weight(4) = l
             /\ \A k \in 0 .. 3 : /\ Shr(x, k + 4) = Shr(h, k)
                                  /\ Low(Shr(x, k)) = Low(Shr(l, k))
<1>. DEFINE x == Shl(h, 4) + l
<1>1. Weight(4) \in Nat \ {0} /\ h \in Nat /\ l \in Nat
  BY Weights
<1>2. x \in Nat /\ x = Weight(4) * h + l
  BY <1>1 DEF Shl
<1>3. x \div Weight(4) = h /\ x % Weight(4) = l
  BY <1>1, <1>2, QuotientIs
<1>4. Shr(x, 4) = h
  BY <1>3 DEF Shr
<1>5. ASSUME NEW k \in 0 .. 3
      PROVE  Shr(x, k + 4) = Shr(h, k)
  <2>. HIDE DEF x
  <2>1. Shr(Shr(x, 4), k) = Shr(x, 4 + k)
    <3>1. 4 + k <= 7 /\ k \in 0 .. 7 /\ 4 \in 0 .. 7
      OBVIOUS
    <3>. QED  BY <1>2, <3>1, RightTwice
  <2>. QED  BY <1>4, <2>1
<1>6. ASSUME NEW k \in 0 .. 3
      PROVE  Low(Shr(x, k)) = Low(Shr(l, k))
  <2>. DEFINE v == Weight(k)
              u == Weight(3 - k)
              y == l \div v
  <2>2. v \in Nat \ {0} /\ u \in Nat \ {0} /\ Weight(4) = v * (u * Radix)
    <3>. DEFINE j == 3 - k
                m == j + 1
    <3>1. j \in 0 .. 6 /\ m \in 0 .. 7 /\ k \in 0 .. 7 /\ k + m = 4
      OBVIOUS
    <3>2. Weight(j + 1) = Weight(j) * Radix
      <4>. HIDE DEF j
      <4>. QED  BY <3>1, Weights
    <3>3. Weight(k + m) = Weight(k) * Weight(m)
      <4>. HIDE DEF m
      <4>. QED  BY <3>1, WeightSum
    <3>4. Weight(k) \in Nat \ {0} /\ Weight(j) \in Nat \ {0}
      <4>. HIDE DEF j
      <4>. QED  BY <3>1, WeightNat
    <3>. QED  BY <3>1, <3>2, <3>3, <3>4
  <2>3. y \in Nat /\ Radix \in Nat \ {0}
    BY <1>1, <2>2, Weights, Quotient
  <2>. HIDE DEF v, u, x
  <2>4. u * Radix \in Nat /\ (u * Radix) * h \in Nat
    BY <1>1, <2>2, <2>3
  <2>5. x = v * ((u * Radix) * h) + l
    <3>. HIDE DEF y
    <3>1. (v * (u * Radix)) * h = v * ((u * Radix) * h)
      BY <1>1, <2>2, <2>3
    <3>. QED  BY <1>2, <2>2, <3>1
  <2>6. x \div v = (u * Radix) * h + y
    <3>. DEFINE z == (u * Radix) * h
    <3>1. z \in Nat /\ l \in Nat /\ v \in Nat \ {0} /\ x = v * z + l
      BY <1>1, <2>2, <2>4, <2>5
    <3>. HIDE DEF z
    <3>2. (v * z + l) \div v = z + (l \div v)
      BY <3>1, DivFactor
    <3>. QED  BY <3>1, <3>2 DEF z
  <2>. HIDE DEF y
  <2>7. ((u * Radix) * h + y) % Radix = y % Radix
    <3>1. y \div Radix \in Nat /\ y % Radix \in 0 .. Radix - 1
          /\ y = Radix * (y \div Radix) + (y % Radix)
      BY <2>3, Quotient
    <3>2. (u * Radix) * h + y = Radix * (u * h + (y \div Radix)) + (y % Radix)
      <4>1. \A q, r \in Nat : y = Radix * q + r =>
              (u * Radix) * h + y = Radix * (u * h + q) + r
        BY <1>1, <2>2, <2>3
      <4>. QED  BY <3>1, <4>1
    <3>3. u * h + (y \div Radix) \in Nat
      BY <1>1, <2>2, <3>1
    <3>. QED  BY <2>3, <3>1, <3>2, <3>3, QuotientIs
  <2>. QED  BY <2>6, <2>7 DEF Low, Shr, v, y
<1>. QED  BY <1>2, <1>3, <1>4, <1>5, <1>6

-----------------------------------------------------------------------------
(* A field of the memory and its bytes.                                     *)

\* the bytes of a field that lies in the memory
LEMMA FieldBytes ==
  ASSUME TypeOK, NEW k \in 0 .. call.len - 1
  PROVE  /\ call.src + k \in Addr /\ call.dst + k \in Addr
         /\ before[call.src + k] \in Bytes
<1>1. /\ N \in Nat /\ call.dst \in Nat /\ call.src \in Nat /\ call.len \in Nat
      /\ call.dst + call.len <= N /\ call.src + call.len <= N
      /\ before \in [0 .. N - 1 -> Byte]
  BY CallFacts
<1>2. call.src + k \in 0 .. N - 1 /\ call.dst + k \in 0 .. N - 1
  BY <1>1, InsideArea
<1>. QED  BY <1>1, <1>2, ByteAssumption DEF Addr

\* what memmove has done, byte by byte of the field
LEMMA FieldMoved ==
  ASSUME IInv, Moved, pc = "returned"
  PROVE  /\ mem \in [Addr -> Bytes] /\ before \in [Addr -> Bytes]
         /\ \A k \in 0 .. call.len - 1 : mem[call.dst + k] = before[call.src + k]
         /\ \A a \in Addr :
              (\A k \in 0 .. call.len - 1 : a # call.dst + k) => mem[a] = before[a]
<1>1. /\ TypeOK /\ N \in Nat /\ call.dst \in Nat /\ call.src \in Nat /\ call.len \in Nat
      /\ call.dst + call.len <= N /\ call.src + call.len <= N
  BY CallFacts DEF IInv
<1>2. mem \in [Addr -> Bytes] /\ before \in [Addr -> Bytes]
  BY <1>1, ByteAssumption DEF TypeOK
<1>3. ASSUME NEW k \in 0 .. call.len - 1
      PROVE  mem[call.dst + k] = before[call.src + k]
  <2>1. call.dst + k \in Addr /\ (call.dst + k) - call.dst + call.src = call.src + k
    BY <1>1, FieldBytes
  <2>2. call.dst <= call.dst + k /\ call.dst + k < call.dst + call.len
    BY <1>1
  <2>. QED  BY <2>1, <2>2 DEF Moved
<1>4. ASSUME NEW a \in Addr, \A k \in 0 .. call.len - 1 : a # call.dst + k
      PROVE  mem[a] = before[a]
  <2>1. ~ (call.dst <= a /\ a < call.dst + call.len)
    <3>. SUFFICES ASSUME call.dst <= a, a < call.dst + call.len
                  PROVE  FALSE
      OBVIOUS
    <3>1. a - call.dst \in 0 .. call.len - 1 /\ a = call.dst + (a - call.dst)
      BY <1>1 DEF Addr
    <3>. QED  BY <1>4, <3>1
  <2>. QED  BY <2>1 DEF Moved
<1>. QED  BY <1>2, <1>3, <1>4

\* two bytes, and four bytes, are written at p
Put2(f, p, a, b)       == [f EXCEPT ![p] = a, ![p + 1] = b]
Put4(f, p, a, b, c, d) == [f EXCEPT ![p] = a, ![p + 1] = b, ![p + 2] = c, ![p + 3] = d]

\* the number of two bytes, the highest first
Pair(a, b) == Shl(a, 1) + b

LEMMA EncTwo ==
  ASSUME NEW m, NEW p, NEW a \in Bytes, NEW b \in Bytes
  PROVE  /\ be16enc(m, p, Pair(a, b)) = Put2(m, p, a, b)
         /\ le16enc(m, p, Pair(a, b)) = Put2(m, p, b, a)
<1>. DEFINE x == Pair(a, b)
<1>1. x = Quad(0, 0, a, b) /\ 0 \in Bytes
  BY Weights DEF Pair, Quad, Shl, Bytes
<1>2. Low(x) = b /\ Low(Shr(x, 1)) = a
  <2>. HIDE DEF x
  <2>. QED  BY <1>1, QuadBytes
<1>. HIDE DEF x
<1>3. be16enc(m, p, x) = Put2(m, p, a, b) /\ le16enc(m, p, x) = Put2(m, p, b, a)
  BY <1>2, Zenon DEF be16enc, le16enc, Put2
<1>. QED  BY <1>3 DEF x

LEMMA EncFour ==
  ASSUME NEW m, NEW p, NEW a \in Bytes, NEW b \in Bytes, NEW c \in Bytes, NEW d \in Bytes
  PROVE  /\ be32enc(m, p, Quad(a, b, c, d)) = Put4(m, p, a, b, c, d)
         /\ le32enc(m, p, Quad(a, b, c, d)) = Put4(m, p, d, c, b, a)
<1>. DEFINE x == Quad(a, b, c, d)
<1>1. Low(x) = d /\ Low(Shr(x, 1)) = c /\ Low(Shr(x, 2)) = b /\ Low(Shr(x, 3)) = a
  BY QuadBytes
<1>. HIDE DEF x
<1>2. /\ be32enc(m, p, x) = Put4(m, p, a, b, c, d)
      /\ le32enc(m, p, x) = Put4(m, p, d, c, b, a)
  BY <1>1, Zenon DEF be32enc, le32enc, Put4
<1>. QED  BY <1>2 DEF x

\* A memory that differs from another one in two or four bytes only is that one with
\* these bytes written.
LEMMA SameWrites ==
  ASSUME NEW k \in {2, 4}, NEW f \in [Addr -> Bytes], NEW g \in [Addr -> Bytes], NEW p \in Nat,
         \A i \in 0 .. k - 1 : p + i \in Addr,
         \A a \in Addr : (\A i \in 0 .. k - 1 : a # p + i) => g[a] = f[a]
  PROVE  /\ k = 2 => g = Put2(f, p, g[p], g[p + 1])
         /\ k = 4 => g = Put4(f, p, g[p], g[p + 1], g[p + 2], g[p + 3])
<1>1. CASE k = 2
  <2>. DEFINE h == Put2(f, p, g[p], g[p + 1])
  <2>1. p \in Addr /\ p + 1 \in Addr
    BY <1>1
  <2>2. ASSUME NEW a \in Addr PROVE h[a] = g[a]
    <3>1. CASE a = p \/ a = p + 1
      BY <2>1, <3>1 DEF Put2
    <3>2. CASE ~ (a = p \/ a = p + 1)
      <4>1. \A i \in 0 .. 1 : a # p + i
        BY <3>2
      <4>. QED  BY <1>1, <3>2, <4>1 DEF Put2
    <3>. QED  BY <3>1, <3>2
  <2>3. h \in [Addr -> Bytes]
    BY <2>1 DEF Put2
  <2>. QED  BY <1>1, <2>2, <2>3
<1>2. CASE k = 4
  <2>. DEFINE h == Put4(f, p, g[p], g[p + 1], g[p + 2], g[p + 3])
  <2>1. p \in Addr /\ p + 1 \in Addr /\ p + 2 \in Addr /\ p + 3 \in Addr
    BY <1>2
  <2>2. ASSUME NEW a \in Addr PROVE h[a] = g[a]
    <3>1. CASE a \in {p, p + 1, p + 2, p + 3}
      BY <2>1, <3>1 DEF Put4
    <3>2. CASE a \notin {p, p + 1, p + 2, p + 3}
      <4>1. \A i \in 0 .. 3 : a # p + i
        BY <3>2
      <4>. QED  BY <1>2, <3>2, <4>1 DEF Put4
    <3>. QED  BY <3>1, <3>2
  <2>3. h \in [Addr -> Bytes]
    BY <2>1 DEF Put4
  <2>. QED  BY <1>2, <2>2, <2>3
<1>. QED  BY <1>1, <1>2

\* the numbers of four bytes that the two orders read
LEMMA Reads ==
  ASSUME NEW m, NEW p
  PROVE  /\ be32dec(m, p) = Quad(m[p], m[p + 1], m[p + 2], m[p + 3])
         /\ le32dec(m, p) = Quad(m[p + 3], m[p + 2], m[p + 1], m[p])
BY DEF be32dec, le32dec, Quad

\* What was decoded in one byte order and encoded in the same one at another place is
\* what memmove brings there.
LEMMA CodecsAgree == IInv /\ Moved => CodecsMoveFields
<1>. SUFFICES ASSUME IInv, Moved, pc = "returned"
              PROVE  CodecsMoveFields
  BY DEF CodecsMoveFields, Is
<1>. DEFINE m == before
            s == call.src
            d == call.dst
            b(i) == before[call.src + i]
<1>1. /\ TypeOK /\ s \in Nat /\ d \in Nat
      /\ mem \in [Addr -> Bytes] /\ m \in [Addr -> Bytes]
      /\ \A k \in 0 .. call.len - 1 : /\ d + k \in Addr /\ mem[d + k] = b(k)
                                      /\ b(k) \in Bytes
      /\ \A a \in Addr : (\A k \in 0 .. call.len - 1 : a # d + k) => mem[a] = m[a]
  BY FieldMoved, FieldBytes, CallFacts DEF IInv
<1>2. m[s] = b(0) /\ mem[d] = mem[d + 0]
  BY <1>1
<1>3. CASE call.len = 2
  <2>1. mem[d] = b(0) /\ mem[d + 1] = b(1) /\ b(0) \in Bytes /\ b(1) \in Bytes
    BY <1>1, <1>2, <1>3
  <2>2. mem = Put2(m, d, mem[d], mem[d + 1])
    BY <1>1, <1>3, SameWrites
  <2>3. be16dec(m, s) = Pair(b(0), b(1)) /\ le16dec(m, s) = Pair(b(1), b(0))
    BY <1>2 DEF be16dec, le16dec, Pair
  <2>4. be16enc(m, d, be16dec(m, s)) = mem /\ le16enc(m, d, le16dec(m, s)) = mem
    <3>. HIDE DEF b, m, s, d
    <3>. QED  BY <2>1, <2>2, <2>3, EncTwo
  <2>. QED  BY <1>3, <2>4 DEF CodecsMoveFields, Is
<1>4. CASE call.len = 4
  <2>1. /\ mem[d] = b(0) /\ mem[d + 1] = b(1) /\ mem[d + 2] = b(2) /\ mem[d + 3] = b(3)
        /\ b(0) \in Bytes /\ b(1) \in Bytes /\ b(2) \in Bytes /\ b(3) \in Bytes
    BY <1>1, <1>2, <1>4
  <2>2. mem = Put4(m, d, mem[d], mem[d + 1], mem[d + 2], mem[d + 3])
    BY <1>1, <1>4, SameWrites
  <2>3. /\ be32dec(m, s) = Quad(b(0), b(1), b(2), b(3))
        /\ le32dec(m, s) = Quad(b(3), b(2), b(1), b(0))
    BY <1>2, Reads
  <2>4. be32enc(m, d, be32dec(m, s)) = mem /\ le32enc(m, d, le32dec(m, s)) = mem
    <3>. HIDE DEF b, m, s, d
    <3>. QED  BY <2>1, <2>2, <2>3, EncFour
  <2>. QED  BY <1>4, <2>4 DEF CodecsMoveFields, Is
<1>5. CASE call.len = 8
  <2>. DEFINE g == [a \in Addr |-> IF a \in {d, d + 1, d + 2, d + 3} THEN mem[a] ELSE m[a]]
  <2>1. /\ mem[d] = b(0) /\ mem[d + 1] = b(1) /\ mem[d + 2] = b(2) /\ mem[d + 3] = b(3)
        /\ mem[d + 4] = b(4) /\ mem[d + 5] = b(5) /\ mem[d + 6] = b(6) /\ mem[d + 7] = b(7)
        /\ \A i \in 0 .. 7 : b(i) \in Bytes /\ d + i \in Addr
    BY <1>1, <1>2, <1>5
  <2>2. /\ g \in [Addr -> Bytes]
        /\ g[d] = b(0) /\ g[d + 1] = b(1) /\ g[d + 2] = b(2) /\ g[d + 3] = b(3)
    <3>1. d \in Addr /\ d + 1 \in Addr /\ d + 2 \in Addr /\ d + 3 \in Addr
      BY <1>1, <2>1
    <3>. QED  BY <1>1, <2>1, <3>1
  <2>3. g = Put4(m, d, g[d], g[d + 1], g[d + 2], g[d + 3])
    <3>1. \A i \in 0 .. 4 - 1 : d + i \in Addr
      BY <2>1
    <3>2. \A a \in Addr : (\A i \in 0 .. 4 - 1 : a # d + i) => g[a] = m[a]
      <4>. SUFFICES ASSUME NEW a \in Addr, \A i \in 0 .. 3 : a # d + i
                    PROVE  g[a] = m[a]
        OBVIOUS
      <4>1. a # d /\ a # d + 1 /\ a # d + 2 /\ a # d + 3
        BY <1>1
      <4>. QED  BY <4>1
    <3>. HIDE DEF g, m
    <3>. QED  BY <1>1, <2>2, <3>1, <3>2, SameWrites
  <2>. DEFINE e == d + 4
  <2>4. /\ e \in Nat /\ e + 1 = d + 5 /\ e + 2 = d + 6 /\ e + 3 = d + 7
        /\ \A i \in 0 .. 4 - 1 : e + i \in Addr
    <3>1. \A i \in 0 .. 3 : e + i = d + (4 + i) /\ 4 + i \in 0 .. 7
      BY <1>1
    <3>. QED  BY <1>1, <2>1, <3>1
  <2>5. \A a \in Addr : (\A i \in 0 .. 4 - 1 : a # e + i) => mem[a] = g[a]
    <3>. SUFFICES ASSUME NEW a \in Addr, \A i \in 0 .. 3 : a # e + i,
                         a \notin {d, d + 1, d + 2, d + 3}
                  PROVE  mem[a] = m[a]
      OBVIOUS
    <3>1. \A k \in 0 .. 7 : a # d + k
      <4>1. a # d + 4 /\ a # d + 5 /\ a # d + 6 /\ a # d + 7
        BY <1>1
      <4>. QED  BY <1>1, <4>1
    <3>. QED  BY <1>1, <1>5, <3>1
  <2>6. mem = Put4(g, e, mem[e], mem[e + 1], mem[e + 2], mem[e + 3])
    <3>. HIDE DEF g, e
    <3>. QED  BY <1>1, <2>2, <2>4, <2>5, SameWrites
  <2>. DEFINE f == s + 4
  <2>7. f \in Nat /\ f + 1 = s + 5 /\ f + 2 = s + 6 /\ f + 3 = s + 7
    BY <1>1
  <2>8. /\ be32dec(m, s) = Quad(b(0), b(1), b(2), b(3))
        /\ le32dec(m, s) = Quad(b(3), b(2), b(1), b(0))
        /\ be32dec(m, f) = Quad(b(4), b(5), b(6), b(7))
        /\ le32dec(m, f) = Quad(b(7), b(6), b(5), b(4))
    BY <1>2, <2>7, Reads
  <2>. HIDE DEF g, e, f, b, m
  <2>9. /\ be32dec(m, s) \in 0 .. Weight(4) - 1 /\ le32dec(m, s) \in 0 .. Weight(4) - 1
        /\ be32dec(m, f) \in 0 .. Weight(4) - 1 /\ le32dec(m, f) \in 0 .. Weight(4) - 1
    BY <2>1, <2>8, QuadBytes
  <2>10. /\ Shr(be64dec(m, s), 4) = be32dec(m, s) /\ be64dec(m, s) % Weight(4) = be32dec(m, f)
         /\ Shr(le64dec(m, s), 4) = le32dec(m, f) /\ le64dec(m, s) % Weight(4) = le32dec(m, s)
    BY <2>9, Halves DEF be64dec, le64dec, f
  <2>11. be32enc(m, d, be32dec(m, s)) = g /\ le32enc(m, d, le32dec(m, s)) = g
    <3>1. b(0) \in Bytes /\ b(1) \in Bytes /\ b(2) \in Bytes /\ b(3) \in Bytes
      BY <2>1
    <3>. HIDE DEF s, d
    <3>. QED  BY <2>2, <2>3, <2>8, <3>1, EncFour
  <2>12. be32enc(g, e, be32dec(m, f)) = mem /\ le32enc(g, e, le32dec(m, f)) = mem
    <3>1. mem[e] = b(4) /\ mem[e + 1] = b(5) /\ mem[e + 2] = b(6) /\ mem[e + 3] = b(7)
      BY <2>1, <2>4 DEF e
    <3>2. b(4) \in Bytes /\ b(5) \in Bytes /\ b(6) \in Bytes /\ b(7) \in Bytes
      BY <2>1
    <3>. HIDE DEF s, d
    <3>. QED  BY <2>6, <2>8, <3>1, <3>2, EncFour
  <2>13. mem = be64enc(m, d, be64dec(m, s)) /\ mem = le64enc(m, d, le64dec(m, s))
    BY <2>10, <2>11, <2>12 DEF be64enc, le64enc, e
  <2>. QED  BY <1>5, <2>13 DEF CodecsMoveFields, Is, m
<1>. QED  BY <1>3, <1>4, <1>5 DEF CodecsMoveFields, Is

-----------------------------------------------------------------------------
(* Swapping the bytes of a register.                                        *)

\* a byte that is masked where it is and shifted to another place
LEMMA Unmasked ==
  ASSUME NEW y \in Nat
  PROVE  /\ Shr(y, 0) = y /\ Shl(y, 0) = y
         /\ Shr(Shl(y, 1), 1) = y /\ Shr(Shl(y, 3), 3) = y
         /\ Shr(Shl(y, 2), 1) = Shl(y, 1) /\ Shl(Shl(y, 1), 1) = Shl(y, 2)
<1>1. Shr(y, 0) = y /\ Shl(y, 0) = y
  BY LowWeights DEF Shr, Shl
<1>2. Shr(Shl(y, 1), 1 + 0) = Shr(y, 0) /\ Shr(Shl(y, 3), 3 + 0) = Shr(y, 0)
  BY Shifts
<1>3. Shr(Shl(y, 1 + 1), 1) = Shl(y, 1) /\ Shl(Shl(y, 1), 1) = Shl(y, 1 + 1)
  BY Shifts
<1>. QED  BY <1>1, <1>2, <1>3

\* two bytes
LEMMA SwapTwo ==
  ASSUME NEW a \in Bytes, NEW b \in Bytes
  PROVE  LET x == Pair(a, b)
         IN  rev16(x) = Pair(b, a) /\ bswap16_constant(x) = Pair(b, a)
             /\ bswap16_var(x) = Pair(b, a)
<1>. DEFINE x == Pair(a, b)
<1>1. 0 \in Bytes /\ a \in Nat /\ b \in Nat /\ x \in Nat
  BY LowWeights DEF Pair, Shl
<1>2. x = Quad(0, 0, a, b)
  BY <1>1, Weights DEF Pair, Quad, Shl
<1>. HIDE DEF x
<1>3. /\ Low(x) = b /\ Low(Shr(x, 0)) = b /\ Low(Shr(x, 1)) = a
      /\ Low(Shr(x, 2)) = 0 /\ Low(Shr(x, 3)) = 0
  BY <1>1, <1>2, QuadBytes
<1>4. rev16(x) = Pair(b, a)
  BY <1>3 DEF rev16, Pair
<1>5. bswap16_constant(x) = Pair(b, a)
  <2>1. Mask(x, 1) = Shl(a, 1) /\ Mask(x, 0) = b
    BY <1>1, <1>3, Unmasked DEF Mask
  <2>2. Shl(b, 1) \in Nat
    BY <1>1, Shifts
  <2>. QED  BY <1>1, <2>1, <2>2, Unmasked DEF bswap16_constant, Pair
<1>6. bswap16_var(x) = Pair(b, a)
  <2>1. x % Weight(2) = x
    <3>1. Weight(2) = Radix * Radix /\ Weight(1) = Radix /\ Radix \in Nat \ {0, 1}
      BY LowWeights DEF Weight
    <3>2. a * Radix <= (Radix - 1) * Radix /\ (Radix - 1) * Radix = Radix * Radix - Radix
      BY <3>1 DEF Bytes
    <3>3. x \in 0 .. Radix * Radix - 1
      BY <1>1, <3>1, <3>2 DEF x, Pair, Shl, Bytes
    <3>. QED  BY <1>1, <3>1, <3>3
  <2>. DEFINE g == Register(x)
              r == Ror(g, 1)
              l == Lsr(r, 2)
  <2>2. g = [i \in 0 .. 3 |-> CASE i = 0 -> b [] i = 1 -> a [] i = 2 -> 0 [] i = 3 -> 0]
    BY <1>3 DEF Register
  <2>3. r[0] = a /\ r[1] = 0 /\ r[2] = 0 /\ r[3] = b
    <3>. HIDE DEF g
    <3>. QED  BY <2>2 DEF Ror
  <2>4. l[0] = 0 /\ l[1] = b
    <3>. HIDE DEF r
    <3>. QED  BY <2>3 DEF Lsr
  <2>5. bswap16_var(x) = Shl(r[1] + l[1], 1) + r[0] + l[0]
    BY <2>1 DEF bswap16_var
  <2>6. Shl(b, 1) \in Nat
    BY <1>1, Shifts
  <2>. HIDE DEF r, l
  <2>. QED  BY <1>1, <2>3, <2>4, <2>5, <2>6 DEF Pair
<1>. QED  BY <1>4, <1>5, <1>6 DEF x

\* four bytes
LEMMA SwapFour ==
  ASSUME NEW a \in Bytes, NEW b \in Bytes, NEW c \in Bytes, NEW d \in Bytes
  PROVE  LET x == Quad(a, b, c, d)
         IN  rev32(x) = Quad(d, c, b, a) /\ bswap32_constant(x) = Quad(d, c, b, a)
             /\ bswap32_var(x) = Quad(d, c, b, a)
<1>. DEFINE x == Quad(a, b, c, d)
<1>1. /\ a \in Nat /\ b \in Nat /\ c \in Nat /\ d \in Nat /\ 0 \in Bytes
      /\ Low(x) = d /\ Low(Shr(x, 0)) = d /\ Low(Shr(x, 1)) = c
      /\ Low(Shr(x, 2)) = b /\ Low(Shr(x, 3)) = a
  BY QuadBytes, LowWeights
<1>. HIDE DEF x
<1>2. rev32(x) = Quad(d, c, b, a)
  BY <1>1 DEF rev32, Quad
<1>3. bswap32_constant(x) = Quad(d, c, b, a)
  <2>1. /\ Mask(x, 3) = Shl(a, 3) /\ Mask(x, 2) = Shl(b, 2) /\ Mask(x, 1) = Shl(c, 1)
        /\ Mask(x, 0) = d
    BY <1>1, Unmasked DEF Mask
  <2>2. /\ Shr(Mask(x, 3), 3) = a /\ Shr(Mask(x, 2), 1) = Shl(b, 1)
        /\ Shl(Mask(x, 1), 1) = Shl(c, 2)
    BY <1>1, <2>1, Unmasked
  <2>3. Shl(b, 1) \in Nat /\ Shl(c, 2) \in Nat /\ Shl(d, 3) \in Nat
    BY <1>1, Shifts
  <2>. QED  BY <1>1, <2>1, <2>2, <2>3 DEF bswap32_constant, Quad
<1>4. bswap32_var(x) = Quad(d, c, b, a)
  <2>. DEFINE r == Register(x)
              o == Ror(r, 2)
              e == Eor(r, o)
              t == [e EXCEPT ![2] = 0]
              q == Ror(r, 1)
              z == Lsr(t, 1)
              w == Eor(q, z)
  <2>1. r[0] = d /\ r[1] = c /\ r[2] = b /\ r[3] = a
    BY <1>1 DEF Register
  <2>2. o[0] = b /\ o[1] = a /\ o[2] = d /\ o[3] = c
        /\ q[0] = c /\ q[1] = b /\ q[2] = a /\ q[3] = d
    <3>. HIDE DEF r
    <3>. QED  BY <2>1 DEF Ror
  <2>3. t[1] = Xor(c, a) /\ t[2] = 0 /\ t[3] = Xor(a, c)
    <3>. HIDE DEF r, o
    <3>. QED  BY <2>1, <2>2 DEF Eor
  <2>4. z[0] = Xor(c, a) /\ z[1] = 0 /\ z[2] = Xor(a, c) /\ z[3] = 0
    <3>. HIDE DEF t
    <3>. QED  BY <2>3 DEF Lsr
  <2>5. /\ w[0] = Xor(c, Xor(c, a)) /\ w[1] = Xor(b, 0) /\ w[2] = Xor(a, Xor(a, c))
        /\ w[3] = Xor(d, 0)
    <3>. HIDE DEF q, z
    <3>. QED  BY <2>2, <2>4 DEF Eor
  <2>6. \A y, u \in Bytes : Xor(y, Xor(y, u)) = u /\ Xor(y, 0) = y
    <3>. SUFFICES ASSUME NEW y \in Bytes, NEW u \in Bytes
                  PROVE  Xor(y, Xor(y, u)) = u /\ Xor(y, 0) = y
      OBVIOUS
    <3>1. Xor(y, u) = Xor(u, y) /\ Xor(u, y) \in Bytes /\ Xor(Xor(u, y), y) = u
      BY XorAssumption
    <3>2. Xor(y, Xor(u, y)) = Xor(Xor(u, y), y) /\ Xor(y, 0) = y
      BY <3>1, XorAssumption
    <3>. QED  BY <3>1, <3>2
  <2>7. w[0] = a /\ w[1] = b /\ w[2] = c /\ w[3] = d
    <3>. HIDE DEF w
    <3>. QED  BY <2>5, <2>6
  <2>8. bswap32_var(x) = Number(w)
    BY DEF bswap32_var
  <2>. HIDE DEF w
  <2>. QED  BY <2>7, <2>8 DEF Number, Quad
<1>. QED  BY <1>2, <1>3, <1>4 DEF x

\* the number of eight bytes, the highest first
Octet(h, l) == Shl(h, 4) + l

\* its bytes, and the number as the sum of its bytes where they are
LEMMA OctetBytes ==
  ASSUME NEW b \in [0 .. 7 -> Bytes]
  PROVE  LET h == Quad(b[7], b[6], b[5], b[4])
             l == Quad(b[3], b[2], b[1], b[0])
             x == Octet(h, l)
         IN  /\ x \in Nat /\ Shr(x, 4) = h /\ x % Weight(4) = l /\ Shr(x, 7) = b[7]
             /\ \A k \in 0 .. 7 : Low(Shr(x, k)) = b[k]
             /\ x = b[0] + Shl(b[1], 1) + Shl(b[2], 2) + Shl(b[3], 3) + Shl(b[4], 4)
                    + Shl(b[5], 5) + Shl(b[6], 6) + Shl(b[7], 7)
<1>. DEFINE h == Quad(b[7], b[6], b[5], b[4])
            l == Quad(b[3], b[2], b[1], b[0])
            x == Octet(h, l)
<1>1. /\ h \in 0 .. Weight(4) - 1 /\ l \in 0 .. Weight(4) - 1
      /\ Low(Shr(h, 0)) = b[4] /\ Low(Shr(h, 1)) = b[5] /\ Low(Shr(h, 2)) = b[6]
      /\ Low(Shr(h, 3)) = b[7] /\ Shr(h, 3) = b[7]
      /\ Low(Shr(l, 0)) = b[0] /\ Low(Shr(l, 1)) = b[1] /\ Low(Shr(l, 2)) = b[2]
      /\ Low(Shr(l, 3)) = b[3]
  BY QuadBytes
<1>2. /\ x \in Nat /\ Shr(x, 4) = h /\ x % Weight(4) = l
      /\ \A k \in 0 .. 3 : /\ Shr(x, k + 4) = Shr(h, k)
                           /\ Low(Shr(x, k)) = Low(Shr(l, k))
  <2>. HIDE DEF h, l
  <2>. QED  BY <1>1, Halves DEF Octet
<1>3. /\ Shr(x, 0 + 4) = Shr(h, 0) /\ Shr(x, 1 + 4) = Shr(h, 1)
      /\ Shr(x, 2 + 4) = Shr(h, 2) /\ Shr(x, 3 + 4) = Shr(h, 3)
      /\ Low(Shr(x, 0)) = b[0] /\ Low(Shr(x, 1)) = b[1] /\ Low(Shr(x, 2)) = b[2]
      /\ Low(Shr(x, 3)) = b[3]
  <2>. HIDE DEF x, h, l
  <2>. QED  BY <1>1, <1>2
<1>4. \A k \in 0 .. 7 : Low(Shr(x, k)) = b[k]
  <2>1. \A k \in 0 .. 7 : k \in {0, 1, 2, 3, 4, 5, 6, 7}
    OBVIOUS
  <2>. HIDE DEF x, h, l
  <2>. QED  BY <1>1, <1>3, <2>1
<1>5. x = b[0] + Shl(b[1], 1) + Shl(b[2], 2) + Shl(b[3], 3) + Shl(b[4], 4)
          + Shl(b[5], 5) + Shl(b[6], 6) + Shl(b[7], 7)
  <2>. DEFINE v == Weight(4)
  <2>1. /\ Weight(4 + 1) = v * Weight(1) /\ Weight(4 + 2) = v * Weight(2)
        /\ Weight(4 + 3) = v * Weight(3)
    BY WeightSum
  <2>2. /\ Weight(1) \in Nat /\ Weight(2) \in Nat /\ Weight(3) \in Nat /\ v \in Nat
    BY WeightNat
  <2>3. /\ b[0] \in Nat /\ b[1] \in Nat /\ b[2] \in Nat /\ b[3] \in Nat
        /\ b[4] \in Nat /\ b[5] \in Nat /\ b[6] \in Nat /\ b[7] \in Nat
    BY LowWeights
  <2>. QED  BY <2>1, <2>2, <2>3 DEF Octet, Quad, Shl
<1>. QED
  <2>. HIDE DEF x, h, l
  <2>1. Shr(x, 7) = b[7]
    BY <1>1, <1>3
  <2>. QED  BY <1>2, <1>4, <1>5, <2>1 DEF x, h, l

\* eight bytes
LEMMA SwapEight ==
  ASSUME NEW b \in [0 .. 7 -> Bytes]
  PROVE  LET x == Octet(Quad(b[7], b[6], b[5], b[4]), Quad(b[3], b[2], b[1], b[0]))
             y == Octet(Quad(b[0], b[1], b[2], b[3]), Quad(b[4], b[5], b[6], b[7]))
         IN  rev64(x) = y /\ bswap64(x) = y
<1>. DEFINE h == Quad(b[7], b[6], b[5], b[4])
            l == Quad(b[3], b[2], b[1], b[0])
            x == Octet(h, l)
            y == Octet(Quad(b[0], b[1], b[2], b[3]), Quad(b[4], b[5], b[6], b[7]))
<1>1. /\ x \in Nat /\ Shr(x, 4) = h /\ x % Weight(4) = l /\ Shr(x, 7) = b[7]
      /\ \A k \in 0 .. 7 : Low(Shr(x, k)) = b[k]
  BY OctetBytes
<1>2. rev64(x) = y
  <2>1. /\ rev32(h) = Quad(b[4], b[5], b[6], b[7]) /\ rev32(l) = Quad(b[0], b[1], b[2], b[3])
    BY SwapFour
  <2>. HIDE DEF x, h, l
  <2>. QED  BY <1>1, <2>1 DEF rev64, Octet
<1>3. bswap64(x) = y
  <2>. DEFINE c == [i \in 0 .. 7 |-> b[7 - i]]
  <2>1. c \in [0 .. 7 -> Bytes]
    OBVIOUS
  <2>2. /\ c[0] = b[7] /\ c[1] = b[6] /\ c[2] = b[5] /\ c[3] = b[4]
        /\ c[4] = b[3] /\ c[5] = b[2] /\ c[6] = b[1] /\ c[7] = b[0]
    OBVIOUS
  <2>3. y = c[0] + Shl(c[1], 1) + Shl(c[2], 2) + Shl(c[3], 3) + Shl(c[4], 4)
            + Shl(c[5], 5) + Shl(c[6], 6) + Shl(c[7], 7)
    <3>. DEFINE w == Octet(Quad(c[7], c[6], c[5], c[4]), Quad(c[3], c[2], c[1], c[0]))
    <3>1. w = c[0] + Shl(c[1], 1) + Shl(c[2], 2) + Shl(c[3], 3) + Shl(c[4], 4)
              + Shl(c[5], 5) + Shl(c[6], 6) + Shl(c[7], 7)
      <4>. HIDE DEF c
      <4>. QED  BY <2>1, OctetBytes
    <3>2. w = y
      <4>. HIDE DEF c
      <4>. QED  BY <2>2
    <3>. QED  BY <3>1, <3>2
  <2>. HIDE DEF x, c, y
  <2>4. /\ Mask(Shr(x, 5), 1) = Shl(b[6], 1) /\ Mask(Shr(x, 3), 2) = Shl(b[5], 2)
        /\ Mask(Shr(x, 1), 3) = Shl(b[4], 3)
    <3>1. /\ Shr(Shr(x, 5), 1) = Shr(x, 5 + 1) /\ Shr(Shr(x, 3), 2) = Shr(x, 3 + 2)
          /\ Shr(Shr(x, 1), 3) = Shr(x, 1 + 3)
      BY <1>1, RightTwice
    <3>2. Low(Shr(x, 6)) = b[6] /\ Low(Shr(x, 5)) = b[5] /\ Low(Shr(x, 4)) = b[4]
      BY <1>1
    <3>. QED  BY <3>1, <3>2 DEF Mask
  <2>5. /\ Mask(Shl(x, 1), 4) = Shl(b[3], 4) /\ Mask(Shl(x, 3), 5) = Shl(b[2], 5)
        /\ Mask(Shl(x, 5), 6) = Shl(b[1], 6)
    <3>1. /\ Shr(Shl(x, 1), 1 + 3) = Shr(x, 3) /\ Shr(Shl(x, 3), 3 + 2) = Shr(x, 2)
          /\ Shr(Shl(x, 5), 5 + 1) = Shr(x, 1)
      BY <1>1, Shifts
    <3>2. Low(Shr(x, 3)) = b[3] /\ Low(Shr(x, 2)) = b[2] /\ Low(Shr(x, 1)) = b[1]
      BY <1>1
    <3>. QED  BY <3>1, <3>2 DEF Mask
  <2>6. Low(x) = b[0]
    <3>1. Low(Shr(x, 0)) = b[0] /\ Shr(x, 0) = x
      BY <1>1, Unmasked
    <3>. QED  BY <3>1
  <2>. QED  BY <1>1, <2>2, <2>3, <2>4, <2>5, <2>6 DEF bswap64
<1>. QED  BY <1>2, <1>3 DEF x, y, h, l

\* Reading a field in one byte order and swapping the bytes of the register gives what
\* reading it in the other order gives.
LEMMA SwapsAgree == IInv => SwapsOrder
<1>. SUFFICES ASSUME IInv
              PROVE  SwapsOrder
  OBVIOUS
<1>. DEFINE m == before
            s == call.src
<1>1. /\ TypeOK /\ s \in Nat
      /\ \A k \in 0 .. call.len - 1 : m[s + k] \in Bytes
  BY FieldBytes, CallFacts DEF IInv
<1>2. m[s] = m[s + 0]
  BY <1>1
<1>3. ASSUME Is(2), NEW x \in {rev16(le16dec(m, s)), bswap16_var(le16dec(m, s)),
                               bswap16_constant(le16dec(m, s))}
      PROVE  x = be16dec(m, s)
  <2>1. m[s] \in Bytes /\ m[s + 1] \in Bytes
    BY <1>1, <1>2, <1>3 DEF Is
  <2>2. le16dec(m, s) = Pair(m[s + 1], m[s]) /\ be16dec(m, s) = Pair(m[s], m[s + 1])
    BY DEF le16dec, be16dec, Pair
  <2>. QED  BY <1>3, <2>1, <2>2, SwapTwo
<1>4. ASSUME Is(4), NEW x \in {rev32(le32dec(m, s)), bswap32_var(le32dec(m, s)),
                               bswap32_constant(le32dec(m, s))}
      PROVE  x = be32dec(m, s)
  <2>1. m[s] \in Bytes /\ m[s + 1] \in Bytes /\ m[s + 2] \in Bytes /\ m[s + 3] \in Bytes
    BY <1>1, <1>2, <1>4 DEF Is
  <2>. QED  BY <1>4, <2>1, Reads, SwapFour
<1>5. ASSUME Is(8), NEW x \in {rev64(le64dec(m, s)), bswap64(le64dec(m, s))}
      PROVE  x = be64dec(m, s)
  <2>. DEFINE f == s + 4
              b == [i \in 0 .. 7 |-> m[s + i]]
  <2>1. f + 1 = s + 5 /\ f + 2 = s + 6 /\ f + 3 = s + 7
    BY <1>1
  <2>2. b \in [0 .. 7 -> Bytes]
    BY <1>1, <1>5 DEF Is
  <2>3. /\ b[0] = m[s] /\ b[1] = m[s + 1] /\ b[2] = m[s + 2] /\ b[3] = m[s + 3]
        /\ b[4] = m[f] /\ b[5] = m[f + 1] /\ b[6] = m[f + 2] /\ b[7] = m[f + 3]
    BY <1>2, <2>1
  <2>. HIDE DEF b
  <2>4. le64dec(m, s) = Octet(le32dec(m, f), le32dec(m, s))
        /\ be64dec(m, s) = Octet(be32dec(m, s), be32dec(m, f))
    BY DEF le64dec, be64dec, Octet
  <2>5. /\ le32dec(m, f) = Quad(b[7], b[6], b[5], b[4])
        /\ le32dec(m, s) = Quad(b[3], b[2], b[1], b[0])
        /\ be32dec(m, s) = Quad(b[0], b[1], b[2], b[3])
        /\ be32dec(m, f) = Quad(b[4], b[5], b[6], b[7])
    <3>. HIDE DEF f
    <3>. QED  BY <2>3, Reads
  <2>. QED  BY <1>5, <2>2, <2>4, <2>5, SwapEight
<1>. QED  BY <1>3, <1>4, <1>5 DEF SwapsOrder

\* The functions of endian.h take a number apart as they put one together, at any
\* address, whatever memmove did to the field in between.
THEOREM CodecsMove == Spec => []CodecsMoveFields
<1>1. IInv => Moved
  BY InvMoves
<1>. QED  BY <1>1, Invariance, CodecsAgree, PTL

\* All the ways to swap the bytes of a register turn one byte order into the other.
THEOREM Swaps == Spec => []SwapsOrder
BY Invariance, SwapsAgree, PTL
=============================================================================
