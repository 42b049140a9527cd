------------------------------- MODULE Endian -------------------------------
(***************************************************************************)
(* The byte order functions of rtos/libc: endian.h, which reads and writes *)
(* numbers at any address of a memory m, and endian_.h of aarch64 and      *)
(* aarch32, which swap the bytes of a register.  A shift by 8 is a factor  *)
(* Radix, and | of bytes that do not overlap is a sum.                     *)
(***************************************************************************)
EXTENDS Integers

CONSTANTS Radix,     \* number of values of a byte, 256
          Xor(_, _)  \* exclusive or of two bytes

Bytes == 0 .. Radix - 1

ASSUME RadixAssumption == Radix \in Nat \ {0, 1}
ASSUME XorAssumption ==
  \A a, b \in Bytes : /\ Xor(a, b) \in Bytes /\ Xor(a, b) = Xor(b, a)
                      /\ Xor(Xor(a, b), b) = a /\ Xor(a, 0) = a

\* Radix to the power k, as a product
Weight(k) ==
  LET two  == Radix * Radix
      four == two * two
  IN  CASE k = 0 -> 1 [] k = 1 -> Radix [] k = 2 -> two [] k = 3 -> two * Radix
        [] k = 4 -> four [] k = 5 -> four * Radix [] k = 6 -> four * two
        [] k = 7 -> four * (two * Radix)

\* x >> 8 * k, x << 8 * k, x & 0xff, x & 0xff << 8 * k
Shr(x, k)  == x \div Weight(k)
Shl(x, k)  == x * Weight(k)
Low(x)     == x % Radix
Mask(x, k) == Shl(Low(Shr(x, k)), k)

-----------------------------------------------------------------------------
(* endian.h                                                                *)

be16dec(m, p) == Shl(m[p], 1) + m[p + 1]
be32dec(m, p) == Shl(m[p], 3) + Shl(m[p + 1], 2) + Shl(m[p + 2], 1) + m[p + 3]
be64dec(m, p) == Shl(be32dec(m, p), 4) + be32dec(m, p + 4)

le16dec(m, p) == Shl(m[p + 1], 1) + m[p]
le32dec(m, p) == Shl(m[p + 3], 3) + Shl(m[p + 2], 2) + Shl(m[p + 1], 1) + m[p]
le64dec(m, p) == Shl(le32dec(m, p + 4), 4) + le32dec(m, p)

be16enc(m, p, u) == [m EXCEPT ![p] = Low(Shr(u, 1)), ![p + 1] = Low(u)]
be32enc(m, p, u) == [m EXCEPT ![p] = Low(Shr(u, 3)), ![p + 1] = Low(Shr(u, 2)),
                              ![p + 2] = Low(Shr(u, 1)), ![p + 3] = Low(u)]
be64enc(m, p, u) == be32enc(be32enc(m, p, Shr(u, 4)), p + 4, u % Weight(4))

le16enc(m, p, u) == [m EXCEPT ![p] = Low(u), ![p + 1] = Low(Shr(u, 1))]
le32enc(m, p, u) == [m EXCEPT ![p] = Low(u), ![p + 1] = Low(Shr(u, 1)),
                              ![p + 2] = Low(Shr(u, 2)), ![p + 3] = Low(Shr(u, 3))]
\* (variant) the halves in the order of be64enc
le64encSwapped(m, p, u) == le32enc(le32enc(m, p, Shr(u, 4)), p + 4, u % Weight(4))
le64enc(m, p, u) == le32enc(le32enc(m, p, u % Weight(4)), p + 4, Shr(u, 4))

-----------------------------------------------------------------------------
(* aarch64: rev16 and rev32, of which the low part is returned, and rev.   *)

rev16(x) == Shl(Low(x), 1) + Low(Shr(x, 1))
rev32(x) == Shl(Low(x), 3) + Shl(Low(Shr(x, 1)), 2) + Shl(Low(Shr(x, 2)), 1) + Low(Shr(x, 3))
rev64(x) == Shl(rev32(x % Weight(4)), 4) + rev32(Shr(x, 4))

(* What the compiler computes for a constant.                              *)

bswap16_constant(x) == Shr(Mask(x, 1), 1) + Shl(Mask(x, 0), 1)
bswap32_constant(x) == Shr(Mask(x, 3), 3) + Shr(Mask(x, 2), 1)
                       + Shl(Mask(x, 1), 1) + Shl(Mask(x, 0), 3)

(* aarch32: shifts for 64 bits; rotations of a register of four bytes, the *)
(* lowest first, for 32 and 16.                                            *)

bswap64(x) == Shr(x, 7) + Mask(Shr(x, 5), 1) + Mask(Shr(x, 3), 2) + Mask(Shr(x, 1), 3)
              + Mask(Shl(x, 1), 4) + Mask(Shl(x, 3), 5) + Mask(Shl(x, 5), 6)
              + Shl(Low(x), 7)

Register(x) == [i \in 0 .. 3 |-> Low(Shr(x, i))]
Number(r)   == Shl(r[3], 3) + Shl(r[2], 2) + Shl(r[1], 1) + r[0]
\* ror #8 * k, and lsr #8 * k
Ror(r, k)   == [i \in 0 .. 3 |-> r[(i + k) % 4]]
Lsr(r, k)   == [i \in 0 .. 3 |-> IF i + k <= 3 THEN r[i + k] ELSE 0]
Eor(r, t)   == [i \in 0 .. 3 |-> Xor(r[i], t[i])]

\* (variant) the byte that would spoil the second eor is not cleared
NotCleared(v) == LET r == Register(v) IN Number(Eor(Ror(r, 1), Lsr(Eor(r, Ror(r, 2)), 1)))
bswap32_var(v) ==
  LET r  == Register(v)
      t1 == [Eor(r, Ror(r, 2)) EXCEPT ![2] = 0]
  IN  Number(Eor(Ror(r, 1), Lsr(t1, 1)))

\* the upper half, which bic clears, is not returned
bswap16_var(v) ==
  LET r == Ror(Register(v % Weight(2)), 1)
      l == Lsr(r, 2)
  IN  Shl(r[1] + l[1], 1) + r[0] + l[0]
=============================================================================
