------------------------------- MODULE Fields -------------------------------
(***************************************************************************)
(* Fields of two, four or eight bytes in one memory, moved by memmove or   *)
(* by the functions for byte orders: reading a field and writing it to     *)
(* another place, overlapping or not, must be the same as moving it.       *)
(***************************************************************************)
EXTENDS Memmove, Endian

ASSUME ByteAssumption == Byte = Bytes

Is(bytes) == pc = "returned" /\ call.len = bytes

\* What was decoded in one byte order and encoded in the same one at another place is
\* what memmove brings there, and the bytes around it stay: the functions of endian.h
\* take numbers apart and put them together alike, without any alignment.
CodecsMoveFields ==
  LET m == before
      s == call.src
      d == call.dst
  IN  /\ Is(2) => /\ mem = be16enc(m, d, be16dec(m, s))
                  /\ mem = le16enc(m, d, le16dec(m, s))
      /\ Is(4) => /\ mem = be32enc(m, d, be32dec(m, s))
                  /\ mem = le32enc(m, d, le32dec(m, s))
      /\ Is(8) => /\ mem = be64enc(m, d, be64dec(m, s))
                  /\ mem = le64enc(m, d, le64dec(m, s))

\* Reading a field in one byte order and swapping the bytes of the register gives what
\* reading it in the other order gives, with every way to swap them: the instructions
\* of aarch64, those of aarch32 and what the compiler computes for a constant.
SwapsOrder ==
  LET m == before
      s == call.src
  IN  /\ Is(2) => \A x \in {rev16(le16dec(m, s)), bswap16_var(le16dec(m, s)),
                            bswap16_constant(le16dec(m, s))} : x = be16dec(m, s)
      /\ Is(4) => \A x \in {rev32(le32dec(m, s)), bswap32_var(le32dec(m, s)),
                            bswap32_constant(le32dec(m, s))} : x = be32dec(m, s)
      /\ Is(8) => \A x \in {rev64(le64dec(m, s)), bswap64(le64dec(m, s))} :
                    x = be64dec(m, s)
=============================================================================
