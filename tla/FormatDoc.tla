----------------------------- MODULE FormatDoc -----------------------------
(***************************************************************************)
(* What the comments above vsnprintf (snprintf.c) and vprintf (printf.c)   *)
(* promise, as a description of one part of a format string: its           *)
(* characters, the argument it takes and the output it stands for.         *)
(***************************************************************************)
EXTENDS Integers, Sequences

\* the digits of a number, most significant first
Digits(v, radix, table) ==
  LET f[u \in Nat] == IF u < radix THEN <<table[u + 1]>>
                      ELSE Append(f[u \div radix], table[(u % radix) + 1])
  IN  f[v]

LowerTable == <<"0", "1", "2", "3", "4", "5", "6", "7", "8", "9",
                "a", "b", "c", "d", "e", "f">>
UpperTable == <<"0", "1", "2", "3", "4", "5", "6", "7", "8", "9",
                "A", "B", "C", "D", "E", "F">>

\* what stands before the digits: a sign, or 0x before a pointer other than NULL
Prefix(c, v) == IF c \in {"d", "i"} /\ v < 0 THEN <<"-">>
                ELSE IF c = "p" /\ v > 0 THEN <<"0", "x">> ELSE << >>

RadixOf(c) == IF c \in {"x", "X", "p"} THEN 16 ELSE 10
TableOf(c) == IF c = "X" THEN UpperTable ELSE LowerTable

\* the digits of the number or the pointer, or the string itself
Body(c, v) == IF c = "s" THEN v
              ELSE Digits(IF v < 0 THEN - v ELSE v, RadixOf(c), TableOf(c))

Times(c, k) == [i \in 1 .. (IF k > 0 THEN k ELSE 0) |-> c]

Space == " "

\* %NN, %0NN and %-NN: prefix and body in a field with so many free places
InField(flag, free, prefix, body) ==
  IF flag = "-" THEN prefix \o body \o Times(Space, free)
  ELSE IF flag = "0" THEN prefix \o Times("0", free) \o body
  ELSE Times(Space, free) \o prefix \o body

\* the characters of a flag and a width, 0 being none
FieldChars(flag, width) ==
  (IF flag = "none" THEN << >> ELSE <<flag>>)
  \o (IF width = 0 THEN << >> ELSE Digits(width, 10, LowerTable))

\* A conversion: flag "none", "0" or "-", field width (0: none), length modifier.  doc is its
\* output: the whole number, with its sign, is what the comments call padded.  signs is the
\* part of the output that is not a digit, a letter or padding: a minus or percent sign.
Conversion(flag, width, length, c, v) ==
  LET prefix == Prefix(c, v)
      body   == Body(c, v)
      free   == width - Len(body) - Len(prefix)
  IN  [fmt  |-> <<"%">> \o (FieldChars(flag, width) \o (length \o <<c>>)),
       args |-> <<v>>,
       doc  |-> InField(flag, free, prefix, body),
       signs |-> IF prefix = <<"-">> THEN prefix ELSE << >>]

\* a character, or a percent sign written as two
Plain(c)   == [fmt |-> <<c>>, args |-> << >>, doc |-> <<c>>, signs |-> << >>]
TwoPercent == [fmt |-> <<"%", "%">>, args |-> << >>, doc |-> <<"%">>, signs |-> <<"%">>]

\* sequences put together, the first k of them and all of them
Upto(seqs)   == LET u[k \in 0 .. Len(seqs)] == IF k = 0 THEN << >> ELSE u[k - 1] \o seqs[k]
                IN  u
Joined(seqs) == Upto(seqs)[Len(seqs)]

\* the formats, arguments and outputs of the parts of a format string
Fmts(parts)  == [i \in 1 .. Len(parts) |-> parts[i].fmt]
Args(parts)  == [i \in 1 .. Len(parts) |-> parts[i].args]
Docs(parts)  == [i \in 1 .. Len(parts) |-> parts[i].doc]
Signs(parts) == [i \in 1 .. Len(parts) |-> parts[i].signs]
=============================================================================
