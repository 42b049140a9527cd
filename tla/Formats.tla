------------------------------- MODULE Formats -------------------------------
(***************************************************************************)
(* A program that prints with printf and then formats the same arguments   *)
(* with snprintf: two interpreters of format strings, each with its own    *)
(* code, supporting different conversions.                                 *)
(***************************************************************************)
EXTENDS Snprintf, FormatDoc

CONSTANT SizeOfSizeT

VARIABLES ppc, pfp, pap, padc, padn, l_count, pnum, printed, count, result

pvars == <<ppc, pfp, pap, padc, padn, l_count, pnum, printed, count, result>>

P == INSTANCE Printf WITH pc <- ppc, fp <- pfp, ap <- pap, num <- pnum, out <- printed

FInit == Init /\ P!Start
FNext == \/ P!Next /\ UNCHANGED vars
         \/ ppc = "returned" /\ Next /\ UNCHANGED pvars
FSpec == FInit /\ [][FNext]_<<vars, pvars>>

\* Properties of Printf
PrintedAsDocumented == P!OutputAsDocumented
CountsPrinted       == P!CountsPrinted
FTypeOK             == TypeOK /\ P!TypeOK

\* What snprintf puts out is what the comment above vsnprintf describes, for the calls on
\* which the two agree: parts of SnprintfAgrees below.  The others print too, but of their
\* output nothing is said here.  They are negative numbers and pointers in a field, longs
\* beyond an int, strings in a field and a pointer below 16, where the code does something
\* else, and unlisted specifiers, on which "the function panics" if the build has
\* assertions and otherwise goes on.
FormattedAsDocumented == call.agreed => OutputAsDocumented
-----------------------------------------------------------------------------
(* The formats on which the comments and the code agree, of any parts.     *)

Lengths == {<< >>, <<"l">>, <<"l", "l">>, <<"z">>}

\* snprintf pads behind a minus sign or 0x, right of 0x and a single digit, never pads a
\* string, and prints an int's worth of a signed long
SnprintfAgrees(flag, width, length, c, v) ==
  /\ flag \in {"none", "0", "-"} /\ width \in Nat
  /\ length \in Lengths \cap Seq(Char) /\ c \in Char
  /\ \/ /\ c \in {"d", "i"} /\ v \in - (IntSpan \div 2) .. IntSpan \div 2 - 1
        /\ v < 0 => width = 0
     \/ c \in {"u", "x", "X"} /\ v \in Nat
     \/ /\ c = "p" /\ v \in Nat
        /\ v > 0 => IF width = 0 THEN v >= 16 ELSE flag = "0"
     \/ c = "s" /\ v \in Seq(Char) /\ width = 0

\* the only field of printf is %0NN
PrintfAgrees(flag, width, length, c, v) ==
  /\ flag = "0" \/ (flag = "none" /\ width = 0)
  /\ width \in Nat /\ length \in Lengths \cap Seq(Char) /\ c \in Char
  /\ \/ c \in {"d", "i"} /\ v \in Int
     \/ c \in {"u", "x", "p"} /\ v \in Nat
     \/ c = "s" /\ v \in Seq(Char) /\ width = 0

TextPart(p) == (\E ch \in Char \ {"%"} : p = Plain(ch)) \/ p = TwoPercent
SnprintfPart(p) ==
  \/ TextPart(p)
  \/ \E flag, width, length, c, v : /\ SnprintfAgrees(flag, width, length, c, v)
                                    /\ p = Conversion(flag, width, length, c, v)
PrintfPart(p) ==
  \/ TextPart(p)
  \/ \E flag, width, length, c, v : /\ PrintfAgrees(flag, width, length, c, v)
                                    /\ p = Conversion(flag, width, length, c, v)

\* a conversion that ends in a character printf does not know, or at the end of the format
Unknown(flag, rest) ==
  rest # << >> => /\ rest[1] \notin {"%", "l", "z", "0", "d", "i", "u", "x", "p", "s"}
                  /\ flag = "0" => rest[1] \notin DecimalDigits
Refused(tail) ==
  \E flag \in {"none", "0"}, width \in Nat, length \in Lengths \cap Seq(Char),
     rest \in Seq(Char) :
    /\ (flag = "none" => width = 0) /\ Unknown(flag, rest)
    /\ tail = <<"%">> \o (FieldChars(flag, width) \o (length \o rest))

\* a call is made of parts, of parts and something printf rejects
SnprintfMade(ps, c) ==
  /\ Len(ps) \in Nat /\ \A i \in 1 .. Len(ps) : SnprintfPart(ps[i])
  /\ c.fmt = Joined(Fmts(ps)) /\ c.args = Joined(Args(ps)) /\ c.doc = Joined(Docs(ps))
PrintfMade(ps, tail, c) ==
  /\ Len(ps) \in Nat /\ \A i \in 1 .. Len(ps) : PrintfPart(ps[i])
  /\ c.fmt = Joined(Fmts(ps)) \o tail
  /\ \E more \in Seq(Int \cup Seq(Char)) : c.args = Joined(Args(ps)) \o more
  /\ c.printed = Joined(Docs(ps))
  /\ IF c.bad THEN Refused(tail) ELSE tail = << >>

SnprintfDescribed(c) == \E ps : SnprintfMade(ps, c)
PrintfDescribed(c)   == \E ps, tail : PrintfMade(ps, tail, c)
\* without %% and negative numbers
PrintfSignless(c)    == \E ps, tail : PrintfMade(ps, tail, c) /\ Joined(Signs(ps)) = << >>
=============================================================================
