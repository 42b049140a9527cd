------------------------------- MODULE Strto -------------------------------
(***************************************************************************)
(* strtol, strtoll, strtoul and strtoull of rtos/libc: one algorithm at    *)
(* two widths, with and without a sign.  The accumulator is a word of Span *)
(* values, so an overflow would wrap around; cutoff and cutlim are there   *)
(* to notice it before.                                                    *)
(***************************************************************************)
EXTENDS StrtoCalls

\* isspace of stdlib.h: a backspace is one of them, a form feed is not
Spaces == {" ", "CR", "LF", "TAB", "BS"}

Decimal == <<"0", "1", "2", "3", "4", "5", "6", "7", "8", "9">>
Capital == <<"A", "B", "C", "D", "E", "F", "G", "H", "I", "J", "K", "L", "M",
             "N", "O", "P", "Q", "R", "S", "T", "U", "V", "W", "X", "Y", "Z">>
Small   == <<"a", "b", "c", "d", "e", "f", "g", "h", "i", "j", "k", "l", "m",
             "n", "o", "p", "q", "r", "s", "t", "u", "v", "w", "x", "y", "z">>

In(table)       == {table[i] : i \in DOMAIN table}
Place(table, c) == CHOOSE i \in DOMAIN table : table[i] = c

NotDigit == 99     \* above every base
\* c - '0', c - 'A' + 10, c - 'a' + 10
ValueOf  == [c \in In(Decimal) \cup In(Capital) \cup In(Small) |->
               CASE c \in In(Decimal) -> Place(Decimal, c) - 1
                 [] c \in In(Capital) -> Place(Capital, c) + 9
                 [] OTHER            -> Place(Small, c) + 9]
\* the digit, or the break of the loop
Digit(c) == IF c \in DOMAIN ValueOf THEN ValueOf[c] ELSE NotDigit

VARIABLES
  phase,  \* "space", "prefix", "digits", "returned"
  in,     \* the parameters
  pos,    \* where c was read
  neg, base, acc, any,
  exact,  \* the number the digits read so far stand for (history)
  result, end   \* the return value and *endptr, 0 while nothing is stored there

Signed   == in.func = "strtol"
Span     == 2 * Half
MaxValue == IF Signed THEN Half - 1 ELSE Span - 1
MinValue == - Half

numberVars == <<phase, in, pos, neg, base, acc, any, exact, result, end>>

at(p) == IF p <= Len(in.str) THEN in.str[p] ELSE "NUL"

StrtoTypeOK ==
  /\ phase \in {"space", "prefix", "digits", "returned"}
  /\ in \in Inputs
  /\ pos \in 1 .. Len(in.str) + 1 /\ end \in 0 .. Len(in.str) + 1
  /\ neg \in {0, 1} /\ base \in {0} \cup 2 .. 36
  /\ acc \in 0 .. Span - 1 /\ any \in {-1, 0, 1} /\ exact \in Nat
  /\ result \in (IF Signed THEN MinValue ELSE 0) .. MaxValue

NumberInit ==
  /\ phase = "space" /\ in \in Inputs /\ pos = 1
  /\ neg = 0 /\ base = in.base /\ acc = 0 /\ any = 0 /\ exact = 0
  /\ result = 0 /\ end = 0

Space ==
  /\ phase = "space" /\ at(pos) \in Spaces
  /\ pos' = pos + 1
  /\ UNCHANGED <<phase, in, neg, base, acc, any, exact, result, end>>

Sign ==
  /\ phase = "space" /\ at(pos) \notin Spaces
  /\ neg' = IF at(pos) = "-" THEN 1 ELSE 0
  /\ pos' = IF at(pos) \in {"-", "+"} THEN pos + 1 ELSE pos
  /\ phase' = "prefix"
  /\ UNCHANGED <<in, base, acc, any, exact, result, end>>

\* (variant) whatever follows 0x
AnyHexPrefix == base \in {0, 16} /\ at(pos) = "0" /\ at(pos + 1) \in {"x", "X"}
\* 0x and a hexadecimal digit
HexPrefix == /\ base \in {0, 16} /\ at(pos) = "0" /\ at(pos + 1) \in {"x", "X"}
             /\ Digit(at(pos + 2)) < 16

Prefix ==
  /\ phase = "prefix"
  /\ pos' = IF HexPrefix THEN pos + 2 ELSE pos
  /\ base' = IF HexPrefix THEN 16
             ELSE IF base # 0 THEN base ELSE IF at(pos) = "0" THEN 8 ELSE 10
  /\ phase' = "digits"
  /\ UNCHANGED <<in, neg, acc, any, exact, result, end>>

\* the largest number that is accepted
Limit == IF Signed /\ neg = 1 THEN MaxValue + 1 ELSE MaxValue

\* (variants) the last digit that fits is refused, or any last digit is accepted
TooBigAtLimit(d) == acc > Limit \div base \/ (acc = Limit \div base /\ d >= Limit % base)
TooBigByCutoff(d) == acc > Limit \div base
\* acc > cutoff, or acc is cutoff and the digit above cutlim
TooBig(d) == acc > Limit \div base \/ (acc = Limit \div base /\ d > Limit % base)

ReadDigit ==
  /\ phase = "digits" /\ Digit(at(pos)) < base
  /\ LET d == Digit(at(pos))
     IN  /\ IF any < 0 \/ TooBig(d)
            THEN any' = -1 /\ UNCHANGED acc
            ELSE any' = 1 /\ acc' = (acc * base + d) % Span
         /\ exact' = exact * base + d
  /\ pos' = pos + 1
  /\ UNCHANGED <<phase, in, neg, base, result, end>>

\* the value of the word acc as the type of the result
Word(a) == LET w == a % Span IN IF Signed /\ w > MaxValue THEN w - Span ELSE w

\* (variant) the character behind the end
OneFurther == pos + 1
\* s - 1
Stopped == pos

ReturnNumber ==
  /\ phase = "digits" /\ Digit(at(pos)) >= base
  /\ result' = IF any < 0 THEN IF Signed /\ neg = 1 THEN MinValue ELSE MaxValue
               ELSE Word(IF neg = 1 THEN - acc ELSE acc)
  /\ end' = IF ~ in.endptr THEN end ELSE IF any # 0 THEN Stopped ELSE 1
  /\ phase' = "returned"
  /\ UNCHANGED <<in, pos, neg, base, acc, any, exact>>

\* the call is over
Over == phase = "returned" /\ UNCHANGED numberVars

NumberNext == Space \/ Sign \/ Prefix \/ ReadDigit \/ ReturnNumber \/ Over
NumberSpec == NumberInit /\ [][NumberNext]_numberVars

-----------------------------------------------------------------------------
\* The accumulator never wraps around: it is the number read so far, and once that
\* number is too big the overflow has been noticed and is never forgotten.
NoWrap == phase = "digits" => IF any < 0 THEN exact > Limit ELSE acc = exact /\ acc <= Limit

\* a number, or the end of the range it lies beyond; the unsigned functions take the
\* sign as a negation of the word
Clamped(v, minus) ==
  CASE minus /\ Signed   -> IF - v < MinValue THEN MinValue ELSE - v
    [] minus /\ ~ Signed -> IF v > MaxValue THEN MaxValue ELSE (- v) % Span
    [] OTHER             -> IF v > MaxValue THEN MaxValue ELSE v

\* The result is the number the digits stand for, or the end of the range it lies beyond.
Saturates == phase = "returned" => result = Clamped(exact, neg = 1)

\* A declarative reading of the string: blanks, a sign, 0x where it is allowed and
\* followed by a digit, and the longest run of digits of the base.
Places      == 1 .. Len(in.str) + 1
Earliest(S) == CHOOSE p \in S : \A q \in S : p <= q
Blanks      == Earliest({p \in Places : at(p) \notin Spaces})     \* behind the blanks
Body        == IF at(Blanks) \in {"-", "+"} THEN Blanks + 1 ELSE Blanks
Hex         == /\ in.base \in {0, 16} /\ at(Body) = "0" /\ at(Body + 1) \in {"x", "X"}
               /\ Digit(at(Body + 2)) < 16
Radix       == IF Hex THEN 16 ELSE IF in.base # 0 THEN in.base
               ELSE IF at(Body) = "0" THEN 8 ELSE 10
Start       == IF Hex THEN Body + 2 ELSE Body
Stop        == Earliest({p \in Places : p >= Start /\ Digit(at(p)) >= Radix})
\* the number that the digits before p stand for
Value[p \in Nat] == IF p <= Start THEN 0 ELSE Value[p - 1] * Radix + Digit(at(p - 1))

\* The result is the number that the declarative reading of the string gives, or the end
\* of the range it lies beyond; *endptr is where that reading stops, the beginning of the
\* string if there are no digits, and is not touched through a null pointer.
ReadsAsDescribed ==
  phase = "returned" =>
    /\ result = Clamped(Value[Stop], at(Blanks) = "-")
    /\ end = IF ~ in.endptr THEN 0 ELSE IF Stop = Start THEN 1 ELSE Stop
=============================================================================
