------------------------------- MODULE Printf -------------------------------
(***************************************************************************)
(* printf and vprintf of rtos/libc: the same walk as in Snprintf over      *)
(* fewer conversions, the characters going to putchar, and a count the     *)
(* function keeps beside them.  pr_info! and println! of the Rust          *)
(* application print through it.                                           *)
(***************************************************************************)
EXTENDS Integers, Sequences

CONSTANTS Char,         \* the characters, NUL excluded
          IntSpan,      \* 2 to the number of bits of an int
          SizeOfSizeT   \* sizeof(size_t)

NUL    == "NUL"
Table  == <<"0", "1", "2", "3", "4", "5", "6", "7", "8", "9", "a", "b", "c", "d", "e", "f">>
Decimals   == {Table[i] : i \in 1 .. 10}
ValueOf(c) == CHOOSE v \in 0 .. 9 : Table[v + 1] = c

VARIABLES
  pc,     \* "text", "spec", "width", "digits", "pad", "returned"
  call,   \* the parameters [fmt, args], with the output the comment in the code
          \* promises and whether it rejects fmt: [printed, bad]
  fp, ap, \* fmt and the va_list
  padc, padn, l_count,
  num,    \* unum, radix and num_buf (in reading order)
  out,    \* what putchar was given
  count,  \* printed characters, as the function counts them
  result  \* the return value

vars == <<pc, call, fp, ap, padc, padn, l_count, num, out, count, result>>

NoNum == [unum |-> 0, radix |-> 10, num_buf |-> << >>]

TypeOK ==
  /\ pc \in {"text", "spec", "width", "digits", "pad", "returned"}
  /\ fp \in 1 .. Len(call.fmt) + 1 /\ ap \in 1 .. Len(call.args) + 1
  /\ padc \in {NUL, "0"} /\ padn \in Int /\ l_count \in Nat
  /\ num.unum \in Nat /\ num.radix \in {10, 16}
  /\ count \in 0 .. Len(out) /\ result \in Int

\* printf has been called
Start ==
  /\ pc = "text" /\ fp = 1 /\ ap = 1
  /\ padc = NUL /\ padn = 0 /\ l_count = 0
  /\ num = NoNum /\ out = << >> /\ count = 0 /\ result = 0

cur == IF fp <= Len(call.fmt) THEN call.fmt[fp] ELSE NUL
arg == call.args[ap]

\* the types of get_num_va_args and get_unum_va_args: an int without a length modifier,
\* otherwise a long or a long long, as wide as any argument
SignedArg   == IF l_count > 0 THEN Int ELSE - (IntSpan \div 2) .. IntSpan \div 2 - 1
UnsignedArg == IF l_count > 0 THEN Nat ELSE 0 .. IntSpan - 1
\* va_arg: the caller passes an argument of the type that is fetched; anything else is
\* undefined, and here printf is stuck
Given(type) == ap <= Len(call.args) /\ arg \in type

\* the characters of cs, and how many of them are counted
Emit(cs, counted) == out' = out \o cs /\ count' = count + counted

Text ==
  /\ pc = "text" /\ cur \notin {"%", NUL}
  /\ Emit(<<cur>>, 1)
  /\ fp' = fp + 1 /\ l_count' = 0 /\ padn' = 0
  /\ UNCHANGED <<pc, call, ap, padc, num, result>>

Percent ==
  /\ pc = "text" /\ cur = "%"
  /\ pc' = "spec" /\ fp' = fp + 1 /\ l_count' = 0 /\ padn' = 0
  /\ UNCHANGED <<call, ap, padc, num, out, count, result>>

End ==
  /\ pc = "text" /\ cur = NUL
  /\ pc' = "returned" /\ result' = count
  /\ UNCHANGED <<call, fp, ap, padc, padn, l_count, num, out, count>>

\* case '%' forgets the count
PercentPercent ==
  /\ pc = "spec" /\ cur = "%"
  /\ Emit(<<"%">>, 0)
  /\ pc' = "text" /\ fp' = fp + 1
  /\ UNCHANGED <<call, ap, padc, padn, l_count, num, result>>

\* 'l' counts, 'z' is a long long where a size_t has 64 bits
Length ==
  /\ pc = "spec" /\ cur \in {"l", "z"}
  /\ l_count' = IF cur = "l" THEN l_count + 1 ELSE IF SizeOfSizeT = 8 THEN 2 ELSE l_count
  /\ fp' = fp + 1
  /\ UNCHANGED <<pc, call, ap, padc, padn, num, out, count, result>>

Zero ==
  /\ pc = "spec" /\ cur = "0"
  /\ padc' = "0" /\ padn' = 0 /\ fp' = fp + 1 /\ pc' = "width"
  /\ UNCHANGED <<call, ap, l_count, num, out, count, result>>

Width ==
  /\ pc = "width"
  /\ IF cur \in Decimals
     THEN padn' = padn * 10 + ValueOf(cur) /\ fp' = fp + 1 /\ UNCHANGED pc
     ELSE pc' = "spec" /\ UNCHANGED <<padn, fp>>
  /\ UNCHANGED <<call, ap, padc, l_count, num, out, count, result>>

\* (variant) the sign takes no room in the field
SignIgnored == padn
\* padn--, for the sign
SignRoom == padn - 1

\* the call of unsigned_num_print for the next argument, behind a sign or 0x
PrintNumber(unum, radix) ==
  /\ num' = [unum |-> unum, radix |-> radix, num_buf |-> << >>]
  /\ pc' = "digits" /\ ap' = ap + 1
  /\ UNCHANGED <<call, fp, padc, l_count, result>>

Signed ==
  /\ pc = "spec" /\ cur \in {"d", "i"} /\ Given(SignedArg)
  /\ PrintNumber(IF arg < 0 THEN - arg ELSE arg, 10)
  /\ IF arg < 0 THEN Emit(<<"-">>, 0) /\ padn' = SignRoom
                ELSE UNCHANGED <<out, count, padn>>

Unsigned ==
  /\ pc = "spec" /\ cur \in {"u", "x"} /\ Given(UnsignedArg)
  /\ PrintNumber(arg, IF cur = "u" THEN 10 ELSE 16)
  /\ UNCHANGED <<padn, out, count>>

Pointer ==
  /\ pc = "spec" /\ cur = "p" /\ Given(Nat)
  /\ PrintNumber(arg, 16)
  /\ IF arg > 0 THEN Emit(<<"0", "x">>, 2) /\ padn' = padn - 2
                ELSE UNCHANGED <<out, count, padn>>

Str ==
  /\ pc = "spec" /\ cur = "s" /\ Given(Seq(Char))
  /\ Emit(arg, Len(arg))
  /\ ap' = ap + 1 /\ pc' = "text" /\ fp' = fp + 1
  /\ UNCHANGED <<call, padc, padn, l_count, num, result>>

\* default: return -1
Other ==
  /\ pc = "spec"
  /\ cur \notin {"%", "l", "z", "0", "d", "i", "u", "x", "p", "s"}
  /\ pc' = "returned" /\ result' = -1
  /\ UNCHANGED <<call, fp, ap, padc, padn, l_count, num, out, count>>

-----------------------------------------------------------------------------
(* unsigned_num_print: the digits, then the padding, then the number.      *)

MoreDigits == num.unum > 0 \/ num.num_buf = << >>

NextDigit ==
  /\ pc = "digits" /\ MoreDigits
  /\ num' = [num EXCEPT !.unum = @ \div num.radix,
                        !.num_buf = <<Table[(num.unum % num.radix) + 1]>> \o @]
  /\ UNCHANGED <<pc, call, fp, ap, padc, padn, l_count, out, count, result>>

\* while (i < padn)
Pads == Len(num.num_buf) < padn

PadChar ==
  /\ pc = "digits" /\ ~ MoreDigits /\ Pads
  /\ Emit(<<padc>>, 1) /\ padn' = padn - 1
  /\ UNCHANGED <<pc, call, fp, ap, padc, l_count, num, result>>

Number ==
  /\ pc = "digits" /\ ~ MoreDigits /\ ~ Pads
  /\ Emit(num.num_buf, Len(num.num_buf))
  /\ pc' = "text" /\ fp' = fp + 1
  /\ UNCHANGED <<call, ap, padc, padn, l_count, num, result>>

\* the call is over
Over == pc = "returned" /\ UNCHANGED vars

Next == \/ Text \/ Percent \/ End \/ PercentPercent \/ Length \/ Zero \/ Width
        \/ Signed \/ Unsigned \/ Pointer \/ Str \/ Other \/ NextDigit \/ PadChar \/ Number
        \/ Over

-----------------------------------------------------------------------------
\* A call whose format is accepted prints what the comment above vprintf describes;
\* a rejected one stops at the conversion it rejects, the rest being unprinted.
OutputAsDocumented ==
  pc = "returned" => out = call.printed /\ (result = -1 <=> call.bad)

\* The result is what the comment on the counter says, the "Number of printed characters".
\* It is not: putchar('%') and putchar('-') go past the counter.
CountsPrinted == pc = "returned" /\ result # -1 => result = Len(out)
=============================================================================
