------------------------------ MODULE Snprintf ------------------------------
(***************************************************************************)
(* snprintf and vsnprintf of rtos/libc: the walk over the format string    *)
(* with its labels and gotos, the digit loop of unsigned_num_print, and    *)
(* CHECK_AND_PUT_CHAR, which writes while there is room and always counts. *)
(* A string is a sequence of characters; the NUL behind it is not part of  *)
(* the sequence.                                                           *)
(***************************************************************************)
EXTENDS Integers, Sequences

CONSTANTS Calls,    \* the calls: [fmt, args, size, doc], doc being the output
                    \* the comments in the code promise for fmt and args
          Char,     \* the characters, NUL excluded
          MemSize,  \* bytes behind the pointer s, at least size of them
          IntSpan   \* 2 to the number of bits of an int

NUL   == "NUL"
Junk  == "junk"     \* what the memory holds before the call
Lower == <<"0", "1", "2", "3", "4", "5", "6", "7", "8", "9", "a", "b", "c", "d", "e", "f">>
Upper == <<"0", "1", "2", "3", "4", "5", "6", "7", "8", "9", "A", "B", "C", "D", "E", "F">>
DecimalDigits == {Lower[i] : i \in 1 .. 10}
ValueOf(c)    == CHOOSE v \in 0 .. 9 : Lower[v + 1] = c

ASSUME CharAssumption ==
  /\ {Lower[i] : i \in 1 .. 16} \cup {Upper[i] : i \in 1 .. 16} \subseteq Char
  /\ {"%", "-", " ", "x"} \subseteq Char /\ NUL \notin Char
ASSUME CallsAssumption ==
  \A c \in Calls : /\ c.fmt \in Seq(Char) /\ c.size \in 0 .. MemSize
                   /\ Len(c.args) \in Nat
ASSUME IntAssumption == IntSpan \in Nat \ {0} /\ MemSize \in Nat

VARIABLES
  pc,       \* "entry", "text", "spec", "width", "digits", "returned", "panicked",
            \* "outside": fmt is past the NUL of the format string
  call,     \* the parameters
  fp, ap,   \* fmt and the va_list: the next character, the next argument
  n, s,     \* the parameters n and s, as vsnprintf changes them
  buf,      \* the memory s pointed to
  chars_printed,
  conv,     \* padc, padn, l_count; left and capitalise are flags
  num,      \* unum, radix and num_buf (in reading order) of unsigned_num_print
  out       \* every character given to CHECK_AND_PUT_CHAR (history)

vars == <<pc, call, fp, ap, n, s, buf, chars_printed, conv, num, out>>
put  == <<s, buf, chars_printed, out>>

Conv == [padc : Char \cup {NUL}, padn : Int, l_count : Nat,
         flags : SUBSET {"left", "capitalise"}]
Num  == [unum : Nat, radix : {10, 16}, num_buf : Seq(Char)]

TypeOK ==
  /\ pc \in {"entry", "text", "spec", "width", "digits", "returned", "panicked", "outside"}
  /\ call.fmt \in Seq(Char) /\ call.size \in 0 .. MemSize
  /\ fp \in Nat /\ ap \in Nat /\ n \in Nat /\ s \in Nat
  /\ buf \in [0 .. MemSize - 1 -> Char \cup {NUL, Junk}]
  /\ chars_printed \in Nat
  /\ conv \in Conv /\ num \in Num
  /\ out \in Seq(Char \cup {NUL})

NoConv == [padc |-> NUL, padn |-> 0, l_count |-> 0, flags |-> {}]
NoNum  == [unum |-> 0, radix |-> 10, num_buf |-> << >>]

Init ==
  /\ pc = "entry" /\ call \in Calls
  /\ fp = 1 /\ ap = 1 /\ n = call.size /\ s = 0
  /\ buf = [a \in 0 .. MemSize - 1 |-> Junk]
  /\ chars_printed = 0 /\ conv = NoConv /\ num = NoNum /\ out = << >>

cur == IF fp <= Len(call.fmt) THEN call.fmt[fp] ELSE NUL
arg == call.args[ap]

\* va_arg: the caller passes an argument of the type the format asks for, since
\* anything else is undefined
Take(type)      == arg \in type /\ ap' = ap + 1
get_num_va_arg  == Take(IF conv.l_count > 0 THEN Int
                        ELSE - (IntSpan \div 2) .. IntSpan \div 2 - 1)
get_unum_va_arg == Take(IF conv.l_count > 0 THEN Nat ELSE 0 .. IntSpan - 1)

\* (variant) the room is taken for what was printed, not for what is left
RoomIgnored(k) == k
\* how many of k characters CHECK_AND_PUT_CHAR stores
Stored(k) == IF n <= chars_printed THEN 0
             ELSE IF k <= n - chars_printed THEN k ELSE n - chars_printed

\* CHECK_AND_PUT_CHAR for the characters of cs, one after the other
PutChars(cs) ==
  /\ buf' = [a \in DOMAIN buf |->
               IF s <= a /\ a < s + Stored(Len(cs)) THEN cs[a - s + 1] ELSE buf[a]]
  /\ s' = s + Stored(Len(cs))
  /\ chars_printed' = chars_printed + Len(cs)
  /\ out' = out \o cs

\* (variants) no room is kept for the terminator, or without asking for any
NotReserved == call.size
AlwaysReserved == call.size - 1
\* n after the tests at the start
Reserved == IF call.size = 0 THEN 0 ELSE call.size - 1

Entry ==
  /\ pc = "entry" /\ pc' = "text"
  /\ n' = Reserved
  /\ buf' = IF n = 1 THEN [buf EXCEPT ![0] = NUL] ELSE buf
  /\ UNCHANGED <<call, fp, ap, s, chars_printed, conv, num, out>>

\* a character of the text
Text ==
  /\ pc = "text" /\ cur \notin {"%", NUL}
  /\ PutChars(<<cur>>)
  /\ fp' = fp + 1 /\ conv' = NoConv
  /\ UNCHANGED <<pc, call, ap, n, num>>

\* nothing is printed and no argument is taken
Quiet == UNCHANGED <<call, ap, n, num>> /\ UNCHANGED put

Percent ==
  /\ pc = "text" /\ cur = "%"
  /\ pc' = "spec" /\ fp' = fp + 1 /\ conv' = NoConv
  /\ Quiet

\* the end of the format string
Terminate ==
  /\ pc = "text" /\ cur = NUL
  /\ pc' = "returned"
  /\ buf' = IF n > 0 THEN [buf EXCEPT ![s] = NUL] ELSE buf
  /\ UNCHANGED <<call, fp, ap, n, s, chars_printed, conv, num, out>>

-----------------------------------------------------------------------------
(* The switch over the character behind the percent sign.                  *)

PercentPercent ==
  /\ pc = "spec" /\ cur = "%"
  /\ PutChars(<<"%">>)
  /\ pc' = "text" /\ fp' = fp + 1
  /\ UNCHANGED <<call, ap, n, conv, num>>

\* the padding character, before the loop over the digits of the width
Digit ==
  /\ pc = "spec" /\ cur \in DecimalDigits
  /\ conv' = [conv EXCEPT !.padc = IF cur = "0" THEN "0" ELSE " ", !.padn = 0]
  /\ pc' = "width"
  /\ UNCHANGED fp /\ Quiet

WidthDigit ==
  /\ pc = "width" /\ cur \in DecimalDigits
  /\ conv' = [conv EXCEPT !.padn = @ * 10 + ValueOf(cur)]
  /\ fp' = fp + 1
  /\ UNCHANGED pc /\ Quiet

WidthEnd ==
  /\ pc = "width" /\ cur \notin DecimalDigits
  /\ conv' = [conv EXCEPT !.padn = IF "left" \in conv.flags THEN - @ ELSE @]
  /\ pc' = "spec"
  /\ UNCHANGED fp /\ Quiet

\* the flag and the length modifiers go on with the switch
Modifier(c, newConv) ==
  /\ pc = "spec" /\ cur = c
  /\ conv' = newConv /\ fp' = fp + 1
  /\ UNCHANGED pc /\ Quiet

Minus   == Modifier("-", [conv EXCEPT !.flags = @ \cup {"left"}])
LengthZ == Modifier("z", [conv EXCEPT !.l_count = 1])
LengthL == Modifier("l", [conv EXCEPT !.l_count = @ + 1])

\* the call of unsigned_num_print
PrintNumber(unum, radix) ==
  /\ num' = [unum |-> unum, radix |-> radix, num_buf |-> << >>]
  /\ pc' = "digits"
  /\ UNCHANGED <<call, fp, n>>

\* the assignment to the int num: the argument may be a long or a long long
ToInt(v) == LET r == v % IntSpan IN IF r >= IntSpan \div 2 THEN r - IntSpan ELSE r

Signed ==
  /\ pc = "spec" /\ cur \in {"d", "i"}
  /\ get_num_va_arg
  /\ LET i == ToInt(arg)
     IN  IF i < 0
         THEN PutChars(<<"-">>) /\ PrintNumber((- i) % IntSpan, 10)
         ELSE UNCHANGED put /\ PrintNumber(i, 10)
  /\ UNCHANGED conv

Unsigned ==
  /\ pc = "spec" /\ cur \in {"u", "x", "X"}
  /\ get_unum_va_arg
  /\ conv' = [conv EXCEPT !.flags = @ \cup (IF cur = "X" THEN {"capitalise"} ELSE {})]
  /\ PrintNumber(arg, IF cur = "u" THEN 10 ELSE 16)
  /\ UNCHANGED put

Pointer ==
  /\ pc = "spec" /\ cur = "p"
  /\ Take(Nat)
  /\ PrintNumber(arg, 16)
  /\ IF arg > 0
     THEN PutChars(<<"0", "x">>) /\ conv' = [conv EXCEPT !.padn = @ - 2]
     ELSE UNCHANGED put /\ UNCHANGED conv

\* string_print
Str ==
  /\ pc = "spec" /\ cur = "s"
  /\ Take(Seq(Char))
  /\ PutChars(arg)
  /\ pc' = "text" /\ fp' = fp + 1
  /\ UNCHANGED <<call, n, conv, num>>

\* The default: ERROR and plat_panic_handler are empty macros, and the assertion
\* is there or not with the assert.h and the flags of the build.
Other ==
  /\ pc = "spec"
  /\ cur \notin DecimalDigits \cup {"%", "-", "z", "l", "d", "i", "u", "x", "X", "p", "s"}
  /\ \/ /\ pc' = IF cur = NUL THEN "outside" ELSE "text"
        /\ fp' = fp + 1
     \/ pc' = "panicked" /\ UNCHANGED fp
  /\ UNCHANGED conv /\ Quiet

-----------------------------------------------------------------------------
(* unsigned_num_print: the digits, then the field.                         *)

DigitChar(d) == IF "capitalise" \in conv.flags THEN Upper[d + 1] ELSE Lower[d + 1]

\* do { ... } while (unum > 0)
MoreDigits == num.unum > 0 \/ num.num_buf = << >>

NextDigit ==
  /\ pc = "digits" /\ MoreDigits
  /\ num' = [num EXCEPT !.unum = @ \div num.radix,
                        !.num_buf = <<DigitChar(num.unum % num.radix)>> \o @]
  /\ UNCHANGED <<pc, call, fp, ap, n, conv>> /\ UNCHANGED put

Pad(k) == [i \in 1 .. (IF k > 0 THEN k ELSE 0) |-> conv.padc]

\* (variant) the width of the number is forgotten
PaddedAll(w) == Pad(conv.padn) \o num.num_buf \o Pad(- conv.padn)
\* padding on the left, the number, padding on the right
Padded(w) == Pad(conv.padn - w) \o num.num_buf \o Pad(- (w + conv.padn))

Field ==
  /\ pc = "digits" /\ ~ MoreDigits
  /\ PutChars(Padded(Len(num.num_buf)))
  /\ pc' = "text" /\ fp' = fp + 1
  /\ UNCHANGED <<call, ap, n, conv, num>>

Switch  == \/ PercentPercent \/ Digit \/ WidthDigit \/ WidthEnd \/ Minus \/ LengthZ
           \/ LengthL \/ Signed \/ Unsigned \/ Pointer \/ Str \/ Other
\* the call is over
Over == pc \in {"returned", "panicked", "outside"} /\ UNCHANGED vars

Next    == Entry \/ Text \/ Percent \/ Terminate \/ Switch \/ NextDigit \/ Field
           \/ Over

Spec == Init /\ [][Next]_vars

-----------------------------------------------------------------------------
\* No byte behind the size the caller gave is ever written.
NeverPastSize == \A a \in DOMAIN buf : a >= call.size => buf[a] = Junk

\* The result is the length of the whole output, whatever the size.  If there is any
\* room, the buffer ends up with as much of the output as fits and a terminator; a
\* result lower than the size means that all of it is there.
AsMuchAsFits ==
  pc = "returned" =>
    /\ chars_printed = Len(out)
    /\ call.size > 0 =>
         \E k \in 0 .. call.size - 1 :
           /\ \A a \in 0 .. k - 1 : buf[a] = out[a + 1]
           /\ buf[k] = NUL
           /\ k = Len(out) \/ (k = call.size - 1 /\ k < Len(out))

\* The output is the one the comment above vsnprintf describes.
OutputAsDocumented == pc = "returned" => out = call.doc
=============================================================================
