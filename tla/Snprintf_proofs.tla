--------------------------- MODULE Snprintf_proofs ---------------------------
(* Theorems about Snprintf and Printf, for every format, every list of       *)
(* arguments, every size and an int of any width: types, what is in the      *)
(* buffer, and that each puts out what FormatDoc describes.                  *)
EXTENDS Formats, WellFoundedInduction, TLAPS

Types == TypeOK /\ call \in Calls /\ fp # 0

\* What is in the buffer while something is printed: the output as far as there is room,
\* and behind it what was there before the call, but for the terminator of a buffer that
\* has no room for anything else.
Buffered ==
  /\ n = Reserved /\ chars_printed = Len(out)
  /\ s = IF Len(out) < n THEN Len(out) ELSE n
  /\ \A a \in 0 .. s - 1 : buf[a] = out[a + 1]
  /\ \A a \in DOMAIN buf : a >= s => buf[a] = Junk \/ (a = 0 /\ call.size = 1)
  /\ call.size = 1 => buf[0] = NUL

Untouched ==
  /\ n = call.size /\ s = 0 /\ chars_printed = 0 /\ out = << >>
  /\ \A a \in DOMAIN buf : buf[a] = Junk

\* The inductive invariant
IInv ==
  /\ Types
  /\ pc = "entry" => Untouched
  /\ pc \notin {"entry", "returned"} => Buffered
  /\ pc = "returned" => NeverPastSize /\ AsMuchAsFits

LEMMA Sizes ==
  ASSUME Types
  PROVE  /\ MemSize \in Nat /\ call.size \in 0 .. MemSize /\ call.fmt \in Seq(Char)
         /\ DOMAIN buf = 0 .. MemSize - 1
         /\ Reserved \in Nat /\ (call.size # 0 => Reserved = call.size - 1)
         /\ (call.size = 0 => Reserved = 0)
<1>1. MemSize \in Nat /\ call.size \in 0 .. MemSize /\ call.fmt \in Seq(Char)
  BY IntAssumption DEF Types, TypeOK
<1>2. DOMAIN buf = 0 .. MemSize - 1
  BY DEF Types, TypeOK
<1>3. QED
  BY <1>1, <1>2 DEF Reserved

\* a character of the format string is a character
LEMMA Current ==
  ASSUME Types, cur # NUL
  PROVE  cur \in Char
<1>1. fp <= Len(call.fmt) /\ cur = call.fmt[fp]
  BY DEF cur
<1>2. fp \in 1 .. Len(call.fmt) /\ call.fmt \in Seq(Char)
  BY <1>1 DEF Types, TypeOK
<1>3. QED
  BY <1>1, <1>2

LEMMA BufferedSafe ==
  ASSUME Types, Buffered
  PROVE  NeverPastSize
<1>. SUFFICES ASSUME NEW a \in DOMAIN buf, a >= call.size PROVE buf[a] = Junk
  BY DEF NeverPastSize
<1>1. Len(out) \in Nat
  BY DEF Types, TypeOK
<1>2. s <= Reserved /\ s \in Nat
  BY <1>1, Sizes DEF Buffered
<1>3. a \in Nat /\ a >= s /\ ~ (a = 0 /\ call.size = 1)
  BY <1>2, Sizes
<1>4. QED
  BY <1>3 DEF Buffered

\* CHECK_AND_PUT_CHAR keeps the buffer as described
LEMMA PutKeeps ==
  ASSUME Types, Buffered, NEW cs \in Seq(Char \cup {NUL}), PutChars(cs), UNCHANGED <<n, call>>
  PROVE  /\ Buffered'
         /\ s' \in Nat /\ chars_printed' \in Nat /\ out' \in Seq(Char \cup {NUL})
         /\ buf' \in [0 .. MemSize - 1 -> Char \cup {NUL, Junk}]
<1>. DEFINE k == Stored(Len(cs))
<1>1. /\ buf \in [0 .. MemSize - 1 -> Char \cup {NUL, Junk}] /\ n \in Nat
      /\ out \in Seq(Char \cup {NUL}) /\ Len(cs) \in Nat /\ Len(out) \in Nat
      /\ chars_printed \in Nat /\ s \in Nat
  BY DEF Types, TypeOK
<1>2. /\ n = Reserved /\ chars_printed = Len(out)
      /\ s = IF Len(out) < n THEN Len(out) ELSE n
      /\ s \in Nat /\ s <= n
  BY <1>1 DEF Buffered
<1>3. /\ k \in 0 .. Len(cs)
      /\ s + k = IF Len(out) + Len(cs) < n THEN Len(out) + Len(cs) ELSE n
      /\ k # 0 => s = Len(out)
  <2>1. k = IF n <= Len(out) THEN 0
            ELSE IF Len(cs) <= n - Len(out) THEN Len(cs) ELSE n - Len(out)
    BY <1>2 DEF Stored
  <2>. HIDE DEF k
  <2>2. Len(out) \in Nat /\ Len(cs) \in Nat /\ n \in Nat
    BY <1>1
  <2>3. s = IF Len(out) < n THEN Len(out) ELSE n
    BY <1>2
  <2>4. CASE n <= Len(out)
    BY <2>1, <2>2, <2>3, <2>4
  <2>5. CASE ~ (n <= Len(out)) /\ Len(cs) <= n - Len(out)
    <3>1. k = Len(cs) /\ s = Len(out)
      BY <2>1, <2>2, <2>3, <2>5
    <3>2. QED
      BY <2>2, <2>5, <3>1
  <2>6. CASE ~ (n <= Len(out)) /\ ~ (Len(cs) <= n - Len(out))
    <3>1. k = n - Len(out) /\ s = Len(out)
      BY <2>1, <2>2, <2>3, <2>6
    <3>2. QED
      BY <2>2, <2>6, <3>1
  <2>7. QED
    BY <2>4, <2>5, <2>6
<1>. HIDE DEF k
<1>14. /\ s \in Nat /\ k \in Nat /\ s <= Len(out) /\ k <= Len(cs)
       /\ Len(out) \in Nat /\ Len(cs) \in Nat /\ (k # 0 => s = Len(out))
  BY <1>1, <1>2, <1>3
<1>4. /\ buf' = [a \in DOMAIN buf |-> IF s <= a /\ a < s + k THEN cs[a - s + 1] ELSE buf[a]]
      /\ s' = s + k /\ chars_printed' = chars_printed + Len(cs) /\ out' = out \o cs
      /\ n' = n /\ call' = call
  BY DEF PutChars, k
<1>5. /\ out' \in Seq(Char \cup {NUL}) /\ Len(out') = Len(out) + Len(cs)
      /\ \A i \in 1 .. Len(out) : out'[i] = out[i]
      /\ \A i \in 1 .. Len(cs) : out'[Len(out) + i] = cs[i]
  BY <1>1, <1>4
<1>6. DOMAIN buf = 0 .. MemSize - 1 /\ DOMAIN buf' = 0 .. MemSize - 1 /\ MemSize \in Nat
  BY <1>1, <1>4, Sizes
<1>7. buf' \in [0 .. MemSize - 1 -> Char \cup {NUL, Junk}]
  <2>1. ASSUME NEW a \in DOMAIN buf
        PROVE  (IF s <= a /\ a < s + k THEN cs[a - s + 1] ELSE buf[a]) \in Char \cup {NUL, Junk}
    <3>1. CASE s <= a /\ a < s + k
      <4>1. a - s + 1 \in 1 .. Len(cs)
        BY <1>2, <1>3, <1>6, <3>1
      <4>2. QED
        BY <3>1, <4>1
    <3>2. CASE ~ (s <= a /\ a < s + k)
      BY <1>1, <1>6, <3>2
    <3>3. QED
      BY <3>1, <3>2
  <2>2. QED
    BY <1>4, <1>6, <2>1
<1>8. n' = Reserved' /\ chars_printed' = Len(out') /\ s' = IF Len(out') < n' THEN Len(out') ELSE n'
  BY <1>2, <1>3, <1>4, <1>5 DEF Reserved
<1>9. ASSUME NEW a \in 0 .. s' - 1
      PROVE  buf'[a] = out'[a + 1]
  <2>1. a \in DOMAIN buf /\ a \in Nat
    BY <1>1, <1>2, <1>3, <1>4, <1>6, Sizes
  <2>2. CASE a < s
    <3>1. a \in 0 .. s - 1 /\ a + 1 \in 1 .. Len(out) /\ ~ (s <= a)
      BY <1>14, <2>1, <2>2
    <3>2. buf'[a] = buf[a]
      BY <1>4, <2>1, <3>1
    <3>3. QED
      BY <1>5, <3>1, <3>2 DEF Buffered
  <2>3. CASE ~ (a < s)
    <3>1. s' = s + k /\ s <= a /\ a < s + k
      BY <1>4, <1>14, <2>1, <2>3
    <3>2. s = Len(out) /\ a - s + 1 \in 1 .. Len(cs) /\ Len(out) + (a - s + 1) = a + 1
      BY <1>14, <2>1, <3>1
    <3>3. buf'[a] = cs[a - s + 1]
      BY <1>4, <2>1, <3>1
    <3>4. out'[Len(out) + (a - s + 1)] = cs[a - s + 1]
      BY <1>5, <3>2
    <3>5. QED
      BY <3>2, <3>3, <3>4
  <2>4. QED
    BY <2>2, <2>3
<1>10. ASSUME NEW a \in DOMAIN buf', a >= s'
       PROVE  buf'[a] = Junk \/ (a = 0 /\ call'.size = 1)
  <2>1. a \in DOMAIN buf /\ a \in Nat /\ a >= s /\ ~ (a < s + k)
    BY <1>1, <1>3, <1>4, <1>6, <1>10
  <2>2. buf'[a] = buf[a]
    BY <1>4, <2>1
  <2>3. QED
    BY <1>4, <2>1, <2>2 DEF Buffered
<1>11. call'.size = 1 => buf'[0] = NUL
  <2>. SUFFICES ASSUME call.size = 1 PROVE buf'[0] = NUL
    BY <1>4
  <2>1. n = 0 /\ s = 0 /\ k = 0 /\ 0 \in DOMAIN buf
    BY <1>1, <1>2, <1>3, <1>6, Sizes
  <2>2. buf'[0] = buf[0]
    BY <1>4, <2>1
  <2>3. QED
    BY <2>2 DEF Buffered
<1>12. s' \in Nat /\ chars_printed' \in Nat
  BY <1>1, <1>3, <1>4
<1>13. QED
  BY <1>5, <1>7, <1>8, <1>9, <1>10, <1>11, <1>12 DEF Buffered

LEMMA QuietKeeps ==
  ASSUME Types, Buffered, UNCHANGED put, UNCHANGED <<n, call>>
  PROVE  /\ Buffered'
         /\ s' \in Nat /\ chars_printed' \in Nat /\ out' \in Seq(Char \cup {NUL})
         /\ buf' \in [0 .. MemSize - 1 -> Char \cup {NUL, Junk}]
<1>1. UNCHANGED <<s, buf, chars_printed, out, n, call>>
  BY DEF put
<1>2. Reserved' = Reserved
  BY <1>1 DEF Reserved
<1>3. Buffered'
  BY <1>1, <1>2 DEF Buffered
<1>4. QED
  BY <1>1, <1>3 DEF Types, TypeOK
-----------------------------------------------------------------------------
(* The steps of the walk over the format string                            *)

\* what a step in the middle of the call has to keep
LEMMA Keeps ==
  ASSUME IInv, pc \notin {"entry", "returned"}, UNCHANGED <<call, n>>,
         fp' \in Nat \ {0}, ap' \in Nat, conv' \in Conv, num' \in Num,
         pc' \in {"text", "spec", "width", "digits", "panicked", "outside"},
         UNCHANGED put \/ \E cs \in Seq(Char \cup {NUL}) : PutChars(cs)
  PROVE  IInv'
<1>1. Types /\ Buffered
  BY DEF IInv
<1>2. /\ Buffered'
      /\ s' \in Nat /\ chars_printed' \in Nat /\ out' \in Seq(Char \cup {NUL})
      /\ buf' \in [0 .. MemSize - 1 -> Char \cup {NUL, Junk}]
  <2>1. CASE UNCHANGED put
    BY <1>1, <2>1, QuietKeeps
  <2>2. CASE \E cs \in Seq(Char \cup {NUL}) : PutChars(cs)
    BY <1>1, <2>2, PutKeeps
  <2>3. QED
    BY <2>1, <2>2
<1>3. Types'
  BY <1>1, <1>2 DEF Types, TypeOK
<1>4. QED
  BY <1>2, <1>3 DEF IInv

\* what is known before such a step
LEMMA Known ==
  ASSUME IInv
  PROVE  /\ Types /\ fp \in Nat \ {0} /\ fp + 1 \in Nat \ {0}
         /\ ap \in Nat /\ ap + 1 \in Nat
         /\ conv \in Conv /\ num \in Num
         /\ NoConv \in Conv
<1>1. Types /\ fp \in Nat \ {0} /\ ap \in Nat /\ conv \in Conv /\ num \in Num
  BY DEF IInv, Types, TypeOK
<1>2. NoConv \in Conv
  BY DEF NoConv, Conv
<1>3. QED
  BY <1>1, <1>2

LEMMA One ==
  ASSUME NEW c \in Char PROVE <<c>> \in Seq(Char \cup {NUL})
OBVIOUS

\* the digits of the two tables are characters
LEMMA Tables == \A i \in 1 .. 16 : Lower[i] \in Char /\ Upper[i] \in Char
<1>1. /\ {Lower[i] : i \in 1 .. 16} \subseteq Char
      /\ {Upper[i] : i \in 1 .. 16} \subseteq Char
  BY CharAssumption
<1>2. QED
  BY <1>1

LEMMA TextKeeps == IInv /\ Text => IInv'
<1>. SUFFICES ASSUME IInv, Text PROVE IInv'
  OBVIOUS
<1>1. /\ pc = "text" /\ cur # NUL /\ PutChars(<<cur>>) /\ fp' = fp + 1 /\ conv' = NoConv
      /\ UNCHANGED <<pc, call, ap, n, num>>
  BY DEF Text
<1>2. <<cur>> \in Seq(Char \cup {NUL})
  BY <1>1, Known, Current, One
<1>3. QED
  BY <1>1, <1>2, Known, Keeps

LEMMA PercentKeeps == IInv /\ Percent => IInv'
<1>. SUFFICES ASSUME IInv, Percent PROVE IInv'
  OBVIOUS
<1>1. /\ pc = "text" /\ pc' = "spec" /\ fp' = fp + 1 /\ conv' = NoConv
      /\ UNCHANGED <<call, ap, n, num>> /\ UNCHANGED put
  BY DEF Percent, Quiet
<1>2. QED
  BY <1>1, Known, Keeps

LEMMA PercentPercentKeeps == IInv /\ PercentPercent => IInv'
<1>. SUFFICES ASSUME IInv, PercentPercent PROVE IInv'
  OBVIOUS
<1>1. /\ pc = "spec" /\ PutChars(<<"%">>) /\ pc' = "text" /\ fp' = fp + 1
      /\ UNCHANGED <<call, ap, n, conv, num>>
  BY DEF PercentPercent
<1>2. <<"%">> \in Seq(Char \cup {NUL})
  <2>1. "%" \in Char
    BY CharAssumption
  <2>2. QED
    BY <2>1, One
<1>3. QED
  BY <1>1, <1>2, Known, Keeps

LEMMA DigitKeeps == IInv /\ Digit => IInv'
<1>. SUFFICES ASSUME IInv, Digit PROVE IInv'
  OBVIOUS
<1>1. /\ pc = "spec" /\ pc' = "width"
      /\ conv' = [conv EXCEPT !.padc = IF cur = "0" THEN "0" ELSE " ", !.padn = 0]
      /\ UNCHANGED <<fp, call, ap, n, num>> /\ UNCHANGED put
  BY DEF Digit, Quiet
<1>2. "0" \in Char /\ " " \in Char
  <2>1. Lower[1] \in Char
    BY Tables
  <2>2. QED
    BY <2>1, CharAssumption DEF Lower
<1>3. conv' \in Conv
  <2>1. PICK c \in Char : c = IF cur = "0" THEN "0" ELSE " "
    BY <1>2
  <2>2. conv' = [conv EXCEPT !.padc = c, !.padn = 0]
    BY <1>1, <2>1
  <2>3. conv \in Conv /\ c \in Char \cup {NUL} /\ 0 \in Int
    BY Known
  <2>4. [conv EXCEPT !.padc = c] \in Conv
    BY <2>3 DEF Conv
  <2>5. [[conv EXCEPT !.padc = c] EXCEPT !.padn = 0] \in Conv
    BY <2>3, <2>4 DEF Conv
  <2>6. QED
    BY <2>2, <2>3, <2>5 DEF Conv
<1>4. QED
  BY <1>1, <1>3, Known, Keeps

\* the value of a decimal digit is a number
LEMMA DigitValue ==
  ASSUME NEW c \in DecimalDigits PROVE ValueOf(c) \in 0 .. 9
<1>1. PICK i \in 1 .. 10 : c = Lower[i]
  BY DEF DecimalDigits
<1>2. i - 1 \in 0 .. 9 /\ Lower[(i - 1) + 1] = c
  BY <1>1
<1>3. QED
  BY <1>2 DEF ValueOf

LEMMA WidthDigitKeeps == IInv /\ WidthDigit => IInv'
<1>. SUFFICES ASSUME IInv, WidthDigit PROVE IInv'
  OBVIOUS
<1>1. /\ pc = "width" /\ cur \in DecimalDigits
      /\ conv' = [conv EXCEPT !.padn = conv.padn * 10 + ValueOf(cur)]
      /\ fp' = fp + 1 /\ UNCHANGED <<pc, call, ap, n, num>> /\ UNCHANGED put
  BY DEF WidthDigit, Quiet
<1>2. conv.padn * 10 + ValueOf(cur) \in Int
  <2>1. conv.padn \in Int
    BY Known DEF Conv
  <2>2. ValueOf(cur) \in 0 .. 9
    BY <1>1, DigitValue
  <2>3. QED
    BY <2>1, <2>2
<1>3. conv' \in Conv
  BY <1>1, <1>2, Known DEF Conv
<1>4. QED
  BY <1>1, <1>3, Known, Keeps

LEMMA WidthEndKeeps == IInv /\ WidthEnd => IInv'
<1>. SUFFICES ASSUME IInv, WidthEnd PROVE IInv'
  OBVIOUS
<1>1. /\ pc = "width" /\ pc' = "spec"
      /\ conv' = [conv EXCEPT !.padn = IF "left" \in conv.flags THEN - conv.padn ELSE conv.padn]
      /\ UNCHANGED <<fp, call, ap, n, num>> /\ UNCHANGED put
  BY DEF WidthEnd, Quiet
<1>2. conv' \in Conv
  BY <1>1, Known DEF Conv
<1>3. QED
  BY <1>1, <1>2, Known, Keeps

LEMMA ModifierKeeps ==
  ASSUME IInv, NEW c, NEW newConv \in Conv, Modifier(c, newConv)
  PROVE  IInv'
<1>1. /\ pc = "spec" /\ conv' = newConv /\ fp' = fp + 1
      /\ UNCHANGED <<pc, call, ap, n, num>> /\ UNCHANGED put
  BY DEF Modifier, Quiet
<1>2. QED
  BY <1>1, Known, Keeps

LEMMA ModifiersKeep == IInv /\ (Minus \/ LengthZ \/ LengthL) => IInv'
<1>. SUFFICES ASSUME IInv, Minus \/ LengthZ \/ LengthL PROVE IInv'
  OBVIOUS
<1>1. CASE Minus
  <2>1. [conv EXCEPT !.flags = conv.flags \cup {"left"}] \in Conv
    BY Known DEF Conv
  <2>2. QED
    BY <1>1, <2>1, ModifierKeeps DEF Minus
<1>2. CASE LengthZ
  <2>1. [conv EXCEPT !.l_count = 1] \in Conv
    BY Known DEF Conv
  <2>2. QED
    BY <1>2, <2>1, ModifierKeeps DEF LengthZ
<1>3. CASE LengthL
  <2>1. [conv EXCEPT !.l_count = conv.l_count + 1] \in Conv
    BY Known DEF Conv
  <2>2. QED
    BY <1>3, <2>1, ModifierKeeps DEF LengthL
<1>4. QED
  BY <1>1, <1>2, <1>3
-----------------------------------------------------------------------------
(* The conversions                                                         *)

\* the call of unsigned_num_print
LEMMA NumberBegins ==
  ASSUME Types, NEW unum \in Nat, NEW radix \in {10, 16}, PrintNumber(unum, radix)
  PROVE  num' \in Num /\ pc' = "digits" /\ UNCHANGED <<call, fp, n>>
<1>1. << >> \in Seq(Char)
  OBVIOUS
<1>2. QED
  BY <1>1 DEF PrintNumber, Num

LEMMA SignedKeeps == IInv /\ Signed => IInv'
<1>. SUFFICES ASSUME IInv, Signed PROVE IInv'
  OBVIOUS
<1>. DEFINE i == ToInt(arg)
<1>1. /\ pc = "spec" /\ get_num_va_arg /\ conv' = conv
      /\ IF i < 0 THEN PutChars(<<"-">>) /\ PrintNumber((- i) % IntSpan, 10)
         ELSE UNCHANGED put /\ PrintNumber(i, 10)
  BY DEF Signed
<1>2. ap' = ap + 1 /\ arg \in Int
  BY <1>1, IntAssumption DEF get_num_va_arg, Take
<1>3. i \in Int /\ IntSpan \in Nat \ {0}
  <2>1. arg % IntSpan \in Int
    BY <1>2, IntAssumption
  <2>2. QED
    BY <2>1, IntAssumption DEF ToInt
<1>4. (- i) % IntSpan \in Nat
  BY <1>3
<1>5. "-" \in Char
  BY CharAssumption
<1>. HIDE DEF i
<1>6. /\ num' \in Num /\ pc' = "digits" /\ UNCHANGED <<call, fp, n>>
      /\ UNCHANGED put \/ \E cs \in Seq(Char \cup {NUL}) : PutChars(cs)
  <2>1. CASE i < 0
    BY <1>1, <1>4, <1>5, <2>1, One, Known, NumberBegins
  <2>2. CASE ~ (i < 0)
    <3>1. i \in Nat /\ PrintNumber(i, 10) /\ UNCHANGED put
      BY <1>1, <1>3, <2>2
    <3>2. QED
      BY <3>1, Known, NumberBegins
  <2>3. QED
    BY <2>1, <2>2
<1>7. QED
  BY <1>1, <1>2, <1>6, Known, Keeps

LEMMA UnsignedKeeps == IInv /\ Unsigned => IInv'
<1>. SUFFICES ASSUME IInv, Unsigned PROVE IInv'
  OBVIOUS
<1>. DEFINE extra == IF cur = "X" THEN {"capitalise"} ELSE {}
            radix == IF cur = "u" THEN 10 ELSE 16
<1>1. /\ pc = "spec" /\ get_unum_va_arg /\ PrintNumber(arg, radix)
      /\ conv' = [conv EXCEPT !.flags = conv.flags \cup extra]
      /\ UNCHANGED put
  BY DEF Unsigned
<1>2. ap' = ap + 1 /\ arg \in Nat
  BY <1>1, IntAssumption DEF get_unum_va_arg, Take
<1>3. extra \subseteq {"left", "capitalise"} /\ radix \in {10, 16}
  OBVIOUS
<1>. HIDE DEF extra, radix
<1>4. num' \in Num /\ pc' = "digits" /\ UNCHANGED <<call, fp, n>>
  BY <1>1, <1>2, <1>3, Known, NumberBegins
<1>5. conv' \in Conv
  BY <1>1, <1>3, Known DEF Conv
<1>6. QED
  BY <1>1, <1>2, <1>4, <1>5, Known, Keeps

LEMMA PointerKeeps == IInv /\ Pointer => IInv'
<1>. SUFFICES ASSUME IInv, Pointer PROVE IInv'
  OBVIOUS
<1>1. /\ pc = "spec" /\ arg \in Nat /\ ap' = ap + 1 /\ PrintNumber(arg, 16)
      /\ \/ PutChars(<<"0", "x">>) /\ conv' = [conv EXCEPT !.padn = conv.padn - 2]
         \/ UNCHANGED put /\ UNCHANGED conv
  BY DEF Pointer, Take
<1>2. <<"0", "x">> \in Seq(Char \cup {NUL})
  <2>1. Lower[1] \in Char
    BY Tables
  <2>2. "x" \in Char
    BY CharAssumption
  <2>3. QED
    BY <2>1, <2>2 DEF Lower
<1>3. conv' \in Conv
  BY <1>1, Known DEF Conv
<1>4. num' \in Num /\ pc' = "digits" /\ UNCHANGED <<call, fp, n>>
  BY <1>1, Known, NumberBegins
<1>5. QED
  BY <1>1, <1>2, <1>3, <1>4, Known, Keeps

LEMMA StrKeeps == IInv /\ Str => IInv'
<1>. SUFFICES ASSUME IInv, Str PROVE IInv'
  OBVIOUS
<1>1. /\ pc = "spec" /\ arg \in Seq(Char) /\ ap' = ap + 1 /\ PutChars(arg)
      /\ pc' = "text" /\ fp' = fp + 1 /\ UNCHANGED <<call, n, conv, num>>
  BY DEF Str, Take
<1>2. arg \in Seq(Char \cup {NUL})
  BY <1>1
<1>3. QED
  BY <1>1, <1>2, Known, Keeps

LEMMA OtherKeeps == IInv /\ Other => IInv'
<1>. SUFFICES ASSUME IInv, Other PROVE IInv'
  OBVIOUS
<1>1. /\ pc = "spec" /\ pc' \in {"outside", "text", "panicked"} /\ fp' \in {fp, fp + 1}
      /\ UNCHANGED <<conv, call, ap, n, num>> /\ UNCHANGED put
  BY DEF Other, Quiet
<1>2. QED
  BY <1>1, Known, Keeps
-----------------------------------------------------------------------------
(* unsigned_num_print                                                      *)

LEMMA LastDigit ==
  ASSUME NEW u \in Nat, NEW radix \in {10, 16}
  PROVE  u \div radix \in Nat /\ u % radix \in 0 .. 15
<1>1. u \div 10 \in Nat /\ u % 10 \in 0 .. 9
  OBVIOUS
<1>2. u \div 16 \in Nat /\ u % 16 \in 0 .. 15
  OBVIOUS
<1>3. CASE radix = 10
  BY <1>1, <1>3
<1>4. CASE radix = 16
  BY <1>2, <1>4
<1>5. QED
  BY <1>3, <1>4

LEMMA NextDigitKeeps == IInv /\ NextDigit => IInv'
<1>. SUFFICES ASSUME IInv, NextDigit PROVE IInv'
  OBVIOUS
<1>. DEFINE digit == num.unum % num.radix
<1>1. /\ pc = "digits" /\ UNCHANGED <<pc, call, fp, ap, n, conv>> /\ UNCHANGED put
      /\ num' = [num EXCEPT !.unum = num.unum \div num.radix,
                            !.num_buf = <<DigitChar(digit)>> \o num.num_buf]
  BY DEF NextDigit
<1>2. num.unum \in Nat /\ num.radix \in {10, 16} /\ num.num_buf \in Seq(Char)
  BY Known DEF Num
<1>3. num.unum \div num.radix \in Nat /\ digit \in 0 .. 15
  <2>1. num.unum \div num.radix \in Nat /\ num.unum % num.radix \in 0 .. 15
    BY <1>2, LastDigit
  <2>2. QED
    BY <2>1
<1>. HIDE DEF digit
<1>4. DigitChar(digit) \in Char
  <2>1. digit + 1 \in 1 .. 16
    BY <1>3
  <2>2. QED
    BY <2>1, Tables DEF DigitChar
<1>5. <<DigitChar(digit)>> \o num.num_buf \in Seq(Char)
  BY <1>2, <1>4
<1>6. num' \in Num
  BY <1>1, <1>3, <1>5, Known DEF Num
<1>7. QED
  BY <1>1, <1>6, Known, Keeps

LEMMA PadIs ==
  ASSUME IInv, NEW k \in Int PROVE Pad(k) \in Seq(Char \cup {NUL})
<1>1. conv.padc \in Char \cup {NUL}
  BY Known DEF Conv
<1>2. (IF k > 0 THEN k ELSE 0) \in Nat
  OBVIOUS
<1>3. QED
  BY <1>1, <1>2 DEF Pad

LEMMA FieldKeeps == IInv /\ Field => IInv'
<1>. SUFFICES ASSUME IInv, Field PROVE IInv'
  OBVIOUS
<1>. DEFINE w == Len(num.num_buf)
<1>1. /\ pc = "digits" /\ PutChars(Padded(w)) /\ pc' = "text" /\ fp' = fp + 1
      /\ UNCHANGED <<call, ap, n, conv, num>>
  BY DEF Field
<1>2. w \in Int /\ conv.padn \in Int /\ num.num_buf \in Seq(Char)
  BY Known DEF Num, Conv
<1>. HIDE DEF w
<1>3. /\ Pad(conv.padn - w) \in Seq(Char \cup {NUL})
      /\ Pad(- (w + conv.padn)) \in Seq(Char \cup {NUL})
  <2>1. conv.padn - w \in Int /\ - (w + conv.padn) \in Int
    BY <1>2
  <2>2. QED
    BY <2>1, PadIs
<1>4. num.num_buf \in Seq(Char \cup {NUL})
  BY <1>2
<1>5. Padded(w) \in Seq(Char \cup {NUL})
  BY <1>3, <1>4 DEF Padded
<1>6. QED
  BY <1>1, <1>5, Known, Keeps
-----------------------------------------------------------------------------
(* The begin and the end of the call                                       *)

LEMMA EntryKeeps == IInv /\ Entry => IInv'
<1>. SUFFICES ASSUME IInv, Entry PROVE IInv'
  OBVIOUS
<1>1. /\ pc = "entry" /\ pc' = "text" /\ n' = Reserved
      /\ buf' = IF n = 1 THEN [buf EXCEPT ![0] = NUL] ELSE buf
      /\ UNCHANGED <<call, fp, ap, s, chars_printed, conv, num, out>>
  BY DEF Entry
<1>2. Types /\ Untouched
  BY <1>1 DEF IInv
<1>3. /\ n = call.size /\ s = 0 /\ chars_printed = 0 /\ out = << >>
      /\ \A a \in DOMAIN buf : buf[a] = Junk
      /\ buf \in [0 .. MemSize - 1 -> Char \cup {NUL, Junk}]
      /\ MemSize \in Nat /\ call.size \in 0 .. MemSize /\ Reserved \in Nat
      /\ DOMAIN buf = 0 .. MemSize - 1
  BY <1>2, Sizes DEF Untouched, Types, TypeOK
<1>4. buf' \in [0 .. MemSize - 1 -> Char \cup {NUL, Junk}]
  BY <1>1, <1>3
<1>5. Types'
  BY <1>1, <1>2, <1>3, <1>4 DEF Types, TypeOK
<1>6. \A a \in DOMAIN buf' : buf'[a] = Junk \/ (a = 0 /\ call.size = 1)
  BY <1>1, <1>3
<1>7. call.size = 1 => buf'[0] = NUL
  BY <1>1, <1>3
<1>8. n' = Reserved' /\ Len(out') = 0
  BY <1>1, <1>3 DEF Reserved
<1>9. s' = IF Len(out') < n' THEN Len(out') ELSE n'
  BY <1>1, <1>3, <1>8
<1>10. Buffered'
  BY <1>1, <1>3, <1>6, <1>7, <1>8, <1>9 DEF Buffered
<1>11. QED
  BY <1>1, <1>5, <1>10 DEF IInv

LEMMA TerminateKeeps == IInv /\ Terminate => IInv'
<1>. SUFFICES ASSUME IInv, Terminate PROVE IInv'
  OBVIOUS
<1>1. /\ pc = "text" /\ pc' = "returned"
      /\ buf' = IF n > 0 THEN [buf EXCEPT ![s] = NUL] ELSE buf
      /\ UNCHANGED <<call, fp, ap, n, s, chars_printed, conv, num, out>>
  BY DEF Terminate
<1>2. Types /\ Buffered /\ NeverPastSize
  BY <1>1, BufferedSafe DEF IInv
<1>3. /\ n = Reserved /\ chars_printed = Len(out) /\ Len(out) \in Nat
      /\ s = IF Len(out) < n THEN Len(out) ELSE n
      /\ s \in Nat /\ s <= n /\ n \in Nat /\ MemSize \in Nat /\ call.size \in 0 .. MemSize
      /\ (n > 0 => n = call.size - 1) /\ (n = 0 => call.size \in {0, 1})
      /\ buf \in [0 .. MemSize - 1 -> Char \cup {NUL, Junk}]
      /\ DOMAIN buf = 0 .. MemSize - 1
  BY <1>2, Sizes DEF Buffered, Types, TypeOK
<1>4. /\ buf' \in [0 .. MemSize - 1 -> Char \cup {NUL, Junk}]
      /\ \A a \in DOMAIN buf : a # s => buf'[a] = buf[a]
      /\ n > 0 => buf'[s] = NUL
  BY <1>1, <1>3
<1>5. Types'
  BY <1>1, <1>2, <1>4 DEF Types, TypeOK
<1>6. ASSUME NEW a \in DOMAIN buf', a >= call.size
      PROVE  buf'[a] = Junk
  <2>1. buf[a] = Junk
    BY <1>2, <1>3, <1>4, <1>6 DEF NeverPastSize
  <2>2. n = 0 \/ a # s
    BY <1>3, <1>4, <1>6
  <2>3. QED
    BY <1>1, <1>3, <1>4, <1>6, <2>1, <2>2
<1>7. NeverPastSize'
  BY <1>1, <1>6 DEF NeverPastSize
<1>8. ASSUME call.size > 0
      PROVE  /\ s \in 0 .. call.size - 1
             /\ \A a \in 0 .. s - 1 : buf'[a] = out[a + 1]
             /\ buf'[s] = NUL
             /\ s = Len(out) \/ (s = call.size - 1 /\ s < Len(out))
  <2>1. s \in 0 .. call.size - 1 /\ (s = Len(out) \/ (s = call.size - 1 /\ s < Len(out)))
    BY <1>3, <1>8
  <2>2. ASSUME NEW a \in 0 .. s - 1 PROVE buf'[a] = out[a + 1]
    <3>1. a \in DOMAIN buf /\ a # s
      BY <1>3
    <3>2. QED
      BY <1>2, <1>4, <3>1 DEF Buffered
  <2>3. buf'[s] = NUL
    <3>1. CASE n > 0
      BY <1>4, <3>1
    <3>2. CASE ~ (n > 0)
      <4>1. call.size = 1 /\ s = 0 /\ buf' = buf
        BY <1>1, <1>3, <1>8, <3>2
      <4>2. QED
        BY <1>2, <4>1 DEF Buffered
    <3>3. QED
      BY <3>1, <3>2
  <2>4. QED
    BY <2>1, <2>2, <2>3
<1>9. AsMuchAsFits'
  BY <1>1, <1>3, <1>8 DEF AsMuchAsFits
<1>10. QED
  BY <1>1, <1>5, <1>7, <1>9 DEF IInv
-----------------------------------------------------------------------------
LEMMA InitInv == Init => IInv
<1>. SUFFICES ASSUME Init PROVE IInv
  OBVIOUS
<1>1. /\ pc = "entry" /\ call \in Calls /\ fp = 1 /\ ap = 1 /\ n = call.size /\ s = 0
      /\ buf = [a \in 0 .. MemSize - 1 |-> Junk]
      /\ chars_printed = 0 /\ conv = NoConv /\ num = NoNum /\ out = << >>
  BY DEF Init
<1>2. call.fmt \in Seq(Char) /\ call.size \in 0 .. MemSize /\ MemSize \in Nat
  BY <1>1, CallsAssumption, IntAssumption
<1>3. conv \in Conv /\ num \in Num
  <2>1. << >> \in Seq(Char)
    OBVIOUS
  <2>2. QED
    BY <1>1, <2>1 DEF NoConv, Conv, NoNum, Num
<1>4. buf \in [0 .. MemSize - 1 -> Char \cup {NUL, Junk}]
  BY <1>1
<1>5. out \in Seq(Char \cup {NUL})
  BY <1>1
<1>6. Types
  BY <1>1, <1>2, <1>3, <1>4, <1>5 DEF Types, TypeOK
<1>7. Untouched
  BY <1>1 DEF Untouched
<1>8. QED
  BY <1>1, <1>6, <1>7 DEF IInv

LEMMA StepInv == IInv /\ [Next]_vars => IInv'
<1>. SUFFICES ASSUME IInv, [Next]_vars PROVE IInv'
  OBVIOUS
<1>1. CASE Switch
  BY <1>1, PercentPercentKeeps, DigitKeeps, WidthDigitKeeps, WidthEndKeeps, ModifiersKeep,
     SignedKeeps, UnsignedKeeps, PointerKeeps, StrKeeps, OtherKeeps DEF Switch
<1>2. CASE Over \/ UNCHANGED vars
  <2>1. UNCHANGED vars
    BY <1>2 DEF Over
  <2>2. QED
    BY <2>1 DEF vars, IInv, Types, TypeOK, Untouched, Buffered, Reserved, NeverPastSize,
                AsMuchAsFits
<1>3. QED
  BY <1>1, <1>2, EntryKeeps, TextKeeps, PercentKeeps, TerminateKeeps, NextDigitKeeps,
     FieldKeeps DEF Next

LEMMA Invariance == Spec => []IInv
BY InitInv, StepInv, PTL DEF Spec

\* The state of vsnprintf is well typed; in particular fmt and the va_list only go on.
THEOREM TypeCorrectness == Spec => []TypeOK
<1>1. IInv => TypeOK
  BY DEF IInv, Types
<1>2. QED
  BY <1>1, Invariance, PTL

\* Whatever the format and the arguments, nothing is written at or behind the size that
\* was given, not even while it is printing.
THEOREM StaysInSize == Spec => []NeverPastSize
<1>1. IInv => NeverPastSize
  <2>. SUFFICES ASSUME IInv PROVE NeverPastSize
    OBVIOUS
  <2>1. CASE pc = "entry"
    BY <2>1 DEF IInv, Untouched, NeverPastSize
  <2>2. CASE pc = "returned"
    BY <2>2 DEF IInv
  <2>3. CASE pc \notin {"entry", "returned"}
    BY <2>3, BufferedSafe DEF IInv
  <2>4. QED
    BY <2>1, <2>2, <2>3
<1>2. QED
  BY <1>1, Invariance, PTL

\* snprintf returns the length of the whole output and leaves as much of it as fits,
\* terminated, whatever the format, the arguments and the size.
THEOREM FillsWhatFits == Spec => []AsMuchAsFits
<1>1. IInv => AsMuchAsFits
  BY DEF IInv, AsMuchAsFits
<1>2. QED
  BY <1>1, Invariance, PTL
-----------------------------------------------------------------------------
(* Printf                                                                  *)

PTypes ==
  /\ P!TypeOK /\ printed \in Seq(Char \cup {NUL}) /\ pnum \in Num
  /\ ppc = "digits" => pfp <= Len(call.fmt)

\* what is known of a call
LEMMA CallFacts ==
  ASSUME IInv
  PROVE  call.fmt \in Seq(Char) /\ Len(call.fmt) \in Nat /\ Len(call.args) \in Nat
<1>1. call \in Calls
  BY DEF IInv, Types
<1>. QED  BY <1>1, CallsAssumption

\* what putchar is given, and how much of it is counted
LEMMA EmitFacts ==
  ASSUME PTypes, NEW cs \in Seq(Char \cup {NUL}), NEW k \in 0 .. Len(cs), P!Emit(cs, k)
  PROVE  printed' \in Seq(Char \cup {NUL}) /\ count' \in 0 .. Len(printed')
<1>1. printed' = printed \o cs /\ count' = count + k
  BY DEF P!Emit
<1>2. /\ printed \in Seq(Char \cup {NUL}) /\ count \in 0 .. Len(printed)
      /\ Len(printed) \in Nat /\ Len(cs) \in Nat
  BY DEF PTypes, P!TypeOK
<1>3. printed' \in Seq(Char \cup {NUL}) /\ Len(printed') = Len(printed) + Len(cs)
  BY <1>1, <1>2
<1>. QED  BY <1>1, <1>2, <1>3

\* what a step of printf has to keep
LEMMA PKeeps ==
  ASSUME IInv, PTypes, UNCHANGED call,
         ppc' \in {"text", "spec", "width", "digits", "pad", "returned"},
         pfp' \in 1 .. Len(call.fmt) + 1, pap' \in 1 .. Len(call.args) + 1,
         padc' \in {NUL, "0"}, padn' \in Int, l_count' \in Nat, pnum' \in Num, result' \in Int,
         printed' \in Seq(Char \cup {NUL}), count' \in 0 .. Len(printed'),
         ppc' = "digits" => pfp' <= Len(call.fmt)
  PROVE  PTypes'
BY DEF PTypes, P!TypeOK, P!NUL, NUL, Num

\* and what is known before
LEMMA PKnown ==
  ASSUME IInv, PTypes
  PROVE  /\ pfp \in 1 .. Len(call.fmt) + 1 /\ pap \in 1 .. Len(call.args) + 1
         /\ Len(call.fmt) \in Nat /\ Len(call.args) \in Nat /\ call.fmt \in Seq(Char)
         /\ padc \in {NUL, "0"} /\ padn \in Int /\ l_count \in Nat /\ pnum \in Num
         /\ result \in Int /\ printed \in Seq(Char \cup {NUL}) /\ count \in 0 .. Len(printed)
         /\ Len(printed) \in Nat /\ {"0", "%", "-", "x"} \subseteq Char
         /\ (P!cur # NUL => pfp <= Len(call.fmt) /\ P!cur \in Char)
<1>1. {"0", "%", "-", "x"} \subseteq Char
  <2>1. Lower[1] \in Char
    BY Tables
  <2>. QED  BY <2>1, CharAssumption DEF Lower
<1>2. P!cur # NUL => pfp <= Len(call.fmt) /\ P!cur = call.fmt[pfp]
  BY DEF P!cur, P!NUL, NUL
<1>3. /\ pfp \in 1 .. Len(call.fmt) + 1 /\ pap \in 1 .. Len(call.args) + 1
      /\ padc \in {NUL, "0"} /\ padn \in Int /\ l_count \in Nat /\ pnum \in Num
      /\ result \in Int /\ printed \in Seq(Char \cup {NUL}) /\ count \in 0 .. Len(printed)
  BY DEF PTypes, P!TypeOK, P!NUL, NUL
<1>4. Len(printed) \in Nat
  BY <1>3
<1>. QED  BY <1>1, <1>2, <1>3, <1>4, CallFacts

\* a step that reads a character
LEMMA PReads ==
  ASSUME IInv, PTypes, P!cur # NUL
  PROVE  /\ pfp + 1 \in 1 .. Len(call.fmt) + 1 /\ pfp <= Len(call.fmt)
         /\ {padn, 0, padn - 1, padn - 2} \subseteq Int
         /\ {l_count, 0, 2, l_count + 1} \subseteq Nat
         /\ (pap <= Len(call.args) => pap + 1 \in 1 .. Len(call.args) + 1)
<1>1. /\ pfp \in 1 .. Len(call.fmt) + 1 /\ pap \in 1 .. Len(call.args) + 1
      /\ Len(call.fmt) \in Nat /\ Len(call.args) \in Nat /\ pfp <= Len(call.fmt)
      /\ padn \in Int /\ l_count \in Nat
  BY PKnown
<1>2. pfp + 1 \in 1 .. Len(call.fmt) + 1
  BY <1>1
<1>3. pap <= Len(call.args) => pap + 1 \in 1 .. Len(call.args) + 1
  BY <1>1
<1>. QED  BY <1>1, <1>2, <1>3

\* the walk over the text and the flags
LEMMA PTextKeeps ==
  ASSUME IInv, PTypes, P!Text \/ P!Percent \/ P!PercentPercent
  PROVE  PTypes'
<1>1. /\ P!cur # NUL /\ pfp' = pfp + 1 /\ l_count' \in {0, l_count} /\ padn' \in {0, padn}
      /\ ppc' \in {"text", "spec"} /\ UNCHANGED <<call, pap, padc, pnum, result>>
  BY DEF P!Text, P!Percent, P!PercentPercent, P!NUL, NUL
<1>2. printed' \in Seq(Char \cup {NUL}) /\ count' \in 0 .. Len(printed')
  <2>1. CASE P!Text
    <3>1. <<P!cur>> \in Seq(Char \cup {NUL}) /\ 1 \in 0 .. Len(<<P!cur>>)
      BY <1>1, PKnown
    <3>. QED  BY <2>1, <3>1, EmitFacts DEF P!Text
  <2>2. CASE P!Percent
    BY <2>2, PKnown DEF P!Percent
  <2>3. CASE P!PercentPercent
    <3>1. <<"%">> \in Seq(Char \cup {NUL}) /\ 0 \in 0 .. Len(<<"%">>)
      BY PKnown
    <3>. QED  BY <2>3, <3>1, EmitFacts DEF P!PercentPercent
  <2>. QED  BY <2>1, <2>2, <2>3
<1>3. pfp' \in 1 .. Len(call.fmt) + 1 /\ padn' \in Int /\ l_count' \in Nat
  BY <1>1, PReads
<1>. QED  BY <1>1, <1>2, <1>3, PKnown, PKeeps

LEMMA PFlagKeeps ==
  ASSUME IInv, PTypes, P!Length \/ P!Zero \/ P!Width \/ P!End \/ P!Other
  PROVE  PTypes'
<1>1. UNCHANGED <<call, pap, pnum, printed, count>>
  BY DEF P!Length, P!Zero, P!Width, P!End, P!Other
<1>2. CASE P!Length \/ P!Zero
  <2>1. /\ P!cur # NUL /\ pfp' = pfp + 1 /\ l_count' \in {2, l_count, l_count + 1}
        /\ padn' \in {0, padn} /\ padc' \in {"0", padc} /\ ppc' \in {"spec", "width"}
        /\ result' = result
    BY <1>2 DEF P!Length, P!Zero, P!NUL, NUL
  <2>2. pfp' \in 1 .. Len(call.fmt) + 1 /\ padn' \in Int /\ l_count' \in Nat
    BY <2>1, PReads
  <2>. QED  BY <1>1, <2>1, <2>2, PKnown, PKeeps
<1>3. CASE P!Width
  <2>1. UNCHANGED <<padc, l_count, result>> /\ ppc' \in {"width", "spec"}
    BY <1>3 DEF P!Width
  <2>2. CASE P!cur \in P!Decimals
    <3>1. padn' = padn * 10 + P!ValueOf(P!cur) /\ pfp' = pfp + 1
      BY <1>3, <2>2 DEF P!Width
    <3>2. PICK i \in 1 .. 10 : P!cur = P!Table[i]
      BY <2>2 DEF P!Decimals
    <3>3. P!ValueOf(P!cur) \in 0 .. 9
      <4>1. i - 1 \in 0 .. 9 /\ P!Table[(i - 1) + 1] = P!cur
        BY <3>2
      <4>. QED  BY <4>1 DEF P!ValueOf
    <3>4. P!cur # NUL
      BY <3>2 DEF P!Table, NUL
    <3>5. padn' \in Int
      BY <3>1, <3>3, PKnown
    <3>. QED  BY <1>1, <2>1, <3>1, <3>4, <3>5, PKnown, PKeeps
  <2>3. CASE P!cur \notin P!Decimals
    <3>1. UNCHANGED <<padn, pfp>> /\ ppc' = "spec"
      BY <1>3, <2>3 DEF P!Width
    <3>. QED  BY <1>1, <2>1, <3>1, PKnown, PKeeps
  <2>. QED  BY <2>2, <2>3
<1>4. CASE P!End \/ P!Other
  <2>1. /\ ppc' = "returned" /\ result' \in {count, -1}
        /\ UNCHANGED <<pfp, padc, padn, l_count>>
    BY <1>4 DEF P!End, P!Other
  <2>. QED  BY <1>1, <2>1, PKnown, PKeeps
<1>. QED  BY <1>2, <1>3, <1>4

\* what is fetched as a number is one
LEMMA PArgTypes == P!SignedArg \subseteq Int /\ P!UnsignedArg \subseteq Nat
<1>. DEFINE h == IntSpan \div 2
<1>1. h \in Int /\ IntSpan \in Nat
  BY IntAssumption
<1>. HIDE DEF h
<1>2. (- h .. h - 1) \subseteq Int /\ (0 .. IntSpan - 1) \subseteq Nat
  BY <1>1
<1>. QED  BY <1>2 DEF P!SignedArg, P!UnsignedArg, h

\* the conversions
LEMMA PNumberKeeps ==
  ASSUME IInv, PTypes, P!Signed \/ P!Unsigned \/ P!Pointer
  PROVE  PTypes'
<1>1. /\ P!cur # NUL /\ pap <= Len(call.args) /\ pap' = pap + 1 /\ ppc' = "digits"
      /\ UNCHANGED <<call, pfp, padc, l_count, result>>
  BY DEF P!Signed, P!Unsigned, P!Pointer, P!PrintNumber, P!Given, NUL
<1>2. pnum' \in Num
  <2>1. PICK u \in Nat, r \in {10, 16} : P!PrintNumber(u, r)
    <3>1. CASE P!Signed
      <4>1. P!arg \in Int /\ P!PrintNumber(IF P!arg < 0 THEN - P!arg ELSE P!arg, 10)
        BY <3>1, PArgTypes DEF P!Signed, P!Given
      <4>2. (IF P!arg < 0 THEN - P!arg ELSE P!arg) \in Nat
        BY <4>1
      <4>. QED  BY <4>1, <4>2
    <3>2. CASE P!Unsigned
      <4>1. P!arg \in Nat /\ P!PrintNumber(P!arg, IF P!cur = "u" THEN 10 ELSE 16)
        BY <3>2, PArgTypes DEF P!Unsigned, P!Given
      <4>. QED  BY <4>1
    <3>3. CASE P!Pointer
      <4>1. P!arg \in Nat /\ P!PrintNumber(P!arg, 16)
        BY <3>3 DEF P!Pointer, P!Given
      <4>. QED  BY <4>1
    <3>. QED  BY <3>1, <3>2, <3>3
  <2>2. << >> \in Seq(Char)
    OBVIOUS
  <2>. QED  BY <2>1, <2>2 DEF P!PrintNumber, Num
<1>3. /\ padn' \in {padn, padn - 1, padn - 2}
      /\ \/ UNCHANGED <<printed, count>>
         \/ P!Emit(<<"-">>, 0)
         \/ P!Emit(<<"0", "x">>, 2)
  BY DEF P!Signed, P!Unsigned, P!Pointer, P!SignRoom
<1>4. printed' \in Seq(Char \cup {NUL}) /\ count' \in 0 .. Len(printed')
  <2>1. /\ <<"-">> \in Seq(Char \cup {NUL}) /\ 0 \in 0 .. Len(<<"-">>)
        /\ <<"0", "x">> \in Seq(Char \cup {NUL}) /\ 2 \in 0 .. Len(<<"0", "x">>)
    BY PKnown
  <2>. QED  BY <1>3, <2>1, PKnown, EmitFacts
<1>5. pap' \in 1 .. Len(call.args) + 1 /\ padn' \in Int /\ pfp <= Len(call.fmt)
  BY <1>1, <1>3, PReads
<1>. QED  BY <1>1, <1>2, <1>4, <1>5, PKnown, PKeeps

LEMMA PStrKeeps ==
  ASSUME IInv, PTypes, P!Str
  PROVE  PTypes'
<1>1. /\ P!cur # NUL /\ pap <= Len(call.args) /\ pap' = pap + 1 /\ ppc' = "text"
      /\ pfp' = pfp + 1 /\ P!arg \in Seq(Char) /\ P!Emit(P!arg, Len(P!arg))
      /\ UNCHANGED <<call, padc, padn, l_count, pnum, result>>
  BY DEF P!Str, P!Given, NUL
<1>2. P!arg \in Seq(Char \cup {NUL}) /\ Len(P!arg) \in 0 .. Len(P!arg)
  BY <1>1
<1>3. printed' \in Seq(Char \cup {NUL}) /\ count' \in 0 .. Len(printed')
  BY <1>1, <1>2, EmitFacts
<1>4. pap' \in 1 .. Len(call.args) + 1 /\ pfp' \in 1 .. Len(call.fmt) + 1
  BY <1>1, PReads
<1>. QED  BY <1>1, <1>3, <1>4, PKnown, PKeeps

\* unsigned_num_print
LEMMA PDigitsKeep ==
  ASSUME IInv, PTypes, P!NextDigit \/ P!PadChar \/ P!Number
  PROVE  PTypes'
<1>1. ppc = "digits" /\ pfp <= Len(call.fmt) /\ UNCHANGED <<call, pap, padc, l_count, result>>
  BY DEF PTypes, P!NextDigit, P!PadChar, P!Number
<1>2. pnum.unum \in Nat /\ pnum.radix \in {10, 16} /\ pnum.num_buf \in Seq(Char)
  BY PKnown DEF Num
<1>3. CASE P!NextDigit
  <2>. DEFINE digit == pnum.unum % pnum.radix
              rest  == pnum.unum \div pnum.radix
  <2>1. /\ UNCHANGED <<ppc, pfp, padn, printed, count>>
        /\ pnum' = [pnum EXCEPT !.unum = rest, !.num_buf = <<P!Table[digit + 1]>> \o pnum.num_buf]
    BY <1>3 DEF P!NextDigit
  <2>2. rest \in Nat /\ digit \in 0 .. 15
    <3>1. pnum.unum \div pnum.radix \in Nat /\ pnum.unum % pnum.radix \in 0 .. 15
      BY <1>2, LastDigit
    <3>. QED  BY <3>1
  <2>. HIDE DEF digit, rest
  <2>3. P!Table[digit + 1] \in Char
    <3>1. digit + 1 \in 1 .. 16
      BY <2>2
    <3>2. P!Table = Lower
      BY DEF P!Table, Lower
    <3>. QED  BY <3>1, <3>2, Tables
  <2>4. <<P!Table[digit + 1]>> \o pnum.num_buf \in Seq(Char)
    BY <1>2, <2>3
  <2>5. pnum' \in Num
    BY <2>1, <2>2, <2>4, PKnown DEF Num
  <2>. QED  BY <1>1, <2>1, <2>5, PKnown, PKeeps
<1>4. CASE P!PadChar
  <2>1. UNCHANGED <<ppc, pfp, pnum>> /\ padn' = padn - 1 /\ P!Emit(<<padc>>, 1)
    BY <1>4 DEF P!PadChar
  <2>2. <<padc>> \in Seq(Char \cup {NUL}) /\ 1 \in 0 .. Len(<<padc>>)
    BY PKnown
  <2>3. printed' \in Seq(Char \cup {NUL}) /\ count' \in 0 .. Len(printed')
    BY <2>1, <2>2, EmitFacts
  <2>. QED  BY <1>1, <2>1, <2>3, PKnown, PKeeps
<1>5. CASE P!Number
  <2>1. /\ UNCHANGED <<padn, pnum>> /\ ppc' = "text" /\ pfp' = pfp + 1
        /\ P!Emit(pnum.num_buf, Len(pnum.num_buf))
    BY <1>5 DEF P!Number
  <2>2. /\ pnum.num_buf \in Seq(Char \cup {NUL})
        /\ Len(pnum.num_buf) \in 0 .. Len(pnum.num_buf)
    BY <1>2
  <2>3. printed' \in Seq(Char \cup {NUL}) /\ count' \in 0 .. Len(printed')
    BY <2>1, <2>2, EmitFacts
  <2>. QED  BY <1>1, <2>1, <2>3, PKnown, PKeeps
<1>. QED  BY <1>3, <1>4, <1>5

\* Every step of printf keeps its types, and a step of snprintf keeps those of both.
LEMMA BothKeep == IInv /\ PTypes /\ [FNext]_<<vars, pvars>> => IInv' /\ PTypes'
<1>. SUFFICES ASSUME IInv, PTypes, [FNext]_<<vars, pvars>>
              PROVE  IInv' /\ PTypes'
  OBVIOUS
<1>1. CASE P!Next /\ UNCHANGED vars
  <2>1. IInv'
    BY <1>1, StepInv
  <2>2. CASE P!Over
    BY <2>1, <2>2 DEF P!Over, P!vars, PTypes, P!TypeOK
  <2>. QED  BY <1>1, <2>1, <2>2, PTextKeeps, PFlagKeeps, PNumberKeeps, PStrKeeps, PDigitsKeep
            DEF P!Next
<1>2. CASE UNCHANGED pvars /\ [Next]_vars
  <2>1. IInv'
    BY <1>2, StepInv
  <2>2. call' = call
    BY <1>2 DEF Next, Entry, Text, Percent, Terminate, Switch, PercentPercent, Digit, WidthDigit,
                WidthEnd, Minus, LengthZ, LengthL, Modifier, Quiet, Signed, Unsigned, Pointer,
                PrintNumber, Str, Other, NextDigit, Field, Over, vars
  <2>. QED  BY <1>2, <2>1, <2>2 DEF pvars, PTypes, P!TypeOK
<1>3. CASE UNCHANGED <<vars, pvars>>
  BY <1>2, <1>3
<1>. QED  BY <1>1, <1>2, <1>3 DEF FNext

LEMMA FInitInv == FInit => IInv /\ PTypes
<1>. SUFFICES ASSUME FInit PROVE IInv /\ PTypes
  OBVIOUS
<1>1. IInv
  BY InitInv DEF FInit
<1>2. << >> \in Seq(Char)
  OBVIOUS
<1>3. PTypes
  BY <1>1, <1>2, CallFacts
     DEF FInit, P!Start, PTypes, P!TypeOK, P!NoNum, Num, P!NUL
<1>. QED  BY <1>1, <1>3

\* Both interpreters of format strings stay well typed, one after the other on the same
\* arguments: printf never reads behind the NUL of its format nor an argument that was not
\* passed.
THEOREM BothTyped == FSpec => []FTypeOK
<1>1. IInv /\ PTypes => FTypeOK
  BY DEF IInv, Types, PTypes, FTypeOK
<1>. QED  BY <1>1, FInitInv, BothKeep, PTL DEF FSpec
-----------------------------------------------------------------------------
(* Induction and recursion over the numbers                                *)

\* the least-number principle
LEMMA LeastOf ==
  ASSUME NEW T \in SUBSET Nat, T # {}
  PROVE  \E l \in T : \A k \in T : l <= k
<1>. DEFINE R == OpToRel(<, Nat)
<1>1. ASSUME NEW x \in Nat, NEW y \in Nat PROVE <<x, y>> \in R <=> x < y
  BY DEF OpToRel
<1>2. IsWellFoundedOn(R, Nat)
  BY NatLessThanWellFounded
<1>. HIDE DEF R
<1>3. PICK l \in T : \A k \in T : ~ (<<k, l>> \in R)
  BY <1>2, WFMin
<1>4. ASSUME NEW k \in T PROVE l <= k
  <2>1. k \in Nat /\ l \in Nat /\ <<k, l>> \notin R
    BY <1>3
  <2>2. ~ (k < l)
    BY <1>1, <2>1
  <2>. QED  BY <2>1, <2>2
<1>. QED  BY <1>4

\* induction, for a set instead of a predicate
LEMMA Induction ==
  ASSUME NEW T, 0 \in T, \A m \in Nat : m \in T => m + 1 \in T
  PROVE  Nat \subseteq T
<1>. SUFFICES ASSUME Nat \ T # {}
              PROVE  FALSE
  OBVIOUS
<1>1. PICK x \in Nat \ T : \A y \in Nat \ T : x <= y
  BY LeastOf
<1>2. x - 1 \in Nat /\ x - 1 \notin Nat \ T
  BY <1>1
<1>. QED  BY <1>1, <1>2

\* how a value at n + 1 is computed from n and the value at n, and the values that follow
Steps(V)         == [Nat -> [V -> V]]
Runs(V, v0, g, h) == /\ h \in [Nat -> V] /\ h[0] = v0
                     /\ \A m \in Nat : h[m + 1] = g[m][h[m]]

\* Primitive recursion: there is a function with such steps.
LEMMA Recursion ==
  ASSUME NEW V, NEW v0 \in V, NEW g \in Steps(V)
  PROVE  \E h : Runs(V, v0, g, h)
<1>. USE DEF Steps
<1>. DEFINE Til(m, h) == h[0] = v0 /\ \A i \in 0 .. m - 1 : h[i + 1] = g[i][h[i]]
            D == {m \in Nat : \E h \in [0 .. m -> V] : Til(m, h)}
<1>1. 0 \in D
  <2>1. [i \in 0 .. 0 |-> v0] \in [0 .. 0 -> V] /\ Til(0, [i \in 0 .. 0 |-> v0])
    OBVIOUS
  <2>. QED  BY <2>1
<1>2. ASSUME NEW m \in Nat, m \in D
      PROVE  m + 1 \in D
  <2>1. PICK h \in [0 .. m -> V] : Til(m, h)
    BY <1>2
  <2>. DEFINE k == [i \in 0 .. m + 1 |-> IF i = m + 1 THEN g[m][h[m]] ELSE h[i]]
  <2>2. k \in [0 .. m + 1 -> V]
    OBVIOUS
  <2>3. k[0] = v0
    BY <2>1
  <2>4. ASSUME NEW i \in 0 .. (m + 1) - 1
        PROVE  k[i + 1] = g[i][k[i]]
    <3>1. k[i] = h[i]
      OBVIOUS
    <3>2. CASE i = m
      BY <3>1, <3>2
    <3>3. CASE i # m
      <4>1. i \in 0 .. m - 1 /\ k[i + 1] = h[i + 1]
        BY <3>3
      <4>. QED  BY <4>1, <3>1, <2>1
    <3>. QED  BY <3>2, <3>3
  <2>5. Til(m + 1, k)
    BY <2>3, <2>4
  <2>. HIDE DEF k, Til
  <2>. QED  BY <2>2, <2>5
<1>3. Nat \subseteq D
  <2>. HIDE DEF D
  <2>. QED  BY <1>1, <1>2, Induction
<1>4. ASSUME NEW m \in Nat, NEW h \in [0 .. m -> V], Til(m, h),
             NEW k \in [0 .. m + 1 -> V], Til(m + 1, k)
      PROVE  h[m] = k[m]
  <2>. DEFINE E == {i \in Nat : i <= m => h[i] = k[i]}
  <2>1. 0 \in E
    BY <1>4
  <2>2. ASSUME NEW i \in Nat, i \in E
        PROVE  i + 1 \in E
    BY <1>4, <2>2
  <2>3. Nat \subseteq E
    <3>. HIDE DEF E
    <3>. QED  BY <2>1, <2>2, Induction
  <2>. QED  BY <2>3
<1>. DEFINE part(m) == CHOOSE h \in [0 .. m -> V] : Til(m, h)
<1>5. ASSUME NEW m \in Nat
      PROVE  part(m) \in [0 .. m -> V] /\ Til(m, part(m))
  <2>. HIDE DEF Til
  <2>. QED  BY <1>3
<1>. DEFINE f1 == [m \in Nat |-> part(m)[m]]
<1>6. f1 \in [Nat -> V]
  <2>1. ASSUME NEW m \in Nat PROVE part(m)[m] \in V
    <3>. HIDE DEF part, Til
    <3>. QED  BY <1>5
  <2>. QED  BY <2>1
<1>7. f1[0] = v0
  <2>. HIDE DEF part
  <2>. QED  BY <1>5
<1>8. ASSUME NEW m \in Nat
      PROVE  f1[m + 1] = g[m][f1[m]]
  <2>0. m + 1 \in Nat
    OBVIOUS
  <2>3. part(m + 1) \in [0 .. m + 1 -> V] /\ Til(m + 1, part(m + 1))
    <3>. HIDE DEF part, Til
    <3>. QED  BY <1>5, <2>0
  <2>4. part(m) \in [0 .. m -> V] /\ Til(m, part(m))
    <3>. HIDE DEF part, Til
    <3>. QED  BY <1>5
  <2>1. part(m + 1)[m + 1] = g[m][part(m + 1)[m]]
    <3>. HIDE DEF part
    <3>. QED  BY <2>3
  <2>. DEFINE a == part(m)
              b == part(m + 1)
  <2>2. a[m] = b[m]
    <3>1. a \in [0 .. m -> V] /\ Til(m, a) /\ b \in [0 .. m + 1 -> V] /\ Til(m + 1, b)
      BY <2>3, <2>4
    <3>. HIDE DEF a, b, Til
    <3>. QED  BY <3>1, <1>4
  <2>. QED  BY <2>0, <2>1, <2>2
<1>. HIDE DEF f1
<1>9. Runs(V, v0, g, f1)
  BY <1>6, <1>7, <1>8 DEF Runs
<1>. QED  BY <1>9

\* what is appended for a number, and the smaller number it is appended to
Ends(E)    == [Nat -> E]
Falls(q, base) == q \in [Nat -> Nat] /\ \A u \in Nat : u >= base => q[u] < u
Appends(E, t, q, base, h) ==
  /\ h \in [Nat -> Seq(E)]
  /\ \A u \in Nat : h[u] = IF u < base THEN <<t[u]>> ELSE Append(h[q[u]], t[u])

\* Recursion on smaller numbers: there is a function that appends so.
LEMMA DigitRecursion ==
  ASSUME NEW E, NEW t \in Ends(E), NEW q, NEW base \in Nat \ {0}, Falls(q, base)
  PROVE  \E h : Appends(E, t, q, base, h)
<1>. USE DEF Ends, Falls
<1>. DEFINE V == [Nat -> Seq(E)]
            v0 == [u \in Nat |-> << >>]
            Next1(G) == [u \in Nat |-> IF u < base THEN <<t[u]>> ELSE Append(G[q[u]], t[u])]
            g == [m \in Nat |-> [G \in V |-> Next1(G)]]
<1>1. v0 \in V
  OBVIOUS
<1>2. ASSUME NEW G \in V PROVE Next1(G) \in V
  OBVIOUS
<1>3. g \in Steps(V)
  <2>. HIDE DEF Next1, V
  <2>. QED  BY <1>2 DEF Steps
<1>4. \A m \in Nat : \A G \in V : g[m][G] = Next1(G)
  <2>. HIDE DEF Next1, V
  <2>. QED  OBVIOUS
<1>5. PICK r \in [Nat -> V] : r[0] = v0 /\ \A m \in Nat : r[m + 1] = g[m][r[m]]
  <2>. HIDE DEF V, v0, g, Next1
  <2>1. \E r : Runs(V, v0, g, r)
    BY <1>1, <1>3, Recursion
  <2>. QED  BY <2>1 DEF Runs
<1>6. ASSUME NEW m \in Nat PROVE r[m + 1] = Next1(r[m]) /\ r[m] \in V /\ r[m + 1] \in V
  <2>. HIDE DEF V, v0, g, Next1
  <2>1. m + 1 \in Nat /\ r[m] \in V /\ r[m + 1] = g[m][r[m]]
    BY <1>5
  <2>2. r[m + 1] \in V
    BY <1>5, <2>1
  <2>. QED  BY <1>4, <2>1, <2>2
<1>. HIDE DEF g, v0
<1>7. ASSUME NEW m \in Nat, NEW u \in Nat
      PROVE  r[m + 1][u] = IF u < base THEN <<t[u]>> ELSE Append(r[m][q[u]], t[u])
  <2>1. r[m + 1] = Next1(r[m])
    BY <1>6
  <2>2. Next1(r[m])[u] = IF u < base THEN <<t[u]>> ELSE Append(r[m][q[u]], t[u])
    OBVIOUS
  <2>. HIDE DEF Next1
  <2>. QED  BY <2>1, <2>2
<1>8. \A m, u \in Nat : u < m => r[m + 1][u] = r[m][u]
  <2>. DEFINE T == {m \in Nat : \A u \in Nat : u < m => r[m + 1][u] = r[m][u]}
  <2>1. 0 \in T
    OBVIOUS
  <2>2. ASSUME NEW m \in Nat, m \in T PROVE m + 1 \in T
    <3>1. ASSUME NEW u \in Nat, u < m + 1 PROVE r[(m + 1) + 1][u] = r[m + 1][u]
      <4>1. r[(m + 1) + 1][u] = IF u < base THEN <<t[u]>> ELSE Append(r[m + 1][q[u]], t[u])
        <5>. DEFINE l == m + 1
        <5>1. l \in Nat
          OBVIOUS
        <5>. HIDE DEF l
        <5>2. r[l + 1][u] = IF u < base THEN <<t[u]>> ELSE Append(r[l][q[u]], t[u])
          BY <1>7, <5>1
        <5>. QED  BY <5>2 DEF l
      <4>2. r[m + 1][u] = IF u < base THEN <<t[u]>> ELSE Append(r[m][q[u]], t[u])
        BY <1>7
      <4>3. CASE u < base
        BY <4>1, <4>2, <4>3
      <4>4. CASE ~ (u < base)
        <5>1. q[u] \in Nat /\ q[u] < u
          BY <4>4
        <5>2. q[u] < m
          BY <3>1, <5>1
        <5>3. r[m + 1][q[u]] = r[m][q[u]]
          BY <2>2, <5>1, <5>2
        <5>. QED  BY <4>1, <4>2, <5>3
      <4>. QED  BY <4>3, <4>4
    <3>. QED  BY <3>1
  <2>3. Nat \subseteq T
    <3>. HIDE DEF T
    <3>. QED  BY <2>1, <2>2, Induction
  <2>. QED  BY <2>3
<1>9. \A u, m \in Nat : u < m => r[m][u] = r[u + 1][u]
  <2>. SUFFICES ASSUME NEW u \in Nat
                PROVE  \A m \in Nat : u < m => r[m][u] = r[u + 1][u]
    OBVIOUS
  <2>. DEFINE T == {m \in Nat : u < m => r[m][u] = r[u + 1][u]}
  <2>1. 0 \in T
    OBVIOUS
  <2>2. ASSUME NEW m \in Nat, m \in T PROVE m + 1 \in T
    <3>1. CASE u < m
      BY <1>8, <2>2, <3>1
    <3>2. CASE u = m
      BY <3>2
    <3>3. CASE ~ (u < m + 1)
      BY <3>3
    <3>. QED  BY <3>1, <3>2, <3>3
  <2>3. Nat \subseteq T
    <3>. HIDE DEF T
    <3>. QED  BY <2>1, <2>2, Induction
  <2>. QED  BY <2>3
<1>. DEFINE h == [u \in Nat |-> r[u + 1][u]]
<1>10. h \in [Nat -> Seq(E)]
  BY <1>6
<1>11. ASSUME NEW u \in Nat
       PROVE  h[u] = IF u < base THEN <<t[u]>> ELSE Append(h[q[u]], t[u])
  <2>1. h[u] = IF u < base THEN <<t[u]>> ELSE Append(r[u][q[u]], t[u])
    BY <1>7
  <2>2. CASE u < base
    BY <2>1, <2>2
  <2>3. CASE ~ (u < base)
    <3>1. q[u] \in Nat /\ q[u] < u
      BY <2>3
    <3>2. r[u][q[u]] = h[q[u]]
      BY <1>9, <3>1
    <3>. QED  BY <2>1, <2>3, <3>2
  <2>. QED  BY <2>2, <2>3
<1>. HIDE DEF h
<1>12. Appends(E, t, q, base, h)
  BY <1>10, <1>11 DEF Appends
<1>. QED  BY <1>12
-----------------------------------------------------------------------------
(* The operators of FormatDoc                                              *)

\* a number without its last digit, and that digit
LEMMA Quotients ==
  ASSUME NEW u \in Nat, NEW radix \in {10, 16}
  PROVE  /\ u \div radix \in Nat /\ u % radix \in 0 .. radix - 1
         /\ u = (u \div radix) * radix + (u % radix)
         /\ (u >= radix => u \div radix < u /\ u \div radix # 0)
         /\ (u < radix => u \div radix = 0 /\ u % radix = u)
<1>1. CASE radix = 10
  BY <1>1
<1>2. CASE radix = 16
  BY <1>2
<1>. QED  BY <1>1, <1>2

\* a table with a digit for every remainder
IsTable(table, radix, E) == \A d \in 1 .. radix : table[d] \in E

\* Digits is what its definition says
LEMMA DigitsAre ==
  ASSUME NEW E, NEW radix \in {10, 16}, NEW table, IsTable(table, radix, E),
         NEW u \in Nat
  PROVE  /\ Digits(u, radix, table) =
              IF u < radix THEN <<table[u + 1]>>
              ELSE Append(Digits(u \div radix, radix, table), table[(u % radix) + 1])
         /\ Digits(u, radix, table) \in Seq(E)
<1>. DEFINE t == [x \in Nat |-> table[(x % radix) + 1]]
            q == [x \in Nat |-> x \div radix]
            Is(f) == f = [x \in Nat |-> IF x < radix THEN <<table[x + 1]>>
                                       ELSE Append(f[x \div radix], table[(x % radix) + 1])]
            D(x) == Digits(x, radix, table)
            dg == CHOOSE f : Is(f)
<1>1. \A x : D(x) = dg[x]
  BY DEF Digits
<1>2. t \in [Nat -> E]
  <2>1. ASSUME NEW x \in Nat PROVE table[(x % radix) + 1] \in E
    <3>1. x % radix \in 0 .. radix - 1
      BY Quotients
    <3>2. (x % radix) + 1 \in 1 .. radix
      BY <3>1
    <3>. QED  BY <3>2 DEF IsTable
  <2>. QED  BY <2>1
<1>3. q \in [Nat -> Nat] /\ \A x \in Nat : x >= radix => q[x] < x
  <2>1. ASSUME NEW x \in Nat PROVE x \div radix \in Nat /\ (x >= radix => x \div radix < x)
    BY Quotients
  <2>. QED  BY <2>1
<1>4. PICK h \in [Nat -> Seq(E)] :
        \A x \in Nat : h[x] = IF x < radix THEN <<t[x]>> ELSE Append(h[q[x]], t[x])
  <2>. HIDE DEF t, q
  <2>1. radix \in Nat \ {0} /\ t \in Ends(E) /\ Falls(q, radix)
    BY <1>2, <1>3 DEF Ends, Falls
  <2>2. \E h : Appends(E, t, q, radix, h)
    BY <2>1, DigitRecursion
  <2>. QED  BY <2>2 DEF Appends
<1>5. \A x \in Nat : x < radix => x % radix = x
  BY Quotients
<1>6. \A x \in Nat : h[x] = IF x < radix THEN <<table[x + 1]>>
                            ELSE Append(h[x \div radix], table[(x % radix) + 1])
  BY <1>4, <1>5
<1>7. Is(h)
  BY <1>6
<1>8. Is(dg)
  <2>. HIDE DEF Is
  <2>. QED  BY <1>7
<1>9. \A x \in Nat : dg[x] = IF x < radix THEN <<table[x + 1]>>
                             ELSE Append(dg[x \div radix], table[(x % radix) + 1])
  BY <1>8
<1>. HIDE DEF dg, Is, t, q
<1>10. u \div radix \in Nat
  BY Quotients
<1>11. dg[u] \in Seq(E)
  <2>. DEFINE T == {m \in Nat : \A x \in Nat : x < m => dg[x] \in Seq(E)}
  <2>1. 0 \in T
    OBVIOUS
  <2>2. ASSUME NEW m \in Nat, m \in T PROVE m + 1 \in T
    <3>1. ASSUME NEW x \in Nat, x < m + 1 PROVE dg[x] \in Seq(E)
      <4>1. CASE x < radix
        <5>1. dg[x] = <<table[x + 1]>>
          BY <1>9, <4>1
        <5>2. x + 1 \in 1 .. radix
          BY <4>1
        <5>3. table[x + 1] \in E
          BY <5>2 DEF IsTable
        <5>. QED  BY <5>1, <5>3
      <4>2. CASE ~ (x < radix)
        <5>1. /\ x \div radix \in Nat /\ x \div radix < x
              /\ (x % radix) + 1 \in 1 .. radix
          <6>1. x % radix \in 0 .. radix - 1 /\ x \div radix \in Nat /\ x \div radix < x
            BY <4>2, Quotients
          <6>. QED  BY <6>1
        <5>2. x \div radix < m
          BY <3>1, <5>1
        <5>3. dg[x \div radix] \in Seq(E) /\ table[(x % radix) + 1] \in E
          BY <2>2, <5>1, <5>2 DEF IsTable
        <5>4. dg[x] = Append(dg[x \div radix], table[(x % radix) + 1])
          BY <1>9, <4>2
        <5>. QED  BY <5>3, <5>4
      <4>. QED  BY <4>1, <4>2
    <3>. QED  BY <3>1
  <2>3. Nat \subseteq T
    <3>. HIDE DEF T
    <3>. QED  BY <2>1, <2>2, Induction
  <2>4. u + 1 \in T
    <3>. HIDE DEF T
    <3>. QED  BY <2>3
  <2>. QED  BY <2>4
<1>. QED  BY <1>1, <1>9, <1>10, <1>11

\* two sequences put together
LEMMA Concat ==
  ASSUME NEW E, NEW a \in Seq(E), NEW b \in Seq(E)
  PROVE  /\ a \o b \in Seq(E) /\ Len(a \o b) = Len(a) + Len(b)
         /\ Len(a) \in Nat /\ Len(b) \in Nat
         /\ \A i \in 1 .. Len(a) : (a \o b)[i] = a[i]
         /\ \A i \in 1 .. Len(b) : (a \o b)[Len(a) + i] = b[i]
OBVIOUS

\* sequences of characters or arguments
AllSeqs(E, seqs) == Len(seqs) \in Nat /\ \A i \in 1 .. Len(seqs) : seqs[i] \in Seq(E)

\* Upto is what its definition says
LEMMA UptoIs ==
  ASSUME NEW E, NEW seqs, AllSeqs(E, seqs)
  PROVE  /\ Upto(seqs)[0] = << >>
         /\ \A k \in 0 .. Len(seqs) : Upto(seqs)[k] \in Seq(E)
         /\ \A k \in 0 .. Len(seqs) - 1 : Upto(seqs)[k + 1] = Upto(seqs)[k] \o seqs[k + 1]
<1>. DEFINE N == Len(seqs)
            V == Seq(E)
            e == << >>
            Next1(m, v) == IF m + 1 \in 1 .. N THEN v \o seqs[m + 1] ELSE v
            g == [m \in Nat |-> [v \in V |-> Next1(m, v)]]
            Is(f) == f = [k \in 0 .. N |-> IF k = 0 THEN << >> ELSE f[k - 1] \o seqs[k]]
            u == CHOOSE f : Is(f)
<1>1. Upto(seqs) = u
  BY DEF Upto
<1>2. N \in Nat /\ \A i \in 1 .. N : seqs[i] \in V
  BY DEF AllSeqs
<1>. HIDE DEF N
<1>3. \A m \in Nat : \A v \in V : Next1(m, v) \in V
  BY <1>2
<1>4. e \in V
  OBVIOUS
<1>5. g \in Steps(V)
  <2>. HIDE DEF V, Next1
  <2>. QED  BY <1>3 DEF Steps
<1>6. \A m \in Nat : \A v \in V : g[m][v] = Next1(m, v)
  <2>. HIDE DEF V, Next1
  <2>. QED  OBVIOUS
<1>7. PICK h \in [Nat -> V] : h[0] = e /\ \A m \in Nat : h[m + 1] = g[m][h[m]]
  <2>. HIDE DEF V, e, g, Is
  <2>1. \E h : Runs(V, e, g, h)
    BY <1>4, <1>5, Recursion
  <2>. QED  BY <2>1 DEF Runs
<1>8. \A m \in Nat : h[m + 1] = Next1(m, h[m])
  <2>. HIDE DEF V, Next1, g
  <2>. QED  BY <1>6, <1>7
<1>9. ASSUME NEW k \in 0 .. N
      PROVE  h[k] = IF k = 0 THEN << >> ELSE h[k - 1] \o seqs[k]
  <2>1. CASE k = 0
    BY <1>7, <2>1
  <2>2. CASE k # 0
    <3>. DEFINE l == k - 1
    <3>1. l \in Nat /\ l + 1 = k /\ l + 1 \in 1 .. N
      BY <1>2, <2>2
    <3>. HIDE DEF l
    <3>2. h[l + 1] = h[l] \o seqs[l + 1]
      BY <1>8, <3>1
    <3>3. l = k - 1
      BY DEF l
    <3>. QED  BY <2>2, <3>1, <3>2, <3>3
  <2>. QED  BY <2>1, <2>2
<1>10. Is([k \in 0 .. N |-> h[k]])
  <2>1. ASSUME NEW k \in 0 .. N
        PROVE  h[k] = IF k = 0 THEN << >> ELSE [j \in 0 .. N |-> h[j]][k - 1] \o seqs[k]
    <3>1. k # 0 => k - 1 \in 0 .. N
      BY <1>2
    <3>. QED  BY <1>9, <3>1
  <2>. QED  BY <2>1
<1>11. Is(u)
  <2>. HIDE DEF Is
  <2>. QED  BY <1>10
<1>12. /\ \A k \in 0 .. N : u[k] = IF k = 0 THEN << >> ELSE u[k - 1] \o seqs[k]
  BY <1>11
<1>. HIDE DEF u, Is, g, e, Next1
<1>13. u[0] = << >>
  BY <1>2, <1>12
<1>14. \A k \in 0 .. N - 1 : u[k + 1] = u[k] \o seqs[k + 1]
  <2>. SUFFICES ASSUME NEW k \in 0 .. N - 1
                PROVE  u[k + 1] = u[k] \o seqs[k + 1]
    OBVIOUS
  <2>1. k + 1 \in 0 .. N /\ k + 1 # 0 /\ (k + 1) - 1 = k
    BY <1>2
  <2>2. u[k + 1] = u[(k + 1) - 1] \o seqs[k + 1]
    BY <1>12, <2>1
  <2>. QED  BY <2>1, <2>2
<1>15. \A k \in 0 .. N : u[k] \in Seq(E)
  <2>. DEFINE T == {m \in Nat : m <= N => u[m] \in V}
  <2>1. 0 \in T
    <3>1. u[0] \in V
      BY <1>13
    <3>. HIDE DEF V
    <3>. QED  BY <3>1
  <2>2. ASSUME NEW m \in Nat, m \in T PROVE m + 1 \in T
    <3>1. CASE m + 1 <= N
      <4>1. m \in 0 .. N - 1 /\ m <= N /\ m + 1 \in 1 .. N
        BY <1>2, <3>1
      <4>2. u[m] \in V /\ seqs[m + 1] \in V /\ u[m + 1] = u[m] \o seqs[m + 1]
        <5>. HIDE DEF V
        <5>. QED  BY <1>2, <1>14, <2>2, <4>1
      <4>3. u[m + 1] \in V
        BY <4>2
      <4>. HIDE DEF V
      <4>. QED  BY <4>3
    <3>. HIDE DEF V
    <3>. QED  BY <3>1
  <2>3. Nat \subseteq T
    <3>. HIDE DEF T
    <3>. QED  BY <2>1, <2>2, Induction
  <2>4. \A k \in 0 .. N : u[k] \in V
    <3>. HIDE DEF V
    <3>. QED  BY <1>2, <2>3
  <2>. QED  BY <2>4
<1>. QED  BY <1>1, <1>13, <1>14, <1>15 DEF N

\* where a sequence is found in the whole
Holds(w, x, b) == \A i \in 1 .. Len(b) : w[x + i] = b[i]

\* what is put together holds each of the sequences, at the end of those before it
LEMMA Cut ==
  ASSUME NEW E, NEW seqs, AllSeqs(E, seqs), NEW k \in 0 .. Len(seqs) - 1
  PROVE  /\ Joined(seqs) \in Seq(E)
         /\ Upto(seqs)[k] \in Seq(E) /\ Upto(seqs)[k + 1] \in Seq(E)
         /\ Upto(seqs)[k + 1] = Upto(seqs)[k] \o seqs[k + 1]
         /\ Len(Upto(seqs)[k + 1]) = Len(Upto(seqs)[k]) + Len(seqs[k + 1])
         /\ Len(Upto(seqs)[k + 1]) <= Len(Joined(seqs))
         /\ Holds(Joined(seqs), Len(Upto(seqs)[k]), seqs[k + 1])
<1>. DEFINE N == Len(seqs)
            u == Upto(seqs)
<1>1. N \in Nat /\ (\A i \in 1 .. N : seqs[i] \in Seq(E)) /\ k \in 0 .. N - 1
  BY DEF AllSeqs
<1>2. (\A j \in 0 .. N : u[j] \in Seq(E)) /\ (\A j \in 0 .. N - 1 : u[j + 1] = u[j] \o seqs[j + 1])
  BY UptoIs
<1>3. Joined(seqs) = u[N]
  BY DEF Joined
<1>. HIDE DEF N, u
<1>4. k + 1 \in 1 .. N /\ k \in 0 .. N /\ k + 1 \in 0 .. N
  BY <1>1
<1>5. /\ u[k] \in Seq(E) /\ u[k + 1] \in Seq(E) /\ seqs[k + 1] \in Seq(E)
      /\ u[k + 1] = u[k] \o seqs[k + 1]
  BY <1>1, <1>2, <1>4
<1>6. /\ Len(u[k + 1]) = Len(u[k]) + Len(seqs[k + 1]) /\ Len(u[k]) \in Nat
      /\ Len(seqs[k + 1]) \in Nat
      /\ \A i \in 1 .. Len(seqs[k + 1]) : u[k + 1][Len(u[k]) + i] = seqs[k + 1][i]
  <2>. DEFINE a == u[k]
              b == seqs[k + 1]
  <2>1. a \in Seq(E) /\ b \in Seq(E) /\ u[k + 1] = a \o b
    BY <1>5
  <2>. HIDE DEF a, b
  <2>2. /\ Len(u[k + 1]) = Len(a) + Len(b) /\ Len(a) \in Nat /\ Len(b) \in Nat
        /\ \A i \in 1 .. Len(b) : u[k + 1][Len(a) + i] = b[i]
    BY <2>1, Concat
  <2>. QED  BY <2>2 DEF a, b
<1>. DEFINE Starts(j) == /\ Len(u[k + 1]) <= Len(u[j])
                         /\ \A i \in 1 .. Len(u[k + 1]) : u[j][i] = u[k + 1][i]
            T == {j \in Nat : k + 1 <= j /\ j <= N => Starts(j)}
<1>7. 0 \in T
  BY <1>1
<1>8. ASSUME NEW j \in Nat, j \in T PROVE j + 1 \in T
  <2>1. CASE k + 1 = j + 1
    <3>1. j = k
      BY <1>1, <2>1
    <3>2. Starts(k + 1)
      BY <1>5
    <3>. HIDE DEF Starts
    <3>. QED  BY <3>1, <3>2
  <2>2. CASE k + 1 <= j /\ j + 1 <= N
    <3>1. Starts(j) /\ j \in 0 .. N - 1 /\ j + 1 \in 1 .. N /\ j \in 0 .. N
      BY <1>1, <1>8, <2>2
    <3>2. u[j + 1] = u[j] \o seqs[j + 1] /\ u[j] \in Seq(E) /\ seqs[j + 1] \in Seq(E)
      BY <1>1, <1>2, <3>1
    <3>3. /\ Len(u[j + 1]) = Len(u[j]) + Len(seqs[j + 1]) /\ Len(u[j]) \in Nat
          /\ Len(seqs[j + 1]) \in Nat /\ Len(u[k + 1]) \in Nat
          /\ \A i \in 1 .. Len(u[j]) : u[j + 1][i] = u[j][i]
      <4>. DEFINE a == u[j]
                  b == seqs[j + 1]
      <4>1. a \in Seq(E) /\ b \in Seq(E) /\ u[j + 1] = a \o b
        BY <3>2
      <4>. HIDE DEF a, b
      <4>2. /\ Len(u[j + 1]) = Len(a) + Len(b) /\ Len(a) \in Nat /\ Len(b) \in Nat
            /\ \A i \in 1 .. Len(a) : u[j + 1][i] = a[i]
        BY <4>1, Concat
      <4>3. Len(u[k + 1]) \in Nat
        <5>. DEFINE w == u[k + 1]
        <5>1. w \in Seq(E)
          BY <1>5
        <5>. HIDE DEF w
        <5>2. Len(w) \in Nat
          BY <5>1
        <5>. QED  BY <5>2 DEF w
      <4>. QED  BY <4>2, <4>3 DEF a, b
    <3>4. Len(u[k + 1]) <= Len(u[j + 1])
      <4>. DEFINE x == Len(u[k + 1])
                  y == Len(u[j])
                  z == Len(u[j + 1])
      <4>1. x <= y /\ x \in Nat /\ y \in Nat /\ z = y + Len(seqs[j + 1]) /\ Len(seqs[j + 1]) \in Nat
        BY <3>1, <3>3
      <4>. HIDE DEF x, y, z
      <4>2. x <= z
        BY <4>1
      <4>. QED  BY <4>2 DEF x, z
    <3>5. ASSUME NEW i \in 1 .. Len(u[k + 1]) PROVE u[j + 1][i] = u[k + 1][i]
      <4>1. i \in 1 .. Len(u[j])
        BY <3>1, <3>3
      <4>. QED  BY <3>1, <3>3, <4>1
    <3>6. Starts(j + 1)
      BY <3>4, <3>5
    <3>. HIDE DEF Starts
    <3>. QED  BY <3>6
  <2>3. CASE ~ (k + 1 <= j + 1 /\ j + 1 <= N)
    BY <2>3
  <2>4. k + 1 <= j + 1 => k + 1 = j + 1 \/ k + 1 <= j
    BY <1>1
  <2>. QED  BY <2>1, <2>2, <2>3, <2>4
<1>9. Nat \subseteq T
  <2>. HIDE DEF T
  <2>. QED  BY <1>7, <1>8, Induction
<1>10. Starts(N)
  <2>1. N \in T
    <3>. HIDE DEF T
    <3>. QED  BY <1>1, <1>9
  <2>. HIDE DEF Starts
  <2>. QED  BY <1>1, <1>4, <2>1
<1>11. ASSUME NEW i \in 1 .. Len(seqs[k + 1]) PROVE u[N][Len(u[k]) + i] = seqs[k + 1][i]
  <2>1. Len(u[k]) + i \in 1 .. Len(u[k + 1])
    <3>. DEFINE x == Len(u[k])
                y == Len(seqs[k + 1])
    <3>1. x \in Nat /\ y \in Nat /\ i \in 1 .. y /\ Len(u[k + 1]) = x + y
      BY <1>6
    <3>. HIDE DEF x, y
    <3>. QED  BY <3>1 DEF x
  <2>. QED  BY <1>6, <1>10, <2>1
<1>12. u[N] \in Seq(E)
  BY <1>1, <1>2
<1>13. Holds(u[N], Len(u[k]), seqs[k + 1])
  BY <1>11 DEF Holds
<1>. QED  BY <1>3, <1>5, <1>6, <1>10, <1>12, <1>13 DEF u
-----------------------------------------------------------------------------
(* Reading a format string character by character                          *)

\* the format string has r at q, which ends at e
Ahead(fmt, q, r, e) ==
  /\ r \in Seq(Char) /\ q \in Nat \ {0} /\ q + Len(r) = e + 1 /\ e <= Len(fmt)
  /\ \A i \in 1 .. Len(r) : fmt[q + i - 1] = r[i]

\* the first character of a text that begins with ch, and the text behind it
LEMMA AheadNext ==
  ASSUME NEW fmt, NEW q, NEW e \in Int, NEW ch \in Char, NEW r \in Seq(Char),
         Ahead(fmt, q, <<ch>> \o r, e),
         Len(fmt) \in Nat
  PROVE  q <= Len(fmt) /\ fmt[q] = ch /\ Ahead(fmt, q + 1, r, e)
<1>. DEFINE t == <<ch>> \o r
<1>1. /\ t \in Seq(Char) /\ Len(t) = Len(r) + 1 /\ Len(r) \in Nat /\ t[1] = ch
      /\ \A i \in 1 .. Len(r) : t[i + 1] = r[i]
  OBVIOUS
<1>2. /\ q \in Nat \ {0} /\ q + Len(t) = e + 1 /\ e <= Len(fmt)
      /\ \A i \in 1 .. Len(t) : fmt[q + i - 1] = t[i]
  BY DEF Ahead
<1>. HIDE DEF t
<1>3. q <= Len(fmt)
  BY <1>1, <1>2
<1>4. fmt[q] = ch
  <2>1. 1 \in 1 .. Len(t) /\ q + 1 - 1 = q
    BY <1>1, <1>2
  <2>. QED  BY <1>1, <1>2, <2>1
<1>5. ASSUME NEW i \in 1 .. Len(r) PROVE fmt[(q + 1) + i - 1] = r[i]
  <2>1. i + 1 \in 1 .. Len(t) /\ q + (i + 1) - 1 = (q + 1) + i - 1
    BY <1>1, <1>2
  <2>2. fmt[q + (i + 1) - 1] = t[i + 1]
    BY <1>2, <2>1
  <2>. QED  BY <1>1, <2>1, <2>2
<1>6. q + 1 \in Nat \ {0} /\ (q + 1) + Len(r) = e + 1
  BY <1>1, <1>2
<1>. QED  BY <1>2, <1>3, <1>4, <1>5, <1>6 DEF Ahead

\* nothing is left behind the end
LEMMA AheadEnd ==
  ASSUME NEW fmt, NEW q, NEW e \in Int, Ahead(fmt, q, << >>, e)
  PROVE  q = e + 1
BY DEF Ahead

\* a sequence without its first element
LEMMA Uncons ==
  ASSUME NEW E, NEW z \in Seq(E), z # << >>
  PROVE  /\ z[1] \in E /\ Tail(z) \in Seq(E) /\ z = <<z[1]>> \o Tail(z)
         /\ Len(z) \in Nat /\ Len(Tail(z)) = Len(z) - 1 /\ Len(z) >= 1
         /\ \A i \in 1 .. Len(Tail(z)) : Tail(z)[i] = z[i + 1]
OBVIOUS

LEMMA Associate ==
  ASSUME NEW E, NEW a \in Seq(E), NEW b \in Seq(E), NEW c \in Seq(E)
  PROVE  (a \o b) \o c = a \o (b \o c)
OBVIOUS

\* reading the digits z behind those of x gives w
Reads(z, x, w) ==
  \E pre \in [0 .. Len(z) -> Nat] :
    /\ pre[0] = x /\ pre[Len(z)] = w
    /\ \A i \in 1 .. Len(z) : pre[i] = pre[i - 1] * 10 + ValueOf(z[i])

\* the digits behind the first go on from what that one gives
LEMMA ReadsNext ==
  ASSUME NEW z \in Seq(DecimalDigits), z # << >>, NEW x, NEW w, Reads(z, x, w)
  PROVE  Reads(Tail(z), x * 10 + ValueOf(z[1]), w)
<1>1. PICK pre \in [0 .. Len(z) -> Nat] :
        /\ pre[0] = x /\ pre[Len(z)] = w
        /\ \A i \in 1 .. Len(z) : pre[i] = pre[i - 1] * 10 + ValueOf(z[i])
  BY DEF Reads
<1>. DEFINE N == Len(z)
            t == Tail(z)
            p == [i \in 0 .. N - 1 |-> pre[i + 1]]
<1>2. N \in Nat /\ N >= 1 /\ Len(t) = N - 1 /\ \A i \in 1 .. N - 1 : t[i] = z[i + 1]
  BY Uncons
<1>. HIDE DEF N, t
<1>3. p \in [0 .. N - 1 -> Nat]
  <2>1. ASSUME NEW i \in 0 .. N - 1 PROVE pre[i + 1] \in Nat
    <3>1. i + 1 \in 0 .. N
      BY <1>2
    <3>. QED  BY <1>1, <3>1 DEF N
  <2>. QED  BY <2>1
<1>4. p[0] = x * 10 + ValueOf(z[1])
  <2>1. 1 \in 1 .. N /\ 0 \in 0 .. N - 1 /\ 1 - 1 = 0
    BY <1>2
  <2>2. pre[1] = pre[1 - 1] * 10 + ValueOf(z[1])
    BY <1>1, <2>1 DEF N
  <2>. QED  BY <1>1, <2>1, <2>2
<1>5. p[N - 1] = w
  <2>1. N - 1 \in 0 .. N - 1 /\ (N - 1) + 1 = N
    BY <1>2
  <2>. QED  BY <1>1, <2>1 DEF N
<1>6. ASSUME NEW i \in 1 .. N - 1 PROVE p[i] = p[i - 1] * 10 + ValueOf(t[i])
  <2>1. /\ i + 1 \in 1 .. N /\ (i + 1) - 1 = i /\ (i - 1) + 1 = i
        /\ i \in 0 .. N - 1 /\ i - 1 \in 0 .. N - 1
    BY <1>2
  <2>2. pre[i + 1] = pre[i] * 10 + ValueOf(z[i + 1])
    <3>1. pre[i + 1] = pre[(i + 1) - 1] * 10 + ValueOf(z[i + 1])
      BY <1>1, <2>1 DEF N
    <3>. QED  BY <2>1, <3>1
  <2>. QED  BY <1>2, <2>1, <2>2
<1>. HIDE DEF p
<1>7. Reads(t, x * 10 + ValueOf(z[1]), w)
  BY <1>2, <1>3, <1>4, <1>5, <1>6 DEF Reads
<1>. QED  BY <1>7 DEF t

\* no digit changes nothing
LEMMA ReadsEnd ==
  ASSUME NEW x, NEW w, Reads(<< >>, x, w)
  PROVE  x = w
BY DEF Reads

\* and one more digit behind them
LEMMA ReadsOn ==
  ASSUME NEW z \in Seq(DecimalDigits), NEW x, NEW w \in Nat, Reads(z, x, w), NEW d \in DecimalDigits
  PROVE  Reads(Append(z, d), x, w * 10 + ValueOf(d))
<1>1. PICK pre \in [0 .. Len(z) -> Nat] :
        /\ pre[0] = x /\ pre[Len(z)] = w
        /\ \A i \in 1 .. Len(z) : pre[i] = pre[i - 1] * 10 + ValueOf(z[i])
  BY DEF Reads
<1>. DEFINE N == Len(z)
            t == Append(z, d)
            y == w * 10 + ValueOf(d)
            p == [i \in 0 .. N + 1 |-> IF i = N + 1 THEN y ELSE pre[i]]
<1>2. N \in Nat /\ Len(t) = N + 1 /\ t[N + 1] = d /\ \A i \in 1 .. N : t[i] = z[i]
  OBVIOUS
<1>3. y \in Nat
  BY DigitValue
<1>. HIDE DEF N, t, y
<1>4. p \in [0 .. N + 1 -> Nat]
  <2>1. ASSUME NEW i \in 0 .. N + 1, i # N + 1 PROVE pre[i] \in Nat
    <3>1. i \in 0 .. N
      BY <1>2, <2>1
    <3>. QED  BY <1>1, <3>1 DEF N
  <2>. QED  BY <1>3, <2>1
<1>5. p[0] = x /\ p[N + 1] = y /\ p[N] = w
  <2>1. 0 \in 0 .. N + 1 /\ 0 # N + 1 /\ N \in 0 .. N + 1 /\ N # N + 1 /\ N + 1 \in 0 .. N + 1
    BY <1>2
  <2>. QED  BY <1>1, <2>1 DEF N
<1>6. ASSUME NEW i \in 1 .. N + 1 PROVE p[i] = p[i - 1] * 10 + ValueOf(t[i])
  <2>1. CASE i = N + 1
    <3>1. i - 1 = N
      BY <1>2, <2>1
    <3>. QED  BY <1>2, <1>5, <2>1, <3>1 DEF y
  <2>2. CASE i # N + 1
    <3>1. i \in 1 .. N /\ i \in 0 .. N + 1 /\ i - 1 \in 0 .. N + 1 /\ i - 1 # N + 1
      BY <1>2, <2>2
    <3>2. p[i] = pre[i] /\ p[i - 1] = pre[i - 1] /\ t[i] = z[i]
      BY <1>2, <2>2, <3>1
    <3>. QED  BY <1>1, <3>1, <3>2 DEF N
  <2>. QED  BY <2>1, <2>2
<1>. HIDE DEF p
<1>7. Reads(t, x, y)
  BY <1>2, <1>4, <1>5, <1>6 DEF Reads
<1>. QED  BY <1>7 DEF t, y

\* a decimal digit has its value
LEMMA ValueIs ==
  ASSUME NEW u \in 0 .. 9
  PROVE  /\ LowerTable[u + 1] \in DecimalDigits /\ ValueOf(LowerTable[u + 1]) = u
         /\ (LowerTable[u + 1] = "0" => u = 0)
<1>1. LowerTable = Lower
  BY DEF LowerTable, Lower
<1>2. \A v \in 0 .. 9 : Lower[v + 1] = Lower[u + 1] => v = u
  BY DEF Lower
<1>3. u + 1 \in 1 .. 10
  OBVIOUS
<1>4. Lower[u + 1] \in DecimalDigits
  BY <1>3 DEF DecimalDigits
<1>5. ValueOf(Lower[u + 1]) = u
  BY <1>2 DEF ValueOf
<1>6. Lower[u + 1] = "0" => u = 0
  BY DEF Lower
<1>. QED  BY <1>1, <1>4, <1>5, <1>6

\* the characters of a width are read as that width
LEMMA WidthReads ==
  ASSUME NEW width \in Nat \ {0}
  PROVE  /\ Digits(width, 10, LowerTable) \in Seq(DecimalDigits)
         /\ Digits(width, 10, LowerTable) # << >>
         /\ Digits(width, 10, LowerTable)[1] # "0"
         /\ Reads(Digits(width, 10, LowerTable), 0, width)
<1>. DEFINE D(u) == Digits(u, 10, LowerTable)
            Good(u) == /\ D(u) \in Seq(DecimalDigits) /\ D(u) # << >>
                       /\ (u # 0 => D(u)[1] # "0") /\ Reads(D(u), 0, u)
            T == {m \in Nat : \A u \in Nat : u < m => Good(u)}
<1>1. IsTable(LowerTable, 10, DecimalDigits)
  <2>1. LowerTable = Lower
    BY DEF LowerTable, Lower
  <2>. QED  BY <2>1 DEF DecimalDigits, IsTable
<1>2. ASSUME NEW u \in Nat
      PROVE  D(u) = IF u < 10 THEN <<LowerTable[u + 1]>>
                    ELSE Append(D(u \div 10), LowerTable[(u % 10) + 1])
  BY <1>1, DigitsAre
<1>. HIDE DEF D
<1>3. ASSUME NEW u \in Nat, u < 10 PROVE Good(u)
  <2>. DEFINE c == LowerTable[u + 1]
              pre == [i \in 0 .. 1 |-> IF i = 0 THEN 0 ELSE u]
  <2>1. u \in 0 .. 9
    BY <1>3
  <2>2. c \in DecimalDigits /\ ValueOf(c) = u /\ (c = "0" => u = 0)
    BY <2>1, ValueIs
  <2>3. D(u) = <<c>>
    BY <1>2, <1>3
  <2>. HIDE DEF c
  <2>4. <<c>> \in Seq(DecimalDigits) /\ <<c>> # << >> /\ <<c>>[1] = c /\ Len(<<c>>) = 1
    BY <2>2
  <2>5. Reads(<<c>>, 0, u)
    <3>1. pre \in [0 .. 1 -> Nat] /\ pre[0] = 0 /\ pre[1] = u
      OBVIOUS
    <3>. HIDE DEF pre
    <3>2. \A i \in 1 .. 1 : pre[i] = pre[i - 1] * 10 + ValueOf(<<c>>[i])
      BY <2>2, <3>1
    <3>. QED  BY <2>4, <3>1, <3>2 DEF Reads
  <2>. QED  BY <2>2, <2>3, <2>4, <2>5
<1>4. ASSUME NEW u \in Nat, ~ (u < 10), Good(u \div 10) PROVE Good(u)
  <2>. DEFINE q == u \div 10
              z == D(q)
              c == LowerTable[(u % 10) + 1]
  <2>1. q \in Nat /\ u % 10 \in 0 .. 9 /\ u = q * 10 + (u % 10) /\ q # 0
    BY <1>4, Quotients
  <2>2. c \in DecimalDigits /\ ValueOf(c) = u % 10
    BY <2>1, ValueIs
  <2>3. D(u) = Append(z, c)
    BY <1>2, <1>4
  <2>4. z \in Seq(DecimalDigits) /\ z # << >> /\ z[1] # "0" /\ Reads(z, 0, q)
    BY <1>4, <2>1
  <2>. HIDE DEF q, z, c
  <2>5. Append(z, c) \in Seq(DecimalDigits) /\ Append(z, c) # << >> /\ Append(z, c)[1] = z[1]
    BY <2>2, <2>4
  <2>6. Reads(Append(z, c), 0, u)
    BY <2>1, <2>2, <2>4, ReadsOn
  <2>. QED  BY <2>3, <2>4, <2>5, <2>6
<1>. HIDE DEF Good
<1>5. 0 \in T
  OBVIOUS
<1>6. ASSUME NEW m \in Nat, m \in T PROVE m + 1 \in T
  <2>1. ASSUME NEW u \in Nat, u < m + 1 PROVE Good(u)
    <3>1. CASE u < 10
      BY <1>3, <3>1
    <3>2. CASE ~ (u < 10)
      <4>1. u \div 10 \in Nat /\ u \div 10 < u
        BY <3>2, Quotients
      <4>2. u \div 10 < m
        BY <2>1, <4>1
      <4>3. Good(u \div 10)
        BY <1>6, <4>1, <4>2
      <4>. QED  BY <1>4, <3>2, <4>3
    <3>. QED  BY <3>1, <3>2
  <2>. QED  BY <2>1
<1>7. Nat \subseteq T
  <2>. HIDE DEF T
  <2>. QED  BY <1>5, <1>6, Induction
<1>8. Good(width)
  <2>1. width + 1 \in T /\ width < width + 1
    <3>. HIDE DEF T
    <3>. QED  BY <1>7
  <2>. QED  BY <2>1
<1>. QED  BY <1>8 DEF Good, D
-----------------------------------------------------------------------------
(* Numbers and fields                                                      *)

\* unsigned_num_print on its way to the digits body
Printing(m, c, body) ==
  /\ m.radix = RadixOf(c)
  /\ IF m.unum > 0 \/ m.num_buf = << >>
     THEN Digits(m.unum, RadixOf(c), TableOf(c)) \o m.num_buf = body
     ELSE m.num_buf = body

\* a letter's radix, and its table, which has so many digits
LEMMA TablesAre ==
  ASSUME NEW c
  PROVE  /\ RadixOf(c) \in {10, 16} /\ IsTable(TableOf(c), RadixOf(c), Char)
         /\ TableOf(c) = IF c = "X" THEN Upper ELSE Lower
<1>1. TableOf(c) = IF c = "X" THEN Upper ELSE Lower
  BY DEF TableOf, UpperTable, LowerTable, Upper, Lower
<1>2. RadixOf(c) \in {10, 16}
  BY DEF RadixOf
<1>3. \A d \in 1 .. RadixOf(c) : d \in 1 .. 16
  BY <1>2
<1>. QED  BY <1>1, <1>2, <1>3, Tables DEF IsTable

\* the digits of a number, which are one or more
LEMMA DigitsOf ==
  ASSUME NEW c, NEW u \in Nat
  PROVE  /\ Digits(u, RadixOf(c), TableOf(c)) \in Seq(Char)
         /\ Len(Digits(u, RadixOf(c), TableOf(c))) >= 1
         /\ (u >= RadixOf(c) => Len(Digits(u, RadixOf(c), TableOf(c))) >= 2)
         /\ Digits(u, RadixOf(c), TableOf(c)) =
              IF u < RadixOf(c) THEN <<TableOf(c)[u + 1]>>
              ELSE Append(Digits(u \div RadixOf(c), RadixOf(c), TableOf(c)),
                          TableOf(c)[(u % RadixOf(c)) + 1])
<1>. DEFINE r == RadixOf(c)
            t == TableOf(c)
            D(x) == Digits(x, r, t)
<1>1. r \in {10, 16} /\ IsTable(t, r, Char)
  BY TablesAre
<1>2. ASSUME NEW x \in Nat
      PROVE  /\ D(x) = IF x < r THEN <<t[x + 1]>> ELSE Append(D(x \div r), t[(x % r) + 1])
             /\ D(x) \in Seq(Char) /\ x \div r \in Nat /\ (x % r) + 1 \in 1 .. r
  <2>1. x \div r \in Nat /\ x % r \in 0 .. r - 1
    BY <1>1, Quotients
  <2>. HIDE DEF r, t
  <2>2. (x % r) + 1 \in 1 .. r
    BY <1>1, <2>1
  <2>3. D(x) \in Seq(Char)
        /\ D(x) = IF x < r THEN <<t[x + 1]>> ELSE Append(Digits(x \div r, r, t), t[(x % r) + 1])
    BY <1>1, DigitsAre
  <2>. QED  BY <2>1, <2>2, <2>3
<1>. HIDE DEF r, t, D
<1>3. ASSUME NEW x \in Nat PROVE Len(D(x)) >= 1
  <2>1. CASE x < r
    <3>1. D(x) = <<t[x + 1]>>
      BY <1>2, <2>1
    <3>. QED  BY <3>1
  <2>2. CASE ~ (x < r)
    <3>1. D(x) = Append(D(x \div r), t[(x % r) + 1])
      BY <1>2, <2>2
    <3>2. D(x \div r) \in Seq(Char)
      BY <1>2
    <3>. QED  BY <3>1, <3>2
  <2>. QED  BY <2>1, <2>2
<1>4. u >= r => Len(D(u)) >= 2
  <2>. SUFFICES ASSUME u >= r PROVE Len(D(u)) >= 2
    OBVIOUS
  <2>0. ~ (u < r)
    BY <1>1
  <2>1. D(u) = Append(D(u \div r), t[(u % r) + 1])
    BY <1>2, <2>0
  <2>2. D(u \div r) \in Seq(Char) /\ Len(D(u \div r)) >= 1
    BY <1>2, <1>3
  <2>. QED  BY <2>1, <2>2
<1>5. D(u) \in Seq(Char) /\ Len(D(u)) >= 1
  BY <1>2, <1>3
<1>6. D(u) = IF u < r THEN <<t[u + 1]>> ELSE Append(D(u \div r), t[(u % r) + 1])
  BY <1>2
<1>. QED  BY <1>4, <1>5, <1>6 DEF D, r, t

\* appending is putting together
LEMMA AppendIs ==
  ASSUME NEW E, NEW a \in Seq(E), NEW x \in E
  PROVE  Append(a, x) = a \o <<x>> /\ <<x>> \in Seq(E)
OBVIOUS

\* one round of the loop over the digits
LEMMA PrintingGoesOn ==
  ASSUME NEW c, NEW body, NEW m \in Num, Printing(m, c, body), m.unum > 0 \/ m.num_buf = << >>
  PROVE  Printing([m EXCEPT !.unum = m.unum \div m.radix,
                            !.num_buf = <<TableOf(c)[(m.unum % m.radix) + 1]>> \o m.num_buf],
                  c, body)
<1>. DEFINE u == m.unum
            r == m.radix
            b == m.num_buf
            ch == TableOf(c)[(u % r) + 1]
            D(x) == Digits(x, r, TableOf(c))
            next == [m EXCEPT !.unum = u \div r, !.num_buf = <<ch>> \o b]
<1>1. u \in Nat /\ r = RadixOf(c) /\ r \in {10, 16} /\ b \in Seq(Char) /\ D(u) \o b = body
  BY DEF Num, Printing
<1>2. u \div r \in Nat /\ u % r \in 0 .. r - 1 /\ (u < r => u \div r = 0 /\ u % r = u)
      /\ (u >= r => u \div r # 0)
  BY <1>1, Quotients
<1>3. ch \in Char
  <2>1. (u % r) + 1 \in 1 .. r
    BY <1>1, <1>2
  <2>. QED  BY <1>1, <2>1, TablesAre DEF IsTable
<1>4. /\ D(u) = IF u < r THEN <<TableOf(c)[u + 1]>> ELSE Append(D(u \div r), ch)
      /\ D(u \div r) \in Seq(Char)
  BY <1>1, <1>2, DigitsOf
<1>5. next.unum = u \div r /\ next.num_buf = <<ch>> \o b /\ next.radix = r
  BY DEF Num
<1>. HIDE DEF next, D
<1>6. <<ch>> \o b # << >>
  BY <1>1, <1>3
<1>7. ASSUME u < r PROVE Printing(next, c, body)
  <2>1. D(u) = <<ch>> /\ u \div r = 0
    BY <1>2, <1>4, <1>7
  <2>2. <<ch>> \o b = body
    BY <1>1, <2>1
  <2>3. next.unum = 0 /\ next.num_buf = body /\ next.num_buf # << >> /\ next.radix = RadixOf(c)
    BY <1>1, <1>5, <1>6, <2>1, <2>2
  <2>. QED  BY <2>3 DEF Printing
<1>8. ASSUME ~ (u < r) PROVE Printing(next, c, body)
  <2>1. D(u) = Append(D(u \div r), ch) /\ u \div r > 0
    BY <1>1, <1>2, <1>4, <1>8
  <2>2. Append(D(u \div r), ch) \o b = D(u \div r) \o (<<ch>> \o b)
    <3>. DEFINE d == D(u \div r)
    <3>1. d \in Seq(Char)
      BY <1>4
    <3>. HIDE DEF d, ch, b
    <3>2. Append(d, ch) = d \o <<ch>> /\ <<ch>> \in Seq(Char) /\ b \in Seq(Char)
      BY <1>1, <1>3, <3>1, AppendIs
    <3>3. (d \o <<ch>>) \o b = d \o (<<ch>> \o b)
      BY <3>1, <3>2, Associate
    <3>. QED  BY <3>2, <3>3 DEF d
  <2>3. D(u \div r) \o (<<ch>> \o b) = body
    BY <1>1, <2>1, <2>2
  <2>. QED  BY <1>1, <1>5, <2>1, <2>3 DEF Printing, D
<1>9. Printing(next, c, body)
  BY <1>7, <1>8
<1>. QED  BY <1>9 DEF next

\* what snprintf puts out
Bytes == Char \cup {NUL}

LEMMA SomeChars == {"0", " ", "-", "x", "%"} \subseteq Char
<1>1. Lower[1] \in Char /\ Lower[1] = "0"
  BY Tables DEF Lower
<1>. QED  BY <1>1, CharAssumption

LEMMA CharsAreBytes == Char \subseteq Bytes /\ Seq(Char) \subseteq Seq(Bytes)
<1>1. Char \subseteq Bytes
  BY DEF Bytes
<1>. HIDE DEF Bytes
<1>2. ASSUME NEW z \in Seq(Char) PROVE z \in Seq(Bytes)
  BY <1>1
<1>. QED  BY <1>1, <1>2

\* what putting bytes together does
LEMMA ByteAssociate ==
  \A a, b, d \in Seq(Bytes) : (a \o b) \o d = a \o (b \o d)
BY Associate

LEMMA ByteConcat == \A a, b \in Seq(Bytes) : a \o b \in Seq(Bytes)
BY Concat

LEMMA ByteEmpty == \A a \in Seq(Bytes) : << >> \o a = a /\ a \o << >> = a
OBVIOUS

\* a character so many times
LEMMA TimesIs ==
  ASSUME NEW E, NEW c \in E, NEW k \in Int
  PROVE  /\ Times(c, k) \in Seq(E) /\ Len(Times(c, k)) = IF k > 0 THEN k ELSE 0
         /\ \A i \in 1 .. (IF k > 0 THEN k ELSE 0) : Times(c, k)[i] = c
<1>. DEFINE N == IF k > 0 THEN k ELSE 0
<1>1. N \in Nat /\ Times(c, k) = [i \in 1 .. N |-> c]
  BY DEF Times
<1>. HIDE DEF N
<1>2. [i \in 1 .. N |-> c] \in Seq(E) /\ Len([i \in 1 .. N |-> c]) = N
  BY <1>1
<1>. QED  BY <1>1, <1>2 DEF N

LEMMA NoTimes ==
  ASSUME NEW c, NEW k \in Int, k <= 0
  PROVE  Times(c, k) = << >>
BY DEF Times

\* what Padded prints around w digits
FieldText(ch, x, w, body) == (Times(ch, x - w) \o body) \o Times(ch, - (w + x))

\* padding on one side only
LEMMA LeftAligned ==
  ASSUME NEW ch \in Bytes, NEW body \in Seq(Bytes), NEW w \in Nat, NEW x \in Int, x <= w
  PROVE  FieldText(ch, x, w, body) = body \o Times(ch, - (w + x))
<1>. DEFINE a == x - w
<1>1. a \in Int /\ a <= 0
  OBVIOUS
<1>. HIDE DEF a
<1>2. Times(ch, a) = << >> /\ << >> \o body = body
  BY <1>1, NoTimes, ByteEmpty
<1>. QED  BY <1>2 DEF FieldText, a

LEMMA RightAligned ==
  ASSUME NEW ch \in Bytes, NEW body \in Seq(Bytes), NEW w \in Nat, NEW x \in Int, w + x >= 0
  PROVE  FieldText(ch, x, w, body) = Times(ch, x - w) \o body
<1>. DEFINE a == x - w
            b == - (w + x)
<1>1. a \in Int /\ b \in Int /\ b <= 0
  OBVIOUS
<1>. HIDE DEF a, b
<1>2. Times(ch, b) = << >> /\ Times(ch, a) \in Seq(Bytes)
  BY <1>1, NoTimes, TimesIs
<1>. DEFINE t == Times(ch, a)
<1>3. t \in Seq(Bytes)
  BY <1>2
<1>. HIDE DEF t
<1>4. t \o body \in Seq(Bytes)
  BY <1>3, ByteConcat
<1>5. (t \o body) \o << >> = t \o body
  BY <1>4, ByteEmpty
<1>. QED  BY <1>2, <1>5 DEF FieldText, a, b, t

PadOf(flag) == IF flag = "0" THEN "0" ELSE Space

\* a field that the code and the comment understand in the same way
Fits(flag, width, less, p, body, w, ch, x, m) ==
  /\ p \in Seq(Bytes) /\ body \in Seq(Bytes) /\ w \in Nat /\ width \in Nat /\ less \in Nat
  /\ ch \in Bytes /\ x \in Int /\ m \in Int
  /\ w >= 1 /\ x = (IF flag = "-" THEN 0 - width ELSE width) - less /\ m = width - w - less
  /\ width # 0 => ch = PadOf(flag)
  /\ less = 0 \/ (less = 2 /\ IF width = 0 THEN w >= 2 ELSE flag = "0")
  /\ flag \in {"none", "0", "-"} /\ (p = << >> \/ flag # "none" \/ width = 0)

\* a prefix and what is printed behind it fill the field
LEMMA FieldIs ==
  ASSUME NEW p, NEW body, NEW w, NEW width, NEW less, NEW flag, NEW ch, NEW x, NEW m,
         Fits(flag, width, less, p, body, w, ch, x, m)
  PROVE  p \o FieldText(ch, x, w, body) = InField(flag, m, p, body)
<1>1. /\ p \in Seq(Bytes) /\ body \in Seq(Bytes) /\ w \in Nat /\ width \in Nat /\ less \in Nat
      /\ ch \in Bytes /\ x \in Int /\ m \in Int
  BY DEF Fits
<1>0. /\ w >= 1 /\ x = (IF flag = "-" THEN 0 - width ELSE width) - less /\ m = width - w - less
      /\ width # 0 => ch = PadOf(flag)
      /\ less = 0 \/ (less = 2 /\ IF width = 0 THEN w >= 2 ELSE flag = "0")
      /\ flag \in {"none", "0", "-"} /\ (p = << >> \/ flag # "none" \/ width = 0)
  BY DEF Fits
<1>2. << >> \o body = body /\ body \o << >> = body /\ p \o << >> = p /\ << >> \o p = p
  BY <1>1, ByteEmpty
<1>3. CASE width = 0
  <2>1. m <= 0 /\ x <= w /\ - (w + x) <= 0 /\ - (w + x) \in Int
    BY <1>1, <1>0, <1>3
  <2>2. FieldText(ch, x, w, body) = body
    <3>1. Times(ch, - (w + x)) = << >>
      BY <1>1, <2>1, NoTimes
    <3>2. FieldText(ch, x, w, body) = body \o Times(ch, - (w + x))
      BY <1>1, <2>1, LeftAligned
    <3>. QED  BY <1>1, <1>2, <3>1, <3>2
  <2>3. Times(Space, m) = << >> /\ Times("0", m) = << >>
    BY <1>1, <1>0, <2>1, NoTimes
  <2>4. (p \o body) \o << >> = p \o body
    <3>1. p \o body \in Seq(Bytes)
      BY <1>1, ByteConcat
    <3>. QED  BY <1>1, <3>1, ByteEmpty
  <2>. QED  BY <1>1, <1>2, <2>2, <2>3, <2>4 DEF InField
<1>4. CASE width # 0 /\ flag = "-"
  <2>1. less = 0 /\ ch = Space /\ x <= w /\ - (w + x) = m
    BY <1>1, <1>0, <1>4 DEF PadOf
  <2>2. FieldText(ch, x, w, body) = body \o Times(Space, m)
    <3>1. FieldText(ch, x, w, body) = body \o Times(ch, - (w + x))
      BY <1>1, <2>1, LeftAligned
    <3>. QED  BY <1>1, <2>1, <3>1
  <2>3. Times(Space, m) \in Seq(Bytes)
    BY <1>1, <1>0, <2>1, TimesIs
  <2>4. (p \o body) \o Times(Space, m) = p \o (body \o Times(Space, m))
    <3>. DEFINE t == Times(Space, m)
    <3>1. t \in Seq(Bytes)
      BY <1>1, <2>3
    <3>. HIDE DEF t
    <3>2. (p \o body) \o t = p \o (body \o t)
      BY <1>1, <3>1, ByteEmpty
    <3>. QED  BY <1>1, <3>2 DEF t
  <2>. QED  BY <1>1, <1>4, <2>2, <2>4 DEF InField
<1>5. CASE width # 0 /\ flag # "-"
  <2>1. ch = PadOf(flag) /\ w + x >= 0 /\ x - w = m
    BY <1>1, <1>0, <1>5
  <2>2. FieldText(ch, x, w, body) = Times(PadOf(flag), m) \o body
    <3>1. FieldText(ch, x, w, body) = Times(ch, x - w) \o body
      BY <1>1, <2>1, RightAligned
    <3>. QED  BY <1>1, <2>1, <3>1
  <2>. DEFINE t == Times(PadOf(flag), m)
  <2>3. t \in Seq(Bytes)
    BY <1>1, <1>0, <2>1, TimesIs
  <2>4. (p \o t) \o body = p \o (t \o body) /\ << >> \o (t \o body) = t \o body /\ t \o << >> = t
    <3>. HIDE DEF t
    <3>1. t \o body \in Seq(Bytes)
      BY <1>1, <2>3, ByteConcat
    <3>2. (p \o t) \o body = p \o (t \o body)
      BY <1>1, <2>3, ByteAssociate
    <3>. QED  BY <1>1, <2>3, <3>1, <3>2, ByteEmpty
  <2>5. CASE flag = "0"
    <3>1. PadOf(flag) = "0"
      BY <1>1, <2>5 DEF PadOf
    <3>. QED  BY <1>1, <2>2, <2>4, <2>5, <3>1 DEF InField
  <2>6. CASE flag = "none"
    <3>1. PadOf(flag) = Space /\ p = << >>
      BY <1>1, <1>0, <1>5, <2>6 DEF PadOf
    <3>. QED  BY <1>1, <2>2, <2>4, <2>6, <3>1 DEF InField
  <2>. QED  BY <1>1, <1>0, <1>5, <2>5, <2>6
<1>. QED  BY <1>1, <1>3, <1>4, <1>5

\* what is printed in front of the digits, and the digits
LEMMA PrefixIs ==
  ASSUME NEW c, NEW v \in Int
  PROVE  \/ /\ Prefix(c, v) = << >> /\ ~ (c \in {"d", "i"} /\ v < 0) /\ ~ (c = "p" /\ v > 0)
         \/ Prefix(c, v) = <<"-">> /\ c \in {"d", "i"} /\ v < 0
         \/ Prefix(c, v) = <<"0", "x">> /\ c = "p" /\ v > 0
BY DEF Prefix

\* the digits of a number are characters, at least one
LEMMA BodyIs ==
  ASSUME NEW c, NEW v \in Int, c # "s", c \notin {"d", "i"} => v >= 0
  PROVE  /\ Body(c, v) = Digits(IF v < 0 THEN - v ELSE v, RadixOf(c), TableOf(c))
         /\ Body(c, v) \in Seq(Char) /\ Len(Body(c, v)) \in Nat /\ Len(Body(c, v)) >= 1
         /\ (c = "p" /\ v >= 16 => Len(Body(c, v)) >= 2)
<1>. DEFINE u == IF v < 0 THEN - v ELSE v
            d == Digits(u, RadixOf(c), TableOf(c))
<1>1. u \in Nat /\ (v >= 0 => u = v)
  OBVIOUS
<1>2. Body(c, v) = d
  BY DEF Body
<1>. HIDE DEF u
<1>3. d \in Seq(Char) /\ Len(d) >= 1 /\ (u >= RadixOf(c) => Len(d) >= 2)
  BY <1>1, DigitsOf
<1>4. c = "p" /\ v >= 16 => u >= RadixOf(c)
  BY <1>1 DEF RadixOf
<1>. HIDE DEF d
<1>5. Len(d) \in Nat
  BY <1>3
<1>6. /\ Body(c, v) = d /\ d \in Seq(Char) /\ Len(d) \in Nat /\ Len(d) >= 1
      /\ (c = "p" /\ v >= 16 => Len(d) >= 2)
  BY <1>2, <1>3, <1>4, <1>5
<1>. QED  BY <1>6 DEF d, u

Less(c, v)  == IF c = "p" /\ v > 0 THEN 2 ELSE 0
Padding(flag, width, less) ==
  /\ conv.padn = (IF flag = "-" THEN 0 - width ELSE width) - less
  /\ width # 0 => conv.padc = PadOf(flag)

\* the numbers on which the code and the comments agree
LEMMA ValuesAgree ==
  ASSUME NEW flag, NEW width, NEW length, NEW c, NEW v,
         SnprintfAgrees(flag, width, length, c, v), c # "s"
  PROVE  /\ flag \in {"none", "0", "-"} /\ width \in Nat /\ v \in Int
         /\ (c \notin {"d", "i"} => v >= 0)
         /\ (v < 0 => width = 0)
         /\ (c = "p" /\ v > 0 => IF width = 0 THEN v >= 16 ELSE flag = "0")
<1>. DEFINE h == IntSpan \div 2
<1>0. h \in Int
  BY IntAssumption
<1>1. - h .. h - 1 \subseteq Int
  <2>. HIDE DEF h
  <2>. QED  BY <1>0
<1>. QED  BY <1>1 DEF SnprintfAgrees, h

\* Field completes what the comment describes
LEMMA FieldDoc ==
  ASSUME conv \in Conv, NEW flag, NEW width, NEW length, NEW c, NEW v,
         SnprintfAgrees(flag, width, length, c, v), c # "s",
         Padding(flag, width, Less(c, v)), num.num_buf = Body(c, v)
  PROVE  Prefix(c, v) \o Padded(Len(num.num_buf)) = Conversion(flag, width, length, c, v).doc
<1>. DEFINE body == Body(c, v)
            w == Len(body)
            p == Prefix(c, v)
            free == width - w - Len(p)
            less == Less(c, v)
            ch == conv.padc
            x == conv.padn
            m == width - w - less
<1>1. /\ flag \in {"none", "0", "-"} /\ width \in Nat /\ v \in Int
      /\ (c \notin {"d", "i"} => v >= 0)
      /\ (v < 0 => width = 0)
      /\ (c = "p" /\ v > 0 => IF width = 0 THEN v >= 16 ELSE flag = "0")
  BY ValuesAgree
<1>2. body \in Seq(Char) /\ w \in Nat /\ w >= 1 /\ (c = "p" /\ v >= 16 => w >= 2)
  BY <1>1, BodyIs
<1>3. Conversion(flag, width, length, c, v).doc = InField(flag, free, p, body)
  BY DEF Conversion
<1>4. less \in {0, 2} /\ (less = 2 <=> c = "p" /\ v > 0)
  BY DEF Less
<1>5. ch \in Bytes /\ x \in Int
  BY DEF Conv, Bytes
<1>6. x = (IF flag = "-" THEN 0 - width ELSE width) - less /\ (width # 0 => ch = PadOf(flag))
  BY DEF Padding
<1>7. Padded(Len(num.num_buf)) = FieldText(ch, x, w, body)
  BY DEF Padded, FieldText, Pad, Times
<1>8. body \in Seq(Bytes)
  BY <1>2, CharsAreBytes
<1>9. \/ p = << >> /\ ~ (c \in {"d", "i"} /\ v < 0) /\ ~ (c = "p" /\ v > 0)
      \/ p = <<"-">> /\ c \in {"d", "i"} /\ v < 0
      \/ p = <<"0", "x">> /\ c = "p" /\ v > 0
  BY <1>1, PrefixIs
<1>10. p \in Seq(Bytes)
  <2>1. {"-", "0", "x"} \subseteq Bytes
    BY SomeChars, CharsAreBytes
  <2>2. << >> \in Seq(Bytes) /\ <<"-">> \in Seq(Bytes) /\ <<"0", "x">> \in Seq(Bytes)
    BY <2>1
  <2>. HIDE DEF p
  <2>. QED  BY <1>9, <2>2
<1>. HIDE DEF body, w, less, ch, x, p
<1>11. InField(flag, free, p, body) = InField(flag, m, p, body)
  <2>1. CASE p = << >> /\ ~ (c = "p" /\ v > 0)
    <3>1. free = m
      BY <1>1, <1>2, <1>4, <2>1
    <3>. QED  BY <3>1
  <2>2. CASE p = <<"-">> /\ c \in {"d", "i"} /\ v < 0
    <3>1. free \in Int /\ free <= 0 /\ m \in Int /\ m <= 0
      BY <1>1, <1>2, <1>4, <2>2
    <3>. HIDE DEF free, m
    <3>2. \A k \in {"0", Space} : Times(k, free) = << >> /\ Times(k, m) = << >>
      BY <3>1, NoTimes
    <3>. QED  BY <3>2 DEF InField
  <2>3. CASE p = <<"0", "x">> /\ c = "p" /\ v > 0
    <3>1. free = m
      BY <1>1, <1>2, <1>4, <2>3
    <3>. QED  BY <3>1
  <2>. QED  BY <1>9, <2>1, <2>2, <2>3
<1>15. m \in Int
  BY <1>1, <1>2, <1>4
<1>. HIDE DEF m
<1>16. /\ p \in Seq(Bytes) /\ body \in Seq(Bytes) /\ w \in Nat /\ width \in Nat /\ less \in Nat
       /\ ch \in Bytes /\ x \in Int /\ m \in Int
  BY <1>1, <1>2, <1>4, <1>5, <1>8, <1>10, <1>15
<1>12. Fits(flag, width, less, p, body, w, ch, x, m)
  <2>1. /\ less = 2 => IF width = 0 THEN w >= 2 ELSE flag = "0"
        /\ p = << >> \/ flag # "none" \/ width = 0
    BY <1>1, <1>2, <1>4, <1>9
  <2>. QED  BY <1>1, <1>2, <1>4, <1>6, <1>16, <2>1 DEF Fits, m
<1>13. p \o FieldText(ch, x, w, body) = InField(flag, m, p, body)
  BY <1>12, FieldIs
<1>14. p \o Padded(Len(num.num_buf)) = Conversion(flag, width, length, c, v).doc
  <2>. HIDE DEF free, m
  <2>. QED  BY <1>3, <1>7, <1>11, <1>13
<1>. QED  BY <1>14 DEF p
-----------------------------------------------------------------------------
(* Steps of vsnprintf by the character that is next                        *)

\* the first character of a text that is ahead, and the text behind it
LEMMA AheadFirst ==
  ASSUME NEW fmt, NEW q, NEW e \in Int, NEW z \in Seq(Char), z # << >>, NEW r \in Seq(Char),
         Ahead(fmt, q, z \o r, e), Len(fmt) \in Nat
  PROVE  q <= Len(fmt) /\ fmt[q] = z[1] /\ z[1] \in Char /\ Ahead(fmt, q + 1, Tail(z) \o r, e)
<1>. DEFINE h == z[1]
            t == Tail(z)
<1>1. h \in Char /\ t \in Seq(Char) /\ z = <<h>> \o t
  BY Uncons
<1>2. <<h>> \in Seq(Char)
  BY <1>1
<1>. HIDE DEF h, t
<1>3. z \o r = <<h>> \o (t \o r) /\ t \o r \in Seq(Char)
  BY <1>1, <1>2, Associate, Concat
<1>4. Ahead(fmt, q, <<h>> \o (t \o r), e)
  BY <1>3
<1>5. q <= Len(fmt) /\ fmt[q] = h /\ Ahead(fmt, q + 1, t \o r, e)
  BY <1>1, <1>3, <1>4, AheadNext
<1>. QED  BY <1>1, <1>5 DEF h, t

\* the digits and the characters of a conversion that are no digits
Letters == {"%", "-", "z", "l", "d", "i", "u", "x", "X", "p", "s"}

\* the digits and the letters of the switch are told apart
LEMMA DigitsAndLetters ==
  /\ DecimalDigits \subseteq Char /\ Seq(DecimalDigits) \subseteq Seq(Char)
  /\ \A ch \in Letters : ch \notin DecimalDigits /\ ch # NUL
  /\ NUL \notin DecimalDigits /\ "0" \in DecimalDigits
<1>1. DecimalDigits \subseteq Char
  BY Tables DEF DecimalDigits
<1>2. ASSUME NEW z \in Seq(DecimalDigits) PROVE z \in Seq(Char)
  <2>. HIDE DEF DecimalDigits
  <2>. QED  BY <1>1
<1>3. DecimalDigits = {"0", "1", "2", "3", "4", "5", "6", "7", "8", "9"}
  <2>1. \A i \in 1 .. 10 : Lower[i] \in {"0", "1", "2", "3", "4", "5", "6", "7", "8", "9"}
    BY DEF Lower
  <2>2. {"0", "1", "2", "3", "4", "5", "6", "7", "8", "9"} \subseteq DecimalDigits
    <3>1. /\ Lower[1] = "0" /\ Lower[2] = "1" /\ Lower[3] = "2" /\ Lower[4] = "3"
          /\ Lower[5] = "4" /\ Lower[6] = "5" /\ Lower[7] = "6" /\ Lower[8] = "7"
          /\ Lower[9] = "8" /\ Lower[10] = "9"
      BY DEF Lower
    <3>2. \A i \in 1 .. 10 : Lower[i] \in DecimalDigits
      BY DEF DecimalDigits
    <3>. QED  BY <3>1, <3>2
  <2>. QED  BY <2>1, <2>2 DEF DecimalDigits
<1>4. \A ch \in Letters : ch \notin DecimalDigits /\ ch # NUL
  BY <1>3 DEF Letters, NUL
<1>5. NUL \notin DecimalDigits /\ "0" \in DecimalDigits
  BY <1>3 DEF NUL
<1>. QED  BY <1>1, <1>2, <1>4, <1>5

\* the only step there is
LEMMA StepOfSpec ==
  ASSUME Next, pc = "spec"
  PROVE  /\ cur \in DecimalDigits => Digit
         /\ (cur = "%" => PercentPercent) /\ (cur = "-" => Minus)
         /\ (cur = "z" => LengthZ) /\ (cur = "l" => LengthL)
         /\ (cur \in {"d", "i"} => Signed) /\ (cur \in {"u", "x", "X"} => Unsigned)
         /\ (cur = "p" => Pointer) /\ (cur = "s" => Str)
<1>1. \/ PercentPercent /\ cur = "%"
      \/ Digit /\ cur \in DecimalDigits
      \/ Minus /\ cur = "-"
      \/ LengthZ /\ cur = "z"
      \/ LengthL /\ cur = "l"
      \/ Signed /\ cur \in {"d", "i"}
      \/ Unsigned /\ cur \in {"u", "x", "X"}
      \/ Pointer /\ cur = "p"
      \/ Str /\ cur = "s"
      \/ cur \notin DecimalDigits /\ cur \notin Letters
  BY DEF Next, Switch, Entry, Text, Percent, Terminate, PercentPercent, Digit, WidthDigit,
         WidthEnd, Minus, LengthZ, LengthL, Modifier, Signed, Unsigned, Pointer, Str, Other,
         NextDigit, Field, Over, Letters
<1>2. \A ch \in Letters : ch \notin DecimalDigits
  BY DigitsAndLetters
<1>3. /\ "%" \in Letters /\ "-" \in Letters /\ "z" \in Letters /\ "l" \in Letters
      /\ "d" \in Letters /\ "i" \in Letters /\ "u" \in Letters /\ "x" \in Letters
      /\ "X" \in Letters /\ "p" \in Letters /\ "s" \in Letters
  BY DEF Letters
<1>4. cur \in DecimalDigits => cur \notin Letters
  BY <1>2
<1>. HIDE DEF Letters
<1>. QED  BY <1>1, <1>3, <1>4

\* the step there is at each place but the switch
LEMMA StepElsewhere ==
  ASSUME Next
  PROVE  /\ pc = "entry" => Entry
         /\ pc = "text" => Text \/ Percent \/ Terminate
         /\ pc = "width" => WidthDigit \/ WidthEnd
         /\ pc = "digits" => NextDigit \/ Field
         /\ pc \in {"returned", "panicked", "outside"} => UNCHANGED vars
BY DEF Next, Switch, Entry, Text, Percent, Terminate, PercentPercent, Digit, WidthDigit,
       WidthEnd, Minus, LengthZ, LengthL, Modifier, Signed, Unsigned, Pointer, Str, Other,
       NextDigit, Field, Over

\* the parameters are not changed
LEMMA CallStays ==
  ASSUME Next
  PROVE  call' = call
BY DEF Next, Switch, Entry, Text, Percent, Terminate, PercentPercent, Digit, WidthDigit,
       WidthEnd, Minus, LengthZ, LengthL, Modifier, Signed, Unsigned, Pointer, Str, Other,
       NextDigit, Field, Over, Quiet, PrintNumber, vars

\* the characters of a width
WidthChars(flag, width) == FieldChars(IF flag = "-" THEN "none" ELSE flag, width)

\* the characters of a flag and a width are read as the width
LEMMA WidthCharsAre ==
  ASSUME NEW flag \in {"none", "0", "-"}, NEW width \in Nat
  PROVE  /\ WidthChars(flag, width) \in Seq(DecimalDigits)
         /\ Reads(WidthChars(flag, width), 0, width)
         /\ (WidthChars(flag, width) = << >> => width = 0)
         /\ (WidthChars(flag, width) # << >> =>
               (WidthChars(flag, width)[1] = "0" <=> flag = "0"))
         /\ FieldChars(flag, width) = IF flag = "-" THEN <<"-">> \o WidthChars(flag, width)
                                      ELSE WidthChars(flag, width)
<1>. DEFINE d == Digits(width, 10, LowerTable)
            z == IF width = 0 THEN << >> ELSE d
            f == IF flag = "0" THEN <<"0">> ELSE << >>
            pre == [i \in 0 .. 0 |-> 0]
<1>1. width # 0 => d \in Seq(DecimalDigits) /\ d # << >> /\ d[1] # "0" /\ Reads(d, 0, width)
  BY WidthReads
<1>2. Reads(<< >>, 0, 0)
  <2>1. pre \in [0 .. 0 -> Nat] /\ pre[0] = 0 /\ Len(<< >>) = 0
    OBVIOUS
  <2>. HIDE DEF pre
  <2>. QED  BY <2>1 DEF Reads
<1>3. z \in Seq(DecimalDigits) /\ Reads(z, 0, width) /\ (z = << >> <=> width = 0)
      /\ (z # << >> => z[1] # "0")
  <2>. HIDE DEF d
  <2>. QED  BY <1>1, <1>2
<1>4. WidthChars(flag, width) = f \o z
  <2>. HIDE DEF d
  <2>1. WidthChars(flag, width) = f \o (IF width = 0 THEN << >> ELSE Digits(width, 10, LowerTable))
    BY DEF WidthChars, FieldChars
  <2>. QED  BY <2>1 DEF d
<1>5. FieldChars(flag, width) = (IF flag = "none" THEN << >> ELSE <<flag>>) \o z
  <2>. QED  BY DEF FieldChars
<1>6. "0" \in DecimalDigits
  BY DigitsAndLetters
<1>. HIDE DEF z
<1>7. << >> \o z = z
  BY <1>3
<1>8. CASE flag = "0"
  <2>1. f \o z = <<"0">> \o z
    BY <1>8
  <2>. DEFINE y == <<"0">> \o z
  <2>2. y \in Seq(DecimalDigits) /\ y # << >> /\ y[1] = "0" /\ Tail(y) = z
    BY <1>3, <1>6
  <2>3. Reads(y, 0, width)
    <3>1. PICK p \in [0 .. Len(z) -> Nat] :
            /\ p[0] = 0 /\ p[Len(z)] = width
            /\ \A i \in 1 .. Len(z) : p[i] = p[i - 1] * 10 + ValueOf(z[i])
      BY <1>3 DEF Reads
    <3>. DEFINE N == Len(z)
                p2 == [i \in 0 .. N + 1 |-> IF i = 0 THEN 0 ELSE p[i - 1]]
    <3>2. N \in Nat /\ Len(y) = N + 1 /\ \A i \in 1 .. N : y[i + 1] = z[i]
      BY <1>3, <1>6
    <3>3. ValueOf("0") = 0
      <4>1. LowerTable[0 + 1] = "0"
        BY DEF LowerTable
      <4>. QED  BY <4>1, ValueIs
    <3>. HIDE DEF N, y
    <3>4. p2 \in [0 .. N + 1 -> Nat]
      <4>1. ASSUME NEW i \in 0 .. N + 1, i # 0 PROVE p[i - 1] \in Nat
        <5>1. i - 1 \in 0 .. N
          BY <3>2, <4>1
        <5>. QED  BY <3>1, <5>1 DEF N
      <4>. QED  BY <4>1
    <3>5. p2[0] = 0 /\ p2[N + 1] = width
      <4>1. 0 \in 0 .. N + 1 /\ N + 1 \in 0 .. N + 1 /\ N + 1 # 0 /\ (N + 1) - 1 = N
        BY <3>2
      <4>. QED  BY <3>1, <4>1 DEF N
    <3>6. ASSUME NEW i \in 1 .. N + 1 PROVE p2[i] = p2[i - 1] * 10 + ValueOf(y[i])
      <4>1. CASE i = 1
        <5>1. p2[i] = p[0] /\ p2[i - 1] = 0 /\ y[i] = "0"
          BY <2>2, <3>2, <4>1
        <5>. QED  BY <3>1, <3>3, <5>1
      <4>2. CASE i # 1
        <5>1. i - 1 \in 1 .. N /\ (i - 1) + 1 = i /\ i \in 0 .. N + 1 /\ i # 0
              /\ i - 1 \in 0 .. N + 1 /\ i - 1 # 0
          BY <3>2, <4>2
        <5>2. p2[i] = p[i - 1] /\ p2[i - 1] = p[(i - 1) - 1] /\ y[i] = z[i - 1]
          <6>1. y[(i - 1) + 1] = z[i - 1]
            BY <3>2, <5>1
          <6>. QED  BY <5>1, <6>1
        <5>. QED  BY <3>1, <5>1, <5>2 DEF N
      <4>. QED  BY <4>1, <4>2
    <3>. HIDE DEF p2
    <3>. QED  BY <3>2, <3>4, <3>5, <3>6 DEF Reads
  <2>. HIDE DEF y
  <2>4. WidthChars(flag, width) = y /\ FieldChars(flag, width) = y
    BY <1>4, <1>5, <1>8, <2>1 DEF y
  <2>. QED  BY <1>8, <2>2, <2>3, <2>4
<1>9. CASE flag # "0"
  <2>1. WidthChars(flag, width) = z
    BY <1>4, <1>7, <1>9
  <2>2. FieldChars(flag, width) = IF flag = "-" THEN <<"-">> \o z ELSE z
    BY <1>5, <1>7, <1>9
  <2>. QED  BY <1>3, <1>9, <2>1, <2>2
<1>. QED  BY <1>8, <1>9
-----------------------------------------------------------------------------
(* The flag, the width and the length modifier of a conversion             *)

Left(flag) == IF flag = "-" THEN {"left"} ELSE {}

\* tail is what follows the width
AtFlag(flag, width, tail, e) ==
  /\ pc = "spec" /\ flag = "-" /\ conv.padn = 0 /\ conv.flags = {}
  /\ Ahead(call.fmt, fp, <<"-">> \o (WidthChars(flag, width) \o tail), e)
AtWidth(flag, width, tail, e) ==
  /\ pc = "spec" /\ conv.padn = 0 /\ conv.flags = Left(flag)
  /\ Ahead(call.fmt, fp, WidthChars(flag, width) \o tail, e)
InWidth(flag, width, tail, e) ==
  /\ pc = "width" /\ conv.padc = PadOf(flag) /\ conv.flags = Left(flag)
  /\ \E z \in Seq(DecimalDigits) : /\ Reads(z, conv.padn, width)
                                   /\ Ahead(call.fmt, fp, z \o tail, e)
BehindWidth(flag, width, tail, e) ==
  /\ pc = "spec" /\ Padding(flag, width, 0) /\ conv.flags = Left(flag)
  /\ Ahead(call.fmt, fp, tail, e)

\* what the type invariant says of the walk
LEMMA FmtFacts ==
  ASSUME IInv
  PROVE  /\ call.fmt \in Seq(Char) /\ Len(call.fmt) \in Nat /\ fp \in Nat \ {0}
         /\ conv \in Conv /\ num \in Num /\ out \in Seq(Bytes)
BY CallFacts, Known DEF IInv, Types, TypeOK, Bytes

\* the characters ahead are read one by one
LEMMA NextIs ==
  ASSUME IInv, NEW z \in Seq(Char), z # << >>, NEW r \in Seq(Char), NEW e \in Nat,
         Ahead(call.fmt, fp, z \o r, e)
  PROVE  cur = z[1] /\ z[1] \in Char /\ Ahead(call.fmt, fp + 1, Tail(z) \o r, e)
<1>. DEFINE fmt == call.fmt
            q == fp
<1>1. Len(fmt) \in Nat /\ e \in Int /\ Ahead(fmt, q, z \o r, e)
  BY FmtFacts
<1>2. cur = IF q <= Len(fmt) THEN fmt[q] ELSE NUL
  BY DEF cur
<1>. HIDE DEF fmt, q
<1>3. q <= Len(fmt) /\ fmt[q] = z[1] /\ z[1] \in Char /\ Ahead(fmt, q + 1, Tail(z) \o r, e)
  BY <1>1, AheadFirst
<1>. QED  BY <1>2, <1>3 DEF fmt, q

\* the same for one character, and without what follows it
LEMMA NextIsOne ==
  ASSUME IInv, NEW ch \in Char, NEW r \in Seq(Char), NEW e \in Nat,
         Ahead(call.fmt, fp, <<ch>> \o r, e)
  PROVE  cur = ch /\ Ahead(call.fmt, fp + 1, r, e)
<1>. DEFINE z == <<ch>>
<1>1. z \in Seq(Char) /\ z # << >> /\ z[1] = ch /\ Tail(z) = << >> /\ Ahead(call.fmt, fp, z \o r, e)
      /\ << >> \o r = r
  OBVIOUS
<1>. HIDE DEF z
<1>2. cur = z[1] /\ Ahead(call.fmt, fp + 1, Tail(z) \o r, e)
  BY <1>1, NextIs
<1>. QED  BY <1>1, <1>2

LEMMA NextOf ==
  ASSUME IInv, NEW z \in Seq(Char), z # << >>, NEW e \in Nat, Ahead(call.fmt, fp, z, e)
  PROVE  cur = z[1] /\ z[1] \in Char /\ Ahead(call.fmt, fp + 1, Tail(z), e)
<1>. DEFINE r == << >>
<1>1. r \in Seq(Char) /\ z \o r = z
  OBVIOUS
<1>2. Tail(z) \o r = Tail(z)
  <2>1. Tail(z) \in Seq(Char)
    BY Uncons
  <2>. QED  BY <2>1
<1>. HIDE DEF r
<1>3. Ahead(call.fmt, fp, z \o r, e)
  BY <1>1
<1>. QED  BY <1>1, <1>2, <1>3, NextIs

\* the minus sign
LEMMA FlagStep ==
  ASSUME IInv, Next, NEW flag \in {"none", "0", "-"}, NEW width \in Nat, NEW tail \in Seq(Char),
         NEW e \in Nat, AtFlag(flag, width, tail, e)
  PROVE  AtWidth(flag, width, tail, e)' /\ UNCHANGED <<call, ap, out>>
<1>. DEFINE rest == WidthChars(flag, width) \o tail
<1>1. rest \in Seq(Char) /\ "-" \in Char
  <2>1. WidthChars(flag, width) \in Seq(Char)
    BY WidthCharsAre, DigitsAndLetters
  <2>. QED  BY <2>1, Concat, SomeChars
<1>. HIDE DEF rest
<1>2. pc = "spec" /\ conv.padn = 0 /\ conv.flags = {} /\ Ahead(call.fmt, fp, <<"-">> \o rest, e)
      /\ flag = "-"
  BY DEF AtFlag, rest
<1>3. cur = "-"
  BY <1>1, <1>2, NextIsOne
<1>4. Modifier("-", [conv EXCEPT !.flags = @ \cup {"left"}])
  BY <1>2, <1>3, StepOfSpec DEF Minus
<1>5. /\ pc' = "spec" /\ conv' = [conv EXCEPT !.flags = @ \cup {"left"}]
      /\ UNCHANGED <<call, ap, out>> /\ fp' = fp + 1
  BY <1>4 DEF Modifier, Quiet, put
<1>6. Ahead(call.fmt, fp + 1, rest, e)
  BY <1>1, <1>2, NextIsOne
<1>7. conv'.padn = 0 /\ conv'.flags = Left(flag)
  BY <1>2, <1>5, FmtFacts DEF Conv, Left
<1>8. Ahead(call.fmt', fp', rest, e)
  BY <1>5, <1>6
<1>. QED  BY <1>5, <1>7, <1>8 DEF AtWidth, rest

\* the padding character of a width
LEMMA PadChosen ==
  ASSUME NEW flag, NEW ch, ch = "0" <=> flag = "0"
  PROVE  (IF ch = "0" THEN "0" ELSE " ") = PadOf(flag)
BY Zenon DEF PadOf, Space

\* the begin of a width
LEMMA WidthStep ==
  ASSUME IInv, Next, NEW flag \in {"none", "0", "-"}, NEW width \in Nat, NEW tail \in Seq(Char),
         NEW e \in Nat, AtWidth(flag, width, tail, e), WidthChars(flag, width) # << >>
  PROVE  InWidth(flag, width, tail, e)' /\ UNCHANGED <<call, ap, out>>
<1>. DEFINE z == WidthChars(flag, width)
<1>1. z \in Seq(DecimalDigits) /\ z \in Seq(Char) /\ Reads(z, 0, width) /\ z # << >>
      /\ (z[1] = "0" <=> flag = "0") /\ z[1] \in DecimalDigits
  <2>1. z \in Seq(DecimalDigits) /\ Reads(z, 0, width) /\ (z[1] = "0" <=> flag = "0")
    BY WidthCharsAre
  <2>. HIDE DEF z
  <2>2. z # << >>
    BY DEF z
  <2>3. z[1] \in DecimalDigits
    BY <2>1, <2>2, Uncons
  <2>. QED  BY <2>1, <2>2, <2>3, DigitsAndLetters
<1>. HIDE DEF z
<1>2. pc = "spec" /\ conv.padn = 0 /\ conv.flags = Left(flag) /\ Ahead(call.fmt, fp, z \o tail, e)
  BY DEF AtWidth, z
<1>3. cur = z[1]
  BY <1>1, <1>2, NextIs
<1>4. Digit
  BY <1>1, <1>2, <1>3, StepOfSpec
<1>. DEFINE pad == IF cur = "0" THEN "0" ELSE " "
<1>5. pad = PadOf(flag)
  <2>1. cur = "0" <=> flag = "0"
    BY <1>1, <1>3
  <2>. QED  BY <2>1, PadChosen
<1>6. /\ pc' = "width" /\ conv' = [conv EXCEPT !.padc = pad, !.padn = 0]
      /\ UNCHANGED <<call, ap, out, fp>>
  BY <1>4 DEF Digit, Quiet, put
<1>. HIDE DEF pad
<1>7. conv'.padc = PadOf(flag) /\ conv'.padn = 0 /\ conv'.flags = Left(flag)
  BY <1>2, <1>5, <1>6, FmtFacts DEF Conv
<1>8. Ahead(call.fmt', fp', z \o tail, e) /\ Reads(z, conv'.padn, width)
  BY <1>1, <1>2, <1>6, <1>7
<1>. QED  BY <1>1, <1>6, <1>7, <1>8 DEF InWidth

\* no width at all
LEMMA NoWidth ==
  ASSUME NEW flag \in {"none", "0", "-"}, NEW width \in Nat, NEW tail \in Seq(Char),
         NEW e, AtWidth(flag, width, tail, e), WidthChars(flag, width) = << >>
  PROVE  BehindWidth(flag, width, tail, e)
<1>0. << >> \o tail = tail
  OBVIOUS
<1>1. width = 0 /\ << >> \o tail = tail
  BY <1>0, WidthCharsAre
<1>2. Ahead(call.fmt, fp, tail, e)
  BY <1>1 DEF AtWidth
<1>3. Padding(flag, width, 0)
  BY <1>1 DEF AtWidth, Padding
<1>. QED  BY <1>2, <1>3 DEF AtWidth, BehindWidth

\* a digit of the width, or its end
LEMMA WidthDigitStep ==
  ASSUME IInv, Next, NEW flag \in {"none", "0", "-"}, NEW width \in Nat,
         NEW tail \in Seq(Char), tail # << >>, tail[1] \notin DecimalDigits,
         NEW e \in Nat, InWidth(flag, width, tail, e)
  PROVE  /\ InWidth(flag, width, tail, e)' \/ BehindWidth(flag, width, tail, e)'
         /\ UNCHANGED <<call, ap, out>>
<1>1. pc = "width" /\ conv.padc = PadOf(flag) /\ conv.flags = Left(flag)
  BY DEF InWidth
<1>2. PICK z \in Seq(DecimalDigits) : /\ Reads(z, conv.padn, width)
                                      /\ Ahead(call.fmt, fp, z \o tail, e)
  BY DEF InWidth
<1>3. WidthDigit \/ WidthEnd
  BY <1>1, StepElsewhere
<1>4. UNCHANGED <<call, ap, out>>
  BY <1>3 DEF WidthDigit, WidthEnd, Quiet, put
<1>5. z \in Seq(Char)
  BY DigitsAndLetters
<1>6. CASE z # << >>
  <2>1. z[1] \in DecimalDigits
    BY <1>6, Uncons
  <2>2. cur = z[1] /\ Ahead(call.fmt, fp + 1, Tail(z) \o tail, e)
    BY <1>2, <1>5, <1>6, NextIs
  <2>3. cur = z[1]
    BY <2>2
  <2>4. pc' = "width" /\ fp' = fp + 1 /\ conv' = [conv EXCEPT !.padn = @ * 10 + ValueOf(z[1])]
    BY <1>1, <1>3, <2>1, <2>3 DEF WidthDigit, WidthEnd
  <2>5. conv'.padn = conv.padn * 10 + ValueOf(z[1]) /\ conv'.padc = conv.padc
        /\ conv'.flags = conv.flags
    BY <2>4, FmtFacts DEF Conv
  <2>6. Reads(Tail(z), conv.padn * 10 + ValueOf(z[1]), width)
    BY <1>2, <1>6, ReadsNext
  <2>7. Tail(z) \in Seq(DecimalDigits)
    BY <1>6, Uncons
  <2>. DEFINE t == Tail(z)
  <2>8. /\ t \in Seq(DecimalDigits) /\ Reads(t, conv'.padn, width)
        /\ Ahead(call.fmt', fp', t \o tail, e)
    BY <1>4, <2>2, <2>4, <2>5, <2>6, <2>7
  <2>. HIDE DEF t
  <2>9. InWidth(flag, width, tail, e)'
    BY <1>1, <2>4, <2>5, <2>8 DEF InWidth
  <2>. QED  BY <1>4, <2>9
<1>7. CASE z = << >>
  <2>1. conv.padn = width /\ Ahead(call.fmt, fp, tail, e)
    <3>1. << >> \o tail = tail
      OBVIOUS
    <3>2. Reads(<< >>, conv.padn, width)
      BY <1>2, <1>7
    <3>. QED  BY <1>2, <1>7, <3>1, <3>2, ReadsEnd
  <2>2. cur = tail[1]
    BY <2>1, NextOf
  <2>3. /\ pc' = "spec" /\ fp' = fp
        /\ conv' = [conv EXCEPT !.padn = IF "left" \in conv.flags THEN - @ ELSE @]
    BY <1>1, <1>3, <2>2 DEF WidthDigit, WidthEnd
  <2>4. /\ conv'.padn = IF "left" \in conv.flags THEN - conv.padn ELSE conv.padn
        /\ conv'.padc = conv.padc /\ conv'.flags = conv.flags
    BY <2>3, FmtFacts DEF Conv
  <2>5. "left" \in conv.flags <=> flag = "-"
    BY <1>1 DEF Left
  <2>6. conv'.padn = (IF flag = "-" THEN 0 - width ELSE width) - 0
    BY <2>1, <2>4, <2>5
  <2>7. Padding(flag, width, 0)'
    BY <1>1, <2>4, <2>6 DEF Padding
  <2>8. Ahead(call.fmt', fp', tail, e)
    BY <1>4, <2>1, <2>3
  <2>9. BehindWidth(flag, width, tail, e)'
    BY <1>1, <2>3, <2>4, <2>7, <2>8 DEF BehindWidth
  <2>. QED  BY <1>4, <2>9
<1>. QED  BY <1>6, <1>7

\* the length modifiers
LEMMA LengthsAre ==
  ASSUME NEW l \in Lengths
  PROVE  l # << >> => l[1] \in {"l", "z"} /\ Tail(l) \in Lengths
<1>1. l \in {<< >>, <<"l">>, <<"l", "l">>, <<"z">>}
  BY DEF Lengths
<1>2. Tail(<<"l">>) = << >> /\ Tail(<<"z">>) = << >> /\ Tail(<<"l", "l">>) = <<"l">>
  OBVIOUS
<1>3. CASE l = << >>
  BY <1>3
<1>4. CASE l = <<"l">>
  BY <1>2, <1>4 DEF Lengths
<1>5. CASE l = <<"l", "l">>
  BY <1>2, <1>5 DEF Lengths
<1>6. CASE l = <<"z">>
  BY <1>2, <1>6 DEF Lengths
<1>. QED  BY <1>1, <1>3, <1>4, <1>5, <1>6
-----------------------------------------------------------------------------
(* The length modifiers, the letter and the number of a conversion         *)

AtLength(flag, width, c, e) ==
  /\ pc = "spec" /\ Padding(flag, width, 0) /\ conv.flags = Left(flag)
  /\ \E l \in Lengths \cap Seq(Char) : Ahead(call.fmt, fp, l \o <<c>>, e)
InNumber(flag, width, c, v, e) ==
  /\ pc = "digits" /\ fp = e /\ Padding(flag, width, Less(c, v))
  /\ "capitalise" \in conv.flags <=> c = "X"
  /\ c # "s" /\ Printing(num, c, Body(c, v))

\* a length modifier, or none
LEMMA LengthStep ==
  ASSUME IInv, Next, NEW flag, NEW width, NEW c \in Char, NEW e \in Nat,
         AtLength(flag, width, c, e)
  PROVE  \/ BehindWidth(flag, width, <<c>>, e)
         \/ AtLength(flag, width, c, e)' /\ UNCHANGED <<call, ap, out>>
<1>. DEFINE t == <<c>>
<1>1. t \in Seq(Char) /\ << >> \o t = t
  OBVIOUS
<1>. HIDE DEF t
<1>2. PICK l \in Lengths \cap Seq(Char) : Ahead(call.fmt, fp, l \o t, e)
  BY DEF AtLength, t
<1>3. pc = "spec" /\ Padding(flag, width, 0) /\ conv.flags = Left(flag)
  BY DEF AtLength
<1>4. CASE l = << >>
  <2>1. Ahead(call.fmt, fp, t, e)
    BY <1>1, <1>2, <1>4
  <2>. QED  BY <1>3, <2>1 DEF BehindWidth, t
<1>5. CASE l # << >>
  <2>1. l[1] \in {"l", "z"} /\ Tail(l) \in Lengths /\ Tail(l) \in Seq(Char)
    BY <1>5, LengthsAre, Uncons
  <2>2. cur = l[1] /\ Ahead(call.fmt, fp + 1, Tail(l) \o t, e)
    BY <1>1, <1>2, <1>5, NextIs
  <2>3. LengthZ \/ LengthL
    BY <1>3, <2>1, <2>2, StepOfSpec
  <2>4. /\ pc' = "spec" /\ fp' = fp + 1 /\ UNCHANGED <<call, ap, out>>
        /\ \E k \in Nat : conv' = [conv EXCEPT !.l_count = k]
    <3>1. conv.l_count \in Nat
      BY FmtFacts DEF Conv
    <3>2. CASE LengthZ
      BY <1>3, <3>2 DEF LengthZ, Modifier, Quiet, put
    <3>3. CASE LengthL
      <4>1. conv.l_count + 1 \in Nat
        BY <3>1
      <4>. QED  BY <1>3, <3>3, <4>1 DEF LengthL, Modifier, Quiet, put
    <3>. QED  BY <2>3, <3>2, <3>3
  <2>5. conv'.padn = conv.padn /\ conv'.padc = conv.padc /\ conv'.flags = conv.flags
    BY <2>4, FmtFacts DEF Conv
  <2>6. Padding(flag, width, 0)'
    BY <1>3, <2>5 DEF Padding
  <2>. DEFINE k == Tail(l)
  <2>7. k \in Lengths \cap Seq(Char) /\ Ahead(call.fmt', fp', k \o t, e)
    BY <2>1, <2>2, <2>4
  <2>. HIDE DEF k
  <2>8. AtLength(flag, width, c, e)'
    BY <1>3, <2>4, <2>5, <2>6, <2>7 DEF AtLength, t
  <2>. QED  BY <2>4, <2>8
<1>. QED  BY <1>4, <1>5

\* the number given to unsigned_num_print
LEMMA NumberStarts ==
  ASSUME NEW c, NEW v \in Int, c # "s", c \notin {"d", "i"} => v >= 0,
         NEW u, u = (IF v < 0 THEN - v ELSE v),
         NEW r, r = RadixOf(c)
  PROVE  Printing([unum |-> u, radix |-> r, num_buf |-> << >>], c, Body(c, v))
<1>. DEFINE m == [unum |-> u, radix |-> r, num_buf |-> << >>]
            d == Digits(u, RadixOf(c), TableOf(c))
<1>1. Body(c, v) = d /\ Body(c, v) \in Seq(Char)
  BY BodyIs
<1>2. d \in Seq(Char)
  BY <1>1
<1>. HIDE DEF d
<1>3. d \o << >> = Body(c, v)
  BY <1>1, <1>2
<1>4. m.unum = u /\ m.radix = r /\ m.num_buf = << >>
  OBVIOUS
<1>. HIDE DEF m
<1>5. Printing(m, c, Body(c, v))
  BY <1>3, <1>4 DEF Printing, d
<1>. QED  BY <1>5 DEF m

\* the assignment to an int keeps what is in its range
LEMMA ToIntIs ==
  ASSUME NEW v \in - (IntSpan \div 2) .. IntSpan \div 2 - 1
  PROVE  v \in Int /\ ToInt(v) = v /\ (v < 0 => (- v) % IntSpan = - v)
<1>. DEFINE N == IntSpan
            h == N \div 2
<1>1. N \in Nat \ {0} /\ h \in Nat /\ 2 * h <= N /\ N <= 2 * h + 1 /\ v \in - h .. h - 1
  BY IntAssumption
<1>2. v \in Int /\ - h <= v /\ v <= h - 1
  <2>. HIDE DEF N, h
  <2>. QED  BY <1>1
<1>3. v >= 0 => v % N = v
  <2>. HIDE DEF h
  <2>. HIDE DEF N
  <2>1. v >= 0 => v < N
    BY <1>1, <1>2
  <2>. QED  BY <1>1, <1>2, <2>1
<1>4. v < 0 => v % N = v + N /\ (- v) % N = - v
  <2>. HIDE DEF h
  <2>. HIDE DEF N
  <2>1. v < 0 => v + N \in 0 .. N - 1 /\ - v \in 0 .. N - 1
    BY <1>1, <1>2
  <2>. QED  BY <1>1, <1>2, <2>1
<1>5. ToInt(v) = IF v % N >= h THEN (v % N) - N ELSE v % N
  BY DEF ToInt
<1>. HIDE DEF N, h
<1>6. ToInt(v) = v
  <2>1. CASE v >= 0
    BY <1>1, <1>2, <1>3, <1>5, <2>1
  <2>2. CASE v < 0
    <3>1. v + N >= h
      BY <1>1, <1>2
    <3>. QED  BY <1>1, <1>2, <1>4, <1>5, <2>2, <3>1
  <2>. QED  BY <1>2, <2>1, <2>2
<1>. QED  BY <1>2, <1>4, <1>6 DEF N

\* the call of unsigned_num_print, behind the prefix
LEMMA NumberStep ==
  ASSUME IInv, Next, NEW flag, NEW width, NEW length, NEW c, NEW v, NEW e \in Nat,
         SnprintfAgrees(flag, width, length, c, v), c # "s",
         BehindWidth(flag, width, <<c>>, e), arg = v
  PROVE  /\ InNumber(flag, width, c, v, e)'
         /\ UNCHANGED call /\ ap' = ap + 1 /\ out' = out \o Prefix(c, v)
<1>. DEFINE u == IF v < 0 THEN - v ELSE v
<1>1. /\ flag \in {"none", "0", "-"} /\ width \in Nat /\ v \in Int
      /\ (c \notin {"d", "i"} => v >= 0) /\ c \in Char
  BY ValuesAgree DEF SnprintfAgrees
<1>2. pc = "spec" /\ Padding(flag, width, 0) /\ conv.flags = Left(flag)
      /\ Ahead(call.fmt, fp, <<c>>, e)
  BY DEF BehindWidth
<1>3. cur = c /\ fp = e
  <2>1. <<c>> \o << >> = <<c>> /\ << >> \in Seq(Char)
    OBVIOUS
  <2>2. cur = c /\ Ahead(call.fmt, fp + 1, << >>, e)
    BY <1>1, <1>2, <2>1, NextIsOne
  <2>3. fp + 1 = e + 1
    BY <2>2, AheadEnd
  <2>. QED  BY <2>2, <2>3, FmtFacts
<1>4. out \o << >> = out
  BY FmtFacts, ByteEmpty
<1>5. /\ num' = [unum |-> u, radix |-> RadixOf(c), num_buf |-> << >>]
      /\ pc' = "digits" /\ UNCHANGED <<call, fp>> /\ ap' = ap + 1
      /\ out' = out \o Prefix(c, v)
      /\ conv'.padc = conv.padc /\ conv'.padn = conv.padn - Less(c, v)
      /\ conv'.flags = conv.flags \cup (IF c = "X" THEN {"capitalise"} ELSE {})
  <2>0. conv.padn - 0 = conv.padn
    BY FmtFacts DEF Conv
  <2>1. CASE c \in {"d", "i"}
    <3>1. v \in - (IntSpan \div 2) .. IntSpan \div 2 - 1
      BY <2>1 DEF SnprintfAgrees
    <3>2. ToInt(v) = v /\ (v < 0 => (- v) % IntSpan = - v)
      BY <3>1, ToIntIs
    <3>3. Signed
      BY <1>2, <1>3, <2>1, StepOfSpec
    <3>4. /\ IF v < 0 THEN PutChars(<<"-">>) /\ PrintNumber((- v) % IntSpan, 10)
             ELSE UNCHANGED put /\ PrintNumber(v, 10)
          /\ UNCHANGED conv /\ ap' = ap + 1
      BY <3>2, <3>3 DEF Signed, get_num_va_arg, Take
    <3>5. PrintNumber(u, 10) /\ out' = out \o Prefix(c, v)
      <4>1. CASE v < 0
        BY <2>1, <3>2, <3>4, <4>1 DEF PutChars, Prefix
      <4>2. CASE ~ (v < 0)
        <5>1. Prefix(c, v) = << >>
          BY <2>1, <4>2 DEF Prefix
        <5>. QED  BY <1>4, <3>4, <4>2, <5>1 DEF put
      <4>. QED  BY <4>1, <4>2
    <3>. HIDE DEF u
    <3>. QED  BY <2>0, <2>1, <3>4, <3>5 DEF PrintNumber, RadixOf, Less
  <2>2. CASE c \in {"u", "x", "X"}
    <3>1. Unsigned
      BY <1>2, <1>3, <2>2, StepOfSpec
    <3>2. u = v /\ Prefix(c, v) = << >> /\ Less(c, v) = 0
          /\ RadixOf(c) = (IF c = "u" THEN 10 ELSE 16)
      BY <1>1, <2>2 DEF Prefix, Less, RadixOf
    <3>. HIDE DEF u
    <3>3. PrintNumber(v, RadixOf(c)) /\ UNCHANGED put /\ ap' = ap + 1
          /\ conv' = [conv EXCEPT !.flags = @ \cup (IF c = "X" THEN {"capitalise"} ELSE {})]
      BY <1>3, <3>1, <3>2 DEF Unsigned, get_unum_va_arg, Take
    <3>4. /\ conv'.padc = conv.padc /\ conv'.padn = conv.padn
          /\ conv'.flags = conv.flags \cup (IF c = "X" THEN {"capitalise"} ELSE {})
      BY <3>3, FmtFacts DEF Conv
    <3>. QED  BY <1>4, <2>0, <3>2, <3>3, <3>4 DEF PrintNumber, put
  <2>3. CASE c = "p"
    <3>1. Pointer
      BY <1>2, <1>3, <2>3, StepOfSpec
    <3>2. u = v /\ RadixOf(c) = 16
      BY <1>1, <2>3 DEF RadixOf
    <3>. HIDE DEF u
    <3>3. /\ PrintNumber(v, 16) /\ ap' = ap + 1
          /\ IF v > 0 THEN PutChars(<<"0", "x">>) /\ conv' = [conv EXCEPT !.padn = @ - 2]
             ELSE UNCHANGED put /\ UNCHANGED conv
      BY <3>1 DEF Pointer, Take
    <3>4. CASE v > 0
      <4>1. out' = out \o Prefix(c, v) /\ Less(c, v) = 2
        BY <2>3, <3>3, <3>4 DEF PutChars, Prefix, Less
      <4>2. conv'.padc = conv.padc /\ conv'.padn = conv.padn - 2 /\ conv'.flags = conv.flags
        BY <3>3, <3>4, FmtFacts DEF Conv
      <4>. QED  BY <2>3, <3>2, <3>3, <4>1, <4>2 DEF PrintNumber
    <3>5. CASE ~ (v > 0)
      <4>1. Prefix(c, v) = << >> /\ Less(c, v) = 0
        BY <2>3, <3>5 DEF Prefix, Less
      <4>. QED  BY <1>4, <2>0, <2>3, <3>2, <3>3, <3>5, <4>1 DEF PrintNumber, put
    <3>. QED  BY <3>4, <3>5
  <2>. QED  BY <2>1, <2>2, <2>3 DEF SnprintfAgrees
<1>6. Printing(num', c, Body(c, v))
  BY <1>1, <1>5, NumberStarts
<1>7. "capitalise" \in conv'.flags <=> c = "X"
  <2>1. "capitalise" \notin Left(flag)
    BY DEF Left
  <2>. QED  BY <1>2, <1>5, <2>1
<1>8. Padding(flag, width, Less(c, v))'
  <2>1. conv.padn = (IF flag = "-" THEN 0 - width ELSE width) - 0
        /\ (width # 0 => conv.padc = PadOf(flag))
    BY <1>2 DEF Padding
  <2>2. conv.padn = (IF flag = "-" THEN 0 - width ELSE width)
    BY <1>1, <2>1
  <2>. QED  BY <1>5, <2>1, <2>2 DEF Padding
<1>9. InNumber(flag, width, c, v, e)'
  BY <1>3, <1>5, <1>6, <1>7, <1>8 DEF InNumber
<1>. QED  BY <1>5, <1>9

\* the step of %s
LEMMA StringStep ==
  ASSUME IInv, Next, NEW flag, NEW width, NEW v, NEW e \in Nat,
         "s" \in Char, BehindWidth(flag, width, <<"s">>, e), arg = v
  PROVE  UNCHANGED call /\ pc' = "text" /\ fp' = e + 1 /\ ap' = ap + 1 /\ out' = out \o v
<1>1. pc = "spec" /\ Ahead(call.fmt, fp, <<"s">>, e)
  BY DEF BehindWidth
<1>2. cur = "s" /\ fp = e
  <2>1. <<"s">> \o << >> = <<"s">> /\ << >> \in Seq(Char)
    OBVIOUS
  <2>2. cur = "s" /\ Ahead(call.fmt, fp + 1, << >>, e)
    BY <1>1, <2>1, NextIsOne
  <2>3. fp + 1 = e + 1
    BY <2>2, AheadEnd
  <2>. QED  BY <2>2, <2>3, FmtFacts
<1>3. Str
  BY <1>1, <1>2, StepOfSpec
<1>. QED  BY <1>2, <1>3 DEF Str, Take, PutChars

\* the digits
LEMMA DigitsStep ==
  ASSUME IInv, Next, NEW flag, NEW width, NEW c, NEW v, NEW e \in Nat,
         InNumber(flag, width, c, v, e)
  PROVE  \/ InNumber(flag, width, c, v, e)' /\ UNCHANGED <<call, ap, out>>
         \/ /\ num.num_buf = Body(c, v) /\ Padding(flag, width, Less(c, v))
            /\ UNCHANGED call /\ pc' = "text" /\ fp' = e + 1 /\ ap' = ap
            /\ out' = out \o Padded(Len(num.num_buf))
<1>1. /\ pc = "digits" /\ fp = e /\ Padding(flag, width, Less(c, v))
      /\ ("capitalise" \in conv.flags <=> c = "X") /\ c # "s" /\ Printing(num, c, Body(c, v))
  BY DEF InNumber
<1>2. CASE MoreDigits
  <2>1. NextDigit
    BY <1>1, <1>2, StepElsewhere DEF Field
  <2>2. num \in Num /\ (num.unum > 0 \/ num.num_buf = << >>)
    BY <1>2, FmtFacts DEF MoreDigits
  <2>. DEFINE d == num.unum % num.radix
              w == num.unum \div num.radix
  <2>3. DigitChar(d) = TableOf(c)[d + 1]
    <3>1. TableOf(c) = IF c = "X" THEN Upper ELSE Lower
      BY TablesAre
    <3>. QED  BY <1>1, <3>1 DEF DigitChar
  <2>4. /\ UNCHANGED <<pc, call, fp, ap, conv, out>>
        /\ num' = [num EXCEPT !.unum = w, !.num_buf = <<TableOf(c)[d + 1]>> \o num.num_buf]
    BY <2>1, <2>3 DEF NextDigit, put
  <2>5. Printing(num', c, Body(c, v))
    BY <1>1, <2>2, <2>4, PrintingGoesOn
  <2>6. Padding(flag, width, Less(c, v))'
    BY <1>1, <2>4 DEF Padding
  <2>7. InNumber(flag, width, c, v, e)'
    BY <1>1, <2>4, <2>5, <2>6 DEF InNumber
  <2>. QED  BY <2>4, <2>7
<1>3. CASE ~ MoreDigits
  <2>1. Field
    BY <1>1, <1>3, StepElsewhere DEF NextDigit
  <2>2. num.num_buf = Body(c, v)
    BY <1>1, <1>3 DEF Printing, MoreDigits
  <2>. QED  BY <1>1, <2>1, <2>2 DEF Field, PutChars
<1>. QED  BY <1>2, <1>3

\* what is printed for a number
LEMMA FieldPrinted ==
  ASSUME IInv
  PROVE  Padded(Len(num.num_buf)) \in Seq(Bytes)
<1>. DEFINE w == Len(num.num_buf)
            x == conv.padn
            ch == conv.padc
            b == num.num_buf
<1>1. w \in Nat /\ x \in Int /\ ch \in Bytes /\ b \in Seq(Char)
  BY FmtFacts DEF Conv, Num, Bytes
<1>2. Padded(w) = FieldText(ch, x, w, b)
  BY DEF Padded, FieldText, Pad, Times
<1>. HIDE DEF w, x, ch, b
<1>3. Times(ch, x - w) \in Seq(Bytes) /\ Times(ch, - (w + x)) \in Seq(Bytes)
  <2>1. x - w \in Int /\ - (w + x) \in Int
    BY <1>1
  <2>. QED  BY <1>1, <2>1, TimesIs
<1>4. b \in Seq(Bytes)
  BY <1>1, CharsAreBytes
<1>5. FieldText(ch, x, w, b) \in Seq(Bytes)
  <2>1. Times(ch, x - w) \o b \in Seq(Bytes)
    BY <1>3, <1>4, ByteConcat
  <2>. QED  BY <1>3, <2>1, ByteConcat DEF FieldText
<1>. QED  BY <1>2, <1>5 DEF w
-----------------------------------------------------------------------------
(* The parts of a format string                                            *)

Values == Int \cup Seq(Char)

\* the short sequences that occur
LEMMA ShortTexts ==
  /\ <<"-">> \in Seq(Char) /\ <<"%">> \in Seq(Char) /\ <<"%", "%">> \in Seq(Char)
  /\ <<"-">> \in Seq(Bytes) /\ <<"%">> \in Seq(Bytes) /\ <<"0", "x">> \in Seq(Bytes)
  /\ << >> \in Seq(Bytes) /\ << >> \in Seq(Char) /\ << >> \in Seq(Values)
<1>1. "-" \in Char /\ "%" \in Char /\ "0" \in Char /\ "x" \in Char
  BY SomeChars
<1>2. "-" \in Bytes /\ "%" \in Bytes /\ "0" \in Bytes /\ "x" \in Bytes
  BY <1>1 DEF Bytes
<1>3. <<"-">> \in Seq(Char) /\ <<"%">> \in Seq(Char) /\ <<"%", "%">> \in Seq(Char)
  BY <1>1
<1>4. <<"-">> \in Seq(Bytes) /\ <<"%">> \in Seq(Bytes) /\ <<"0", "x">> \in Seq(Bytes)
  BY <1>2
<1>5. << >> \in Seq(Bytes) /\ << >> \in Seq(Char) /\ << >> \in Seq(Values)
  OBVIOUS
<1>. QED  BY <1>3, <1>4, <1>5

\* where a piece of something put together is
LEMMA Pieces ==
  ASSUME NEW E, NEW seqs, AllSeqs(E, seqs), NEW k \in 0 .. Len(seqs) - 1,
         NEW more \in Seq(E), NEW w, w = Joined(seqs) \o more
  PROVE  /\ Len(Upto(seqs)[k]) \in Nat /\ Len(seqs[k + 1]) \in Nat
         /\ Len(Upto(seqs)[k + 1]) = Len(Upto(seqs)[k]) + Len(seqs[k + 1])
         /\ Len(Upto(seqs)[k + 1]) <= Len(w)
         /\ Holds(w, Len(Upto(seqs)[k]), seqs[k + 1])
<1>. DEFINE j == Joined(seqs)
            a == Upto(seqs)[k]
            b == seqs[k + 1]
            c == Upto(seqs)[k + 1]
<1>1. j \in Seq(E) /\ a \in Seq(E) /\ Len(c) = Len(a) + Len(b) /\ Len(c) <= Len(j)
      /\ \A i \in 1 .. Len(b) : j[Len(a) + i] = b[i]
  <2>. HIDE DEF j, a, b, c
  <2>1. /\ Joined(seqs) \in Seq(E)
        /\ Upto(seqs)[k] \in Seq(E)
        /\ Len(Upto(seqs)[k + 1]) = Len(Upto(seqs)[k]) + Len(seqs[k + 1])
        /\ Len(Upto(seqs)[k + 1]) <= Len(Joined(seqs))
        /\ Holds(Joined(seqs), Len(Upto(seqs)[k]), seqs[k + 1])
    BY Cut
  <2>. QED  BY <2>1 DEF j, a, b, c, Holds
<1>2. b \in Seq(E)
  <2>1. k + 1 \in 1 .. Len(seqs)
    BY DEF AllSeqs
  <2>. QED  BY <2>1 DEF AllSeqs
<1>. HIDE DEF j, a, b, c
<1>3. w = j \o more
  BY DEF j
<1>4. /\ Len(w) = Len(j) + Len(more) /\ \A i \in 1 .. Len(j) : w[i] = j[i]
      /\ Len(j) \in Nat /\ Len(more) \in Nat
  BY <1>1, <1>3, Concat
<1>. DEFINE x == Len(a)
            y == Len(b)
            z == Len(c)
            l == Len(j)
            m == Len(w)
<1>5. x \in Nat /\ y \in Nat /\ z = x + y /\ l \in Nat /\ z <= l
      /\ m \in Nat /\ l <= m
  <2>1. Len(a) \in Nat /\ Len(b) \in Nat
    BY <1>1, <1>2
  <2>. QED  BY <1>1, <1>4, <2>1
<1>6. ASSUME NEW i \in 1 .. y
      PROVE  w[x + i] = b[i]
  <2>1. j[x + i] = b[i]
    BY <1>1
  <2>2. x + i \in 1 .. l
    <3>. HIDE DEF x, y, z, l, m
    <3>. QED  BY <1>5
  <2>3. w[x + i] = j[x + i]
    BY <1>4, <2>2
  <2>. QED  BY <2>1, <2>3
<1>7. x \in Nat /\ y \in Nat /\ z = x + y /\ z <= m
  <2>. HIDE DEF x, y, z, l, m
  <2>. QED  BY <1>5
<1>. QED  BY <1>6, <1>7 DEF x, y, z, m, a, b, c, Holds

\* what the conversions of both interpreters have in common
Sane(flag, width, length, c, v) ==
  /\ flag \in {"none", "0", "-"} /\ width \in Nat /\ length \in Lengths \cap Seq(Char)
  /\ c \in Char
  /\ IF c = "s" THEN v \in Seq(Char) ELSE v \in Int /\ (c \notin {"d", "i"} => v >= 0)

\* its characters behind the percent sign
Spelled(flag, width, length, c) == FieldChars(flag, width) \o (length \o <<c>>)

\* a part is made of characters, arguments and output
LEMMA ConversionIs ==
  ASSUME NEW flag, NEW width, NEW length, NEW c, NEW v, Sane(flag, width, length, c, v),
         NEW p, p = Conversion(flag, width, length, c, v)
  PROVE  /\ p.fmt = <<"%">> \o Spelled(flag, width, length, c)
         /\ FieldChars(flag, width) \in Seq(Char) /\ length \o <<c>> \in Seq(Char)
         /\ p.fmt \in Seq(Char) /\ p.args = <<v>> /\ p.args \in Seq(Values)
         /\ p.doc \in Seq(Bytes) /\ p.signs \in {<< >>, <<"-">>}
<1>0. /\ flag \in {"none", "0", "-"} /\ width \in Nat /\ length \in Lengths \cap Seq(Char)
      /\ c \in Char
      /\ IF c = "s" THEN v \in Seq(Char) ELSE v \in Int /\ (c \notin {"d", "i"} => v >= 0)
  BY DEF Sane
<1>1. FieldChars(flag, width) \in Seq(Char)
  <2>. DEFINE z == WidthChars(flag, width)
              f == FieldChars(flag, width)
  <2>1. z \in Seq(Char) /\ f = IF flag = "-" THEN <<"-">> \o z ELSE z
    BY <1>0, WidthCharsAre, DigitsAndLetters
  <2>2. <<"-">> \in Seq(Char)
    BY ShortTexts
  <2>. HIDE DEF z, f
  <2>3. <<"-">> \o z \in Seq(Char)
    BY <2>1, <2>2, Concat
  <2>. QED  BY <2>1, <2>3 DEF f
<1>2. length \o <<c>> \in Seq(Char)
  BY <1>0
<1>. DEFINE l == length \o <<c>>
            f == FieldChars(flag, width)
            body == Body(c, v)
            pre == Prefix(c, v)
            sign == IF pre = <<"-">> THEN pre ELSE << >>
            free == width - Len(body) - Len(pre)
<1>3. p.fmt = <<"%">> \o (f \o l)
  BY DEF Conversion
<1>4. <<"%">> \o (f \o l) \in Seq(Char)
  <2>0. f \in Seq(Char) /\ l \in Seq(Char) /\ <<"%">> \in Seq(Char)
    BY <1>1, <1>2, ShortTexts
  <2>. HIDE DEF f, l
  <2>1. f \o l \in Seq(Char)
    BY <2>0, Concat
  <2>. QED  BY <2>0, <2>1, Concat
<1>5. p.args = <<v>> /\ v \in Values
  BY <1>0 DEF Conversion, Values
<1>6. p.doc = InField(flag, free, pre, body) /\ p.signs = sign
  BY DEF Conversion
<1>7. body \in Seq(Char)
  <2>1. CASE c = "s"
    BY <1>0, <2>1 DEF Body
  <2>2. CASE c # "s"
    BY <1>0, <2>2, BodyIs
  <2>. QED  BY <2>1, <2>2
<1>8. pre \in {<< >>, <<"-">>, <<"0", "x">>}
  BY DEF Prefix
<1>9. pre \in Seq(Bytes) /\ body \in Seq(Bytes) /\ sign \in {<< >>, <<"-">>}
      /\ Len(pre) \in Nat /\ Len(sign) \in Nat /\ Len(body) \in Nat
  <2>1. sign = IF pre = <<"-">> THEN pre ELSE << >>
    OBVIOUS
  <2>. HIDE DEF pre, body, sign
  <2>2. pre \in Seq(Bytes) /\ body \in Seq(Bytes)
    BY <1>7, <1>8, ShortTexts, CharsAreBytes
  <2>3. sign \in {<< >>, <<"-">>} /\ sign \in Seq(Bytes)
    BY <2>1, ShortTexts
  <2>. QED  BY <2>2, <2>3
<1>10. ASSUME NEW k \in Int PROVE InField(flag, k, pre, body) \in Seq(Bytes)
  <2>. DEFINE t == Times(Space, k)
              o == Times("0", k)
  <2>1. t \in Seq(Bytes) /\ o \in Seq(Bytes)
    <3>1. "0" \in Bytes
      BY SomeChars, CharsAreBytes
    <3>2. Space \in Bytes
      BY SomeChars, CharsAreBytes, Zenon DEF Space
    <3>. QED  BY <3>1, <3>2, TimesIs
  <2>. HIDE DEF t, o, pre, body
  <2>2. /\ pre \o body \in Seq(Bytes) /\ pre \o o \in Seq(Bytes) /\ t \o pre \in Seq(Bytes)
    BY <1>9, <2>1, ByteConcat
  <2>3. /\ (pre \o body) \o t \in Seq(Bytes) /\ (pre \o o) \o body \in Seq(Bytes)
        /\ (t \o pre) \o body \in Seq(Bytes)
    BY <1>9, <2>1, <2>2, ByteConcat
  <2>. QED  BY <2>3 DEF InField, t, o
<1>11. free \in Int
  <2>. HIDE DEF pre, body, sign
  <2>. QED  BY <1>0, <1>9
<1>. HIDE DEF free
<1>12. p.doc \in Seq(Bytes) /\ p.signs \in {<< >>, <<"-">>}
  <2>. HIDE DEF pre, body, sign
  <2>. QED  BY <1>6, <1>9, <1>10, <1>11
<1>13. <<v>> \in Seq(Values)
  BY <1>5
<1>. QED  BY <1>1, <1>2, <1>3, <1>4, <1>5, <1>12, <1>13 DEF Spelled

\* what a part is made of
Sound(p) ==
  /\ p.fmt \in Seq(Char) /\ p.args \in Seq(Values) /\ p.doc \in Seq(Bytes)
  /\ p.signs \in Seq(Bytes)

\* a part is sound: text, and a conversion one of the interpreters agrees on
LEMMA TextIs ==
  ASSUME NEW p, TextPart(p)
  PROVE  Sound(p)
<1>1. CASE \E ch \in Char \ {"%"} : p = Plain(ch)
  <2>1. PICK ch \in Char \ {"%"} : p = Plain(ch)
    BY <1>1
  <2>2. /\ p.fmt = <<ch>> /\ p.args = << >> /\ p.doc = <<ch>>
        /\ p.signs = << >>
    BY <2>1 DEF Plain
  <2>3. <<ch>> \in Seq(Char) /\ << >> \in Seq(Values) /\ << >> \in Seq(Bytes)
    OBVIOUS
  <2>. QED  BY <2>2, <2>3, CharsAreBytes DEF Sound
<1>2. CASE p = TwoPercent
  <2>1. /\ p.fmt = <<"%", "%">> /\ p.args = << >> /\ p.doc = <<"%">>
        /\ p.signs = <<"%">>
    BY <1>2 DEF TwoPercent
  <2>2. <<"%", "%">> \in Seq(Char) /\ <<"%">> \in Seq(Char) /\ << >> \in Seq(Values)
        /\ <<"%">> \in Seq(Bytes)
    BY ShortTexts
  <2>. QED  BY <2>1, <2>2 DEF Sound
<1>. QED  BY <1>1, <1>2 DEF TextPart

LEMMA AgreesIs ==
  ASSUME NEW flag, NEW width, NEW length, NEW c, NEW v,
         SnprintfAgrees(flag, width, length, c, v) \/ PrintfAgrees(flag, width, length, c, v)
  PROVE  Sane(flag, width, length, c, v)
<1>1. CASE SnprintfAgrees(flag, width, length, c, v)
  <2>1. CASE c = "s"
    BY <1>1, <2>1 DEF SnprintfAgrees, Sane
  <2>2. CASE c # "s"
    <3>1. v \in Int /\ (c \notin {"d", "i"} => v >= 0)
      BY <1>1, <2>2, ValuesAgree
    <3>. QED  BY <1>1, <2>2, <3>1 DEF SnprintfAgrees, Sane
  <2>. QED  BY <2>1, <2>2
<1>2. CASE PrintfAgrees(flag, width, length, c, v)
  BY <1>2 DEF PrintfAgrees, Sane
<1>. QED  BY <1>1, <1>2

LEMMA PartIs ==
  ASSUME NEW p, SnprintfPart(p) \/ PrintfPart(p)
  PROVE  Sound(p)
<1>1. CASE TextPart(p)
  BY <1>1, TextIs
<1>2. CASE \E flag, width, length, c, v :
             /\ SnprintfAgrees(flag, width, length, c, v) \/ PrintfAgrees(flag, width, length, c, v)
             /\ p = Conversion(flag, width, length, c, v)
  <2>1. PICK flag, width, length, c, v :
             /\ SnprintfAgrees(flag, width, length, c, v) \/ PrintfAgrees(flag, width, length, c, v)
             /\ p = Conversion(flag, width, length, c, v)
    BY <1>2
  <2>2. Sane(flag, width, length, c, v)
    BY <2>1, AgreesIs
  <2>3. /\ p.fmt \in Seq(Char) /\ p.args \in Seq(Values) /\ p.doc \in Seq(Bytes)
        /\ p.signs \in {<< >>, <<"-">>}
    BY <2>1, <2>2, ConversionIs
  <2>4. << >> \in Seq(Bytes) /\ <<"-">> \in Seq(Bytes)
    BY ShortTexts
  <2>. QED  BY <2>3, <2>4 DEF Sound
<1>. QED  BY <1>1, <1>2 DEF SnprintfPart, PrintfPart
-----------------------------------------------------------------------------
(* The places of the parts                                                 *)

SoundParts(ps) == Len(ps) \in Nat /\ \A i \in 1 .. Len(ps) : Sound(ps[i])
FmtEnd(ps, k)  == Len(Upto(Fmts(ps))[k])
ArgEnd(ps, k)  == Len(Upto(Args(ps))[k])

\* the fields of sound parts are sequences of sequences
LEMMA FieldsOf ==
  ASSUME NEW ps, SoundParts(ps)
  PROVE  /\ AllSeqs(Char, Fmts(ps)) /\ AllSeqs(Values, Args(ps)) /\ AllSeqs(Bytes, Docs(ps))
         /\ AllSeqs(Bytes, Signs(ps))
         /\ Len(Fmts(ps)) = Len(ps) /\ Len(Args(ps)) = Len(ps) /\ Len(Docs(ps)) = Len(ps)
         /\ Len(Signs(ps)) = Len(ps)
<1>. DEFINE N == Len(ps)
<1>1. N \in Nat /\ \A i \in 1 .. N : Sound(ps[i])
  BY DEF SoundParts
<1>. HIDE DEF N
<1>2. /\ Fmts(ps) = [i \in 1 .. N |-> ps[i].fmt] /\ Args(ps) = [i \in 1 .. N |-> ps[i].args]
      /\ Docs(ps) = [i \in 1 .. N |-> ps[i].doc]
      /\ Signs(ps) = [i \in 1 .. N |-> ps[i].signs]
  BY DEF N, Fmts, Args, Docs, Signs
<1>3. /\ Len(Fmts(ps)) = N /\ Len(Args(ps)) = N /\ Len(Docs(ps)) = N
      /\ Len(Signs(ps)) = N
  BY <1>1, <1>2
<1>4. ASSUME NEW i \in 1 .. N
      PROVE  /\ Fmts(ps)[i] \in Seq(Char) /\ Args(ps)[i] \in Seq(Values)
             /\ Docs(ps)[i] \in Seq(Bytes) /\ Signs(ps)[i] \in Seq(Bytes)
  BY <1>1, <1>2 DEF Sound
<1>5. AllSeqs(Char, Fmts(ps)) /\ AllSeqs(Values, Args(ps))
  BY <1>1, <1>3, <1>4 DEF AllSeqs
<1>6. AllSeqs(Bytes, Docs(ps)) /\ AllSeqs(Bytes, Signs(ps))
  BY <1>1, <1>3, <1>4 DEF AllSeqs
<1>. QED  BY <1>3, <1>5, <1>6 DEF N

\* the format of a part in the format string
LEMMA FmtPlaces ==
  ASSUME NEW ps, SoundParts(ps), NEW k \in 0 .. Len(ps) - 1,
         NEW more \in Seq(Char), NEW fmt, fmt = Joined(Fmts(ps)) \o more
  PROVE  /\ FmtEnd(ps, k) \in Nat /\ FmtEnd(ps, k + 1) \in Nat
         /\ Ahead(fmt, FmtEnd(ps, k) + 1, ps[k + 1].fmt, FmtEnd(ps, k + 1))
<1>. DEFINE w == Fmts(ps)
            f == w[k + 1]
            x == Len(Upto(w)[k])
            y == Len(Upto(w)[k + 1])
            m == Len(f)
            l == Len(fmt)
<1>1. AllSeqs(Char, w) /\ Len(w) = Len(ps)
  BY FieldsOf
<1>2. f = ps[k + 1].fmt /\ f \in Seq(Char)
  <2>1. k + 1 \in 1 .. Len(ps) /\ Len(ps) \in Nat
    BY DEF SoundParts
  <2>2. f \in Seq(Char)
    <3>. HIDE DEF w
    <3>. QED  BY <1>1, <2>1 DEF AllSeqs
  <2>. QED  BY <2>1, <2>2 DEF Fmts
<1>3. x \in Nat /\ m \in Nat /\ y = x + m /\ y <= l /\ Holds(fmt, x, f)
  <2>. HIDE DEF w
  <2>1. k \in 0 .. Len(w) - 1 /\ fmt = Joined(w) \o more
    BY <1>1 DEF w
  <2>2. /\ Len(Upto(w)[k]) \in Nat /\ Len(w[k + 1]) \in Nat
        /\ Len(Upto(w)[k + 1]) = Len(Upto(w)[k]) + Len(w[k + 1])
        /\ Len(Upto(w)[k + 1]) <= Len(fmt)
        /\ Holds(fmt, Len(Upto(w)[k]), w[k + 1])
    BY <1>1, <2>1, Pieces
  <2>. QED  BY <2>2
<1>4. FmtEnd(ps, k) = x /\ FmtEnd(ps, k + 1) = y
  BY DEF FmtEnd
<1>. HIDE DEF w, f, x, y
<1>5. \A i \in 1 .. m : fmt[x + i] = f[i]
  BY <1>3 DEF Holds
<1>. HIDE DEF l
<1>6. Ahead(fmt, x + 1, f, y)
  <2>1. ASSUME NEW i \in 1 .. m PROVE fmt[(x + 1) + i - 1] = f[i]
    <3>. HIDE DEF m
    <3>1. (x + 1) + i - 1 = x + i
      BY <1>3
    <3>. QED  BY <1>5, <3>1
  <2>2. x + 1 \in Nat \ {0} /\ (x + 1) + m = y + 1
    <3>. HIDE DEF m
    <3>. QED  BY <1>3
  <2>. QED  BY <1>2, <1>3, <2>1, <2>2 DEF Ahead, l
<1>7. y \in Nat
  <2>. HIDE DEF m
  <2>. QED  BY <1>3
<1>. QED  BY <1>2, <1>3, <1>4, <1>6, <1>7

\* the arguments of a part
LEMMA ArgPlaces ==
  ASSUME NEW ps, SoundParts(ps), NEW k \in 0 .. Len(ps) - 1,
         NEW more \in Seq(Values), NEW args, args = Joined(Args(ps)) \o more
  PROVE  /\ ArgEnd(ps, k) \in Nat /\ ArgEnd(ps, k + 1) \in Nat
         /\ ArgEnd(ps, k + 1) = ArgEnd(ps, k) + Len(ps[k + 1].args)
         /\ Holds(args, ArgEnd(ps, k), ps[k + 1].args)
<1>. DEFINE l == Args(ps)
            f == l[k + 1]
            x == Len(Upto(l)[k])
            y == Len(Upto(l)[k + 1])
            m == Len(f)
<1>1. AllSeqs(Values, l) /\ Len(l) = Len(ps)
  BY FieldsOf
<1>2. f = ps[k + 1].args
  <2>1. k + 1 \in 1 .. Len(ps) /\ Len(ps) \in Nat
    BY DEF SoundParts
  <2>. QED  BY <2>1 DEF Args
<1>3. x \in Nat /\ m \in Nat /\ y = x + m /\ Holds(args, x, f)
  <2>. HIDE DEF l
  <2>1. k \in 0 .. Len(l) - 1 /\ args = Joined(l) \o more
    BY <1>1 DEF l
  <2>2. /\ Len(Upto(l)[k]) \in Nat /\ Len(l[k + 1]) \in Nat
        /\ Len(Upto(l)[k + 1]) = Len(Upto(l)[k]) + Len(l[k + 1])
        /\ Holds(args, Len(Upto(l)[k]), l[k + 1])
    BY <1>1, <2>1, Pieces
  <2>. QED  BY <2>2
<1>4. ArgEnd(ps, k) = x /\ ArgEnd(ps, k + 1) = y
  BY DEF ArgEnd
<1>. HIDE DEF l, f, x, y
<1>5. y \in Nat
  <2>. HIDE DEF m
  <2>. QED  BY <1>3
<1>. QED  BY <1>2, <1>3, <1>4, <1>5

\* the output of the parts, one of Docs and Signs
LEMMA OutputGrows ==
  ASSUME NEW m, AllSeqs(Bytes, m), NEW k \in 0 .. Len(m) - 1
  PROVE  /\ Upto(m)[k] \in Seq(Bytes) /\ Upto(m)[k + 1] \in Seq(Bytes)
         /\ m[k + 1] \in Seq(Bytes) /\ Upto(m)[k + 1] = Upto(m)[k] \o m[k + 1]
<1>. DEFINE N == Len(m)
<1>1. N \in Nat /\ \A i \in 1 .. N : m[i] \in Seq(Bytes)
  BY DEF AllSeqs
<1>2. (\A j \in 0 .. N : Upto(m)[j] \in Seq(Bytes))
      /\ (\A j \in 0 .. N - 1 : Upto(m)[j + 1] = Upto(m)[j] \o m[j + 1])
  BY UptoIs
<1>. HIDE DEF N
<1>3. k \in 0 .. N - 1
  BY DEF N
<1>4. k \in 0 .. N /\ k + 1 \in 0 .. N /\ k + 1 \in 1 .. N
  BY <1>1, <1>3
<1>. QED  BY <1>1, <1>2, <1>3, <1>4

\* the first and the last part
LEMMA FirstAndLast ==
  ASSUME NEW ps, SoundParts(ps)
  PROVE  /\ FmtEnd(ps, 0) = 0 /\ ArgEnd(ps, 0) = 0
         /\ Upto(Docs(ps))[0] = << >> /\ Upto(Signs(ps))[0] = << >>
         /\ FmtEnd(ps, Len(ps)) = Len(Joined(Fmts(ps))) /\ Joined(Fmts(ps)) \in Seq(Char)
         /\ ArgEnd(ps, Len(ps)) = Len(Joined(Args(ps)))
         /\ Upto(Docs(ps))[Len(ps)] = Joined(Docs(ps))
         /\ Upto(Signs(ps))[Len(ps)] = Joined(Signs(ps))
<1>. DEFINE N == Len(ps)
            f == Fmts(ps)
            a == Args(ps)
            d == Docs(ps)
            u == Signs(ps)
<1>1. /\ AllSeqs(Char, f) /\ AllSeqs(Values, a) /\ AllSeqs(Bytes, d) /\ AllSeqs(Bytes, u)
      /\ Len(f) = N /\ Len(a) = N /\ Len(d) = N /\ Len(u) = N
  BY FieldsOf
<1>2. /\ Upto(f)[0] = << >> /\ Upto(a)[0] = << >> /\ Upto(d)[0] = << >>
      /\ Upto(u)[0] = << >>
  <2>. HIDE DEF N, f, a, d, u
  <2>1. Upto(f)[0] = << >> /\ Upto(a)[0] = << >>
    BY <1>1, UptoIs
  <2>2. Upto(d)[0] = << >> /\ Upto(u)[0] = << >>
    BY <1>1, UptoIs
  <2>. QED  BY <2>1, <2>2
<1>3. Upto(f)[N] \in Seq(Char)
  <2>1. Len(f) \in Nat /\ Len(f) \in 0 .. Len(f)
    BY <1>1 DEF AllSeqs
  <2>. HIDE DEF f, N
  <2>2. Upto(f)[Len(f)] \in Seq(Char)
    BY <1>1, <2>1, UptoIs
  <2>. QED  BY <1>1, <2>2
<1>4. /\ FmtEnd(ps, N) = Len(Upto(f)[N]) /\ ArgEnd(ps, N) = Len(Upto(a)[N])
      /\ FmtEnd(ps, 0) = Len(Upto(f)[0]) /\ ArgEnd(ps, 0) = Len(Upto(a)[0])
  BY DEF FmtEnd, ArgEnd
<1>5. Joined(f) = Upto(f)[Len(f)] /\ Joined(a) = Upto(a)[Len(a)]
      /\ Joined(d) = Upto(d)[Len(d)] /\ Joined(u) = Upto(u)[Len(u)]
  BY DEF Joined
<1>. HIDE DEF f, a, d, u, N
<1>6. Len(<< >>) = 0
  OBVIOUS
<1>7. /\ FmtEnd(ps, 0) = 0 /\ ArgEnd(ps, 0) = 0
      /\ FmtEnd(ps, N) = Len(Joined(f)) /\ Joined(f) \in Seq(Char)
      /\ ArgEnd(ps, N) = Len(Joined(a)) /\ Upto(d)[N] = Joined(d)
      /\ Upto(u)[N] = Joined(u)
  BY <1>1, <1>2, <1>3, <1>4, <1>5, <1>6
<1>. QED  BY <1>2, <1>7 DEF f, a, d, u, N
-----------------------------------------------------------------------------
(* The walk of vsnprintf over a part                                       *)

\* p ends at e, its argument is at a, and o has been put out before it
InConversion(flag, width, length, c, v, e, a, o) ==
  \/ /\ ap = a /\ out = o
     /\ \/ AtFlag(flag, width, length \o <<c>>, e)
        \/ AtWidth(flag, width, length \o <<c>>, e)
        \/ InWidth(flag, width, length \o <<c>>, e)
        \/ AtLength(flag, width, c, e)
  \/ ap = a + 1 /\ out = o \o Prefix(c, v) /\ InNumber(flag, width, c, v, e)
Inside(p, e, a, o) ==
  \/ p = TwoPercent /\ pc = "spec" /\ Ahead(call.fmt, fp, <<"%">>, e) /\ ap = a /\ out = o
  \/ \E flag, width, length, c, v :
       /\ SnprintfAgrees(flag, width, length, c, v) /\ p = Conversion(flag, width, length, c, v)
       /\ InConversion(flag, width, length, c, v, e, a, o)
Behind(p, e, a, o) ==
  pc = "text" /\ fp = e + 1 /\ ap = a + Len(p.args) /\ out = o \o p.doc

\* the length modifiers and the letter begin with no digit
LEMMA TailOf ==
  ASSUME NEW length \in Lengths \cap Seq(Char), NEW c \in Char,
         c \in {"d", "i", "u", "x", "X", "p", "s"}
  PROVE  /\ length \o <<c>> \in Seq(Char) /\ length \o <<c>> # << >>
         /\ (length \o <<c>>)[1] \notin DecimalDigits
<1>1. length \o <<c>> \in Seq(Char) /\ length \o <<c>> # << >>
  OBVIOUS
<1>2. CASE length = << >>
  <2>1. (length \o <<c>>)[1] = c
    BY <1>2
  <2>2. c \in Letters
    BY DEF Letters
  <2>. QED  BY <1>1, <2>1, <2>2, DigitsAndLetters
<1>3. CASE length # << >>
  <2>1. length[1] \in {"l", "z"}
    BY <1>3, LengthsAre
  <2>2. (length \o <<c>>)[1] = length[1]
    BY <1>3
  <2>3. length[1] \in Letters
    BY <2>1 DEF Letters
  <2>. QED  BY <1>1, <2>2, <2>3, DigitsAndLetters
<1>. QED  BY <1>2, <1>3

\* behind the width there are length modifiers
LEMMA WidthLeft ==
  ASSUME NEW flag, NEW width, NEW length \in Lengths \cap Seq(Char), NEW c, NEW e,
         BehindWidth(flag, width, length \o <<c>>, e)
  PROVE  AtLength(flag, width, c, e)
BY DEF BehindWidth, AtLength

\* a string is put out and printed as it is
LEMMA StringIs ==
  ASSUME NEW flag, NEW length, NEW v \in Seq(Char), NEW p, p = Conversion(flag, 0, length, "s", v)
  PROVE  p.doc = v /\ Len(p.args) = 1 /\ Len(p.signs) = 0
<1>. DEFINE m == Len(v)
            k == 0 - m
<1>0. m \in Nat
  OBVIOUS
<1>. HIDE DEF m
<1>1. k \in Int /\ k <= 0 /\ v \in Seq(Bytes) /\ << >> \in Seq(Bytes)
  BY <1>0, ShortTexts, CharsAreBytes
<1>. HIDE DEF k
<1>2. Times(Space, k) = << >> /\ Times("0", k) = << >>
  BY <1>1, NoTimes
<1>3. << >> \o v = v /\ v \o << >> = v /\ << >> \o << >> = << >>
  BY <1>1, ByteEmpty
<1>4. InField(flag, k, << >>, v) = v
  BY <1>2, <1>3 DEF InField
<1>. DEFINE pre == Prefix("s", v)
            body == Body("s", v)
<1>5. pre = << >> /\ body = v
  BY DEF Prefix, Body
<1>6. 0 - Len(v) - Len(<< >>) = k
  BY <1>0 DEF k, m
<1>7. /\ p.doc = InField(flag, 0 - Len(body) - Len(pre), pre, body)
      /\ p.args = <<v>> /\ p.signs = IF pre = <<"-">> THEN pre ELSE << >>
  BY DEF Conversion
<1>. HIDE DEF pre, body
<1>8. Len(<<v>>) = 1 /\ Len(<< >>) = 0 /\ << >> # <<"-">>
  OBVIOUS
<1>. QED  BY <1>4, <1>5, <1>6, <1>7, <1>8

\* the letter and the digits
LEMMA LetterStep ==
  ASSUME IInv, Next, NEW flag, NEW width, NEW length, NEW c, NEW v, NEW e \in Nat,
         NEW a, NEW o, ap = a, out = o, SnprintfAgrees(flag, width, length, c, v),
         arg = v, BehindWidth(flag, width, <<c>>, e), NEW p,
         p = Conversion(flag, width, length, c, v)
  PROVE  InConversion(flag, width, length, c, v, e, a, o)' \/ Behind(p, e, a, o)'
<1>1. CASE c # "s"
  <2>1. /\ InNumber(flag, width, c, v, e)'
        /\ UNCHANGED call /\ ap' = ap + 1 /\ out' = out \o Prefix(c, v)
    BY <1>1, NumberStep
  <2>. QED  BY <2>1 DEF InConversion
<1>2. CASE c = "s"
  <2>1. "s" \in Char /\ width = 0 /\ v \in Seq(Char)
    BY <1>2 DEF SnprintfAgrees
  <2>2. pc' = "text" /\ fp' = e + 1 /\ ap' = ap + 1 /\ out' = out \o v
    BY <1>2, <2>1, StringStep
  <2>3. p.doc = v /\ Len(p.args) = 1
    BY <1>2, <2>1, StringIs
  <2>. QED  BY <2>2, <2>3 DEF Behind
<1>. QED  BY <1>1, <1>2

\* the steps of unsigned_num_print
LEMMA NumberPrinted ==
  ASSUME IInv, Next, NEW flag, NEW width, NEW length, NEW c, NEW v, NEW e \in Nat,
         NEW a \in Nat, NEW o \in Seq(Bytes), SnprintfAgrees(flag, width, length, c, v),
         NEW p, p = Conversion(flag, width, length, c, v),
         ap = a + 1, out = o \o Prefix(c, v), InNumber(flag, width, c, v, e)
  PROVE  InConversion(flag, width, length, c, v, e, a, o)' \/ Behind(p, e, a, o)'
<1>1. CASE InNumber(flag, width, c, v, e)' /\ UNCHANGED <<call, ap, out>>
  BY <1>1 DEF InConversion
<1>2. CASE /\ num.num_buf = Body(c, v) /\ Padding(flag, width, Less(c, v))
           /\ UNCHANGED call /\ pc' = "text" /\ fp' = e + 1 /\ ap' = ap
           /\ out' = out \o Padded(Len(num.num_buf))
  <2>1. c # "s"
    BY DEF InNumber
  <2>2. conv \in Conv
    BY FmtFacts
  <2>3. Prefix(c, v) \o Padded(Len(num.num_buf)) = Conversion(flag, width, length, c, v).doc
    BY <1>2, <2>1, <2>2, FieldDoc
  <2>. DEFINE x == Prefix(c, v)
              y == Padded(Len(num.num_buf))
  <2>4. x \in Seq(Bytes) /\ y \in Seq(Bytes)
    <3>1. v \in Int
      BY <2>1, ValuesAgree
    <3>2. x \in {<< >>, <<"-">>, <<"0", "x">>}
      BY DEF Prefix
    <3>3. y \in Seq(Bytes)
      BY FieldPrinted
    <3>. HIDE DEF x, y
    <3>. QED  BY <3>2, <3>3, ShortTexts
  <2>5. out' = (o \o x) \o y /\ x \o y = p.doc
    BY <1>2, <2>3
  <2>6. p.args = <<v>>
    BY DEF Conversion
  <2>. HIDE DEF x, y
  <2>7. (o \o x) \o y = o \o (x \o y)
    BY <2>4, ByteAssociate
  <2>8. Len(<<v>>) = 1
    OBVIOUS
  <2>9. out' = o \o p.doc /\ ap' = a + Len(p.args)
    BY <1>2, <2>5, <2>6, <2>7, <2>8
  <2>. QED  BY <1>2, <2>9 DEF Behind
<1>. QED  BY <1>1, <1>2, DigitsStep

\* a step of vsnprintf inside a conversion
LEMMA ConversionStep ==
  ASSUME IInv, Next, NEW flag, NEW width, NEW length, NEW c, NEW v, NEW e \in Nat,
         NEW a \in Nat, NEW o \in Seq(Bytes), SnprintfAgrees(flag, width, length, c, v),
         NEW p, p = Conversion(flag, width, length, c, v), call.args[a] = v,
         InConversion(flag, width, length, c, v, e, a, o)
  PROVE  InConversion(flag, width, length, c, v, e, a, o)' \/ Behind(p, e, a, o)'
<1>. DEFINE t == length \o <<c>>
<1>1. /\ flag \in {"none", "0", "-"} /\ width \in Nat /\ length \in Lengths \cap Seq(Char)
      /\ c \in Char /\ c \in {"d", "i", "u", "x", "X", "p", "s"}
  BY DEF SnprintfAgrees
<1>2. t \in Seq(Char) /\ t # << >> /\ t[1] \notin DecimalDigits
  BY <1>1, TailOf
<1>3. CASE ap = a /\ out = o /\ AtLength(flag, width, c, e)
  <2>1. CASE BehindWidth(flag, width, <<c>>, e)
    <3>1. arg = v
      BY <1>3 DEF arg
    <3>. QED  BY <1>3, <2>1, <3>1, LetterStep
  <2>2. CASE AtLength(flag, width, c, e)' /\ UNCHANGED <<call, ap, out>>
    BY <1>3, <2>2 DEF InConversion
  <2>. QED  BY <1>1, <1>3, <2>1, <2>2, LengthStep
<1>4. CASE ap = a /\ out = o /\ InWidth(flag, width, t, e)
  <2>1. InWidth(flag, width, t, e)' \/ BehindWidth(flag, width, t, e)'
    <3>. HIDE DEF t
    <3>. QED  BY <1>1, <1>2, <1>4, WidthDigitStep
  <2>2. UNCHANGED <<call, ap, out>>
    <3>. HIDE DEF t
    <3>. QED  BY <1>1, <1>2, <1>4, WidthDigitStep
  <2>3. CASE InWidth(flag, width, t, e)'
    BY <1>4, <2>2, <2>3 DEF InConversion
  <2>4. CASE BehindWidth(flag, width, t, e)'
    <3>1. AtLength(flag, width, c, e)'
      BY <1>1, <2>4 DEF BehindWidth, AtLength
    <3>. QED  BY <1>4, <2>2, <3>1 DEF InConversion
  <2>. QED  BY <2>1, <2>3, <2>4
<1>5. CASE ap = a /\ out = o /\ AtWidth(flag, width, t, e)
  <2>1. CASE WidthChars(flag, width) # << >>
    <3>1. InWidth(flag, width, t, e)' /\ UNCHANGED <<call, ap, out>>
      <4>. HIDE DEF t
      <4>. QED  BY <1>1, <1>2, <1>5, <2>1, WidthStep
    <3>. QED  BY <1>5, <3>1 DEF InConversion
  <2>2. CASE WidthChars(flag, width) = << >>
    <3>1. BehindWidth(flag, width, t, e)
      <4>. HIDE DEF t
      <4>. QED  BY <1>1, <1>2, <1>5, <2>2, NoWidth
    <3>2. AtLength(flag, width, c, e)
      BY <1>1, <3>1, WidthLeft
    <3>. QED  BY <1>3, <1>5, <3>2
  <2>. QED  BY <2>1, <2>2
<1>6. CASE ap = a /\ out = o /\ AtFlag(flag, width, t, e)
  <2>1. AtWidth(flag, width, t, e)' /\ UNCHANGED <<call, ap, out>>
    <3>. HIDE DEF t
    <3>. QED  BY <1>1, <1>2, <1>6, FlagStep
  <2>. QED  BY <1>6, <2>1 DEF InConversion
<1>7. CASE ap = a + 1 /\ out = o \o Prefix(c, v) /\ InNumber(flag, width, c, v, e)
  BY <1>7, NumberPrinted
<1>. QED  BY <1>3, <1>4, <1>5, <1>6, <1>7 DEF InConversion
-----------------------------------------------------------------------------
(* The walk of vsnprintf over a format string of parts                     *)

\* the percent sign of a conversion
LEMMA PercentStep ==
  ASSUME IInv, Next, pc = "text", NEW r \in Seq(Char), NEW e \in Nat,
         Ahead(call.fmt, fp, <<"%">> \o r, e)
  PROVE  /\ pc' = "spec" /\ conv' = NoConv /\ UNCHANGED <<call, ap, out>>
         /\ Ahead(call.fmt', fp', r, e)
<1>1. cur = "%" /\ Ahead(call.fmt, fp + 1, r, e)
  BY SomeChars, NextIsOne
<1>2. Percent
  BY <1>1, StepElsewhere DEF Text, Terminate, NUL
<1>. QED  BY <1>1, <1>2 DEF Percent, Quiet, put

\* a step at the first character of a part
LEMMA BeginStep ==
  ASSUME IInv, Next, pc = "text", NEW p, SnprintfPart(p), NEW e \in Nat,
         NEW a \in Nat, NEW o, ap = a, out = o, Ahead(call.fmt, fp, p.fmt, e)
  PROVE  Inside(p, e, a, o)' \/ Behind(p, e, a, o)'
<1>1. CASE \E ch \in Char \ {"%"} : p = Plain(ch)
  <2>1. PICK ch \in Char \ {"%"} : p = Plain(ch)
    BY <1>1
  <2>2. p.fmt = <<ch>> /\ p.args = << >> /\ p.doc = <<ch>>
    BY <2>1 DEF Plain
  <2>3. << >> \in Seq(Char) /\ <<ch>> \o << >> = <<ch>> /\ Len(<< >>) = 0
    OBVIOUS
  <2>4. cur = ch /\ fp + 1 = e + 1
    <3>1. cur = ch /\ Ahead(call.fmt, fp + 1, << >>, e)
      BY <2>2, <2>3, NextIsOne
    <3>. QED  BY <3>1, AheadEnd
  <2>5. ch # "%" /\ ch # NUL
    BY CharAssumption
  <2>6. Text
    BY <2>4, <2>5, StepElsewhere DEF Percent, Terminate
  <2>7. pc' = "text" /\ fp' = e + 1 /\ ap' = a /\ out' = o \o <<ch>>
    BY <2>4, <2>6 DEF Text, PutChars
  <2>. QED  BY <2>2, <2>3, <2>7 DEF Behind
<1>2. CASE p = TwoPercent
  <2>1. p.fmt = <<"%">> \o <<"%">> /\ <<"%">> \in Seq(Char)
    <3>1. p.fmt = <<"%", "%">>
      BY <1>2 DEF TwoPercent
    <3>. QED  BY <3>1, ShortTexts
  <2>2. /\ pc' = "spec" /\ UNCHANGED <<call, ap, out>> /\ Ahead(call.fmt', fp', <<"%">>, e)
    BY <2>1, PercentStep
  <2>. QED  BY <1>2, <2>2 DEF Inside
<1>3. CASE \E flag, width, length, c, v : /\ SnprintfAgrees(flag, width, length, c, v)
                                          /\ p = Conversion(flag, width, length, c, v)
  <2>1. PICK flag, width, length, c, v : /\ SnprintfAgrees(flag, width, length, c, v)
                                         /\ p = Conversion(flag, width, length, c, v)
    BY <1>3
  <2>2. Sane(flag, width, length, c, v)
    BY <2>1, AgreesIs
  <2>10. /\ p.fmt = <<"%">> \o Spelled(flag, width, length, c)
        /\ FieldChars(flag, width) \in Seq(Char) /\ length \o <<c>> \in Seq(Char)
    BY <2>1, <2>2, ConversionIs
  <2>11. flag \in {"none", "0", "-"} /\ width \in Nat
    BY <2>2 DEF Sane
  <2>. DEFINE t == length \o <<c>>
              f == FieldChars(flag, width)
              z == WidthChars(flag, width)
  <2>3. p.fmt = <<"%">> \o (f \o t) /\ f \in Seq(Char) /\ t \in Seq(Char)
    BY <2>10 DEF Spelled
  <2>4. z \in Seq(Char) /\ f = IF flag = "-" THEN <<"-">> \o z ELSE z
    BY <2>11, WidthCharsAre, DigitsAndLetters
  <2>. HIDE DEF t, f, z
  <2>5. f \o t \in Seq(Char)
    BY <2>3, Concat
  <2>6. /\ pc' = "spec" /\ conv' = NoConv /\ UNCHANGED <<call, ap, out>>
        /\ Ahead(call.fmt', fp', f \o t, e)
    BY <2>3, <2>5, PercentStep
  <2>7. conv'.padn = 0 /\ conv'.flags = {}
    BY <2>6 DEF NoConv
  <2>8. CASE flag = "-"
    <3>1. f \o t = <<"-">> \o (z \o t)
      <4>1. <<"-">> \in Seq(Char)
        BY ShortTexts
      <4>2. (<<"-">> \o z) \o t = <<"-">> \o (z \o t)
        BY <2>3, <2>4, <4>1, Associate
      <4>. QED  BY <2>4, <2>8, <4>2
    <3>2. AtFlag(flag, width, t, e)'
      BY <2>6, <2>7, <2>8, <3>1 DEF AtFlag, z
    <3>3. InConversion(flag, width, length, c, v, e, a, o)'
      BY <2>6, <3>2 DEF InConversion, t
    <3>. QED  BY <2>1, <3>3 DEF Inside
  <2>9. CASE flag # "-"
    <3>1. f \o t = z \o t
      BY <2>4, <2>9
    <3>2. AtWidth(flag, width, t, e)'
      BY <2>6, <2>7, <2>9, <3>1 DEF AtWidth, Left, z
    <3>3. InConversion(flag, width, length, c, v, e, a, o)'
      BY <2>6, <3>2 DEF InConversion, t
    <3>. QED  BY <2>1, <3>3 DEF Inside
  <2>. QED  BY <2>8, <2>9
<1>. QED  BY <1>1, <1>2, <1>3 DEF SnprintfPart, TextPart

\* a step inside a part
LEMMA InsideStep ==
  ASSUME IInv, Next, NEW p, NEW e \in Nat, NEW a \in Nat, NEW o \in Seq(Bytes),
         Inside(p, e, a, o), NEW x \in Nat, a = x + 1, Holds(call.args, x, p.args)
  PROVE  Inside(p, e, a, o)' \/ Behind(p, e, a, o)'
<1>1. CASE /\ p = TwoPercent /\ pc = "spec" /\ Ahead(call.fmt, fp, <<"%">>, e)
           /\ ap = a /\ out = o
  <2>1. << >> \in Seq(Char) /\ <<"%">> \o << >> = <<"%">> /\ Len(<< >>) = 0
    OBVIOUS
  <2>2. cur = "%" /\ fp + 1 = e + 1
    <3>1. "%" \in Char
      BY SomeChars
    <3>2. cur = "%" /\ Ahead(call.fmt, fp + 1, << >>, e)
      BY <1>1, <2>1, <3>1, NextIsOne
    <3>. QED  BY <3>2, AheadEnd
  <2>3. PercentPercent
    BY <1>1, <2>2, StepOfSpec
  <2>4. pc' = "text" /\ fp' = e + 1 /\ ap' = a /\ out' = o \o <<"%">>
    BY <1>1, <2>2, <2>3 DEF PercentPercent, PutChars
  <2>5. p.args = << >> /\ p.doc = <<"%">>
    BY <1>1 DEF TwoPercent
  <2>. QED  BY <2>1, <2>4, <2>5 DEF Behind
<1>2. CASE \E flag, width, length, c, v :
             /\ SnprintfAgrees(flag, width, length, c, v)
             /\ p = Conversion(flag, width, length, c, v)
             /\ InConversion(flag, width, length, c, v, e, a, o)
  <2>1. PICK flag, width, length, c, v :
             /\ SnprintfAgrees(flag, width, length, c, v)
             /\ p = Conversion(flag, width, length, c, v)
             /\ InConversion(flag, width, length, c, v, e, a, o)
    BY <1>2
  <2>2. call.args[a] = v
    <3>1. p.args = <<v>>
      BY <2>1 DEF Conversion
    <3>2. 1 \in 1 .. Len(<<v>>) /\ <<v>>[1] = v
      OBVIOUS
    <3>. QED  BY <3>1, <3>2 DEF Holds
  <2>3. InConversion(flag, width, length, c, v, e, a, o)' \/ Behind(p, e, a, o)'
    BY <2>1, <2>2, ConversionStep
  <2>. QED  BY <2>1, <2>3 DEF Inside
<1>. QED  BY <1>1, <1>2 DEF Inside
-----------------------------------------------------------------------------
(* The output is the one described                                         *)

\* k parts have been put out
Between(ps, k) ==
  /\ pc \in {"entry", "text"} /\ fp = FmtEnd(ps, k) + 1 /\ ap = ArgEnd(ps, k) + 1
  /\ out = Upto(Docs(ps))[k]
Within(ps, k) ==
  Inside(ps[k + 1], FmtEnd(ps, k + 1), ArgEnd(ps, k) + 1, Upto(Docs(ps))[k])
Walk(ps) ==
  \/ \E k \in 0 .. Len(ps) : Between(ps, k)
  \/ \E k \in 0 .. Len(ps) - 1 : Within(ps, k)
  \/ pc = "returned" /\ out = Joined(Docs(ps))
  \/ pc \in {"panicked", "outside"}

\* the call and the parts it is made of
LEMMA MadeIs ==
  ASSUME NEW ps, SnprintfMade(ps, call)
  PROVE  /\ SoundParts(ps) /\ \A k \in 0 .. Len(ps) - 1 : SnprintfPart(ps[k + 1])
         /\ call.fmt = Joined(Fmts(ps)) \o << >> /\ call.args = Joined(Args(ps)) \o << >>
         /\ call.fmt = Joined(Fmts(ps)) /\ call.doc = Joined(Docs(ps)) /\ Len(ps) \in Nat
<1>1. Len(ps) \in Nat /\ \A i \in 1 .. Len(ps) : SnprintfPart(ps[i])
  BY DEF SnprintfMade
<1>2. SoundParts(ps)
  BY <1>1, PartIs DEF SoundParts
<1>3. \A k \in 0 .. Len(ps) - 1 : k + 1 \in 1 .. Len(ps)
  BY <1>1
<1>4. call.fmt = Joined(Fmts(ps)) /\ call.args = Joined(Args(ps)) /\ call.doc = Joined(Docs(ps))
  BY DEF SnprintfMade
<1>5. Joined(Fmts(ps)) \in Seq(Char) /\ Joined(Args(ps)) \in Seq(Values)
  <2>. DEFINE f == Fmts(ps)
              a == Args(ps)
  <2>1. AllSeqs(Char, f) /\ AllSeqs(Values, a)
    BY <1>2, FieldsOf
  <2>2. Len(f) \in 0 .. Len(f) /\ Len(a) \in 0 .. Len(a)
    BY <2>1 DEF AllSeqs
  <2>. HIDE DEF f, a
  <2>3. Upto(f)[Len(f)] \in Seq(Char) /\ Upto(a)[Len(a)] \in Seq(Values)
    BY <2>1, <2>2, UptoIs
  <2>. QED  BY <2>3 DEF Joined, f, a
<1>6. /\ Joined(Fmts(ps)) \o << >> = Joined(Fmts(ps))
      /\ Joined(Args(ps)) \o << >> = Joined(Args(ps))
  <2>. DEFINE x == Joined(Fmts(ps))
              y == Joined(Args(ps))
  <2>1. x \in Seq(Char) /\ y \in Seq(Values)
    BY <1>5
  <2>. HIDE DEF x, y
  <2>2. x \o << >> = x /\ y \o << >> = y
    BY <2>1
  <2>. QED  BY <2>2 DEF x, y
<1>. QED  BY <1>1, <1>2, <1>3, <1>4, <1>6

\* what is known of part k + 1
LEMMA PartPlaces ==
  ASSUME NEW ps, SnprintfMade(ps, call), NEW k \in 0 .. Len(ps) - 1
  PROVE  /\ SnprintfPart(ps[k + 1])
         /\ FmtEnd(ps, k) \in Nat /\ FmtEnd(ps, k + 1) \in Nat
         /\ Ahead(call.fmt, FmtEnd(ps, k) + 1, ps[k + 1].fmt, FmtEnd(ps, k + 1))
         /\ ArgEnd(ps, k) \in Nat /\ Len(ps[k + 1].args) \in Nat
         /\ ArgEnd(ps, k + 1) + 1 = (ArgEnd(ps, k) + 1) + Len(ps[k + 1].args)
         /\ Holds(call.args, ArgEnd(ps, k), ps[k + 1].args)
         /\ Upto(Docs(ps))[k] \in Seq(Bytes)
         /\ Upto(Docs(ps))[k + 1] = Upto(Docs(ps))[k] \o ps[k + 1].doc
<1>1. /\ SoundParts(ps) /\ SnprintfPart(ps[k + 1])
      /\ call.fmt = Joined(Fmts(ps)) \o << >> /\ call.args = Joined(Args(ps)) \o << >>
  BY MadeIs
<1>2. << >> \in Seq(Char) /\ << >> \in Seq(Values)
  OBVIOUS
<1>3. /\ FmtEnd(ps, k) \in Nat /\ FmtEnd(ps, k + 1) \in Nat
      /\ Ahead(call.fmt, FmtEnd(ps, k) + 1, ps[k + 1].fmt, FmtEnd(ps, k + 1))
  BY <1>1, <1>2, FmtPlaces
<1>4. /\ ArgEnd(ps, k) \in Nat /\ ArgEnd(ps, k + 1) \in Nat
      /\ ArgEnd(ps, k + 1) = ArgEnd(ps, k) + Len(ps[k + 1].args)
      /\ Holds(call.args, ArgEnd(ps, k), ps[k + 1].args)
  BY <1>1, <1>2, ArgPlaces
<1>. DEFINE d == Docs(ps)
            m == Len(ps[k + 1].args)
            x == ArgEnd(ps, k)
<1>5. AllSeqs(Bytes, d) /\ k \in 0 .. Len(d) - 1
  BY <1>1, FieldsOf
<1>6. d[k + 1] = ps[k + 1].doc
  <2>1. k + 1 \in 1 .. Len(ps)
    BY <1>1 DEF SoundParts
  <2>. QED  BY <2>1 DEF Docs
<1>. HIDE DEF d
<1>7. Upto(d)[k] \in Seq(Bytes) /\ Upto(d)[k + 1] = Upto(d)[k] \o d[k + 1]
  BY <1>5, OutputGrows
<1>8. m \in Nat
  <2>1. k + 1 \in 1 .. Len(ps)
    BY <1>1 DEF SoundParts
  <2>2. ps[k + 1].args \in Seq(Values)
    BY <1>1, <2>1 DEF SoundParts, Sound
  <2>. QED  BY <2>2
<1>9. ArgEnd(ps, k + 1) + 1 = (x + 1) + m
  <2>. HIDE DEF m, x
  <2>1. x \in Nat /\ ArgEnd(ps, k + 1) = x + m
    BY <1>4 DEF x, m
  <2>. QED  BY <1>8, <2>1
<1>. QED  BY <1>1, <1>3, <1>4, <1>6, <1>7, <1>8, <1>9 DEF d

\* behind part k + 1 so many parts have been put out
LEMMA BehindIsBetween ==
  ASSUME NEW ps, SnprintfMade(ps, call), NEW k \in 0 .. Len(ps) - 1,
         Behind(ps[k + 1], FmtEnd(ps, k + 1), ArgEnd(ps, k) + 1, Upto(Docs(ps))[k])'
  PROVE  Walk(ps)'
<1>1. /\ ArgEnd(ps, k + 1) + 1 = (ArgEnd(ps, k) + 1) + Len(ps[k + 1].args)
      /\ Upto(Docs(ps))[k + 1] = Upto(Docs(ps))[k] \o ps[k + 1].doc
  BY PartPlaces
<1>2. Between(ps, k + 1)'
  BY <1>1 DEF Behind, Between
<1>. DEFINE m == k + 1
<1>3. m \in 0 .. Len(ps)
  BY MadeIs
<1>4. Between(ps, m)'
  BY <1>2
<1>. HIDE DEF m
<1>. QED  BY <1>3, <1>4 DEF Walk

\* The walk goes on: a step leads from one place of it to the next.
LEMMA WalkStep ==
  ASSUME IInv, Next, NEW ps, SnprintfMade(ps, call), Walk(ps)
  PROVE  Walk(ps)'
<1>0. call' = call
  BY CallStays
<1>1. CASE \E k \in 0 .. Len(ps) : Between(ps, k)
  <2>1. PICK k \in 0 .. Len(ps) : Between(ps, k)
    BY <1>1
  <2>2. CASE pc = "entry"
    <3>1. Entry
      BY <2>2, StepElsewhere
    <3>2. Between(ps, k)'
      BY <2>1, <3>1 DEF Between, Entry
    <3>. QED  BY <3>2 DEF Walk
  <2>3. CASE pc = "text" /\ k = Len(ps)
    <3>1. fp = Len(call.fmt) + 1 /\ out = Joined(Docs(ps))
      BY <2>1, <2>3, MadeIs, FirstAndLast DEF Between
    <3>2. cur = NUL
      <4>1. ~ (fp <= Len(call.fmt))
        BY <3>1, FmtFacts
      <4>. QED  BY <4>1 DEF cur
    <3>3. Terminate
      BY <2>3, <3>2, StepElsewhere DEF Text, Percent, NUL
    <3>4. pc' = "returned" /\ out' = out
      BY <3>3 DEF Terminate
    <3>. QED  BY <3>1, <3>4 DEF Walk
  <2>4. CASE pc = "text" /\ k # Len(ps)
    <3>1. k \in 0 .. Len(ps) - 1
      BY <2>4, MadeIs
    <3>. DEFINE p == ps[k + 1]
                e == FmtEnd(ps, k + 1)
                a == ArgEnd(ps, k) + 1
                o == Upto(Docs(ps))[k]
    <3>2. /\ SnprintfPart(p) /\ e \in Nat /\ a \in Nat
          /\ Ahead(call.fmt, FmtEnd(ps, k) + 1, p.fmt, e)
      <4>1. /\ SnprintfPart(ps[k + 1]) /\ FmtEnd(ps, k + 1) \in Nat
            /\ Ahead(call.fmt, FmtEnd(ps, k) + 1, ps[k + 1].fmt, FmtEnd(ps, k + 1))
            /\ ArgEnd(ps, k) \in Nat
        BY <3>1, PartPlaces
      <4>. QED  BY <4>1
    <3>3. Ahead(call.fmt, fp, p.fmt, e) /\ ap = a /\ out = o
      BY <2>1, <3>2 DEF Between
    <3>. HIDE DEF p, e, a, o
    <3>4. Inside(p, e, a, o)' \/ Behind(p, e, a, o)'
      BY <2>4, <3>2, <3>3, BeginStep
    <3>5. CASE Inside(p, e, a, o)'
      <4>1. Within(ps, k)'
        BY <3>5 DEF Within, p, e, a, o
      <4>. QED  BY <3>1, <4>1 DEF Walk
    <3>6. CASE Behind(p, e, a, o)'
      BY <3>1, <3>6, BehindIsBetween DEF p, e, a, o
    <3>. QED  BY <3>4, <3>5, <3>6
  <2>. QED  BY <2>1, <2>2, <2>3, <2>4 DEF Between
<1>2. CASE \E k \in 0 .. Len(ps) - 1 : Within(ps, k)
  <2>1. PICK k \in 0 .. Len(ps) - 1 : Within(ps, k)
    BY <1>2
  <2>. DEFINE p == ps[k + 1]
              e == FmtEnd(ps, k + 1)
              x == ArgEnd(ps, k)
              a == x + 1
              o == Upto(Docs(ps))[k]
  <2>2. /\ e \in Nat /\ x \in Nat /\ o \in Seq(Bytes) /\ Holds(call.args, x, p.args)
    BY PartPlaces
  <2>3. Inside(p, e, a, o)
    BY <2>1 DEF Within
  <2>. HIDE DEF p, e, x, o
  <2>4. a \in Nat /\ a = x + 1
    BY <2>2
  <2>. HIDE DEF a
  <2>5. Inside(p, e, a, o)' \/ Behind(p, e, a, o)'
    BY <2>2, <2>3, <2>4, InsideStep
  <2>6. CASE Inside(p, e, a, o)'
    <3>1. Within(ps, k)'
      BY <2>6 DEF Within, p, e, a, x, o
    <3>. QED  BY <3>1 DEF Walk
  <2>7. CASE Behind(p, e, a, o)'
    BY <2>7, BehindIsBetween DEF p, e, a, x, o
  <2>. QED  BY <2>5, <2>6, <2>7
<1>3. CASE pc \in {"returned", "panicked", "outside"} /\ (pc = "returned" => out = Joined(Docs(ps)))
  <2>1. pc' = pc /\ out' = out
    BY <1>3, StepElsewhere DEF vars
  <2>. QED  BY <1>3, <2>1 DEF Walk
<1>. QED  BY <1>1, <1>2, <1>3 DEF Walk

\* and nothing else disturbs it
LEMMA WalkStutters ==
  ASSUME UNCHANGED vars, NEW ps, Walk(ps)
  PROVE  Walk(ps)'
<1>1. /\ pc' = pc /\ call' = call /\ fp' = fp /\ ap' = ap /\ conv' = conv /\ num' = num
      /\ out' = out
  BY DEF vars
<1>2. ASSUME NEW flag, NEW width, NEW length, NEW c, NEW v, NEW e, NEW a, NEW o,
             InConversion(flag, width, length, c, v, e, a, o)
      PROVE  InConversion(flag, width, length, c, v, e, a, o)'
  <2>. DEFINE t == length \o <<c>>
  <2>1. AtFlag(flag, width, t, e) => AtFlag(flag, width, t, e)'
    BY <1>1 DEF AtFlag
  <2>2. AtWidth(flag, width, t, e) => AtWidth(flag, width, t, e)'
    BY <1>1 DEF AtWidth
  <2>3. InWidth(flag, width, t, e) => InWidth(flag, width, t, e)'
    <3>. SUFFICES ASSUME InWidth(flag, width, t, e) PROVE InWidth(flag, width, t, e)'
      OBVIOUS
    <3>1. PICK z \in Seq(DecimalDigits) : /\ Reads(z, conv.padn, width)
                                          /\ Ahead(call.fmt, fp, z \o t, e)
      BY DEF InWidth
    <3>2. Reads(z, conv'.padn, width) /\ Ahead(call.fmt', fp', z \o t, e)
      BY <1>1, <3>1
    <3>. QED  BY <1>1, <3>2 DEF InWidth
  <2>4. Padding(flag, width, 0) => Padding(flag, width, 0)'
    BY <1>1 DEF Padding
  <2>5. Padding(flag, width, Less(c, v)) => Padding(flag, width, Less(c, v))'
    BY <1>1 DEF Padding
  <2>6. AtLength(flag, width, c, e) => AtLength(flag, width, c, e)'
    BY <1>1, <2>4 DEF AtLength
  <2>7. InNumber(flag, width, c, v, e) => InNumber(flag, width, c, v, e)'
    BY <1>1, <2>5 DEF InNumber
  <2>. QED  BY <1>1, <1>2, <2>1, <2>2, <2>3, <2>6, <2>7 DEF InConversion
<1>3. ASSUME NEW p, NEW e, NEW a, NEW o, Inside(p, e, a, o)
      PROVE  Inside(p, e, a, o)'
  <2>1. CASE /\ p = TwoPercent /\ pc = "spec" /\ Ahead(call.fmt, fp, <<"%">>, e)
             /\ ap = a /\ out = o
    BY <1>1, <2>1 DEF Inside
  <2>2. CASE \E flag, width, length, c, v :
               /\ SnprintfAgrees(flag, width, length, c, v)
               /\ p = Conversion(flag, width, length, c, v)
               /\ InConversion(flag, width, length, c, v, e, a, o)
    BY <1>2, <2>2 DEF Inside
  <2>. QED  BY <1>3, <2>1, <2>2 DEF Inside
<1>4. CASE \E k \in 0 .. Len(ps) : Between(ps, k)
  BY <1>1, <1>4 DEF Between, Walk
<1>5. CASE \E k \in 0 .. Len(ps) - 1 : Within(ps, k)
  BY <1>3, <1>5 DEF Within, Walk
<1>. QED  BY <1>1, <1>4, <1>5 DEF Walk

\* The output is the one the comment above vsnprintf describes, OutputAsDocumented of
\* Snprintf, for calls with any number of parts and any size, each part being a character,
\* %%, or a conversion with any flag, width and length modifier of a number or pointer, or
\* one of a string without a width.  Left out, because the code does something else, are a
\* negative number in a field, a signed long beyond an int, a pointer other than NULL in a
\* field that is not %0NN, a pointer below 16 without a field, and a string in a field; and
\* all other specifiers, on which the comment says that the function panics.
THEOREM DocumentedOutput ==
  Spec => [](SnprintfDescribed(call) => OutputAsDocumented)
<1>. DEFINE Walks == \A ps : SnprintfMade(ps, call) => Walk(ps)
<1>1. Init => IInv /\ Walks
  <2>. SUFFICES ASSUME Init PROVE IInv /\ Walks
    OBVIOUS
  <2>1. ASSUME NEW ps, SnprintfMade(ps, call) PROVE Walk(ps)
    <3>1. SoundParts(ps) /\ Len(ps) \in Nat
      BY <2>1, MadeIs
    <3>2. Between(ps, 0)
      BY <3>1, FirstAndLast DEF Init, Between
    <3>3. 0 \in 0 .. Len(ps)
      BY <3>1
    <3>. QED  BY <3>2, <3>3 DEF Walk
  <2>. QED  BY <2>1, InitInv
<1>2. IInv /\ Walks /\ [Next]_vars => IInv' /\ Walks'
  <2>. SUFFICES ASSUME IInv, Walks, [Next]_vars
                PROVE  IInv' /\ Walks'
    OBVIOUS
  <2>1. IInv'
    BY StepInv
  <2>2. CASE Next
    <3>1. ASSUME NEW ps, SnprintfMade(ps, call') PROVE Walk(ps)'
      BY <2>2, <3>1, CallStays, WalkStep
    <3>. QED  BY <2>1, <3>1
  <2>3. CASE UNCHANGED vars
    <3>1. ASSUME NEW ps, Walk(ps) PROVE Walk(ps)'
      BY <2>3, <3>1, WalkStutters
    <3>2. call' = call
      BY <2>3 DEF vars
    <3>. QED  BY <2>1, <3>1, <3>2
  <2>. QED  BY <2>2, <2>3
<1>3. IInv /\ Walks => (SnprintfDescribed(call) => OutputAsDocumented)
  <2>. SUFFICES ASSUME IInv, NEW ps, SnprintfMade(ps, call), Walk(ps), pc = "returned"
                PROVE  out = call.doc
    BY DEF SnprintfDescribed, OutputAsDocumented
  <2>1. out = Joined(Docs(ps))
    BY DEF Walk, Between, Within, Inside, InConversion, AtFlag, AtWidth, InWidth, AtLength,
       InNumber
  <2>. QED  BY <2>1, MadeIs
<1>. QED  BY <1>1, <1>2, <1>3, PTL DEF Spec

\* The same of a program that calls printf before: FormattedAsDocumented of Formats, if the
\* calls it marks as agreed upon are made of the parts that DocumentedOutput is about.
THEOREM FormattedOutput ==
  ASSUME \A c \in Calls : c.agreed => SnprintfDescribed(c)
  PROVE  FSpec => []FormattedAsDocumented
<1>1. FInit => Init
  BY DEF FInit
<1>2. [FNext]_<<vars, pvars>> => [Next]_vars
  BY DEF FNext
<1>3. FSpec => Spec
  BY <1>1, <1>2, PTL DEF FSpec, Spec
<1>4. IInv /\ (SnprintfDescribed(call) => OutputAsDocumented) => FormattedAsDocumented
  <2>. SUFFICES ASSUME IInv, SnprintfDescribed(call) => OutputAsDocumented, call.agreed
                PROVE  OutputAsDocumented
    BY DEF FormattedAsDocumented
  <2>1. call \in Calls
    BY DEF IInv, Types
  <2>. QED  BY <2>1
<1>. QED  BY <1>3, <1>4, DocumentedOutput, Invariance, PTL
-----------------------------------------------------------------------------
(* The walk of vprintf: flag, width and length modifier                    *)

\* both interpreters have the same tables and digits
LEMMA PSame ==
  /\ P!Table = Lower /\ P!Table = LowerTable /\ P!NUL = NUL /\ P!Decimals = DecimalDigits
  /\ \A ch : P!ValueOf(ch) = ValueOf(ch)
<1>1. P!Table = Lower
  BY DEF P!Table, Lower
<1>2. P!Table = LowerTable
  BY DEF P!Table, LowerTable
<1>3. P!NUL = NUL
  BY DEF P!NUL, NUL
<1>4. P!Decimals = DecimalDigits
  BY <1>1 DEF P!Decimals, DecimalDigits
<1>5. \A ch : P!ValueOf(ch) = ValueOf(ch)
  BY <1>1 DEF P!ValueOf, ValueOf
<1>. QED  BY <1>1, <1>2, <1>3, <1>4, <1>5

\* the characters ahead are read one by one
LEMMA PNextIs ==
  ASSUME IInv, PTypes, NEW z \in Seq(Char), z # << >>, NEW r \in Seq(Char), NEW e \in Nat,
         Ahead(call.fmt, pfp, z \o r, e)
  PROVE  P!cur = z[1] /\ z[1] \in Char /\ Ahead(call.fmt, pfp + 1, Tail(z) \o r, e)
<1>. DEFINE fmt == call.fmt
            q == pfp
<1>1. Len(fmt) \in Nat /\ e \in Int /\ Ahead(fmt, q, z \o r, e)
  BY FmtFacts
<1>2. P!cur = IF q <= Len(fmt) THEN fmt[q] ELSE NUL
  BY PSame DEF P!cur
<1>. HIDE DEF fmt, q
<1>3. q <= Len(fmt) /\ fmt[q] = z[1] /\ z[1] \in Char /\ Ahead(fmt, q + 1, Tail(z) \o r, e)
  BY <1>1, AheadFirst
<1>. QED  BY <1>2, <1>3 DEF fmt, q

LEMMA PNextIsOne ==
  ASSUME IInv, PTypes, NEW ch \in Char, NEW r \in Seq(Char), NEW e \in Nat,
         Ahead(call.fmt, pfp, <<ch>> \o r, e)
  PROVE  P!cur = ch /\ Ahead(call.fmt, pfp + 1, r, e)
<1>. DEFINE z == <<ch>>
<1>1. z \in Seq(Char) /\ z # << >> /\ z[1] = ch /\ Tail(z) = << >>
      /\ Ahead(call.fmt, pfp, z \o r, e) /\ << >> \o r = r
  OBVIOUS
<1>. HIDE DEF z
<1>2. P!cur = z[1] /\ Ahead(call.fmt, pfp + 1, Tail(z) \o r, e)
  BY <1>1, PNextIs
<1>. QED  BY <1>1, <1>2

LEMMA PNextOf ==
  ASSUME IInv, PTypes, NEW z \in Seq(Char), z # << >>, NEW e \in Nat,
         Ahead(call.fmt, pfp, z, e)
  PROVE  P!cur = z[1] /\ z[1] \in Char
<1>. DEFINE r == << >>
<1>1. r \in Seq(Char) /\ z \o r = z
  OBVIOUS
<1>. HIDE DEF r
<1>2. Ahead(call.fmt, pfp, z \o r, e)
  BY <1>1
<1>. QED  BY <1>1, <1>2, PNextIs

\* nothing is left of the format
LEMMA PNoNext ==
  ASSUME IInv, PTypes, Ahead(call.fmt, pfp, << >>, Len(call.fmt))
  PROVE  P!cur = NUL
<1>1. Len(call.fmt) \in Int
  BY FmtFacts
<1>2. pfp = Len(call.fmt) + 1
  BY <1>1, AheadEnd
<1>3. ~ (pfp <= Len(call.fmt))
  BY <1>1, <1>2
<1>. QED  BY <1>3, PSame DEF P!cur

\* the only step there is
LEMMA PStepOfSpec ==
  ASSUME P!Next, ppc = "spec"
  PROVE  /\ (P!cur = "%" => P!PercentPercent) /\ (P!cur \in {"l", "z"} => P!Length)
         /\ (P!cur = "0" => P!Zero)
         /\ (P!cur \in {"d", "i"} => P!Signed) /\ (P!cur \in {"u", "x"} => P!Unsigned)
         /\ (P!cur = "p" => P!Pointer) /\ (P!cur = "s" => P!Str)
         /\ (P!cur \notin {"%", "l", "z", "0", "d", "i", "u", "x", "p", "s"} => P!Other)
BY DEF P!Next, P!Text, P!Percent, P!End, P!PercentPercent, P!Length, P!Zero, P!Width, P!Signed,
       P!Unsigned, P!Pointer, P!Str, P!Other, P!NextDigit, P!PadChar, P!Number, P!Over

LEMMA PStepElsewhere ==
  ASSUME P!Next
  PROVE  /\ (ppc = "text" => P!Text \/ P!Percent \/ P!End)
         /\ (ppc = "width" => P!Width)
         /\ (ppc = "digits" => P!NextDigit \/ P!PadChar \/ P!Number)
         /\ (ppc = "returned" => UNCHANGED P!vars)
BY DEF P!Next, P!Text, P!Percent, P!End, P!PercentPercent, P!Length, P!Zero, P!Width, P!Signed,
       P!Unsigned, P!Pointer, P!Str, P!Other, P!NextDigit, P!PadChar, P!Number, P!Over

\* between the percent sign and the letter
PAtWidth(flag, width, tail, e) ==
  ppc = "spec" /\ padn = 0 /\ Ahead(call.fmt, pfp, WidthChars(flag, width) \o tail, e)
PInWidth(width, tail, e) ==
  /\ ppc = "width" /\ padc = "0"
  /\ \E z \in Seq(DecimalDigits) : /\ Reads(z, padn, width)
                                   /\ Ahead(call.fmt, pfp, z \o tail, e)
PBehindWidth(width, tail, e) ==
  /\ ppc = "spec" /\ padn = width /\ (width > 0 => padc = "0")
  /\ Ahead(call.fmt, pfp, tail, e)
PAtLength(width, rest, e) ==
  /\ ppc = "spec" /\ padn = width /\ (width > 0 => padc = "0")
  /\ \E l \in Lengths \cap Seq(Char) : Ahead(call.fmt, pfp, l \o rest, e)

\* nothing is printed and no argument is taken
PQuiet == UNCHANGED <<call, pap, printed, count>>

\* the percent sign of a conversion
LEMMA PPercentStep ==
  ASSUME IInv, PTypes, P!Next, ppc = "text", NEW r \in Seq(Char), NEW e \in Nat,
         Ahead(call.fmt, pfp, <<"%">> \o r, e)
  PROVE  /\ ppc' = "spec" /\ padn' = 0 /\ PQuiet /\ Ahead(call.fmt', pfp', r, e)
<1>1. P!cur = "%" /\ Ahead(call.fmt, pfp + 1, r, e)
  BY SomeChars, PNextIsOne
<1>2. P!Percent
  BY <1>1, PStepElsewhere DEF P!Text, P!End, P!NUL
<1>. QED  BY <1>1, <1>2 DEF P!Percent, PQuiet

\* the flag 0, which is the first character of its width
LEMMA PZeroStep ==
  ASSUME IInv, PTypes, P!Next, NEW width \in Nat, NEW tail \in Seq(Char),
         NEW e \in Nat, PAtWidth("0", width, tail, e)
  PROVE  PInWidth(width, tail, e)' /\ PQuiet
<1>. DEFINE z == WidthChars("0", width)
<1>0. z \in Seq(DecimalDigits) /\ Reads(z, 0, width) /\ (z # << >> => (z[1] = "0" <=> "0" = "0"))
  BY WidthCharsAre
<1>1. z # << >>
  BY DEF WidthChars, FieldChars
<1>. HIDE DEF z
<1>2. z[1] = "0" /\ z \in Seq(Char)
  BY <1>0, <1>1, DigitsAndLetters
<1>3. ppc = "spec" /\ padn = 0 /\ Ahead(call.fmt, pfp, z \o tail, e)
  BY DEF PAtWidth, z
<1>4. P!cur = "0" /\ Ahead(call.fmt, pfp + 1, Tail(z) \o tail, e)
  BY <1>1, <1>2, <1>3, PNextIs
<1>5. P!Zero
  BY <1>3, <1>4, PStepOfSpec
<1>6. /\ padc' = "0" /\ padn' = 0 /\ pfp' = pfp + 1 /\ ppc' = "width" /\ PQuiet
  BY <1>5 DEF P!Zero, PQuiet
<1>7. ValueOf("0") = 0
  <2>1. LowerTable[0 + 1] = "0"
    BY DEF LowerTable
  <2>. QED  BY <2>1, ValueIs
<1>8. Reads(Tail(z), 0 * 10 + ValueOf("0"), width)
  BY <1>0, <1>1, <1>2, ReadsNext
<1>9. Tail(z) \in Seq(DecimalDigits)
  BY <1>0, <1>1, Uncons
<1>. DEFINE t == Tail(z)
<1>10. t \in Seq(DecimalDigits) /\ Reads(t, padn', width) /\ Ahead(call.fmt', pfp', t \o tail, e)
  BY <1>4, <1>6, <1>7, <1>8, <1>9 DEF PQuiet
<1>. HIDE DEF t
<1>. QED  BY <1>6, <1>10 DEF PInWidth

\* no width at all
LEMMA PNoWidth ==
  ASSUME NEW width \in Nat, width = 0, NEW tail \in Seq(Char), NEW e,
         PAtWidth("none", width, tail, e)
  PROVE  PBehindWidth(width, tail, e)
<1>1. WidthChars("none", width) = << >>
  <2>1. WidthChars("none", width) = FieldChars("none", width)
    BY DEF WidthChars
  <2>2. FieldChars("none", width) = << >> \o << >>
    BY DEF FieldChars
  <2>. QED  BY <2>1, <2>2
<1>2. << >> \o tail = tail
  OBVIOUS
<1>3. Ahead(call.fmt, pfp, tail, e)
  BY <1>1, <1>2 DEF PAtWidth
<1>. QED  BY <1>3 DEF PAtWidth, PBehindWidth

\* what ends a width
EndsWidth(tail, e) == IF tail = << >> THEN e = Len(call.fmt) ELSE tail[1] \notin DecimalDigits

\* a digit of the width, or its end
LEMMA PWidthDigitStep ==
  ASSUME IInv, PTypes, P!Next, NEW width \in Nat, NEW tail \in Seq(Char),
         NEW e \in Nat, EndsWidth(tail, e), PInWidth(width, tail, e)
  PROVE  (PInWidth(width, tail, e)' \/ PBehindWidth(width, tail, e)') /\ PQuiet
<1>1. ppc = "width" /\ padc = "0"
  BY DEF PInWidth
<1>2. PICK z \in Seq(DecimalDigits) : /\ Reads(z, padn, width)
                                      /\ Ahead(call.fmt, pfp, z \o tail, e)
  BY DEF PInWidth
<1>3. P!Width
  BY <1>1, PStepElsewhere
<1>4. PQuiet /\ padc' = padc
  BY <1>3 DEF P!Width, PQuiet
<1>5. z \in Seq(Char)
  BY DigitsAndLetters
<1>6. CASE z # << >>
  <2>1. z[1] \in DecimalDigits
    BY <1>6, Uncons
  <2>2. P!cur = z[1] /\ Ahead(call.fmt, pfp + 1, Tail(z) \o tail, e)
    BY <1>2, <1>5, <1>6, PNextIs
  <2>3. P!cur \in P!Decimals /\ P!ValueOf(P!cur) = ValueOf(z[1])
    BY <2>1, <2>2, PSame
  <2>4. ppc' = "width" /\ pfp' = pfp + 1 /\ padn' = padn * 10 + ValueOf(z[1])
    BY <1>1, <1>3, <2>3 DEF P!Width
  <2>6. Reads(Tail(z), padn * 10 + ValueOf(z[1]), width)
    BY <1>2, <1>6, ReadsNext
  <2>7. Tail(z) \in Seq(DecimalDigits)
    BY <1>6, Uncons
  <2>. DEFINE t == Tail(z)
  <2>8. t \in Seq(DecimalDigits) /\ Reads(t, padn', width) /\ Ahead(call.fmt', pfp', t \o tail, e)
    BY <1>4, <2>2, <2>4, <2>6, <2>7 DEF PQuiet
  <2>. HIDE DEF t
  <2>9. PInWidth(width, tail, e)'
    BY <1>1, <1>4, <2>4, <2>8 DEF PInWidth
  <2>. QED  BY <1>4, <2>9
<1>7. CASE z = << >>
  <2>1. padn = width /\ Ahead(call.fmt, pfp, tail, e)
    <3>1. << >> \o tail = tail
      OBVIOUS
    <3>2. Reads(<< >>, padn, width)
      BY <1>2, <1>7
    <3>. QED  BY <1>2, <1>7, <3>1, <3>2, ReadsEnd
  <2>2. P!cur \notin P!Decimals
    <3>1. CASE tail = << >>
      <4>1. P!cur = NUL
        BY <2>1, <3>1, PNoNext DEF EndsWidth
      <4>. QED  BY <4>1, PSame, DigitsAndLetters
    <3>2. CASE tail # << >>
      <4>1. P!cur = tail[1]
        BY <2>1, <3>2, PNextOf
      <4>. QED  BY <3>2, <4>1, PSame DEF EndsWidth
    <3>. QED  BY <3>1, <3>2
  <2>3. ppc' = "spec" /\ UNCHANGED <<padn, pfp>>
    BY <1>3, <2>2 DEF P!Width
  <2>4. Ahead(call.fmt', pfp', tail, e)
    BY <1>4, <2>1, <2>3 DEF PQuiet
  <2>5. PBehindWidth(width, tail, e)'
    BY <1>1, <1>4, <2>1, <2>3, <2>4 DEF PBehindWidth
  <2>. QED  BY <1>4, <2>5
<1>. QED  BY <1>6, <1>7

\* a length modifier, or none
LEMMA PLengthStep ==
  ASSUME IInv, PTypes, P!Next, NEW width, NEW rest \in Seq(Char), NEW e \in Nat,
         PAtLength(width, rest, e)
  PROVE  PBehindWidth(width, rest, e) \/ (PAtLength(width, rest, e)' /\ PQuiet)
<1>1. << >> \o rest = rest
  OBVIOUS
<1>2. PICK l \in Lengths \cap Seq(Char) : Ahead(call.fmt, pfp, l \o rest, e)
  BY DEF PAtLength
<1>3. ppc = "spec" /\ padn = width /\ (width > 0 => padc = "0")
  BY DEF PAtLength
<1>4. CASE l = << >>
  <2>1. Ahead(call.fmt, pfp, rest, e)
    BY <1>1, <1>2, <1>4
  <2>. QED  BY <1>3, <2>1 DEF PBehindWidth
<1>5. CASE l # << >>
  <2>1. l[1] \in {"l", "z"} /\ Tail(l) \in Lengths /\ Tail(l) \in Seq(Char)
    BY <1>5, LengthsAre, Uncons
  <2>2. P!cur = l[1] /\ Ahead(call.fmt, pfp + 1, Tail(l) \o rest, e)
    BY <1>2, <1>5, PNextIs
  <2>3. P!Length
    BY <1>3, <2>1, <2>2, PStepOfSpec
  <2>4. ppc' = "spec" /\ pfp' = pfp + 1 /\ PQuiet /\ UNCHANGED <<padc, padn>>
    BY <1>3, <2>3 DEF P!Length, PQuiet
  <2>. DEFINE k == Tail(l)
  <2>5. k \in Lengths \cap Seq(Char) /\ Ahead(call.fmt', pfp', k \o rest, e)
    BY <2>1, <2>2, <2>4 DEF PQuiet
  <2>. HIDE DEF k
  <2>6. PAtLength(width, rest, e)'
    BY <1>3, <2>4, <2>5 DEF PAtLength
  <2>. QED  BY <2>4, <2>6
<1>. QED  BY <1>4, <1>5
-----------------------------------------------------------------------------
(* The numbers and the strings of vprintf                                  *)

\* what is still printed for a number
Zeroed(k, body) == Times("0", k - Len(body)) \o body
PInNumber(c, v, e, o) ==
  /\ ppc = "digits" /\ pfp = e /\ (padn > 0 => padc = "0")
  /\ c # "s" /\ TableOf(c) = LowerTable /\ Printing(pnum, c, Body(c, v))
  /\ printed \o Zeroed(padn, Body(c, v)) = o
\* u characters have been printed past the counter
Counted(u) == count + u = Len(printed)

\* zeros and digits are bytes, and no zeros if there is no room for them
LEMMA ZeroedIs ==
  ASSUME NEW body \in Seq(Char), NEW k \in Int
  PROVE  /\ Zeroed(k, body) \in Seq(Bytes) /\ body \in Seq(Bytes) /\ Len(body) \in Nat
         /\ (k <= Len(body) => Zeroed(k, body) = body)
<1>. DEFINE l == Len(body)
            m == k - l
<1>1. l \in Nat /\ body \in Seq(Bytes)
  BY CharsAreBytes
<1>. HIDE DEF l
<1>2. m \in Int /\ (k <= l => m <= 0)
  BY <1>1
<1>. HIDE DEF m
<1>3. Times("0", m) \in Seq(Bytes)
  <2>1. "0" \in Bytes
    BY SomeChars, CharsAreBytes
  <2>. QED  BY <1>2, <2>1, TimesIs
<1>4. Zeroed(k, body) = Times("0", m) \o body
  BY DEF Zeroed, m, l
<1>5. Zeroed(k, body) \in Seq(Bytes)
  BY <1>1, <1>3, <1>4, ByteConcat
<1>6. k <= l => Zeroed(k, body) = body
  BY <1>1, <1>2, <1>4, NoTimes, ByteEmpty
<1>. QED  BY <1>1, <1>5, <1>6 DEF l

\* one zero after the other
LEMMA ZeroedNext ==
  ASSUME NEW body \in Seq(Char), NEW k \in Int, k > Len(body)
  PROVE  Zeroed(k, body) = <<"0">> \o Zeroed(k - 1, body) /\ <<"0">> \in Seq(Bytes)
<1>. DEFINE l == Len(body)
            m == k - l
            t == Times("0", m)
            u == Times("0", m - 1)
<1>1. l \in Nat /\ body \in Seq(Bytes)
  BY CharsAreBytes
<1>. HIDE DEF l
<1>2. m \in Int /\ m > 0 /\ m - 1 \in Int /\ (k - 1) - l = m - 1
  BY <1>1 DEF l
<1>. HIDE DEF m
<1>3. "0" \in Bytes
  BY SomeChars, CharsAreBytes
<1>4. u \in Seq(Bytes) /\ t = <<"0">> \o u
  <2>1. /\ Times("0", m) = [i \in 1 .. m |-> "0"] /\ Times("0", m - 1) = [i \in 1 .. m - 1 |-> "0"]
    BY <1>2 DEF Times
  <2>2. u \in Seq(Bytes)
    BY <1>2, <1>3, TimesIs
  <2>. DEFINE z == "0"
  <2>. HIDE DEF z
  <2>3. [i \in 1 .. m |-> z] = <<z>> \o [i \in 1 .. m - 1 |-> z]
    BY <1>2
  <2>. QED  BY <2>1, <2>2, <2>3 DEF z
<1>5. <<"0">> \in Seq(Bytes)
  BY <1>3
<1>6. Zeroed(k, body) = t \o body /\ Zeroed(k - 1, body) = u \o body
  BY <1>2 DEF Zeroed, m, l
<1>. HIDE DEF t, u
<1>7. (<<"0">> \o u) \o body = <<"0">> \o (u \o body)
  BY <1>1, <1>4, <1>5, ByteAssociate
<1>. QED  BY <1>4, <1>5, <1>6, <1>7

\* the prefix and what is printed behind it are the number in its field
Room(width, c, v) == width - Len(Prefix(c, v))
Fitting(width, c, v, p) ==
  /\ Room(width, c, v) \in Int /\ Prefix(c, v) \in Seq(Bytes) /\ Body(c, v) \in Seq(Char)
  /\ Prefix(c, v) \o Zeroed(Room(width, c, v), Body(c, v)) = p.doc

LEMMA PFieldDoc ==
  ASSUME NEW flag, NEW width, NEW length, NEW c, NEW v,
         PrintfAgrees(flag, width, length, c, v), c # "s",
         NEW p, p = Conversion(flag, width, length, c, v)
  PROVE  Fitting(width, c, v, p)
<1>. DEFINE k == Room(width, c, v)
<1>0. k = width - Len(Prefix(c, v))
  BY DEF Room
<1>. HIDE DEF k
<1>. DEFINE x == Prefix(c, v)
            b == Body(c, v)
            l == Len(x)
            w == Len(b)
            m == k - w
            free == width - Len(b) - Len(x)
<1>1. /\ flag = "0" \/ (flag = "none" /\ width = 0)
      /\ width \in Nat /\ v \in Int /\ (c \notin {"d", "i"} => v >= 0)
  BY DEF PrintfAgrees
<1>2. b \in Seq(Char)
  BY <1>1, BodyIs
<1>3. x \in {<< >>, <<"-">>, <<"0", "x">>}
  BY DEF Prefix
<1>4. p.doc = InField(flag, free, x, b)
  BY DEF Conversion
<1>5. Zeroed(k, b) = Times("0", m) \o b
  BY DEF Zeroed
<1>6. free = width - w - l /\ k = width - l
  BY <1>0
<1>. HIDE DEF free, x, b
<1>7. x \in Seq(Bytes) /\ b \in Seq(Bytes) /\ l \in Nat /\ w \in Nat
  <2>1. x \in Seq(Bytes) /\ b \in Seq(Bytes)
    BY <1>2, <1>3, ShortTexts, CharsAreBytes
  <2>. QED  BY <2>1
<1>. HIDE DEF l, w
<1>8. k \in Int /\ m \in Int /\ free = m /\ (width = 0 => m <= 0)
  <2>1. width \in Nat
    BY <1>1
  <2>. QED  BY <1>6, <1>7, <2>1
<1>. HIDE DEF m
<1>9. x \o (Times("0", m) \o b) = InField(flag, m, x, b)
  <2>. DEFINE t == Times("0", m)
  <2>0. "0" \in Bytes
    BY SomeChars, CharsAreBytes
  <2>1. t \in Seq(Bytes)
    BY <1>8, <2>0, TimesIs
  <2>2. CASE flag = "0"
    <3>1. InField(flag, m, x, b) = (x \o t) \o b
      BY <2>2 DEF InField
    <3>. HIDE DEF t
    <3>. QED  BY <1>7, <2>1, <3>1, ByteAssociate DEF t
  <2>3. CASE flag = "none" /\ width = 0
    <3>1. Times(Space, m) = << >> /\ t = << >>
      BY <1>8, <2>3, NoTimes
    <3>2. InField(flag, m, x, b) = (Times(Space, m) \o x) \o b
      BY <2>3 DEF InField
    <3>3. << >> \o x = x /\ << >> \o b = b
      BY <1>7, ByteEmpty
    <3>. QED  BY <3>1, <3>2, <3>3
  <2>. QED  BY <1>1, <2>2, <2>3
<1>10. /\ k \in Int /\ Prefix(c, v) \in Seq(Bytes) /\ Body(c, v) \in Seq(Char)
       /\ Prefix(c, v) \o Zeroed(k, Body(c, v)) = p.doc
  BY <1>2, <1>4, <1>5, <1>7, <1>8, <1>9 DEF x, b
<1>. QED  BY <1>10 DEF Fitting, k

\* the call of unsigned_num_print, behind the prefix
LEMMA PNumberStep ==
  ASSUME IInv, PTypes, P!Next, NEW flag, NEW width, NEW length, NEW c, NEW v, NEW e \in Nat,
         PrintfAgrees(flag, width, length, c, v), c # "s",
         NEW p, p = Conversion(flag, width, length, c, v),
         PBehindWidth(width, <<c>>, e), P!arg = v, NEW o \in Seq(Bytes), printed = o,
         NEW u \in Nat, Counted(u)
  PROVE  /\ PInNumber(c, v, e, o \o p.doc)' /\ pap' = pap + 1
         /\ Counted(u + Len(p.signs))'
<1>. DEFINE w == IF v < 0 THEN - v ELSE v
            x == Prefix(c, v)
<1>1. /\ width \in Nat /\ v \in Int /\ (c \notin {"d", "i"} => v >= 0) /\ c \in Char
      /\ c \in {"d", "i", "u", "x", "p"}
  BY DEF PrintfAgrees
<1>2. ppc = "spec" /\ padn = width /\ (width > 0 => padc = "0")
      /\ Ahead(call.fmt, pfp, <<c>>, e)
  BY DEF PBehindWidth
<1>3. P!cur = c /\ pfp = e
  <2>1. <<c>> \o << >> = <<c>> /\ << >> \in Seq(Char)
    OBVIOUS
  <2>2. P!cur = c /\ Ahead(call.fmt, pfp + 1, << >>, e)
    BY <1>1, <1>2, <2>1, PNextIsOne
  <2>3. pfp + 1 = e + 1
    BY <2>2, AheadEnd
  <2>4. pfp \in Nat
    BY PKnown
  <2>. QED  BY <2>2, <2>3, <2>4
<1>4. p.signs = IF x = <<"-">> THEN x ELSE << >>
  BY DEF Conversion
<1>5. Len(<<"-">>) = 1 /\ Len(<<"0", "x">>) = 2 /\ Len(<< >>) = 0 /\ <<"0", "x">> # <<"-">>
      /\ << >> # <<"-">>
  OBVIOUS
<1>6. /\ printed \in Seq(Bytes) /\ Len(printed) \in Nat /\ count \in Nat
      /\ count + u = Len(printed) /\ printed \o << >> = printed
  BY PKnown DEF Counted, Bytes
<1>7. /\ pnum' = [unum |-> w, radix |-> RadixOf(c), num_buf |-> << >>]
      /\ ppc' = "digits" /\ pap' = pap + 1 /\ UNCHANGED <<call, pfp, padc>>
      /\ printed' = printed \o x /\ padn' = padn - Len(x)
      /\ count' + Len(p.signs) = count + Len(x)
  <2>1. CASE c \in {"d", "i"}
    <3>1. P!Signed
      BY <1>2, <1>3, <2>1, PStepOfSpec
    <3>2. /\ P!PrintNumber(w, 10)
          /\ IF v < 0 THEN P!Emit(<<"-">>, 0) /\ padn' = padn - 1
                      ELSE UNCHANGED <<printed, count, padn>>
      BY <3>1 DEF P!Signed, P!SignRoom
    <3>3. CASE v < 0
      <4>1. x = <<"-">>
        BY <2>1, <3>3 DEF Prefix
      <4>. HIDE DEF w, x
      <4>2. printed' = printed \o x /\ count' = count + 0 /\ padn' = padn - 1
        BY <3>2, <3>3, <4>1 DEF P!Emit
      <4>. QED  BY <1>4, <1>5, <1>6, <2>1, <3>2, <4>1, <4>2 DEF P!PrintNumber, RadixOf
    <3>4. CASE ~ (v < 0)
      <4>1. x = << >>
        BY <2>1, <3>4 DEF Prefix
      <4>. HIDE DEF w, x
      <4>2. padn - 0 = padn
        BY PKnown
      <4>. QED  BY <1>4, <1>5, <1>6, <2>1, <3>2, <3>4, <4>1, <4>2 DEF P!PrintNumber, RadixOf
    <3>. QED  BY <3>3, <3>4
  <2>2. CASE c \in {"u", "x"}
    <3>1. P!Unsigned
      BY <1>2, <1>3, <2>2, PStepOfSpec
    <3>2. w = v /\ x = << >> /\ RadixOf(c) = (IF c = "u" THEN 10 ELSE 16)
      BY <1>1, <2>2 DEF Prefix, RadixOf
    <3>. HIDE DEF w, x
    <3>3. P!PrintNumber(w, RadixOf(c)) /\ UNCHANGED <<padn, printed, count>>
      BY <1>3, <3>1, <3>2 DEF P!Unsigned
    <3>4. padn - 0 = padn
      BY PKnown
    <3>. QED  BY <1>4, <1>5, <1>6, <3>2, <3>3, <3>4 DEF P!PrintNumber
  <2>3. CASE c = "p"
    <3>1. P!Pointer
      BY <1>2, <1>3, <2>3, PStepOfSpec
    <3>2. w = v /\ RadixOf(c) = 16
      BY <1>1, <2>3 DEF RadixOf
    <3>3. /\ P!PrintNumber(v, 16)
          /\ IF v > 0 THEN P!Emit(<<"0", "x">>, 2) /\ padn' = padn - 2
                      ELSE UNCHANGED <<printed, count, padn>>
      BY <3>1 DEF P!Pointer
    <3>. HIDE DEF w
    <3>4. CASE v > 0
      <4>1. x = <<"0", "x">>
        BY <2>3, <3>4 DEF Prefix
      <4>. HIDE DEF x
      <4>2. printed' = printed \o x /\ count' = count + 2 /\ padn' = padn - 2
        BY <3>3, <3>4, <4>1 DEF P!Emit
      <4>3. Len(x) = 2 /\ Len(p.signs) = 0 /\ count' \in Nat
        BY <1>4, <1>5, <1>6, <4>1, <4>2
      <4>. QED  BY <1>6, <3>2, <3>3, <4>2, <4>3 DEF P!PrintNumber
    <3>5. CASE ~ (v > 0)
      <4>1. x = << >>
        BY <2>3, <3>5 DEF Prefix
      <4>. HIDE DEF x
      <4>2. padn - 0 = padn
        BY PKnown
      <4>. QED  BY <1>4, <1>5, <1>6, <3>2, <3>3, <3>5, <4>1, <4>2 DEF P!PrintNumber
    <3>. QED  BY <3>4, <3>5
  <2>. QED  BY <1>1, <2>1, <2>2, <2>3
<1>. DEFINE b == Body(c, v)
            k == width - Len(x)
<1>8. k \in Int /\ x \in Seq(Bytes) /\ b \in Seq(Char) /\ x \o Zeroed(k, b) = p.doc
  <2>1. Fitting(width, c, v, p)
    BY PFieldDoc
  <2>2. k = Room(width, c, v)
    BY DEF Room
  <2>. HIDE DEF k
  <2>. QED  BY <2>1, <2>2 DEF Fitting
<1>9. padn' = k
  BY <1>2, <1>7
<1>10. Printing(pnum', c, b)
  BY <1>1, <1>7, NumberStarts
<1>11. TableOf(c) = LowerTable
  BY <1>1 DEF TableOf
<1>12. Len(x) \in Nat
  BY <1>8
<1>13. padn' > 0 => padc' = "0"
  <2>. DEFINE l == Len(x)
  <2>1. l \in Nat /\ padn' = width - l
    BY <1>9, <1>12
  <2>. HIDE DEF l
  <2>. QED  BY <1>1, <1>2, <1>7, <2>1
<1>14. printed' \o Zeroed(padn', b) = o \o p.doc
  <2>. DEFINE z == Zeroed(k, b)
  <2>1. z \in Seq(Bytes)
    BY <1>8, ZeroedIs
  <2>. HIDE DEF x, b, k, z
  <2>2. (o \o x) \o z = o \o (x \o z)
    BY <1>8, <2>1, ByteAssociate
  <2>. QED  BY <1>7, <1>8, <1>9, <2>2 DEF z
<1>15. Counted(u + Len(p.signs))'
  <2>1. Len(printed') = Len(printed) + Len(x)
    <3>. HIDE DEF x
    <3>. QED  BY <1>6, <1>7, <1>8
  <2>2. Len(p.signs) \in Nat
    <3>1. x \in Seq(Bytes) /\ << >> \in Seq(Bytes)
      BY <1>8, ShortTexts
    <3>. HIDE DEF x
    <3>. QED  BY <1>4, <3>1
  <2>3. count' \in Nat
    <3>1. count' \in 0 .. Len(printed') /\ Len(printed') \in Nat
      <4>1. P!Signed \/ P!Unsigned \/ P!Pointer
        BY <1>1, <1>2, <1>3, PStepOfSpec
      <4>2. PTypes'
        BY <4>1, PNumberKeeps
      <4>. QED  BY <4>2 DEF PTypes, P!TypeOK
    <3>. QED  BY <3>1
  <2>. DEFINE y == Len(p.signs)
              l == Len(x)
              m == Len(printed)
              m2 == Len(printed')
  <2>4. /\ y \in Nat /\ l \in Nat /\ m2 = m + l /\ count' + y = count + l /\ count + u = m
        /\ count \in Nat /\ m \in Nat
    BY <1>6, <1>7, <1>12, <2>1, <2>2
  <2>. HIDE DEF y, l, m, m2, x, b, k, w
  <2>5. count' + (u + y) = m + l
    <3>1. \A i, j, g \in Nat : g + y = i + l /\ i + j = m => g + (j + y) = m + l
      BY <2>4
    <3>. QED  BY <2>3, <2>4, <3>1
  <2>. QED  BY <2>4, <2>5 DEF Counted, y, m2
<1>16. PInNumber(c, v, e, o \o p.doc)'
  <2>. HIDE DEF x, b
  <2>. QED  BY <1>3, <1>7, <1>10, <1>11, <1>13, <1>14 DEF PInNumber, b
<1>. QED  BY <1>7, <1>15, <1>16

\* the step of %s
LEMMA PStringStep ==
  ASSUME IInv, PTypes, P!Next, NEW width, NEW v \in Seq(Char), NEW e \in Nat, "s" \in Char,
         PBehindWidth(width, <<"s">>, e), P!arg = v, NEW u \in Nat, Counted(u)
  PROVE  /\ ppc' = "text" /\ pfp' = e + 1 /\ pap' = pap + 1 /\ printed' = printed \o v
         /\ Counted(u)'
<1>1. ppc = "spec" /\ Ahead(call.fmt, pfp, <<"s">>, e)
  BY DEF PBehindWidth
<1>2. P!cur = "s" /\ pfp = e
  <2>1. <<"s">> \o << >> = <<"s">> /\ << >> \in Seq(Char)
    OBVIOUS
  <2>2. P!cur = "s" /\ Ahead(call.fmt, pfp + 1, << >>, e)
    BY <1>1, <2>1, PNextIsOne
  <2>3. pfp + 1 = e + 1
    BY <2>2, AheadEnd
  <2>4. pfp \in Nat
    BY PKnown
  <2>. QED  BY <2>2, <2>3, <2>4
<1>3. P!Str
  BY <1>1, <1>2, PStepOfSpec
<1>4. /\ ppc' = "text" /\ pfp' = e + 1 /\ pap' = pap + 1 /\ printed' = printed \o v
      /\ count' = count + Len(v)
  BY <1>2, <1>3 DEF P!Str, P!Emit
<1>5. count + u = Len(printed) /\ printed \in Seq(Bytes) /\ v \in Seq(Bytes) /\ count \in Nat
  BY PKnown, CharsAreBytes DEF Counted, Bytes
<1>6. Len(printed') = Len(printed) + Len(v) /\ Len(v) \in Nat /\ Len(printed) \in Nat
  BY <1>4, <1>5
<1>7. count' + u = Len(printed')
  <2>. DEFINE l == Len(v)
              m == Len(printed)
  <2>1. l \in Nat /\ m \in Nat /\ count' = count + l /\ count + u = m
    BY <1>4, <1>5, <1>6
  <2>. HIDE DEF l, m
  <2>2. count' + u = m + l
    BY <1>5, <2>1
  <2>. QED  BY <1>6, <2>2 DEF l, m
<1>. QED  BY <1>4, <1>7 DEF Counted

\* a step of unsigned_num_print
LEMMA PDigitsStep ==
  ASSUME IInv, PTypes, P!Next, NEW c, NEW v, NEW e \in Nat, NEW o, Body(c, v) \in Seq(Char),
         PInNumber(c, v, e, o), NEW u \in Nat, Counted(u)
  PROVE  /\ pap' = pap /\ Counted(u)'
         /\ \/ PInNumber(c, v, e, o)'
            \/ ppc' = "text" /\ pfp' = e + 1 /\ printed' = o
<1>. DEFINE b == Body(c, v)
<1>1. /\ ppc = "digits" /\ pfp = e /\ (padn > 0 => padc = "0")
      /\ c # "s" /\ TableOf(c) = LowerTable /\ Printing(pnum, c, b)
      /\ printed \o Zeroed(padn, b) = o
  BY DEF PInNumber
<1>2. /\ printed \in Seq(Bytes) /\ Len(printed) \in Nat /\ count \in Nat
      /\ count + u = Len(printed) /\ padn \in Int /\ pnum \in Num
  BY PKnown DEF Counted, Bytes
<1>3. CASE P!NextDigit
  <2>. DEFINE d == pnum.unum % pnum.radix
              w == pnum.unum \div pnum.radix
  <2>1. pnum.unum > 0 \/ pnum.num_buf = << >>
    BY <1>3 DEF P!NextDigit, P!MoreDigits
  <2>2. /\ UNCHANGED <<ppc, call, pfp, pap, padc, padn, printed, count>>
        /\ pnum' = [pnum EXCEPT !.unum = w, !.num_buf = <<P!Table[d + 1]>> \o pnum.num_buf]
    BY <1>3 DEF P!NextDigit
  <2>3. P!Table = TableOf(c)
    BY <1>1, PSame
  <2>4. pnum' = [pnum EXCEPT !.unum = w, !.num_buf = <<TableOf(c)[d + 1]>> \o pnum.num_buf]
    BY <2>2, <2>3
  <2>5. Printing(pnum', c, b)
    BY <1>1, <1>2, <2>1, <2>4, PrintingGoesOn
  <2>. HIDE DEF b
  <2>6. PInNumber(c, v, e, o)'
    BY <1>1, <2>2, <2>5 DEF PInNumber, b
  <2>. QED  BY <1>2, <2>2, <2>6 DEF Counted
<1>4. CASE P!PadChar
  <2>1. ~ P!MoreDigits /\ Len(pnum.num_buf) < padn
    BY <1>4 DEF P!PadChar, P!Pads
  <2>2. pnum.num_buf = b
    BY <1>1, <2>1 DEF Printing, P!MoreDigits
  <2>. DEFINE l == Len(b)
  <2>3. l \in Nat /\ b \in Seq(Char)
    OBVIOUS
  <2>. HIDE DEF b, l
  <2>4. l < padn
    BY <2>1, <2>2 DEF l
  <2>5. padc = "0" /\ padn > l
    BY <1>1, <1>2, <2>3, <2>4
  <2>6. /\ UNCHANGED <<ppc, call, pfp, pap, padc, pnum>> /\ printed' = printed \o <<"0">>
        /\ count' = count + 1 /\ padn' = padn - 1
    BY <1>4, <2>5 DEF P!PadChar, P!Emit
  <2>7. Zeroed(padn, b) = <<"0">> \o Zeroed(padn - 1, b) /\ <<"0">> \in Seq(Bytes)
    BY <1>2, <2>3, <2>5, ZeroedNext DEF l
  <2>8. printed' \o Zeroed(padn', b) = o
    <3>. DEFINE z == Zeroed(padn - 1, b)
    <3>1. padn - 1 \in Int
      BY <1>2
    <3>2. z \in Seq(Bytes)
      BY <2>3, <3>1, ZeroedIs
    <3>. HIDE DEF z
    <3>3. (printed \o <<"0">>) \o z = printed \o (<<"0">> \o z)
      BY <1>2, <2>7, <3>2, ByteAssociate
    <3>. QED  BY <1>1, <2>6, <2>7, <3>3 DEF z
  <2>9. padn' > 0 => padc' = "0"
    BY <2>5, <2>6
  <2>10. PInNumber(c, v, e, o)'
    BY <1>1, <2>6, <2>8, <2>9 DEF PInNumber, b
  <2>11. Len(printed') = Len(printed) + 1
    BY <1>2, <2>6, <2>7
  <2>12. count' + u = Len(printed')
    <3>. DEFINE m == Len(printed)
    <3>1. m \in Nat /\ count + u = m /\ Len(printed') = m + 1
      BY <1>2, <2>11
    <3>. HIDE DEF m
    <3>. QED  BY <1>2, <2>6, <3>1
  <2>. QED  BY <2>6, <2>10, <2>12 DEF Counted
<1>5. CASE P!Number
  <2>1. ~ P!MoreDigits /\ ~ (Len(pnum.num_buf) < padn)
    BY <1>5 DEF P!Number, P!Pads
  <2>2. pnum.num_buf = b
    BY <1>1, <2>1 DEF Printing, P!MoreDigits
  <2>. DEFINE l == Len(b)
  <2>3. l \in Nat /\ b \in Seq(Char) /\ b \in Seq(Bytes)
    BY CharsAreBytes
  <2>4. /\ ppc' = "text" /\ pfp' = e + 1 /\ UNCHANGED <<call, pap>>
        /\ printed' = printed \o b /\ count' = count + l
    BY <1>1, <1>5, <2>2 DEF P!Number, P!Emit
  <2>. HIDE DEF b
  <2>5. padn <= l
    <3>1. ~ (l < padn)
      BY <2>1, <2>2
    <3>. HIDE DEF l
    <3>. QED  BY <1>2, <2>3, <3>1
  <2>6. Zeroed(padn, b) = b
    BY <1>2, <2>3, <2>5, ZeroedIs
  <2>7. Len(printed') = Len(printed) + l
    BY <1>2, <2>3, <2>4
  <2>8. count' + u = Len(printed')
    <3>. DEFINE m == Len(printed)
    <3>1. m \in Nat /\ count + u = m /\ Len(printed') = m + l
      BY <1>2, <2>7
    <3>. HIDE DEF m, l
    <3>. QED  BY <1>2, <2>3, <2>4, <3>1
  <2>. QED  BY <1>1, <2>4, <2>6, <2>8 DEF Counted
<1>. QED  BY <1>1, <1>3, <1>4, <1>5, PStepElsewhere
-----------------------------------------------------------------------------
(* The walk of vprintf over a part                                         *)

\* rest is what follows the length modifier, e where it ends
PFlagged(flag, width, length, rest, e) ==
  \/ PAtWidth(flag, width, length \o rest, e)
  \/ flag = "0" /\ PInWidth(width, length \o rest, e)
  \/ PAtLength(width, rest, e)

\* the flags and widths printf knows
PField(flag, width, length) ==
  /\ flag = "0" \/ (flag = "none" /\ width = 0)
  /\ width \in Nat /\ length \in Lengths \cap Seq(Char)

\* a step between the percent sign and the letter
LEMMA PFlaggedStep ==
  ASSUME IInv, PTypes, P!Next, NEW flag, NEW width, NEW length, PField(flag, width, length),
         NEW rest \in Seq(Char), NEW e \in Nat, flag = "0" => EndsWidth(length \o rest, e),
         PFlagged(flag, width, length, rest, e)
  PROVE  PBehindWidth(width, rest, e) \/ (PFlagged(flag, width, length, rest, e)' /\ PQuiet)
<1>. DEFINE t == length \o rest
<1>1. /\ flag = "0" \/ (flag = "none" /\ width = 0)
      /\ width \in Nat /\ length \in Lengths \cap Seq(Char)
  BY DEF PField
<1>2. t \in Seq(Char)
  BY <1>1, Concat
<1>3. CASE PAtLength(width, rest, e)
  BY <1>3, PLengthStep DEF PFlagged
<1>4. CASE flag = "0" /\ PInWidth(width, t, e)
  <2>1. /\ PInWidth(width, t, e)' \/ PBehindWidth(width, t, e)'
        /\ PQuiet
    <3>. HIDE DEF t
    <3>1. EndsWidth(t, e)
      BY <1>4 DEF t
    <3>. QED  BY <1>1, <1>2, <1>4, <3>1, PWidthDigitStep
  <2>2. CASE PInWidth(width, t, e)'
    BY <1>4, <2>1, <2>2 DEF PFlagged
  <2>3. CASE PBehindWidth(width, t, e)'
    <3>1. PAtLength(width, rest, e)'
      BY <1>1, <2>3 DEF PBehindWidth, PAtLength
    <3>. QED  BY <2>1, <3>1 DEF PFlagged
  <2>. QED  BY <2>1, <2>2, <2>3
<1>5. CASE flag = "0" /\ PAtWidth(flag, width, t, e)
  <2>. HIDE DEF t
  <2>1. PInWidth(width, t, e)' /\ PQuiet
    BY <1>1, <1>2, <1>5, PZeroStep
  <2>. QED  BY <1>5, <2>1 DEF PFlagged, t
<1>6. CASE flag = "none" /\ width = 0 /\ PAtWidth(flag, width, t, e)
  <2>1. PBehindWidth(width, t, e)
    <3>. HIDE DEF t
    <3>. QED  BY <1>1, <1>2, <1>6, PNoWidth
  <2>2. PAtLength(width, rest, e)
    BY <1>1, <2>1 DEF PBehindWidth, PAtLength
  <2>. QED  BY <1>3, <2>2
<1>. QED  BY <1>1, <1>3, <1>4, <1>5, <1>6 DEF PFlagged

\* Part p ends at e, its argument is at a; o has been printed before it, u of it past the
\* counter.
PInConversion(flag, width, length, c, v, p, e, a, o, u) ==
  \/ /\ pap = a /\ printed = o /\ Counted(u) /\ PFlagged(flag, width, length, <<c>>, e)
  \/ /\ pap = a + 1 /\ Counted(u + Len(p.signs)) /\ PInNumber(c, v, e, o \o p.doc)
PConverted(flag, width, length, c, v, p) ==
  PrintfAgrees(flag, width, length, c, v) /\ p = Conversion(flag, width, length, c, v)
PInside(p, e, a, o, u) ==
  \/ /\ p = TwoPercent /\ ppc = "spec" /\ Ahead(call.fmt, pfp, <<"%">>, e)
     /\ pap = a /\ printed = o /\ Counted(u)
  \/ \E flag, width, length, c, v : /\ PConverted(flag, width, length, c, v, p)
                                    /\ PInConversion(flag, width, length, c, v, p, e, a, o, u)
PBehind(p, e, a, o, u) ==
  /\ ppc = "text" /\ pfp = e + 1 /\ pap = a + Len(p.args) /\ printed = o \o p.doc
  /\ Counted(u + Len(p.signs))

\* the letter and the digits
LEMMA PLetterStep ==
  ASSUME IInv, PTypes, P!Next, NEW flag, NEW width, NEW length, NEW c, NEW v, NEW p,
         PConverted(flag, width, length, c, v, p), NEW e \in Nat, NEW a, NEW o \in Seq(Bytes),
         NEW u \in Nat, pap = a, printed = o, Counted(u), P!arg = v,
         PBehindWidth(width, <<c>>, e)
  PROVE  PInConversion(flag, width, length, c, v, p, e, a, o, u)' \/ PBehind(p, e, a, o, u)'
<1>0. PrintfAgrees(flag, width, length, c, v) /\ p = Conversion(flag, width, length, c, v)
  BY DEF PConverted
<1>1. CASE c # "s"
  <2>1. /\ PInNumber(c, v, e, o \o p.doc)' /\ pap' = pap + 1
        /\ Counted(u + Len(p.signs))'
    BY <1>0, <1>1, PNumberStep
  <2>. QED  BY <2>1 DEF PInConversion
<1>2. CASE c = "s"
  <2>1. "s" \in Char /\ width = 0 /\ v \in Seq(Char)
    BY <1>0, <1>2 DEF PrintfAgrees
  <2>2. /\ ppc' = "text" /\ pfp' = e + 1 /\ pap' = pap + 1 /\ printed' = printed \o v
        /\ Counted(u)'
    BY <1>2, <2>1, PStringStep
  <2>3. p.doc = v /\ Len(p.args) = 1 /\ Len(p.signs) = 0
    BY <1>0, <1>2, <2>1, StringIs
  <2>4. u + 0 = u
    OBVIOUS
  <2>. QED  BY <2>2, <2>3, <2>4 DEF PBehind
<1>. QED  BY <1>1, <1>2

\* the steps of unsigned_num_print
LEMMA PNumberPrinted ==
  ASSUME IInv, PTypes, P!Next, NEW flag, NEW width, NEW length, NEW c, NEW v, NEW p,
         PConverted(flag, width, length, c, v, p), NEW e \in Nat, NEW a \in Nat,
         NEW o \in Seq(Bytes), NEW u \in Nat,
         pap = a + 1, Counted(u + Len(p.signs)), PInNumber(c, v, e, o \o p.doc)
  PROVE  PInConversion(flag, width, length, c, v, p, e, a, o, u)' \/ PBehind(p, e, a, o, u)'
<1>1. PrintfAgrees(flag, width, length, c, v) /\ p = Conversion(flag, width, length, c, v)
  BY DEF PConverted
<1>2. c # "s" /\ v \in Int /\ (c \notin {"d", "i"} => v >= 0)
  BY <1>1 DEF PInNumber, PrintfAgrees
<1>3. Body(c, v) \in Seq(Char)
  BY <1>2, BodyIs
<1>. DEFINE w == u + Len(p.signs)
            m == o \o p.doc
<1>4. w \in Nat /\ Len(p.args) = 1
  <2>1. p.args = <<v>> /\ p.signs \in {<< >>, <<"-">>}
    BY <1>1, AgreesIs, ConversionIs
  <2>2. Len(<<v>>) = 1 /\ Len(<< >>) = 0 /\ Len(<<"-">>) = 1
    OBVIOUS
  <2>. QED  BY <2>1, <2>2
<1>5. Counted(w) /\ PInNumber(c, v, e, m)
  OBVIOUS
<1>. HIDE DEF w, m
<1>6. /\ pap' = pap /\ Counted(w)'
      /\ \/ PInNumber(c, v, e, m)'
         \/ ppc' = "text" /\ pfp' = e + 1 /\ printed' = m
  BY <1>3, <1>4, <1>5, PDigitsStep
<1>7. CASE PInNumber(c, v, e, m)'
  BY <1>6, <1>7 DEF PInConversion, w, m
<1>8. CASE ppc' = "text" /\ pfp' = e + 1 /\ printed' = m
  BY <1>4, <1>6, <1>8 DEF PBehind, w, m
<1>. QED  BY <1>6, <1>7, <1>8

\* a step of vprintf inside a conversion
LEMMA PConversionStep ==
  ASSUME IInv, PTypes, P!Next, NEW flag, NEW width, NEW length, NEW c, NEW v, NEW p,
         PConverted(flag, width, length, c, v, p), NEW e \in Nat, NEW a \in Nat,
         NEW o \in Seq(Bytes), NEW u \in Nat, call.args[a] = v,
         PInConversion(flag, width, length, c, v, p, e, a, o, u)
  PROVE  PInConversion(flag, width, length, c, v, p, e, a, o, u)' \/ PBehind(p, e, a, o, u)'
<1>1. PrintfAgrees(flag, width, length, c, v)
  BY DEF PConverted
<1>2. PField(flag, width, length) /\ c \in Char /\ c \in {"d", "i", "u", "x", "X", "p", "s"}
      /\ length \in Lengths \cap Seq(Char)
  BY <1>1 DEF PrintfAgrees, PField
<1>3. CASE /\ pap = a /\ printed = o /\ Counted(u) /\ PFlagged(flag, width, length, <<c>>, e)
  <2>. DEFINE r == <<c>>
              t == length \o r
  <2>1. r \in Seq(Char)
    BY <1>2
  <2>2. EndsWidth(t, e)
    BY <1>2, TailOf DEF EndsWidth
  <2>. HIDE DEF t, r
  <2>3. PFlagged(flag, width, length, r, e) /\ EndsWidth(length \o r, e)
    BY <1>3, <2>2 DEF t, r
  <2>4. PBehindWidth(width, r, e) \/ (PFlagged(flag, width, length, r, e)' /\ PQuiet)
    BY <1>2, <2>1, <2>3, PFlaggedStep
  <2>5. CASE PBehindWidth(width, r, e)
    <3>1. P!arg = v
      BY <1>3 DEF P!arg
    <3>. QED  BY <1>3, <2>5, <3>1, PLetterStep DEF r
  <2>6. CASE PFlagged(flag, width, length, r, e)' /\ PQuiet
    BY <1>3, <2>6 DEF PInConversion, PQuiet, Counted, r
  <2>. QED  BY <2>4, <2>5, <2>6
<1>4. CASE /\ pap = a + 1 /\ Counted(u + Len(p.signs))
           /\ PInNumber(c, v, e, o \o p.doc)
  BY <1>4, PNumberPrinted
<1>. QED  BY <1>3, <1>4 DEF PInConversion
-----------------------------------------------------------------------------
(* The walk of vprintf over a format string of parts                       *)

\* a step at the first character of a part
LEMMA PBeginStep ==
  ASSUME IInv, PTypes, P!Next, ppc = "text", NEW p, PrintfPart(p), NEW e \in Nat,
         NEW a \in Nat, NEW o, NEW u \in Nat, pap = a, printed = o, Counted(u),
         Ahead(call.fmt, pfp, p.fmt, e)
  PROVE  PInside(p, e, a, o, u)' \/ PBehind(p, e, a, o, u)'
<1>1. CASE \E ch \in Char \ {"%"} : p = Plain(ch)
  <2>1. PICK ch \in Char \ {"%"} : p = Plain(ch)
    BY <1>1
  <2>2. p.fmt = <<ch>> /\ p.args = << >> /\ p.doc = <<ch>> /\ p.signs = << >>
    BY <2>1 DEF Plain
  <2>3. << >> \in Seq(Char) /\ <<ch>> \o << >> = <<ch>> /\ Len(<< >>) = 0
    OBVIOUS
  <2>4. P!cur = ch /\ pfp + 1 = e + 1
    <3>1. P!cur = ch /\ Ahead(call.fmt, pfp + 1, << >>, e)
      BY <2>2, <2>3, PNextIsOne
    <3>. QED  BY <3>1, AheadEnd
  <2>5. ch # "%" /\ ch # P!NUL
    BY CharAssumption, PSame
  <2>6. P!Text
    BY <2>4, <2>5, PStepElsewhere DEF P!Percent, P!End
  <2>7. /\ ppc' = "text" /\ pfp' = e + 1 /\ pap' = a /\ printed' = o \o <<ch>>
        /\ count' = count + 1
    BY <2>4, <2>6 DEF P!Text, P!Emit
  <2>8. Counted(u)'
    <3>1. printed \in Seq(Bytes) /\ <<ch>> \in Seq(Bytes) /\ count + u = Len(printed)
          /\ Len(printed) \in Nat /\ count \in Nat
      BY PKnown, CharsAreBytes DEF Counted, Bytes
    <3>2. Len(printed') = Len(printed) + 1
      BY <2>7, <3>1
    <3>. DEFINE m == Len(printed)
    <3>3. m \in Nat /\ count + u = m /\ Len(printed') = m + 1
      BY <3>1, <3>2
    <3>. HIDE DEF m
    <3>4. count' + u = m + 1
      BY <2>7, <3>1, <3>3
    <3>. QED  BY <3>3, <3>4 DEF Counted
  <2>9. a + 0 = a /\ u + 0 = u
    OBVIOUS
  <2>. QED  BY <2>2, <2>3, <2>7, <2>8, <2>9 DEF PBehind
<1>2. CASE p = TwoPercent
  <2>1. p.fmt = <<"%">> \o <<"%">> /\ <<"%">> \in Seq(Char)
    <3>1. p.fmt = <<"%", "%">>
      BY <1>2 DEF TwoPercent
    <3>. QED  BY <3>1, ShortTexts
  <2>2. ppc' = "spec" /\ PQuiet /\ Ahead(call.fmt', pfp', <<"%">>, e)
    BY <2>1, PPercentStep
  <2>. QED  BY <1>2, <2>2 DEF PInside, PQuiet, Counted
<1>3. CASE \E flag, width, length, c, v : /\ PrintfAgrees(flag, width, length, c, v)
                                          /\ p = Conversion(flag, width, length, c, v)
  <2>1. PICK flag, width, length, c, v : /\ PrintfAgrees(flag, width, length, c, v)
                                         /\ p = Conversion(flag, width, length, c, v)
    BY <1>3
  <2>2. Sane(flag, width, length, c, v)
    BY <2>1, AgreesIs
  <2>3. /\ p.fmt = <<"%">> \o Spelled(flag, width, length, c)
        /\ FieldChars(flag, width) \in Seq(Char) /\ length \o <<c>> \in Seq(Char)
    BY <2>1, <2>2, ConversionIs
  <2>4. flag \in {"none", "0"}
    BY <2>1 DEF PrintfAgrees
  <2>. DEFINE t == length \o <<c>>
              f == FieldChars(flag, width)
  <2>5. p.fmt = <<"%">> \o (f \o t) /\ f \in Seq(Char) /\ t \in Seq(Char)
    BY <2>3 DEF Spelled
  <2>6. f = WidthChars(flag, width)
    BY <2>4 DEF WidthChars
  <2>. HIDE DEF t, f
  <2>7. f \o t \in Seq(Char)
    BY <2>5, Concat
  <2>8. ppc' = "spec" /\ padn' = 0 /\ PQuiet /\ Ahead(call.fmt', pfp', f \o t, e)
    BY <2>5, <2>7, PPercentStep
  <2>9. PAtWidth(flag, width, t, e)'
    BY <2>6, <2>8 DEF PAtWidth
  <2>10. PInConversion(flag, width, length, c, v, p, e, a, o, u)'
    BY <2>8, <2>9 DEF PInConversion, PFlagged, PQuiet, Counted, t
  <2>. QED  BY <2>1, <2>10 DEF PInside, PConverted
<1>. QED  BY <1>1, <1>2, <1>3 DEF PrintfPart, TextPart

\* a step inside a part
LEMMA PInsideStep ==
  ASSUME IInv, PTypes, P!Next, NEW p, NEW e \in Nat, NEW a \in Nat, NEW o \in Seq(Bytes),
         NEW u \in Nat, PInside(p, e, a, o, u), NEW x \in Nat, a = x + 1,
         Holds(call.args, x, p.args)
  PROVE  PInside(p, e, a, o, u)' \/ PBehind(p, e, a, o, u)'
<1>1. CASE /\ p = TwoPercent /\ ppc = "spec" /\ Ahead(call.fmt, pfp, <<"%">>, e)
           /\ pap = a /\ printed = o /\ Counted(u)
  <2>1. << >> \in Seq(Char) /\ <<"%">> \o << >> = <<"%">> /\ Len(<< >>) = 0 /\ Len(<<"%">>) = 1
    OBVIOUS
  <2>2. P!cur = "%" /\ pfp + 1 = e + 1
    <3>1. "%" \in Char
      BY SomeChars
    <3>2. P!cur = "%" /\ Ahead(call.fmt, pfp + 1, << >>, e)
      BY <1>1, <2>1, <3>1, PNextIsOne
    <3>. QED  BY <3>2, AheadEnd
  <2>3. P!PercentPercent
    BY <1>1, <2>2, PStepOfSpec
  <2>4. /\ ppc' = "text" /\ pfp' = e + 1 /\ pap' = a /\ printed' = o \o <<"%">>
        /\ count' = count + 0
    BY <1>1, <2>2, <2>3 DEF P!PercentPercent, P!Emit
  <2>5. p.args = << >> /\ p.doc = <<"%">> /\ p.signs = <<"%">>
    BY <1>1 DEF TwoPercent
  <2>6. Counted(u + 1)'
    <3>. DEFINE m == Len(o)
    <3>1. m \in Nat /\ count + u = m /\ count \in Nat /\ Len(printed') = m + 1
      BY <1>1, <2>4, PKnown, ShortTexts DEF Counted
    <3>. HIDE DEF m
    <3>2. count' + (u + 1) = m + 1
      BY <2>4, <3>1
    <3>. QED  BY <3>1, <3>2 DEF Counted
  <2>. QED  BY <2>1, <2>4, <2>5, <2>6 DEF PBehind
<1>2. CASE \E flag, width, length, c, v :
             /\ PConverted(flag, width, length, c, v, p)
             /\ PInConversion(flag, width, length, c, v, p, e, a, o, u)
  <2>1. PICK flag, width, length, c, v :
             /\ PConverted(flag, width, length, c, v, p)
             /\ PInConversion(flag, width, length, c, v, p, e, a, o, u)
    BY <1>2
  <2>2. call.args[a] = v
    <3>1. p.args = <<v>>
      BY <2>1 DEF Conversion, PConverted
    <3>2. 1 \in 1 .. Len(<<v>>) /\ <<v>>[1] = v
      OBVIOUS
    <3>. QED  BY <3>1, <3>2 DEF Holds
  <2>3. \/ PInConversion(flag, width, length, c, v, p, e, a, o, u)'
        \/ PBehind(p, e, a, o, u)'
    BY <2>1, <2>2, PConversionStep
  <2>. QED  BY <2>1, <2>3 DEF PInside
<1>. QED  BY <1>1, <1>2 DEF PInside

\* the conversion printf rejects
PRefusing(flag, width, length, rest) ==
  PField(flag, width, length) /\ rest \in Seq(Char) /\ Unknown(flag, rest)
PAtTail(o, u) ==
  /\ printed = o /\ Counted(u)
  /\ \E flag, width, length, rest :
       PRefusing(flag, width, length, rest)
       /\ PFlagged(flag, width, length, rest, Len(call.fmt))
PRejected(o) == ppc = "returned" /\ result = -1 /\ printed = o

\* a step inside the conversion that is rejected
LEMMA PTailStep ==
  ASSUME IInv, PTypes, P!Next, NEW o, NEW u, PAtTail(o, u)
  PROVE  PAtTail(o, u)' \/ PRejected(o)'
<1>1. PICK flag, width, length, rest : PRefusing(flag, width, length, rest)
                                     /\ PFlagged(flag, width, length, rest, Len(call.fmt))
  BY DEF PAtTail
<1>2. PField(flag, width, length) /\ rest \in Seq(Char) /\ Unknown(flag, rest)
      /\ length \in Lengths /\ length \in Seq(Char)
  BY <1>1 DEF PRefusing, PField
<1>3. PICK e \in Nat : e = Len(call.fmt)
  BY FmtFacts
<1>4. flag = "0" => EndsWidth(length \o rest, e)
  <2>. SUFFICES ASSUME flag = "0" PROVE EndsWidth(length \o rest, e)
    OBVIOUS
  <2>1. CASE length = << >>
    <3>1. length \o rest = rest
      BY <1>2, <2>1
    <3>. QED  BY <1>2, <1>3, <3>1 DEF Unknown, EndsWidth
  <2>2. CASE length # << >>
    <3>1. length[1] \in {"l", "z"}
      BY <1>2, <2>2, LengthsAre
    <3>2. length[1] \notin DecimalDigits
      BY <3>1, DigitsAndLetters DEF Letters
    <3>3. length \o rest # << >> /\ (length \o rest)[1] = length[1]
      BY <1>2, <2>2
    <3>. QED  BY <3>2, <3>3 DEF EndsWidth
  <2>. QED  BY <2>1, <2>2
<1>5. PBehindWidth(width, rest, e) \/ (PFlagged(flag, width, length, rest, e)' /\ PQuiet)
  <2>1. PFlagged(flag, width, length, rest, e)
    BY <1>1, <1>3
  <2>. QED  BY <1>2, <1>4, <2>1, PFlaggedStep
<1>6. CASE PFlagged(flag, width, length, rest, e)' /\ PQuiet
  <2>1. call' = call
    BY <1>6 DEF PQuiet
  <2>2. e = Len(call'.fmt)
    BY <1>3, <2>1
  <2>3. PFlagged(flag, width, length, rest, Len(call.fmt))'
    BY <1>6, <2>2 DEF PFlagged, PAtWidth, PInWidth, PAtLength
  <2>. QED  BY <1>1, <1>6, <2>3 DEF PAtTail, PQuiet, Counted
<1>7. CASE PBehindWidth(width, rest, e)
  <2>1. ppc = "spec" /\ Ahead(call.fmt, pfp, rest, e)
    BY <1>7 DEF PBehindWidth
  <2>2. P!cur \notin {"%", "l", "z", "0", "d", "i", "u", "x", "p", "s"}
    <3>1. CASE rest = << >>
      <4>1. P!cur = NUL
        BY <1>3, <2>1, <3>1, PNoNext
      <4>2. NUL \notin {"%", "l", "z", "0", "d", "i", "u", "x", "p", "s"}
        BY DEF NUL
      <4>. QED  BY <4>1, <4>2
    <3>2. CASE rest # << >>
      <4>1. P!cur = rest[1]
        BY <1>2, <1>3, <2>1, <3>2, PNextOf
      <4>. QED  BY <1>2, <3>2, <4>1 DEF Unknown
    <3>. QED  BY <3>1, <3>2
  <2>3. P!Other
    BY <2>1, <2>2, PStepOfSpec
  <2>4. ppc' = "returned" /\ result' = -1 /\ printed' = printed
    BY <2>3 DEF P!Other
  <2>. QED  BY <2>4 DEF PAtTail, PRejected
<1>. QED  BY <1>5, <1>6, <1>7

\* the step into it
LEMMA PRefuseStep ==
  ASSUME IInv, PTypes, P!Next, ppc = "text", NEW o, NEW u, printed = o, Counted(u),
         NEW tail, Refused(tail), Ahead(call.fmt, pfp, tail, Len(call.fmt))
  PROVE  PAtTail(o, u)'
<1>1. PICK flag \in {"none", "0"}, width \in Nat, length \in Lengths \cap Seq(Char),
           rest \in Seq(Char) :
             /\ (flag = "none" => width = 0) /\ Unknown(flag, rest)
             /\ tail = <<"%">> \o (FieldChars(flag, width) \o (length \o rest))
  BY DEF Refused
<1>. DEFINE t == length \o rest
            f == FieldChars(flag, width)
            z == WidthChars(flag, width)
            e == Len(call.fmt)
<1>2. PRefusing(flag, width, length, rest)
  BY <1>1 DEF PRefusing, PField
<1>3. f = z
  BY <1>1 DEF WidthChars
<1>4. t \in Seq(Char) /\ z \in Seq(Char)
  <2>1. t \in Seq(Char)
    BY <1>1, Concat
  <2>2. flag \in {"none", "0", "-"} /\ width \in Nat
    BY <1>1
  <2>3. z \in Seq(DecimalDigits)
    BY <2>2, WidthCharsAre
  <2>. HIDE DEF z, t
  <2>. QED  BY <2>1, <2>3, DigitsAndLetters
<1>5. e \in Nat
  BY FmtFacts
<1>6. Ahead(call.fmt, pfp, <<"%">> \o (f \o t), e)
  BY <1>1
<1>. HIDE DEF f, z, t, e
<1>7. f \o t \in Seq(Char)
  BY <1>3, <1>4, Concat
<1>8. ppc' = "spec" /\ padn' = 0 /\ PQuiet /\ Ahead(call.fmt', pfp', f \o t, e)
  BY <1>5, <1>6, <1>7, PPercentStep
<1>9. e = Len(call'.fmt)
  BY <1>8 DEF PQuiet, e
<1>10. PFlagged(flag, width, length, rest, Len(call.fmt))'
  BY <1>3, <1>8, <1>9 DEF PFlagged, PAtWidth, t, z
<1>. QED  BY <1>2, <1>8, <1>10 DEF PAtTail, PQuiet, Counted
-----------------------------------------------------------------------------
(* What is printed is what is described                                    *)

\* k parts have been printed, with so many characters past the counter
Past(ps, k) == Len(Upto(Signs(ps))[k])
PBetween(ps, k) ==
  /\ ppc = "text" /\ pfp = FmtEnd(ps, k) + 1 /\ pap = ArgEnd(ps, k) + 1
  /\ printed = Upto(Docs(ps))[k] /\ Counted(Past(ps, k))
PWithin(ps, k) ==
  PInside(ps[k + 1], FmtEnd(ps, k + 1), ArgEnd(ps, k) + 1, Upto(Docs(ps))[k], Past(ps, k))
PFinished(ps) ==
  /\ ppc = "returned" /\ printed = Joined(Docs(ps)) /\ result \in Nat
  /\ result + Len(Joined(Signs(ps))) = Len(printed)
PWalk(ps) ==
  \/ \E k \in 0 .. Len(ps) : PBetween(ps, k)
  \/ \E k \in 0 .. Len(ps) - 1 : PWithin(ps, k)
  \/ call.bad /\ PAtTail(Joined(Docs(ps)), Past(ps, Len(ps)))
  \/ call.bad /\ PRejected(Joined(Docs(ps)))
  \/ ~ call.bad /\ PFinished(ps)

\* the call, the parts it is made of and what is behind them
LEMMA PMadeIs ==
  ASSUME NEW ps, NEW tail, PrintfMade(ps, tail, call)
  PROVE  /\ SoundParts(ps) /\ \A k \in 0 .. Len(ps) - 1 : PrintfPart(ps[k + 1])
         /\ tail \in Seq(Char) /\ call.fmt = Joined(Fmts(ps)) \o tail
         /\ \E more \in Seq(Values) : call.args = Joined(Args(ps)) \o more
         /\ call.printed = Joined(Docs(ps))
         /\ Len(ps) \in Nat
         /\ IF call.bad THEN Refused(tail) ELSE tail = << >>
<1>1. Len(ps) \in Nat /\ \A i \in 1 .. Len(ps) : PrintfPart(ps[i])
  BY DEF PrintfMade
<1>2. SoundParts(ps)
  BY <1>1, PartIs DEF SoundParts
<1>3. \A k \in 0 .. Len(ps) - 1 : k + 1 \in 1 .. Len(ps)
  BY <1>1
<1>4. /\ call.fmt = Joined(Fmts(ps)) \o tail
      /\ \E more \in Seq(Values) : call.args = Joined(Args(ps)) \o more
      /\ call.printed = Joined(Docs(ps))
      /\ IF call.bad THEN Refused(tail) ELSE tail = << >>
  BY DEF PrintfMade, Values
<1>5. tail \in Seq(Char)
  <2>1. CASE tail = << >>
    BY <2>1
  <2>2. CASE Refused(tail)
    <3>1. PICK flag \in {"none", "0"}, width \in Nat, length \in Lengths \cap Seq(Char),
               rest \in Seq(Char) :
                 tail = <<"%">> \o (FieldChars(flag, width) \o (length \o rest))
      BY <2>2 DEF Refused
    <3>. DEFINE f == FieldChars(flag, width)
                z == WidthChars(flag, width)
                t == length \o rest
    <3>2. f = z
      BY DEF WidthChars
    <3>3. flag \in {"none", "0", "-"} /\ width \in Nat
      OBVIOUS
    <3>4. z \in Seq(DecimalDigits)
      BY <3>3, WidthCharsAre
    <3>5. t \in Seq(Char)
      BY Concat
    <3>6. <<"%">> \in Seq(Char)
      BY ShortTexts
    <3>7. tail = <<"%">> \o (f \o t)
      BY <3>1
    <3>. HIDE DEF f, z, t
    <3>8. f \in Seq(Char)
      BY <3>2, <3>4, DigitsAndLetters
    <3>9. f \o t \in Seq(Char)
      BY <3>5, <3>8, Concat
    <3>. QED  BY <3>6, <3>7, <3>9, Concat
  <2>. QED  BY <1>4, <2>1, <2>2
<1>. QED  BY <1>1, <1>2, <1>3, <1>4, <1>5

\* what is known of part k + 1
LEMMA PPartPlaces ==
  ASSUME NEW ps, NEW tail, PrintfMade(ps, tail, call), NEW k \in 0 .. Len(ps) - 1
  PROVE  /\ PrintfPart(ps[k + 1])
         /\ FmtEnd(ps, k) \in Nat /\ FmtEnd(ps, k + 1) \in Nat
         /\ Ahead(call.fmt, FmtEnd(ps, k) + 1, ps[k + 1].fmt, FmtEnd(ps, k + 1))
         /\ ArgEnd(ps, k) \in Nat /\ Len(ps[k + 1].args) \in Nat
         /\ ArgEnd(ps, k + 1) + 1 = (ArgEnd(ps, k) + 1) + Len(ps[k + 1].args)
         /\ Holds(call.args, ArgEnd(ps, k), ps[k + 1].args)
         /\ Upto(Docs(ps))[k] \in Seq(Bytes)
         /\ Upto(Docs(ps))[k + 1] = Upto(Docs(ps))[k] \o ps[k + 1].doc
         /\ Past(ps, k) \in Nat /\ Past(ps, k + 1) = Past(ps, k) + Len(ps[k + 1].signs)
<1>1. /\ SoundParts(ps) /\ PrintfPart(ps[k + 1]) /\ tail \in Seq(Char)
      /\ call.fmt = Joined(Fmts(ps)) \o tail
      /\ \E more \in Seq(Values) : call.args = Joined(Args(ps)) \o more
  BY PMadeIs
<1>2. PICK more \in Seq(Values) : call.args = Joined(Args(ps)) \o more
  BY <1>1
<1>3. /\ FmtEnd(ps, k) \in Nat /\ FmtEnd(ps, k + 1) \in Nat
      /\ Ahead(call.fmt, FmtEnd(ps, k) + 1, ps[k + 1].fmt, FmtEnd(ps, k + 1))
  BY <1>1, FmtPlaces
<1>4. /\ ArgEnd(ps, k) \in Nat /\ ArgEnd(ps, k + 1) \in Nat
      /\ ArgEnd(ps, k + 1) = ArgEnd(ps, k) + Len(ps[k + 1].args)
      /\ Holds(call.args, ArgEnd(ps, k), ps[k + 1].args)
  BY <1>1, <1>2, ArgPlaces
<1>. DEFINE d == Docs(ps)
            un == Signs(ps)
            m == Len(ps[k + 1].args)
            x == ArgEnd(ps, k)
<1>5. AllSeqs(Bytes, d) /\ AllSeqs(Bytes, un) /\ k \in 0 .. Len(d) - 1 /\ k \in 0 .. Len(un) - 1
  BY <1>1, FieldsOf
<1>6. k + 1 \in 1 .. Len(ps)
  BY <1>1 DEF SoundParts
<1>7. d[k + 1] = ps[k + 1].doc /\ un[k + 1] = ps[k + 1].signs
  BY <1>6 DEF Docs, Signs
<1>. HIDE DEF d, un
<1>8. Upto(d)[k] \in Seq(Bytes) /\ Upto(d)[k + 1] = Upto(d)[k] \o d[k + 1]
  BY <1>5, OutputGrows
<1>9. /\ Upto(un)[k] \in Seq(Bytes) /\ Upto(un)[k + 1] = Upto(un)[k] \o un[k + 1]
      /\ un[k + 1] \in Seq(Bytes)
  BY <1>5, OutputGrows
<1>10. Past(ps, k) \in Nat /\ Past(ps, k + 1) = Past(ps, k) + Len(un[k + 1])
  <2>. DEFINE y == Upto(un)[k]
              z == un[k + 1]
              w == Upto(un)[k + 1]
  <2>1. y \in Seq(Bytes) /\ z \in Seq(Bytes) /\ w = y \o z
    BY <1>9
  <2>2. Past(ps, k) = Len(y) /\ Past(ps, k + 1) = Len(w)
    BY DEF Past, un
  <2>. HIDE DEF y, z, w
  <2>3. Len(w) = Len(y) + Len(z) /\ Len(y) \in Nat
    BY <2>1, Concat
  <2>. QED  BY <2>2, <2>3 DEF z
<1>11. m \in Nat
  <2>1. ps[k + 1].args \in Seq(Values)
    BY <1>1, <1>6 DEF SoundParts, Sound
  <2>. QED  BY <2>1
<1>12. ArgEnd(ps, k + 1) + 1 = (x + 1) + m
  <2>. HIDE DEF m, x
  <2>1. x \in Nat /\ ArgEnd(ps, k + 1) = x + m
    BY <1>4 DEF x, m
  <2>. QED  BY <1>11, <2>1
<1>. QED  BY <1>1, <1>3, <1>4, <1>7, <1>8, <1>10, <1>11, <1>12 DEF d

\* behind part k + 1 so many parts have been printed
LEMMA PBehindIsBetween ==
  ASSUME NEW ps, NEW tail, PrintfMade(ps, tail, call), NEW k \in 0 .. Len(ps) - 1,
         PBehind(ps[k + 1], FmtEnd(ps, k + 1), ArgEnd(ps, k) + 1, Upto(Docs(ps))[k],
                 Past(ps, k))'
  PROVE  PWalk(ps)'
<1>1. /\ ArgEnd(ps, k + 1) + 1 = (ArgEnd(ps, k) + 1) + Len(ps[k + 1].args)
      /\ Upto(Docs(ps))[k + 1] = Upto(Docs(ps))[k] \o ps[k + 1].doc
      /\ Past(ps, k + 1) = Past(ps, k) + Len(ps[k + 1].signs)
  BY PPartPlaces
<1>2. PBetween(ps, k + 1)'
  BY <1>1 DEF PBehind, PBetween, Counted
<1>. DEFINE m == k + 1
<1>3. m \in 0 .. Len(ps)
  BY PMadeIs
<1>4. PBetween(ps, m)'
  BY <1>2
<1>. HIDE DEF m
<1>. QED  BY <1>3, <1>4 DEF PWalk

\* a step behind the last part
LEMMA PLastStep ==
  ASSUME IInv, PTypes, P!Next, NEW ps, NEW tail, PrintfMade(ps, tail, call),
         PBetween(ps, Len(ps)), call' = call
  PROVE  PWalk(ps)'
<1>. DEFINE N == Len(ps)
            j == Joined(Fmts(ps))
<1>1. /\ SoundParts(ps) /\ tail \in Seq(Char) /\ call.fmt = j \o tail
      /\ IF call.bad THEN Refused(tail) ELSE tail = << >>
  BY PMadeIs
<1>2. /\ j \in Seq(Char) /\ FmtEnd(ps, N) = Len(j)
      /\ Upto(Docs(ps))[N] = Joined(Docs(ps))
      /\ Upto(Signs(ps))[N] = Joined(Signs(ps))
  BY <1>1, FirstAndLast
<1>3. /\ ppc = "text" /\ pfp = Len(j) + 1 /\ printed = Joined(Docs(ps))
      /\ Counted(Past(ps, N))
  BY <1>2 DEF PBetween
<1>4. Past(ps, N) = Len(Joined(Signs(ps)))
  BY <1>2 DEF Past
<1>. HIDE DEF N, j
<1>5. /\ Len(call.fmt) = Len(j) + Len(tail) /\ Len(j) \in Nat /\ Len(tail) \in Nat
      /\ \A i \in 1 .. Len(tail) : call.fmt[Len(j) + i] = tail[i]
  BY <1>1, <1>2, Concat
<1>6. CASE call.bad
  <2>1. Ahead(call.fmt, pfp, tail, Len(call.fmt))
    <3>. DEFINE x == Len(j)
                m == Len(tail)
                l == Len(call.fmt)
    <3>1. /\ x \in Nat /\ m \in Nat /\ l = x + m /\ pfp = x + 1
          /\ \A i \in 1 .. m : call.fmt[x + i] = tail[i]
      BY <1>3, <1>5
    <3>. HIDE DEF x, m, l
    <3>2. pfp \in Nat \ {0} /\ pfp + m = l + 1 /\ l <= l
      BY <3>1
    <3>3. ASSUME NEW i \in 1 .. m PROVE call.fmt[pfp + i - 1] = tail[i]
      <4>1. pfp + i - 1 = x + i
        BY <3>1
      <4>. QED  BY <3>1, <4>1
    <3>. QED  BY <1>1, <3>2, <3>3 DEF Ahead, m, l
  <2>. DEFINE o == Joined(Docs(ps))
              u == Past(ps, N)
  <2>2. Refused(tail) /\ printed = o /\ Counted(u) /\ ppc = "text"
    BY <1>1, <1>3, <1>6
  <2>. HIDE DEF o, u
  <2>3. PAtTail(o, u)'
    BY <2>1, <2>2, PRefuseStep
  <2>. QED  BY <1>6, <2>3 DEF PWalk, o, u, N
<1>7. CASE ~ call.bad
  <2>1. tail = << >> /\ Len(<< >>) = 0
    BY <1>1, <1>7
  <2>2. P!cur = NUL
    <3>1. ~ (pfp <= Len(call.fmt))
      <4>. DEFINE x == Len(j)
                  l == Len(call.fmt)
      <4>1. x \in Nat /\ l = x + 0 /\ pfp = x + 1
        BY <1>3, <1>5, <2>1
      <4>. HIDE DEF x, l
      <4>2. ~ (pfp <= l)
        BY <4>1
      <4>. QED  BY <4>2 DEF l
    <3>. QED  BY <3>1, PSame DEF P!cur
  <2>3. P!End
    BY <1>3, <2>2, PStepElsewhere, PSame DEF P!Text, P!Percent, NUL
  <2>4. ppc' = "returned" /\ result' = count /\ printed' = printed
    BY <2>3 DEF P!End
  <2>5. count \in Nat
    BY PKnown
  <2>6. PFinished(ps)'
    BY <1>3, <1>4, <2>4, <2>5 DEF PFinished, Counted
  <2>. QED  BY <1>7, <2>6 DEF PWalk
<1>. QED  BY <1>6, <1>7

\* The walk goes on: a step leads from one place of it to the next.
LEMMA PWalkStep ==
  ASSUME IInv, PTypes, P!Next, call' = call, NEW ps, NEW tail, PrintfMade(ps, tail, call),
         PWalk(ps)
  PROVE  PWalk(ps)'
<1>1. CASE \E k \in 0 .. Len(ps) : PBetween(ps, k)
  <2>1. PICK k \in 0 .. Len(ps) : PBetween(ps, k)
    BY <1>1
  <2>2. CASE k = Len(ps)
    BY <2>1, <2>2, PLastStep
  <2>3. CASE k # Len(ps)
    <3>1. k \in 0 .. Len(ps) - 1
      BY <2>3, PMadeIs
    <3>. DEFINE p == ps[k + 1]
                e == FmtEnd(ps, k + 1)
                a == ArgEnd(ps, k) + 1
                o == Upto(Docs(ps))[k]
                u == Past(ps, k)
    <3>2. /\ PrintfPart(p) /\ e \in Nat /\ a \in Nat /\ u \in Nat
          /\ Ahead(call.fmt, FmtEnd(ps, k) + 1, p.fmt, e)
      <4>1. /\ PrintfPart(ps[k + 1]) /\ FmtEnd(ps, k + 1) \in Nat
            /\ Ahead(call.fmt, FmtEnd(ps, k) + 1, ps[k + 1].fmt, FmtEnd(ps, k + 1))
            /\ ArgEnd(ps, k) \in Nat /\ Past(ps, k) \in Nat
        BY <3>1, PPartPlaces
      <4>. QED  BY <4>1
    <3>3. Ahead(call.fmt, pfp, p.fmt, e) /\ pap = a /\ printed = o /\ Counted(u) /\ ppc = "text"
      BY <2>1, <3>2 DEF PBetween
    <3>. HIDE DEF p, e, a, o, u
    <3>4. PInside(p, e, a, o, u)' \/ PBehind(p, e, a, o, u)'
      BY <3>2, <3>3, PBeginStep
    <3>5. CASE PInside(p, e, a, o, u)'
      <4>1. PWithin(ps, k)'
        BY <3>5 DEF PWithin, p, e, a, o, u
      <4>. QED  BY <3>1, <4>1 DEF PWalk
    <3>6. CASE PBehind(p, e, a, o, u)'
      BY <3>1, <3>6, PBehindIsBetween DEF p, e, a, o, u
    <3>. QED  BY <3>4, <3>5, <3>6
  <2>. QED  BY <2>2, <2>3
<1>2. CASE \E k \in 0 .. Len(ps) - 1 : PWithin(ps, k)
  <2>1. PICK k \in 0 .. Len(ps) - 1 : PWithin(ps, k)
    BY <1>2
  <2>. DEFINE p == ps[k + 1]
              e == FmtEnd(ps, k + 1)
              x == ArgEnd(ps, k)
              a == x + 1
              o == Upto(Docs(ps))[k]
              u == Past(ps, k)
  <2>2. /\ e \in Nat /\ x \in Nat /\ o \in Seq(Bytes) /\ Holds(call.args, x, p.args)
        /\ u \in Nat
    BY PPartPlaces
  <2>3. PInside(p, e, a, o, u)
    BY <2>1 DEF PWithin
  <2>. HIDE DEF p, e, x, o, u
  <2>4. a \in Nat /\ a = x + 1
    BY <2>2
  <2>. HIDE DEF a
  <2>5. PInside(p, e, a, o, u)' \/ PBehind(p, e, a, o, u)'
    BY <2>2, <2>3, <2>4, PInsideStep
  <2>6. CASE PInside(p, e, a, o, u)'
    <3>1. PWithin(ps, k)'
      BY <2>6 DEF PWithin, p, e, a, x, o, u
    <3>. QED  BY <3>1 DEF PWalk
  <2>7. CASE PBehind(p, e, a, o, u)'
    BY <2>7, PBehindIsBetween DEF p, e, a, x, o, u
  <2>. QED  BY <2>5, <2>6, <2>7
<1>3. CASE call.bad /\ PAtTail(Joined(Docs(ps)), Past(ps, Len(ps)))
  <2>. DEFINE o == Joined(Docs(ps))
              u == Past(ps, Len(ps))
  <2>1. PAtTail(o, u)
    BY <1>3
  <2>. HIDE DEF o, u
  <2>2. PAtTail(o, u)' \/ PRejected(o)'
    BY <2>1, PTailStep
  <2>. QED  BY <1>3, <2>2 DEF PWalk, o, u
<1>4. CASE call.bad /\ PRejected(Joined(Docs(ps)))
  <2>1. UNCHANGED P!vars
    BY <1>4, PStepElsewhere DEF PRejected
  <2>2. PRejected(Joined(Docs(ps)))'
    BY <1>4, <2>1 DEF PRejected, P!vars
  <2>. QED  BY <1>4, <2>2 DEF PWalk
<1>5. CASE ~ call.bad /\ PFinished(ps)
  <2>1. UNCHANGED P!vars
    BY <1>5, PStepElsewhere DEF PFinished
  <2>2. PFinished(ps)'
    BY <1>5, <2>1 DEF PFinished, P!vars
  <2>. QED  BY <1>5, <2>2 DEF PWalk
<1>. QED  BY <1>1, <1>2, <1>3, <1>4, <1>5 DEF PWalk

\* and nothing else disturbs it
LEMMA PWalkStutters ==
  ASSUME UNCHANGED pvars, UNCHANGED call, NEW ps, PWalk(ps)
  PROVE  PWalk(ps)'
<1>1. /\ ppc' = ppc /\ call' = call /\ pfp' = pfp /\ pap' = pap /\ padc' = padc
      /\ padn' = padn /\ pnum' = pnum /\ printed' = printed /\ count' = count
      /\ result' = result
  BY DEF pvars
<1>2. ASSUME NEW flag, NEW width, NEW length, NEW rest, NEW e,
             PFlagged(flag, width, length, rest, e)
      PROVE  PFlagged(flag, width, length, rest, e)'
  BY <1>1, <1>2 DEF PFlagged, PAtWidth, PInWidth, PAtLength
<1>3. ASSUME NEW u, Counted(u) PROVE Counted(u)'
  BY <1>1, <1>3 DEF Counted
<1>4. ASSUME NEW c, NEW v, NEW e, NEW o, PInNumber(c, v, e, o) PROVE PInNumber(c, v, e, o)'
  BY <1>1, <1>4 DEF PInNumber
<1>5. ASSUME NEW p, NEW e, NEW a, NEW o, NEW u, PInside(p, e, a, o, u)
      PROVE  PInside(p, e, a, o, u)'
  <2>1. CASE /\ p = TwoPercent /\ ppc = "spec" /\ Ahead(call.fmt, pfp, <<"%">>, e)
             /\ pap = a /\ printed = o /\ Counted(u)
    BY <1>1, <1>3, <2>1 DEF PInside
  <2>2. CASE \E flag, width, length, c, v :
               /\ PConverted(flag, width, length, c, v, p)
               /\ PInConversion(flag, width, length, c, v, p, e, a, o, u)
    <3>1. PICK flag, width, length, c, v :
               /\ PConverted(flag, width, length, c, v, p)
               /\ PInConversion(flag, width, length, c, v, p, e, a, o, u)
      BY <2>2
    <3>2. PInConversion(flag, width, length, c, v, p, e, a, o, u)'
      BY <1>1, <1>2, <1>3, <1>4, <3>1 DEF PInConversion
    <3>. QED  BY <3>1, <3>2 DEF PInside
  <2>. QED  BY <1>5, <2>1, <2>2 DEF PInside
<1>6. CASE \E k \in 0 .. Len(ps) : PBetween(ps, k)
  BY <1>1, <1>3, <1>6 DEF PBetween, PWalk
<1>7. CASE \E k \in 0 .. Len(ps) - 1 : PWithin(ps, k)
  BY <1>5, <1>7 DEF PWithin, PWalk
<1>8. CASE call.bad /\ PAtTail(Joined(Docs(ps)), Past(ps, Len(ps)))
  <2>1. PICK flag, width, length, rest : /\ PRefusing(flag, width, length, rest)
                                         /\ PFlagged(flag, width, length, rest, Len(call.fmt))
    BY <1>8 DEF PAtTail
  <2>2. PFlagged(flag, width, length, rest, Len(call.fmt))'
    BY <1>1, <2>1 DEF PFlagged, PAtWidth, PInWidth, PAtLength
  <2>3. PAtTail(Joined(Docs(ps)), Past(ps, Len(ps)))'
    BY <1>1, <1>3, <1>8, <2>1, <2>2 DEF PAtTail
  <2>. QED  BY <1>1, <1>8, <2>3 DEF PWalk
<1>9. CASE call.bad /\ PRejected(Joined(Docs(ps)))
  BY <1>1, <1>9 DEF PRejected, PWalk
<1>10. CASE ~ call.bad /\ PFinished(ps)
  BY <1>1, <1>10 DEF PFinished, PWalk
<1>. QED  BY <1>6, <1>7, <1>8, <1>9, <1>10 DEF PWalk

\* both invariants of the walk
PWalks == \A ps, tail : PrintfMade(ps, tail, call) => PWalk(ps)

LEMMA PWalksInv ==
  /\ FInit => PWalks
  /\ IInv /\ PTypes /\ PWalks /\ [FNext]_<<vars, pvars>> => PWalks'
<1>1. FInit => PWalks
  <2>. SUFFICES ASSUME FInit, NEW ps, NEW tail, PrintfMade(ps, tail, call) PROVE PWalk(ps)
    BY DEF PWalks
  <2>1. SoundParts(ps) /\ Len(ps) \in Nat
    BY PMadeIs
  <2>2. /\ FmtEnd(ps, 0) = 0 /\ ArgEnd(ps, 0) = 0 /\ Upto(Docs(ps))[0] = << >>
        /\ Upto(Signs(ps))[0] = << >>
    BY <2>1, FirstAndLast
  <2>3. Len(<< >>) = 0 /\ 0 + 0 = 0 /\ 0 + 1 = 1
    OBVIOUS
  <2>4. PBetween(ps, 0)
    BY <2>2, <2>3 DEF FInit, P!Start, PBetween, Past, Counted
  <2>5. 0 \in 0 .. Len(ps)
    BY <2>1
  <2>. QED  BY <2>4, <2>5 DEF PWalk
<1>2. ASSUME IInv, PTypes, PWalks, [FNext]_<<vars, pvars>> PROVE PWalks'
  <2>1. call' = call /\ (P!Next \/ UNCHANGED pvars)
    <3>1. CASE P!Next /\ UNCHANGED vars
      BY <3>1 DEF vars
    <3>2. CASE Next /\ UNCHANGED pvars
      BY <3>2, CallStays
    <3>3. CASE UNCHANGED <<vars, pvars>>
      BY <3>3 DEF vars
    <3>. QED  BY <1>2, <3>1, <3>2, <3>3 DEF FNext
  <2>2. ASSUME NEW ps, NEW tail, PrintfMade(ps, tail, call) PROVE PWalk(ps)'
    <3>1. PWalk(ps)
      BY <1>2, <2>2 DEF PWalks
    <3>. QED  BY <1>2, <2>1, <2>2, <3>1, PWalkStep, PWalkStutters
  <2>. QED  BY <2>1, <2>2 DEF PWalks
<1>. QED  BY <1>1, <1>2

\* Every call of printf made of parts which the comment above vprintf describes, whatever
\* their number, widths, length modifiers, numbers and strings, prints what the comment
\* says; with a conversion it does not know behind them it prints those parts and returns
\* -1, without one it does not: OutputAsDocumented of Printf.
THEOREM DocumentedPrinting ==
  FSpec => [](PrintfDescribed(call) => PrintedAsDocumented)
<1>1. FInit => IInv /\ PTypes /\ PWalks
  BY FInitInv, PWalksInv
<1>2. IInv /\ PTypes /\ PWalks /\ [FNext]_<<vars, pvars>> => IInv' /\ PTypes' /\ PWalks'
  BY BothKeep, PWalksInv
<1>3. IInv /\ PTypes /\ PWalks => (PrintfDescribed(call) => PrintedAsDocumented)
  <2>. SUFFICES ASSUME PWalks, NEW ps, NEW tail, PrintfMade(ps, tail, call), ppc = "returned"
                PROVE  printed = call.printed /\ (result = -1 <=> call.bad)
    BY DEF PrintfDescribed, PrintedAsDocumented, P!OutputAsDocumented
  <2>1. \/ call.bad /\ PRejected(Joined(Docs(ps)))
        \/ ~ call.bad /\ PFinished(ps)
    BY DEF PWalks, PWalk, PBetween, PWithin, PInside, PInConversion, PFlagged, PAtWidth,
       PInWidth, PAtLength, PInNumber, PAtTail
  <2>2. call.printed = Joined(Docs(ps))
    BY PMadeIs
  <2>3. \A m \in Nat : m # -1
    OBVIOUS
  <2>. QED  BY <2>1, <2>2, <2>3 DEF PRejected, PFinished
<1>. QED  BY <1>1, <1>2, <1>3, PTL DEF FSpec

\* What printf returns for such a call is the "Number of printed characters" of its comment
\* if there is neither a %% nor a negative number among the parts: CountsPrinted of Printf,
\* which the others break.
THEOREM CountingWithoutSigns ==
  FSpec => [](PrintfSignless(call) => CountsPrinted)
<1>1. FInit => IInv /\ PTypes /\ PWalks
  BY FInitInv, PWalksInv
<1>2. IInv /\ PTypes /\ PWalks /\ [FNext]_<<vars, pvars>> => IInv' /\ PTypes' /\ PWalks'
  BY BothKeep, PWalksInv
<1>3. IInv /\ PTypes /\ PWalks => (PrintfSignless(call) => CountsPrinted)
  <2>. SUFFICES ASSUME PWalks, NEW ps, NEW tail, PrintfMade(ps, tail, call), ppc = "returned",
                       Joined(Signs(ps)) = << >>, result # -1
                PROVE  result = Len(printed)
    BY DEF PrintfSignless, CountsPrinted, P!CountsPrinted
  <2>1. \/ call.bad /\ PRejected(Joined(Docs(ps)))
        \/ ~ call.bad /\ PFinished(ps)
    BY DEF PWalks, PWalk, PBetween, PWithin, PInside, PInConversion, PFlagged, PAtWidth,
       PInWidth, PAtLength, PInNumber, PAtTail
  <2>2. Len(<< >>) = 0
    OBVIOUS
  <2>3. result + 0 = Len(printed) /\ result \in Nat
    BY <2>1, <2>2 DEF PRejected, PFinished
  <2>. QED  BY <2>3
<1>. QED  BY <1>1, <1>2, <1>3, PTL DEF FSpec
=============================================================================
