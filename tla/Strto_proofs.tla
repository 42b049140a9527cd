---------------------------- MODULE Strto_proofs ----------------------------
(* Theorems about Strto, for words of any even number of values, both signed  *)
(* and unsigned, and any strings.                                             *)
EXTENDS Strto, WellFoundedInduction, TLAPS

\* what is known before and after the loop over the digits
Outside ==
  /\ phase \in {"space", "prefix"} => acc = 0 /\ any = 0 /\ exact = 0
  /\ phase \in {"digits", "returned"} => base # 0

\* The inductive invariant: NoWrap holds in the loop only, so it needs the values the
\* loop begins with, and Saturates follows from it when the loop is left.
IInv == StrtoTypeOK /\ Outside /\ NoWrap /\ Saturates

\* division with remainder
LEMMA DivMod ==
  ASSUME NEW l \in Nat, NEW b \in 2 .. 36
  PROVE  /\ l \div b \in Nat /\ l % b \in 0 .. b - 1
         /\ l = (l \div b) * b + (l % b)
  OBVIOUS

\* What cutoff and cutlim decide: whether a number with one more digit is still
\* within the limit.
LEMMA Cutoff ==
  ASSUME NEW l \in Nat, NEW b \in 2 .. 36, NEW a \in Nat, NEW d \in 0 .. b - 1
  PROVE  (a > l \div b \/ (a = l \div b /\ d > l % b)) <=> a * b + d > l
<1>. DEFINE q == l \div b
            r == l % b
<1>1. q \in Nat /\ r \in 0 .. b - 1 /\ l = q * b + r
  BY DivMod
<1>. HIDE DEF q, r
<1>2. CASE a > q
  <2>1. a * b >= (q + 1) * b
    BY <1>1, <1>2
  <2>. QED  BY <1>1, <1>2, <2>1
<1>3. CASE a = q
  BY <1>1, <1>3
<1>4. CASE a < q
  <2>1. (a + 1) * b <= q * b
    BY <1>1, <1>4
  <2>. QED  BY <1>1, <1>4, <2>1
<1>5. (a > q \/ (a = q /\ d > r)) <=> a * b + d > l
  BY <1>1, <1>2, <1>3, <1>4
<1>. QED  BY <1>5 DEF q, r

\* the range of the accepted numbers
LEMMA LimitFacts ==
  ASSUME StrtoTypeOK
  PROVE  /\ Limit \in Nat /\ Limit < Span /\ Span \in Nat \ {0} /\ Half \in Nat \ {0}
         /\ MaxValue \in Nat /\ MinValue \in Int
BY SpanAssumption DEF StrtoTypeOK, Limit, MaxValue, MinValue, Span, Signed

\* a character that is in a table has a place there
LEMMA PlaceIn ==
  ASSUME NEW table, NEW c \in In(table)
  PROVE  Place(table, c) \in DOMAIN table
<1>1. \E i \in DOMAIN table : table[i] = c
  BY DEF In
<1>. QED  BY <1>1 DEF Place

\* a character is a digit of a base, or it is above every base
LEMMA DigitFacts ==
  ASSUME NEW c
  PROVE  Digit(c) \in 0 .. 99 /\ (c \notin DOMAIN ValueOf => Digit(c) = 99)
<1>1. CASE c \in DOMAIN ValueOf
  <2>1. /\ c \in In(Decimal) \/ c \in In(Capital) \/ c \in In(Small)
        /\ ValueOf[c] = CASE c \in In(Decimal) -> Place(Decimal, c) - 1
                          [] c \in In(Capital) -> Place(Capital, c) + 9
                          [] OTHER            -> Place(Small, c) + 9
    BY <1>1 DEF ValueOf
  <2>2. c \in In(Decimal) => Place(Decimal, c) \in 1 .. 10
    <3>1. DOMAIN Decimal = 1 .. 10
      BY DEF Decimal
    <3>. QED  BY <3>1, PlaceIn
  <2>3. c \in In(Capital) => Place(Capital, c) \in 1 .. 26
    <3>1. DOMAIN Capital = 1 .. 26
      BY DEF Capital
    <3>. QED  BY <3>1, PlaceIn
  <2>4. c \in In(Small) => Place(Small, c) \in 1 .. 26
    <3>1. DOMAIN Small = 1 .. 26
      BY DEF Small
    <3>. QED  BY <3>1, PlaceIn
  <2>5. ValueOf[c] \in 0 .. 99
    BY <2>1, <2>2, <2>3, <2>4
  <2>. QED  BY <1>1, <2>5 DEF Digit
<1>2. CASE c \notin DOMAIN ValueOf
  BY <1>2 DEF Digit, NotDigit
<1>. QED  BY <1>1, <1>2

\* a character of the string is not past its end
LEMMA InsideString ==
  ASSUME StrtoTypeOK, NEW p \in Nat \ {0}, at(p) \in Spaces \cup {"-", "+"} \/ Digit(at(p)) < 99
  PROVE  p <= Len(in.str)
<1>1. "NUL" \notin DOMAIN ValueOf
  <2>1. "NUL" \notin In(Decimal)
    BY DEF In, Decimal
  <2>2. "NUL" \notin In(Capital)
    BY DEF In, Capital
  <2>3. "NUL" \notin In(Small)
    BY DEF In, Small
  <2>. QED  BY <2>1, <2>2, <2>3 DEF ValueOf
<1>2. Digit("NUL") = 99
  BY <1>1, DigitFacts
<1>3. Len(in.str) \in Nat
  BY InputsAssumption DEF StrtoTypeOK
<1>4. at(p) # "NUL"
  <2>. SUFFICES ASSUME at(p) = "NUL"
                PROVE  FALSE
    OBVIOUS
  <2>1. Digit(at(p)) = 99
    BY <1>2
  <2>2. at(p) \notin Spaces \cup {"-", "+"}
    BY DEF Spaces
  <2>. QED  BY <2>1, <2>2
<1>. QED  BY <1>3, <1>4 DEF at

(* The start of a conversion (strtol.c 48-60) satisfies the invariant.     *)
THEOREM InitIInv == NumberInit => IInv
<1>. SUFFICES ASSUME NumberInit
              PROVE  IInv
  OBVIOUS
<1>1. in.str \in Seq(STRING) /\ in.base \in {0} \cup 2 .. 36
  BY InputsAssumption DEF NumberInit
<1>2. StrtoTypeOK
  BY <1>1, SpanAssumption DEF NumberInit, StrtoTypeOK, MinValue, MaxValue, Span, Signed
<1>. QED  BY <1>2 DEF NumberInit, IInv, Outside, NoWrap, Saturates

\* the digits read before an overflow is noticed, and after
LEMMA ReadDigitIInv ==
  ASSUME IInv, ReadDigit
  PROVE  IInv'
<1>. DEFINE d == Digit(at(pos))
<1>0. StrtoTypeOK /\ Outside /\ NoWrap /\ phase = "digits" /\ d < base
  BY DEF IInv, ReadDigit
<1>1. base \in 2 .. 36 /\ d \in 0 .. base - 1
  <2>1. d \in 0 .. 99
    BY DigitFacts
  <2>2. base \in {0} \cup 2 .. 36 /\ base # 0
    BY <1>0 DEF StrtoTypeOK, Outside
  <2>. QED  BY <1>0, <2>1, <2>2
<1>2. /\ Limit \in Nat /\ Limit < Span /\ Span \in Nat \ {0}
      /\ acc \in Nat /\ exact \in Nat /\ pos \in Nat \ {0} /\ Len(in.str) \in Nat
  <2>1. Limit \in Nat /\ Limit < Span /\ Span \in Nat \ {0}
    BY <1>0, LimitFacts
  <2>2. acc \in 0 .. Span - 1 /\ exact \in Nat /\ pos \in 1 .. Len(in.str) + 1
        /\ in.str \in Seq(STRING)
    BY <1>0, InputsAssumption DEF StrtoTypeOK
  <2>. QED  BY <2>1, <2>2
<1>3. pos <= Len(in.str)
  <2>1. d < 99
    BY <1>1
  <2>. QED  BY <1>0, <1>2, <2>1, InsideString
<1>. HIDE DEF d
<1>4. /\ exact' = exact * base + d /\ pos' = pos + 1
      /\ UNCHANGED <<phase, in, neg, base, result, end>>
  BY DEF ReadDigit, d
<1>5. Limit' = Limit /\ Signed' = Signed /\ MaxValue' = MaxValue /\ MinValue' = MinValue
  BY <1>4 DEF Limit, MaxValue, MinValue, Signed, Span
<1>6. exact * base \in Nat /\ exact <= exact * base /\ acc * base \in Nat
  BY <1>1, <1>2
<1>7. exact' \in Nat /\ exact' >= exact
  BY <1>1, <1>2, <1>4, <1>6
<1>8. TooBig(d) <=> acc * base + d > Limit
  BY <1>1, <1>2, Cutoff DEF TooBig
<1>9. /\ acc' \in 0 .. Span - 1 /\ any' \in {-1, 1}
      /\ IF any' < 0 THEN exact' > Limit ELSE acc' = exact' /\ acc' <= Limit
  <2>1. CASE any < 0
    <3>1. any' = -1 /\ acc' = acc /\ exact > Limit
      BY <1>0, <2>1 DEF ReadDigit, NoWrap
    <3>. QED  BY <1>0, <1>2, <1>7, <3>1 DEF StrtoTypeOK
  <2>2. CASE ~ (any < 0) /\ TooBig(d)
    <3>1. any' = -1 /\ acc' = acc /\ acc = exact
      BY <1>0, <2>2 DEF ReadDigit, NoWrap, d
    <3>2. exact' > Limit
      BY <1>4, <1>8, <2>2, <3>1
    <3>. QED  BY <1>0, <3>1, <3>2 DEF StrtoTypeOK
  <2>3. CASE ~ (any < 0) /\ ~ TooBig(d)
    <3>1. any' = 1 /\ acc' = (acc * base + d) % Span /\ acc = exact
      BY <1>0, <2>3 DEF ReadDigit, NoWrap, d
    <3>2. acc * base + d \in Nat /\ acc * base + d <= Limit
      BY <1>1, <1>2, <1>6, <1>8, <2>3
    <3>3. acc' = acc * base + d
      BY <1>2, <3>1, <3>2
    <3>. QED  BY <1>2, <1>4, <3>1, <3>2, <3>3
  <2>. QED  BY <2>1, <2>2, <2>3
<1>10. StrtoTypeOK'
  <2>1. /\ phase' = phase /\ in' = in /\ end' = end /\ neg' = neg /\ base' = base /\ result' = result
        /\ phase \in {"space", "prefix", "digits", "returned"} /\ in \in Inputs
        /\ neg \in {0, 1} /\ base \in {0} \cup 2 .. 36 /\ end \in 0 .. Len(in.str) + 1
    BY <1>0, <1>4 DEF StrtoTypeOK
  <2>2. pos' \in 1 .. Len(in.str) + 1
    BY <1>2, <1>3, <1>4
  <2>3. result' \in (IF Signed' THEN MinValue' ELSE 0) .. MaxValue'
    BY <1>0, <1>4, <1>5 DEF StrtoTypeOK
  <2>4. acc' \in 0 .. Span' - 1
    BY <1>9 DEF Span
  <2>5. any' \in {-1, 0, 1} /\ exact' \in Nat
    BY <1>7, <1>9
  <2>. QED  BY <2>1, <2>2, <2>3, <2>4, <2>5 DEF StrtoTypeOK
<1>. QED  BY <1>0, <1>1, <1>4, <1>5, <1>9, <1>10 DEF IInv, Outside, NoWrap, Saturates

\* *endptr points into the string
LEMMA EndTyped ==
  ASSUME IInv, ReturnNumber
  PROVE  end' \in 0 .. Len(in.str) + 1
<1>1. StrtoTypeOK /\ in.str \in Seq(STRING)
  BY InputsAssumption DEF IInv, StrtoTypeOK
<1>2. end' = pos \/ end' = 1 \/ end' = end
  BY DEF ReturnNumber, Stopped
<1>. QED  BY <1>1, <1>2 DEF StrtoTypeOK

\* the value of the word and of the number agree when the loop has noticed no overflow
LEMMA ReturnIInv ==
  ASSUME IInv, ReturnNumber
  PROVE  IInv'
<1>0. /\ StrtoTypeOK /\ Outside /\ NoWrap /\ phase = "digits" /\ phase' = "returned"
      /\ UNCHANGED <<in, pos, neg, base, acc, any, exact>>
      /\ Signed' = Signed /\ MaxValue' = MaxValue /\ Limit' = Limit
  BY DEF IInv, ReturnNumber, Signed, MaxValue, Limit, Span
<1>1. /\ Half \in Nat \ {0} /\ acc \in Nat /\ exact \in Nat
      /\ neg \in {0, 1} /\ Span \in Nat \ {0} /\ MaxValue \in Nat /\ Limit \in Nat
  BY <1>0, SpanAssumption, LimitFacts DEF StrtoTypeOK
<1>2. CASE any < 0
  <2>1. result' = IF Signed /\ neg = 1 THEN MinValue ELSE MaxValue
    BY <1>2 DEF ReturnNumber
  <2>2. exact > Limit
    BY <1>0, <1>2 DEF NoWrap
  <2>3. Saturates' /\ result' \in (IF Signed THEN MinValue ELSE 0) .. MaxValue
    BY <1>0, <1>1, <2>1, <2>2 DEF Saturates, Clamped, Limit, MinValue, MaxValue, Span
  <2>. QED  BY <1>0, <2>3, EndTyped DEF IInv, StrtoTypeOK, Outside, NoWrap
<1>3. CASE ~ (any < 0)
  <2>1. result' = Word(IF neg = 1 THEN - acc ELSE acc) /\ acc = exact /\ acc <= Limit
    BY <1>0, <1>3 DEF ReturnNumber, NoWrap
  <2>2. Saturates' /\ result' \in (IF Signed THEN MinValue ELSE 0) .. MaxValue
    <3>1. CASE neg = 0
      BY <1>0, <1>1, <2>1, <3>1 DEF Saturates, Clamped, Word, Limit, MinValue, MaxValue, Span
    <3>2. CASE neg = 1 /\ Signed
      BY <1>0, <1>1, <2>1, <3>2 DEF Saturates, Clamped, Word, Limit, MinValue, MaxValue, Span
    <3>3. CASE neg = 1 /\ ~ Signed
      BY <1>0, <1>1, <2>1, <3>3 DEF Saturates, Clamped, Word, Limit, MinValue, MaxValue, Span
    <3>. QED  BY <1>1, <3>1, <3>2, <3>3
  <2>. QED  BY <1>0, <2>2, EndTyped DEF IInv, StrtoTypeOK, Outside, NoWrap
<1>. QED  BY <1>1, <1>2, <1>3

(* Every step of a conversion keeps the invariant; the digit that may    *)
(* overflow is the case that needs the cutoff lemma.                      *)
LEMMA StepIInv == IInv /\ [NumberNext]_numberVars => IInv'
<1>. SUFFICES ASSUME IInv, [NumberNext]_numberVars
              PROVE  IInv'
  OBVIOUS
<1>0. StrtoTypeOK /\ Outside /\ NoWrap /\ Saturates
  BY DEF IInv
<1>1. Len(in.str) \in Nat /\ pos \in Nat \ {0} /\ pos <= Len(in.str) + 1
  BY <1>0, InputsAssumption DEF StrtoTypeOK
<1>2. CASE Space
  <2>1. pos <= Len(in.str)
    BY <1>0, <1>1, <1>2, InsideString DEF Space
  <2>. QED  BY <1>0, <1>1, <1>2, <2>1 DEF Space, IInv, StrtoTypeOK, Outside, NoWrap, Saturates, MaxValue, Signed
<1>3. CASE Sign
  <2>1. pos' \in 1 .. Len(in.str) + 1
    BY <1>0, <1>1, <1>3, InsideString DEF Sign
  <2>2. StrtoTypeOK'
    BY <1>0, <1>3, <2>1 DEF Sign, StrtoTypeOK, MaxValue, Signed
  <2>. QED  BY <1>0, <1>3, <2>2 DEF Sign, IInv, Outside, NoWrap, Saturates
<1>4. CASE Prefix
  <2>1. pos' \in 1 .. Len(in.str) + 1 /\ base' \in 2 .. 36
    <3>1. HexPrefix => pos + 2 <= Len(in.str)
      <4>. SUFFICES ASSUME HexPrefix
                    PROVE  pos + 2 <= Len(in.str)
        OBVIOUS
      <4>1. Digit(at(pos + 2)) < 16 /\ Digit(at(pos + 2)) \in 0 .. 99 /\ pos + 2 \in Nat \ {0}
        BY <1>1, DigitFacts DEF HexPrefix
      <4>2. Digit(at(pos + 2)) < 99
        BY <4>1
      <4>. QED  BY <1>0, <4>1, <4>2, InsideString
    <3>. QED  BY <1>0, <1>1, <1>4, <3>1 DEF Prefix, StrtoTypeOK
  <2>2. /\ phase = "prefix" /\ phase' = "digits"
        /\ UNCHANGED <<in, neg, acc, any, exact, result, end>>
    BY <1>4 DEF Prefix
  <2>3. StrtoTypeOK' /\ Outside'
    BY <1>0, <2>1, <2>2 DEF StrtoTypeOK, Outside, MaxValue, Signed
  <2>4. NoWrap' /\ Saturates'
    BY <1>0, <2>2, LimitFacts DEF Outside, NoWrap, Saturates, Limit, MaxValue, Signed
  <2>. QED  BY <2>3, <2>4 DEF IInv
<1>5. CASE ReadDigit
  BY <1>5, ReadDigitIInv
<1>6. CASE ReturnNumber
  BY <1>6, ReturnIInv
<1>7. CASE Over \/ UNCHANGED numberVars
  BY <1>0, <1>7 DEF Over, numberVars, IInv, StrtoTypeOK, Outside, NoWrap, Saturates, Clamped,
                       MinValue, Span, Limit, MaxValue, Signed
<1>. QED  BY <1>2, <1>3, <1>4, <1>5, <1>6, <1>7 DEF NumberNext

\* The inductive invariant holds in every state.
THEOREM Invariance == NumberSpec => []IInv
BY InitIInv, StepIInv, PTL DEF NumberSpec

\* The accumulator stays within its word, the result in the range of its type, and
\* pos and *endptr within the string.
THEOREM TypeCorrectness == NumberSpec => []StrtoTypeOK
<1>1. IInv => StrtoTypeOK
  BY DEF IInv
<1>. QED  BY <1>1, Invariance, PTL

\* The accumulator holds the exact number and never wraps around, or the overflow
\* is recorded.
THEOREM NeverWraps == NumberSpec => []NoWrap
<1>1. IInv => NoWrap
  BY DEF IInv
<1>. QED  BY <1>1, Invariance, PTL

\* The result is the number read, or the end of the range it lies beyond.
THEOREM ResultSaturates == NumberSpec => []Saturates
<1>1. IInv => Saturates
  BY DEF IInv
<1>. QED  BY <1>1, Invariance, PTL

-----------------------------------------------------------------------------
(* The declarative reading of the string                                   *)

\* the least-number principle
LEMMA LeastOf ==
  ASSUME NEW T \in SUBSET Nat, T # {}
  PROVE  \E m \in T : \A k \in T : m <= k
<1>. DEFINE R == OpToRel(<, Nat)
<1>1. ASSUME NEW x \in Nat, NEW y \in Nat PROVE <<x, y>> \in R <=> x < y
  BY DEF OpToRel
<1>2. IsWellFoundedOn(R, Nat)
  BY NatLessThanWellFounded
<1>. HIDE DEF R
<1>3. PICK m \in T : \A k \in T : ~ (<<k, m>> \in R)
  BY <1>2, WFMin
<1>4. ASSUME NEW k \in T PROVE m <= k
  <2>1. k \in Nat /\ m \in Nat /\ <<k, m>> \notin R
    BY <1>3
  <2>2. ~ (k < m)
    BY <1>1, <2>1
  <2>. QED  BY <2>1, <2>2
<1>. QED  BY <1>4

\* induction, for a set instead of a predicate
LEMMA Induction ==
  ASSUME NEW T, 0 \in T, \A n \in Nat : n \in T => n + 1 \in T
  PROVE  Nat \subseteq T
<1>. SUFFICES ASSUME Nat \ T # {}
              PROVE  FALSE
  OBVIOUS
<1>1. PICK x \in Nat \ T : \A y \in Nat \ T : x <= y
  BY LeastOf
<1>2. x - 1 \in Nat /\ x - 1 \notin Nat \ T
  BY <1>1
<1>. QED  BY <1>1, <1>2

\* how a value at n + 1 is computed from n and the value at n
Steps(V) == [Nat -> [V -> V]]

\* Primitive recursion: there is a function with such steps.
LEMMA Recursion ==
  ASSUME NEW V, NEW v0 \in V, NEW g \in Steps(V)
  PROVE  \E h \in [Nat -> V] : h[0] = v0 /\ \A n \in Nat : h[n + 1] = g[n][h[n]]
<1>. USE DEF Steps
<1>. DEFINE Upto(n, h) == h[0] = v0 /\ \A i \in 0 .. n - 1 : h[i + 1] = g[i][h[i]]
            D == {n \in Nat : \E h \in [0 .. n -> V] : Upto(n, h)}
<1>1. 0 \in D
  <2>1. [i \in 0 .. 0 |-> v0] \in [0 .. 0 -> V] /\ Upto(0, [i \in 0 .. 0 |-> v0])
    OBVIOUS
  <2>. QED  BY <2>1
<1>2. ASSUME NEW n \in Nat, n \in D
      PROVE  n + 1 \in D
  <2>1. PICK h \in [0 .. n -> V] : Upto(n, h)
    BY <1>2
  <2>. DEFINE k == [i \in 0 .. n + 1 |-> IF i = n + 1 THEN g[n][h[n]] ELSE h[i]]
  <2>2. k \in [0 .. n + 1 -> V]
    OBVIOUS
  <2>3. k[0] = v0
    BY <2>1
  <2>4. ASSUME NEW i \in 0 .. (n + 1) - 1
        PROVE  k[i + 1] = g[i][k[i]]
    <3>1. k[i] = h[i]
      OBVIOUS
    <3>2. CASE i = n
      BY <3>1, <3>2
    <3>3. CASE i # n
      <4>1. i \in 0 .. n - 1 /\ k[i + 1] = h[i + 1]
        BY <3>3
      <4>. QED  BY <4>1, <3>1, <2>1
    <3>. QED  BY <3>2, <3>3
  <2>5. Upto(n + 1, k)
    BY <2>3, <2>4
  <2>. HIDE DEF k, Upto
  <2>. QED  BY <2>2, <2>5
<1>3. Nat \subseteq D
  <2>. HIDE DEF D
  <2>. QED  BY <1>1, <1>2, Induction
<1>4. ASSUME NEW n \in Nat, NEW h \in [0 .. n -> V], Upto(n, h),
             NEW k \in [0 .. n + 1 -> V], Upto(n + 1, k)
      PROVE  h[n] = k[n]
  <2>. DEFINE E == {i \in Nat : i <= n => h[i] = k[i]}
  <2>1. 0 \in E
    BY <1>4
  <2>2. ASSUME NEW i \in Nat, i \in E
        PROVE  i + 1 \in E
    BY <1>4, <2>2
  <2>3. Nat \subseteq E
    <3>. HIDE DEF E
    <3>. QED  BY <2>1, <2>2, Induction
  <2>. QED  BY <2>3
<1>. DEFINE part(n) == CHOOSE h \in [0 .. n -> V] : Upto(n, h)
<1>5. ASSUME NEW n \in Nat
      PROVE  part(n) \in [0 .. n -> V] /\ Upto(n, part(n))
  <2>. HIDE DEF Upto
  <2>. QED  BY <1>3
<1>. DEFINE f1 == [n \in Nat |-> part(n)[n]]
<1>6. f1 \in [Nat -> V]
  <2>1. ASSUME NEW n \in Nat PROVE part(n)[n] \in V
    <3>. HIDE DEF part, Upto
    <3>. QED  BY <1>5
  <2>. QED  BY <2>1
<1>7. f1[0] = v0
  <2>. HIDE DEF part
  <2>. QED  BY <1>5
<1>8. ASSUME NEW n \in Nat
      PROVE  f1[n + 1] = g[n][f1[n]]
  <2>0. n + 1 \in Nat
    OBVIOUS
  <2>3. part(n + 1) \in [0 .. n + 1 -> V] /\ Upto(n + 1, part(n + 1))
    <3>. HIDE DEF part, Upto
    <3>. QED  BY <1>5, <2>0
  <2>4. part(n) \in [0 .. n -> V] /\ Upto(n, part(n))
    <3>. HIDE DEF part, Upto
    <3>. QED  BY <1>5
  <2>1. part(n + 1)[n + 1] = g[n][part(n + 1)[n]]
    <3>. HIDE DEF part
    <3>. QED  BY <2>3
  <2>. DEFINE a == part(n)
              b == part(n + 1)
  <2>2. a[n] = b[n]
    <3>1. a \in [0 .. n -> V] /\ Upto(n, a) /\ b \in [0 .. n + 1 -> V] /\ Upto(n + 1, b)
      BY <2>3, <2>4
    <3>. HIDE DEF a, b, Upto
    <3>. QED  BY <3>1, <1>4
  <2>. QED  BY <2>0, <2>1, <2>2
<1>. HIDE DEF f1
<1>. QED  BY <1>6, <1>7, <1>8

\* the first of a set of places
LEMMA FirstIs ==
  ASSUME NEW S \in SUBSET Nat, NEW x \in S, \A q \in S : x <= q
  PROVE  Earliest(S) = x
<1>. DEFINE P(p) == p \in S /\ \A q \in S : p <= q
<1>1. Earliest(S) = CHOOSE p : P(p)
  BY DEF Earliest
<1>2. P(x)
  OBVIOUS
<1>3. P(Earliest(S))
  <2>. HIDE DEF P
  <2>. QED  BY <1>1, <1>2
<1>4. Earliest(S) \in Nat /\ Earliest(S) <= x /\ x <= Earliest(S) /\ x \in Nat
  BY <1>3
<1>. QED  BY <1>4

\* the parts of the reading are places, a base, and a place not before them
LEMMA Parts ==
  ASSUME StrtoTypeOK
  PROVE  /\ Len(in.str) \in Nat /\ in.base \in {0} \cup 2 .. 36
         /\ Blanks \in Nat \ {0} /\ Body \in Nat \ {0} /\ Start \in Nat \ {0}
         /\ Radix \in 2 .. 36
<1>1. Len(in.str) \in Nat /\ in.base \in {0} \cup 2 .. 36
  BY InputsAssumption DEF StrtoTypeOK
<1>. DEFINE S == {p \in Places : at(p) \notin Spaces}
<1>2. S \in SUBSET Nat /\ Len(in.str) + 1 \in S
  <2>1. Places \in SUBSET Nat /\ Len(in.str) + 1 \in Places
    BY <1>1 DEF Places
  <2>2. at(Len(in.str) + 1) = "NUL"
    BY <1>1 DEF at
  <2>3. "NUL" \notin Spaces
    BY DEF Spaces
  <2>. QED  BY <2>1, <2>2, <2>3
<1>3. PICK x \in S : \A q \in S : x <= q
  BY <1>2, LeastOf
<1>4. Blanks = Earliest(S)
  BY DEF Blanks
<1>5. S \subseteq Nat \ {0}
  BY <1>1 DEF Places
<1>. HIDE DEF S
<1>6. Blanks = x
  BY <1>2, <1>3, <1>4, FirstIs
<1>7. Blanks \in Nat \ {0}
  BY <1>3, <1>5, <1>6
<1>. QED  BY <1>1, <1>7 DEF Body, Start, Radix

\* Value is what its definition says
LEMMA ValueOfDigits ==
  ASSUME StrtoTypeOK, NEW p \in Nat
  PROVE  Value[p] = IF p <= Start THEN 0 ELSE Value[p - 1] * Radix + Digit(at(p - 1))
<1>0. Start \in Nat /\ Radix \in Nat
  <2>1. Start \in Nat \ {0} /\ Radix \in 2 .. 36
    BY Parts
  <2>. QED  BY <2>1
<1>. DEFINE s == Start
            r == Radix
            d(n) == Digit(at(n))
            g == [n \in Nat |-> [v \in Nat |-> IF n + 1 <= s THEN 0 ELSE v * r + d(n)]]
            P(x) == x = [n \in Nat |-> IF n <= s THEN 0 ELSE x[n - 1] * r + d(n - 1)]
<1>1. \A n : d(n) \in Nat
  BY DigitFacts
<1>2. Value = CHOOSE x : P(x)
  BY DEF Value
<1>. HIDE DEF s, r, d
<1>3. s \in Nat /\ r \in Nat
  BY <1>0 DEF s, r
<1>4. g \in [Nat -> [Nat -> Nat]]
  BY <1>1, <1>3
<1>5. \A n, v \in Nat : g[n][v] = IF n + 1 <= s THEN 0 ELSE v * r + d(n)
  OBVIOUS
<1>. HIDE DEF g
<1>6. PICK h \in [Nat -> Nat] : h[0] = 0 /\ \A n \in Nat : h[n + 1] = g[n][h[n]]
  <2>. DEFINE zero == 0
              V == Nat
  <2>1. zero \in V /\ g \in Steps(V)
    BY <1>4 DEF Steps
  <2>. HIDE DEF zero, V, P
  <2>2. \E h \in [Nat -> V] : h[0] = zero /\ \A n \in Nat : h[n + 1] = g[n][h[n]]
    BY <2>1, Recursion
  <2>. QED  BY <2>2 DEF zero, V
<1>7. ASSUME NEW n \in Nat
      PROVE  h[n] = IF n <= s THEN 0 ELSE h[n - 1] * r + d(n - 1)
  <2>1. CASE n = 0
    BY <1>3, <1>6, <2>1
  <2>2. CASE n # 0
    <3>. DEFINE m == n - 1
    <3>1. m \in Nat /\ n = m + 1
      BY <2>2
    <3>. HIDE DEF m
    <3>2. h[m + 1] = IF m + 1 <= s THEN 0 ELSE h[m] * r + d(m)
      BY <1>5, <1>6, <3>1
    <3>3. m = n - 1
      BY DEF m
    <3>. QED  BY <3>1, <3>2, <3>3
  <2>. QED  BY <2>1, <2>2
<1>8. P(h)
  BY <1>7
<1>9. P(Value)
  <2>. HIDE DEF P
  <2>. QED  BY <1>2, <1>8
<1>. QED  BY <1>9 DEF s, r, d

\* what the reading has established when the code is at each place of the conversion
Read ==
  /\ phase = "space" => base = in.base /\ \A q \in 1 .. pos - 1 : at(q) \in Spaces
  /\ phase = "prefix" => base = in.base /\ pos = Body /\ (neg = 1 <=> at(Blanks) = "-")
  /\ phase # "returned" => end = 0
  /\ phase = "digits" => /\ base = Radix /\ Start <= pos /\ (neg = 1 <=> at(Blanks) = "-")
                         /\ \A q \in Start .. pos - 1 : Digit(at(q)) < Radix
                         /\ exact = Value[pos] /\ (any = 0 <=> pos = Start)
  /\ phase = "returned" => /\ exact = Value[Stop] /\ (neg = 1 <=> at(Blanks) = "-")
                           /\ end = IF ~ in.endptr THEN 0 ELSE IF Stop = Start THEN 1 ELSE Stop

\* the reading is of the string, which no step changes
LEMMA SameReading ==
  ASSUME UNCHANGED in
  PROVE  /\ Blanks' = Blanks /\ Body' = Body /\ Start' = Start /\ Radix' = Radix
         /\ Stop' = Stop /\ Value' = Value /\ \A p : at(p)' = at(p)
<1>1. \A p : at(p)' = at(p)
  BY DEF at
<1>2. Blanks' = Blanks
  BY DEF Blanks, Earliest, Places, at
<1>3. Body' = Body
  BY <1>1, <1>2 DEF Body, at
<1>4. Hex' = Hex
  BY <1>3 DEF Hex, at
<1>5. Start' = Start /\ Radix' = Radix
  BY <1>3, <1>4 DEF Start, Radix, at
<1>6. Stop' = Stop
  BY <1>5 DEF Stop, Earliest, Places, at
<1>7. Value' = Value
  BY <1>5 DEF Value, at
<1>. QED  BY <1>1, <1>2, <1>3, <1>5, <1>6, <1>7

\* the first character that is not blank
LEMMA SignRead ==
  ASSUME StrtoTypeOK, Read, Sign
  PROVE  Read'
<1>. DEFINE S == {p \in Places : at(p) \notin Spaces}
<1>1. /\ phase = "space" /\ phase' = "prefix" /\ in' = in /\ base' = base /\ base = in.base
      /\ at(pos) \notin Spaces /\ \A q \in 1 .. pos - 1 : at(q) \in Spaces
      /\ neg' = (IF at(pos) = "-" THEN 1 ELSE 0) /\ end' = 0
      /\ pos' = IF at(pos) \in {"-", "+"} THEN pos + 1 ELSE pos
  BY DEF Sign, Read
<1>2. Len(in.str) \in Nat /\ pos \in 1 .. Len(in.str) + 1
  BY Parts DEF StrtoTypeOK
<1>3. S \in SUBSET Nat /\ pos \in S
  BY <1>1, <1>2 DEF Places
<1>4. ASSUME NEW q \in S PROVE pos <= q
  <2>1. q \in Nat \ {0} /\ at(q) \notin Spaces
    BY <1>2 DEF Places
  <2>2. q \notin 1 .. pos - 1
    BY <1>1, <2>1
  <2>. QED  BY <1>2, <2>1, <2>2
<1>5. Blanks = Earliest(S)
  BY DEF Blanks
<1>. HIDE DEF S
<1>6. Blanks = pos
  BY <1>3, <1>4, <1>5, FirstIs
<1>7. pos' = Body /\ (neg' = 1 <=> at(Blanks) = "-")
  BY <1>1, <1>6 DEF Body
<1>. QED  BY <1>1, <1>7, SameReading DEF Read

\* 0x, where it is allowed and a digit follows
LEMMA PrefixRead ==
  ASSUME StrtoTypeOK, Outside, Read, Prefix
  PROVE  Read'
<1>1. /\ phase = "prefix" /\ phase' = "digits" /\ in' = in /\ neg' = neg /\ base = in.base
      /\ pos = Body /\ (neg = 1 <=> at(Blanks) = "-")
      /\ any' = 0 /\ exact' = 0 /\ end' = 0
  BY DEF Prefix, Read, Outside
<1>2. HexPrefix <=> Hex
  BY <1>1 DEF HexPrefix, Hex
<1>3. pos' = Start /\ base' = Radix
  <2>1. pos' = Start
    BY <1>1, <1>2 DEF Prefix, Start
  <2>2. base' = IF Hex THEN 16 ELSE IF base # 0 THEN base ELSE IF at(pos) = "0" THEN 8 ELSE 10
    BY <1>2 DEF Prefix
  <2>3. Radix = IF Hex THEN 16 ELSE IF base # 0 THEN base ELSE IF at(pos) = "0" THEN 8 ELSE 10
    BY <1>1 DEF Radix
  <2>. QED  BY <2>1, <2>2, <2>3
<1>4. Start \in Nat
  BY Parts
<1>5. Value[Start] = 0
  BY <1>4, ValueOfDigits
<1>. QED  BY <1>1, <1>3, <1>4, <1>5, SameReading DEF Read

\* one more digit
LEMMA DigitRead ==
  ASSUME StrtoTypeOK, Read, ReadDigit
  PROVE  Read'
<1>1. /\ phase = "digits" /\ phase' = "digits" /\ in' = in /\ neg' = neg /\ base' = base
      /\ pos' = pos + 1 /\ any' \in {-1, 1} /\ exact' = exact * base + Digit(at(pos))
      /\ Digit(at(pos)) < base /\ end' = 0
  BY DEF ReadDigit, Read
<1>2. /\ base = Radix /\ Start <= pos /\ (neg = 1 <=> at(Blanks) = "-")
      /\ \A q \in Start .. pos - 1 : Digit(at(q)) < Radix
      /\ exact = Value[pos]
  BY <1>1 DEF Read
<1>3. pos \in Nat /\ Start \in Nat
  <2>1. Len(in.str) \in Nat /\ Start \in Nat \ {0}
    BY Parts
  <2>. QED  BY <2>1 DEF StrtoTypeOK
<1>4. Value[pos + 1] = IF pos + 1 <= Start THEN 0
                       ELSE Value[(pos + 1) - 1] * Radix + Digit(at((pos + 1) - 1))
  <2>1. pos + 1 \in Nat
    BY <1>3
  <2>. QED  BY <2>1, ValueOfDigits
<1>5. Value[pos + 1] = Value[pos] * Radix + Digit(at(pos))
  <2>1. (pos + 1) - 1 = pos /\ ~ (pos + 1 <= Start)
    BY <1>2, <1>3
  <2>. QED  BY <1>4, <2>1
<1>6. exact' = Value[pos'] /\ Start <= pos' /\ ~ (any' = 0) /\ pos' # Start
  BY <1>1, <1>2, <1>3, <1>5
<1>7. ASSUME NEW q \in Start .. pos' - 1 PROVE Digit(at(q)) < Radix
  <2>1. q \in Start .. pos - 1 \/ q = pos
    BY <1>1, <1>3
  <2>. QED  BY <1>1, <1>2, <2>1
<1>8. /\ Radix' = Radix /\ Start' = Start /\ Value' = Value
      /\ at(Blanks)' = at(Blanks) /\ \A p : at(p)' = at(p)
  BY <1>1, SameReading DEF at
<1>. QED  BY <1>1, <1>2, <1>6, <1>7, <1>8 DEF Read

\* the character that ends the digits
LEMMA ReturnRead ==
  ASSUME StrtoTypeOK, Read, ReturnNumber
  PROVE  Read'
<1>. DEFINE S == {p \in Places : p >= Start /\ Digit(at(p)) >= Radix}
<1>1. /\ phase = "digits" /\ phase' = "returned" /\ in' = in /\ neg' = neg /\ any' = any
      /\ exact' = exact /\ Digit(at(pos)) >= base
      /\ end' = IF ~ in.endptr THEN 0 ELSE IF any # 0 THEN pos ELSE 1
  BY DEF ReturnNumber, Stopped, Read
<1>2. /\ base = Radix /\ Start <= pos /\ (neg = 1 <=> at(Blanks) = "-")
      /\ \A q \in Start .. pos - 1 : Digit(at(q)) < Radix
      /\ exact = Value[pos] /\ (any = 0 <=> pos = Start)
  BY <1>1 DEF Read
<1>3. /\ Len(in.str) \in Nat /\ Start \in Nat /\ Radix \in Nat
      /\ pos \in 1 .. Len(in.str) + 1
  <2>1. Len(in.str) \in Nat /\ Start \in Nat \ {0} /\ Radix \in 2 .. 36
    BY Parts
  <2>. QED  BY <2>1 DEF StrtoTypeOK
<1>4. S \in SUBSET Nat /\ pos \in S
  BY <1>1, <1>2, <1>3 DEF Places
<1>5. ASSUME NEW q \in S PROVE pos <= q
  <2>1. q \in Nat /\ q >= Start /\ Digit(at(q)) >= Radix
    BY <1>3 DEF Places
  <2>2. Digit(at(q)) \in 0 .. 99
    BY DigitFacts
  <2>3. ~ (Digit(at(q)) < Radix)
    <3>. DEFINE d == Digit(at(q))
    <3>1. d \in Nat /\ d >= Radix
      BY <2>1, <2>2
    <3>. HIDE DEF d
    <3>2. ~ (d < Radix)
      BY <1>3, <3>1
    <3>. QED  BY <3>2 DEF d
  <2>4. q \notin Start .. pos - 1
    BY <1>2, <2>3
  <2>. QED  BY <1>3, <2>1, <2>4
<1>6. Stop = Earliest(S)
  BY DEF Stop
<1>. HIDE DEF S
<1>7. Stop = pos
  BY <1>4, <1>5, <1>6, FirstIs
<1>8. /\ Stop' = Stop /\ Start' = Start /\ Value' = Value /\ at(Blanks)' = at(Blanks)
  BY <1>1, SameReading DEF at
<1>. QED  BY <1>1, <1>2, <1>7, <1>8 DEF Read

\* Every step continues the reading.
LEMMA StepRead == StrtoTypeOK /\ Outside /\ Read /\ [NumberNext]_numberVars => Read'
<1>. SUFFICES ASSUME StrtoTypeOK, Outside, Read, [NumberNext]_numberVars
              PROVE  Read'
  OBVIOUS
<1>1. CASE Space
  <2>1. /\ phase = "space" /\ phase' = "space" /\ in' = in /\ base' = base /\ pos' = pos + 1 /\ end' = 0
        /\ at(pos) \in Spaces /\ base = in.base /\ \A q \in 1 .. pos - 1 : at(q) \in Spaces
    BY <1>1 DEF Space, Read
  <2>2. pos \in Nat
    BY Parts DEF StrtoTypeOK
  <2>3. ASSUME NEW q \in 1 .. pos' - 1 PROVE at(q)' \in Spaces
    <3>1. q \in 1 .. pos - 1 \/ q = pos
      BY <2>1, <2>2
    <3>. QED  BY <2>1, <3>1 DEF at
  <2>. QED  BY <2>1, <2>3 DEF Read
<1>2. CASE UNCHANGED numberVars
  <2>1. UNCHANGED <<phase, in, pos, neg, base, any, exact, end>>
    BY <1>2 DEF numberVars
  <2>. QED  BY <2>1, SameReading DEF Read, at
<1>. QED  BY <1>1, <1>2, SignRead, PrefixRead, DigitRead, ReturnRead DEF NumberNext, Over

\* The result and the end pointer of every conversion are those of the declarative
\* reading: blanks, a sign, 0x before a digit, and the longest run of digits.
THEOREM ReadingIsDescribed == NumberSpec => []ReadsAsDescribed
<1>1. NumberInit => Read
  BY DEF NumberInit, Read
<1>2. IInv => StrtoTypeOK /\ Outside
  BY DEF IInv
<1>3. IInv /\ Read => ReadsAsDescribed
  <2>. SUFFICES ASSUME IInv, Read, phase = "returned"
                PROVE  /\ result = Clamped(Value[Stop], at(Blanks) = "-")
                       /\ end = IF ~ in.endptr THEN 0 ELSE IF Stop = Start THEN 1 ELSE Stop
    BY DEF ReadsAsDescribed
  <2>1. result = Clamped(Value[Stop], neg = 1)
    BY DEF IInv, Saturates, Read
  <2>2. CASE neg = 1
    <3>1. (neg = 1) = TRUE /\ (at(Blanks) = "-") = TRUE
      BY <2>2 DEF Read
    <3>. QED  BY <2>1, <3>1 DEF Read
  <2>3. CASE neg # 1
    <3>1. (neg = 1) = FALSE /\ (at(Blanks) = "-") = FALSE
      BY <2>3 DEF Read
    <3>. QED  BY <2>1, <3>1 DEF Read
  <2>. QED  BY <2>2, <2>3
<1>. QED  BY <1>1, <1>2, <1>3, Invariance, StepRead, PTL DEF NumberSpec
=============================================================================
