------------------------------ MODULE MCFormats ------------------------------
(* Formats of at most two parts, with sizes up to and beyond the length of   *)
(* the output.                                                               *)
EXTENDS Formats

Chars == {Lower[i] : i \in 1 .. 16} \cup {Upper[i] : i \in 1 .. 16}
         \cup {"%", "-", " ", "x", "X", "l", "z", "u", "i", "p", "s", "q", "T"}

\* A conversion by its flag, width, length modifier, character and argument.
ConversionOf(t) == Conversion(t[1], t[2], t[3], t[4], t[5])

\* Conversions that both functions print as both comments say.
CommonConversions ==
  {<<"0", w, << >>, c, v>> : w \in {1, 3}, c \in {"u", "x"}, v \in {0, 255, 1000}}
  \cup {<<"0", 4, << >>, "d", 12>>}
  \cup {<<"none", 0, << >>, c, v>> : c \in {"d", "i"}, v \in {-16, 0}}
  \cup {<<"none", 0, l, "i", -70>> : l \in {<<"l">>, <<"l", "l">>, <<"z">>}}
  \cup {<<"none", 0, <<"l">>, "u", 3000>>, <<"none", 0, <<"z">>, "u", 3000>>,
        <<"none", 0, <<"l", "l">>, "x", 4095>>}
  \cup {<<"none", 0, << >>, "p", v>> : v \in {0, 171}}
  \cup {<<"0", 6, << >>, "p", 10>>}
  \cup {<<"none", 0, << >>, "s", v>> : v \in {<< >>, <<"T", "a">>}}

\* Conversions only printf prints as its comment says: negative numbers in a field, longs
\* beyond an int, a pointer of one digit.
PrintfConversions ==
  {<<"0", 4, << >>, "d", v>> : v \in {-12, -123}}
  \cup {<<"none", 0, l, "d", v>> : l \in {<<"l">>, <<"z">>}, v \in {3000, -3000}}
  \cup {<<"none", 0, << >>, "p", 10>>}

\* Conversions only the comment of snprintf describes.
SnprintfConversions ==
  {<<flag, 3, << >>, c, v>> : flag \in {"none", "-"}, c \in {"u", "X"}, v \in {0, 15, 1000}}
  \cup {<<"none", 12, << >>, "x", 255>>, <<"-", 4, << >>, "d", 5>>,
        <<"none", 8, << >>, "p", 0>>, <<"none", 0, <<"l">>, "X", 4095>>}

Texts    == {Plain("T"), TwoPercent}
Common   == {ConversionOf(t) : t \in CommonConversions} \cup Texts
Printf   == {ConversionOf(t) : t \in PrintfConversions}
Snprintf == {ConversionOf(t) : t \in SnprintfConversions}

\* Conversions nobody supports and formats that end in the middle of one: a flag and what
\* stands behind it.
UnsupportedTails == {<<"none", <<"q">>>>, <<"0", <<"q">>>>, <<"none", << >>>>,
                     <<"none", <<"-">>>>}
Unsupported == {[fmt |-> <<"%">> \o (FieldChars(t[1], 0) \o t[2]), args |-> << >>,
                 doc |-> << >>] : t \in UnsupportedTails}

\* These are the formats the theorems of Snprintf_proofs are about, and the others.
ASSUME AgreedConversions ==
  /\ \A t \in CommonConversions \cup SnprintfConversions :
       SnprintfAgrees(t[1], t[2], t[3], t[4], t[5])
  /\ \A t \in CommonConversions \cup PrintfConversions :
       PrintfAgrees(t[1], t[2], t[3], t[4], t[5])
  /\ \A t \in SnprintfConversions : ~ PrintfAgrees(t[1], t[2], t[3], t[4], t[5])
  /\ \A t \in PrintfConversions : ~ SnprintfAgrees(t[1], t[2], t[3], t[4], t[5])
  /\ \A t \in UnsupportedTails : Unknown(t[1], t[2])

\* printf stops at the first part its comment does not describe
Call(ps, size) ==
  LET bad  == {i \in DOMAIN ps : ps[i] \notin Common \cup Printf}
      kept == IF bad = {} THEN ps
              ELSE SubSeq(ps, 1, (CHOOSE i \in bad : \A j \in bad : i <= j) - 1)
  IN  [fmt |-> Joined(Fmts(ps)), args |-> Joined(Args(ps)), doc |-> Joined(Docs(ps)),
       size |-> size, printed |-> Joined(Docs(kept)), bad |-> bad # {},
       agreed |-> \A i \in DOMAIN ps : ps[i] \in Common \cup Snprintf]

UpToTwo(parts) == UNION {[1 .. l -> parts] : l \in 0 .. 2}

\* no room, and enough
Supported == {Call(ps, k) : ps \in UpToTwo(Common \cup Snprintf \cup Printf), k \in {0, 40}}

\* any size around the length of the output
SizedParts == {Plain("T"), TwoPercent, Conversion("0", 3, << >>, "u", 255),
               Conversion("-", 4, << >>, "d", 5), Conversion("none", 0, << >>, "d", -16),
               Conversion("none", 8, << >>, "p", 0), Conversion("none", 0, << >>, "p", 171),
               Conversion("none", 0, << >>, "s", <<"T", "a">>),
               Conversion("0", 4, << >>, "d", -12)}
Sized == {Call(ps, k) : ps \in UpToTwo(SizedParts), k \in 0 .. 9}

\* behind anything
Rejected == {Call(<<p, u>>, k) : p \in SizedParts, u \in Unsupported, k \in {0, 3, 40}}

AllCalls == Supported \cup Sized \cup Rejected

\* What printf prints past its counter.
SignedParts == {Plain("T"), TwoPercent, Conversion("none", 0, << >>, "d", -16)}
SignedCalls == {Call(ps, 40) : ps \in UpToTwo(SignedParts)}
=============================================================================
