------------------------------ MODULE MCStrings ------------------------------
(* The string functions of the library: any sequence of calls on a small     *)
(* buffer, with a character whose code is negative as a signed char and is   *)
(* passed to the searches as one; or one call of strtol or strtoul.          *)
EXTENDS Strings, Strto

VARIABLE asked   \* what is called: "strings" or "numbers"

A     == 97
Comma == 200
Chars == {A, Comma}

UpToThree  == UNION {[1 .. l -> Chars] : l \in 0 .. 3} \cup {<<A, Comma, A, A>>}
CommaOrNot == {{Comma}, {}}
Searched   == {A, Comma - 256, Nul}
Others     == {<< >>, <<A, Comma>>, <<A, A, A, A, A>>}

-----------------------------------------------------------------------------
\* Every string of at most three characters, with a sign or without, longer ones that have
\* all the parts a number may have, and the numbers next to the ends of the range in each
\* base: -32, 31 and 63 are the last that fit.
Marks   == {" ", "-", "0", "1", "6", "f", "x"}
Short   == {sign \o rest : sign \in {<< >>, <<"-">>}, rest \in UNION {[1 .. l -> Marks] : l \in 0 .. 3}}
Parted  == {<<space, sign, "0", x, a, b, "z">> :
              space \in {"BS", "LF"}, sign \in {"-", "+", " "}, x \in {"x", "X"},
              a \in {"0", "1", "3", "f", "A", "x"}, b \in {"0", "1", "F", "G", " "}}
InTen   == {<<sign, a, b, c>> : sign \in {"-", "+"}, a \in {"0", "3", "6"},
              b \in {"1", "2", "3", "4"}, c \in {"9", " ", "Z"}}
           \cup {<<"-", "1", a, "0", "0">> : a \in {"0", "1", "2", "8", "9"}}
InEight == {<<sign, "0", a, b>> : sign \in {"CR", "-"}, a \in {"3", "4", "7"}, b \in {"0", "7"}}
InTwo   == {sign \o head \o tail : sign \in {<< >>, <<"-">>, <<"TAB", "-">>},
              head \in {<<"0">>, <<"1">>, <<"1", "0">>},
              tail \in {<<"0", "0", "0", "0", "0">>, <<"0", "0", "0", "0", "1">>,
                        <<"1", "1", "1", "1", "1">>, <<"1", "1", "1", "1", "2">>}}

Conversions(strings, bases, endptrs) ==
  [func : {"strtol", "strtoul"}, str : strings, base : bases, endptr : endptrs]
Numerals == Conversions(Short, {0, 2, 8, 10, 16}, {TRUE})
            \cup Conversions(Parted, {0, 10, 16, 36}, BOOLEAN)
            \cup Conversions(InTen, {0, 10}, {TRUE}) \cup Conversions(InEight, {0, 8}, {TRUE})
            \cup Conversions(InTwo, {2}, BOOLEAN)

-----------------------------------------------------------------------------
OneInput  == CHOOSE i \in Inputs : TRUE
NoStrings == mem = [i \in Index |-> Nul] /\ Init /\ call.src = << >>
NoNumber  == in = OneInput /\ NumberInit

MCInit == \/ asked = "strings" /\ NoNumber /\ Init
          \/ asked = "numbers" /\ NoStrings /\ NumberInit
MCNext == \/ asked = "strings" /\ Next /\ UNCHANGED <<asked, numberVars>>
          \/ asked = "numbers" /\ NumberNext /\ UNCHANGED <<asked, vars>>
MCSpec == MCInit /\ [][MCNext]_<<asked, vars, numberVars>>
=============================================================================
