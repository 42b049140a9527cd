----------------------------- MODULE MCSnprintf -----------------------------
(* Calls of snprintf for which the comment and the code do not agree.        *)
EXTENDS Snprintf, FormatDoc

Chars == {Lower[i] : i \in 1 .. 16} \cup {Upper[i] : i \in 1 .. 16}
         \cup {"%", "-", " ", "x", "l"}

CallsOf(parts) ==
  {[fmt |-> Joined(Fmts(ps)), args |-> Joined(Args(ps)), doc |-> Joined(Docs(ps)), size |-> 40] :
     ps \in UNION {[1 .. l -> parts] : l \in 0 .. 2}}

\* Numbers with a length modifier, one of them beyond an int.
LongNumbers == CallsOf({Conversion("none", 0, <<"l">>, "d", v) : v \in {7, 3000}})

\* Numbers of both signs in fields of all three kinds.
FieldNumbers ==
  CallsOf({Conversion(flag, 4, << >>, "d", v) : flag \in {"none", "0", "-"}, v \in {5, -5}})
=============================================================================
