----------------------------- MODULE StrtoCalls -----------------------------
(* The calls of strtol, strtoll, strtoul and strtoull, and how wide they     *)
(* compute.                                                                  *)
EXTENDS Integers, Sequences

CONSTANTS Inputs,  \* the calls: [func, str, base, endptr]; strtoll is strtol and
                   \* strtoull is strtoul, with a larger Half; endptr is FALSE for NULL
          Half     \* 2 to the number of bits of the result, less one

ASSUME SpanAssumption == Half \in Nat \ {0}
ASSUME InputsAssumption ==
  \A i \in Inputs : /\ i.func \in {"strtol", "strtoul"}
                    /\ i.str \in Seq(STRING) /\ i.base \in {0} \cup 2 .. 36
                    /\ i.endptr \in BOOLEAN
=============================================================================
