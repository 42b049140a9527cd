------------------------------- MODULE Setjmp -------------------------------
(***************************************************************************)
(* setjmp and longjmp of rtos/libc for aarch64, and the functions that may *)
(* run between them: they change registers and move the stack pointer, as  *)
(* the procedure call standard lets them.  The stack grows downwards.  The *)
(* val of longjmp is an int, so that only the lower half of its register   *)
(* is given: the upper half is what the caller left there.                 *)
(***************************************************************************)
EXTENDS Integers

CONSTANTS Word,       \* values of a register, with 0
          Bottom,     \* of the stack: the greatest value of sp
          Half,       \* values of half a register, with 0 and 1
          Assertions  \* ENABLE_ASSERTIONS

\* offsets JMP_CTX_X19 to JMP_CTX_X29 of the pairs, JMP_CTX_SP and JMP_SIZE, in words
Offset == [x19 |-> 0, x20 |-> 1, x21 |-> 2, x22 |-> 3, x23 |-> 4, x24 |-> 5, x25 |-> 6,
           x26 |-> 7, x27 |-> 8, x28 |-> 9, x29 |-> 10, x30 |-> 11]
Saved  == DOMAIN Offset
JMP_CTX_SP == 12
JMP_SIZE   == 14
Slots  == 0 .. JMP_SIZE - 1

VARIABLES
  pc,   \* "running", "returned" for the second time, or "assertion"
  regs, \* the registers a called function must keep
  sp,
  x0,   \* what the last of the two functions returned: [high, low]
  env,  \* the jmp_buf
  set,  \* env has been filled
  then  \* registers and sp when it was (history)

vars == <<pc, regs, sp, x0, env, set, then>>

Stack == 0 .. Bottom
TypeOK ==
  /\ pc \in {"running", "returned", "assertion"}
  /\ regs \in [Saved -> Word] /\ sp \in Stack
  /\ x0 \in [high : Half, low : Half]
  /\ env \in [Slots -> Word \cup Stack]
  /\ set \in BOOLEAN
  /\ then \in [regs : [Saved -> Word], sp : Stack]

Init ==
  /\ pc = "running"
  /\ regs \in [Saved -> Word] /\ sp \in Stack
  /\ x0 = [high |-> 0, low |-> 0]
  /\ env = [i \in Slots |-> 0]
  /\ set = FALSE /\ then = [regs |-> regs, sp |-> sp]

\* any code in between
Run(r, value, to) ==
  /\ pc # "assertion" /\ pc' = "running"
  /\ regs' = [regs EXCEPT ![r] = value] /\ sp' = to
  /\ UNCHANGED <<x0, env, set, then>>

\* stp ..., stp x7, xzr; mov x0, #0
Setjmp ==
  /\ pc # "assertion" /\ pc' = "running"
  /\ env' = [i \in Slots |-> IF i < JMP_CTX_SP
                             THEN regs[CHOOSE r \in Saved : Offset[r] = i]
                             ELSE IF i = JMP_CTX_SP THEN sp ELSE 0]
  /\ x0' = [high |-> 0, low |-> 0]
  /\ set' = TRUE /\ then' = [regs |-> regs, sp |-> sp]
  /\ UNCHANGED <<regs, sp>>

\* ands x0, x1, x1; cinc x0, x0, eq
Result(val) == IF val = [high |-> 0, low |-> 0] THEN [high |-> 0, low |-> 1] ELSE val

\* the stack being reset to is shallower, or ASM_ASSERT
Longjmp(val) ==
  /\ pc # "assertion" /\ set
  /\ IF Assertions /\ env[JMP_CTX_SP] < sp
     THEN pc' = "assertion" /\ UNCHANGED <<regs, sp, x0>>
     ELSE /\ pc' = "returned"
          /\ regs' = [r \in Saved |-> env[Offset[r]]]
          /\ sp' = env[JMP_CTX_SP]
          /\ x0' = Result(val)
  /\ UNCHANGED <<env, set, then>>

Next == \/ \E r \in Saved, value \in Word, to \in Stack : Run(r, value, to)
        \/ Setjmp
        \/ \E val \in [high : Half, low : Half] : Longjmp(val)

Spec == Init /\ [][Next]_vars

-----------------------------------------------------------------------------
\* When setjmp returns for the second time, every register a called function must keep
\* and the stack pointer are what they were when it returned for the first time,
\* whatever ran in between.
ContextRestored == pc = "returned" => regs = then.regs /\ sp = then.sp

\* With assertions, a jump never goes to a frame below the one it leaves: that frame
\* ended, and its place on the stack belongs to no one.
NeverDeeper == [][pc' = "returned" /\ Assertions => sp' >= sp]_vars

\* The comment at the end of longjmp: if val is 0, return 1.  Hence setjmp returns 0, an
\* int, only the first time.
NeverReturnsZero == pc = "returned" => x0.low # 0
=============================================================================
