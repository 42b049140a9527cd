------------------------------- MODULE Strings -------------------------------
(***************************************************************************)
(* The string functions of rtos/libc on one buffer, character by           *)
(* character.  A caller fills the buffer (strlcpy), appends to it          *)
(* (strlcat), cuts it into tokens (strtok_r), searches it and compares it, *)
(* in any order; the pointer that strtok_r saves lives on between the      *)
(* calls, while others write to the buffer under it.                       *)
(***************************************************************************)
EXTENDS Integers, Sequences, FiniteSetsExt

CONSTANTS Cap,      \* bytes of the buffer
          Letter,   \* characters other than NUL, as unsigned char
          NULL,     \* the null pointer
          Sources,  \* strings to copy from; they lie outside the buffer
          Delims,   \* sets of delimiters
          Needles,  \* what is searched for, an int
          Compared  \* strings to compare with

Nul == 0

ASSUME BufferAssumption == Cap \in Nat \ {0} /\ Letter \subseteq 1 .. 255 /\ NULL \notin Int
ASSUME CallsAssumption  == /\ Sources \cup Compared \subseteq Seq(Letter)
                           /\ Delims \subseteq SUBSET Letter /\ Needles \subseteq Int

Index   == 0 .. Cap - 1
Pointer == Index \cup {NULL}
Writes  == [fn : {"strlcpy", "strlcat"}, src : Sources, size : 0 .. Cap]
Cuts    == [fn : {"strtok_r"}, from : Pointer, delim : Delims]
Scans   == [fn : {"strlen"}]
           \cup [fn : {"strnlen"}, size : 0 .. Cap]
           \cup [fn : {"strchr", "strrchr"}, ch : Needles]
           \cup [fn : {"memchr", "memrchr"}, ch : Needles, size : 0 .. Cap]
           \cup [fn : {"strcmp"}, src : Compared]
           \cup [fn : {"strncmp", "memcmp"}, src : Compared, size : 0 .. Cap]
Call    == Writes \cup Cuts \cup Scans

VARIABLES
  pc,     \* "caller", or the loop that is running
  call,   \* the parameters
  d,      \* dst, s of the others: an offset into the buffer
  s,      \* src, s2: characters of the source behind it
  n,      \* nleft, n, len: characters of the buffer left
  mark,   \* dlen of strlcat, tok of strtok_r, save of strrchr
  mem,    \* the buffer
  last,   \* *last
  ret,    \* what the last call returned
  before  \* the buffer when it was called (history)

vars == <<pc, call, d, s, n, mark, mem, last, ret, before>>

TypeOK ==
  /\ pc \in {"caller", "copy", "rest", "end", "append", "skip", "scan", "look"}
  /\ call \in Call
  /\ d \in -1 .. Cap /\ s \in Nat /\ n \in 0 .. Cap
  /\ mark \in 0 .. Cap \cup {NULL}
  /\ mem \in [Index -> Letter \cup {Nul}] /\ before \in [Index -> Letter \cup {Nul}]
  /\ last \in Pointer
  /\ ret \in Int \cup {NULL}

NoLocals == d' = 0 /\ s' = 0 /\ n' = 0 /\ mark' = NULL

\* strlcpy with size 0, which changes nothing, stands for the call before the first one
Init ==
  /\ pc = "caller"
  /\ call \in {c \in Writes : c.fn = "strlcpy" /\ c.size = 0} /\ ret = Len(call.src)
  /\ d = 0 /\ s = 0 /\ n = 0 /\ mark = NULL
  /\ mem \in [Index -> Letter \cup {Nul}] /\ before = mem
  /\ last = NULL

-----------------------------------------------------------------------------
(* The caller.  A size is at most that of the buffer; strtok_r is given the *)
(* buffer when it holds a string, or NULL.                                  *)

Enter(c, where, from, count) ==
  /\ pc = "caller" /\ pc' = where /\ call' = c
  /\ d' = from /\ n' = count /\ s' = 0 /\ mark' = NULL /\ before' = mem
  /\ UNCHANGED <<mem, last, ret>>

CallStrlcpy(src, size) == Enter([fn |-> "strlcpy", src |-> src, size |-> size], "copy", 0, size)
CallStrlcat(src, size) == Enter([fn |-> "strlcat", src |-> src, size |-> size], "end", 0, size)

IsString == \E i \in Index : mem[i] = Nul

CallStrtok(delim) ==
  /\ IsString
  /\ Enter([fn |-> "strtok_r", from |-> 0, delim |-> delim], "skip", 0, 0)

\* s == NULL && (s = *last) == NULL returns at once
CallStrtokAgain(delim) ==
  LET c == [fn |-> "strtok_r", from |-> last, delim |-> delim]
  IN  IF last # NULL
      THEN Enter(c, "skip", last, 0)
      ELSE /\ pc = "caller" /\ call' = c /\ ret' = NULL /\ before' = mem
           /\ NoLocals /\ UNCHANGED <<pc, mem, last>>

\* memrchr begins at src + (len - 1)
First(c) == IF c.fn = "memrchr" THEN c.size - 1 ELSE 0

\* a string where one is asked for, and no more bytes than there are
CallScan(c) ==
  /\ c.fn \in {"strlen", "strchr", "strrchr", "strcmp"} => IsString
  /\ c.fn = "memcmp" => c.size <= Len(c.src) + 1
  /\ Enter(c, "look", First(c), IF "size" \in DOMAIN c THEN c.size ELSE 0)

Return(value) == pc' = "caller" /\ ret' = value /\ NoLocals

\* *src; the NUL is behind the last character
Src(k) == IF k < Len(call.src) THEN call.src[k + 1] ELSE Nul

Put(c) == mem' = [mem EXCEPT ![d] = c]

-----------------------------------------------------------------------------
(* strlcpy                                                                 *)

\* (variant) room for one character more
RoomForAll == n # 0
\* --nleft != 0
RoomLeft == n > 1

CopyByte ==
  /\ pc = "copy" /\ RoomLeft
  /\ Put(Src(s))
  /\ IF Src(s) = Nul THEN Return(s)
     ELSE d' = d + 1 /\ s' = s + 1 /\ n' = n - 1 /\ UNCHANGED <<pc, mark, ret>>
  /\ UNCHANGED <<call, last, before>>

\* *dst = '\0', if there is room for anything
Terminator == IF call.size # 0 THEN Put(Nul) ELSE UNCHANGED mem

CopyFull ==
  /\ pc = "copy" /\ ~ RoomLeft
  /\ Terminator
  /\ n' = 0 /\ pc' = "rest"
  /\ UNCHANGED <<call, d, s, mark, last, ret, before>>

\* while (*src++)
Rest ==
  /\ pc = "rest"
  /\ IF Src(s) = Nul THEN Return(s) ELSE s' = s + 1 /\ UNCHANGED <<pc, d, n, mark, ret>>
  /\ UNCHANGED <<call, mem, last, before>>

-----------------------------------------------------------------------------
(* strlcat                                                                 *)

FindEnd ==
  /\ pc = "end" /\ n # 0 /\ mem[d] # Nul
  /\ d' = d + 1 /\ n' = n - 1
  /\ UNCHANGED <<pc, call, s, mark, mem, last, ret, before>>

\* (variant) the terminator is not taken off the room
WholeRoom == call.size - d
\* n-- of the room behind the end
Room == call.size - d - 1

EndFound ==
  /\ pc = "end" /\ (n # 0 => mem[d] = Nul)
  /\ IF call.size = d
     THEN Return(d + Len(call.src))
     ELSE n' = Room /\ mark' = d /\ pc' = "append" /\ UNCHANGED <<d, s, ret>>
  /\ UNCHANGED <<call, mem, last, before>>

Append1 ==
  /\ pc = "append" /\ Src(s) # Nul
  /\ s' = s + 1
  /\ IF n # 0 THEN Put(Src(s)) /\ d' = d + 1 /\ n' = n - 1
              ELSE UNCHANGED <<mem, d, n>>
  /\ UNCHANGED <<pc, call, mark, last, ret, before>>

\* dlen + (src - osrc)
WholeLength == mark + s

AppendEnd ==
  /\ pc = "append" /\ Src(s) = Nul
  /\ Put(Nul) /\ Return(WholeLength)
  /\ UNCHANGED <<call, last, before>>

-----------------------------------------------------------------------------
(* strtok_r                                                                *)

\* (variant) the NUL of delim is compared as well
SkippedAndNul == call.delim \cup {Nul}
\* the first loop stops in front of the NUL of delim
Skipped == call.delim

\* cont: ... goto cont
Skip ==
  /\ pc = "skip" /\ mem[d] \in Skipped
  /\ d' = d + 1
  /\ UNCHANGED <<pc, call, s, n, mark, mem, last, ret, before>>

NoToken ==
  /\ pc = "skip" /\ mem[d] = Nul
  /\ last' = NULL /\ Return(NULL)
  /\ UNCHANGED <<call, mem, before>>

TokenStart ==
  /\ pc = "skip" /\ mem[d] \notin call.delim \cup {Nul}
  /\ mark' = d /\ d' = d + 1 /\ pc' = "scan"
  /\ UNCHANGED <<call, s, n, mem, last, ret, before>>

ScanOn ==
  /\ pc = "scan" /\ mem[d] \notin call.delim \cup {Nul}
  /\ d' = d + 1
  /\ UNCHANGED <<pc, call, s, n, mark, mem, last, ret, before>>

\* (variant) the new NUL is saved
SavedNul == IF mem[d] = Nul THEN NULL ELSE d
\* what is saved: where the next call goes on, NULL behind the last token
Saved == IF mem[d] = Nul THEN NULL ELSE d + 1

TokenEnd ==
  /\ pc = "scan" /\ mem[d] \in call.delim \cup {Nul}
  /\ Put(Nul) /\ last' = Saved /\ Return(mark)
  /\ UNCHANGED <<call, before>>

-----------------------------------------------------------------------------
(* Searching and comparing: one round of the loop of each function.        *)

Looking(fn) == pc = "look" /\ call.fn = fn /\ UNCHANGED <<call, mem, last, before>>

\* the next round
On(step, count, save) ==
  /\ d' = d + step /\ s' = s + 1 /\ n' = count /\ mark' = save
  /\ UNCHANGED <<pc, ret>>

Strlen ==
  /\ Looking("strlen")
  /\ IF mem[d] # Nul THEN On(1, n, mark) ELSE Return(d)

Strnlen ==
  /\ Looking("strnlen")
  /\ IF d < call.size /\ mem[d] # Nul THEN On(1, n, mark) ELSE Return(d)

\* c = ch, (unsigned char)c
Needle == call.ch % 256

Strchr ==
  /\ Looking("strchr")
  /\ CASE mem[d] = Needle -> Return(d)
       [] mem[d] # Needle /\ mem[d] = Nul -> Return(NULL)
       [] OTHER -> On(1, n, mark)

Strrchr ==
  /\ Looking("strrchr")
  /\ LET save == IF mem[d] = Needle THEN d ELSE mark
     IN  IF mem[d] = Nul THEN Return(save) ELSE On(1, n, save)

\* while (len--) of memchr and of memrchr, in its direction
Search(step) ==
  IF n = 0 THEN Return(NULL)
  ELSE IF mem[d] = Needle THEN Return(d) ELSE On(step, n - 1, mark)

Memchr  == Looking("memchr") /\ Search(1)
Memrchr == Looking("memrchr") /\ Search(-1)

\* (variant) the characters are signed
SignedDifference(a, b) ==
  LET signed(c) == IF c > 127 THEN c - 256 ELSE c IN signed(a) - signed(b)
\* *(const unsigned char *)s1 - *(const unsigned char *)(s2 - 1), sc - dc
Difference(a, b) == a - b

Memcmp ==
  /\ Looking("memcmp")
  /\ IF n = 0 THEN Return(0)
     ELSE IF mem[d] # Src(s) THEN Return(Difference(mem[d], Src(s))) ELSE On(1, n - 1, mark)

Strcmp ==
  /\ Looking("strcmp")
  /\ IF mem[d] # Src(s) THEN Return(Difference(mem[d], Src(s)))
     ELSE IF mem[d] = Nul THEN Return(0) ELSE On(1, n, mark)

Strncmp ==
  /\ Looking("strncmp")
  /\ IF n = 0 THEN Return(0)
     ELSE IF mem[d] # Src(s) THEN Return(Difference(mem[d], Src(s)))
     ELSE IF mem[d] = Nul THEN Return(0) ELSE On(1, n - 1, mark)

-----------------------------------------------------------------------------
Calls == \/ \E src \in Sources, size \in 0 .. Cap :
              CallStrlcpy(src, size) \/ CallStrlcat(src, size)
         \/ \E delim \in Delims : CallStrtok(delim) \/ CallStrtokAgain(delim)
         \/ \E c \in Scans : CallScan(c)
Step  == CopyByte \/ CopyFull \/ Rest \/ FindEnd \/ EndFound \/ Append1 \/ AppendEnd
         \/ Skip \/ NoToken \/ TokenStart \/ ScanOn \/ TokenEnd
Look  == Strlen \/ Strnlen \/ Strchr \/ Strrchr \/ Memchr \/ Memrchr
         \/ Memcmp \/ Strcmp \/ Strncmp
Next  == Calls \/ Step \/ Look

Spec == Init /\ [][Next]_vars

-----------------------------------------------------------------------------
\* the byte a search or comparison reads next, if it reads one
Reads == CASE call.fn \in {"strlen", "strchr", "strrchr", "strcmp"} -> TRUE
           [] call.fn = "strnlen" -> d < call.size
           [] OTHER -> n # 0

\* No function reads or writes behind the buffer or behind the end of its source, the
\* next strtok_r of a buffer that was filled anew included, nor does a search or a
\* comparison read beyond its size or behind the NUL it has to stop at.
StaysInside ==
  /\ pc = "look" /\ Reads =>
       /\ d \in Index
       /\ "size" \in DOMAIN call => d < call.size
       /\ "src" \in DOMAIN call => s <= Len(call.src)
  /\ (pc = "copy" /\ RoomLeft) \/ pc \in {"append", "skip", "scan"} => d \in Index
  /\ pc = "end" /\ n # 0 => d \in Index
  /\ pc \in {"copy", "rest", "append"} => s <= Len(call.src)

\* Between two calls a string goes on from the saved pointer: there is a NUL at or
\* behind it, whatever was copied or appended since strtok_r saved it.
SavedPointerSafe ==
  pc = "caller" /\ last # NULL => \E i \in last .. Cap - 1 : mem[i] = Nul

\* The buffer with a string put at a place and a terminator behind it.
With(old, at, str) ==
  [i \in Index |-> IF i < at \/ i > at + Len(str) THEN old[i]
                   ELSE IF i = at + Len(str) THEN Nul ELSE str[i - at + 1]]
FirstOf(str, k) == SubSeq(str, 1, k)
Least(a, b)     == IF a < b THEN a ELSE b

\* characters in front of the first NUL, at most k
Length(buf, k) == Max({l \in 0 .. k : \A i \in 0 .. l - 1 : buf[i] # Nul})

\* strlcpy and strlcat as their comments say.  Of dsize characters, those in front of
\* the string stay, the source is put behind them as far as it fits with a terminator,
\* and nothing else is touched; without room for a terminator nothing is.  The result
\* is the length that was wanted, strlen(src) and MIN(dsize, strlen(initial dst)).
CopiesAsDocumented ==
  pc = "caller" /\ call \in Writes =>
    LET at == IF call.fn = "strlcpy" THEN 0 ELSE Length(before, call.size)
    IN  /\ ret = Len(call.src) + at
        /\ mem = IF call.size = at THEN before
                 ELSE With(before, at,
                           FirstOf(call.src, Least(Len(call.src), call.size - at - 1)))

\* places of the needle in the string with its NUL, or in the first bytes
Hits == {i \in Index : /\ before[i] = Needle
                       /\ i <= IF "size" \in DOMAIN call THEN call.size - 1
                                                        ELSE Length(before, Cap)}
\* places where buffer and source differ, up to the first NUL for the strings
Differing == {i \in Index : /\ before[i] # Src(i)
                            /\ "size" \in DOMAIN call => i < call.size
                            /\ call.fn # "memcmp" => \A j \in 0 .. i - 1 : before[j] # Nul}

\* what a search or comparison should return
Declared ==
  CASE call.fn = "strlen"  -> Length(before, Cap)
    [] call.fn = "strnlen" -> Length(before, call.size)
    [] call.fn \in {"strchr", "memchr"} -> IF Hits = {} THEN NULL ELSE Min(Hits)
    [] call.fn \in {"strrchr", "memrchr"} -> IF Hits = {} THEN NULL ELSE Max(Hits)
    [] OTHER -> IF Differing = {} THEN 0 ELSE before[Min(Differing)] - Src(Min(Differing))

\* The searches return the first or the last place, the comparisons the difference of
\* the first bytes that differ, taken as unsigned, and none of them writes anything.
ScansAsDeclared == pc = "caller" /\ call \in Scans => mem = before /\ ret = Declared

\* The first place from a on with one of the characters C.
FirstIn(buf, a, C) == Min({i \in a .. Cap - 1 : buf[i] \in C})

\* strtok_r returns the first longest piece without delimiters from where it starts,
\* ends it with a NUL, saves the place behind it unless the string ended there, and
\* leaves the rest of the buffer alone.
TokensAreMaximal ==
  pc = "caller" /\ call.fn = "strtok_r" =>
    IF call.from = NULL THEN ret = NULL /\ last = NULL /\ mem = before
    ELSE LET tok == FirstIn(before, call.from, (Letter \ call.delim) \cup {Nul})
             end == FirstIn(before, tok, call.delim \cup {Nul})
         IN  IF before[tok] = Nul
             THEN ret = NULL /\ last = NULL /\ mem = before
             ELSE /\ ret = tok /\ mem = [before EXCEPT ![end] = Nul]
                  /\ last = IF before[end] = Nul THEN NULL ELSE end + 1

=============================================================================
