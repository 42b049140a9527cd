---------------------------- MODULE Strings_proofs ----------------------------
(* Theorems about Strings, for a buffer of any size, any strings and any sequence of *)
(* calls.                                                                            *)
EXTENDS Strings, WellFoundedInduction, TLAPS

\* there is a NUL at or behind k
NulFrom(k) == \E i \in Index : k <= i /\ mem[i] = Nul

\* functions that search or compare, those among them that rely on a NUL, those that
\* are given a size or another string
Unsized  == {"strlen", "strchr", "strrchr", "strcmp"}
Counting == {"memchr", "strncmp", "memcmp"}
ScanFns  == Unsized \cup Counting \cup {"strnlen", "memrchr"}
Sized    == {"strlcpy", "strlcat", "strnlen", "memchr", "memrchr", "strncmp", "memcmp"}
Sourced  == {"strlcpy", "strlcat", "strcmp", "strncmp", "memcmp"}

\* how far each loop has come
CopyPos   == pc = "copy" => /\ call.fn = "strlcpy" /\ d >= 0 /\ n = call.size - d
                            /\ call.size # 0 => n # 0
                            /\ s <= Len(call.src)
RestPos   == pc = "rest" => call.fn = "strlcpy" /\ s <= Len(call.src)
EndPos    == pc = "end" => call.fn = "strlcat" /\ d >= 0 /\ d + n = call.size /\ s = 0
AppendPos == pc = "append" => /\ call.fn = "strlcat" /\ d >= 0 /\ d + n = call.size - 1
                              /\ s <= Len(call.src) /\ mark # NULL
CutPos    == pc \in {"skip", "scan"} => /\ call.fn = "strtok_r" /\ d >= 0 /\ NulFrom(d)
                                        /\ pc = "scan" => mark # NULL
LookPos   ==
  pc = "look" =>
    /\ call.fn \in ScanFns
    /\ call.fn \in Unsized => d >= 0 /\ NulFrom(d)
    /\ call.fn = "strnlen" => d >= 0 /\ d <= call.size
    /\ call.fn \in Counting => d >= 0 /\ d + n = call.size
    /\ call.fn = "memrchr" => d = n - 1 /\ n <= call.size
    /\ call.fn \in {"strcmp", "strncmp"} => s <= Len(call.src)
    /\ call.fn = "memcmp" => s = d /\ call.size <= Len(call.src) + 1
Place == CopyPos /\ RestPos /\ EndPos /\ AppendPos /\ CutPos /\ LookPos

\* The saved pointer has a NUL behind it, or will have one: a copy that has gone beyond
\* it ends in a NUL.
SavedOrWritten == last # NULL => NulFrom(last) \/ (pc \in {"copy", "append"} /\ d > last)

\* The inductive invariant: between calls the saved pointer is safe only because of what
\* holds while the characters under it are being replaced.
IInv == TypeOK /\ Place /\ SavedOrWritten

LEMMA WhatCallsHave ==
  ASSUME NEW c \in Call
  PROVE  /\ c.fn \in ScanFns \cup {"strlcpy", "strlcat", "strtok_r"}
         /\ c.fn \in Sized => c.size \in 0 .. Cap
         /\ c.fn \in Sourced => c.src \in Seq(Letter)
         /\ "size" \in DOMAIN c <=> c.fn \in Sized
         /\ "src" \in DOMAIN c <=> c.fn \in Sourced
<1>1. CASE c \in Writes
  BY <1>1, CallsAssumption DEF Writes, ScanFns, Unsized, Counting, Sized, Sourced
<1>2. CASE c \in Cuts
  BY <1>2 DEF Cuts, ScanFns, Unsized, Counting, Sized, Sourced
<1>3. CASE c \in Scans
  BY <1>3, CallsAssumption DEF Scans, ScanFns, Unsized, Counting, Sized, Sourced
<1>4. QED
  BY <1>1, <1>2, <1>3 DEF Call

LEMMA SrcFacts ==
  ASSUME call.src \in Seq(Letter)
  PROVE  /\ Len(call.src) \in Nat
         /\ \A k \in Nat : /\ Src(k) \in Letter \cup {Nul}
                           /\ Src(k) = Nul <=> k >= Len(call.src)
BY BufferAssumption DEF Src, Nul

\* types in plain sets
LEMMA Facts ==
  ASSUME TypeOK
  PROVE  /\ Cap \in Nat \ {0} /\ NULL \notin Int /\ Index = 0 .. Cap - 1
         /\ d \in -1 .. Cap /\ s \in Nat /\ n \in 0 .. Cap
         /\ mem \in [Index -> Letter \cup {Nul}]
         /\ \A i \in Index : mem[i] \in Int
         /\ last # NULL => last \in Index
<1>1. Cap \in Nat \ {0} /\ NULL \notin Int /\ Index = 0 .. Cap - 1
  BY BufferAssumption DEF Index
<1>2. /\ d \in -1 .. Cap /\ s \in Nat /\ n \in 0 .. Cap
      /\ mem \in [Index -> Letter \cup {Nul}]
      /\ last # NULL => last \in Index
  BY DEF TypeOK, Pointer
<1>3. Letter \cup {Nul} \subseteq Int
  BY BufferAssumption DEF Nul
<1>4. \A i \in Index : mem[i] \in Int
  BY <1>2, <1>3
<1>5. QED
  BY <1>1, <1>2, <1>4

\* A call that returns leaves nothing to be shown of its loop.
LEMMA ReturnInv ==
  ASSUME TypeOK, NEW v \in Int \cup {NULL}, Return(v),
         UNCHANGED <<call, before>>,
         mem' \in [Index -> Letter \cup {Nul}],
         last' \in Pointer, last' # NULL => NulFrom(last)'
  PROVE  IInv'
<1>1. pc' = "caller" /\ ret' = v /\ d' = 0 /\ s' = 0 /\ n' = 0 /\ mark' = NULL
  BY DEF Return, NoLocals
<1>2. TypeOK'
  BY <1>1, Facts DEF TypeOK
<1>3. Place'
  BY <1>1 DEF Place, CopyPos, RestPos, EndPos, AppendPos, CutPos, LookPos
<1>4. SavedOrWritten'
  BY DEF SavedOrWritten
<1>5. QED
  BY <1>2, <1>3, <1>4 DEF IInv

\* A put of a character at d leaves the saved pointer safe, or the copy is beyond it.
LEMMA PutKeeps ==
  ASSUME TypeOK, d \in Index, NEW c \in Letter \cup {Nul}, Put(c), last' = last,
         last # NULL => NulFrom(last) \/ d > last
  PROVE  /\ mem' \in [Index -> Letter \cup {Nul}]
         /\ last # NULL => NulFrom(last)' \/ d + 1 > last
         /\ c = Nul /\ last # NULL => NulFrom(last)'
<1>1. mem' = [mem EXCEPT ![d] = c]
  BY DEF Put
<1>2. mem' \in [Index -> Letter \cup {Nul}]
  BY <1>1, Facts
<1>3. mem'[d] = c /\ \A i \in Index : i # d => mem'[i] = mem[i]
  BY <1>1, Facts
<1>4. ASSUME last # NULL
      PROVE  (NulFrom(last)' \/ d + 1 > last) /\ (c = Nul => NulFrom(last)')
  <2>1. last \in Index /\ Index \subseteq Int
    BY <1>4, Facts
  <2>2. CASE d >= last
    <3>1. c = Nul => NulFrom(last)'
      BY <1>3, <2>1, <2>2 DEF NulFrom
    <3>2. d + 1 > last
      BY <2>1, <2>2
    <3>3. QED
      BY <3>1, <3>2
  <2>3. CASE ~ (d >= last)
    <3>1. ~ (d > last)
      BY <2>1, <2>3
    <3>2. PICK i \in Index : last <= i /\ mem[i] = Nul
      BY <1>4, <3>1 DEF NulFrom
    <3>3. i # d
      BY <2>3, <3>2
    <3>4. NulFrom(last)'
      BY <1>3, <3>2, <3>3 DEF NulFrom
    <3>5. QED
      BY <3>4
  <2>4. QED
    BY <2>2, <2>3
<1>5. QED
  BY <1>2, <1>4

LEMMA InitInv == Init => IInv
<1>. SUFFICES ASSUME Init PROVE IInv
  OBVIOUS
<1>1. pc = "caller" /\ d = 0 /\ s = 0 /\ n = 0 /\ mark = NULL /\ last = NULL
  BY DEF Init
<1>2. call \in Call /\ call.fn = "strlcpy" /\ ret = Len(call.src)
  BY DEF Init, Call
<1>3. ret \in Int
  <2>1. call.src \in Seq(Letter)
    BY <1>2, WhatCallsHave DEF Sourced
  <2>2. QED
    BY <1>2, <2>1, SrcFacts
<1>4. TypeOK
  BY <1>1, <1>2, <1>3, BufferAssumption DEF Init, TypeOK, Pointer
<1>5. Place /\ SavedOrWritten
  BY <1>1 DEF Place, CopyPos, RestPos, EndPos, AppendPos, CutPos, LookPos, SavedOrWritten
<1>6. QED
  BY <1>4, <1>5 DEF IInv

-----------------------------------------------------------------------------
(* The calls                                                               *)

LEMMA EnterInv ==
  ASSUME IInv, NEW c \in Call, NEW where \in {"copy", "end", "skip", "look"},
         NEW from \in -1 .. Cap, NEW count \in 0 .. Cap, Enter(c, where, from, count)
  PROVE  /\ TypeOK' /\ SavedOrWritten'
         /\ pc' = where /\ call' = c /\ d' = from /\ n' = count /\ s' = 0 /\ mem' = mem
<1>1. /\ pc = "caller" /\ pc' = where /\ call' = c /\ d' = from /\ n' = count
      /\ s' = 0 /\ mark' = NULL /\ before' = mem /\ UNCHANGED <<mem, last, ret>>
  BY DEF Enter
<1>2. TypeOK'
  BY <1>1 DEF IInv, TypeOK
<1>3. SavedOrWritten'
  BY <1>1 DEF IInv, SavedOrWritten, NulFrom
<1>4. QED
  BY <1>1, <1>2, <1>3

LEMMA StringHasNul ==
  ASSUME TypeOK, IsString
  PROVE  NulFrom(0)
BY Facts DEF IsString, NulFrom

LEMMA CallWriteInv ==
  ASSUME IInv, NEW src \in Sources, NEW size \in 0 .. Cap,
         CallStrlcpy(src, size) \/ CallStrlcat(src, size)
  PROVE  IInv'
<1>0. /\ Cap \in Nat /\ TypeOK /\ src \in Seq(Letter) /\ Len(src) \in Nat
      /\ 0 \in -1 .. Cap
  BY Facts, CallsAssumption DEF IInv
<1>1. CASE CallStrlcpy(src, size)
  <2>. DEFINE c == [fn |-> "strlcpy", src |-> src, size |-> size]
  <2>1. c \in Call /\ c.fn = "strlcpy" /\ c.src = src /\ c.size = size
    BY DEF Call, Writes
  <2>. HIDE DEF c
  <2>2. Enter(c, "copy", 0, size)
    BY <1>1 DEF CallStrlcpy, c
  <2>3. /\ TypeOK' /\ SavedOrWritten'
        /\ pc' = "copy" /\ call' = c /\ d' = 0 /\ n' = size /\ s' = 0
    BY <1>0, <2>1, <2>2, EnterInv
  <2>4. Place'
    BY <1>0, <2>1, <2>3 DEF Place, CopyPos, RestPos, EndPos, AppendPos, CutPos, LookPos
  <2>5. QED
    BY <2>3, <2>4 DEF IInv
<1>2. CASE CallStrlcat(src, size)
  <2>. DEFINE c == [fn |-> "strlcat", src |-> src, size |-> size]
  <2>1. c \in Call /\ c.fn = "strlcat" /\ c.src = src /\ c.size = size
    BY DEF Call, Writes
  <2>. HIDE DEF c
  <2>2. Enter(c, "end", 0, size)
    BY <1>2 DEF CallStrlcat, c
  <2>3. /\ TypeOK' /\ SavedOrWritten'
        /\ pc' = "end" /\ call' = c /\ d' = 0 /\ n' = size /\ s' = 0
    BY <1>0, <2>1, <2>2, EnterInv
  <2>4. Place'
    BY <1>0, <2>1, <2>3 DEF Place, CopyPos, RestPos, EndPos, AppendPos, CutPos, LookPos
  <2>5. QED
    BY <2>3, <2>4 DEF IInv
<1>3. QED
  BY <1>1, <1>2

LEMMA CutInv ==
  ASSUME IInv, NEW from \in Index, NulFrom(from), NEW delim \in Delims,
         Enter([fn |-> "strtok_r", from |-> from, delim |-> delim], "skip", from, 0)
  PROVE  IInv'
<1>. DEFINE c == [fn |-> "strtok_r", from |-> from, delim |-> delim]
<1>1. c \in Call /\ c.fn = "strtok_r"
  BY DEF Call, Cuts, Pointer
<1>. HIDE DEF c
<1>2. from \in -1 .. Cap /\ 0 \in 0 .. Cap /\ from >= 0
  BY Facts DEF IInv
<1>3. /\ TypeOK' /\ SavedOrWritten'
      /\ pc' = "skip" /\ call' = c /\ d' = from /\ mem' = mem
  <2>1. Enter(c, "skip", from, 0)
    BY DEF c
  <2>2. QED
    BY <1>1, <1>2, <2>1, EnterInv
<1>4. Place'
  BY <1>1, <1>2, <1>3 DEF Place, CopyPos, RestPos, EndPos, AppendPos, CutPos, LookPos, NulFrom
<1>5. QED
  BY <1>3, <1>4 DEF IInv

LEMMA CallCutInv ==
  ASSUME IInv, NEW delim \in Delims, CallStrtok(delim) \/ CallStrtokAgain(delim)
  PROVE  IInv'
<1>0. TypeOK /\ 0 \in Index
  BY Facts DEF IInv
<1>1. CASE CallStrtok(delim)
  BY <1>0, <1>1, StringHasNul, CutInv DEF CallStrtok
<1>2. CASE CallStrtokAgain(delim) /\ last # NULL
  <2>1. Enter([fn |-> "strtok_r", from |-> last, delim |-> delim], "skip", last, 0)
    BY <1>2 DEF CallStrtokAgain
  <2>2. pc = "caller"
    BY <2>1 DEF Enter
  <2>3. last \in Index /\ NulFrom(last)
    BY <1>0, <1>2, <2>2, Facts DEF IInv, SavedOrWritten
  <2>4. QED
    BY <2>1, <2>3, CutInv
<1>3. CASE CallStrtokAgain(delim) /\ last = NULL
  <2>. DEFINE c == [fn |-> "strtok_r", from |-> last, delim |-> delim]
  <2>1. c \in Call
    BY <1>3 DEF Call, Cuts, Pointer
  <2>. HIDE DEF c
  <2>2. /\ pc = "caller" /\ call' = c /\ ret' = NULL /\ before' = mem
        /\ d' = 0 /\ s' = 0 /\ n' = 0 /\ mark' = NULL /\ UNCHANGED <<pc, mem, last>>
    BY <1>3 DEF CallStrtokAgain, NoLocals, c
  <2>3. TypeOK'
    BY <1>0, <2>1, <2>2, Facts DEF TypeOK
  <2>4. Place'
    BY <2>2 DEF Place, CopyPos, RestPos, EndPos, AppendPos, CutPos, LookPos
  <2>5. SavedOrWritten'
    BY <1>3, <2>2 DEF SavedOrWritten
  <2>6. QED
    BY <2>3, <2>4, <2>5 DEF IInv
<1>4. QED
  BY <1>1, <1>2, <1>3

LEMMA CallScanInv ==
  ASSUME IInv, NEW c \in Scans, CallScan(c)
  PROVE  IInv'
<1>0. TypeOK /\ Cap \in Nat
  BY Facts DEF IInv
<1>1. c \in Call /\ c.fn \in ScanFns
  BY DEF Call, Scans, ScanFns, Unsized, Counting
<1>2. /\ c.fn \in Sized => c.size \in 0 .. Cap
      /\ c.fn \in Sourced => c.src \in Seq(Letter) /\ Len(c.src) \in Nat
      /\ "size" \in DOMAIN c <=> c.fn \in Sized
  BY <1>1, WhatCallsHave
<1>. DEFINE count == IF "size" \in DOMAIN c THEN c.size ELSE 0
<1>3. /\ First(c) \in -1 .. Cap /\ count \in 0 .. Cap
      /\ c.fn \in Sized => count = c.size
      /\ c.fn = "memrchr" => First(c) = c.size - 1
      /\ c.fn # "memrchr" => First(c) = 0
  BY <1>0, <1>2 DEF First, Sized
<1>4. Enter(c, "look", First(c), count)
  BY DEF CallScan
<1>. HIDE DEF count
<1>5. /\ TypeOK' /\ SavedOrWritten'
      /\ pc' = "look" /\ call' = c /\ d' = First(c) /\ n' = count /\ s' = 0 /\ mem' = mem
  BY <1>1, <1>3, <1>4, EnterInv
<1>6. c.fn \in Unsized => NulFrom(0)
  BY <1>0, StringHasNul DEF CallScan, Unsized
<1>7. c.fn = "memcmp" => c.size <= Len(c.src) + 1
  BY DEF CallScan
<1>8. LookPos'
  <2>1. c.fn \in Unsized => d' >= 0 /\ NulFrom(d)'
    BY <1>3, <1>5, <1>6 DEF Unsized, NulFrom
  <2>2. c.fn = "strnlen" => d' >= 0 /\ d' <= c.size
    BY <1>0, <1>2, <1>3, <1>5 DEF Sized
  <2>3. c.fn \in Counting => d' >= 0 /\ d' + n' = c.size
    BY <1>0, <1>2, <1>3, <1>5 DEF Sized, Counting
  <2>4. c.fn = "memrchr" => d' = n' - 1 /\ n' <= c.size
    BY <1>0, <1>2, <1>3, <1>5 DEF Sized
  <2>5. c.fn \in {"strcmp", "strncmp"} => s' <= Len(c.src)
    BY <1>2, <1>5 DEF Sourced
  <2>6. c.fn = "memcmp" => s' = d'
    BY <1>3, <1>5
  <2>7. QED
    BY <1>1, <1>5, <1>7, <2>1, <2>2, <2>3, <2>4, <2>5, <2>6 DEF LookPos
<1>9. Place'
  BY <1>5, <1>8 DEF Place, CopyPos, RestPos, EndPos, AppendPos, CutPos
<1>10. QED
  BY <1>5, <1>9 DEF IInv

-----------------------------------------------------------------------------
(* The steps of strlcpy and strlcat                                        *)

LEMMA CopyByteInv == IInv /\ CopyByte => IInv'
<1>. SUFFICES ASSUME IInv, CopyByte PROVE IInv'
  OBVIOUS
<1>1. /\ pc = "copy" /\ n > 1 /\ Put(Src(s)) /\ UNCHANGED <<call, last, before>>
      /\ IF Src(s) = Nul THEN Return(s)
         ELSE d' = d + 1 /\ s' = s + 1 /\ n' = n - 1 /\ UNCHANGED <<pc, mark, ret>>
  BY DEF CopyByte, RoomLeft
<1>2. /\ TypeOK /\ call.fn = "strlcpy" /\ d >= 0 /\ n = call.size - d /\ s <= Len(call.src)
      /\ last # NULL => NulFrom(last) \/ d > last
  BY <1>1 DEF IInv, Place, CopyPos, SavedOrWritten
<1>3. call \in Call /\ call.size \in 0 .. Cap /\ call.src \in Seq(Letter)
  BY <1>2, WhatCallsHave DEF TypeOK, Sized, Sourced
<1>4. /\ d \in Index /\ d \in Nat /\ s \in Nat /\ n \in Nat /\ Cap \in Nat
      /\ last # NULL => last \in Int
  BY <1>1, <1>2, <1>3, Facts
<1>5. Src(s) \in Letter \cup {Nul} /\ (Src(s) # Nul => s + 1 <= Len(call.src))
  BY <1>3, <1>4, SrcFacts
<1>6. /\ mem' \in [Index -> Letter \cup {Nul}]
      /\ last # NULL => NulFrom(last)' \/ d + 1 > last
      /\ Src(s) = Nul /\ last # NULL => NulFrom(last)'
  BY <1>1, <1>2, <1>4, <1>5, PutKeeps
<1>7. CASE Src(s) = Nul
  <2>1. last' \in Pointer /\ (last' # NULL => NulFrom(last)')
    BY <1>1, <1>2, <1>6, <1>7 DEF TypeOK
  <2>2. QED
    BY <1>1, <1>2, <1>4, <1>6, <1>7, <2>1, ReturnInv
<1>8. CASE Src(s) # Nul
  <2>1. d' = d + 1 /\ s' = s + 1 /\ n' = n - 1 /\ UNCHANGED <<pc, mark, ret>>
    BY <1>1, <1>8
  <2>2. d' \in -1 .. Cap /\ s' \in Nat /\ n' \in 0 .. Cap
    <3>1. ASSUME NEW a \in Nat, NEW b \in 0 .. Cap, Cap \in Nat, b - a > 1
          PROVE  a + 1 \in -1 .. Cap /\ b - a - 1 \in 0 .. Cap
      BY <3>1
    <3>2. d + 1 \in -1 .. Cap /\ n - 1 \in 0 .. Cap
      BY <1>1, <1>2, <1>3, <1>4, <3>1
    <3>3. s + 1 \in Nat
      BY <1>4
    <3>4. QED
      BY <2>1, <3>2, <3>3
  <2>3. TypeOK'
    BY <1>1, <1>2, <1>6, <2>1, <2>2 DEF TypeOK
  <2>4. CopyPos'
    BY <1>1, <1>2, <1>3, <1>4, <1>5, <1>8, <2>1 DEF CopyPos
  <2>5. Place'
    BY <1>1, <2>1, <2>4 DEF Place, RestPos, EndPos, AppendPos, CutPos, LookPos
  <2>6. SavedOrWritten'
    BY <1>1, <1>6, <2>1 DEF SavedOrWritten, NulFrom
  <2>7. QED
    BY <2>3, <2>5, <2>6 DEF IInv
<1>9. QED
  BY <1>7, <1>8

LEMMA CopyFullInv == IInv /\ CopyFull => IInv'
<1>. SUFFICES ASSUME IInv, CopyFull PROVE IInv'
  OBVIOUS
<1>1. /\ pc = "copy" /\ ~ (n > 1) /\ n' = 0 /\ pc' = "rest"
      /\ UNCHANGED <<call, d, s, mark, last, ret, before>>
      /\ IF call.size # 0 THEN Put(Nul) ELSE UNCHANGED mem
  BY DEF CopyFull, RoomLeft, Terminator
<1>2. /\ TypeOK /\ call.fn = "strlcpy" /\ d >= 0 /\ n = call.size - d /\ s <= Len(call.src)
      /\ call.size # 0 => n # 0
      /\ last # NULL => NulFrom(last) \/ d > last
  BY <1>1 DEF IInv, Place, CopyPos, SavedOrWritten
<1>3. call \in Call /\ call.size \in 0 .. Cap
  BY <1>2, WhatCallsHave DEF TypeOK, Sized
<1>4. /\ d \in Nat /\ n \in Nat /\ Cap \in Nat \ {0}
      /\ last # NULL => last \in Nat
  BY <1>2, Facts
<1>5. mem' \in [Index -> Letter \cup {Nul}] /\ (last # NULL => NulFrom(last)')
  <2>1. CASE call.size # 0
    <3>1. d \in Index /\ Put(Nul)
      BY <1>1, <1>2, <1>3, <1>4, <2>1 DEF Index
    <3>2. QED
      BY <1>1, <1>2, <3>1, PutKeeps
  <2>2. CASE call.size = 0
    <3>1. d = 0 /\ mem' = mem
      BY <1>1, <1>2, <1>3, <1>4, <2>2
    <3>2. last # NULL => NulFrom(last)
      BY <1>2, <1>4, <3>1
    <3>3. QED
      BY <1>1, <1>2, <3>1, <3>2, Facts DEF NulFrom
  <2>3. QED
    BY <2>1, <2>2
<1>6. TypeOK'
  BY <1>1, <1>2, <1>4, <1>5 DEF TypeOK
<1>7. Place'
  BY <1>1, <1>2 DEF Place, CopyPos, RestPos, EndPos, AppendPos, CutPos, LookPos
<1>8. SavedOrWritten'
  BY <1>1, <1>5 DEF SavedOrWritten, NulFrom
<1>9. QED
  BY <1>6, <1>7, <1>8 DEF IInv

LEMMA RestInv == IInv /\ Rest => IInv'
<1>. SUFFICES ASSUME IInv, Rest PROVE IInv'
  OBVIOUS
<1>1. /\ pc = "rest" /\ UNCHANGED <<call, mem, last, before>>
      /\ IF Src(s) = Nul THEN Return(s) ELSE s' = s + 1 /\ UNCHANGED <<pc, d, n, mark, ret>>
  BY DEF Rest
<1>2. /\ TypeOK /\ call.fn = "strlcpy" /\ s <= Len(call.src)
      /\ last # NULL => NulFrom(last)
  BY <1>1 DEF IInv, Place, RestPos, SavedOrWritten
<1>3. call \in Call /\ call.src \in Seq(Letter)
  BY <1>2, WhatCallsHave DEF TypeOK, Sourced
<1>4. s \in Nat /\ mem \in [Index -> Letter \cup {Nul}]
  BY <1>2, Facts
<1>5. last # NULL => NulFrom(last)'
  BY <1>1, <1>2 DEF NulFrom
<1>6. CASE Src(s) = Nul
  <2>1. last' \in Pointer
    BY <1>1, <1>2 DEF TypeOK
  <2>2. QED
    BY <1>1, <1>2, <1>4, <1>5, <1>6, <2>1, ReturnInv
<1>7. CASE Src(s) # Nul
  <2>1. s' = s + 1 /\ UNCHANGED <<pc, d, n, mark, ret>>
    BY <1>1, <1>7
  <2>2. TypeOK'
    BY <1>1, <1>2, <1>4, <2>1 DEF TypeOK
  <2>3. s' <= Len(call.src)
    BY <1>3, <1>4, <1>7, <2>1, SrcFacts
  <2>4. Place'
    BY <1>1, <1>2, <2>1, <2>3 DEF Place, CopyPos, RestPos, EndPos, AppendPos, CutPos, LookPos
  <2>5. SavedOrWritten'
    BY <1>1, <1>5 DEF SavedOrWritten, NulFrom
  <2>6. QED
    BY <2>2, <2>4, <2>5 DEF IInv
<1>8. QED
  BY <1>6, <1>7

\* what is known while strlcat looks for the end
LEMMA AtEnd ==
  ASSUME IInv, pc = "end"
  PROVE  /\ TypeOK /\ call.fn = "strlcat" /\ d + n = call.size /\ call.size \in 0 .. Cap /\ s = 0
         /\ call.src \in Seq(Letter) /\ Len(call.src) \in Nat
         /\ d \in Nat /\ n \in Nat /\ Cap \in Nat \ {0} /\ d <= call.size
         /\ last # NULL => NulFrom(last)
<1>1. /\ TypeOK /\ call.fn = "strlcat" /\ d >= 0 /\ d + n = call.size /\ s = 0
      /\ last # NULL => NulFrom(last)
  BY DEF IInv, Place, EndPos, SavedOrWritten
<1>2. call \in Call /\ call.size \in 0 .. Cap /\ call.src \in Seq(Letter)
  BY <1>1, WhatCallsHave DEF TypeOK, Sized, Sourced
<1>3. d \in Nat /\ n \in Nat /\ Cap \in Nat \ {0}
  BY <1>1, Facts
<1>4. QED
  BY <1>1, <1>2, <1>3

LEMMA FindEndInv == IInv /\ FindEnd => IInv'
<1>. SUFFICES ASSUME IInv, FindEnd PROVE IInv'
  OBVIOUS
<1>1. /\ pc = "end" /\ n # 0 /\ d' = d + 1 /\ n' = n - 1
      /\ UNCHANGED <<pc, call, s, mark, mem, last, ret, before>>
  BY DEF FindEnd
<1>2. /\ TypeOK /\ call.fn = "strlcat" /\ d + n = call.size /\ call.size \in 0 .. Cap /\ s = 0
      /\ d \in Nat /\ n \in Nat /\ Cap \in Nat \ {0} /\ d <= call.size
      /\ last # NULL => NulFrom(last)
  BY <1>1, AtEnd
<1>3. d' \in -1 .. Cap /\ n' \in 0 .. Cap /\ d' >= 0 /\ d' + n' = call.size
  BY <1>1, <1>2
<1>4. TypeOK'
  BY <1>1, <1>2, <1>3 DEF TypeOK
<1>5. Place'
  BY <1>1, <1>2, <1>3 DEF Place, CopyPos, RestPos, EndPos, AppendPos, CutPos, LookPos
<1>6. SavedOrWritten'
  BY <1>1, <1>2 DEF SavedOrWritten, NulFrom
<1>7. QED
  BY <1>4, <1>5, <1>6 DEF IInv

LEMMA EndFoundInv == IInv /\ EndFound => IInv'
<1>. SUFFICES ASSUME IInv, EndFound PROVE IInv'
  OBVIOUS
<1>1. /\ pc = "end" /\ UNCHANGED <<call, mem, last, before>>
      /\ IF call.size = d THEN Return(d + Len(call.src))
         ELSE n' = call.size - d - 1 /\ mark' = d /\ pc' = "append" /\ UNCHANGED <<d, s, ret>>
  BY DEF EndFound, Room
<1>2. /\ TypeOK /\ call.fn = "strlcat" /\ call.size \in 0 .. Cap /\ s = 0
      /\ call.src \in Seq(Letter) /\ Len(call.src) \in Nat
      /\ d \in Nat /\ n \in Nat /\ Cap \in Nat \ {0} /\ d <= call.size
      /\ last # NULL => NulFrom(last)
  BY <1>1, AtEnd
<1>3. last # NULL => NulFrom(last)'
  BY <1>1, <1>2 DEF NulFrom
<1>4. CASE call.size = d
  <2>1. last' \in Pointer /\ mem' \in [Index -> Letter \cup {Nul}] /\ d + Len(call.src) \in Int
    BY <1>1, <1>2 DEF TypeOK
  <2>2. QED
    BY <1>1, <1>2, <1>3, <1>4, <2>1, ReturnInv
<1>5. CASE call.size # d
  <2>1. n' = call.size - d - 1 /\ mark' = d /\ pc' = "append" /\ UNCHANGED <<d, s, ret>>
    BY <1>1, <1>5
  <2>2. n' \in 0 .. Cap /\ mark' \in 0 .. Cap /\ mark' # NULL /\ d' + n' = call.size - 1
    <3>1. ASSUME NEW a \in Nat, NEW b \in 0 .. Cap, a <= b, b # a, Cap \in Nat
          PROVE  b - a - 1 \in 0 .. Cap /\ a \in 0 .. Cap /\ a + (b - a - 1) = b - 1
      BY <3>1
    <3>2. /\ call.size - d - 1 \in 0 .. Cap /\ d \in 0 .. Cap
          /\ d + (call.size - d - 1) = call.size - 1
      BY <1>2, <1>5, <3>1
    <3>3. d # NULL
      BY <1>2, BufferAssumption
    <3>4. QED
      BY <2>1, <3>2, <3>3
  <2>3. TypeOK'
    BY <1>1, <1>2, <2>1, <2>2 DEF TypeOK
  <2>4. Place'
    BY <1>1, <1>2, <2>1, <2>2 DEF Place, CopyPos, RestPos, EndPos, AppendPos, CutPos, LookPos
  <2>5. SavedOrWritten'
    BY <1>1, <1>3 DEF SavedOrWritten, NulFrom
  <2>6. QED
    BY <2>3, <2>4, <2>5 DEF IInv
<1>6. QED
  BY <1>4, <1>5

\* what is known while strlcat appends
LEMMA Appending ==
  ASSUME IInv, pc = "append"
  PROVE  /\ TypeOK /\ call.fn = "strlcat" /\ d + n = call.size - 1 /\ mark # NULL
         /\ call.src \in Seq(Letter) /\ Len(call.src) \in Nat /\ s \in Nat
         /\ Src(s) \in Letter \cup {Nul} /\ (Src(s) # Nul => s + 1 <= Len(call.src))
         /\ d \in Nat /\ n \in Nat /\ Cap \in Nat \ {0} /\ d \in Index
         /\ last # NULL => NulFrom(last) \/ d > last
         /\ last # NULL => last \in Nat
<1>1. /\ TypeOK /\ call.fn = "strlcat" /\ d >= 0 /\ d + n = call.size - 1 /\ s <= Len(call.src)
      /\ last # NULL => NulFrom(last) \/ d > last
      /\ mark # NULL
  BY DEF IInv, Place, AppendPos, SavedOrWritten
<1>2. call \in Call /\ call.size \in 0 .. Cap /\ call.src \in Seq(Letter)
  BY <1>1, WhatCallsHave DEF TypeOK, Sized, Sourced
<1>3. /\ d \in Nat /\ n \in Nat /\ Cap \in Nat \ {0} /\ d \in Index /\ s \in Nat
      /\ last # NULL => last \in Nat
  BY <1>1, <1>2, Facts
<1>4. /\ Len(call.src) \in Nat /\ Src(s) \in Letter \cup {Nul}
      /\ (Src(s) # Nul => s + 1 <= Len(call.src))
  BY <1>2, <1>3, SrcFacts
<1>5. QED
  BY <1>1, <1>2, <1>3, <1>4

LEMMA AppendInv == IInv /\ Append1 => IInv'
<1>. SUFFICES ASSUME IInv, Append1 PROVE IInv'
  OBVIOUS
<1>1. /\ pc = "append" /\ Src(s) # Nul /\ s' = s + 1
      /\ UNCHANGED <<pc, call, mark, last, ret, before>>
      /\ IF n # 0 THEN Put(Src(s)) /\ d' = d + 1 /\ n' = n - 1 ELSE UNCHANGED <<mem, d, n>>
  BY DEF Append1
<1>2. /\ TypeOK /\ call.fn = "strlcat" /\ d + n = call.size - 1 /\ mark # NULL
      /\ call.src \in Seq(Letter) /\ s \in Nat /\ s + 1 <= Len(call.src)
      /\ Src(s) \in Letter \cup {Nul}
      /\ d \in Nat /\ n \in Nat /\ d \in Index
      /\ last # NULL => NulFrom(last) \/ d > last
  BY <1>1, Appending
<1>3. call.size \in Int
  BY <1>2, WhatCallsHave DEF TypeOK, Sized
<1>4. /\ mem' \in [Index -> Letter \cup {Nul}]
      /\ last # NULL => NulFrom(last)' \/ d' > last
      /\ d' \in 0 .. Cap /\ n' \in 0 .. Cap /\ d' + n' = call.size - 1
  <2>1. CASE n # 0
    <3>1. Put(Src(s)) /\ d' = d + 1 /\ n' = n - 1
      BY <1>1, <2>1
    <3>2. /\ mem' \in [Index -> Letter \cup {Nul}]
          /\ last # NULL => NulFrom(last)' \/ d + 1 > last
      BY <1>1, <1>2, <3>1, PutKeeps
    <3>3. /\ d' \in 0 .. Cap /\ n' \in 0 .. Cap /\ d' + n' = call.size - 1
      BY <1>2, <1>3, <2>1, <3>1, Facts
    <3>4. QED
      BY <3>1, <3>2, <3>3
  <2>2. CASE n = 0
    <3>1. UNCHANGED <<mem, d, n, last>>
      BY <1>1, <2>2
    <3>2. /\ mem \in [Index -> Letter \cup {Nul}]
          /\ d \in 0 .. Cap /\ n \in 0 .. Cap
      BY <1>2, Facts
    <3>3. last # NULL => NulFrom(last)' \/ d' > last
      BY <1>2, <3>1 DEF NulFrom
    <3>4. QED
      BY <1>2, <3>1, <3>2, <3>3
  <2>3. QED
    BY <2>1, <2>2
<1>5. TypeOK'
  <2>1. d' \in -1 .. Cap /\ s' \in Nat
    BY <1>1, <1>2, <1>4
  <2>2. QED
    BY <1>1, <1>2, <1>4, <2>1 DEF TypeOK
<1>6. AppendPos'
  BY <1>1, <1>2, <1>4 DEF AppendPos
<1>7. Place'
  BY <1>1, <1>6 DEF Place, CopyPos, RestPos, EndPos, CutPos, LookPos
<1>8. SavedOrWritten'
  BY <1>1, <1>4 DEF SavedOrWritten, NulFrom
<1>9. QED
  BY <1>5, <1>7, <1>8 DEF IInv

LEMMA AppendEndInv == IInv /\ AppendEnd => IInv'
<1>. SUFFICES ASSUME IInv, AppendEnd PROVE IInv'
  OBVIOUS
<1>1. /\ pc = "append" /\ Put(Nul) /\ Return(mark + s) /\ UNCHANGED <<call, last, before>>
  BY DEF AppendEnd, WholeLength
<1>2. /\ TypeOK /\ mark # NULL /\ s \in Nat /\ d \in Index
      /\ last # NULL => NulFrom(last) \/ d > last
  BY <1>1, Appending
<1>3. mem' \in [Index -> Letter \cup {Nul}] /\ (last # NULL => NulFrom(last)')
  BY <1>1, <1>2, PutKeeps
<1>4. mark + s \in Int
  BY <1>2, Facts DEF TypeOK
<1>5. last' \in Pointer
  BY <1>1, <1>2 DEF TypeOK
<1>6. QED
  BY <1>1, <1>2, <1>3, <1>4, <1>5, ReturnInv

-----------------------------------------------------------------------------
(* The steps of strtok_r                                                   *)

\* what is known while a token is looked for: the NUL is still ahead
LEMMA Cutting ==
  ASSUME IInv, pc \in {"skip", "scan"}
  PROVE  /\ TypeOK /\ call.fn = "strtok_r" /\ d \in Index /\ d \in Nat /\ Cap \in Nat \ {0}
         /\ NulFrom(d) /\ (mem[d] # Nul => NulFrom(d + 1) /\ d + 1 \in Index)
         /\ pc = "scan" => mark # NULL
         /\ last # NULL => NulFrom(last)
<1>1. /\ TypeOK /\ call.fn = "strtok_r" /\ d >= 0 /\ NulFrom(d)
      /\ pc = "scan" => mark # NULL
      /\ last # NULL => NulFrom(last)
  BY DEF IInv, Place, CutPos, SavedOrWritten
<1>2. d \in Nat /\ Cap \in Nat \ {0} /\ Index = 0 .. Cap - 1
  BY <1>1, Facts
<1>3. PICK i \in Index : d <= i /\ mem[i] = Nul
  BY <1>1 DEF NulFrom
<1>4. d \in Index
  BY <1>2, <1>3
<1>5. ASSUME mem[d] # Nul PROVE NulFrom(d + 1) /\ d + 1 \in Index
  <2>1. i # d
    BY <1>3, <1>5
  <2>2. d + 1 <= i /\ d + 1 \in Index
    BY <1>2, <1>3, <2>1
  <2>3. QED
    BY <1>3, <2>2 DEF NulFrom
<1>6. QED
  BY <1>1, <1>2, <1>4, <1>5

\* going on to the next character, in front of the token or in it
LEMMA ForwardInv ==
  ASSUME IInv, pc \in {"skip", "scan"}, mem[d] # Nul, d' = d + 1,
         pc' \in {"skip", "scan"}, pc' = "scan" => mark' # NULL, mark' \in 0 .. Cap \cup {NULL},
         UNCHANGED <<call, s, n, mem, last, ret, before>>
  PROVE  IInv'
<1>1. /\ TypeOK /\ call.fn = "strtok_r" /\ d \in Nat /\ Cap \in Nat \ {0}
      /\ NulFrom(d + 1) /\ d + 1 \in Index
      /\ last # NULL => NulFrom(last)
  BY Cutting
<1>2. d' \in -1 .. Cap /\ d' >= 0
  BY <1>1 DEF Index
<1>3. NulFrom(d)'
  BY <1>1 DEF NulFrom
<1>4. TypeOK'
  BY <1>1, <1>2 DEF TypeOK
<1>5. CutPos'
  BY <1>1, <1>2, <1>3 DEF CutPos
<1>6. Place'
  BY <1>5 DEF Place, CopyPos, RestPos, EndPos, AppendPos, LookPos
<1>7. SavedOrWritten'
  BY <1>1 DEF SavedOrWritten, NulFrom
<1>8. QED
  BY <1>4, <1>6, <1>7 DEF IInv

LEMMA SkipInv == IInv /\ Skip => IInv'
<1>. SUFFICES ASSUME IInv, Skip PROVE IInv'
  OBVIOUS
<1>1. /\ pc = "skip" /\ mem[d] \in call.delim /\ d' = d + 1
      /\ UNCHANGED <<pc, call, s, n, mark, mem, last, ret, before>>
  BY DEF Skip, Skipped
<1>2. TypeOK /\ call.fn = "strtok_r"
  BY <1>1, Cutting
<1>3. call \in Call
  BY <1>2 DEF TypeOK
<1>4. call.delim \subseteq Letter
  BY <1>2, <1>3, CallsAssumption DEF Call, Writes, Cuts, Scans
<1>5. mem[d] # Nul
  BY <1>1, <1>4, BufferAssumption DEF Nul
<1>6. mark' \in 0 .. Cap \cup {NULL}
  BY <1>1, <1>2 DEF TypeOK
<1>7. QED
  BY <1>1, <1>5, <1>6, ForwardInv

LEMMA NoTokenInv == IInv /\ NoToken => IInv'
<1>. SUFFICES ASSUME IInv, NoToken PROVE IInv'
  OBVIOUS
<1>1. /\ pc = "skip" /\ last' = NULL /\ Return(NULL) /\ UNCHANGED <<call, mem, before>>
  BY DEF NoToken
<1>2. TypeOK
  BY <1>1, Cutting
<1>3. mem' \in [Index -> Letter \cup {Nul}] /\ last' \in Pointer
  BY <1>1, <1>2, Facts DEF Pointer
<1>4. QED
  BY <1>1, <1>2, <1>3, ReturnInv

LEMMA TokenStartInv == IInv /\ TokenStart => IInv'
<1>. SUFFICES ASSUME IInv, TokenStart PROVE IInv'
  OBVIOUS
<1>1. /\ pc = "skip" /\ mem[d] # Nul /\ mark' = d /\ d' = d + 1 /\ pc' = "scan"
      /\ UNCHANGED <<call, s, n, mem, last, ret, before>>
  BY DEF TokenStart
<1>2. d \in Index /\ d \in Nat /\ Cap \in Nat
  BY <1>1, Cutting
<1>3. d # NULL
  BY <1>2, BufferAssumption
<1>4. mark' \in 0 .. Cap \cup {NULL}
  BY <1>1, <1>2 DEF Index
<1>5. QED
  BY <1>1, <1>3, <1>4, ForwardInv

LEMMA ScanOnInv == IInv /\ ScanOn => IInv'
<1>. SUFFICES ASSUME IInv, ScanOn PROVE IInv'
  OBVIOUS
<1>1. /\ pc = "scan" /\ mem[d] # Nul /\ d' = d + 1
      /\ UNCHANGED <<pc, call, s, n, mark, mem, last, ret, before>>
  BY DEF ScanOn
<1>2. TypeOK /\ mark # NULL
  BY <1>1, Cutting
<1>3. mark' \in 0 .. Cap \cup {NULL}
  BY <1>1, <1>2 DEF TypeOK
<1>4. QED
  BY <1>1, <1>2, <1>3, ForwardInv

LEMMA TokenEndInv == IInv /\ TokenEnd => IInv'
<1>. SUFFICES ASSUME IInv, TokenEnd PROVE IInv'
  OBVIOUS
<1>1. /\ pc = "scan" /\ Put(Nul) /\ Return(mark) /\ UNCHANGED <<call, before>>
      /\ last' = IF mem[d] = Nul THEN NULL ELSE d + 1
  BY DEF TokenEnd, Saved
<1>2. /\ TypeOK /\ d \in Index /\ d \in Nat /\ mark # NULL
      /\ mem[d] # Nul => NulFrom(d + 1) /\ d + 1 \in Index
  BY <1>1, Cutting
<1>3. mem' = [mem EXCEPT ![d] = Nul] /\ mem \in [Index -> Letter \cup {Nul}]
  BY <1>1, <1>2, Facts DEF Put
<1>4. mem' \in [Index -> Letter \cup {Nul}] /\ (\A i \in Index : i # d => mem'[i] = mem[i])
  BY <1>2, <1>3
<1>5. CASE mem[d] = Nul
  <2>1. last' = NULL /\ last' \in Pointer /\ mark \in Int \cup {NULL}
    BY <1>1, <1>2, <1>5 DEF Pointer, TypeOK
  <2>2. QED
    BY <1>1, <1>2, <1>4, <2>1, ReturnInv
<1>6. CASE mem[d] # Nul
  <2>1. last' = d + 1 /\ last' \in Pointer /\ mark \in Int \cup {NULL}
    BY <1>1, <1>2, <1>6 DEF Pointer, TypeOK
  <2>2. PICK i \in Index : d + 1 <= i /\ mem[i] = Nul
    BY <1>2, <1>6 DEF NulFrom
  <2>3. mem'[i] = Nul
    BY <1>4, <1>6, <2>2
  <2>4. NulFrom(last)'
    BY <2>1, <2>2, <2>3 DEF NulFrom
  <2>5. QED
    BY <1>1, <1>2, <1>4, <2>1, <2>4, ReturnInv
<1>7. QED
  BY <1>5, <1>6

-----------------------------------------------------------------------------
(* The searches and comparisons                                            *)

\* what is known while one runs
LEMMA AtLook ==
  ASSUME IInv, NEW fn \in ScanFns, Looking(fn)
  PROVE  /\ TypeOK /\ pc = "look" /\ call.fn = fn /\ UNCHANGED <<call, mem, last, before>>
         /\ d \in -1 .. Cap /\ s \in Nat /\ n \in 0 .. Cap /\ Cap \in Nat \ {0}
         /\ fn \in Sized => call.size \in 0 .. Cap
         /\ fn \in Sourced => Len(call.src) \in Nat
         /\ LookPos
<1>1. pc = "look" /\ call.fn = fn /\ UNCHANGED <<call, mem, last, before>>
  BY DEF Looking
<1>2. TypeOK /\ LookPos
  BY DEF IInv, Place
<1>3. call \in Call
  BY <1>2 DEF TypeOK
<1>4. /\ fn \in Sized => call.size \in 0 .. Cap
      /\ fn \in Sourced => call.src \in Seq(Letter)
  BY <1>1, <1>3, WhatCallsHave
<1>5. fn \in Sourced => Len(call.src) \in Nat
  BY <1>4
<1>6. QED
  BY <1>1, <1>2, <1>4, <1>5, Facts

\* a NUL that is not here is further on, so the next character is in the buffer
LEMMA NulAhead ==
  ASSUME TypeOK, d >= 0, NulFrom(d)
  PROVE  d \in Index /\ mem[d] \in Int /\ (mem[d] # Nul => NulFrom(d + 1) /\ d + 1 \in Index)
<1>1. d \in Nat /\ Index = 0 .. Cap - 1 /\ Cap \in Nat /\ \A i \in Index : mem[i] \in Int
  BY Facts
<1>2. PICK i \in Index : d <= i /\ mem[i] = Nul
  BY DEF NulFrom
<1>3. d \in Index
  BY <1>1, <1>2
<1>4. ASSUME mem[d] # Nul PROVE NulFrom(d + 1) /\ d + 1 \in Index
  <2>1. d + 1 <= i /\ d + 1 \in Index
    BY <1>1, <1>2, <1>4
  <2>2. QED
    BY <1>2, <2>1 DEF NulFrom
<1>5. QED
  BY <1>1, <1>3, <1>4

\* an end of the search
LEMMA LookReturns ==
  ASSUME IInv, NEW fn \in ScanFns, Looking(fn), NEW v \in Int \cup {NULL}, Return(v)
  PROVE  IInv'
<1>1. TypeOK /\ pc = "look" /\ UNCHANGED <<call, mem, last, before>>
  BY AtLook
<1>2. last # NULL => NulFrom(last)
  BY <1>1 DEF IInv, SavedOrWritten
<1>3. last' \in Pointer /\ mem' \in [Index -> Letter \cup {Nul}]
  BY <1>1 DEF TypeOK
<1>4. last' # NULL => NulFrom(last)'
  BY <1>1, <1>2 DEF NulFrom
<1>5. QED
  BY <1>1, <1>3, <1>4, ReturnInv

\* a further round
LEMMA LookGoesOn ==
  ASSUME IInv, NEW fn \in ScanFns, Looking(fn),
         NEW step \in {-1, 1}, NEW count, NEW save, On(step, count, save),
         d + step \in -1 .. Cap, count \in 0 .. Cap, save \in 0 .. Cap \cup {NULL}, LookPos'
  PROVE  IInv'
<1>1. TypeOK /\ pc = "look" /\ UNCHANGED <<call, mem, last, before>> /\ s \in Nat
  BY AtLook
<1>2. /\ d' = d + step /\ s' = s + 1 /\ n' = count /\ mark' = save
      /\ UNCHANGED <<pc, ret>>
  BY DEF On
<1>3. TypeOK'
  BY <1>1, <1>2 DEF TypeOK
<1>4. Place'
  BY <1>1, <1>2 DEF Place, CopyPos, RestPos, EndPos, AppendPos, CutPos
<1>5. SavedOrWritten'
  BY <1>1, <1>2 DEF IInv, SavedOrWritten, NulFrom
<1>6. QED
  BY <1>3, <1>4, <1>5 DEF IInv

\* the functions that rely on a NUL only: the next round starts in front of it
LEMMA UnsizedOn ==
  ASSUME IInv, NEW fn \in Unsized, Looking(fn), mem[d] # Nul,
         fn = "strcmp" => s + 1 <= Len(call.src),
         NEW save \in 0 .. Cap \cup {NULL}, On(1, n, save)
  PROVE  IInv'
<1>1. /\ TypeOK /\ pc = "look" /\ call.fn = fn /\ UNCHANGED <<call, mem, last, before>>
      /\ s \in Nat /\ n \in 0 .. Cap /\ Cap \in Nat \ {0} /\ LookPos /\ fn \in ScanFns
  BY AtLook DEF ScanFns
<1>2. d >= 0 /\ NulFrom(d)
  BY <1>1 DEF LookPos
<1>3. NulFrom(d + 1) /\ d + 1 \in Index
  BY <1>1, <1>2, NulAhead
<1>4. d' = d + 1 /\ s' = s + 1 /\ UNCHANGED pc
  BY DEF On
<1>5. d + 1 \in -1 .. Cap /\ d' >= 0
  BY <1>1, <1>3, <1>4 DEF Index
<1>6. NulFrom(d)'
  BY <1>1, <1>3, <1>4 DEF NulFrom
<1>7. LookPos'
  BY <1>1, <1>4, <1>5, <1>6 DEF LookPos, Unsized, Counting
<1>8. QED
  BY <1>1, <1>5, <1>7, LookGoesOn

\* the functions that count down
LEMMA CountingOn ==
  ASSUME IInv, NEW fn \in Counting, Looking(fn), n # 0,
         fn = "strncmp" => s + 1 <= Len(call.src), On(1, n - 1, mark)
  PROVE  IInv'
<1>1. /\ TypeOK /\ pc = "look" /\ call.fn = fn /\ UNCHANGED <<call, mem, last, before>>
      /\ s \in Nat /\ n \in 0 .. Cap /\ Cap \in Nat \ {0} /\ LookPos /\ fn \in ScanFns
      /\ d \in -1 .. Cap
      /\ call.size \in 0 .. Cap
  BY AtLook DEF ScanFns, Counting, Sized
<1>2. d >= 0 /\ d + n = call.size
  BY <1>1 DEF LookPos
<1>3. d' = d + 1 /\ s' = s + 1 /\ n' = n - 1 /\ UNCHANGED pc
  BY DEF On
<1>4. d + 1 \in -1 .. Cap /\ n - 1 \in 0 .. Cap /\ d' >= 0 /\ d' + n' = call.size
  BY <1>1, <1>2, <1>3
<1>5. fn = "memcmp" => s' = d' /\ call.size <= Len(call.src) + 1
  BY <1>1, <1>3 DEF LookPos
<1>6. LookPos'
  BY <1>1, <1>3, <1>4, <1>5 DEF LookPos, Unsized, Counting
<1>7. mark \in 0 .. Cap \cup {NULL}
  BY <1>1 DEF TypeOK
<1>8. QED
  BY <1>1, <1>4, <1>6, <1>7, LookGoesOn

\* a byte of the buffer is read by a function that counts down
LEMMA CountedByte ==
  ASSUME IInv, NEW fn \in Counting, Looking(fn), n # 0
  PROVE  d \in Index /\ mem[d] \in Int
<1>1. TypeOK /\ d \in -1 .. Cap /\ n \in 0 .. Cap /\ Cap \in Nat /\ call.size \in 0 .. Cap
      /\ d >= 0 /\ d + n = call.size
  BY AtLook DEF ScanFns, Counting, Sized, LookPos
<1>2. d \in Index
  BY <1>1 DEF Index
<1>3. QED
  BY <1>1, <1>2, Facts

\* a byte of the string is read by a function that relies on its NUL
LEMMA StringByte ==
  ASSUME IInv, NEW fn \in Unsized, Looking(fn)
  PROVE  d \in Index /\ mem[d] \in Int
<1>1. TypeOK /\ pc = "look" /\ call.fn = fn /\ LookPos
  BY AtLook DEF ScanFns
<1>2. d >= 0 /\ NulFrom(d)
  BY <1>1 DEF LookPos
<1>3. QED
  BY <1>1, <1>2, NulAhead

\* a byte of the other string, which is not at its end when it equals one that is not NUL
LEMMA OtherByte ==
  ASSUME IInv, NEW fn \in {"strcmp", "strncmp", "memcmp"}, Looking(fn)
  PROVE  /\ Src(s) \in Int
         /\ mem[d] # Nul /\ mem[d] = Src(s) => s + 1 <= Len(call.src)
<1>1. TypeOK /\ call.fn = fn /\ s \in Nat /\ call \in Call
  BY AtLook DEF ScanFns, Unsized, Counting, TypeOK
<1>2. call.src \in Seq(Letter)
  BY <1>1, WhatCallsHave DEF Sourced
<1>3. /\ Len(call.src) \in Nat /\ Src(s) \in Letter \cup {Nul}
      /\ Src(s) = Nul <=> s >= Len(call.src)
  BY <1>1, <1>2, SrcFacts
<1>4. Src(s) \in Int
  <2>1. Letter \cup {Nul} \subseteq Int
    BY BufferAssumption DEF Nul
  <2>2. QED
    BY <1>3, <2>1
<1>5. ASSUME mem[d] # Nul, mem[d] = Src(s) PROVE s + 1 <= Len(call.src)
  <2>1. ~ (s >= Len(call.src))
    BY <1>3, <1>5
  <2>2. QED
    BY <1>1, <1>3, <2>1
<1>6. QED
  BY <1>4, <1>5

LEMMA StrlenInv == IInv /\ Strlen => IInv'
<1>. SUFFICES ASSUME IInv, Strlen PROVE IInv'
  OBVIOUS
<1>1. Looking("strlen") /\ IF mem[d] # Nul THEN On(1, n, mark) ELSE Return(d)
  BY DEF Strlen
<1>2. d \in Int /\ mark \in 0 .. Cap \cup {NULL}
  BY Facts DEF IInv, TypeOK
<1>3. CASE mem[d] # Nul
  BY <1>1, <1>2, <1>3, UnsizedOn DEF Unsized
<1>4. CASE mem[d] = Nul
  BY <1>1, <1>2, <1>4, LookReturns DEF ScanFns, Unsized
<1>5. QED
  BY <1>3, <1>4

LEMMA StrnlenInv == IInv /\ Strnlen => IInv'
<1>. SUFFICES ASSUME IInv, Strnlen PROVE IInv'
  OBVIOUS
<1>1. /\ Looking("strnlen")
      /\ IF d < call.size /\ mem[d] # Nul THEN On(1, n, mark) ELSE Return(d)
  BY DEF Strnlen
<1>2. /\ call.fn = "strnlen" /\ pc = "look" /\ call' = call /\ call.size \in 0 .. Cap
      /\ d \in -1 .. Cap /\ n \in 0 .. Cap /\ Cap \in Nat /\ LookPos /\ TypeOK
  BY <1>1, AtLook DEF ScanFns, Sized
<1>3. d >= 0 /\ d <= call.size /\ mark \in 0 .. Cap \cup {NULL}
  BY <1>2 DEF LookPos, TypeOK
<1>4. CASE d < call.size /\ mem[d] # Nul
  <2>1. On(1, n, mark)
    BY <1>1, <1>4
  <2>2. d' = d + 1 /\ d + 1 \in -1 .. Cap /\ d + 1 >= 0 /\ d + 1 <= call.size
    BY <1>2, <1>3, <1>4, <2>1 DEF On
  <2>3. LookPos'
    BY <1>2, <2>2 DEF LookPos, ScanFns, Unsized, Counting
  <2>4. "strnlen" \in ScanFns
    BY DEF ScanFns
  <2>5. QED
    BY <1>1, <1>2, <1>3, <2>1, <2>2, <2>3, <2>4, LookGoesOn
<1>5. CASE ~ (d < call.size /\ mem[d] # Nul)
  BY <1>1, <1>2, <1>5, LookReturns DEF ScanFns
<1>6. QED
  BY <1>4, <1>5

LEMMA StrchrInv == IInv /\ Strchr => IInv'
<1>. SUFFICES ASSUME IInv, Strchr PROVE IInv'
  OBVIOUS
<1>1. /\ Looking("strchr")
      /\ CASE mem[d] = Needle -> Return(d)
           [] mem[d] # Needle /\ mem[d] = Nul -> Return(NULL)
           [] OTHER -> On(1, n, mark)
  BY DEF Strchr
<1>2. d \in Int /\ mark \in 0 .. Cap \cup {NULL} /\ "strchr" \in ScanFns /\ "strchr" \in Unsized
  BY Facts DEF IInv, TypeOK, ScanFns, Unsized
<1>3. CASE mem[d] = Needle
  BY <1>1, <1>2, <1>3, LookReturns
<1>4. CASE mem[d] # Needle /\ mem[d] = Nul
  BY <1>1, <1>2, <1>4, LookReturns
<1>5. CASE mem[d] # Needle /\ mem[d] # Nul
  <2>1. On(1, n, mark)
    BY <1>1, <1>5
  <2>2. QED
    BY <1>1, <1>2, <1>5, <2>1, UnsizedOn
<1>6. QED
  BY <1>3, <1>4, <1>5

LEMMA StrrchrInv == IInv /\ Strrchr => IInv'
<1>. SUFFICES ASSUME IInv, Strrchr PROVE IInv'
  OBVIOUS
<1>. DEFINE save == IF mem[d] = Needle THEN d ELSE mark
<1>1. Looking("strrchr") /\ IF mem[d] = Nul THEN Return(save) ELSE On(1, n, save)
  BY DEF Strrchr
<1>2. "strrchr" \in ScanFns /\ "strrchr" \in Unsized
  BY DEF ScanFns, Unsized
<1>3. d \in Index /\ Cap \in Nat /\ mark \in 0 .. Cap \cup {NULL}
  BY <1>1, <1>2, StringByte, Facts DEF IInv, TypeOK
<1>4. save \in 0 .. Cap \cup {NULL} /\ save \in Int \cup {NULL}
  BY <1>3 DEF Index
<1>. HIDE DEF save
<1>5. CASE mem[d] = Nul
  BY <1>1, <1>2, <1>4, <1>5, LookReturns
<1>6. CASE mem[d] # Nul
  BY <1>1, <1>2, <1>4, <1>6, UnsizedOn
<1>7. QED
  BY <1>5, <1>6

LEMMA MemchrInv == IInv /\ Memchr => IInv'
<1>. SUFFICES ASSUME IInv, Memchr PROVE IInv'
  OBVIOUS
<1>1. /\ Looking("memchr")
      /\ IF n = 0 THEN Return(NULL)
         ELSE IF mem[d] = Needle THEN Return(d) ELSE On(1, n - 1, mark)
  BY DEF Memchr, Search
<1>2. d \in Int /\ "memchr" \in ScanFns /\ "memchr" \in Counting
  BY Facts DEF IInv, ScanFns, Counting
<1>3. CASE n = 0 \/ mem[d] = Needle
  BY <1>1, <1>2, <1>3, LookReturns
<1>4. CASE n # 0 /\ mem[d] # Needle
  BY <1>1, <1>2, <1>4, CountingOn
<1>5. QED
  BY <1>3, <1>4

LEMMA MemrchrInv == IInv /\ Memrchr => IInv'
<1>. SUFFICES ASSUME IInv, Memrchr PROVE IInv'
  OBVIOUS
<1>1. /\ Looking("memrchr")
      /\ IF n = 0 THEN Return(NULL)
         ELSE IF mem[d] = Needle THEN Return(d) ELSE On(-1, n - 1, mark)
  BY DEF Memrchr, Search
<1>2. "memrchr" \in ScanFns
  BY DEF ScanFns
<1>3. /\ call.fn = "memrchr" /\ pc = "look" /\ call' = call /\ call.size \in 0 .. Cap
      /\ d \in -1 .. Cap /\ n \in 0 .. Cap /\ Cap \in Nat /\ LookPos /\ TypeOK
  BY <1>1, <1>2, AtLook DEF Sized
<1>4. d = n - 1 /\ n <= call.size /\ mark \in 0 .. Cap \cup {NULL}
  BY <1>3 DEF LookPos, TypeOK
<1>5. CASE n = 0 \/ mem[d] = Needle
  <2>1. Return(NULL) \/ Return(d)
    BY <1>1, <1>5
  <2>2. d \in Int
    BY <1>3
  <2>3. QED
    BY <1>1, <1>2, <2>1, <2>2, LookReturns
<1>6. CASE n # 0 /\ mem[d] # Needle
  <2>1. On(-1, n - 1, mark)
    BY <1>1, <1>6
  <2>2. d' = d + -1 /\ n' = n - 1 /\ pc' = pc
    BY <2>1 DEF On
  <2>3. d + -1 \in -1 .. Cap /\ n - 1 \in 0 .. Cap /\ d' = n' - 1 /\ n' <= call.size
    BY <1>3, <1>4, <1>6, <2>2
  <2>4. LookPos'
    BY <1>3, <2>2, <2>3 DEF LookPos, ScanFns, Unsized, Counting
  <2>5. QED
    BY <1>1, <1>2, <1>4, <2>1, <2>3, <2>4, LookGoesOn
<1>7. QED
  BY <1>5, <1>6

LEMMA MemcmpInv == IInv /\ Memcmp => IInv'
<1>. SUFFICES ASSUME IInv, Memcmp PROVE IInv'
  OBVIOUS
<1>1. /\ Looking("memcmp")
      /\ IF n = 0 THEN Return(0)
         ELSE IF mem[d] # Src(s) THEN Return(mem[d] - Src(s)) ELSE On(1, n - 1, mark)
  BY DEF Memcmp, Difference
<1>2. "memcmp" \in ScanFns /\ "memcmp" \in Counting
  BY DEF ScanFns, Counting
<1>3. CASE n = 0
  BY <1>1, <1>2, <1>3, LookReturns
<1>4. CASE n # 0 /\ mem[d] # Src(s)
  <2>1. mem[d] \in Int /\ Src(s) \in Int
    BY <1>1, <1>2, <1>4, CountedByte, OtherByte
  <2>2. mem[d] - Src(s) \in Int
    BY <2>1
  <2>3. QED
    BY <1>1, <1>2, <1>4, <2>2, LookReturns
<1>5. CASE n # 0 /\ mem[d] = Src(s)
  BY <1>1, <1>2, <1>5, CountingOn
<1>6. QED
  BY <1>3, <1>4, <1>5

LEMMA StrcmpInv == IInv /\ Strcmp => IInv'
<1>. SUFFICES ASSUME IInv, Strcmp PROVE IInv'
  OBVIOUS
<1>1. /\ Looking("strcmp")
      /\ IF mem[d] # Src(s) THEN Return(mem[d] - Src(s))
         ELSE IF mem[d] = Nul THEN Return(0) ELSE On(1, n, mark)
  BY DEF Strcmp, Difference
<1>2. "strcmp" \in ScanFns /\ "strcmp" \in Unsized
  BY DEF ScanFns, Unsized
<1>3. CASE mem[d] # Src(s)
  <2>1. mem[d] \in Int /\ Src(s) \in Int
    BY <1>1, <1>2, StringByte, OtherByte
  <2>2. mem[d] - Src(s) \in Int
    BY <2>1
  <2>3. QED
    BY <1>1, <1>2, <1>3, <2>2, LookReturns
<1>4. CASE mem[d] = Src(s) /\ mem[d] = Nul
  BY <1>1, <1>2, <1>4, LookReturns
<1>5. CASE mem[d] = Src(s) /\ mem[d] # Nul
  <2>1. s + 1 <= Len(call.src)
    BY <1>1, <1>5, OtherByte
  <2>2. mark \in 0 .. Cap \cup {NULL}
    BY DEF IInv, TypeOK
  <2>3. QED
    BY <1>1, <1>2, <1>5, <2>1, <2>2, UnsizedOn
<1>6. QED
  BY <1>3, <1>4, <1>5

LEMMA StrncmpInv == IInv /\ Strncmp => IInv'
<1>. SUFFICES ASSUME IInv, Strncmp PROVE IInv'
  OBVIOUS
<1>1. /\ Looking("strncmp")
      /\ IF n = 0 THEN Return(0)
         ELSE IF mem[d] # Src(s) THEN Return(mem[d] - Src(s))
         ELSE IF mem[d] = Nul THEN Return(0) ELSE On(1, n - 1, mark)
  BY DEF Strncmp, Difference
<1>2. "strncmp" \in ScanFns /\ "strncmp" \in Counting
  BY DEF ScanFns, Counting
<1>3. CASE n = 0
  BY <1>1, <1>2, <1>3, LookReturns
<1>4. CASE n # 0 /\ mem[d] # Src(s)
  <2>1. mem[d] \in Int /\ Src(s) \in Int
    BY <1>1, <1>2, <1>4, CountedByte, OtherByte
  <2>2. mem[d] - Src(s) \in Int
    BY <2>1
  <2>3. QED
    BY <1>1, <1>2, <1>4, <2>2, LookReturns
<1>5. CASE n # 0 /\ mem[d] = Src(s) /\ mem[d] = Nul
  BY <1>1, <1>2, <1>5, LookReturns
<1>6. CASE n # 0 /\ mem[d] = Src(s) /\ mem[d] # Nul
  <2>1. s + 1 <= Len(call.src)
    BY <1>1, <1>6, OtherByte
  <2>2. QED
    BY <1>1, <1>2, <1>6, <2>1, CountingOn
<1>7. QED
  BY <1>3, <1>4, <1>5, <1>6

-----------------------------------------------------------------------------
LEMMA StutterInv == IInv /\ UNCHANGED vars => IInv'
<1>. SUFFICES ASSUME IInv, UNCHANGED vars PROVE IInv'
  OBVIOUS
<1>1. UNCHANGED <<pc, call, d, s, n, mark, mem, last, ret, before>>
  BY DEF vars
<1>2. TypeOK'
  BY <1>1 DEF IInv, TypeOK
<1>3. Place'
  BY <1>1 DEF IInv, Place, CopyPos, RestPos, EndPos, AppendPos, CutPos, LookPos, NulFrom
<1>4. SavedOrWritten'
  BY <1>1 DEF IInv, SavedOrWritten, NulFrom
<1>5. QED
  BY <1>2, <1>3, <1>4 DEF IInv

LEMMA StepInv == IInv /\ [Next]_vars => IInv'
<1>1. IInv /\ Calls => IInv'
  BY CallWriteInv, CallCutInv, CallScanInv DEF Calls
<1>2. IInv /\ Step => IInv'
  BY CopyByteInv, CopyFullInv, RestInv, FindEndInv, EndFoundInv, AppendInv, AppendEndInv,
     SkipInv, NoTokenInv, TokenStartInv, ScanOnInv, TokenEndInv DEF Step
<1>3. IInv /\ Look => IInv'
  BY StrlenInv, StrnlenInv, StrchrInv, StrrchrInv, MemchrInv, MemrchrInv,
     MemcmpInv, StrcmpInv, StrncmpInv DEF Look
<1>4. QED
  BY <1>1, <1>2, <1>3, StutterInv DEF Next

LEMMA Invariance == Spec => []IInv
BY InitInv, StepInv, PTL DEF Spec

\* The variables keep their types.
THEOREM TypeCorrectness == Spec => []TypeOK
<1>1. IInv => TypeOK
  BY DEF IInv
<1>2. QED
  BY <1>1, Invariance, PTL

LEMMA LooksInside ==
  ASSUME IInv, pc = "look", Reads
  PROVE  /\ d \in Index
         /\ "size" \in DOMAIN call => d < call.size
         /\ "src" \in DOMAIN call => s <= Len(call.src)
<1>1. /\ TypeOK /\ LookPos /\ call \in Call /\ call.fn \in ScanFns
  BY DEF IInv, TypeOK, Place, LookPos
<1>2. /\ call.fn \in Sized => call.size \in 0 .. Cap
      /\ call.fn \in Sourced => Len(call.src) \in Nat
      /\ "size" \in DOMAIN call <=> call.fn \in Sized
      /\ "src" \in DOMAIN call <=> call.fn \in Sourced
  BY <1>1, WhatCallsHave
<1>3. Index = 0 .. Cap - 1 /\ Cap \in Nat /\ d \in -1 .. Cap /\ n \in 0 .. Cap /\ s \in Nat
  BY <1>1, Facts
<1>4. CASE call.fn \in Unsized
  <2>1. d \in Index
    BY <1>1, <1>4, NulAhead DEF LookPos
  <2>2. call.fn \notin Sized /\ (call.fn \in Sourced => s <= Len(call.src))
    BY <1>1, <1>4 DEF Unsized, Sized, Sourced, LookPos
  <2>3. QED
    BY <1>2, <2>1, <2>2
<1>5. CASE call.fn = "strnlen"
  <2>1. d < call.size /\ d >= 0 /\ call.size \in 0 .. Cap
    BY <1>1, <1>2, <1>5 DEF Reads, LookPos, Sized
  <2>2. call.fn \notin Sourced
    BY <1>5 DEF Sourced
  <2>3. QED
    BY <1>2, <1>3, <2>1, <2>2
<1>6. CASE call.fn = "memrchr"
  <2>1. n # 0 /\ d = n - 1 /\ n <= call.size /\ call.size \in 0 .. Cap
    BY <1>1, <1>2, <1>6 DEF Reads, LookPos, Sized
  <2>2. call.fn \notin Sourced
    BY <1>6 DEF Sourced
  <2>3. d \in Index /\ d < call.size
    BY <1>3, <2>1
  <2>4. QED
    BY <1>2, <2>2, <2>3
<1>7. CASE call.fn \in Counting
  <2>1. n # 0 /\ d >= 0 /\ d + n = call.size /\ call.size \in 0 .. Cap
    BY <1>1, <1>2, <1>7 DEF Reads, LookPos, Sized, Counting
  <2>2. d \in Index /\ d < call.size
    BY <1>3, <2>1
  <2>3. call.fn = "strncmp" => s <= Len(call.src)
    BY <1>1 DEF LookPos
  <2>4. call.fn = "memcmp" => s <= Len(call.src)
    <3>1. call.fn = "memcmp" => s = d /\ call.size <= Len(call.src) + 1
      BY <1>1 DEF LookPos
    <3>2. call.fn = "memcmp" => Len(call.src) \in Nat
      BY <1>2 DEF Sourced
    <3>3. QED
      BY <1>3, <2>1, <2>2, <3>1, <3>2
  <2>5. call.fn \in Sourced => call.fn \in {"strncmp", "memcmp"}
    BY <1>7 DEF Counting, Sourced
  <2>6. QED
    BY <1>2, <2>2, <2>3, <2>4, <2>5
<1>8. QED
  BY <1>1, <1>4, <1>5, <1>6, <1>7 DEF ScanFns

LEMMA InsideInv == IInv => StaysInside
<1>. SUFFICES ASSUME IInv PROVE StaysInside
  OBVIOUS
<1>0. TypeOK /\ Index = 0 .. Cap - 1 /\ Cap \in Nat /\ call \in Call
      /\ d \in -1 .. Cap /\ n \in 0 .. Cap
  BY Facts DEF IInv, TypeOK
<1>1. pc = "copy" /\ RoomLeft => d \in Index
  <2>. SUFFICES ASSUME pc = "copy", n > 1 PROVE d \in Index
    BY DEF RoomLeft
  <2>1. call.fn = "strlcpy" /\ d >= 0 /\ n = call.size - d
    BY DEF IInv, Place, CopyPos
  <2>2. call.size \in 0 .. Cap
    BY <1>0, <2>1, WhatCallsHave DEF Sized
  <2>3. QED
    BY <1>0, <2>1, <2>2
<1>2. pc \in {"append"} => d \in Index
  BY Appending
<1>3. pc \in {"skip", "scan"} => d \in Index
  BY Cutting
<1>4. pc = "end" /\ n # 0 => d \in Index
  <2>. SUFFICES ASSUME pc = "end", n # 0 PROVE d \in Index
    OBVIOUS
  <2>1. d + n = call.size /\ call.size \in 0 .. Cap /\ d \in Nat
    BY AtEnd
  <2>2. QED
    BY <1>0, <2>1
<1>5. pc \in {"copy", "rest", "append"} => s <= Len(call.src)
  BY DEF IInv, Place, CopyPos, RestPos, AppendPos
<1>6. QED
  BY <1>1, <1>2, <1>3, <1>4, <1>5, LooksInside DEF StaysInside

\* No string function reads or writes outside the buffer, its size or its other string,
\* in any sequence of calls.
THEOREM Inside == Spec => []StaysInside
BY InsideInv, Invariance, PTL

LEMMA SafeInv == IInv => SavedPointerSafe
<1>. SUFFICES ASSUME IInv, pc = "caller", last # NULL
     PROVE  \E i \in last .. Cap - 1 : mem[i] = Nul
  BY DEF SavedPointerSafe
<1>1. NulFrom(last)
  BY DEF IInv, SavedOrWritten
<1>2. last \in Int /\ Index = 0 .. Cap - 1 /\ Cap \in Nat
  BY Facts DEF IInv
<1>3. PICK i \in Index : last <= i /\ mem[i] = Nul
  BY <1>1 DEF NulFrom
<1>4. i \in last .. Cap - 1
  BY <1>2, <1>3
<1>5. QED
  BY <1>3, <1>4

\* What strtok_r saved can be gone on with, however the buffer was filled since.
THEOREM SavedIsSafe == Spec => []SavedPointerSafe
BY SafeInv, Invariance, PTL
-----------------------------------------------------------------------------
(* What the functions compute: how much of it each loop has done           *)

Stopping  == {"strlen", "strnlen", "strchr", "strrchr", "strcmp", "strncmp"}
Comparing == {"strcmp", "strncmp", "memcmp"}

CopyDone ==
  pc = "copy" =>
    /\ s = d
    /\ \A i \in Index : mem[i] = IF i < d THEN call.src[i + 1] ELSE before[i]
RestDone ==
  pc = "rest" =>
    /\ call.size - 1 <= s
    /\ mem = IF call.size = 0 THEN before
             ELSE With(before, 0, FirstOf(call.src, call.size - 1))
EndDone ==
  pc = "end" => mem = before /\ \A i \in 0 .. d - 1 : before[i] # Nul
AppendDone ==
  pc = "append" =>
    /\ mark = Length(before, call.size) /\ mark \in 0 .. d
    /\ d - mark <= s /\ (n # 0 => s = d - mark)
    /\ \A i \in Index : mem[i] = IF mark <= i /\ i < d THEN call.src[i - mark + 1]
                                 ELSE before[i]
SkipDone ==
  pc = "skip" =>
    /\ mem = before /\ call.from \in Index /\ call.from <= d
    /\ \A i \in call.from .. d - 1 : before[i] \in call.delim
ScanDone ==
  pc = "scan" =>
    /\ mem = before /\ call.from \in Index /\ mark \in Index /\ mark < d
    /\ mark = FirstIn(before, call.from, (Letter \ call.delim) \cup {Nul})
    /\ \A i \in mark .. d - 1 : before[i] \notin call.delim \cup {Nul}
LookDone ==
  pc = "look" =>
    /\ mem = before
    /\ call.fn \in Stopping => \A i \in 0 .. d - 1 : before[i] # Nul
    /\ call.fn \in {"strchr", "memchr"} => \A i \in 0 .. d - 1 : before[i] # Needle
    /\ call.fn = "memrchr" => \A i \in d + 1 .. call.size - 1 : before[i] # Needle
    /\ call.fn = "strrchr" =>
         IF mark = NULL THEN \A i \in 0 .. d - 1 : before[i] # Needle
         ELSE /\ mark \in 0 .. d - 1 /\ before[mark] = Needle
              /\ \A i \in mark + 1 .. d - 1 : before[i] # Needle
    /\ call.fn \in Comparing => s = d /\ \A i \in 0 .. d - 1 : before[i] = Src(i)

Done    == CopyDone /\ RestDone /\ EndDone /\ AppendDone /\ SkipDone /\ ScanDone /\ LookDone
Results == CopiesAsDocumented /\ TokensAreMaximal /\ ScansAsDeclared
RInv    == Done /\ Results

LEMMA MinIs ==
  ASSUME NEW S \in SUBSET Int, NEW x \in S, \A y \in S : x <= y
  PROVE  Min(S) = x
<1>1. \E z \in S : \A y \in S : z <= y
  OBVIOUS
<1>2. Min(S) \in S /\ \A y \in S : Min(S) <= y
  BY <1>1, Zenon DEF Min
<1>3. Min(S) <= x /\ x <= Min(S) /\ Min(S) \in Int /\ x \in Int
  BY <1>2
<1>4. QED
  BY <1>3

LEMMA MaxIs ==
  ASSUME NEW S \in SUBSET Int, NEW x \in S, \A y \in S : x >= y
  PROVE  Max(S) = x
<1>1. \E z \in S : \A y \in S : z >= y
  OBVIOUS
<1>2. Max(S) \in S /\ \A y \in S : Max(S) >= y
  BY <1>1, Zenon DEF Max
<1>3. Max(S) >= x /\ x >= Max(S) /\ Max(S) \in Int /\ x \in Int
  BY <1>2
<1>4. QED
  BY <1>3

\* what the operators of the postconditions stand for
LEMMA LengthIs ==
  ASSUME NEW buf, NEW k \in Nat, NEW l \in 0 .. k,
         \A i \in 0 .. l - 1 : buf[i] # Nul, l = k \/ buf[l] = Nul
  PROVE  Length(buf, k) = l
<1>. DEFINE S == {j \in 0 .. k : \A i \in 0 .. j - 1 : buf[i] # Nul}
<1>1. S \in SUBSET Int /\ l \in S
  OBVIOUS
<1>2. ASSUME NEW y \in S PROVE l >= y
  <2>1. y \in 0 .. k /\ \A i \in 0 .. y - 1 : buf[i] # Nul
    OBVIOUS
  <2>2. CASE l < y
    <3>1. l # k /\ l \in 0 .. y - 1
      BY <2>1, <2>2
    <3>2. QED
      BY <2>1, <3>1
  <2>3. QED
    BY <2>1, <2>2
<1>3. Max(S) = l
  <2>. HIDE DEF S
  <2>1. QED
    BY <1>1, <1>2, MaxIs
<1>4. QED
  BY <1>3 DEF Length

LEMMA FirstInIs ==
  ASSUME NEW buf, NEW a \in Nat, NEW C, NEW x \in a .. Cap - 1, Cap \in Nat,
         buf[x] \in C, \A i \in a .. x - 1 : buf[i] \notin C
  PROVE  FirstIn(buf, a, C) = x
<1>. DEFINE S == {i \in a .. Cap - 1 : buf[i] \in C}
<1>1. S \in SUBSET Int /\ x \in S
  OBVIOUS
<1>2. ASSUME NEW y \in S PROVE x <= y
  <2>1. y \in a .. Cap - 1 /\ buf[y] \in C
    OBVIOUS
  <2>2. CASE y < x
    <3>1. y \in a .. x - 1
      BY <2>1, <2>2
    <3>2. QED
      BY <2>1, <3>1
  <2>3. QED
    BY <2>1, <2>2
<1>3. Min(S) = x
  <2>. HIDE DEF S
  <2>1. QED
    BY <1>1, <1>2, MinIs
<1>4. QED
  BY <1>3 DEF FirstIn

LEMMA FirstOfIs ==
  ASSUME NEW str \in Seq(Letter), NEW k \in 0 .. Len(str)
  PROVE  /\ Len(FirstOf(str, k)) = k
         /\ \A j \in 1 .. k : FirstOf(str, k)[j] = str[j]
BY DEF FirstOf

\* m is old with k characters of str copied to at, and a NUL put behind them, at e
Copied(m, old, at, e, str, k) ==
  /\ m \in [Index -> Letter \cup {Nul}] /\ str \in Seq(Letter) /\ k <= Len(str)
  /\ at \in Nat /\ k \in Nat /\ e \in Index /\ at + k = e
  /\ m[e] = Nul
  /\ \A i \in Index : i # e => m[i] = IF at <= i /\ i < e THEN str[i - at + 1] ELSE old[i]

LEMMA WithIs ==
  ASSUME NEW m, NEW old, NEW at, NEW e, NEW str, NEW k, Cap \in Nat,
         Copied(m, old, at, e, str, k)
  PROVE  m = With(old, at, FirstOf(str, k))
<1>. USE DEF Copied
<1>. DEFINE f == FirstOf(str, k)
<1>1. Len(f) = k /\ \A j \in 1 .. k : f[j] = str[j]
  <2>1. k \in 0 .. Len(str)
    BY DEF Index
  <2>2. QED
    BY <2>1, FirstOfIs
<1>2. e \in Int /\ at + k = e
  BY DEF Index
<1>3. m = [i \in Index |-> m[i]]
  OBVIOUS
<1>. HIDE DEF f
<1>4. ASSUME NEW i \in Index
      PROVE  m[i] = IF i < at \/ i > at + Len(f) THEN old[i]
                    ELSE IF i = at + Len(f) THEN Nul ELSE f[i - at + 1]
  <2>1. i \in Int /\ at + Len(f) = e
    BY <1>1, <1>2 DEF Index
  <2>2. CASE i = e
    BY <1>3, <2>1, <2>2
  <2>3. CASE i < at \/ i > e
    <3>1. ~ (at <= i /\ i < e) /\ i # e
      BY <1>2, <2>1, <2>3
    <3>2. m[i] = old[i]
      BY <1>3, <3>1
    <3>3. QED
      BY <2>1, <2>3, <3>2
  <2>4. CASE at <= i /\ i < e
    <3>1. i # e /\ i - at + 1 \in 1 .. k
      BY <1>2, <2>1, <2>4
    <3>2. m[i] = f[i - at + 1]
      BY <1>1, <1>3, <2>4, <3>1
    <3>3. ~ (i < at \/ i > e)
      BY <1>2, <2>1, <2>4
    <3>4. QED
      BY <2>1, <3>1, <3>2, <3>3
  <2>5. QED
    BY <1>2, <2>1, <2>2, <2>3, <2>4
<1>5. m = With(old, at, f)
  BY <1>3, <1>4 DEF With
<1>6. QED
  BY <1>5 DEF f

\* in the middle of a call nothing is promised yet, and between calls no loop runs
LEMMA Running == ASSUME pc' # "caller" PROVE Results'
BY DEF Results, CopiesAsDocumented, TokensAreMaximal, ScansAsDeclared

LEMMA Resting == ASSUME pc' = "caller" PROVE Done'
BY DEF Done, CopyDone, RestDone, EndDone, AppendDone, SkipDone, ScanDone, LookDone

\* each promise is about the calls of one kind
LEMMA Kinds ==
  ASSUME NEW c \in Call
  PROVE  /\ c \in Writes => c.fn \in {"strlcpy", "strlcat"}
         /\ c \in Scans => c.fn \in ScanFns
BY DEF Writes, Scans, ScanFns, Unsized, Counting

-----------------------------------------------------------------------------
LEMMA InitDone == Init => RInv
<1>. SUFFICES ASSUME Init PROVE RInv
  OBVIOUS
<1>1. /\ pc = "caller" /\ call.fn = "strlcpy" /\ call.size = 0 /\ call \in Writes
      /\ ret = Len(call.src) /\ mem = before
  BY DEF Init
<1>2. call \in Call /\ call.src \in Seq(Letter)
  BY <1>1, WhatCallsHave DEF Call, Sourced
<1>3. Done
  BY <1>1 DEF Done, CopyDone, RestDone, EndDone, AppendDone, SkipDone, ScanDone, LookDone
<1>4. CopiesAsDocumented
  BY <1>1, <1>2 DEF CopiesAsDocumented
<1>5. TokensAreMaximal /\ ScansAsDeclared
  BY <1>1, <1>2, Kinds DEF TokensAreMaximal, ScansAsDeclared, ScanFns, Unsized, Counting
<1>6. QED
  BY <1>3, <1>4, <1>5 DEF RInv, Results

LEMMA CallWriteDone ==
  ASSUME NEW src \in Sources, NEW size \in 0 .. Cap, Cap \in Nat, TypeOK,
         CallStrlcpy(src, size) \/ CallStrlcat(src, size)
  PROVE  RInv'
<1>1. /\ pc' \in {"copy", "end"} /\ d' = 0 /\ s' = 0 /\ before' = mem /\ mem' = mem
  BY DEF CallStrlcpy, CallStrlcat, Enter
<1>2. mem \in [Index -> Letter \cup {Nul}]
  BY Facts
<1>3. pc' = "copy" => CopyDone'
  BY <1>1, <1>2 DEF CopyDone, Index
<1>4. pc' = "end" => EndDone'
  BY <1>1 DEF EndDone
<1>5. Done'
  BY <1>1, <1>3, <1>4
     DEF Done, CopyDone, RestDone, EndDone, AppendDone, SkipDone, ScanDone, LookDone
<1>6. QED
  BY <1>1, <1>5, Running DEF RInv

LEMMA CallCutDone ==
  ASSUME IInv, NEW delim \in Delims, CallStrtok(delim) \/ CallStrtokAgain(delim)
  PROVE  RInv'
<1>0. TypeOK /\ 0 \in Index /\ Index = 0 .. Cap - 1 /\ Cap \in Nat
  BY Facts DEF IInv
<1>1. CASE pc' = "skip"
  <2>1. PICK from \in Index :
          Enter([fn |-> "strtok_r", from |-> from, delim |-> delim], "skip", from, 0)
    <3>1. CASE CallStrtok(delim)
      BY <1>0, <3>1 DEF CallStrtok
    <3>2. CASE CallStrtokAgain(delim)
      <4>1. last # NULL
        BY <1>1, <3>2 DEF CallStrtokAgain
      <4>2. last \in Index
        BY <1>0, <4>1, Facts
      <4>3. QED
        BY <3>2, <4>1, <4>2 DEF CallStrtokAgain
    <3>3. QED
      BY <3>1, <3>2
  <2>2. call'.from = from /\ d' = from /\ before' = mem /\ mem' = mem
    BY <2>1 DEF Enter
  <2>3. SkipDone'
    BY <1>0, <2>2 DEF SkipDone
  <2>4. Done'
    BY <1>1, <2>3
       DEF Done, CopyDone, RestDone, EndDone, AppendDone, ScanDone, LookDone
  <2>5. QED
    BY <1>1, <2>4, Running DEF RInv
<1>2. CASE pc' # "skip"
  <2>1. /\ last = NULL /\ pc = "caller" /\ ret' = NULL /\ before' = mem
        /\ call' = [fn |-> "strtok_r", from |-> last, delim |-> delim]
        /\ UNCHANGED <<pc, mem, last>>
    BY <1>2 DEF CallStrtok, CallStrtokAgain, Enter
  <2>2. call' \in Call /\ call'.fn = "strtok_r"
    BY <2>1 DEF Call, Cuts, Pointer
  <2>3. call' \notin Writes /\ call' \notin Scans
    BY <2>2, Kinds DEF ScanFns, Unsized, Counting
  <2>4. TokensAreMaximal'
    BY <2>1 DEF TokensAreMaximal
  <2>5. CopiesAsDocumented' /\ ScansAsDeclared'
    BY <2>3 DEF CopiesAsDocumented, ScansAsDeclared
  <2>6. QED
    BY <2>1, <2>4, <2>5, Resting DEF RInv, Results
<1>3. QED
  BY <1>1, <1>2

LEMMA CallScanDone ==
  ASSUME IInv, NEW c \in Scans, CallScan(c)
  PROVE  RInv'
<1>0. TypeOK /\ Cap \in Nat
  BY Facts DEF IInv
<1>1. /\ pc' = "look" /\ call' = c /\ d' = First(c) /\ s' = 0 /\ mark' = NULL
      /\ before' = mem /\ mem' = mem
  BY DEF CallScan, Enter
<1>2. c \in Call /\ c.fn \in ScanFns
  BY DEF Call, Scans, ScanFns, Unsized, Counting
<1>3. c.fn \in Sized => c.size \in 0 .. Cap
  BY <1>2, WhatCallsHave
<1>4. /\ c.fn = "memrchr" => d' = c.size - 1
      /\ c.fn # "memrchr" => d' = 0
  BY <1>1 DEF First
<1>5. \A k \in Int : 0 .. 0 - 1 = {} /\ (k - 1) + 1 .. k - 1 = {}
  OBVIOUS
<1>6. c.fn = "memrchr" => d' + 1 .. c.size - 1 = {}
  BY <1>0, <1>3, <1>4, <1>5 DEF Sized
<1>7. c.fn # "memrchr" => d' = 0 /\ 0 .. d' - 1 = {}
  BY <1>4, <1>5
<1>8. LookDone'
  BY <1>1, <1>6, <1>7 DEF LookDone, Stopping, Comparing
<1>9. Done'
  BY <1>1, <1>8 DEF Done, CopyDone, RestDone, EndDone, AppendDone, SkipDone, ScanDone
<1>10. QED
  BY <1>1, <1>9, Running DEF RInv

-----------------------------------------------------------------------------
\* what is known while strlcpy copies
LEMMA Copying ==
  ASSUME IInv, pc = "copy"
  PROVE  /\ TypeOK /\ call.fn = "strlcpy" /\ call \in Call /\ call.src \in Seq(Letter)
         /\ Len(call.src) \in Nat /\ call.size \in 0 .. Cap /\ Cap \in Nat \ {0}
         /\ d \in Nat /\ s \in Nat /\ n \in Nat /\ n = call.size - d /\ (call.size # 0 => n # 0)
         /\ s <= Len(call.src) /\ (Src(s) = Nul <=> s = Len(call.src))
         /\ Src(s) # Nul => Src(s) = call.src[s + 1]
<1>1. /\ TypeOK /\ call.fn = "strlcpy" /\ d >= 0 /\ n = call.size - d /\ s <= Len(call.src)
      /\ call.size # 0 => n # 0
  BY DEF IInv, Place, CopyPos
<1>2. call \in Call /\ call.size \in 0 .. Cap /\ call.src \in Seq(Letter)
  BY <1>1, WhatCallsHave DEF TypeOK, Sized, Sourced
<1>3. d \in Nat /\ n \in Nat /\ s \in Nat /\ Cap \in Nat \ {0}
  BY <1>1, Facts
<1>4. Len(call.src) \in Nat /\ (Src(s) = Nul <=> s >= Len(call.src))
  BY <1>2, <1>3, SrcFacts
<1>5. Src(s) # Nul => Src(s) = call.src[s + 1]
  BY DEF Src
<1>6. QED
  BY <1>1, <1>2, <1>3, <1>4, <1>5

LEMMA CopyByteDone == IInv /\ Done /\ CopyByte => RInv'
<1>. SUFFICES ASSUME IInv, Done, CopyByte PROVE RInv'
  OBVIOUS
<1>1. /\ pc = "copy" /\ n > 1 /\ Put(Src(s)) /\ UNCHANGED <<call, last, before>>
      /\ IF Src(s) = Nul THEN Return(s)
         ELSE d' = d + 1 /\ s' = s + 1 /\ n' = n - 1 /\ UNCHANGED <<pc, mark, ret>>
  BY DEF CopyByte, RoomLeft
<1>2. /\ TypeOK /\ call.fn = "strlcpy" /\ call \in Call /\ call.src \in Seq(Letter)
      /\ Len(call.src) \in Nat /\ call.size \in 0 .. Cap /\ Cap \in Nat \ {0}
      /\ d \in Nat /\ s \in Nat /\ n \in Nat /\ n = call.size - d
      /\ s <= Len(call.src) /\ (Src(s) = Nul <=> s = Len(call.src))
      /\ Src(s) # Nul => Src(s) = call.src[s + 1]
  BY <1>1, Copying
<1>3. /\ s = d
      /\ \A i \in Index : mem[i] = IF i < d THEN call.src[i + 1] ELSE before[i]
  BY <1>1 DEF Done, CopyDone
<1>4. d \in Index /\ Index = 0 .. Cap - 1
  BY <1>1, <1>2 DEF Index
<1>5. /\ mem' = [mem EXCEPT ![d] = Src(s)] /\ mem \in [Index -> Letter \cup {Nul}]
      /\ mem'[d] = Src(s) /\ \A i \in Index : i # d => mem'[i] = mem[i]
  BY <1>1, <1>2, <1>4, Facts DEF Put
<1>6. CASE Src(s) # Nul
  <2>1. d' = d + 1 /\ s' = s + 1 /\ pc' = "copy"
    BY <1>1, <1>6
  <2>2. ASSUME NEW i \in Index
        PROVE  mem'[i] = IF i < d + 1 THEN call.src[i + 1] ELSE before[i]
    <3>1. CASE i = d
      BY <1>2, <1>3, <1>5, <1>6, <3>1
    <3>2. CASE i # d
      BY <1>2, <1>3, <1>4, <1>5, <3>2
    <3>3. QED
      BY <3>1, <3>2
  <2>3. CopyDone'
    BY <1>1, <1>3, <2>1, <2>2 DEF CopyDone
  <2>4. Done'
    BY <2>1, <2>3 DEF Done, RestDone, EndDone, AppendDone, SkipDone, ScanDone, LookDone
  <2>5. QED
    BY <2>1, <2>4, Running DEF RInv
<1>7. CASE Src(s) = Nul
  <2>. DEFINE k == Len(call.src)
  <2>1. pc' = "caller" /\ ret' = k /\ d = k /\ k < call.size - 1
    BY <1>1, <1>2, <1>3, <1>7 DEF Return
  <2>2. /\ mem'[d] = Nul
        /\ \A i \in Index : i # d => mem'[i] = IF i < d THEN call.src[i + 1] ELSE before[i]
    BY <1>3, <1>5, <1>7
  <2>3. /\ Cap \in Nat /\ d \in Index /\ call.src \in Seq(Letter)
        /\ d <= Len(call.src) /\ d = k /\ mem' \in [Index -> Letter \cup {Nul}]
    BY <1>2, <1>4, <1>5, <1>7, <2>1
  <2>4. mem' = With(before, 0, FirstOf(call.src, k))
    <3>1. \A i \in Index : 0 <= i /\ i - 0 + 1 = i + 1
      BY <2>3 DEF Index
    <3>2. Copied(mem', before, 0, d, call.src, d)
      BY <2>2, <2>3, <3>1 DEF Copied
    <3>3. QED
      BY <2>3, <3>2, WithIs
  <2>5. Least(k, call.size - 0 - 1) = k /\ ret' = k + 0 /\ call.size # 0
    BY <1>2, <2>1 DEF Least
  <2>. HIDE DEF k
  <2>6. CopiesAsDocumented'
    BY <1>1, <1>2, <2>4, <2>5 DEF CopiesAsDocumented, k
  <2>7. call' \notin Scans /\ call'.fn # "strtok_r"
    BY <1>1, <1>2, Kinds DEF ScanFns, Unsized, Counting
  <2>8. TokensAreMaximal' /\ ScansAsDeclared'
    BY <2>7 DEF TokensAreMaximal, ScansAsDeclared
  <2>9. QED
    BY <2>1, <2>6, <2>8, Resting DEF RInv, Results
<1>8. QED
  BY <1>6, <1>7

LEMMA CopyFullDone == IInv /\ Done /\ CopyFull => RInv'
<1>. SUFFICES ASSUME IInv, Done, CopyFull PROVE RInv'
  OBVIOUS
<1>1. /\ pc = "copy" /\ ~ (n > 1) /\ pc' = "rest" /\ UNCHANGED <<call, d, s, before>>
      /\ IF call.size # 0 THEN Put(Nul) ELSE UNCHANGED mem
  BY DEF CopyFull, RoomLeft, Terminator
<1>2. /\ TypeOK /\ call.src \in Seq(Letter)
      /\ Len(call.src) \in Nat /\ call.size \in 0 .. Cap /\ Cap \in Nat \ {0}
      /\ d \in Nat /\ s \in Nat /\ n \in Nat /\ n = call.size - d /\ (call.size # 0 => n # 0)
      /\ s <= Len(call.src)
  BY <1>1, Copying
<1>3. /\ s = d
      /\ \A i \in Index : mem[i] = IF i < d THEN call.src[i + 1] ELSE before[i]
  BY <1>1 DEF Done, CopyDone
<1>4. call.size - 1 <= s
  BY <1>1, <1>2, <1>3
<1>5. mem' = IF call.size = 0 THEN before
             ELSE With(before, 0, FirstOf(call.src, call.size - 1))
  <2>1. CASE call.size = 0
    <3>1. d = 0 /\ mem' = mem
      BY <1>1, <1>2, <2>1
    <3>2. mem \in [Index -> Letter \cup {Nul}] /\ before \in [Index -> Letter \cup {Nul}]
      BY <1>2 DEF TypeOK
    <3>3. \A i \in Index : ~ (i < 0)
      BY <1>2 DEF Index
    <3>4. mem = before
      BY <1>3, <3>1, <3>2, <3>3
    <3>5. QED
      BY <2>1, <3>1, <3>4
  <2>2. CASE call.size # 0
    <3>. DEFINE k == call.size - 1
    <3>1. d = k /\ k \in 0 .. Len(call.src) /\ d \in Index /\ Index = 0 .. Cap - 1 /\ Put(Nul)
      BY <1>1, <1>2, <1>3, <2>2 DEF Index
    <3>2. /\ mem' = [mem EXCEPT ![d] = Nul] /\ mem \in [Index -> Letter \cup {Nul}]
          /\ mem'[d] = Nul /\ \A i \in Index : i # d => mem'[i] = mem[i]
      BY <1>2, <3>1, Facts DEF Put
    <3>3. \A i \in Index : i # d => mem'[i] = IF i < d THEN call.src[i + 1] ELSE before[i]
      BY <1>3, <3>2
    <3>4. /\ Cap \in Nat /\ d \in Index /\ call.src \in Seq(Letter) /\ d <= Len(call.src)
          /\ mem' \in [Index -> Letter \cup {Nul}] /\ mem'[d] = Nul
      BY <1>2, <3>1, <3>2
    <3>5. mem' = With(before, 0, FirstOf(call.src, k))
      <4>1. \A i \in Index : 0 <= i /\ i - 0 + 1 = i + 1
        BY <3>4 DEF Index
      <4>2. Copied(mem', before, 0, d, call.src, d)
        BY <3>1, <3>3, <3>4, <4>1 DEF Copied
      <4>3. QED
        BY <3>1, <3>4, <4>2, WithIs
    <3>6. QED
      BY <2>2, <3>5 DEF k
  <2>3. QED
    BY <2>1, <2>2
<1>6. RestDone'
  BY <1>1, <1>4, <1>5 DEF RestDone
<1>7. Done'
  BY <1>1, <1>6 DEF Done, CopyDone, EndDone, AppendDone, SkipDone, ScanDone, LookDone
<1>8. QED
  BY <1>1, <1>7, Running DEF RInv

LEMMA RestIsDone == IInv /\ Done /\ Rest => RInv'
<1>. SUFFICES ASSUME IInv, Done, Rest PROVE RInv'
  OBVIOUS
<1>1. /\ pc = "rest" /\ UNCHANGED <<call, mem, last, before>>
      /\ IF Src(s) = Nul THEN Return(s) ELSE s' = s + 1 /\ UNCHANGED <<pc, d, n, mark, ret>>
  BY DEF Rest
<1>2. /\ call.fn = "strlcpy" /\ s <= Len(call.src) /\ TypeOK
      /\ call.size - 1 <= s
      /\ mem = IF call.size = 0 THEN before
               ELSE With(before, 0, FirstOf(call.src, call.size - 1))
  BY <1>1 DEF IInv, Place, RestPos, Done, RestDone
<1>3. call \in Call /\ call.src \in Seq(Letter) /\ call.size \in 0 .. Cap
  BY <1>2, WhatCallsHave DEF TypeOK, Sized, Sourced
<1>4. s \in Nat /\ Cap \in Nat
  BY <1>2, Facts
<1>5. Len(call.src) \in Nat /\ (Src(s) = Nul <=> s >= Len(call.src))
  BY <1>3, <1>4, SrcFacts
<1>6. CASE Src(s) = Nul
  <2>1. pc' = "caller" /\ ret' = Len(call.src) /\ call.size - 1 <= Len(call.src)
    BY <1>1, <1>2, <1>4, <1>5, <1>6 DEF Return
  <2>2. Least(Len(call.src), call.size - 0 - 1) = call.size - 1 /\ Len(call.src) + 0 = ret'
    BY <1>3, <1>4, <1>5, <2>1 DEF Least
  <2>3. CopiesAsDocumented'
    BY <1>1, <1>2, <2>2 DEF CopiesAsDocumented
  <2>4. call' \notin Scans /\ call'.fn # "strtok_r"
    BY <1>1, <1>2, <1>3, Kinds DEF ScanFns, Unsized, Counting
  <2>5. TokensAreMaximal' /\ ScansAsDeclared'
    BY <2>4 DEF TokensAreMaximal, ScansAsDeclared
  <2>6. QED
    BY <2>1, <2>3, <2>5, Resting DEF RInv, Results
<1>7. CASE Src(s) # Nul
  <2>1. pc' = "rest" /\ s' = s + 1
    BY <1>1, <1>7
  <2>2. call.size - 1 <= s + 1
    BY <1>2, <1>3, <1>4
  <2>3. RestDone'
    BY <1>1, <1>2, <2>1, <2>2 DEF RestDone
  <2>4. Done'
    BY <2>1, <2>3 DEF Done, CopyDone, EndDone, AppendDone, SkipDone, ScanDone, LookDone
  <2>5. QED
    BY <2>1, <2>4, Running DEF RInv
<1>8. QED
  BY <1>6, <1>7

LEMMA FindEndDone == IInv /\ Done /\ FindEnd => RInv'
<1>. SUFFICES ASSUME IInv, Done, FindEnd PROVE RInv'
  OBVIOUS
<1>1. pc = "end" /\ mem[d] # Nul /\ d' = d + 1 /\ UNCHANGED <<pc, mem, before>>
  BY DEF FindEnd
<1>2. d \in Nat /\ mem = before /\ \A i \in 0 .. d - 1 : before[i] # Nul
  BY <1>1, AtEnd DEF Done, EndDone
<1>3. ASSUME NEW i \in 0 .. (d + 1) - 1 PROVE before[i] # Nul
  <2>1. i = d \/ i \in 0 .. d - 1
    BY <1>2
  <2>2. QED
    BY <1>1, <1>2, <2>1
<1>4. EndDone'
  BY <1>1, <1>2, <1>3 DEF EndDone
<1>5. Done'
  BY <1>1, <1>4 DEF Done, CopyDone, RestDone, AppendDone, SkipDone, ScanDone, LookDone
<1>6. QED
  BY <1>1, <1>5, Running DEF RInv

LEMMA EndFoundDone == IInv /\ Done /\ EndFound => RInv'
<1>. SUFFICES ASSUME IInv, Done, EndFound PROVE RInv'
  OBVIOUS
<1>1. /\ pc = "end" /\ (n # 0 => mem[d] = Nul) /\ UNCHANGED <<call, mem, before>>
      /\ IF call.size = d THEN Return(d + Len(call.src))
         ELSE n' = call.size - d - 1 /\ mark' = d /\ pc' = "append" /\ UNCHANGED <<d, s, ret>>
  BY DEF EndFound, Room
<1>2. /\ TypeOK /\ call.fn = "strlcat" /\ d + n = call.size /\ call.size \in 0 .. Cap /\ s = 0
      /\ call.src \in Seq(Letter) /\ Len(call.src) \in Nat
      /\ d \in Nat /\ n \in Nat /\ Cap \in Nat \ {0} /\ d <= call.size
  BY <1>1, AtEnd
<1>3. mem = before /\ \A i \in 0 .. d - 1 : before[i] # Nul
  BY <1>1 DEF Done, EndDone
<1>4. Length(before, call.size) = d
  <2>1. d = call.size \/ before[d] = Nul
    BY <1>1, <1>2, <1>3
  <2>2. call.size \in Nat /\ d \in 0 .. call.size
    BY <1>2
  <2>3. QED
    BY <1>3, <2>1, <2>2, LengthIs
<1>5. CASE call.size = d
  <2>1. pc' = "caller" /\ ret' = Len(call.src) + d
    BY <1>1, <1>2, <1>5 DEF Return
  <2>2. CopiesAsDocumented'
    BY <1>1, <1>2, <1>3, <1>4, <1>5, <2>1 DEF CopiesAsDocumented
  <2>3. call' \notin Scans /\ call'.fn # "strtok_r"
    BY <1>1, <1>2, Kinds DEF TypeOK, ScanFns, Unsized, Counting
  <2>4. TokensAreMaximal' /\ ScansAsDeclared'
    BY <2>3 DEF TokensAreMaximal, ScansAsDeclared
  <2>5. QED
    BY <2>1, <2>2, <2>4, Resting DEF RInv, Results
<1>6. CASE call.size # d
  <2>1. mark' = d /\ pc' = "append" /\ d' = d /\ s' = 0 /\ mem' = before
    BY <1>1, <1>2, <1>3, <1>6
  <2>2. d - d = 0 /\ d \in 0 .. d /\ \A i \in Index : ~ (d <= i /\ i < d)
    BY <1>2 DEF Index
  <2>3. AppendDone'
    BY <1>1, <1>4, <2>1, <2>2 DEF AppendDone
  <2>4. Done'
    BY <2>1, <2>3 DEF Done, CopyDone, RestDone, EndDone, SkipDone, ScanDone, LookDone
  <2>5. QED
    BY <2>1, <2>4, Running DEF RInv
<1>7. QED
  BY <1>5, <1>6

LEMMA AppendIsDone == IInv /\ Done /\ Append1 => RInv'
<1>. SUFFICES ASSUME IInv, Done, Append1 PROVE RInv'
  OBVIOUS
<1>1. /\ pc = "append" /\ Src(s) # Nul /\ s' = s + 1
      /\ UNCHANGED <<pc, call, mark, before>>
      /\ IF n # 0 THEN Put(Src(s)) /\ d' = d + 1 /\ n' = n - 1 ELSE UNCHANGED <<mem, d, n>>
  BY DEF Append1
<1>2. TypeOK /\ d \in Nat /\ n \in Nat /\ s \in Nat /\ d \in Index
  BY <1>1, Appending
<1>3. /\ mark = Length(before, call.size) /\ mark \in 0 .. d
      /\ d - mark <= s /\ (n # 0 => s = d - mark)
      /\ \A i \in Index : mem[i] = IF mark <= i /\ i < d THEN call.src[i - mark + 1]
                                   ELSE before[i]
  BY <1>1 DEF Done, AppendDone
<1>4. AppendDone'
  <2>1. CASE n = 0
    <3>1. UNCHANGED <<mem, d, n>> /\ d - mark <= s + 1
      BY <1>1, <1>2, <1>3, <2>1
    <3>2. QED
      BY <1>1, <1>3, <2>1, <3>1 DEF AppendDone
  <2>2. CASE n # 0
    <3>1. /\ mem' = [mem EXCEPT ![d] = Src(s)] /\ d' = d + 1 /\ mem \in [Index -> Letter \cup {Nul}]
          /\ mem'[d] = Src(s) /\ \A i \in Index : i # d => mem'[i] = mem[i]
      BY <1>1, <1>2, <2>2, Facts DEF Put
    <3>2. Src(s) = call.src[d - mark + 1]
      BY <1>1, <1>3, <2>2 DEF Src
    <3>3. ASSUME NEW i \in Index
          PROVE  mem'[i] = IF mark <= i /\ i < d + 1 THEN call.src[i - mark + 1] ELSE before[i]
      <4>1. CASE i = d
        BY <1>2, <1>3, <3>1, <3>2, <4>1
      <4>2. CASE i # d
        BY <1>2, <1>3, <3>1, <4>2 DEF Index
      <4>3. QED
        BY <4>1, <4>2
    <3>4. mark \in 0 .. d + 1 /\ s + 1 = (d + 1) - mark
      BY <1>2, <1>3, <2>2
    <3>5. QED
      BY <1>1, <1>3, <3>1, <3>3, <3>4 DEF AppendDone
  <2>3. QED
    BY <2>1, <2>2
<1>5. Done'
  BY <1>1, <1>4 DEF Done, CopyDone, RestDone, EndDone, SkipDone, ScanDone, LookDone
<1>6. QED
  BY <1>1, <1>5, Running DEF RInv

LEMMA AppendEndDone == IInv /\ Done /\ AppendEnd => RInv'
<1>. SUFFICES ASSUME IInv, Done, AppendEnd PROVE RInv'
  OBVIOUS
<1>1. /\ pc = "append" /\ Src(s) = Nul /\ Put(Nul) /\ Return(mark + s)
      /\ UNCHANGED <<call, last, before>>
  BY DEF AppendEnd, WholeLength
<1>2. /\ TypeOK /\ call.fn = "strlcat" /\ d + n = call.size - 1
      /\ call.src \in Seq(Letter) /\ Len(call.src) \in Nat /\ s \in Nat
      /\ d \in Nat /\ n \in Nat /\ Cap \in Nat \ {0} /\ d \in Index
  BY <1>1, Appending
<1>3. /\ mark = Length(before, call.size) /\ mark \in 0 .. d
      /\ d - mark <= s /\ (n # 0 => s = d - mark)
      /\ \A i \in Index : mem[i] = IF mark <= i /\ i < d THEN call.src[i - mark + 1]
                                   ELSE before[i]
  BY <1>1 DEF Done, AppendDone
<1>4. call \in Call /\ call.size \in Int /\ s <= Len(call.src)
  BY <1>1, <1>2, WhatCallsHave DEF TypeOK, Sized, IInv, Place, AppendPos
<1>5. s = Len(call.src)
  <2>1. s >= Len(call.src)
    BY <1>1, <1>2, SrcFacts
  <2>2. QED
    BY <1>2, <1>4, <2>1
<1>. DEFINE k == d - mark
<1>6. /\ k \in 0 .. Len(call.src) /\ mark + k = d /\ mark # call.size
      /\ Least(Len(call.src), call.size - mark - 1) = k
  <2>1. /\ mark \in Nat /\ mark <= d /\ k \in Nat /\ mark + k = d
        /\ k <= Len(call.src) /\ (n # 0 => Len(call.src) = k)
    BY <1>2, <1>3, <1>5
  <2>. HIDE DEF k
  <2>2. call.size = mark + k + n + 1
    BY <1>2, <1>4, <2>1
  <2>3. call.size - mark - 1 = k + n
    BY <1>2, <2>1, <2>2
  <2>4. k \in 0 .. Len(call.src) /\ mark # call.size
    BY <1>2, <2>1, <2>2
  <2>5. IF Len(call.src) < k + n THEN Len(call.src) = k ELSE k + n = k
    BY <1>2, <2>1
  <2>6. QED
    BY <1>2, <2>1, <2>3, <2>4, <2>5 DEF Least
<1>7. /\ mem' = [mem EXCEPT ![d] = Nul] /\ mem \in [Index -> Letter \cup {Nul}]
      /\ mem'[d] = Nul /\ \A i \in Index : i # d => mem'[i] = mem[i]
      /\ mem' \in [Index -> Letter \cup {Nul}]
  BY <1>1, <1>2, Facts DEF Put
<1>. HIDE DEF k
<1>8. mark \in Nat /\ Cap \in Nat /\ k \in Nat /\ mark + k = d /\ k <= Len(call.src)
  BY <1>2, <1>3, <1>6
<1>9. mem' = With(before, mark, FirstOf(call.src, k))
  <2>1. d \in Index /\ call.src \in Seq(Letter)
        /\ mem' \in [Index -> Letter \cup {Nul}] /\ mem'[d] = Nul
    BY <1>2, <1>7
  <2>2. \A i \in Index : i # d => mem'[i] = IF mark <= i /\ i < d THEN call.src[i - mark + 1]
                                            ELSE before[i]
    BY <1>3, <1>7
  <2>3. Copied(mem', before, mark, d, call.src, k)
    BY <1>8, <2>1, <2>2 DEF Copied
  <2>4. QED
    BY <1>8, <2>3, WithIs
<1>10. pc' = "caller" /\ ret' = Len(call.src) + mark
  BY <1>1, <1>2, <1>3, <1>5 DEF Return
<1>11. CopiesAsDocumented'
  BY <1>1, <1>2, <1>3, <1>6, <1>9, <1>10 DEF CopiesAsDocumented
<1>12. call' \notin Scans /\ call'.fn # "strtok_r"
  BY <1>1, <1>2, <1>4, Kinds DEF ScanFns, Unsized, Counting
<1>13. TokensAreMaximal' /\ ScansAsDeclared'
  BY <1>12 DEF TokensAreMaximal, ScansAsDeclared
<1>14. QED
  BY <1>10, <1>11, <1>13, Resting DEF RInv, Results

-----------------------------------------------------------------------------
\* what is known of the buffer and the delimiters while strtok_r runs
LEMMA Delimited ==
  ASSUME IInv, pc \in {"skip", "scan"}
  PROVE  /\ call \in Call /\ call.fn = "strtok_r" /\ call.delim \subseteq Letter
         /\ Nul \notin Letter /\ Cap \in Nat \ {0} /\ Index = 0 .. Cap - 1
         /\ d \in Index /\ mem \in [Index -> Letter \cup {Nul}]
         /\ call' = call => call' \notin Writes /\ call' \notin Scans
<1>1. TypeOK /\ call.fn = "strtok_r" /\ d \in Index
  BY Cutting
<1>2. call \in Call
  BY <1>1 DEF TypeOK
<1>3. call.delim \subseteq Letter
  BY <1>1, <1>2, CallsAssumption DEF Call, Writes, Cuts, Scans
<1>4. call \notin Writes /\ call \notin Scans
  BY <1>1, <1>2, Kinds DEF ScanFns, Unsized, Counting
<1>5. Nul \notin Letter
  BY BufferAssumption DEF Nul
<1>6. QED
  BY <1>1, <1>2, <1>3, <1>4, <1>5, Facts

LEMMA SkipIsDone == IInv /\ Done /\ Skip => RInv'
<1>. SUFFICES ASSUME IInv, Done, Skip PROVE RInv'
  OBVIOUS
<1>1. /\ pc = "skip" /\ mem[d] \in call.delim /\ d' = d + 1
      /\ UNCHANGED <<pc, call, mem, before>>
  BY DEF Skip, Skipped
<1>2. /\ mem = before /\ call.from \in Index /\ call.from <= d
      /\ \A i \in call.from .. d - 1 : before[i] \in call.delim
  BY <1>1 DEF Done, SkipDone
<1>3. d \in Index /\ Index = 0 .. Cap - 1 /\ Cap \in Nat
  BY <1>1, Delimited
<1>4. call.from <= d + 1
  BY <1>2, <1>3
<1>5. ASSUME NEW i \in call.from .. (d + 1) - 1 PROVE before[i] \in call.delim
  <2>1. i = d \/ i \in call.from .. d - 1
    BY <1>2, <1>3
  <2>2. QED
    BY <1>1, <1>2, <2>1
<1>6. SkipDone'
  BY <1>1, <1>2, <1>4, <1>5 DEF SkipDone
<1>7. Done'
  BY <1>1, <1>6 DEF Done, CopyDone, RestDone, EndDone, AppendDone, ScanDone, LookDone
<1>8. QED
  BY <1>1, <1>7, Running DEF RInv

\* the first character that is not skipped is where the token, or the NUL, is
LEMMA TokenIsHere ==
  ASSUME IInv, Done, pc = "skip", mem[d] \notin call.delim
  PROVE  d = FirstIn(before, call.from, (Letter \ call.delim) \cup {Nul})
<1>. DEFINE C == (Letter \ call.delim) \cup {Nul}
<1>1. /\ mem = before /\ call.from \in Index /\ call.from <= d
      /\ \A i \in call.from .. d - 1 : before[i] \in call.delim
  BY DEF Done, SkipDone
<1>2. /\ d \in Index /\ Index = 0 .. Cap - 1 /\ Cap \in Nat
      /\ call.delim \subseteq Letter /\ Nul \notin Letter
      /\ mem \in [Index -> Letter \cup {Nul}]
  BY Delimited
<1>3. call.from \in Nat /\ d \in call.from .. Cap - 1
  BY <1>1, <1>2
<1>4. before[d] \in C
  BY <1>1, <1>2
<1>5. \A i \in call.from .. d - 1 : before[i] \notin C
  BY <1>1, <1>2
<1>. HIDE DEF C
<1>6. FirstIn(before, call.from, C) = d
  BY <1>2, <1>3, <1>4, <1>5, FirstInIs
<1>7. QED
  BY <1>6 DEF C

LEMMA NoTokenDone == IInv /\ Done /\ NoToken => RInv'
<1>. SUFFICES ASSUME IInv, Done, NoToken PROVE RInv'
  OBVIOUS
<1>1. /\ pc = "skip" /\ mem[d] = Nul /\ last' = NULL /\ Return(NULL)
      /\ UNCHANGED <<call, mem, before>>
  BY DEF NoToken
<1>2. /\ mem = before /\ call.delim \subseteq Letter /\ Nul \notin Letter
      /\ call' \notin Writes /\ call' \notin Scans
  BY <1>1, Delimited DEF Done, SkipDone
<1>3. d = FirstIn(before, call.from, (Letter \ call.delim) \cup {Nul})
  BY <1>1, <1>2, TokenIsHere
<1>4. pc' = "caller" /\ ret' = NULL
  BY <1>1 DEF Return
<1>5. call.from # NULL
  BY <1>1, Delimited, BufferAssumption DEF Done, SkipDone
<1>6. TokensAreMaximal'
  BY <1>1, <1>2, <1>3, <1>4, <1>5 DEF TokensAreMaximal
<1>7. CopiesAsDocumented' /\ ScansAsDeclared'
  BY <1>2 DEF CopiesAsDocumented, ScansAsDeclared
<1>8. QED
  BY <1>4, <1>6, <1>7, Resting DEF RInv, Results

LEMMA TokenStartDone == IInv /\ Done /\ TokenStart => RInv'
<1>. SUFFICES ASSUME IInv, Done, TokenStart PROVE RInv'
  OBVIOUS
<1>1. /\ pc = "skip" /\ mem[d] \notin call.delim \cup {Nul}
      /\ mark' = d /\ d' = d + 1 /\ pc' = "scan" /\ UNCHANGED <<call, mem, before>>
  BY DEF TokenStart
<1>2. /\ mem = before /\ call.from \in Index /\ d \in Index
      /\ Index = 0 .. Cap - 1 /\ Cap \in Nat
  BY <1>1, Delimited DEF Done, SkipDone
<1>3. d = FirstIn(before, call.from, (Letter \ call.delim) \cup {Nul})
  BY <1>1, TokenIsHere
<1>4. ASSUME NEW i \in d .. (d + 1) - 1 PROVE before[i] \notin call.delim \cup {Nul}
  <2>1. i = d
    BY <1>2
  <2>2. QED
    BY <1>1, <1>2, <2>1
<1>5. d < d + 1
  BY <1>2
<1>6. ScanDone'
  BY <1>1, <1>2, <1>3, <1>4, <1>5 DEF ScanDone
<1>7. Done'
  BY <1>1, <1>6 DEF Done, CopyDone, RestDone, EndDone, AppendDone, SkipDone, LookDone
<1>8. QED
  BY <1>1, <1>7, Running DEF RInv

LEMMA ScanOnDone == IInv /\ Done /\ ScanOn => RInv'
<1>. SUFFICES ASSUME IInv, Done, ScanOn PROVE RInv'
  OBVIOUS
<1>1. /\ pc = "scan" /\ mem[d] \notin call.delim \cup {Nul} /\ d' = d + 1
      /\ UNCHANGED <<pc, call, mark, mem, before>>
  BY DEF ScanOn
<1>2. /\ mem = before /\ call.from \in Index /\ mark \in Index /\ mark < d
      /\ mark = FirstIn(before, call.from, (Letter \ call.delim) \cup {Nul})
      /\ \A i \in mark .. d - 1 : before[i] \notin call.delim \cup {Nul}
  BY <1>1 DEF Done, ScanDone
<1>3. d \in Index /\ Index = 0 .. Cap - 1 /\ Cap \in Nat
  BY <1>1, Delimited
<1>4. ASSUME NEW i \in mark .. (d + 1) - 1 PROVE before[i] \notin call.delim \cup {Nul}
  <2>1. i = d \/ i \in mark .. d - 1
    BY <1>2, <1>3
  <2>2. QED
    BY <1>1, <1>2, <2>1
<1>5. mark < d + 1
  BY <1>2, <1>3
<1>6. ScanDone'
  BY <1>1, <1>2, <1>4, <1>5 DEF ScanDone
<1>7. Done'
  BY <1>1, <1>6 DEF Done, CopyDone, RestDone, EndDone, AppendDone, SkipDone, LookDone
<1>8. QED
  BY <1>1, <1>7, Running DEF RInv

LEMMA TokenEndDone == IInv /\ Done /\ TokenEnd => RInv'
<1>. SUFFICES ASSUME IInv, Done, TokenEnd PROVE RInv'
  OBVIOUS
<1>1. /\ pc = "scan" /\ mem[d] \in call.delim \cup {Nul} /\ Return(mark)
      /\ mem' = [mem EXCEPT ![d] = Nul] /\ last' = IF mem[d] = Nul THEN NULL ELSE d + 1
      /\ UNCHANGED <<call, before>>
  BY DEF TokenEnd, Put, Saved
<1>2. /\ mem = before /\ call.from \in Index /\ mark \in Index /\ mark < d
      /\ mark = FirstIn(before, call.from, (Letter \ call.delim) \cup {Nul})
      /\ \A i \in mark .. d - 1 : before[i] \notin call.delim \cup {Nul}
  BY <1>1 DEF Done, ScanDone
<1>3. /\ d \in Index /\ Index = 0 .. Cap - 1 /\ Cap \in Nat
      /\ call' \notin Writes /\ call' \notin Scans
  BY <1>1, Delimited
<1>4. FirstIn(before, mark, call.delim \cup {Nul}) = d
  <2>. DEFINE C == call.delim \cup {Nul}
  <2>1. mark \in Nat /\ d \in mark .. Cap - 1
    BY <1>2, <1>3
  <2>2. before[d] \in C /\ \A i \in mark .. d - 1 : before[i] \notin C
    BY <1>1, <1>2
  <2>. HIDE DEF C
  <2>3. FirstIn(before, mark, C) = d
    BY <1>3, <2>1, <2>2, FirstInIs
  <2>4. QED
    BY <2>3 DEF C
<1>5. before[mark] # Nul
  <2>1. mark \in mark .. d - 1
    BY <1>2, <1>3
  <2>2. QED
    BY <1>2, <2>1
<1>6. pc' = "caller" /\ ret' = mark
  BY <1>1 DEF Return
<1>7. call.from # NULL
  BY <1>2, <1>3, BufferAssumption
<1>8. TokensAreMaximal'
  BY <1>1, <1>2, <1>4, <1>5, <1>6, <1>7 DEF TokensAreMaximal
<1>9. CopiesAsDocumented' /\ ScansAsDeclared'
  BY <1>3 DEF CopiesAsDocumented, ScansAsDeclared
<1>10. QED
  BY <1>6, <1>8, <1>9, Resting DEF RInv, Results

-----------------------------------------------------------------------------
(* What the searches and comparisons return                                *)

\* the least-number principle
LEMMA LeastOf ==
  ASSUME NEW T \in SUBSET Nat, T # {}
  PROVE  \E m \in T : \A k \in T : m <= k
<1>. DEFINE R == OpToRel(<, Nat)
<1>1. ASSUME NEW x \in Nat, NEW y \in Nat PROVE <<x, y>> \in R <=> x < y
  BY DEF OpToRel
<1>2. IsWellFoundedOn(R, Nat)
  BY NatLessThanWellFounded
<1>. HIDE DEF R
<1>3. PICK m \in T : \A k \in T : ~ (<<k, m>> \in R)
  BY <1>2, WFMin
<1>4. ASSUME NEW k \in T PROVE m <= k
  <2>1. k \in Nat /\ m \in Nat /\ <<k, m>> \notin R
    BY <1>3
  <2>2. ~ (k < m)
    BY <1>1, <2>1
  <2>3. QED
    BY <2>1, <2>2
<1>5. QED
  BY <1>4

\* a string is at least as long as what was passed without a NUL
LEMMA LengthAtLeast ==
  ASSUME NEW buf, Cap \in Nat, NEW z \in Index, buf[z] = Nul,
         NEW l \in Nat, \A i \in 0 .. l - 1 : buf[i] # Nul
  PROVE  Length(buf, Cap) \in Int /\ l <= Length(buf, Cap)
<1>. DEFINE T == {i \in Index : buf[i] = Nul}
<1>1. T \in SUBSET Nat /\ T # {}
  BY DEF Index
<1>2. PICK e \in T : \A k \in T : e <= k
  BY <1>1, LeastOf
<1>3. e \in Index /\ buf[e] = Nul /\ e \in 0 .. Cap
  BY DEF Index
<1>4. \A i \in 0 .. e - 1 : buf[i] # Nul
  BY <1>2, <1>3 DEF Index
<1>5. Length(buf, Cap) = e
  BY <1>3, <1>4, LengthIs
<1>6. ~ (e < l)
  BY <1>3
<1>7. QED
  BY <1>3, <1>5, <1>6

LEMMA DeclaredReturned ==
  ASSUME IInv, Done, NEW fn \in ScanFns, Looking(fn), NEW v, Return(v), v = Declared
  PROVE  RInv'
<1>1. pc = "look" /\ call.fn = fn /\ UNCHANGED <<call, mem, before>>
  BY DEF Looking
<1>2. pc' = "caller" /\ ret' = v /\ mem = before
  BY <1>1 DEF Return, Done, LookDone
<1>3. Declared' = Declared
  <2>1. Needle' = Needle /\ \A k : Src(k)' = Src(k)
    BY <1>1 DEF Needle, Src
  <2>2. Hits' = Hits
    BY <1>1, <2>1 DEF Hits
  <2>3. Differing' = Differing
    BY <1>1, <2>1 DEF Differing
  <2>4. Src(Min(Differing))' = Src(Min(Differing))
    BY <1>1, <2>3 DEF Src
  <2>5. QED
    BY <1>1, <2>2, <2>3, <2>4 DEF Declared
<1>4. mem' = before' /\ ret' = Declared'
  BY <1>1, <1>2, <1>3
<1>5. ScansAsDeclared'
  BY <1>4 DEF ScansAsDeclared
<1>6. call \in Call
  BY DEF IInv, TypeOK
<1>7. call' \notin Writes /\ call'.fn # "strtok_r"
  BY <1>1, <1>6, Kinds DEF ScanFns, Unsized, Counting
<1>8. CopiesAsDocumented' /\ TokensAreMaximal'
  BY <1>7 DEF CopiesAsDocumented, TokensAreMaximal
<1>9. QED
  BY <1>2, <1>5, <1>8, Resting DEF RInv, Results

LEMMA FurtherRound ==
  ASSUME pc = "look", NEW step, NEW count, NEW save, On(step, count, save), LookDone'
  PROVE  RInv'
<1>1. pc' = "look"
  BY DEF On
<1>2. Done'
  BY <1>1 DEF Done, CopyDone, RestDone, EndDone, AppendDone, SkipDone, ScanDone
<1>3. QED
  BY <1>1, <1>2, Running DEF RInv

\* what is known in front of a round
LEMMA BeforeRound ==
  ASSUME IInv, Done, NEW fn \in ScanFns, Looking(fn)
  PROVE  /\ TypeOK /\ pc = "look" /\ call \in Call /\ call.fn = fn
         /\ UNCHANGED <<call, mem, before>> /\ mem = before
         /\ Cap \in Nat \ {0} /\ Index = 0 .. Cap - 1
         /\ d \in -1 .. Cap /\ s \in Nat /\ n \in 0 .. Cap
         /\ fn \in Sized => call.size \in 0 .. Cap
         /\ "size" \in DOMAIN call <=> fn \in Sized
         /\ LookPos /\ LookDone
<1>1. /\ TypeOK /\ pc = "look" /\ call.fn = fn /\ UNCHANGED <<call, mem, last, before>>
      /\ d \in -1 .. Cap /\ s \in Nat /\ n \in 0 .. Cap /\ Cap \in Nat \ {0}
      /\ fn \in Sized => call.size \in 0 .. Cap
      /\ LookPos
  BY AtLook
<1>2. call \in Call /\ Index = 0 .. Cap - 1
  BY <1>1 DEF TypeOK, Index
<1>3. "size" \in DOMAIN call <=> fn \in Sized
  BY <1>1, <1>2, WhatCallsHave
<1>4. mem = before /\ LookDone
  BY <1>1 DEF Done, LookDone
<1>5. QED
  BY <1>1, <1>2, <1>3, <1>4

\* where the last byte is that a search may find
Limit == IF "size" \in DOMAIN call THEN call.size - 1 ELSE Length(before, Cap)

LEMMA FirstHit ==
  ASSUME Cap \in Nat, NEW x \in Index, before[x] = Needle, x <= Limit,
         \A i \in 0 .. x - 1 : before[i] # Needle
  PROVE  Hits # {} /\ Min(Hits) = x
<1>1. Hits \in SUBSET Int /\ x \in Hits
  BY DEF Hits, Limit, Index
<1>2. ASSUME NEW y \in Hits PROVE x <= y
  <2>1. y \in Index /\ before[y] = Needle
    BY DEF Hits
  <2>2. ~ (y \in 0 .. x - 1)
    BY <2>1
  <2>3. QED
    BY <2>1, <2>2 DEF Index
<1>3. QED
  BY <1>1, <1>2, MinIs

LEMMA LastHit ==
  ASSUME Cap \in Nat, NEW x \in Index, before[x] = Needle, x <= Limit,
         \A i \in Index : x < i /\ i <= Limit => before[i] # Needle
  PROVE  Hits # {} /\ Max(Hits) = x
<1>1. Hits \in SUBSET Int /\ x \in Hits
  BY DEF Hits, Limit, Index
<1>2. ASSUME NEW y \in Hits PROVE x >= y
  <2>1. y \in Index /\ before[y] = Needle /\ y <= Limit
    BY DEF Hits, Limit
  <2>2. ~ (x < y)
    BY <2>1
  <2>3. QED
    BY <2>1, <2>2 DEF Index
<1>3. QED
  BY <1>1, <1>2, MaxIs

LEMMA NoHit ==
  ASSUME \A i \in Index : i <= Limit => before[i] # Needle
  PROVE  Hits = {}
BY DEF Hits, Limit

\* one more byte passed
LEMMA OneMore ==
  ASSUME NEW k \in Int, NEW i \in 0 .. (k + 1) - 1
  PROVE  i = k \/ i \in 0 .. k - 1
OBVIOUS

LEMMA StrlenDone == IInv /\ Done /\ Strlen => RInv'
<1>. SUFFICES ASSUME IInv, Done, Strlen PROVE RInv'
  OBVIOUS
<1>1. /\ Looking("strlen") /\ "strlen" \in ScanFns /\ "strlen" \in Unsized
      /\ IF mem[d] # Nul THEN On(1, n, mark) ELSE Return(d)
  BY DEF Strlen, ScanFns, Unsized
<1>2. /\ pc = "look" /\ call.fn = "strlen" /\ UNCHANGED <<call, mem, before>> /\ mem = before
      /\ Cap \in Nat /\ Index = 0 .. Cap - 1 /\ LookDone
  BY <1>1, BeforeRound
<1>3. d \in Index /\ \A i \in 0 .. d - 1 : before[i] # Nul
  BY <1>1, <1>2, StringByte DEF LookDone, Stopping
<1>4. CASE mem[d] # Nul
  <2>1. On(1, n, mark) /\ d' = d + 1 /\ pc' = pc
    BY <1>1, <1>4 DEF On
  <2>2. \A i \in 0 .. (d + 1) - 1 : before[i] # Nul
    BY <1>2, <1>3, <1>4, OneMore
  <2>3. LookDone'
    BY <1>2, <2>1, <2>2 DEF LookDone, Stopping, Comparing
  <2>4. QED
    BY <1>2, <2>1, <2>3, FurtherRound
<1>5. CASE mem[d] = Nul
  <2>1. Length(before, Cap) = d
    BY <1>2, <1>3, <1>5, LengthIs
  <2>2. d = Declared
    BY <1>2, <2>1 DEF Declared
  <2>3. QED
    BY <1>1, <1>5, <2>2, DeclaredReturned
<1>6. QED
  BY <1>4, <1>5

LEMMA StrnlenDone == IInv /\ Done /\ Strnlen => RInv'
<1>. SUFFICES ASSUME IInv, Done, Strnlen PROVE RInv'
  OBVIOUS
<1>1. /\ Looking("strnlen") /\ "strnlen" \in ScanFns
      /\ IF d < call.size /\ mem[d] # Nul THEN On(1, n, mark) ELSE Return(d)
  BY DEF Strnlen, ScanFns
<1>2. /\ pc = "look" /\ call.fn = "strnlen" /\ UNCHANGED <<call, mem, before>> /\ mem = before
      /\ Cap \in Nat /\ Index = 0 .. Cap - 1 /\ LookDone /\ LookPos /\ d \in Int
      /\ call.size \in 0 .. Cap
  BY <1>1, BeforeRound DEF Sized
<1>3. d \in 0 .. call.size /\ \A i \in 0 .. d - 1 : before[i] # Nul
  BY <1>2 DEF LookDone, LookPos, Stopping
<1>4. CASE d < call.size /\ mem[d] # Nul
  <2>1. On(1, n, mark) /\ d' = d + 1 /\ pc' = pc
    BY <1>1, <1>4 DEF On
  <2>2. \A i \in 0 .. (d + 1) - 1 : before[i] # Nul
    BY <1>2, <1>3, <1>4, OneMore
  <2>3. LookDone'
    BY <1>2, <2>1, <2>2 DEF LookDone, Stopping, Comparing
  <2>4. QED
    BY <1>2, <2>1, <2>3, FurtherRound
<1>5. CASE ~ (d < call.size /\ mem[d] # Nul)
  <2>1. d = call.size \/ before[d] = Nul
    BY <1>2, <1>3, <1>5
  <2>2. call.size \in Nat
    BY <1>2
  <2>3. Length(before, call.size) = d
    BY <1>3, <2>1, <2>2, LengthIs
  <2>4. d = Declared
    BY <1>2, <2>3 DEF Declared
  <2>5. QED
    BY <1>1, <1>5, <2>4, DeclaredReturned
<1>6. QED
  BY <1>4, <1>5

LEMMA StrchrDone == IInv /\ Done /\ Strchr => RInv'
<1>. SUFFICES ASSUME IInv, Done, Strchr PROVE RInv'
  OBVIOUS
<1>1. /\ Looking("strchr") /\ "strchr" \in ScanFns /\ "strchr" \in Unsized
      /\ CASE mem[d] = Needle -> Return(d)
           [] mem[d] # Needle /\ mem[d] = Nul -> Return(NULL)
           [] OTHER -> On(1, n, mark)
  BY DEF Strchr, ScanFns, Unsized
<1>2. /\ TypeOK /\ pc = "look" /\ call.fn = "strchr" /\ UNCHANGED <<call, mem, before>>
      /\ mem = before /\ Cap \in Nat /\ Index = 0 .. Cap - 1 /\ LookDone /\ LookPos
      /\ "size" \notin DOMAIN call
  BY <1>1, BeforeRound DEF Sized
<1>3. /\ d \in Index /\ d \in Nat
      /\ \A i \in 0 .. d - 1 : before[i] # Nul
      /\ \A i \in 0 .. d - 1 : before[i] # Needle
  BY <1>1, <1>2, StringByte DEF LookDone, Stopping
<1>4. CASE mem[d] = Needle
  <2>1. PICK z \in Index : mem[z] = Nul
    BY <1>2 DEF LookPos, Unsized, NulFrom
  <2>2. d <= Limit
    BY <1>2, <1>3, <2>1, LengthAtLeast DEF Limit
  <2>3. Hits # {} /\ Min(Hits) = d
    BY <1>2, <1>3, <1>4, <2>2, FirstHit
  <2>4. d = Declared
    BY <1>2, <2>3 DEF Declared
  <2>5. QED
    BY <1>1, <1>4, <2>4, DeclaredReturned
<1>5. CASE mem[d] # Needle /\ mem[d] = Nul
  <2>1. Limit = d
    BY <1>2, <1>3, <1>5, LengthIs DEF Limit
  <2>2. ASSUME NEW i \in Index, i <= Limit PROVE before[i] # Needle
    <3>1. i = d \/ i \in 0 .. d - 1
      BY <1>2, <1>3, <2>1, <2>2
    <3>2. QED
      BY <1>2, <1>3, <1>5, <3>1
  <2>3. Hits = {}
    BY <2>2, NoHit
  <2>4. NULL = Declared
    BY <1>2, <2>3 DEF Declared
  <2>5. QED
    BY <1>1, <1>5, <2>4, DeclaredReturned
<1>6. CASE mem[d] # Needle /\ mem[d] # Nul
  <2>1. On(1, n, mark)
    BY <1>1, <1>6
  <2>2. d' = d + 1 /\ pc' = pc
    BY <2>1 DEF On
  <2>3. \A i \in 0 .. (d + 1) - 1 : before[i] # Nul /\ before[i] # Needle
    BY <1>2, <1>3, <1>6, OneMore
  <2>4. LookDone'
    BY <1>2, <2>2, <2>3 DEF LookDone, Stopping, Comparing, Needle
  <2>5. QED
    BY <1>2, <2>1, <2>4, FurtherRound
<1>7. QED
  BY <1>4, <1>5, <1>6

LEMMA StrrchrDone == IInv /\ Done /\ Strrchr => RInv'
<1>. SUFFICES ASSUME IInv, Done, Strrchr PROVE RInv'
  OBVIOUS
<1>. DEFINE save == IF mem[d] = Needle THEN d ELSE mark
<1>1. /\ Looking("strrchr") /\ "strrchr" \in ScanFns /\ "strrchr" \in Unsized
      /\ IF mem[d] = Nul THEN Return(save) ELSE On(1, n, save)
  BY DEF Strrchr, ScanFns, Unsized
<1>2. /\ TypeOK /\ pc = "look" /\ call.fn = "strrchr" /\ UNCHANGED <<call, mem, before>>
      /\ mem = before /\ Cap \in Nat /\ Index = 0 .. Cap - 1 /\ LookDone
      /\ "size" \notin DOMAIN call
  BY <1>1, BeforeRound DEF Sized
<1>3. /\ d \in Index /\ d \in Nat
      /\ \A i \in 0 .. d - 1 : before[i] # Nul
      /\ IF mark = NULL THEN \A i \in 0 .. d - 1 : before[i] # Needle
         ELSE /\ mark \in 0 .. d - 1 /\ before[mark] = Needle
              /\ \A i \in mark + 1 .. d - 1 : before[i] # Needle
  BY <1>1, <1>2, StringByte DEF LookDone, Stopping
\* save is right for the character at d as well
<1>4. IF save = NULL THEN \A i \in 0 .. (d + 1) - 1 : before[i] # Needle
      ELSE /\ save \in 0 .. (d + 1) - 1 /\ before[save] = Needle
           /\ \A i \in save + 1 .. (d + 1) - 1 : before[i] # Needle
  <2>1. CASE mem[d] = Needle
    <3>1. save = d /\ d # NULL
      BY <1>3, <2>1, BufferAssumption
    <3>2. d \in 0 .. (d + 1) - 1 /\ d + 1 .. (d + 1) - 1 = {}
      BY <1>3
    <3>3. QED
      BY <1>2, <2>1, <3>1, <3>2
  <2>2. CASE mem[d] # Needle /\ mark = NULL
    BY <1>2, <1>3, <2>2, OneMore
  <2>3. CASE mem[d] # Needle /\ mark # NULL
    <3>1. save = mark /\ mark \in 0 .. (d + 1) - 1 /\ before[mark] = Needle
      BY <1>3, <2>3
    <3>2. ASSUME NEW i \in mark + 1 .. (d + 1) - 1 PROVE before[i] # Needle
      <4>1. i = d \/ i \in mark + 1 .. d - 1
        BY <1>3, <2>3
      <4>2. QED
        BY <1>2, <1>3, <2>3, <4>1
    <3>3. QED
      BY <2>3, <3>1, <3>2
  <2>4. QED
    BY <2>1, <2>2, <2>3
<1>. HIDE DEF save
<1>5. CASE mem[d] = Nul
  <2>1. Limit = d
    BY <1>2, <1>3, <1>5, LengthIs DEF Limit
  <2>2. CASE save = NULL
    <3>1. \A i \in Index : i <= Limit => before[i] # Needle
      BY <1>2, <1>3, <1>4, <2>1, <2>2
    <3>2. Hits = {}
      BY <3>1, NoHit
    <3>3. save = Declared
      BY <1>2, <2>2, <3>2 DEF Declared
    <3>4. QED
      BY <1>1, <1>5, <3>3, DeclaredReturned
  <2>3. CASE save # NULL
    <3>1. /\ save \in Index /\ save <= Limit /\ before[save] = Needle
      BY <1>2, <1>3, <1>4, <2>1, <2>3
    <3>2. \A i \in Index : save < i /\ i <= Limit => before[i] # Needle
      BY <1>2, <1>3, <1>4, <2>1, <2>3
    <3>3. Hits # {} /\ Max(Hits) = save
      BY <1>2, <3>1, <3>2, LastHit
    <3>4. save = Declared
      BY <1>2, <3>3 DEF Declared
    <3>5. QED
      BY <1>1, <1>5, <3>4, DeclaredReturned
  <2>4. QED
    BY <2>2, <2>3
<1>6. CASE mem[d] # Nul
  <2>1. On(1, n, save)
    BY <1>1, <1>6
  <2>2. d' = d + 1 /\ pc' = pc /\ mark' = save
    BY <2>1 DEF On
  <2>3. \A i \in 0 .. (d + 1) - 1 : before[i] # Nul
    BY <1>2, <1>3, <1>6, OneMore
  <2>4. LookDone'
    BY <1>2, <1>4, <2>2, <2>3 DEF LookDone, Stopping, Comparing, Needle
  <2>5. QED
    BY <1>2, <2>1, <2>4, FurtherRound
<1>7. QED
  BY <1>5, <1>6

LEMMA MemchrDone == IInv /\ Done /\ Memchr => RInv'
<1>. SUFFICES ASSUME IInv, Done, Memchr PROVE RInv'
  OBVIOUS
<1>1. /\ Looking("memchr") /\ "memchr" \in ScanFns /\ "memchr" \in Counting
      /\ IF n = 0 THEN Return(NULL)
         ELSE IF mem[d] = Needle THEN Return(d) ELSE On(1, n - 1, mark)
  BY DEF Memchr, Search, ScanFns, Counting
<1>2. /\ pc = "look" /\ call.fn = "memchr" /\ UNCHANGED <<call, mem, before>>
      /\ mem = before /\ Cap \in Nat /\ Index = 0 .. Cap - 1 /\ LookDone /\ LookPos
      /\ d \in Int /\ n \in 0 .. Cap /\ call.size \in 0 .. Cap /\ "size" \in DOMAIN call
  BY <1>1, BeforeRound DEF Sized
<1>3. /\ d >= 0 /\ d + n = call.size /\ Limit = call.size - 1
      /\ \A i \in 0 .. d - 1 : before[i] # Needle
  BY <1>2 DEF LookDone, LookPos, Counting, Limit
<1>4. CASE n = 0
  <2>1. \A i \in Index : i <= Limit => before[i] # Needle
    BY <1>2, <1>3, <1>4
  <2>2. Hits = {}
    BY <2>1, NoHit
  <2>3. NULL = Declared
    BY <1>2, <2>2 DEF Declared
  <2>4. QED
    BY <1>1, <1>4, <2>3, DeclaredReturned
<1>5. CASE n # 0 /\ mem[d] = Needle
  <2>1. d \in Index /\ d <= Limit
    BY <1>2, <1>3, <1>5
  <2>2. Hits # {} /\ Min(Hits) = d
    BY <1>2, <1>3, <1>5, <2>1, FirstHit
  <2>3. d = Declared
    BY <1>2, <2>2 DEF Declared
  <2>4. QED
    BY <1>1, <1>5, <2>3, DeclaredReturned
<1>6. CASE n # 0 /\ mem[d] # Needle
  <2>1. On(1, n - 1, mark)
    BY <1>1, <1>6
  <2>2. d' = d + 1 /\ pc' = pc
    BY <2>1 DEF On
  <2>3. \A i \in 0 .. (d + 1) - 1 : before[i] # Needle
    BY <1>2, <1>3, <1>6, OneMore
  <2>4. LookDone'
    BY <1>2, <2>2, <2>3 DEF LookDone, Stopping, Comparing, Needle
  <2>5. QED
    BY <1>2, <2>1, <2>4, FurtherRound
<1>7. QED
  BY <1>4, <1>5, <1>6

LEMMA MemrchrDone == IInv /\ Done /\ Memrchr => RInv'
<1>. SUFFICES ASSUME IInv, Done, Memrchr PROVE RInv'
  OBVIOUS
<1>1. /\ Looking("memrchr") /\ "memrchr" \in ScanFns
      /\ IF n = 0 THEN Return(NULL)
         ELSE IF mem[d] = Needle THEN Return(d) ELSE On(-1, n - 1, mark)
  BY DEF Memrchr, Search, ScanFns
<1>2. /\ pc = "look" /\ call.fn = "memrchr" /\ UNCHANGED <<call, mem, before>>
      /\ mem = before /\ Cap \in Nat /\ Index = 0 .. Cap - 1 /\ LookDone /\ LookPos
      /\ d \in Int /\ n \in 0 .. Cap /\ call.size \in 0 .. Cap /\ "size" \in DOMAIN call
  BY <1>1, BeforeRound DEF Sized
<1>3. /\ d = n - 1 /\ n <= call.size /\ Limit = call.size - 1
      /\ \A i \in d + 1 .. call.size - 1 : before[i] # Needle
  BY <1>2 DEF LookDone, LookPos, Limit
<1>4. CASE n = 0
  <2>1. \A i \in Index : i <= Limit => before[i] # Needle
    BY <1>2, <1>3, <1>4
  <2>2. Hits = {}
    BY <2>1, NoHit
  <2>3. NULL = Declared
    BY <1>2, <2>2 DEF Declared
  <2>4. QED
    BY <1>1, <1>4, <2>3, DeclaredReturned
<1>5. CASE n # 0 /\ mem[d] = Needle
  <2>1. d \in Index /\ d <= Limit
    BY <1>2, <1>3, <1>5
  <2>2. \A i \in Index : d < i /\ i <= Limit => before[i] # Needle
    BY <1>2, <1>3
  <2>3. Hits # {} /\ Max(Hits) = d
    BY <1>2, <1>5, <2>1, <2>2, LastHit
  <2>4. d = Declared
    BY <1>2, <2>3 DEF Declared
  <2>5. QED
    BY <1>1, <1>5, <2>4, DeclaredReturned
<1>6. CASE n # 0 /\ mem[d] # Needle
  <2>1. On(-1, n - 1, mark)
    BY <1>1, <1>6
  <2>2. d' = d + -1 /\ pc' = pc
    BY <2>1 DEF On
  <2>3. ASSUME NEW i \in (d + -1) + 1 .. call.size - 1 PROVE before[i] # Needle
    <3>1. i = d \/ i \in d + 1 .. call.size - 1
      BY <1>2
    <3>2. QED
      BY <1>2, <1>3, <1>6, <3>1
  <2>4. LookDone'
    BY <1>2, <2>2, <2>3 DEF LookDone, Stopping, Comparing, Needle
  <2>5. QED
    BY <1>2, <2>1, <2>4, FurtherRound
<1>7. QED
  BY <1>4, <1>5, <1>6

\* what is known in front of a round of a comparison
LEMMA BeforeComparing ==
  ASSUME IInv, Done, NEW fn \in Comparing, Looking(fn)
  PROVE  /\ fn \in ScanFns /\ pc = "look" /\ call.fn = fn /\ UNCHANGED <<call, mem, before>>
         /\ mem = before /\ Cap \in Nat /\ Index = 0 .. Cap - 1 /\ d \in Nat /\ s = d
         /\ \A i \in 0 .. d - 1 : before[i] = Src(i)
         /\ fn \in Stopping => \A i \in 0 .. d - 1 : before[i] # Nul
         /\ "size" \in DOMAIN call <=> fn \in Counting
         /\ fn \in Counting => d + n = call.size /\ call.size \in 0 .. Cap /\ n \in Nat
<1>1. fn \in ScanFns /\ (fn \in Sized <=> fn \in Counting) /\ fn \in Unsized \cup Counting
  BY DEF Comparing, ScanFns, Sized, Unsized, Counting
<1>2. /\ pc = "look" /\ call.fn = fn /\ UNCHANGED <<call, mem, before>> /\ mem = before
      /\ Cap \in Nat /\ Index = 0 .. Cap - 1 /\ d \in -1 .. Cap /\ n \in 0 .. Cap
      /\ fn \in Sized => call.size \in 0 .. Cap
      /\ "size" \in DOMAIN call <=> fn \in Sized
      /\ LookPos /\ LookDone
  BY <1>1, BeforeRound
<1>3. d >= 0 /\ (fn \in Counting => d + n = call.size)
  BY <1>1, <1>2 DEF LookPos
<1>4. /\ s = d /\ \A i \in 0 .. d - 1 : before[i] = Src(i)
      /\ fn \in Stopping => \A i \in 0 .. d - 1 : before[i] # Nul
  BY <1>2 DEF LookDone
<1>5. QED
  BY <1>1, <1>2, <1>3, <1>4

LEMMA DifferHere ==
  ASSUME IInv, Done, NEW fn \in Comparing, Looking(fn), d \in Index, mem[d] # Src(s),
         fn \in Counting => n # 0, Return(mem[d] - Src(s))
  PROVE  RInv'
<1>1. /\ fn \in ScanFns /\ call.fn = fn
      /\ mem = before /\ Cap \in Nat /\ Index = 0 .. Cap - 1 /\ d \in Nat /\ s = d
      /\ \A i \in 0 .. d - 1 : before[i] = Src(i)
      /\ fn \in Stopping => \A i \in 0 .. d - 1 : before[i] # Nul
      /\ "size" \in DOMAIN call <=> fn \in Counting
      /\ fn \in Counting => d + n = call.size /\ call.size \in 0 .. Cap /\ n \in Nat
  BY BeforeComparing
<1>2. fn # "memcmp" => fn \in Stopping
  BY DEF Comparing, Stopping
<1>3. fn \in Counting => d < call.size
  BY <1>1
<1>4. Differing \in SUBSET Int /\ d \in Differing
  BY <1>1, <1>2, <1>3 DEF Differing
<1>5. ASSUME NEW y \in Differing PROVE d <= y
  <2>1. y \in Index /\ before[y] # Src(y)
    BY DEF Differing
  <2>2. ~ (y \in 0 .. d - 1)
    BY <1>1, <2>1
  <2>3. QED
    BY <1>1, <2>1, <2>2
<1>6. Min(Differing) = d /\ Differing # {}
  BY <1>4, <1>5, MinIs
<1>7. mem[d] - Src(s) = Declared
  BY <1>1, <1>6 DEF Declared, Comparing
<1>8. QED
  BY <1>1, <1>7, DeclaredReturned

LEMMA DifferNowhere ==
  ASSUME IInv, Done, NEW fn \in Comparing, Looking(fn), Return(0),
         \/ fn \in Counting /\ n = 0
         \/ fn \in Stopping /\ mem[d] = Src(s) /\ mem[d] = Nul
  PROVE  RInv'
<1>1. /\ fn \in ScanFns /\ call.fn = fn
      /\ mem = before /\ Cap \in Nat /\ Index = 0 .. Cap - 1 /\ d \in Nat /\ s = d
      /\ \A i \in 0 .. d - 1 : before[i] = Src(i)
      /\ "size" \in DOMAIN call <=> fn \in Counting
      /\ fn \in Counting => d + n = call.size /\ call.size \in 0 .. Cap /\ n \in Nat
  BY BeforeComparing
<1>2. ASSUME NEW i \in Differing PROVE FALSE
  <2>1. /\ i \in Index /\ before[i] # Src(i)
        /\ fn \in Counting => i < call.size
        /\ fn # "memcmp" => \A j \in 0 .. i - 1 : before[j] # Nul
    BY <1>1 DEF Differing
  <2>2. i \in Nat /\ i >= d
    BY <1>1, <2>1
  <2>3. CASE fn \in Counting /\ n = 0
    BY <1>1, <2>1, <2>2, <2>3
  <2>4. CASE fn \in Stopping /\ mem[d] = Src(s) /\ mem[d] = Nul
    <3>1. i # d /\ fn # "memcmp"
      BY <1>1, <2>1, <2>4 DEF Stopping
    <3>2. d \in 0 .. i - 1
      BY <1>1, <2>2, <3>1
    <3>3. QED
      BY <1>1, <2>1, <2>4, <3>1, <3>2
  <2>5. QED
    BY <2>3, <2>4
<1>3. Differing = {}
  BY <1>2
<1>4. 0 = Declared
  BY <1>1, <1>3 DEF Declared, Comparing
<1>5. QED
  BY <1>1, <1>4, DeclaredReturned

LEMMA SameHere ==
  ASSUME IInv, Done, NEW fn \in Comparing, Looking(fn), mem[d] = Src(s),
         fn \in Stopping => mem[d] # Nul, NEW count, On(1, count, mark)
  PROVE  RInv'
<1>1. /\ pc = "look" /\ call.fn = fn /\ UNCHANGED <<call, mem, before>>
      /\ mem = before /\ d \in Nat /\ s = d
      /\ \A i \in 0 .. d - 1 : before[i] = Src(i)
      /\ fn \in Stopping => \A i \in 0 .. d - 1 : before[i] # Nul
  BY BeforeComparing
<1>2. d' = d + 1 /\ s' = s + 1 /\ pc' = pc
  BY DEF On
<1>3. \A i \in 0 .. (d + 1) - 1 : before[i] = Src(i)
  BY <1>1, OneMore
<1>4. fn \in Stopping => \A i \in 0 .. (d + 1) - 1 : before[i] # Nul
  BY <1>1, OneMore
<1>5. \A i \in 0 .. (d + 1) - 1 : Src(i)' = Src(i)
  BY <1>1 DEF Src
<1>6. LookDone'
  BY <1>1, <1>2, <1>3, <1>4, <1>5 DEF LookDone, Comparing
<1>7. QED
  BY <1>1, <1>6, FurtherRound

LEMMA MemcmpDone == IInv /\ Done /\ Memcmp => RInv'
<1>. SUFFICES ASSUME IInv, Done, Memcmp PROVE RInv'
  OBVIOUS
<1>1. /\ Looking("memcmp") /\ "memcmp" \in Comparing /\ "memcmp" \in Counting
      /\ "memcmp" \notin Stopping
      /\ IF n = 0 THEN Return(0)
         ELSE IF mem[d] # Src(s) THEN Return(mem[d] - Src(s)) ELSE On(1, n - 1, mark)
  BY DEF Memcmp, Difference, Comparing, Counting, Stopping
<1>2. CASE n = 0
  BY <1>1, <1>2, DifferNowhere
<1>3. CASE n # 0 /\ mem[d] # Src(s)
  BY <1>1, <1>3, CountedByte, DifferHere
<1>4. CASE n # 0 /\ mem[d] = Src(s)
  BY <1>1, <1>4, SameHere
<1>5. QED
  BY <1>2, <1>3, <1>4

LEMMA StrcmpDone == IInv /\ Done /\ Strcmp => RInv'
<1>. SUFFICES ASSUME IInv, Done, Strcmp PROVE RInv'
  OBVIOUS
<1>1. /\ Looking("strcmp") /\ "strcmp" \in Comparing /\ "strcmp" \in Unsized
      /\ "strcmp" \notin Counting /\ "strcmp" \in Stopping
      /\ IF mem[d] # Src(s) THEN Return(mem[d] - Src(s))
         ELSE IF mem[d] = Nul THEN Return(0) ELSE On(1, n, mark)
  BY DEF Strcmp, Difference, Comparing, Unsized, Counting, Stopping
<1>2. CASE mem[d] # Src(s)
  BY <1>1, <1>2, StringByte, DifferHere
<1>3. CASE mem[d] = Src(s) /\ mem[d] = Nul
  BY <1>1, <1>3, DifferNowhere
<1>4. CASE mem[d] = Src(s) /\ mem[d] # Nul
  BY <1>1, <1>4, SameHere
<1>5. QED
  BY <1>2, <1>3, <1>4

LEMMA StrncmpDone == IInv /\ Done /\ Strncmp => RInv'
<1>. SUFFICES ASSUME IInv, Done, Strncmp PROVE RInv'
  OBVIOUS
<1>1. /\ Looking("strncmp") /\ "strncmp" \in Comparing /\ "strncmp" \in Counting
      /\ "strncmp" \in Stopping
      /\ IF n = 0 THEN Return(0)
         ELSE IF mem[d] # Src(s) THEN Return(mem[d] - Src(s))
         ELSE IF mem[d] = Nul THEN Return(0) ELSE On(1, n - 1, mark)
  BY DEF Strncmp, Difference, Comparing, Counting, Stopping
<1>2. CASE n = 0
  BY <1>1, <1>2, DifferNowhere
<1>3. CASE n # 0 /\ mem[d] # Src(s)
  BY <1>1, <1>3, CountedByte, DifferHere
<1>4. CASE n # 0 /\ mem[d] = Src(s) /\ mem[d] = Nul
  BY <1>1, <1>4, DifferNowhere
<1>5. CASE n # 0 /\ mem[d] = Src(s) /\ mem[d] # Nul
  BY <1>1, <1>5, SameHere
<1>6. QED
  BY <1>2, <1>3, <1>4, <1>5

-----------------------------------------------------------------------------
LEMMA StutterDone == RInv /\ UNCHANGED vars => RInv'
<1>. SUFFICES ASSUME RInv, UNCHANGED vars PROVE RInv'
  OBVIOUS
<1>1. UNCHANGED <<pc, call, d, s, n, mark, mem, last, ret, before>>
  BY DEF vars
<1>2. Done'
  BY <1>1 DEF RInv, Done, CopyDone, RestDone, EndDone, AppendDone, SkipDone, ScanDone,
              LookDone, Src, Needle
<1>3. CopiesAsDocumented' /\ TokensAreMaximal'
  BY <1>1 DEF RInv, Results, CopiesAsDocumented, TokensAreMaximal
<1>4. ScansAsDeclared'
  BY <1>1 DEF RInv, Results, ScansAsDeclared, Declared, Hits, Differing, Needle, Src
<1>5. QED
  BY <1>2, <1>3, <1>4 DEF RInv, Results

LEMMA StepDone == IInv /\ RInv /\ [Next]_vars => RInv'
<1>0. (RInv => Done) /\ (IInv => TypeOK /\ Cap \in Nat)
  BY BufferAssumption DEF RInv, IInv
<1>1. IInv /\ Calls => RInv'
  BY <1>0, CallWriteDone, CallCutDone, CallScanDone DEF Calls
<1>2. IInv /\ Done /\ Step => RInv'
  BY CopyByteDone, CopyFullDone, RestIsDone, FindEndDone, EndFoundDone, AppendIsDone,
     AppendEndDone, SkipIsDone, NoTokenDone, TokenStartDone, ScanOnDone, TokenEndDone DEF Step
<1>3. IInv /\ Done /\ Look => RInv'
  BY StrlenDone, StrnlenDone, StrchrDone, StrrchrDone, MemchrDone, MemrchrDone,
     MemcmpDone, StrcmpDone, StrncmpDone DEF Look
<1>4. QED
  BY <1>0, <1>1, <1>2, <1>3, StutterDone DEF Next

LEMMA ResultsInvariance == Spec => []RInv
BY InitDone, StepDone, Invariance, PTL DEF Spec

\* strlcpy and strlcat do what their comments say, in a buffer of any size and with any
\* strings.
THEOREM Copies == Spec => []CopiesAsDocumented
<1>1. RInv => CopiesAsDocumented
  BY DEF RInv, Results
<1>2. QED
  BY <1>1, ResultsInvariance, PTL

\* strtok_r cuts out the first longest piece without delimiters and saves where to go on.
THEOREM Tokens == Spec => []TokensAreMaximal
<1>1. RInv => TokensAreMaximal
  BY DEF RInv, Results
<1>2. QED
  BY <1>1, ResultsInvariance, PTL

\* The searches find the first or last place, the comparisons the first difference, and
\* none of them writes.
THEOREM ScansReturn == Spec => []ScansAsDeclared
<1>1. RInv => ScansAsDeclared
  BY DEF RInv, Results
<1>2. QED
  BY <1>1, ResultsInvariance, PTL
=============================================================================
