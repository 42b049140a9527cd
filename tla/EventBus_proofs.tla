--------------------------- MODULE EventBus_proofs ---------------------------
(* Theorems about EventBus, for any handlers and events, any number of them   *)
(* and any depth of nested calls.                                             *)
EXTENDS EventBus, SequenceTheorems, TLAPS

\* The borrow count is what keeps the list still, so it is part of the
\* invariant that keeps every iterator inside the list.
IInv == TypeOK /\ BorrowsAreFrames /\ IteratorsValid

\* leaving out the last element of a sequence
LEMMA FrontFacts ==
  ASSUME NEW S, NEW s \in Seq(S), s # << >>
  PROVE  /\ SubSeq(s, 1, Len(s) - 1) \in Seq(S)
         /\ Len(SubSeq(s, 1, Len(s) - 1)) = Len(s) - 1
         /\ \A i \in 1 .. Len(s) - 1 : SubSeq(s, 1, Len(s) - 1)[i] = s[i]
<1>1. Len(s) \in Nat \ {0} /\ \A i \in 1 .. Len(s) - 1 : s[i] \in S
  BY EmptySeq
<1>2. /\ SubSeq(s, 1, Len(s) - 1) \in Seq(S)
      /\ Len(SubSeq(s, 1, Len(s) - 1)) = IF 1 <= Len(s) - 1 THEN Len(s) - 1 - 1 + 1 ELSE 0
      /\ \A i \in 1 .. Len(s) - 1 - 1 + 1 : SubSeq(s, 1, Len(s) - 1)[i] = s[1 + i - 1]
  BY <1>1, SubSeqProperties
<1>3. ASSUME NEW i \in 1 .. Len(s) - 1
      PROVE  SubSeq(s, 1, Len(s) - 1)[i] = s[i]
  <2>1. i \in 1 .. Len(s) - 1 - 1 + 1 /\ 1 + i - 1 = i
    BY <1>1
  <2>. QED  BY <1>2, <2>1
<1>4. Len(SubSeq(s, 1, Len(s) - 1)) = Len(s) - 1
  <2>1. \A n \in Nat \ {0} : n - 1 = IF 1 <= n - 1 THEN n - 1 - 1 + 1 ELSE 0
    OBVIOUS
  <2>2. Len(s) \in Nat \ {0}
    BY <1>1
  <2>3. Len(SubSeq(s, 1, Len(s) - 1)) = IF 1 <= Len(s) - 1 THEN Len(s) - 1 - 1 + 1 ELSE 0
    BY <1>2
  <2>. QED  BY <2>1, <2>2, <2>3, Zenon
<1>. QED  BY <1>2, <1>3, <1>4

\* replacing the last element of a sequence
LEMMA LastReplaced ==
  ASSUME NEW S, NEW s \in Seq(S), s # << >>, NEW e \in S
  PROVE  /\ [s EXCEPT ![Len(s)] = e] \in Seq(S)
         /\ Len([s EXCEPT ![Len(s)] = e]) = Len(s)
         /\ \A i \in 1 .. Len(s) :
               [s EXCEPT ![Len(s)] = e][i] = IF i = Len(s) THEN e ELSE s[i]
  OBVIOUS

\* one field of a frame replaced
LEMMA SetAt ==
  ASSUME NEW E, NEW N, NEW B, NEW t \in [event : E, pos : N, at : B], NEW b \in B
  PROVE  [t EXCEPT !.at = b] = [event |-> t.event, pos |-> t.pos, at |-> b]
  OBVIOUS

(* Dropping one owed handler touches only the "left" field of the top       *)
(* obligation.                                                            *)
LEMMA SetLeft ==
  ASSUME NEW E, NEW L, NEW t \in [event : E, left : L], NEW l
  PROVE  [t EXCEPT !.left = l] = [event |-> t.event, left |-> l]
  OBVIOUS

\* the innermost dispatch
LEMMA TopIsFrame ==
  ASSUME TypeOK, frames # << >>
  PROVE  /\ Len(frames) \in Nat \ {0}
         /\ top \in Frame
         /\ top.event \in Events /\ top.pos \in Nat /\ top.at \in {"loop", "handler"}
         /\ top = [event |-> top.event, pos |-> top.pos, at |-> top.at]
<1>1. frames \in Seq(Frame) /\ Len(frames) \in Nat \ {0}
  BY EmptySeq DEF TypeOK
<1>2. top \in Frame
  BY <1>1 DEF top
<1>. QED  BY <1>1, <1>2 DEF Frame

(* A new EventBus (bus.rs 11-16) satisfies the inductive invariant.        *)
THEOREM InitIInv == Init => IInv
<1>. SUFFICES ASSUME Init
              PROVE  IInv
  OBVIOUS
<1>1. TypeOK
  <2>1. handlers \in Seq(Handlers) /\ frames \in Seq(Frame)
    BY EmptySeq DEF Init
  <2>2. nested \in 0 .. MaxNested /\ borrow \in Nat
    BY BoundsAssumption DEF Init
  <2>3. halted \in BOOLEAN
    BY DEF Init
  <2>. QED  BY <2>1, <2>2, <2>3 DEF TypeOK
<1>2. BorrowsAreFrames /\ IteratorsValid
  BY DEF Init, BorrowsAreFrames, IteratorsValid
<1>. QED  BY <1>1, <1>2 DEF IInv

(* Every call, return and panic of the bus keeps the inductive invariant:  *)
(* one step per action, the frames that did not move treated together.    *)
LEMMA StepIInv == IInv /\ [Next]_vars => IInv'
<1>. SUFFICES ASSUME IInv, [Next]_vars
              PROVE  IInv'
  OBVIOUS
<1>0. /\ handlers \in Seq(Handlers) /\ borrow \in Nat /\ frames \in Seq(Frame)
      /\ nested \in 0 .. MaxNested /\ halted \in BOOLEAN /\ MaxNested \in Nat
      /\ borrow = Len(frames)
      /\ \A i \in 1 .. Len(frames) : frames[i].pos <= Len(handlers)
  BY BoundsAssumption DEF IInv, TypeOK, BorrowsAreFrames, IteratorsValid
<1>1. ASSUME NEW h \in Handlers, Register(h)
      PROVE  IInv'
  <2>1. nested' \in 0 .. MaxNested
    BY <1>0, <1>1 DEF Register, CanCall, CountCall
  <2>2. CASE ListIsFree /\ ~ Panic
    <3>1. frames = << >> /\ frames' = << >> /\ borrow' = 0
      BY <1>0, <1>1, <2>2, EmptySeq DEF Register, ListIsFree
    <3>2. handlers' \in Seq(Handlers) /\ halted' \in BOOLEAN
      BY <1>0, <1>1, <2>2 DEF Register
    <3>. QED  BY <2>1, <3>1, <3>2 DEF IInv, TypeOK, BorrowsAreFrames, IteratorsValid
  <2>3. CASE Panic
    BY <1>0, <1>1, <2>1, <2>3
       DEF Register, Panic, IInv, TypeOK, BorrowsAreFrames, IteratorsValid
  <2>. QED  BY <1>1, <2>2, <2>3 DEF Register
<1>2. ASSUME NEW e \in Events, Dispatch(e)
      PROVE  IInv'
  <2>1. nested' \in 0 .. MaxNested
    BY <1>0, <1>2 DEF Dispatch, CanCall, CountCall
  <2>. DEFINE f == [event |-> e, pos |-> 0, at |-> "loop"]
  <2>2. f \in Frame /\ f.pos = 0
    BY DEF Frame
  <2>3. frames' = Append(frames, f) /\ borrow' = borrow + 1
        /\ UNCHANGED <<handlers, halted>>
    BY <1>2 DEF Dispatch
  <2>. HIDE DEF f
  <2>4. /\ frames' \in Seq(Frame) /\ Len(frames') = Len(frames) + 1
        /\ \A i \in 1 .. Len(frames') : frames'[i] = IF i = Len(frames) + 1 THEN f ELSE frames[i]
    BY <1>0, <2>2, <2>3
  <2>. QED  BY <1>0, <2>1, <2>2, <2>3, <2>4 DEF IInv, TypeOK, BorrowsAreFrames, IteratorsValid
<1>3. CASE CallHandler
  <2>1. CASE Accepts(handlers[top.pos + 1], top.event)
    <3>. DEFINE f == [event |-> top.event, pos |-> top.pos + 1, at |-> "handler"]
    <3>1. f \in Frame /\ f.pos <= Len(handlers)
      BY <1>0, <1>3, TopIsFrame DEF CallHandler, HasNext, Frame, IInv
    <3>2. frames' = [frames EXCEPT ![Len(frames)] = f] /\ frames # << >>
      BY <1>0, <1>3, <2>1, TopIsFrame DEF CallHandler, Advanced, top, IInv, Frame
    <3>3. UNCHANGED <<handlers, borrow, halted, nested>>
      BY <1>3, <2>1 DEF CallHandler
    <3>. HIDE DEF f
    <3>. QED  BY <1>0, <3>1, <3>2, <3>3, LastReplaced
              DEF IInv, TypeOK, BorrowsAreFrames, IteratorsValid
  <2>2. CASE ~ Accepts(handlers[top.pos + 1], top.event)
    BY <1>0, <1>3, <2>2 DEF CallHandler, Panic, IInv, TypeOK, BorrowsAreFrames, IteratorsValid
  <2>. QED  BY <2>1, <2>2
<1>4. CASE EndDispatch
  BY <1>0, <1>4, FrontFacts
     DEF EndDispatch, BorrowDropped, IInv, TypeOK, BorrowsAreFrames, IteratorsValid
<1>5. CASE Return
  <2>. DEFINE f == [event |-> top.event, pos |-> top.pos, at |-> "loop"]
  <2>1. f \in Frame /\ f.pos <= Len(handlers)
    BY <1>0, <1>5, TopIsFrame DEF Return, InHandler, Frame, IInv, top
  <2>2. frames' = [frames EXCEPT ![Len(frames)] = f] /\ frames # << >>
    <3>1. frames # << >> /\ frames' = [frames EXCEPT ![Len(frames)] = [top EXCEPT !.at = "loop"]]
      BY <1>5 DEF Return, InHandler, top
    <3>2. top \in Frame
      BY <3>1, TopIsFrame DEF IInv
    <3>3. [top EXCEPT !.at = "loop"] = f
      BY <3>2, SetAt DEF Frame
    <3>. QED  BY <3>1, <3>3
  <2>. HIDE DEF f
  <2>3. UNCHANGED <<handlers, borrow, nested, halted>>
    BY <1>5 DEF Return
  <2>. QED  BY <1>0, <2>1, <2>2, <2>3, LastReplaced
            DEF IInv, TypeOK, BorrowsAreFrames, IteratorsValid
<1>6. CASE Spin \/ UNCHANGED vars
  BY <1>0, <1>6 DEF Spin, vars, IInv, TypeOK, BorrowsAreFrames, IteratorsValid
<1>. QED  BY <1>1, <1>2, <1>3, <1>4, <1>5, <1>6 DEF Next, Bus

(* The inductive invariant holds in every reachable state of the bus.      *)
THEOREM Invariance == Spec => []IInv
BY InitIInv, StepIInv, PTL DEF Spec

\* The RefCell's count is the number of dispatch calls in progress.
THEOREM BorrowAccounting == Spec => []BorrowsAreFrames
<1>1. IInv => BorrowsAreFrames
  BY DEF IInv
<1>. QED  BY <1>1, Invariance, PTL

\* The handler list is never changed under an iterator.
THEOREM ListNeverMoves == Spec => ListStable
<1>1. ASSUME IInv, [Next]_vars, frames # << >>
      PROVE  handlers' = handlers
  <2>1. borrow # 0
    BY <1>1 DEF IInv, TypeOK, BorrowsAreFrames
  <2>. QED  BY <1>1, <2>1 DEF Next, Bus, Register, ListIsFree, Panic, Dispatch, CallHandler,
               Return, EndDispatch, Spin, vars
<1>2. IInv /\ [Next]_vars => [frames # << >> => handlers' = handlers]_vars
  BY <1>1
<1>. QED  BY <1>2, Invariance, PTL DEF Spec, ListStable

\* A step that panics leaves the bus in a state that shows the cause.
LEMMA StepPanics == IInv /\ PanicsAreExplained /\ [Next]_vars => PanicsAreExplained'
<1>. SUFFICES ASSUME IInv, PanicsAreExplained, [Next]_vars, halted'
              PROVE  PanicsAreExplained'
  BY DEF PanicsAreExplained
<1>1. CASE halted
  <2>1. UNCHANGED vars
    BY <1>1 DEF Next, Bus, Register, CanCall, Dispatch, CallHandler, Return, EndDispatch, Spin
  <2>. QED  BY <2>1 DEF vars, PanicsAreExplained, top, HasNext, InHandler, ListIsFree
<1>2. ASSUME ~ halted, NEW h \in Handlers, Register(h)
      PROVE  PanicsAreExplained'
  <2>1. Panic /\ CanCall /\ (frames = << >> \/ NestedRegister)
    BY <1>2 DEF Register, Panic
  <2>2. CASE ListIsFree
    <3>1. HeapMayFill
      BY <1>2, <2>2 DEF Register
    <3>2. frames = << >>
      BY <2>2, EmptySeq DEF ListIsFree, IInv, TypeOK, BorrowsAreFrames
    <3>. QED  BY <2>1, <2>2, <3>1, <3>2 DEF Panic, PanicsAreExplained, ListIsFree
  <2>3. CASE ~ ListIsFree
    <3>1. frames # << >>
      BY <2>3 DEF ListIsFree, IInv, BorrowsAreFrames
    <3>2. InHandler /\ NestedRegister
      BY <2>1, <3>1 DEF CanCall
    <3>. QED  BY <2>1, <3>2 DEF Panic, PanicsAreExplained, InHandler, top
  <2>. QED  BY <2>2, <2>3
<1>3. ASSUME ~ halted, CallHandler
      PROVE  PanicsAreExplained'
  <2>1. /\ frames # << >> /\ top.at = "loop" /\ HasNext
        /\ ~ Accepts(handlers[top.pos + 1], top.event) /\ Panic
    BY <1>3 DEF CallHandler, Panic
  <2>. QED  BY <2>1 DEF Panic, PanicsAreExplained, Accepts, top, HasNext
<1>4. CASE ~ halted /\ ~ CallHandler /\ ~ \E h \in Handlers : Register(h)
  BY <1>4 DEF Next, Bus, Dispatch, Return, EndDispatch, Spin, vars
<1>. QED  BY <1>1, <1>2, <1>3, <1>4

\* A panic has one of the causes named, in any program of any depth of nesting.
THEOREM PanicsHaveCauses == Spec => []PanicsAreExplained
<1>1. Init => PanicsAreExplained
  BY DEF Init, PanicsAreExplained
<1>. QED  BY <1>1, Invariance, StepPanics, PTL DEF Spec

\* The bus of a program in which every handler copes with every event, none registers
\* from inside handle and the list fits in the heap, as in features/example.rs,
\* never brings it to panic_handler.
THEOREM CarefulProgramsNeverPanic ==
  ASSUME ~ NestedRegister, ~ HeapMayFill, \A h \in Handlers, e \in Events : Accepts(h, e)
  PROVE  Spec => []~ halted
<1>1. IInv /\ PanicsAreExplained => ~ halted
  <2>. SUFFICES ASSUME IInv, PanicsAreExplained, halted
                PROVE  FALSE
    OBVIOUS
  <2>1. /\ frames # << >> /\ HasNext
        /\ ~ Accepts(handlers[top.pos + 1], top.event)
    BY DEF PanicsAreExplained, Accepts
  <2>2. top.event \in Events /\ top.pos \in Nat
    BY <2>1, TopIsFrame DEF IInv
  <2>3. handlers \in Seq(Handlers) /\ Len(handlers) \in Nat
    BY DEF IInv, TypeOK
  <2>4. top.pos + 1 \in 1 .. Len(handlers)
    BY <2>1, <2>2, <2>3 DEF HasNext
  <2>5. handlers[top.pos + 1] \in Handlers
    BY <2>3, <2>4
  <2>. QED  BY <2>1, <2>2, <2>5
<1>. QED  BY <1>1, Invariance, PanicsHaveCauses, PTL

-----------------------------------------------------------------------------
(* The refinement: every step of the bus is a step of SnapshotBus.         *)

Pending == [event : Events, left : Seq(Handlers)]

\* what the dispatch of frame f still owes to the handlers hs
OwedTo(f, hs) == [event |-> f.event, left |-> SubSeq(hs, f.pos + 1, Len(hs))]

\* the deliveries still owed, one entry per dispatch in progress
OwedPerFrame ==
  /\ owed \in Seq(Pending)
  /\ Len(owed) = Len(frames)
  /\ \A i \in 1 .. Len(frames) : owed[i] = OwedTo(frames[i], handlers)

(* What the invariant says of the obligations the refinement maps frames  *)
(* to: one per dispatch in progress, each a suffix of the handler list.    *)
LEMMA OwedFacts == IInv => OwedPerFrame
<1>. SUFFICES ASSUME IInv
              PROVE  OwedPerFrame
  OBVIOUS
<1>1. handlers \in Seq(Handlers) /\ Len(handlers) \in Nat
  BY LenProperties DEF IInv, TypeOK
<1>2. ASSUME NEW i \in 1 .. Len(frames)
      PROVE  OwedTo(frames[i], handlers) \in Pending
  <2>1. frames[i] \in Frame
    BY <1>2, ElementOfSeq DEF IInv, TypeOK
  <2>2. frames[i].event \in Events /\ frames[i].pos \in Nat
    BY <2>1 DEF Frame
  <2>3. \A j \in frames[i].pos + 1 .. Len(handlers) : handlers[j] \in Handlers
    BY <1>1, <2>2, ElementOfSeq
  <2>4. SubSeq(handlers, frames[i].pos + 1, Len(handlers)) \in Seq(Handlers)
    BY <1>1, <2>2, <2>3, SubSeqProperties
  <2>. QED  BY <2>2, <2>4 DEF Pending, OwedTo
<1>3. Len(frames) \in Nat
  BY LenProperties DEF IInv, TypeOK
<1>4. owed \in [1 .. Len(frames) -> Pending]
  BY <1>2 DEF owed, OwedTo
<1>. QED  BY <1>3, <1>4, SeqDef DEF owed, OwedPerFrame, OwedTo

(* The same facts in the next state, whose list may be a longer one.       *)
LEMMA OwedFactsNext == IInv' => OwedPerFrame'
BY OwedFacts, PTL

(* A new bus owes no handler anything: SnapshotBus starts there.           *)
THEOREM InitRefines == Init => Promise!Init
<1>. SUFFICES ASSUME Init
              PROVE  Promise!Init
  OBVIOUS
<1>1. owed = << >>
  BY DEF Init, owed
<1>. QED  BY <1>1 DEF Init, Promise!Init

\* a panic stops the bus and delivers nothing
LEMMA PanicRefines ==
  ASSUME Panic
  PROVE  Promise!Stop
  BY DEF Panic, Promise!Stop, owed

(* dispatch (bus.rs 22) takes its snapshot of the list: the promise is    *)
(* given for exactly the handlers registered at that moment.               *)
LEMMA DispatchRefines ==
  ASSUME IInv, IInv', NEW e \in Events, Dispatch(e)
  PROVE  Promise!Publish(e)
<1>. DEFINE p == [event |-> e, left |-> handlers]
<1>1. handlers \in Seq(Handlers) /\ frames \in Seq(Frame) /\ handlers' = handlers
  BY DEF Dispatch, IInv, TypeOK
<1>2. /\ frames' = Append(frames, [event |-> e, pos |-> 0, at |-> "loop"])
      /\ Len(frames') = Len(frames) + 1 /\ Len(frames) \in Nat
  BY <1>1 DEF Dispatch
<1>3. p \in Pending
  BY <1>1 DEF Pending
<1>4. Append(owed, p) \in Seq(Pending) /\ Len(Append(owed, p)) = Len(frames) + 1
  BY <1>3, OwedFacts DEF OwedPerFrame
<1>5. owed' \in Seq(Pending) /\ Len(owed') = Len(frames) + 1
  BY <1>2, OwedFactsNext DEF OwedPerFrame
<1>6. ASSUME NEW i \in 1 .. Len(frames) + 1
      PROVE  owed'[i] = Append(owed, p)[i]
  <2>1. CASE i = Len(frames) + 1
    <3>1. frames'[i] = [event |-> e, pos |-> 0, at |-> "loop"]
      BY <1>1, <1>2, <2>1
    <3>2. owed'[i] = OwedTo(frames'[i], handlers)
      BY <1>1, <1>2, OwedFactsNext DEF OwedPerFrame
    <3>3. frames'[i].event = e /\ frames'[i].pos + 1 = 1
      BY <3>1
    <3>4. owed'[i] = p
      BY <1>1, <3>2, <3>3, SubSeqFull DEF OwedTo
    <3>. QED  BY <2>1, <3>4, OwedFacts, <1>2, <1>3 DEF OwedPerFrame
  <2>2. CASE i \in 1 .. Len(frames)
    <3>1. frames'[i] = frames[i]
      BY <1>1, <1>2, <2>2
    <3>2. owed'[i] = owed[i]
      BY <1>1, <1>2, <2>2, <3>1, OwedFacts, OwedFactsNext DEF OwedPerFrame
    <3>3. owed \in Seq(Pending) /\ Len(owed) = Len(frames)
      BY OwedFacts DEF OwedPerFrame
    <3>4. Append(owed, p)[i] = owed[i]
      BY <1>3, <2>2, <3>3, AppendProperties
    <3>. QED  BY <3>2, <3>4
  <2>3. i = Len(frames) + 1 \/ i \in 1 .. Len(frames)
    BY <1>2
  <2>. QED  BY <2>1, <2>2, <2>3, Zenon
<1>7. owed' = Append(owed, p)
  BY <1>4, <1>5, <1>6, SeqEqual
<1>. QED  BY <1>7 DEF Dispatch, CanCall, Promise!Publish

\* an idle bus owes nothing; registering a handler changes no delivery
LEMMA RegisterRefines ==
  ASSUME IInv, IInv', NEW h \in Handlers, Register(h)
  PROVE  Promise!Subscribe(h) \/ Promise!Stop
<1>1. CASE ListIsFree /\ ~ Panic
  <2>1. borrow = Len(frames) /\ frames \in Seq(Frame) /\ borrow = 0
    BY <1>1 DEF IInv, TypeOK, BorrowsAreFrames, ListIsFree
  <2>2. frames = << >> /\ frames' = << >>
    BY <1>1, <2>1, EmptySeq DEF Register
  <2>3. owed = << >> /\ owed' = << >>
    BY <2>2 DEF owed
  <2>. QED  BY <1>1, <2>3 DEF Register, CanCall, Promise!Subscribe
<1>2. CASE Panic
  BY <1>2, PanicRefines
<1>. QED  BY <1>1, <1>2 DEF Register

\* taking the first of the handlers behind a position
LEMMA HeadTaken ==
  ASSUME NEW S, NEW s \in Seq(S), NEW k \in Nat, k < Len(s)
  PROVE  /\ SubSeq(s, k + 1, Len(s)) # << >>
         /\ Tail(SubSeq(s, k + 1, Len(s))) = SubSeq(s, k + 1 + 1, Len(s))
<1>1. k + 1 \in 1 .. Len(s) /\ Len(s) \in k + 1 .. Len(s) /\ Len(s) \in Nat
  BY LenProperties
<1>2. \A i \in k + 1 .. Len(s) : s[i] \in S
  BY <1>1, ElementOfSeq
<1>3. /\ SubSeq(s, k + 1, Len(s)) \in Seq(S)
      /\ Len(SubSeq(s, k + 1, Len(s))) = IF k + 1 <= Len(s) THEN Len(s) - (k + 1) + 1 ELSE 0
  BY <1>1, <1>2, SubSeqProperties
<1>4. Len(SubSeq(s, k + 1, Len(s))) # 0
  BY <1>1, <1>3
<1>5. SubSeq(s, k + 1, Len(s)) # << >>
  BY <1>3, <1>4, EmptySeq
<1>. QED  BY <1>1, <1>5, HeadTailOfSubSeq

(* A field of the obligation of a frame, read off the frame itself.        *)
LEMMA OwedToFields ==
  ASSUME NEW f, NEW hs
  PROVE  /\ OwedTo(f, hs).event = f.event
         /\ OwedTo(f, hs).left = SubSeq(hs, f.pos + 1, Len(hs))
BY DEF OwedTo

\* the handler called is the first of those the innermost event is owed to
LEMMA CallRefines ==
  ASSUME IInv, IInv', CallHandler
  PROVE  Promise!Deliver \/ Promise!Stop
<1>1. CASE ~ Accepts(handlers[top.pos + 1], top.event)
  BY <1>1, PanicRefines DEF CallHandler
<1>2. CASE Accepts(handlers[top.pos + 1], top.event)
  <2>. DEFINE n == Len(frames)
              f == [event |-> top.event, pos |-> top.pos + 1, at |-> "handler"]
  <2>1. /\ handlers \in Seq(Handlers) /\ frames \in Seq(Frame) /\ frames # << >>
        /\ n \in Nat \ {0} /\ top = frames[n]
        /\ top.event \in Events /\ top.pos \in Nat /\ top.pos < Len(handlers)
        /\ Len(handlers) \in Nat
    BY TopIsFrame, LenProperties DEF IInv, TypeOK, CallHandler, HasNext, top
  <2>2. frames' = [frames EXCEPT ![n] = f]
    BY <1>2, <2>1, TopIsFrame DEF CallHandler, Advanced, IInv, top
  <2>3. handlers' = handlers /\ ~ halted /\ halted' = halted
    BY <1>2 DEF CallHandler
  <2>4. f \in Frame /\ f.event = top.event /\ f.pos = top.pos + 1
    BY <2>1 DEF Frame
  <2>. HIDE DEF f
  <2>5. /\ Len(frames') = n
        /\ \A i \in 1 .. n : frames'[i] = IF i = n THEN f ELSE frames[i]
    BY <2>1, <2>2, <2>4, LastReplaced
  <2>6. /\ owed \in Seq(Pending) /\ Len(owed) = n
        /\ owed' \in Seq(Pending) /\ Len(owed') = n
    BY <2>5, OwedFacts, OwedFactsNext DEF OwedPerFrame
  <2>. HIDE DEF n
  <2>7. n \in 1 .. n /\ owed # << >>
    BY <2>1, <2>6, EmptySeq
  <2>8. /\ \A i \in 1 .. n : owed[i] = OwedTo(frames[i], handlers)
        /\ \A i \in 1 .. n : owed'[i] = OwedTo(frames'[i], handlers)
    BY <2>3, <2>5, OwedFacts, OwedFactsNext DEF OwedPerFrame, n
  <2>9. owed[n] = OwedTo(top, handlers) /\ owed'[n] = OwedTo(f, handlers)
    <3>1. frames'[n] = f
      BY <2>5, <2>7
    <3>. QED  BY <2>1, <2>7, <2>8, <3>1
  <2>10. owed[n].left # << >> /\ owed'[n] = [owed[n] EXCEPT !.left = Tail(owed[n].left)]
    <3>1. SubSeq(handlers, top.pos + 1, Len(handlers)) # << >>
          /\ Tail(SubSeq(handlers, top.pos + 1, Len(handlers)))
               = SubSeq(handlers, top.pos + 1 + 1, Len(handlers))
      BY <2>1, HeadTaken
    <3>2. owed[n].left = SubSeq(handlers, top.pos + 1, Len(handlers))
          /\ owed[n].event = top.event
      BY <2>9, OwedToFields
    <3>3. OwedTo(f, handlers) = [event |-> top.event,
                                 left |-> SubSeq(handlers, top.pos + 1 + 1, Len(handlers))]
      BY <2>4, Zenon DEF OwedTo
    <3>4. owed'[n] = [event |-> owed[n].event, left |-> Tail(owed[n].left)]
      BY <2>9, <3>1, <3>2, <3>3
    <3>5. owed[n] \in [event : Events, left : Seq(Handlers)]
      BY <2>6, <2>7, ElementOfSeq DEF Pending
    <3>6. [owed[n] EXCEPT !.left = Tail(owed[n].left)]
            = [event |-> owed[n].event, left |-> Tail(owed[n].left)]
      BY <3>5, SetLeft
    <3>. QED  BY <3>1, <3>2, <3>4, <3>6, Zenon
  <2>11. owed' = [owed EXCEPT ![n].left = Tail(@)]
    <3>. DEFINE g == [owed EXCEPT ![n] = owed'[n]]
    <3>1. owed'[n] \in Pending
      BY <2>6, <2>7, ElementOfSeq
    <3>2. g \in Seq(Pending) /\ Len(g) = n
          /\ \A i \in 1 .. n : g[i] = IF i = n THEN owed'[n] ELSE owed[i]
      BY <2>6, <2>7, <3>1, LastReplaced
    <3>3. \A i \in 1 .. n : i # n => frames'[i] = frames[i]
      BY <2>5
    <3>4. \A i \in 1 .. n : i # n => owed'[i] = owed[i]
      BY <2>8, <3>3
    <3>5. \A i \in 1 .. n : owed'[i] = g[i]
      BY <3>2, <3>4
    <3>6. owed' = g
      BY <2>6, <3>2, <3>5, SeqEqual
    <3>. QED  BY <2>10, <3>6, Zenon
  <2>. QED  BY <2>3, <2>6, <2>7, <2>10, <2>11 DEF Promise!Deliver
<1>. QED  BY <1>1, <1>2

\* a handler that returns changes no delivery
LEMMA ReturnRefines ==
  ASSUME IInv, IInv', Return
  PROVE  UNCHANGED <<handlers, owed, halted>>
<1>. DEFINE n == Len(frames)
            f == [event |-> top.event, pos |-> top.pos, at |-> "loop"]
<1>1. /\ frames \in Seq(Frame) /\ frames # << >> /\ n \in Nat \ {0}
      /\ top = frames[n] /\ top \in Frame /\ handlers' = handlers /\ halted' = halted
  BY TopIsFrame DEF IInv, TypeOK, Return, InHandler, top
<1>2. frames' = [frames EXCEPT ![n] = [top EXCEPT !.at = "loop"]]
  BY <1>1 DEF Return
<1>3. [top EXCEPT !.at = "loop"] = f /\ f \in Frame
  BY <1>1, SetAt DEF Frame
<1>4. f.event = frames[n].event /\ f.pos = frames[n].pos
  BY <1>1
<1>. HIDE DEF f
<1>5. /\ Len(frames') = n
      /\ \A i \in 1 .. n : frames'[i] = IF i = n THEN f ELSE frames[i]
  BY <1>1, <1>2, <1>3, LastReplaced
<1>6. \A i \in 1 .. n : frames'[i].event = frames[i].event /\ frames'[i].pos = frames[i].pos
  BY <1>4, <1>5
<1>7. /\ owed \in Seq(Pending) /\ Len(owed) = n
      /\ owed' \in Seq(Pending) /\ Len(owed') = n
  BY <1>5, OwedFacts, OwedFactsNext DEF OwedPerFrame
<1>8. ASSUME NEW i \in 1 .. n
      PROVE  owed'[i] = owed[i]
  <2>1. owed[i] = OwedTo(frames[i], handlers) /\ owed'[i] = OwedTo(frames'[i], handlers)
    BY <1>1, <1>5, OwedFacts, OwedFactsNext DEF OwedPerFrame
  <2>. QED  BY <1>6, <2>1 DEF OwedTo
<1>9. owed' = owed
  BY <1>7, <1>8, SeqEqual
<1>. QED  BY <1>1, <1>9

\* the loop of dispatch ends when its event is owed to nobody
LEMMA EndRefines ==
  ASSUME IInv, IInv', EndDispatch
  PROVE  Promise!Finish
<1>. DEFINE n == Len(frames)
            g == SubSeq(owed, 1, n - 1)
<1>1. /\ handlers \in Seq(Handlers) /\ frames \in Seq(Frame) /\ frames # << >>
      /\ n \in Nat \ {0} /\ top = frames[n] /\ Len(handlers) \in Nat
      /\ top.pos \in Nat /\ ~ (top.pos < Len(handlers))
      /\ handlers' = handlers /\ ~ halted /\ halted' = halted
      /\ frames' = SubSeq(frames, 1, n - 1)
  BY TopIsFrame, LenProperties DEF IInv, TypeOK, EndDispatch, HasNext, top
<1>2. /\ owed \in Seq(Pending) /\ Len(owed) = n /\ owed # << >>
      /\ owed[n] = OwedTo(top, handlers)
  BY <1>1, OwedFacts, EmptySeq DEF OwedPerFrame
<1>3. owed[n].left = << >>
  BY <1>1, <1>2, SubSeqEmpty DEF OwedTo
<1>4. /\ Len(frames') = n - 1
      /\ \A i \in 1 .. n - 1 : frames'[i] = frames[i]
  BY <1>1, FrontFacts
<1>5. g \in Seq(Pending) /\ Len(g) = n - 1 /\ \A i \in 1 .. n - 1 : g[i] = owed[i]
  BY <1>2, FrontFacts
<1>6. owed' \in Seq(Pending) /\ Len(owed') = n - 1
  BY <1>4, OwedFactsNext DEF OwedPerFrame
<1>7. ASSUME NEW i \in 1 .. n - 1
      PROVE  owed'[i] = owed[i]
  <2>1. i \in 1 .. n /\ i \in 1 .. Len(frames') /\ frames'[i] = frames[i]
    BY <1>1, <1>4
  <2>2. owed[i] = OwedTo(frames[i], handlers) /\ owed'[i] = OwedTo(frames'[i], handlers)
    BY <1>1, <2>1, OwedFacts, OwedFactsNext DEF OwedPerFrame
  <2>. QED  BY <2>1, <2>2
<1>8. owed' = g
  BY <1>5, <1>6, <1>7, SeqEqual
<1>. QED  BY <1>1, <1>2, <1>3, <1>8 DEF Promise!Finish

\* every step of the bus is a step of SnapshotBus or changes nothing it sees
LEMMA StepRefines ==
  ASSUME IInv, IInv', [Next]_vars
  PROVE  [Promise!Next]_(Promise!vars)
<1>1. ASSUME NEW h \in Handlers, Register(h)
      PROVE  Promise!Next
  BY <1>1, RegisterRefines DEF Promise!Next
<1>2. ASSUME NEW e \in Events, Dispatch(e)
      PROVE  Promise!Next
  BY <1>2, DispatchRefines DEF Promise!Next
<1>3. CASE CallHandler
  BY <1>3, CallRefines DEF Promise!Next
<1>4. CASE EndDispatch
  BY <1>4, EndRefines DEF Promise!Next
<1>5. CASE Return
  BY <1>5, ReturnRefines DEF Promise!vars
<1>6. CASE Spin \/ UNCHANGED vars
  BY <1>6 DEF Spin, vars, Promise!vars, owed
<1>. QED  BY <1>1, <1>2, <1>3, <1>4, <1>5, <1>6 DEF Next, Bus

\* The bus keeps the promise of SnapshotBus: an event reaches the handlers that
\* were registered when it was dispatched, each once and in order.
THEOREM Refines == Spec => KeepsPromise
<1>1. IInv /\ IInv' /\ [Next]_vars => [Promise!Next]_(Promise!vars)
  BY StepRefines
<1>. QED  BY <1>1, InitRefines, Invariance, PTL DEF Spec, KeepsPromise, Promise!Spec
=============================================================================
