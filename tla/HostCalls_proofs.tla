-------------------------- MODULE HostCalls_proofs --------------------------
(***************************************************************************)
(* What the call tree promises for every event stream, whatever its        *)
(* length and whatever contracts and errors it names, and then what it     *)
(* owes the host it reads.                                                 *)
(*                                                                         *)
(* Every step of the host is a step of the call tree or leaves it alone,   *)
(* so that what is proved of any stream holds of this one.  The frames     *)
(* mirror the calls because the running calls are the outermost open       *)
(* frames and no contract has two: unwind_to then stops where the host is. *)
(***************************************************************************)
EXTENDS HostCalls, NatLemmas, SequenceTheorems

-----------------------------------------------------------------------------
(***************************************************************************)
(* The helpers: what an outcome is, where unwind_to stops, what ending     *)
(* frames leaves alone.                                                    *)
(***************************************************************************)

\* Facts of the types: NoRaise and Unknown are no member of the other half.
LEMMA OutcomeTypes ==
    ASSUME NEW last \in Raise
    PROVE  /\ EndOutcome(last) \in CallOutcome
           /\ EndOutcome(last).tag = "Failed" =>
                /\ last # NoRaise
                /\ EndOutcome(last).error = last.error
                /\ EndOutcome(last).event = last.event
BY DEF Raise, NoRaise, EndOutcome, CallOutcome, Failed, Unknown

\* unwind_to stops at a frame of the emitter, or pops nothing.
LEMMA KeptByFacts ==
    ASSUME TypeOK, NEW c
    PROVE  /\ KeptBy(c) \in 0 .. Len(stack)
           /\ OnStack(c) => /\ KeptBy(c) \in 1 .. Len(stack)
                            /\ OpenContract(KeptBy(c)) = c
<1>1. stack \in Seq(Open) /\ Len(stack) \in Nat /\ DOMAIN stack = 1 .. Len(stack)
  BY DEF TypeOK
<1>2. CASE ~OnStack(c)
  BY <1>1, <1>2 DEF KeptBy
<1>3. CASE OnStack(c)
  <2> DEFINE T == {i \in 1 .. Len(stack) : OpenContract(i) = c}
  <2>1. T # {}
    BY <1>1, <1>3 DEF OnStack
  <2>2. PICK x \in T : \A y \in T : y <= x
    BY <1>1, <2>1, GreatestElement
  <2>3. /\ x \in DOMAIN stack
        /\ OpenContract(x) = c
        /\ \A j \in x + 1 .. Len(stack) : OpenContract(j) # c
    BY <1>1, <2>2
  <2> QED
    BY <1>1, <1>3, <2>3 DEF KeptBy
<1> QED
  BY <1>2, <1>3

\* Ending the frames above n decides outcomes and nothing else, and it does not
\* touch a frame that is not above n.
LEMMA EndAboveFacts ==
    ASSUME TypeOK, NEW n \in 0 .. Len(stack)
    PROVE  /\ EndAbove(n) \in Seq(CallFrame)
           /\ Len(EndAbove(n)) = Len(frames)
           /\ \A k \in 1 .. Len(frames) :
                /\ EndAbove(n)[k].event = frames[k].event
                /\ EndAbove(n)[k].depth = frames[k].depth
                /\ EndAbove(n)[k].contract = frames[k].contract
                /\ \/ EndAbove(n)[k] = frames[k]
                   \/ \E i \in n + 1 .. Len(stack) :
                        /\ stack[i].frame = k
                        /\ EndAbove(n)[k].outcome = EndOutcome(stack[i].last)
                /\ (\A i \in n + 1 .. Len(stack) : stack[i].frame # k)
                        => EndAbove(n)[k] = frames[k]
<1>1. /\ frames \in Seq(CallFrame) /\ stack \in Seq(Open)
      /\ Len(frames) \in Nat /\ Len(stack) \in Nat
      /\ DOMAIN frames = 1 .. Len(frames) /\ DOMAIN stack = 1 .. Len(stack)
  BY DEF TypeOK
<1>2. ASSUME NEW k \in 1 .. Len(frames)
      PROVE  /\ EndAbove(n)[k] \in CallFrame
             /\ EndAbove(n)[k].event = frames[k].event
             /\ EndAbove(n)[k].depth = frames[k].depth
             /\ EndAbove(n)[k].contract = frames[k].contract
             /\ \/ EndAbove(n)[k] = frames[k]
                \/ \E i \in n + 1 .. Len(stack) :
                     /\ stack[i].frame = k
                     /\ EndAbove(n)[k].outcome = EndOutcome(stack[i].last)
             /\ (\A i \in n + 1 .. Len(stack) : stack[i].frame # k)
                     => EndAbove(n)[k] = frames[k]
  <2>1. frames[k] \in CallFrame
    BY <1>1
  <2>2. CASE \A i \in n + 1 .. Len(stack) : stack[i].frame # k
    BY <1>1, <2>1, <2>2 DEF EndAbove
  <2>3. CASE \E i \in n + 1 .. Len(stack) : stack[i].frame = k
    <3> DEFINE j == CHOOSE i \in n + 1 .. Len(stack) : stack[i].frame = k
    <3>1. j \in n + 1 .. Len(stack) /\ stack[j].frame = k
      BY <2>3
    <3>2. stack[j] \in Open
      BY <1>1, <3>1
    <3>3. EndOutcome(stack[j].last) \in CallOutcome
      BY <3>2, OutcomeTypes DEF Open
    <3>4. EndAbove(n)[k] = [frames[k] EXCEPT !.outcome = EndOutcome(stack[j].last)]
      BY <1>1, <2>3 DEF EndAbove
    <3> HIDE DEF j
    <3> QED
      BY <2>1, <3>1, <3>3, <3>4 DEF CallFrame
  <2> QED
    BY <2>2, <2>3
<1>3. EndAbove(n) \in [1 .. Len(frames) -> CallFrame]
  BY <1>1, <1>2 DEF EndAbove
<1>4. EndAbove(n) \in Seq(CallFrame) /\ Len(EndAbove(n)) = Len(frames)
  BY <1>1, <1>3, SeqDef
<1> QED
  BY <1>2, <1>4

-----------------------------------------------------------------------------
(***************************************************************************)
(* What each arm does to the frames and the stack, index by index.         *)
(***************************************************************************)

\* frames' agrees with frames but for outcomes, and its frames are those of
\* EndAbove(n).
KeepsFrames(n) ==
    /\ Len(frames') >= Len(frames)
    /\ \A k \in 1 .. Len(frames) :
        /\ frames'[k].event = frames[k].event
        /\ frames'[k].depth = frames[k].depth
        /\ frames'[k].contract = frames[k].contract
        /\ \/ frames'[k] = frames[k]
           \/ \E i \in n + 1 .. Len(stack) :
                /\ stack[i].frame = k
                /\ frames'[k].outcome = EndOutcome(stack[i].last)
        /\ (\A i \in n + 1 .. Len(stack) : stack[i].frame # k)
                => frames'[k] = frames[k]

Typed == frames' \in Seq(CallFrame) /\ stack' \in Seq(Open)

LEMMA FnCallFacts ==
    ASSUME TypeOK, NEW e \in DiagEvent, WellFormed(e), ConsumeFnCall(e)
    PROVE  /\ Typed
           /\ \E kept \in 0 .. Len(stack) :
                /\ kept = IF e.contract = None THEN 0 ELSE KeptBy(e.contract)
                /\ KeepsFrames(kept)
                /\ Len(frames') = Len(frames) + 1
                /\ frames'[Len(frames) + 1] = NewFrame(e, kept)
                /\ Len(stack') = kept + 1
                /\ \A i \in 1 .. kept : stack'[i] = stack[i]
                /\ stack'[kept + 1] = [frame |-> Len(frames) + 1, last |-> NoRaise]
<1> DEFINE kept == IF e.contract = None THEN 0 ELSE KeptBy(e.contract)
           pushed == [frame |-> Len(frames) + 1, last |-> NoRaise]
<1>1. /\ stack \in Seq(Open) /\ Len(stack) \in Nat /\ DOMAIN stack = 1 .. Len(stack)
      /\ Len(frames) \in Nat /\ Len(events) \in Nat
  BY DEF TypeOK
<1>2. kept \in 0 .. Len(stack)
  BY <1>1, KeptByFacts
<1>3. /\ frames' = Append(EndAbove(kept), NewFrame(e, kept))
      /\ stack' = Append(SubSeq(stack, 1, kept), pushed)
  BY DEF ConsumeFnCall
<1>4. /\ NewFrame(e, kept) \in CallFrame
      /\ pushed \in Open
  <2>1. e.callee \in Contract
    BY NoneIsNothing DEF WellFormed, ConsumeFnCall, DiagEvent
  <2> QED
    BY <1>1, <1>2, <2>1 DEF NewFrame, CallFrame, CallOutcome, Open, Raise
<1> HIDE DEF kept
<1>5. /\ SubSeq(stack, 1, kept) \in Seq(Open)
      /\ Len(SubSeq(stack, 1, kept)) = kept
      /\ \A i \in 1 .. kept : SubSeq(stack, 1, kept)[i] = stack[i]
  BY <1>1, <1>2
<1>6. /\ stack' \in Seq(Open)
      /\ Len(stack') = kept + 1
      /\ \A i \in 1 .. kept : stack'[i] = stack[i]
      /\ stack'[kept + 1] = pushed
  BY <1>2, <1>3, <1>4, <1>5, AppendProperties
<1>7. /\ EndAbove(kept) \in Seq(CallFrame)
      /\ Len(EndAbove(kept)) = Len(frames)
  BY <1>2, EndAboveFacts
<1>8. /\ frames' \in Seq(CallFrame)
      /\ Len(frames') = Len(frames) + 1
      /\ \A k \in 1 .. Len(frames) : frames'[k] = EndAbove(kept)[k]
      /\ frames'[Len(frames) + 1] = NewFrame(e, kept)
  BY <1>1, <1>3, <1>4, <1>7, AppendProperties
<1>9. KeepsFrames(kept)
  <2>1. \A k \in 1 .. Len(frames) :
           /\ EndAbove(kept)[k].event = frames[k].event
           /\ EndAbove(kept)[k].depth = frames[k].depth
           /\ EndAbove(kept)[k].contract = frames[k].contract
           /\ \/ EndAbove(kept)[k] = frames[k]
              \/ \E i \in kept + 1 .. Len(stack) :
                   /\ stack[i].frame = k
                   /\ EndAbove(kept)[k].outcome = EndOutcome(stack[i].last)
           /\ (\A i \in kept + 1 .. Len(stack) : stack[i].frame # k)
                   => EndAbove(kept)[k] = frames[k]
    BY <1>2, EndAboveFacts
  <2>2. Len(frames') >= Len(frames)
    BY <1>1, <1>8
  <2> QED
    BY <1>8, <2>1, <2>2 DEF KeepsFrames
<1>10. Typed
  BY <1>6, <1>8 DEF Typed
<1>11. kept = IF e.contract = None THEN 0 ELSE KeptBy(e.contract)
  BY DEF kept
<1>12. stack'[kept + 1] = [frame |-> Len(frames) + 1, last |-> NoRaise]
  BY <1>6
<1> QED
  BY <1>2, <1>6, <1>8, <1>9, <1>10, <1>11, <1>12, Zenon

LEMMA FnReturnFacts ==
    ASSUME TypeOK, NEW e, ConsumeFnReturn(e), stack # << >>
    PROVE  /\ Typed
           /\ Len(stack) \in Nat \ {0}
           /\ Len(frames') = Len(frames)
           /\ \A k \in 1 .. Len(frames) :
                /\ frames'[k].event = frames[k].event
                /\ frames'[k].depth = frames[k].depth
                /\ frames'[k].contract = frames[k].contract
                /\ \/ frames'[k] = frames[k]
                   \/ k = stack[Len(stack)].frame /\ frames'[k].outcome = Returned
                /\ k # stack[Len(stack)].frame => frames'[k] = frames[k]
           /\ Len(stack') = Len(stack) - 1
           /\ \A i \in 1 .. Len(stack) - 1 : stack'[i] = stack[i]
<1>1. /\ stack \in Seq(Open) /\ Len(stack) \in Nat /\ DOMAIN stack = 1 .. Len(stack)
      /\ frames \in Seq(CallFrame) /\ Len(frames) \in Nat
      /\ DOMAIN frames = 1 .. Len(frames)
  BY DEF TypeOK
<1>2. Len(stack) \in Nat \ {0}
  BY <1>1, EmptySeq
<1> DEFINE top == stack[Len(stack)].frame
           ended == [frames[top] EXCEPT !.outcome = Returned]
<1>3. top \in 1 .. Len(frames)
  BY <1>1, <1>2 DEF TypeOK
<1>4. frames[top] \in CallFrame
  BY <1>1, <1>3
<1>5. /\ ended \in CallFrame
      /\ ended.event = frames[top].event
      /\ ended.depth = frames[top].depth
      /\ ended.contract = frames[top].contract
      /\ ended.outcome = Returned
  BY <1>4 DEF CallFrame, CallOutcome
<1>6. /\ frames' = [frames EXCEPT ![top] = ended]
      /\ stack' = SubSeq(stack, 1, Len(stack) - 1)
  BY DEF ConsumeFnReturn
<1> HIDE DEF top, ended
<1>7. /\ frames' \in Seq(CallFrame)
      /\ Len(frames') = Len(frames)
      /\ \A k \in 1 .. Len(frames) : frames'[k] = IF k = top THEN ended ELSE frames[k]
  BY <1>1, <1>3, <1>5, <1>6, ExceptSeq
<1>8. /\ stack' \in Seq(Open)
      /\ Len(stack') = Len(stack) - 1
      /\ \A i \in 1 .. Len(stack) - 1 : stack'[i] = stack[i]
  BY <1>1, <1>2, <1>6
<1> QED
  BY <1>2, <1>5, <1>7, <1>8 DEF Typed, top

\* The error of an emitter on the stack becomes its frame's last error; an
\* emitter that is not on the stack changes nothing.
LEMMA EmittedFacts ==
    ASSUME TypeOK, NEW e \in DiagEvent, WellFormed(e), ConsumeEmitted(e)
    PROVE  /\ Typed
           /\ Len(frames') = Len(frames)
           /\ \E kept \in 0 .. Len(stack) :
                /\ kept = KeptBy(e.contract)
                /\ KeepsFrames(kept)
                /\ Len(stack') = kept
                /\ \A i \in 1 .. kept :
                    /\ stack'[i].frame = stack[i].frame
                    /\ \/ stack'[i].last = stack[i].last
                       \/ /\ e.kind = "error"
                          /\ frames[stack[i].frame].contract = e.contract
                          /\ stack'[i].last = Raised(e.error, Len(events) + 1)
                /\ e.kind = "error" /\ OnStack(e.contract) =>
                        stack'[kept].last = Raised(e.error, Len(events) + 1)
                /\ \A i \in 1 .. kept :
                        i # kept \/ e.kind # "error" => stack'[i].last = stack[i].last
<1> DEFINE kept == KeptBy(e.contract)
           below == SubSeq(stack, 1, kept)
           raised == Raised(e.error, Len(events) + 1)
<1>1. /\ stack \in Seq(Open) /\ Len(stack) \in Nat /\ DOMAIN stack = 1 .. Len(stack)
      /\ Len(frames) \in Nat /\ Len(events) \in Nat
  BY DEF TypeOK
<1>2. /\ kept \in 0 .. Len(stack)
      /\ OnStack(e.contract) => kept \in 1 .. Len(stack) /\ OpenContract(kept) = e.contract
  BY KeptByFacts
<1>3. /\ frames' = EndAbove(kept)
      /\ stack' = IF e.kind = "error" /\ OnStack(e.contract)
                  THEN [below EXCEPT ![kept].last = raised] ELSE below
  BY DEF ConsumeEmitted
<1>4. e.kind = "error" => raised \in Raise
  BY <1>1, NoneIsNothing DEF WellFormed, DiagEvent, Raised, Raise
<1> HIDE DEF kept
<1>5. /\ below \in Seq(Open)
      /\ Len(below) = kept
      /\ \A i \in 1 .. kept : below[i] = stack[i] /\ below[i] \in Open
  BY <1>1, <1>2
<1> HIDE DEF below, raised
<1>6. /\ stack' \in Seq(Open)
      /\ Len(stack') = kept
      /\ \A i \in 1 .. kept :
            /\ stack'[i].frame = stack[i].frame
            /\ \/ stack'[i].last = stack[i].last
               \/ /\ e.kind = "error"
                  /\ frames[stack[i].frame].contract = e.contract
                  /\ stack'[i].last = raised
      /\ e.kind = "error" /\ OnStack(e.contract) => stack'[kept].last = raised
      /\ \A i \in 1 .. kept : i # kept \/ e.kind # "error" => stack'[i].last = stack[i].last
  <2>1. CASE ~(e.kind = "error" /\ OnStack(e.contract))
    BY <1>3, <1>5, <2>1
  <2>2. CASE e.kind = "error" /\ OnStack(e.contract)
    <3> DEFINE marked == [below[kept] EXCEPT !.last = raised]
    <3>1. kept \in 1 .. Len(below)
      BY <1>2, <1>5, <2>2
    <3>2. below[kept] \in Open
      BY <1>5, <3>1
    <3>3. marked \in Open /\ marked.frame = below[kept].frame /\ marked.last = raised
      BY <1>4, <2>2, <3>2 DEF Open
    <3>4. stack' = [below EXCEPT ![kept] = marked]
      BY <1>3, <2>2
    <3> HIDE DEF marked
    <3>5. /\ stack' \in Seq(Open)
          /\ Len(stack') = kept
          /\ \A i \in 1 .. kept : stack'[i] = IF i = kept THEN marked ELSE below[i]
      BY <1>5, <3>1, <3>3, <3>4, ExceptSeq
    <3> QED
      BY <1>2, <1>5, <2>2, <3>1, <3>3, <3>5 DEF OpenContract
  <2> QED
    BY <2>1, <2>2
<1>7. /\ frames' \in Seq(CallFrame)
      /\ Len(frames') = Len(frames)
  BY <1>2, <1>3, EndAboveFacts
<1>8. KeepsFrames(kept)
  BY <1>1, <1>2, <1>3, <1>7, EndAboveFacts DEF KeepsFrames
<1> QED
  BY <1>2, <1>6, <1>7, <1>8 DEF Typed, raised, kept

LEMMA FinishFacts ==
    ASSUME TypeOK, Finish
    PROVE  /\ Typed
           /\ Len(frames') = Len(frames)
           /\ stack' = << >>
           /\ \A k \in 1 .. Len(frames) :
                /\ frames'[k].event = frames[k].event
                /\ frames'[k].depth = frames[k].depth
                /\ frames'[k].contract = frames[k].contract
                /\ \/ frames'[k] = frames[k]
                   \/ \E i \in 1 .. Len(stack) :
                        /\ stack[i].frame = k
                        /\ \/ frames'[k].outcome = EndOutcome(stack[i].last)
                           \/ frames'[k].outcome = EndOutcome(terminal)
                /\ (\A i \in 1 .. Len(stack) : stack[i].frame # k)
                        => frames'[k] = frames[k]
<1>1. /\ frames \in Seq(CallFrame) /\ stack \in Seq(Open) /\ terminal \in Raise
      /\ Len(frames) \in Nat /\ Len(stack) \in Nat
      /\ DOMAIN frames = 1 .. Len(frames) /\ DOMAIN stack = 1 .. Len(stack)
  BY DEF TypeOK
<1>2. ASSUME NEW k \in 1 .. Len(frames)
      PROVE  /\ frames'[k] \in CallFrame
             /\ frames'[k].event = frames[k].event
             /\ frames'[k].depth = frames[k].depth
             /\ frames'[k].contract = frames[k].contract
             /\ \/ frames'[k] = frames[k]
                \/ \E i \in 1 .. Len(stack) :
                     /\ stack[i].frame = k
                     /\ \/ frames'[k].outcome = EndOutcome(stack[i].last)
                        \/ frames'[k].outcome = EndOutcome(terminal)
             /\ (\A i \in 1 .. Len(stack) : stack[i].frame # k)
                     => frames'[k] = frames[k]
  <2>1. frames[k] \in CallFrame
    BY <1>1
  <2>2. CASE \A i \in 1 .. Len(stack) : stack[i].frame # k
    BY <1>1, <2>1, <2>2 DEF Finish
  <2>3. CASE \E i \in 1 .. Len(stack) : stack[i].frame = k
    <3> DEFINE last == stack[CHOOSE i \in DOMAIN stack : stack[i].frame = k].last
               said == IF last = NoRaise THEN terminal ELSE last
    <3>1. PICK j \in 1 .. Len(stack) : stack[j].frame = k /\ last = stack[j].last
      BY <1>1, <2>3
    <3>2. stack[j] \in Open
      BY <1>1
    <3>3. said \in Raise
      BY <1>1, <3>1, <3>2 DEF Open
    <3>4. EndOutcome(said) \in CallOutcome
      BY <3>3, OutcomeTypes
    <3>5. frames'[k] = [frames[k] EXCEPT !.outcome = EndOutcome(said)]
      BY <1>1, <2>3 DEF Finish
    <3>6. said = terminal \/ said = stack[j].last
      BY <3>1
    <3> HIDE DEF said, last
    <3> QED
      BY <2>1, <3>1, <3>4, <3>5, <3>6 DEF CallFrame
  <2> QED
    BY <2>2, <2>3
<1>3. frames' \in [1 .. Len(frames) -> CallFrame]
  BY <1>1, <1>2 DEF Finish
<1>4. frames' \in Seq(CallFrame) /\ Len(frames') = Len(frames)
  BY <1>1, <1>3, SeqDef
<1>5. stack' = << >> /\ stack' \in Seq(Open)
  BY DEF Finish
<1> QED
  BY <1>2, <1>4, <1>5 DEF Typed

-----------------------------------------------------------------------------
(***************************************************************************)
(* Type correctness.                                                       *)
(***************************************************************************)

\* What every arm leaves to the rest of the iteration.
LEMMA ConsumeTypes ==
    ASSUME TypeOK, NEW e \in DiagEvent, WellFormed(e), Consume(e)
    PROVE  /\ events' \in Seq(DiagEvent)
           /\ Len(events') = Len(events) + 1
           /\ \A n \in 1 .. Len(events) : events'[n] = events[n]
           /\ events'[Len(events) + 1] = e
           /\ terminal' \in Raise
           /\ finished' \in BOOLEAN
<1>1. events \in Seq(DiagEvent) /\ Len(events) \in Nat
  BY DEF TypeOK
<1>2. events' = Append(events, e)
  BY DEF Consume
<1>3. terminal' \in Raise
  BY <1>1, NoneIsNothing DEF TypeOK, Consume, WellFormed, DiagEvent, Raise, Raised
<1> QED
  BY <1>1, <1>2, <1>3, AppendProperties DEF TypeOK, Consume

LEMMA InitTyped == Init => TypeOK
<1> SUFFICES ASSUME Init PROVE TypeOK
  OBVIOUS
<1>1. /\ events = << >> /\ frames = << >> /\ stack = << >>
      /\ terminal = NoRaise /\ finished = FALSE
  BY DEF Init
<1>2. terminal \in Raise
  BY <1>1 DEF Raise
<1>3. << >> \in Seq(DiagEvent) /\ << >> \in Seq(CallFrame) /\ << >> \in Seq(Open)
  BY EmptySeq
<1>4. \A i \in DOMAIN stack : FALSE
  BY <1>1
<1> QED
  BY <1>1, <1>2, <1>3, <1>4 DEF TypeOK

\* Every step keeps the types: in particular an open frame is always a frame.
LEMMA NextTyped ==
    ASSUME TypeOK, [Next]_treeVars
    PROVE  TypeOK'
<1> DEFINE Framed == \A i \in 1 .. Len(stack') : stack'[i].frame \in 1 .. Len(frames')
<1>0. /\ Len(frames) \in Nat /\ Len(stack) \in Nat
      /\ \A i \in 1 .. Len(stack) : stack[i].frame \in 1 .. Len(frames)
  BY DEF TypeOK
<1>1. ASSUME NEW e \in DiagEvent, WellFormed(e), Consume(e)
      PROVE  TypeOK'
  <2>1. Typed /\ Framed
    <3>1. CASE ConsumeFnCall(e)
      BY <1>0, <1>1, <3>1, FnCallFacts DEF KeepsFrames
    <3>2. CASE ConsumeFnReturn(e) /\ stack = << >>
      BY <1>0, <3>2 DEF ConsumeFnReturn, TypeOK, Typed
    <3>3. CASE ConsumeFnReturn(e) /\ stack # << >>
      BY <1>0, <3>3, FnReturnFacts
    <3>4. CASE ConsumeEmitted(e)
      BY <1>0, <1>1, <3>4, EmittedFacts
    <3>5. CASE ConsumeIgnored(e)
      BY <1>0, <3>5 DEF ConsumeIgnored, TypeOK, Typed
    <3> QED
      BY <1>1, <3>1, <3>2, <3>3, <3>4, <3>5 DEF Consume
  <2>2. DOMAIN stack' = 1 .. Len(stack') /\ DOMAIN frames' = 1 .. Len(frames')
    BY <2>1 DEF Typed
  <2> QED
    BY <1>1, <2>1, <2>2, ConsumeTypes DEF TypeOK, Typed
<1>2. CASE Finish
  <2>1. Typed /\ stack' = << >> /\ UNCHANGED <<events, terminal>> /\ finished' = TRUE
    BY <1>2, FinishFacts DEF Finish
  <2> QED
    BY <2>1 DEF TypeOK, Typed
<1>3. CASE UNCHANGED treeVars
  BY <1>3 DEF TypeOK, treeVars
<1> QED
  BY <1>1, <1>2, <1>3 DEF Next

\* TypeOK holds of every reachable state, for every set of contracts and errors.
THEOREM TypeCorrect == Spec => []TypeOK
<1>1. Init => TypeOK
  BY InitTyped
<1>2. TypeOK /\ [Next]_treeVars => TypeOK'
  BY NextTyped
<1> QED
  BY <1>1, <1>2, PTL DEF Spec

-----------------------------------------------------------------------------
(***************************************************************************)
(* The tree is a tree.                                                     *)
(***************************************************************************)

\* The stack is never deeper than the frame listed last allows: it grows only
\* when a frame is listed.  With it Preorder is inductive.
Ceiling == Len(stack) <= IF frames = << >> THEN 0 ELSE frames[Len(frames)].depth + 1

TreeInv == TypeOK /\ OpenChain /\ Preorder /\ Ceiling

\* The chain of open frames survives every step.
LEMMA NextChain ==
    ASSUME TypeOK, OpenChain, [Next]_treeVars
    PROVE  OpenChain'
<1>0. /\ Len(stack) \in Nat /\ Len(frames) \in Nat
      /\ \A i \in 1 .. Len(stack) : stack[i].frame \in 1 .. Len(frames)
      /\ \A i \in 1 .. Len(stack) : frames[stack[i].frame].depth = i - 1
      /\ \A i \in 1 .. Len(stack) : frames[stack[i].frame].outcome = Unknown
      /\ \A i, j \in 1 .. Len(stack) : i < j => stack[i].frame < stack[j].frame
  <2>1. /\ Len(stack) \in Nat /\ DOMAIN stack = 1 .. Len(stack)
        /\ Len(frames) \in Nat /\ DOMAIN frames = 1 .. Len(frames)
    BY DEF TypeOK
  <2>2. \A i \in DOMAIN stack : stack[i].frame \in DOMAIN frames
    BY DEF TypeOK
  <2> QED
    BY <2>1, <2>2 DEF OpenChain
<1> DEFINE Chain(n) ==
        /\ \A i \in 1 .. n : frames'[stack'[i].frame].depth = i - 1
        /\ \A i \in 1 .. n : frames'[stack'[i].frame].outcome = Unknown
        /\ \A i, j \in 1 .. n : i < j => stack'[i].frame < stack'[j].frame
\* The frames below a cut stay what they were, whatever ended above it.
<1>1. ASSUME NEW kept \in 0 .. Len(stack), KeepsFrames(kept),
             \A i \in 1 .. kept : stack'[i].frame = stack[i].frame
      PROVE  Chain(kept)
  <2>1. ASSUME NEW i \in 1 .. kept
        PROVE  /\ frames'[stack'[i].frame].depth = i - 1
               /\ frames'[stack'[i].frame].outcome = Unknown
    <3> DEFINE k == stack[i].frame
    <3>1. i \in 1 .. Len(stack) /\ k \in 1 .. Len(frames) /\ stack'[i].frame = k
      BY <1>0, <1>1
    <3>2. ASSUME NEW j \in kept + 1 .. Len(stack)
          PROVE  stack[j].frame # k
      <4>1. j \in 1 .. Len(stack) /\ i < j
        BY <1>0
      <4>2. k < stack[j].frame
        BY <1>0, <3>1, <4>1
      <4> QED
        BY <3>1, <4>2
    <3>3. frames[k].depth = i - 1 /\ frames[k].outcome = Unknown
      BY <1>0, <3>1
    <3> HIDE DEF k
    <3>4. frames'[k] = frames[k]
      BY <1>1, <3>1, <3>2 DEF KeepsFrames
    <3> QED
      BY <3>1, <3>3, <3>4
  <2>2. ASSUME NEW i \in 1 .. kept, NEW j \in 1 .. kept, i < j
        PROVE  stack'[i].frame < stack'[j].frame
    <3>1. i \in 1 .. Len(stack) /\ j \in 1 .. Len(stack)
      BY <1>0
    <3> QED
      BY <1>0, <1>1, <2>2, <3>1
  <2> QED
    BY <2>1, <2>2
<1>2. TypeOK'
  BY NextTyped
<1>3. ASSUME NEW e \in DiagEvent, WellFormed(e), Consume(e)
      PROVE  Chain(Len(stack'))
  <2>1. CASE ConsumeFnCall(e)
    <3>1. PICK kept \in 0 .. Len(stack) :
            /\ KeepsFrames(kept)
            /\ Len(frames') = Len(frames) + 1
            /\ frames'[Len(frames) + 1] = NewFrame(e, kept)
            /\ Len(stack') = kept + 1
            /\ \A i \in 1 .. kept : stack'[i] = stack[i]
            /\ stack'[kept + 1] = [frame |-> Len(frames) + 1, last |-> NoRaise]
      BY <1>3, <2>1, FnCallFacts
    <3>2. Chain(kept)
      BY <1>1, <3>1
    <3>3. /\ stack'[kept + 1].frame = Len(frames) + 1
          /\ frames'[Len(frames) + 1].depth = kept
          /\ frames'[Len(frames) + 1].outcome = Unknown
      BY <3>1 DEF NewFrame
    <3>4. \A i \in 1 .. kept : stack'[i].frame < Len(frames) + 1
      BY <1>0, <3>1
    <3>5. ASSUME NEW i \in 1 .. kept + 1
          PROVE  /\ frames'[stack'[i].frame].depth = i - 1
                 /\ frames'[stack'[i].frame].outcome = Unknown
      <4>1. CASE i \in 1 .. kept
        BY <3>2, <4>1
      <4>2. CASE i = kept + 1
        BY <3>3, <4>2
      <4> QED
        BY <4>1, <4>2
    <3>6. ASSUME NEW i \in 1 .. kept + 1, NEW j \in 1 .. kept + 1, i < j
          PROVE  stack'[i].frame < stack'[j].frame
      <4>1. i \in 1 .. kept
        BY <3>6
      <4>2. CASE j \in 1 .. kept
        BY <3>2, <3>6, <4>1, <4>2
      <4>3. CASE j = kept + 1
        BY <3>3, <3>4, <4>1, <4>3
      <4> QED
        BY <4>2, <4>3
    <3>7. Chain(kept + 1)
      BY <3>5, <3>6
    <3> QED
      BY <3>1, <3>7
  <2>2. CASE ConsumeFnReturn(e) /\ stack = << >>
    BY <1>0, <2>2 DEF ConsumeFnReturn
  <2>3. CASE ConsumeFnReturn(e) /\ stack # << >>
    <3> DEFINE n == Len(stack)
    <3>1. /\ n \in Nat \ {0}
          /\ Len(stack') = n - 1
          /\ \A i \in 1 .. n - 1 : stack'[i] = stack[i]
          /\ \A k \in 1 .. Len(frames) :
                k # stack[n].frame => frames'[k] = frames[k]
      BY <2>3, FnReturnFacts
    <3>2. ASSUME NEW i \in 1 .. n - 1
          PROVE  /\ frames'[stack'[i].frame].depth = i - 1
                 /\ frames'[stack'[i].frame].outcome = Unknown
      <4>1. i \in 1 .. n /\ n \in 1 .. n /\ i < n
        BY <3>1
      <4>2. stack[i].frame < stack[n].frame /\ stack[i].frame \in 1 .. Len(frames)
        BY <1>0, <4>1
      <4>3. frames'[stack[i].frame] = frames[stack[i].frame]
        BY <3>1, <4>2
      <4> QED
        BY <1>0, <3>1, <4>1, <4>3
    <3>3. ASSUME NEW i \in 1 .. n - 1, NEW j \in 1 .. n - 1, i < j
          PROVE  stack'[i].frame < stack'[j].frame
      <4>1. i \in 1 .. n /\ j \in 1 .. n
        BY <3>1
      <4> QED
        BY <1>0, <3>1, <3>3, <4>1
    <3> HIDE DEF n
    <3>4. Chain(n - 1)
      BY <3>2, <3>3
    <3> QED
      BY <3>1, <3>4
  <2>4. CASE ConsumeEmitted(e)
    BY <1>1, <1>3, <2>4, EmittedFacts
  <2>5. CASE ConsumeIgnored(e)
    BY <1>0, <2>5 DEF ConsumeIgnored
  <2> QED
    BY <1>3, <2>1, <2>2, <2>3, <2>4, <2>5 DEF Consume
<1>4. CASE Finish
  BY <1>4, FinishFacts DEF OpenChain
<1>5. CASE UNCHANGED treeVars
  BY <1>5 DEF OpenChain, treeVars
<1>6. CASE \E e \in DiagEvent : WellFormed(e) /\ Consume(e)
  <2>1. Chain(Len(stack'))
    BY <1>3, <1>6
  <2>2. DOMAIN stack' = 1 .. Len(stack')
    BY <1>2 DEF TypeOK
  <2> QED
    BY <2>1, <2>2 DEF OpenChain
<1> QED
  BY <1>4, <1>5, <1>6 DEF Next

\* A new frame is at most one level below the frame listed before it.
LEMMA NextPreorder ==
    ASSUME TreeInv, [Next]_treeVars
    PROVE  Preorder' /\ Ceiling'
<1>0. /\ stack \in Seq(Open) /\ Len(stack) \in Nat
      /\ frames \in Seq(CallFrame)
      /\ Len(frames) \in Nat /\ DOMAIN frames = 1 .. Len(frames)
      /\ frames = << >> <=> Len(frames) = 0
      /\ \A k \in 1 .. Len(frames) : frames[k].depth \in Nat
      /\ Preorder /\ Ceiling
  <2>1. stack \in Seq(Open) /\ frames \in Seq(CallFrame) /\ Preorder /\ Ceiling
    BY DEF TreeInv, TypeOK
  <2>2. /\ Len(stack) \in Nat
        /\ Len(frames) \in Nat /\ DOMAIN frames = 1 .. Len(frames)
        /\ frames = << >> <=> Len(frames) = 0
    BY <2>1, EmptySeq
  <2>3. \A k \in 1 .. Len(frames) : frames[k] \in CallFrame
    BY <2>1
  <2> QED
    BY <2>1, <2>2, <2>3 DEF CallFrame
<1>1. /\ frames' \in Seq(CallFrame)
      /\ Len(frames') \in Nat /\ DOMAIN frames' = 1 .. Len(frames')
      /\ frames' = << >> <=> Len(frames') = 0
      /\ Len(stack') \in Nat
  BY NextTyped, EmptySeq DEF TreeInv, TypeOK
<1>2. ASSUME Len(frames') = Len(frames), Len(stack') <= Len(stack),
             \A k \in 1 .. Len(frames) : frames'[k].depth = frames[k].depth
      PROVE  Preorder' /\ Ceiling'
  <2>1. Preorder'
    <3>1. DOMAIN frames' = DOMAIN frames
      BY <1>0, <1>1, <1>2
    <3> QED
      BY <1>0, <1>2, <3>1 DEF Preorder
  <2>2. CASE Len(frames) = 0
    BY <1>0, <1>1, <1>2, <2>1, <2>2 DEF Ceiling
  <2>3. CASE Len(frames) # 0
    <3>1. frames'[Len(frames)].depth = frames[Len(frames)].depth
      BY <1>0, <1>2, <2>3
    <3> QED
      BY <1>0, <1>1, <1>2, <2>1, <2>3, <3>1 DEF Ceiling
  <2> QED
    BY <2>1, <2>2, <2>3
<1>3. ASSUME NEW e \in DiagEvent, WellFormed(e), Consume(e)
      PROVE  Preorder' /\ Ceiling'
  <2>1. CASE ConsumeFnCall(e)
    <3>1. PICK kept \in 0 .. Len(stack) :
            /\ KeepsFrames(kept)
            /\ Len(frames') = Len(frames) + 1
            /\ frames'[Len(frames) + 1] = NewFrame(e, kept)
            /\ Len(stack') = kept + 1
      BY <1>3, <2>1, FnCallFacts DEF TreeInv
    <3>2. /\ \A k \in 1 .. Len(frames) : frames'[k].depth = frames[k].depth
          /\ frames'[Len(frames) + 1].depth = kept
      BY <3>1 DEF KeepsFrames, NewFrame
    <3>3. /\ Len(frames) = 0 => kept = 0
          /\ Len(frames) > 0 => kept <= frames[Len(frames)].depth + 1
      BY <1>0 DEF Ceiling
    <3>4. ASSUME NEW k \in 1 .. Len(frames')
          PROVE  /\ k = 1 => frames'[k].depth = 0
                 /\ k > 1 => frames'[k].depth <= frames'[k - 1].depth + 1
      <4>1. CASE k = Len(frames) + 1
        BY <1>0, <3>2, <3>3, <4>1
      <4>2. CASE k # Len(frames) + 1
        <5>1. k \in 1 .. Len(frames)
          BY <1>0, <3>1, <4>2
        <5>2. /\ k = 1 => frames[k].depth = 0
              /\ k > 1 => frames[k].depth <= frames[k - 1].depth + 1
          BY <1>0, <5>1 DEF Preorder
        <5>3. k > 1 => k - 1 \in 1 .. Len(frames)
          BY <1>0, <5>1
        <5> QED
          BY <3>2, <5>1, <5>2, <5>3
      <4> QED
        BY <4>1, <4>2
    <3>6. Preorder'
      BY <1>1, <3>4 DEF Preorder
    <3>5. Ceiling'
      BY <1>0, <1>1, <3>1, <3>2 DEF Ceiling
    <3> QED
      BY <3>5, <3>6
  <2>2. CASE ConsumeFnReturn(e) /\ stack = << >>
    BY <1>0, <1>2, <2>2 DEF ConsumeFnReturn
  <2>3. CASE ConsumeFnReturn(e) /\ stack # << >>
    <3>1. /\ Len(frames') = Len(frames) /\ Len(stack') = Len(stack) - 1
          /\ \A k \in 1 .. Len(frames) : frames'[k].depth = frames[k].depth
      BY <2>3, FnReturnFacts DEF TreeInv
    <3>2. Len(stack') <= Len(stack)
      BY <1>0, <3>1
    <3> QED
      BY <1>2, <3>1, <3>2
  <2>4. CASE ConsumeEmitted(e)
    BY <1>0, <1>2, <1>3, <2>4, EmittedFacts DEF TreeInv, KeepsFrames
  <2>5. CASE ConsumeIgnored(e)
    BY <1>0, <1>2, <2>5 DEF ConsumeIgnored
  <2> QED
    BY <1>3, <2>1, <2>2, <2>3, <2>4, <2>5 DEF Consume
<1>4. CASE Finish
  <2>1. stack' = << >> /\ Len(stack') = 0
    BY <1>4, EmptySeq DEF Finish
  <2> QED
    BY <1>0, <1>2, <1>4, <2>1, FinishFacts DEF TreeInv
<1>5. CASE UNCHANGED treeVars
  BY <1>0, <1>2, <1>5 DEF treeVars
<1> QED
  BY <1>3, <1>4, <1>5 DEF Next

\* The open frames are always one chain of undecided calls, each at its depth,
\* and the list of frames is always the preorder of a tree.
THEOREM TreeIsATree == Spec => [](OpenChain /\ Preorder)
<1>1. Init => TreeInv
  <2> SUFFICES ASSUME Init PROVE TreeInv
    OBVIOUS
  <2>1. frames = << >> /\ stack = << >> /\ Len(stack) = 0
    BY EmptySeq DEF Init
  <2>2. TypeOK
    BY InitTyped
  <2> QED
    BY <2>1, <2>2 DEF TreeInv, OpenChain, Preorder, Ceiling
<1>2. TreeInv /\ [Next]_treeVars => TreeInv'
  <2> SUFFICES ASSUME TreeInv, [Next]_treeVars PROVE TreeInv'
    OBVIOUS
  <2> QED
    BY NextTyped, NextChain, NextPreorder DEF TreeInv
<1>3. TreeInv => OpenChain /\ Preorder
  BY DEF TreeInv
<1> QED
  BY <1>1, <1>2, <1>3, PTL DEF Spec

-----------------------------------------------------------------------------
(***************************************************************************)
(* What has ended stays ended.                                             *)
(***************************************************************************)

\* No event and no end of the stream changes a frame that is not open.
THEOREM EndedIsFinal == Spec => EndedFramesAreFinal
<1> DEFINE Final == \A k \in DOMAIN frames : ~IsOpen(k) => frames'[k] = frames[k]
<1>1. TypeOK /\ [Next]_treeVars => [Final]_treeVars
  <2> SUFFICES ASSUME TypeOK, Next PROVE Final
    OBVIOUS
  <2>1. /\ DOMAIN stack = 1 .. Len(stack) /\ Len(stack) \in Nat
        /\ DOMAIN frames = 1 .. Len(frames)
    BY DEF TypeOK
  <2> SUFFICES ASSUME NEW k \in 1 .. Len(frames),
                      \A i \in 1 .. Len(stack) : stack[i].frame # k
               PROVE  frames'[k] = frames[k]
    BY <2>1 DEF IsOpen
  <2>2. ASSUME NEW kept \in 0 .. Len(stack), KeepsFrames(kept)
        PROVE  frames'[k] = frames[k]
    <3>1. \A i \in kept + 1 .. Len(stack) : stack[i].frame # k
      BY <2>1
    <3> QED
      BY <2>2, <3>1 DEF KeepsFrames
  <2>3. ASSUME NEW e \in DiagEvent, WellFormed(e), Consume(e)
        PROVE  frames'[k] = frames[k]
    <3>1. CASE ConsumeFnCall(e)
      BY <2>2, <2>3, <3>1, FnCallFacts
    <3>2. CASE ConsumeFnReturn(e) /\ stack = << >>
      BY <3>2 DEF ConsumeFnReturn
    <3>3. CASE ConsumeFnReturn(e) /\ stack # << >>
      <4>0. Len(stack) \in Nat \ {0}
        BY <3>3, FnReturnFacts
      <4>1. Len(stack) \in 1 .. Len(stack)
        BY <4>0
      <4>2. k # stack[Len(stack)].frame
        BY <4>1
      <4> QED
        BY <3>3, <4>2, FnReturnFacts
    <3>4. CASE ConsumeEmitted(e)
      BY <2>2, <2>3, <3>4, EmittedFacts
    <3>5. CASE ConsumeIgnored(e)
      BY <3>5 DEF ConsumeIgnored
    <3> QED
      BY <2>3, <3>1, <3>2, <3>3, <3>4, <3>5 DEF Consume
  <2>4. CASE Finish
    BY <2>4, FinishFacts
  <2> QED
    BY <2>3, <2>4 DEF Next
<1> QED
  BY <1>1, TypeCorrect, PTL DEF Spec, EndedFramesAreFinal

-----------------------------------------------------------------------------
(***************************************************************************)
(* Every fn_call has its frame.                                            *)
(***************************************************************************)

LEMMA NextFrames ==
    ASSUME TypeOK, FramesAreTheCalls, [Next]_treeVars
    PROVE  FramesAreTheCalls'
<1>0. /\ Len(events) \in Nat /\ Len(frames) \in Nat
      /\ DOMAIN events = 1 .. Len(events) /\ DOMAIN frames = 1 .. Len(frames)
      /\ DOMAIN events' = 1 .. Len(events') /\ DOMAIN frames' = 1 .. Len(frames')
  BY NextTyped DEF TypeOK
\* A step that lists no frame and reads no fn_call.
<1>1. ASSUME Len(frames') = Len(frames),
             \A k \in 1 .. Len(frames) : /\ frames'[k].event = frames[k].event
                                         /\ frames'[k].contract = frames[k].contract,
             Len(events') >= Len(events), Len(events') \in Nat,
             \A n \in 1 .. Len(events) : events'[n] = events[n],
             \A n \in 1 .. Len(events') :
                n > Len(events) => events'[n].kind # "fn_call"
      PROVE  FramesAreTheCalls'
  <2>1. ASSUME NEW k \in 1 .. Len(frames')
        PROVE  /\ frames'[k].event \in 1 .. Len(events')
               /\ events'[frames'[k].event].kind = "fn_call"
               /\ events'[frames'[k].event].callee = frames'[k].contract
               /\ \A j \in 1 .. Len(frames') : j < k => frames'[j].event < frames'[k].event
    <3>1. /\ frames[k].event \in 1 .. Len(events)
          /\ events[frames[k].event].kind = "fn_call"
          /\ events[frames[k].event].callee = frames[k].contract
          /\ \A j \in 1 .. Len(frames) : j < k => frames[j].event < frames[k].event
      BY <1>0, <1>1, <2>1 DEF FramesAreTheCalls
    <3> QED
      BY <1>0, <1>1, <3>1
  <2>2. ASSUME NEW n \in 1 .. Len(events'), events'[n].kind = "fn_call"
        PROVE  \E k \in 1 .. Len(frames') : frames'[k].event = n
    <3>1. n \in 1 .. Len(events) /\ events[n].kind = "fn_call"
      BY <1>0, <1>1, <2>2
    <3>2. PICK k \in 1 .. Len(frames) : frames[k].event = n
      BY <1>0, <3>1 DEF FramesAreTheCalls
    <3> QED
      BY <1>1, <3>2
  <2> QED
    BY <1>0, <2>1, <2>2 DEF FramesAreTheCalls
<1>2. ASSUME NEW e \in DiagEvent, WellFormed(e), Consume(e)
      PROVE  FramesAreTheCalls'
  <2>0. /\ Len(events') = Len(events) + 1
        /\ \A n \in 1 .. Len(events) : events'[n] = events[n]
        /\ events'[Len(events) + 1] = e
    BY <1>2, ConsumeTypes
  <2>1. CASE ConsumeFnCall(e)
    <3> DEFINE new == Len(frames) + 1
               here == Len(events) + 1
    <3>1. /\ Len(frames') = new
          /\ \A k \in 1 .. Len(frames) : /\ frames'[k].event = frames[k].event
                                         /\ frames'[k].contract = frames[k].contract
          /\ frames'[new].event = here
          /\ frames'[new].contract = e.callee
      <4>1. PICK kept \in 0 .. Len(stack) :
                /\ KeepsFrames(kept)
                /\ Len(frames') = new
                /\ frames'[new] = NewFrame(e, kept)
        BY <1>2, <2>1, FnCallFacts
      <4>2. \A k \in 1 .. Len(frames) : /\ frames'[k].event = frames[k].event
                                        /\ frames'[k].contract = frames[k].contract
        BY <4>1 DEF KeepsFrames
      <4> QED
        BY <4>1, <4>2 DEF NewFrame
    <3>2. e.kind = "fn_call"
      BY <2>1 DEF ConsumeFnCall
    <3>3. ASSUME NEW k \in 1 .. Len(frames')
          PROVE  /\ frames'[k].event \in 1 .. Len(events')
                 /\ events'[frames'[k].event].kind = "fn_call"
                 /\ events'[frames'[k].event].callee = frames'[k].contract
                 /\ \A j \in 1 .. Len(frames') : j < k => frames'[j].event < frames'[k].event
      <4>0. \A j \in 1 .. Len(frames) : frames[j].event \in 1 .. Len(events)
        BY <1>0 DEF FramesAreTheCalls
      <4>1. CASE k = new
        <5>1. /\ here \in 1 .. Len(events') /\ events'[here] = e
              /\ frames'[k].event = here /\ frames'[k].contract = e.callee
          BY <1>0, <2>0, <3>1, <4>1
        <5>2. ASSUME NEW j \in 1 .. Len(frames'), j < k
              PROVE  frames'[j].event < here
          <6>1. j \in 1 .. Len(frames)
            BY <1>0, <3>1, <4>1, <5>2
          <6> QED
            BY <1>0, <3>1, <4>0, <6>1
        <5> QED
          BY <3>2, <5>1, <5>2
      <4>2. CASE k # new
        <5>1. k \in 1 .. Len(frames)
          BY <1>0, <3>1, <4>2
        <5>2. /\ events[frames[k].event].kind = "fn_call"
              /\ events[frames[k].event].callee = frames[k].contract
              /\ \A j \in 1 .. Len(frames) : j < k => frames[j].event < frames[k].event
          BY <1>0, <5>1 DEF FramesAreTheCalls
        <5> QED
          BY <1>0, <2>0, <3>1, <4>0, <5>1, <5>2
      <4> QED
        BY <4>1, <4>2
    <3>4. ASSUME NEW n \in 1 .. Len(events'), events'[n].kind = "fn_call"
          PROVE  \E k \in 1 .. Len(frames') : frames'[k].event = n
      <4>1. CASE n = here
        BY <1>0, <3>1, <4>1
      <4>2. CASE n # here
        <5>1. n \in 1 .. Len(events) /\ events[n].kind = "fn_call"
          BY <1>0, <2>0, <3>4, <4>2
        <5>2. PICK k \in 1 .. Len(frames) : frames[k].event = n
          BY <1>0, <5>1 DEF FramesAreTheCalls
        <5> QED
          BY <1>0, <3>1, <5>2
      <4> QED
        BY <4>1, <4>2
    <3> QED
      BY <1>0, <3>3, <3>4 DEF FramesAreTheCalls
  <2>2. ASSUME ~ConsumeFnCall(e)
        PROVE  /\ Len(frames') = Len(frames)
               /\ \A k \in 1 .. Len(frames) : /\ frames'[k].event = frames[k].event
                                              /\ frames'[k].contract = frames[k].contract
               /\ e.kind # "fn_call"
    <3>1. CASE ConsumeFnReturn(e) /\ stack = << >>
      BY <3>1 DEF ConsumeFnReturn
    <3>2. CASE ConsumeFnReturn(e) /\ stack # << >>
      BY <3>2, FnReturnFacts DEF ConsumeFnReturn
    <3>3. CASE ConsumeEmitted(e)
      <4>1. PICK kept \in 0 .. Len(stack) : KeepsFrames(kept)
        BY <1>2, <3>3, EmittedFacts
      <4>2. Len(frames') = Len(frames)
        BY <1>2, <3>3, EmittedFacts
      <4> QED
        BY <3>3, <4>1, <4>2 DEF ConsumeEmitted, KeepsFrames
    <3>4. CASE ConsumeIgnored(e)
      BY <3>4 DEF ConsumeIgnored
    <3> QED
      BY <1>2, <2>2, <3>1, <3>2, <3>3, <3>4 DEF Consume
  <2>3. CASE ~ConsumeFnCall(e)
    <3>1. \A n \in 1 .. Len(events') : n > Len(events) => n = Len(events) + 1
      BY <1>0, <2>0
    <3>2. Len(events') >= Len(events) /\ Len(events') \in Nat
      BY <1>0, <2>0
    <3> QED
      BY <1>1, <2>0, <2>2, <2>3, <3>1, <3>2
  <2> QED
    BY <2>1, <2>3
<1>3. CASE Finish
  BY <1>0, <1>1, <1>3, FinishFacts DEF Finish
<1>4. CASE UNCHANGED treeVars
  BY <1>4 DEF treeVars, FramesAreTheCalls
<1> QED
  BY <1>2, <1>3, <1>4 DEF Next

\* The frames are the fn_calls of the stream, each once and in order.
THEOREM FramesHold == Spec => []FramesAreTheCalls
<1>1. Init => FramesAreTheCalls
  BY DEF Init, FramesAreTheCalls
<1>2. TypeOK /\ FramesAreTheCalls /\ [Next]_treeVars => FramesAreTheCalls'
  BY NextFrames
<1> QED
  BY <1>1, <1>2, TypeCorrect, PTL DEF Spec

-----------------------------------------------------------------------------
(***************************************************************************)
(* No frame is blamed for an error it did not raise.                       *)
(***************************************************************************)

\* The event that `last` cites is an error that contract c raised after event n.
Cites(last, c, n) ==
    /\ last.event \in 1 .. Len(events)
    /\ last.event > n
    /\ events[last.event].kind = "error"
    /\ events[last.event].error = last.error
    /\ events[last.event].contract = c

\* What an open frame carries until it is ended is its own contract's error.
PendingErrors ==
    \A i \in 1 .. Len(stack) :
        stack[i].last # NoRaise =>
            Cites(stack[i].last, frames[stack[i].frame].contract,
                  frames[stack[i].frame].event)

TerminalIsCited ==
    terminal # NoRaise => /\ terminal.event \in 1 .. Len(events)
                          /\ events[terminal.event].error = terminal.error

\* ErrorsAreAttributed before and after call_tree returns, made inductive.
FailedFrames ==
    \A k \in 1 .. Len(frames) :
        frames[k].outcome.tag = "Failed" =>
            \/ Cites(frames[k].outcome, frames[k].contract, frames[k].event)
            \/ /\ finished
               /\ terminal # NoRaise
               /\ frames[k].outcome.error = terminal.error
               /\ frames[k].outcome.event = terminal.event

ErrorInv == PendingErrors /\ TerminalIsCited /\ FailedFrames

\* A frame that kept its outcome, or that was ended with what it carried, is
\* accounted for.
LEMMA EndedFrames ==
    ASSUME TypeOK, ErrorInv, NEW k \in 1 .. Len(frames),
           frames'[k].event = frames[k].event,
           frames'[k].contract = frames[k].contract,
           \/ frames'[k] = frames[k] /\ ~finished
           \/ \E i \in 1 .. Len(stack) :
                /\ stack[i].frame = k
                /\ frames'[k].outcome = EndOutcome(stack[i].last),
           frames'[k].outcome.tag = "Failed"
    PROVE  Cites(frames'[k].outcome, frames'[k].contract, frames'[k].event)
<1>1. CASE frames'[k] = frames[k] /\ ~finished
  BY <1>1 DEF ErrorInv, FailedFrames
<1>2. CASE \E i \in 1 .. Len(stack) :
                /\ stack[i].frame = k
                /\ frames'[k].outcome = EndOutcome(stack[i].last)
  <2>1. PICK i \in 1 .. Len(stack) :
                /\ stack[i].frame = k
                /\ frames'[k].outcome = EndOutcome(stack[i].last)
    BY <1>2
  <2>2. stack[i].last \in Raise
    <3>1. stack \in Seq(Open)
      BY DEF TypeOK
    <3>2. stack[i] \in Open
      BY <3>1
    <3> QED
      BY <3>2 DEF Open
  <2>3. /\ stack[i].last # NoRaise
        /\ frames'[k].outcome.error = stack[i].last.error
        /\ frames'[k].outcome.event = stack[i].last.event
    BY <2>1, <2>2, OutcomeTypes
  <2>4. Cites(stack[i].last, frames[k].contract, frames[k].event)
    BY <2>1, <2>3 DEF ErrorInv, PendingErrors
  <2> QED
    BY <2>3, <2>4 DEF Cites
<1> QED
  BY <1>1, <1>2

\* The errors carried by the open frames survive every step that reads an event.
LEMMA ConsumePending ==
    ASSUME TypeOK, FramesAreTheCalls, ErrorInv,
           NEW e \in DiagEvent, WellFormed(e), Consume(e)
    PROVE  PendingErrors'
<1>0. /\ Len(events) \in Nat /\ Len(stack) \in Nat /\ Len(frames) \in Nat
      /\ DOMAIN events = 1 .. Len(events)
      /\ DOMAIN frames = 1 .. Len(frames)
      /\ \A i \in 1 .. Len(stack) : stack[i].frame \in 1 .. Len(frames)
  BY DEF TypeOK
<1>1. /\ Len(events') = Len(events) + 1
      /\ \A n \in 1 .. Len(events) : events'[n] = events[n]
      /\ events'[Len(events) + 1] = e
  BY ConsumeTypes
\* An open frame that stays open carries what it carried, or the event read.
<1>2. ASSUME NEW i \in 1 .. Len(stack'), i \in 1 .. Len(stack),
             frames'[stack[i].frame].contract = frames[stack[i].frame].contract,
             frames'[stack[i].frame].event = frames[stack[i].frame].event,
             stack'[i].frame = stack[i].frame,
             \/ stack'[i].last = stack[i].last
             \/ /\ e.kind = "error"
                /\ frames[stack[i].frame].contract = e.contract
                /\ stack'[i].last = Raised(e.error, Len(events) + 1),
             stack'[i].last # NoRaise
      PROVE  Cites(stack[i].last, frames[stack[i].frame].contract,
                   frames[stack[i].frame].event)'
  <2> DEFINE k == stack[i].frame
  <2>1. k \in 1 .. Len(frames) /\ frames[k].event \in 1 .. Len(events)
    BY <1>0, <1>2 DEF FramesAreTheCalls
  <2>2. CASE stack'[i].last = stack[i].last
    <3>1. Cites(stack[i].last, frames[k].contract, frames[k].event)
      BY <1>2, <2>2 DEF ErrorInv, PendingErrors
    <3> HIDE DEF k
    <3>2. stack'[i].frame = k /\ frames'[k].contract = frames[k].contract
                              /\ frames'[k].event = frames[k].event
      BY <1>2 DEF k
    <3> QED
      BY <1>0, <1>1, <2>2, <3>1, <3>2 DEF Cites
  <2>3. CASE /\ e.kind = "error"
             /\ frames[k].contract = e.contract
             /\ stack'[i].last = Raised(e.error, Len(events) + 1)
    <3>1. /\ stack'[i].last.event = Len(events) + 1
          /\ stack'[i].last.error = e.error
      BY <2>3 DEF Raised
    <3>2. stack'[i].frame = k /\ frames'[k].contract = frames[k].contract
                              /\ frames'[k].event = frames[k].event
      BY <1>2
    <3> HIDE DEF k
    <3> QED
      BY <1>0, <1>1, <2>1, <2>3, <3>1, <3>2 DEF Cites
  <2> QED
    BY <1>2, <2>2, <2>3
<1>3. CASE ConsumeFnCall(e)
  <2>1. PICK kept \in 0 .. Len(stack) :
            /\ KeepsFrames(kept)
            /\ Len(stack') = kept + 1
            /\ \A i \in 1 .. kept : stack'[i] = stack[i]
            /\ stack'[kept + 1] = [frame |-> Len(frames) + 1, last |-> NoRaise]
    BY <1>3, FnCallFacts
  <2> SUFFICES ASSUME NEW i \in 1 .. Len(stack'), stack'[i].last # NoRaise
               PROVE  Cites(stack[i].last, frames[stack[i].frame].contract,
                            frames[stack[i].frame].event)'
    BY DEF PendingErrors
  <2>2. i \in 1 .. kept /\ i \in 1 .. Len(stack)
    BY <1>0, <2>1
  <2>3. stack'[i] = stack[i] /\ stack[i].frame \in 1 .. Len(frames)
    BY <1>0, <2>1, <2>2
  <2> QED
    BY <1>2, <2>1, <2>2, <2>3 DEF KeepsFrames
<1>4. CASE ConsumeFnReturn(e) /\ stack # << >>
  <2> SUFFICES ASSUME NEW i \in 1 .. Len(stack'), stack'[i].last # NoRaise
               PROVE  Cites(stack[i].last, frames[stack[i].frame].contract,
                            frames[stack[i].frame].event)'
    BY DEF PendingErrors
  <2>1. /\ Len(stack') = Len(stack) - 1
        /\ \A j \in 1 .. Len(stack) - 1 : stack'[j] = stack[j]
        /\ \A k \in 1 .. Len(frames) : /\ frames'[k].contract = frames[k].contract
                                       /\ frames'[k].event = frames[k].event
    BY <1>4, FnReturnFacts
  <2>2. i \in 1 .. Len(stack) - 1 /\ i \in 1 .. Len(stack)
    BY <1>0, <2>1
  <2>3. stack'[i] = stack[i] /\ stack[i].frame \in 1 .. Len(frames)
    BY <1>0, <2>1, <2>2
  <2> QED
    BY <1>2, <2>1, <2>2, <2>3
<1>5. CASE ConsumeEmitted(e)
  <2>1. PICK kept \in 0 .. Len(stack) :
            /\ KeepsFrames(kept)
            /\ Len(stack') = kept
            /\ \A i \in 1 .. kept :
                    /\ stack'[i].frame = stack[i].frame
                    /\ \/ stack'[i].last = stack[i].last
                       \/ /\ e.kind = "error"
                          /\ frames[stack[i].frame].contract = e.contract
                          /\ stack'[i].last = Raised(e.error, Len(events) + 1)
    BY <1>5, EmittedFacts
  <2> SUFFICES ASSUME NEW i \in 1 .. Len(stack'), stack'[i].last # NoRaise
               PROVE  Cites(stack[i].last, frames[stack[i].frame].contract,
                            frames[stack[i].frame].event)'
    BY DEF PendingErrors
  <2>2. i \in 1 .. kept /\ i \in 1 .. Len(stack)
    BY <1>0, <2>1
  <2>3. stack[i].frame \in 1 .. Len(frames)
    BY <1>0, <2>2
  <2> QED
    BY <1>2, <2>1, <2>2, <2>3 DEF KeepsFrames
<1>6. CASE UNCHANGED <<frames, stack>>
  <2> SUFFICES ASSUME NEW i \in 1 .. Len(stack'), stack'[i].last # NoRaise
               PROVE  Cites(stack[i].last, frames[stack[i].frame].contract,
                            frames[stack[i].frame].event)'
    BY DEF PendingErrors
  <2> QED
    BY <1>2, <1>6
<1>7. CASE ConsumeFnReturn(e) /\ stack = << >>
  BY <1>6, <1>7 DEF ConsumeFnReturn
<1>8. CASE ConsumeIgnored(e)
  BY <1>6, <1>8 DEF ConsumeIgnored
<1> QED
  BY <1>3, <1>4, <1>5, <1>7, <1>8 DEF Consume

LEMMA ConsumeTerminal ==
    ASSUME TypeOK, TerminalIsCited, NEW e \in DiagEvent, WellFormed(e), Consume(e)
    PROVE  TerminalIsCited'
<1>1. /\ Len(events') = Len(events) + 1 /\ Len(events) \in Nat
      /\ \A n \in 1 .. Len(events) : events'[n] = events[n]
      /\ events'[Len(events) + 1] = e
  BY ConsumeTypes DEF TypeOK
<1>2. CASE terminal' = terminal
  BY <1>1, <1>2 DEF TerminalIsCited
<1>3. CASE terminal' = Raised(e.error, Len(events) + 1)
  BY <1>1, <1>3 DEF TerminalIsCited, Raised
<1> QED
  BY <1>2, <1>3 DEF Consume

\* A frame that an event ends, or leaves alone, is accounted for.
LEMMA ConsumeFailed ==
    ASSUME TypeOK, ErrorInv, NEW e \in DiagEvent, WellFormed(e), Consume(e)
    PROVE  FailedFrames'
<1>0. /\ Len(events) \in Nat /\ Len(stack) \in Nat /\ Len(frames) \in Nat
      /\ ~finished
  BY DEF TypeOK, Consume
<1>1. /\ Len(events') = Len(events) + 1
      /\ \A n \in 1 .. Len(events) : events'[n] = events[n]
  BY ConsumeTypes
<1> SUFFICES ASSUME NEW k \in 1 .. Len(frames'), frames'[k].outcome.tag = "Failed"
             PROVE  Cites(frames[k].outcome, frames[k].contract, frames[k].event)'
  BY DEF FailedFrames
<1>2. ASSUME k \in 1 .. Len(frames),
             frames'[k].event = frames[k].event,
             frames'[k].contract = frames[k].contract,
             \/ frames'[k] = frames[k] /\ ~finished
             \/ \E i \in 1 .. Len(stack) :
                    /\ stack[i].frame = k
                    /\ frames'[k].outcome = EndOutcome(stack[i].last)
      PROVE  Cites(frames[k].outcome, frames[k].contract, frames[k].event)'
  <2>1. Cites(frames'[k].outcome, frames'[k].contract, frames'[k].event)
    BY <1>2, EndedFrames
  <2> QED
    BY <1>0, <1>1, <2>1 DEF Cites
<1>3. ASSUME NEW kept \in 0 .. Len(stack), KeepsFrames(kept), k \in 1 .. Len(frames)
      PROVE  Cites(frames[k].outcome, frames[k].contract, frames[k].event)'
  <2>1. /\ frames'[k].event = frames[k].event
        /\ frames'[k].contract = frames[k].contract
        /\ \/ frames'[k] = frames[k]
           \/ \E i \in kept + 1 .. Len(stack) :
                /\ stack[i].frame = k
                /\ frames'[k].outcome = EndOutcome(stack[i].last)
    BY <1>3 DEF KeepsFrames
  <2>2. \A i \in kept + 1 .. Len(stack) : i \in 1 .. Len(stack)
    BY <1>0
  <2> QED
    BY <1>0, <1>2, <1>3, <2>1, <2>2
<1>4. CASE ConsumeFnCall(e)
  <2>1. PICK kept \in 0 .. Len(stack) :
            /\ KeepsFrames(kept)
            /\ Len(frames') = Len(frames) + 1
            /\ frames'[Len(frames) + 1] = NewFrame(e, kept)
    BY <1>4, FnCallFacts
  <2>2. k # Len(frames) + 1
    BY <2>1 DEF NewFrame, Unknown
  <2>3. k \in 1 .. Len(frames)
    BY <1>0, <2>1, <2>2
  <2> QED
    BY <1>3, <2>1, <2>3
<1>5. CASE ConsumeFnReturn(e) /\ stack # << >>
  <2>1. /\ k \in 1 .. Len(frames)
        /\ frames'[k].event = frames[k].event
        /\ frames'[k].contract = frames[k].contract
        /\ frames'[k] = frames[k] \/ frames'[k].outcome = Returned
    BY <1>5, FnReturnFacts
  <2>2. frames'[k] = frames[k]
    BY <2>1 DEF Returned
  <2> QED
    BY <1>0, <1>2, <2>1, <2>2
<1>6. CASE ConsumeEmitted(e)
  <2>1. PICK kept \in 0 .. Len(stack) : KeepsFrames(kept)
    BY <1>6, EmittedFacts
  <2>2. k \in 1 .. Len(frames)
    BY <1>6, EmittedFacts
  <2> QED
    BY <1>3, <2>1, <2>2
<1>7. CASE UNCHANGED <<frames, stack>>
  BY <1>0, <1>2, <1>7
<1>8. CASE ConsumeFnReturn(e) /\ stack = << >>
  BY <1>7, <1>8 DEF ConsumeFnReturn
<1>9. CASE ConsumeIgnored(e)
  BY <1>7, <1>9 DEF ConsumeIgnored
<1> QED
  BY <1>4, <1>5, <1>6, <1>8, <1>9 DEF Consume

\* The frames still open at the end blame their own last error, or the terminal
\* error when they raised none.
LEMMA FinishErrors ==
    ASSUME TypeOK, ErrorInv, Finish
    PROVE  ErrorInv'
<1>0. /\ ~finished /\ finished'
      /\ UNCHANGED <<events, terminal>>
      /\ stack' = << >> /\ Len(stack') = 0
      /\ terminal \in Raise
  BY EmptySeq DEF Finish, TypeOK
<1>1. PendingErrors' /\ TerminalIsCited'
  BY <1>0 DEF ErrorInv, PendingErrors, TerminalIsCited
<1>2. ASSUME NEW k \in 1 .. Len(frames'), frames'[k].outcome.tag = "Failed"
      PROVE  \/ Cites(frames[k].outcome, frames[k].contract, frames[k].event)'
             \/ /\ terminal' # NoRaise
                /\ frames'[k].outcome.error = terminal'.error
                /\ frames'[k].outcome.event = terminal'.event
  <2>1. /\ k \in 1 .. Len(frames)
        /\ frames'[k].event = frames[k].event
        /\ frames'[k].contract = frames[k].contract
        /\ \/ frames'[k] = frames[k]
           \/ \E i \in 1 .. Len(stack) :
                /\ stack[i].frame = k
                /\ \/ frames'[k].outcome = EndOutcome(stack[i].last)
                   \/ frames'[k].outcome = EndOutcome(terminal)
    BY FinishFacts
  <2>2. CASE frames'[k].outcome = EndOutcome(terminal)
    BY <1>0, <1>2, <2>2, OutcomeTypes
  <2>3. CASE \/ frames'[k] = frames[k]
             \/ \E i \in 1 .. Len(stack) :
                    /\ stack[i].frame = k
                    /\ frames'[k].outcome = EndOutcome(stack[i].last)
    <3>1. Cites(frames'[k].outcome, frames'[k].contract, frames'[k].event)
      BY <1>0, <1>2, <2>1, <2>3, EndedFrames
    <3> QED
      BY <1>0, <3>1 DEF Cites
  <2> QED
    BY <2>1, <2>2, <2>3
<1>3. FailedFrames'
  BY <1>0, <1>2 DEF FailedFrames
<1> QED
  BY <1>1, <1>3 DEF ErrorInv

\* Whatever the stream, a frame is said to have failed only with an error its
\* own contract raised during the call, or with the terminal error.
THEOREM ErrorsHold == Spec => []ErrorsAreAttributed
<1>1. Init => ErrorInv
  BY EmptySeq DEF Init, ErrorInv, PendingErrors, TerminalIsCited, FailedFrames
<1>2. TypeOK /\ FramesAreTheCalls /\ ErrorInv /\ [Next]_treeVars => ErrorInv'
  <2> SUFFICES ASSUME TypeOK, FramesAreTheCalls, ErrorInv, [Next]_treeVars
               PROVE  ErrorInv'
    OBVIOUS
  <2>1. ASSUME NEW e \in DiagEvent, WellFormed(e), Consume(e)
        PROVE  ErrorInv'
    BY <2>1, ConsumePending, ConsumeTerminal, ConsumeFailed DEF ErrorInv
  <2>2. CASE Finish
    BY <2>2, FinishErrors
  <2>3. CASE UNCHANGED treeVars
    BY <2>3 DEF treeVars, ErrorInv, PendingErrors, TerminalIsCited, FailedFrames, Cites
  <2> QED
    BY <2>1, <2>2, <2>3 DEF Next
<1>3. TypeOK /\ ErrorInv => ErrorsAreAttributed
  <2> SUFFICES ASSUME TypeOK, ErrorInv, NEW k \in DOMAIN frames,
                      frames[k].outcome.tag = "Failed"
               PROVE  LET o == frames[k].outcome IN
                      /\ o.event \in DOMAIN events
                      /\ events[o.event].error = o.error
                      /\ \/ /\ events[o.event].kind = "error"
                            /\ events[o.event].contract = frames[k].contract
                            /\ o.event > frames[k].event
                         \/ Raised(o.error, o.event) = terminal /\ finished
    BY DEF ErrorsAreAttributed
  <2>1. /\ DOMAIN frames = 1 .. Len(frames) /\ DOMAIN events = 1 .. Len(events)
        /\ terminal \in Raise
    BY DEF TypeOK
  <2>2. terminal # NoRaise => terminal = Raised(terminal.error, terminal.event)
    BY <2>1 DEF Raise, Raised
  <2> QED
    BY <2>1, <2>2 DEF ErrorInv, FailedFrames, TerminalIsCited, Cites
<1> QED
  BY <1>1, <1>2, <1>3, TypeCorrect, FramesHold, PTL DEF Spec

-----------------------------------------------------------------------------
(***************************************************************************)
(* The events of the host are events that classify can produce.            *)
(***************************************************************************)

LEMMA EventsAreWellFormed ==
    ASSUME NEW c \in Contract \cup {None}, NEW d \in Contract, NEW e \in Error
    PROVE  /\ FnCall(c, d) \in DiagEvent /\ WellFormed(FnCall(c, d))
           /\ FnReturn(c) \in DiagEvent /\ WellFormed(FnReturn(c))
           /\ ErrorEvent(c, e) \in DiagEvent /\ WellFormed(ErrorEvent(c, e))
           /\ OtherEvent(c) \in DiagEvent /\ WellFormed(OtherEvent(c))
           /\ HostFnFailed(e) \in DiagEvent /\ WellFormed(HostFnFailed(e))
BY NoneIsNothing DEF FnCall, FnReturn, ErrorEvent, OtherEvent, HostFnFailed, DiagEvent,
   EventKind, WellFormed

LEMMA RunningCalls ==
    ASSUME HostTypeOK
    PROVE  /\ Len(calls) \in Nat /\ DOMAIN calls = 1 .. Len(calls)
           /\ Len(live) \in Nat /\ DOMAIN live = 1 .. Len(live)
           /\ \A k \in 1 .. Len(calls) : calls[k] \in HostCall
           /\ \A i \in 1 .. Len(live) : live[i] \in 1 .. Len(calls)
           /\ live # << >> => Len(live) >= 1 /\ Top \in 1 .. Len(calls)
                              /\ TopContract \in Contract
<1>1. calls \in Seq(HostCall) /\ live \in Seq(Nat)
  BY DEF HostTypeOK
<1>2. /\ Len(calls) \in Nat /\ DOMAIN calls = 1 .. Len(calls)
      /\ Len(live) \in Nat /\ DOMAIN live = 1 .. Len(live)
      /\ \A k \in 1 .. Len(calls) : calls[k] \in HostCall
  BY <1>1
<1>3. \A i \in 1 .. Len(live) : live[i] \in 1 .. Len(calls)
  BY <1>2 DEF HostTypeOK
<1>4. ASSUME live # << >>
      PROVE  Len(live) >= 1 /\ Top \in 1 .. Len(calls) /\ TopContract \in Contract
  <2>1. Len(live) >= 1
    BY <1>1, <1>2, <1>4, EmptySeq
  <2>2. Top \in 1 .. Len(calls)
    BY <1>2, <1>3, <2>1 DEF Top
  <2> QED
    BY <1>2, <2>1, <2>2 DEF TopContract, HostCall
<1> QED
  BY <1>2, <1>3, <1>4

\* The running calls are those without a fate, in order.
LEMMA InOrderFacts ==
    ASSUME HostTypeOK
    PROVE  /\ \A i, j \in 1 .. Len(live) : i < j => live[i] < live[j]
           /\ \A k \in 1 .. Len(calls) :
                calls[k].fate = "running" <=> \E i \in 1 .. Len(live) : live[i] = k
<1>1. RunningInOrder
  BY DEF HostTypeOK
<1>2. DOMAIN calls = 1 .. Len(calls) /\ DOMAIN live = 1 .. Len(live)
  BY RunningCalls
<1> QED
  BY <1>1, <1>2 DEF RunningInOrder

\* What the host does to the calls it had made: their contracts and their
\* depths stay, whatever becomes of them.
Kept ==
    /\ Len(calls') = Len(calls)
    /\ \A k \in 1 .. Len(calls) : /\ calls'[k].contract = calls[k].contract
                                  /\ calls'[k].depth = calls[k].depth

\* The n outermost of the running calls go on running.
Running(n) ==
    /\ live' \in Seq(Nat)
    /\ Len(live') = n
    /\ \A i \in 1 .. n : live'[i] = live[i]

\* The calls that stop running, and no others, get a fate.
Decided(n) ==
    \A k \in 1 .. Len(calls) :
        calls'[k].fate = "running" <=>
            /\ calls[k].fate = "running"
            /\ \A i \in 1 .. Len(live) : i > n => live[i] # k

LEMMA InOrderKept ==
    ASSUME HostTypeOK, calls' \in Seq(HostCall), Kept, NEW n \in 0 .. Len(live),
           Running(n), Decided(n)
    PROVE  RunningInOrder'
<1>1. /\ Len(live) \in Nat
      /\ \A i \in 1 .. Len(live) : live[i] \in Nat
      /\ \A i, j \in 1 .. Len(live) : i < j => live[i] < live[j]
      /\ \A k \in 1 .. Len(calls) :
            calls[k].fate = "running" <=> \E i \in 1 .. Len(live) : live[i] = k
  BY RunningCalls, InOrderFacts
<1>2. /\ DOMAIN calls' = 1 .. Len(calls) /\ DOMAIN live' = 1 .. n
      /\ \A i \in 1 .. n : live'[i] = live[i] /\ i \in 1 .. Len(live)
  BY <1>1 DEF Kept, Running
<1>3. \A i, j \in 1 .. n : i < j => live'[i] < live'[j]
  BY <1>1, <1>2
<1>4. ASSUME NEW k \in 1 .. Len(calls)
      PROVE  calls'[k].fate = "running" <=> \E i \in 1 .. n : live'[i] = k
  <2>1. ASSUME calls'[k].fate = "running"
        PROVE  \E i \in 1 .. n : live'[i] = k
    <3>1. calls[k].fate = "running" /\ \A i \in 1 .. Len(live) : i > n => live[i] # k
      BY <2>1 DEF Decided
    <3>2. PICK i \in 1 .. Len(live) : live[i] = k
      BY <1>1, <3>1
    <3>3. i \in 1 .. n
      BY <1>1, <3>1, <3>2
    <3> QED
      BY <1>2, <3>2, <3>3
  <2>2. ASSUME NEW i \in 1 .. n, live'[i] = k
        PROVE  calls'[k].fate = "running"
    <3>1. i \in 1 .. Len(live) /\ live[i] = k
      BY <1>2, <2>2
    <3>2. calls[k].fate = "running"
      BY <1>1, <3>1
    <3>3. \A j \in 1 .. Len(live) : j > n => live[j] # k
      BY <1>1, <3>1
    <3> QED
      BY <3>2, <3>3 DEF Decided
  <2> QED
    BY <2>1, <2>2
<1> QED
  BY <1>2, <1>3, <1>4 DEF RunningInOrder

\* A call is changed to one of the same contract and depth.
LEMMA CallChanges ==
    ASSUME HostTypeOK, NEW k \in 1 .. Len(calls), NEW v \in HostCall,
           v.contract = calls[k].contract, v.depth = calls[k].depth,
           calls' = [calls EXCEPT ![k] = v]
    PROVE  /\ calls' \in Seq(HostCall)
           /\ Kept
           /\ \A l \in 1 .. Len(calls) : calls'[l] = IF l = k THEN v ELSE calls[l]
<1>1. calls \in Seq(HostCall)
  BY DEF HostTypeOK
<1> QED
  BY <1>1, ExceptSeq DEF Kept

LEMMA PopFacts ==
    ASSUME HostTypeOK, live # << >>, live' = Pop(live)
    PROVE  Running(Len(live) - 1)
<1>1. live \in Seq(Nat) /\ Len(live) \in Nat /\ Len(live) >= 1
  BY RunningCalls DEF HostTypeOK
<1> DEFINE n == Len(live) - 1
<1>2. n \in Nat /\ n <= Len(live) /\ live' = SubSeq(live, 1, n)
  BY <1>1 DEF Pop
<1> HIDE DEF n
<1>3. Running(n)
  BY <1>1, <1>2 DEF Running
<1> QED
  BY <1>3 DEF n

LEMMA ReturnFacts ==
    ASSUME HostTypeOK, HostReturn
    PROVE  /\ calls' \in Seq(HostCall) /\ Kept /\ Running(Len(live) - 1)
           /\ \A k \in 1 .. Len(calls) :
                calls'[k] = IF k = Top THEN [calls[k] EXCEPT !.fate = "returned"] ELSE calls[k]
<1>1. /\ live # << >> /\ live' = Pop(live)
      /\ calls' = [calls EXCEPT ![Top].fate = "returned"]
  BY DEF HostReturn
<1>2. Top \in 1 .. Len(calls) /\ calls[Top] \in HostCall
  BY <1>1, RunningCalls
<1> DEFINE v == [calls[Top] EXCEPT !.fate = "returned"]
<1>3. v \in HostCall /\ v.contract = calls[Top].contract /\ v.depth = calls[Top].depth
  BY <1>2 DEF HostCall, Fate
<1>4. calls' = [calls EXCEPT ![Top] = v]
  BY <1>1
<1> HIDE DEF v
<1>5. /\ calls' \in Seq(HostCall) /\ Kept
      /\ \A l \in 1 .. Len(calls) : calls'[l] = IF l = Top THEN v ELSE calls[l]
  BY <1>2, <1>3, <1>4, CallChanges
<1>6. Running(Len(live) - 1)
  BY <1>1, PopFacts
<1> QED
  BY <1>5, <1>6 DEF v

LEMMA RaiseFacts ==
    ASSUME HostTypeOK, NEW e \in Error, HostRaise(e)
    PROVE  /\ calls' \in Seq(HostCall) /\ Kept /\ live' = live
           /\ \A k \in 1 .. Len(calls) :
                calls'[k] = IF k = Top THEN [calls[k] EXCEPT !.raised = e] ELSE calls[k]
<1>1. live # << >> /\ live' = live /\ calls' = [calls EXCEPT ![Top].raised = e]
  BY DEF HostRaise
<1>2. Top \in 1 .. Len(calls) /\ calls[Top] \in HostCall
  BY <1>1, RunningCalls
<1> DEFINE v == [calls[Top] EXCEPT !.raised = e]
<1>3. v \in HostCall /\ v.contract = calls[Top].contract /\ v.depth = calls[Top].depth
  BY <1>2 DEF HostCall
<1>4. calls' = [calls EXCEPT ![Top] = v]
  BY <1>1
<1> HIDE DEF v
<1>5. /\ calls' \in Seq(HostCall) /\ Kept
      /\ \A l \in 1 .. Len(calls) : calls'[l] = IF l = Top THEN v ELSE calls[l]
  BY <1>2, <1>3, <1>4, CallChanges
<1> QED
  BY <1>1, <1>5 DEF v

\* A caught failure ends the callee; the caller's error is its own.
LEMMA CatchFacts ==
    ASSUME HostTypeOK, NEW e \in Error, HostCatch(e)
    PROVE  /\ Len(live) > 1
           /\ calls' \in Seq(HostCall) /\ Kept /\ Running(Len(live) - 1)
           /\ \A k \in 1 .. Len(calls) :
                /\ calls'[k].fate = IF k = Top THEN "failed" ELSE calls[k].fate
                /\ ~silent' => calls'[k].raised = IF k = live[Len(live) - 1]
                                                  THEN e ELSE calls[k].raised
<1> DEFINE caller == live[Len(live) - 1]
<1>1. /\ Len(live) > 1 /\ Len(live) \in Nat /\ live # << >> /\ live' = Pop(live)
      /\ calls \in Seq(HostCall) /\ Len(calls) \in Nat
  BY RunningCalls, EmptySeq DEF HostCatch, HostTypeOK
<1>2. /\ Top \in 1 .. Len(calls) /\ calls[Top] \in HostCall
      /\ caller \in 1 .. Len(calls)
  BY <1>1, RunningCalls
<1>3. Running(Len(live) - 1)
  BY <1>1, PopFacts
<1> DEFINE v == [calls[Top] EXCEPT !.fate = "failed"]
           mid == [calls EXCEPT ![Top] = v]
           w == [mid[caller] EXCEPT !.raised = e]
<1>4. v \in HostCall /\ v.contract = calls[Top].contract /\ v.depth = calls[Top].depth
      /\ v.raised = calls[Top].raised /\ v.fate = "failed"
  BY <1>2 DEF HostCall, Fate
<1> HIDE DEF v, caller
<1>5. /\ mid \in Seq(HostCall) /\ Len(mid) = Len(calls)
      /\ \A k \in 1 .. Len(calls) : mid[k] = IF k = Top THEN v ELSE calls[k]
  BY <1>1, <1>2, <1>4, ExceptSeq
<1>6. mid[caller] \in HostCall
  BY <1>2, <1>5
<1> HIDE DEF mid
<1>7. /\ w \in HostCall /\ w.contract = mid[caller].contract
      /\ w.depth = mid[caller].depth /\ w.fate = mid[caller].fate /\ w.raised = e
  BY <1>6 DEF HostCall
<1>8. \/ calls' = [mid EXCEPT ![caller] = w] /\ silent' = silent
      \/ calls' = mid /\ silent' = TRUE
  BY DEF HostCatch, mid, w, v, caller
<1> HIDE DEF w
<1>9. CASE calls' = mid /\ silent' = TRUE
  BY <1>1, <1>3, <1>4, <1>5, <1>9 DEF Kept, caller
<1>10. CASE calls' = [mid EXCEPT ![caller] = w]
  <2>1. /\ calls' \in Seq(HostCall) /\ Len(calls') = Len(calls)
        /\ \A k \in 1 .. Len(calls) : calls'[k] = IF k = caller THEN w ELSE mid[k]
    BY <1>2, <1>5, <1>7, <1>10, ExceptSeq
  <2> QED
    BY <1>1, <1>2, <1>3, <1>4, <1>5, <1>7, <1>10, <2>1 DEF Kept, caller
<1> QED
  BY <1>8, <1>9, <1>10

LEMMA AbortFacts ==
    ASSUME HostTypeOK, NEW e \in Error, HostAbort(e)
    PROVE  /\ calls' \in Seq(HostCall) /\ Kept /\ live' = << >> /\ Running(0)
           /\ \A k \in 1 .. Len(calls) :
                calls'[k] = IF \E i \in 1 .. Len(live) : live[i] = k
                            THEN [calls[k] EXCEPT !.fate = "failed"] ELSE calls[k]
<1>1. /\ calls \in Seq(HostCall) /\ Len(calls) \in Nat /\ DOMAIN calls = 1 .. Len(calls)
      /\ DOMAIN live = 1 .. Len(live)
      /\ \A k \in 1 .. Len(calls) : calls[k] \in HostCall
  BY RunningCalls DEF HostTypeOK
<1>2. /\ live' = << >>
      /\ calls' = [k \in 1 .. Len(calls) |->
                      IF \E i \in 1 .. Len(live) : live[i] = k
                      THEN [calls[k] EXCEPT !.fate = "failed"] ELSE calls[k]]
  BY <1>1 DEF HostAbort
<1>3. \A k \in 1 .. Len(calls) :
        /\ [calls[k] EXCEPT !.fate = "failed"] \in HostCall
        /\ [calls[k] EXCEPT !.fate = "failed"].contract = calls[k].contract
        /\ [calls[k] EXCEPT !.fate = "failed"].depth = calls[k].depth
  BY <1>1 DEF HostCall, Fate
<1>4. calls' \in [1 .. Len(calls) -> HostCall]
  BY <1>1, <1>2, <1>3
<1>5. calls' \in Seq(HostCall) /\ Len(calls') = Len(calls)
  BY <1>1, <1>4, SeqDef
<1>6. Running(0)
  BY <1>2, EmptySeq DEF Running
<1>7. Kept
  BY <1>2, <1>3, <1>5 DEF Kept
<1>8. \A k \in 1 .. Len(calls) :
        calls'[k] = IF \E i \in 1 .. Len(live) : live[i] = k
                    THEN [calls[k] EXCEPT !.fate = "failed"] ELSE calls[k]
  BY <1>2
<1> QED
  BY <1>2, <1>5, <1>6, <1>7, <1>8

LEMMA CallFacts ==
    ASSUME HostTypeOK, NEW c \in Contract, HostCallAction(c)
    PROVE  LET new == [contract |-> c, depth |-> Len(live), raised |-> None,
                       fate |-> "running"]
           IN  /\ calls' \in Seq(HostCall) /\ Len(calls') = Len(calls) + 1
               /\ \A k \in 1 .. Len(calls) : calls'[k] = calls[k]
               /\ calls'[Len(calls) + 1] = new
               /\ live' \in Seq(Nat) /\ Len(live') = Len(live) + 1
               /\ \A i \in 1 .. Len(live) : live'[i] = live[i]
               /\ live'[Len(live) + 1] = Len(calls) + 1
<1> DEFINE new == [contract |-> c, depth |-> Len(live), raised |-> None, fate |-> "running"]
<1>1. /\ calls \in Seq(HostCall) /\ Len(calls) \in Nat
      /\ live \in Seq(Nat) /\ Len(live) \in Nat
  BY RunningCalls DEF HostTypeOK
<1>2. new \in HostCall
  BY <1>1 DEF HostCall, Fate
<1>3. calls' = Append(calls, new) /\ live' = Append(live, Len(calls) + 1)
  BY DEF HostCallAction
<1> HIDE DEF new
<1>4. Len(calls) + 1 \in Nat
  BY <1>1
<1>5. /\ calls' \in Seq(HostCall) /\ Len(calls') = Len(calls) + 1
      /\ \A k \in 1 .. Len(calls) : calls'[k] = calls[k]
      /\ calls'[Len(calls) + 1] = new
  BY <1>1, <1>2, <1>3, AppendProperties
<1>6. /\ live' \in Seq(Nat) /\ Len(live') = Len(live) + 1
      /\ \A i \in 1 .. Len(live) : live'[i] = live[i]
      /\ live'[Len(live) + 1] = Len(calls) + 1
  BY <1>1, <1>3, <1>4, AppendProperties
<1> QED
  BY <1>5, <1>6 DEF new

-----------------------------------------------------------------------------
(***************************************************************************)
(* The composed steps are steps of the call tree.                          *)
(***************************************************************************)

LEMMA HostedIsTree ==
    ASSUME HostTypeOK, [HostedNext]_vars
    PROVE  [Next]_treeVars
<1>1. ASSUME NEW e \in DiagEvent, WellFormed(e), Emit(e) \/ Drop
      PROVE  [Next]_treeVars
  BY <1>1 DEF Emit, Drop, Next
<1>2. ASSUME NEW c \in Contract, HostCallAction(c)
      PROVE  [Next]_treeVars
  <2> DEFINE caller == IF live = << >> THEN None ELSE TopContract
  <2>1. caller \in Contract \cup {None}
    BY RunningCalls
  <2>2. Emit(FnCall(caller, c)) \/ Drop
    BY <1>2 DEF HostCallAction
  <2>3. FnCall(caller, c) \in DiagEvent /\ WellFormed(FnCall(caller, c))
    BY <2>1, NoneIsNothing DEF FnCall, DiagEvent, EventKind, WellFormed
  <2> QED
    BY <1>1, <2>2, <2>3
<1>3. CASE HostReturn
  <2>1. TopContract \in Contract /\ (Emit(FnReturn(TopContract)) \/ Drop)
    BY <1>3, RunningCalls DEF HostReturn
  <2>2. FnReturn(TopContract) \in DiagEvent /\ WellFormed(FnReturn(TopContract))
    BY <2>1, NoneIsNothing DEF FnReturn, DiagEvent, EventKind, WellFormed
  <2> QED
    BY <1>1, <2>1, <2>2
<1>4. CASE HostNote
  <2>1. PICK c \in Contract \cup {None}, e \in Error :
           Emit(OtherEvent(c)) \/ Emit(ErrorEvent(c, e)) \/ Drop
    BY <1>4 DEF HostNote
  <2>2. /\ ErrorEvent(c, e) \in DiagEvent /\ WellFormed(ErrorEvent(c, e))
        /\ OtherEvent(c) \in DiagEvent /\ WellFormed(OtherEvent(c))
    BY NoneIsNothing DEF ErrorEvent, OtherEvent, DiagEvent, EventKind, WellFormed
  <2> QED
    BY <1>1, <2>1, <2>2
<1>5. ASSUME NEW e \in Error, HostRaise(e)
      PROVE  [Next]_treeVars
  <2>1. TopContract \in Contract /\ (Emit(ErrorEvent(TopContract, e)) \/ Drop)
    BY <1>5, RunningCalls DEF HostRaise
  <2>2. ErrorEvent(TopContract, e) \in DiagEvent /\ WellFormed(ErrorEvent(TopContract, e))
    BY <2>1, EventsAreWellFormed
  <2> QED
    BY <1>1, <2>1, <2>2
<1>6. ASSUME NEW e \in Error, HostCatch(e)
      PROVE  [Next]_treeVars
  <2> DEFINE caller == calls[live[Len(live) - 1]].contract
  <2>1. caller \in Contract
    <3> DEFINE i == Len(live) - 1
    <3>1. Len(live) > 1 /\ Len(live) \in Nat
      BY <1>6, RunningCalls DEF HostCatch
    <3>2. i \in 1 .. Len(live)
      BY <3>1
    <3> HIDE DEF i
    <3>3. calls[live[i]] \in HostCall
      BY <3>2, RunningCalls
    <3>4. calls[live[i]].contract \in Contract
      BY <3>3 DEF HostCall
    <3> QED
      BY <3>4 DEF i
  <2>2. Emit(ErrorEvent(caller, e)) \/ Drop \/ UNCHANGED treeVars
    BY <1>6 DEF HostCatch
  <2>3. ErrorEvent(caller, e) \in DiagEvent /\ WellFormed(ErrorEvent(caller, e))
    BY <2>1, EventsAreWellFormed
  <2> QED
    BY <1>1, <2>2, <2>3
<1>7. ASSUME NEW e \in Error, HostAbort(e)
      PROVE  [Next]_treeVars
  <2>1. HostFnFailed(e) \in DiagEvent /\ WellFormed(HostFnFailed(e))
    BY NoneIsNothing DEF HostFnFailed, DiagEvent, EventKind, WellFormed
  <2> QED
    BY <1>1, <1>7, <2>1 DEF HostAbort
<1>8. CASE HostedFinish
  BY <1>8 DEF HostedFinish, Next
<1>9. CASE UNCHANGED vars
  BY <1>9 DEF vars, treeVars
<1> QED
  BY <1>2, <1>3, <1>4, <1>5, <1>6, <1>7, <1>8, <1>9 DEF HostedNext, HostNext

\* The innermost call is the only one that returns or is caught.
LEMMA TopDecided ==
    ASSUME HostTypeOK, Len(live) >= 1,
           \A k \in 1 .. Len(calls) :
              calls'[k].fate = "running" <=> calls[k].fate = "running" /\ k # Top
    PROVE  Decided(Len(live) - 1)
<1>1. Len(live) \in Nat
  BY RunningCalls
<1>2. ASSUME NEW k
      PROVE  k # Top <=> \A i \in 1 .. Len(live) : i > Len(live) - 1 => live[i] # k
  <2>1. \A i \in 1 .. Len(live) : i > Len(live) - 1 <=> i = Len(live)
    BY <1>1
  <2>2. Len(live) \in 1 .. Len(live)
    BY <1>1
  <2> QED
    BY <2>1, <2>2 DEF Top
<1> QED
  BY <1>2 DEF Decided

LEMMA ReturnDecides ==
    ASSUME HostTypeOK, HostReturn
    PROVE  Decided(Len(live) - 1)
<1>1. Len(live) >= 1
  BY RunningCalls DEF HostReturn
<1>2. ASSUME NEW k \in 1 .. Len(calls)
      PROVE  calls'[k].fate = "running" <=> calls[k].fate = "running" /\ k # Top
  <2>1. /\ calls[k] \in HostCall
        /\ calls'[k] = IF k = Top THEN [calls[k] EXCEPT !.fate = "returned"] ELSE calls[k]
    BY RunningCalls, ReturnFacts
  <2> QED
    BY <2>1 DEF HostCall
<1> QED
  BY <1>1, <1>2, TopDecided

LEMMA CatchDecides ==
    ASSUME HostTypeOK, NEW e \in Error, HostCatch(e)
    PROVE  Decided(Len(live) - 1)
<1>1. /\ Len(live) > 1 /\ Len(live) \in Nat
      /\ \A k \in 1 .. Len(calls) :
            calls'[k].fate = IF k = Top THEN "failed" ELSE calls[k].fate
  BY RunningCalls, CatchFacts
<1>2. Len(live) >= 1
  BY <1>1
<1>3. \A k \in 1 .. Len(calls) :
         calls'[k].fate = "running" <=> calls[k].fate = "running" /\ k # Top
  BY <1>1
<1> QED
  BY <1>2, <1>3, TopDecided

LEMMA RaiseDecides ==
    ASSUME HostTypeOK, NEW e \in Error, HostRaise(e)
    PROVE  Decided(Len(live))
<1>1. ASSUME NEW k \in 1 .. Len(calls)
      PROVE  calls'[k].fate = calls[k].fate
  <2>1. /\ calls[k] \in HostCall
        /\ calls'[k] = IF k = Top THEN [calls[k] EXCEPT !.raised = e] ELSE calls[k]
    BY RunningCalls, RaiseFacts
  <2> QED
    BY <2>1 DEF HostCall
<1>2. \A i \in 1 .. Len(live) : ~(i > Len(live))
  BY RunningCalls
<1> QED
  BY <1>1, <1>2 DEF Decided

LEMMA AbortDecides ==
    ASSUME HostTypeOK, NEW e \in Error, HostAbort(e)
    PROVE  Decided(0)
<1>1. \A i \in 1 .. Len(live) : i > 0
  BY RunningCalls
<1>2. ASSUME NEW k \in 1 .. Len(calls)
      PROVE  calls'[k].fate = "running" <=>
                calls[k].fate = "running" /\ \A i \in 1 .. Len(live) : live[i] # k
  <2>1. /\ calls[k] \in HostCall
        /\ calls'[k] = IF \E i \in 1 .. Len(live) : live[i] = k
                       THEN [calls[k] EXCEPT !.fate = "failed"] ELSE calls[k]
    BY RunningCalls, AbortFacts
  <2>2. CASE \E i \in 1 .. Len(live) : live[i] = k
    <3>1. calls'[k].fate = "failed"
      BY <2>1, <2>2 DEF HostCall
    <3> QED
      BY <2>2, <3>1
  <2>3. CASE \A i \in 1 .. Len(live) : live[i] # k
    <3>1. calls'[k] = calls[k]
      BY <2>1, <2>3
    <3> QED
      BY <2>3, <3>1
  <2> QED
    BY <2>2, <2>3
<1> QED
  BY <1>1, <1>2 DEF Decided

\* A new call is the last one made and the last one running.
LEMMA InOrderCalled ==
    ASSUME HostTypeOK, NEW c \in Contract, HostCallAction(c)
    PROVE  RunningInOrder'
<1> DEFINE m == Len(calls)
           n == Len(live)
<1>1. /\ m \in Nat /\ n \in Nat
      /\ \A i \in 1 .. n : live[i] \in 1 .. m
      /\ \A i, j \in 1 .. n : i < j => live[i] < live[j]
      /\ \A k \in 1 .. m : calls[k].fate = "running" <=> \E i \in 1 .. n : live[i] = k
  BY RunningCalls, InOrderFacts
<1>2. /\ calls' \in Seq(HostCall) /\ Len(calls') = m + 1
      /\ \A k \in 1 .. m : calls'[k] = calls[k]
      /\ calls'[m + 1].fate = "running"
      /\ live' \in Seq(Nat) /\ Len(live') = n + 1
      /\ \A i \in 1 .. n : live'[i] = live[i]
      /\ live'[n + 1] = m + 1
  <2> DEFINE new == [contract |-> c, depth |-> n, raised |-> None, fate |-> "running"]
  <2>1. /\ calls' \in Seq(HostCall) /\ Len(calls') = m + 1
        /\ \A k \in 1 .. m : calls'[k] = calls[k]
        /\ calls'[m + 1] = new
        /\ live' \in Seq(Nat) /\ Len(live') = n + 1
        /\ \A i \in 1 .. n : live'[i] = live[i]
        /\ live'[n + 1] = m + 1
    BY CallFacts, Zenon
  <2>2. new.fate = "running"
    OBVIOUS
  <2> HIDE DEF m, n, new
  <2> QED
    BY <2>1, <2>2
<1> HIDE DEF m, n
<1>3. DOMAIN calls' = 1 .. m + 1 /\ DOMAIN live' = 1 .. n + 1
  BY <1>1, <1>2
<1>4. ASSUME NEW i \in 1 .. n + 1, NEW j \in 1 .. n + 1, i < j
      PROVE  live'[i] < live'[j]
  <2>1. i \in 1 .. n
    BY <1>1, <1>4
  <2>2. CASE j \in 1 .. n
    BY <1>1, <1>2, <1>4, <2>1, <2>2
  <2>3. CASE j = n + 1
    BY <1>1, <1>2, <2>1, <2>3
  <2> QED
    BY <1>1, <2>2, <2>3
<1>5. ASSUME NEW k \in 1 .. m + 1
      PROVE  calls'[k].fate = "running" <=> \E i \in 1 .. n + 1 : live'[i] = k
  <2>1. CASE k = m + 1
    <3>1. n + 1 \in 1 .. n + 1
      BY <1>1
    <3> QED
      BY <1>2, <2>1, <3>1
  <2>2. CASE k \in 1 .. m
    <3>1. k # m + 1
      BY <1>1, <2>2
    <3>2. \A i \in 1 .. n + 1 : i \in 1 .. n \/ i = n + 1
      BY <1>1
    <3>3. \A i \in 1 .. n : i \in 1 .. n + 1
      BY <1>1
    <3>4. (\E i \in 1 .. n + 1 : live'[i] = k) <=> \E i \in 1 .. n : live[i] = k
      BY <1>2, <3>1, <3>2, <3>3
    <3> QED
      BY <1>1, <1>2, <2>2, <3>4
  <2> QED
    BY <1>1, <2>1, <2>2
<1> QED
  BY <1>3, <1>4, <1>5 DEF RunningInOrder

LEMMA HostInitTyped == HostedInit => HostTypeOK
<1> SUFFICES ASSUME HostedInit PROVE HostTypeOK
  OBVIOUS
<1>1. TypeOK
  BY InitTyped DEF HostedInit
<1>2. /\ calls = << >> /\ live = << >> /\ emitted = 0
      /\ lost = FALSE /\ silent = FALSE /\ hostDone = FALSE
  BY DEF HostedInit, HostInit
<1>3. /\ calls \in Seq(HostCall) /\ live \in Seq(Nat)
      /\ DOMAIN live = {} /\ DOMAIN calls = {}
  BY <1>2, EmptySeq
<1>4. RunningInOrder
  BY <1>3 DEF RunningInOrder
<1> QED
  BY <1>1, <1>2, <1>3, <1>4 DEF HostTypeOK

LEMMA HostNextTyped ==
    ASSUME HostTypeOK, [HostedNext]_vars
    PROVE  HostTypeOK'
<1>1. TypeOK'
  BY HostedIsTree, NextTyped DEF HostTypeOK
<1>2. /\ emitted \in Nat /\ lost \in BOOLEAN /\ silent \in BOOLEAN /\ hostDone \in BOOLEAN
      /\ Len(calls) \in Nat /\ Len(live) \in Nat
      /\ \A i \in 1 .. Len(live) : live[i] \in 1 .. Len(calls)
  BY RunningCalls DEF HostTypeOK
\* An event, emitted or dropped, and the flags.
<1>3. ASSUME NEW e, Emit(e) \/ Drop
      PROVE  emitted' \in Nat /\ lost' \in BOOLEAN
  <2>1. emitted' = emitted + 1 /\ (lost' = lost \/ lost' = TRUE)
    BY <1>3 DEF Emit, Drop
  <2>2. emitted' \in Nat
    BY <1>2, <2>1
  <2>3. lost' \in BOOLEAN
    BY <1>2, <2>1, Zenon
  <2> QED
    BY <2>2, <2>3
<1>4. ASSUME emitted' \in Nat, lost' \in BOOLEAN, silent' \in BOOLEAN, hostDone' \in BOOLEAN,
             calls' \in Seq(HostCall), live' \in Seq(Nat),
             \A i \in 1 .. Len(live') : live'[i] \in 1 .. Len(calls'), RunningInOrder'
      PROVE  HostTypeOK'
  <2>1. DOMAIN calls' = 1 .. Len(calls') /\ DOMAIN live' = 1 .. Len(live')
    BY <1>4
  <2> QED
    BY <1>1, <1>4, <2>1 DEF HostTypeOK
<1>5. ASSUME emitted' \in Nat, lost' \in BOOLEAN, silent' \in BOOLEAN, hostDone' \in BOOLEAN,
             calls' \in Seq(HostCall), Kept, NEW n \in 0 .. Len(live), Running(n), Decided(n)
      PROVE  HostTypeOK'
  <2>1. Len(calls') = Len(calls)
    BY <1>5 DEF Kept
  <2>2. Len(live') = n /\ \A i \in 1 .. n : live'[i] = live[i]
    BY <1>5 DEF Running
  <2>3. \A i \in 1 .. Len(live') : live'[i] \in 1 .. Len(calls')
    BY <1>2, <2>1, <2>2
  <2>4. RunningInOrder'
    BY <1>5, InOrderKept
  <2>5. live' \in Seq(Nat)
    BY <1>5 DEF Running
  <2> QED
    BY <1>4, <1>5, <2>3, <2>4, <2>5
<1>6. ASSUME NEW c \in Contract, HostCallAction(c)
      PROVE  HostTypeOK'
  <2>1. emitted' \in Nat /\ lost' \in BOOLEAN /\ silent' \in BOOLEAN /\ hostDone' \in BOOLEAN
    BY <1>2, <1>3, <1>6 DEF HostCallAction
  <2>2. /\ calls' \in Seq(HostCall) /\ Len(calls') = Len(calls) + 1
        /\ live' \in Seq(Nat) /\ Len(live') = Len(live) + 1
        /\ \A i \in 1 .. Len(live) : live'[i] = live[i]
        /\ live'[Len(live) + 1] = Len(calls) + 1
    BY <1>6, CallFacts
  <2>3. \A i \in 1 .. Len(live') : live'[i] \in 1 .. Len(calls')
    BY <1>2, <2>2
  <2>4. RunningInOrder'
    BY <1>6, InOrderCalled
  <2> QED
    BY <1>4, <2>1, <2>2, <2>3, <2>4
<1>7. CASE HostReturn
  <2>1. emitted' \in Nat /\ lost' \in BOOLEAN /\ silent' \in BOOLEAN /\ hostDone' \in BOOLEAN
    BY <1>2, <1>3, <1>7 DEF HostReturn
  <2>2. Len(live) - 1 \in 0 .. Len(live)
    BY <1>7, RunningCalls DEF HostReturn
  <2>3. Decided(Len(live) - 1)
    BY <1>7, ReturnDecides
  <2> QED
    BY <1>5, <1>7, <2>1, <2>2, <2>3, ReturnFacts
<1>8. ASSUME UNCHANGED <<calls, live, silent, hostDone>>,
             emitted' \in Nat, lost' \in BOOLEAN
      PROVE  HostTypeOK'
  <2>1. RunningInOrder'
    BY <1>8 DEF HostTypeOK, RunningInOrder
  <2> QED
    BY <1>1, <1>2, <1>8, <2>1 DEF HostTypeOK
<1>9. CASE HostNote
  BY <1>3, <1>8, <1>9 DEF HostNote
<1>10. ASSUME NEW e \in Error, HostRaise(e)
       PROVE  HostTypeOK'
  <2>1. emitted' \in Nat /\ lost' \in BOOLEAN /\ silent' \in BOOLEAN /\ hostDone' \in BOOLEAN
    BY <1>2, <1>3, <1>10 DEF HostRaise
  <2>2. calls' \in Seq(HostCall) /\ Kept /\ live' = live
    BY <1>10, RaiseFacts
  <2>3. Running(Len(live))
    BY <2>2 DEF Running, HostTypeOK
  <2>4. Decided(Len(live))
    BY <1>10, RaiseDecides
  <2>5. Len(live) \in 0 .. Len(live)
    BY <1>2
  <2> QED
    BY <1>5, <2>1, <2>2, <2>3, <2>4, <2>5
<1>11. ASSUME NEW e \in Error, HostCatch(e)
       PROVE  HostTypeOK'
  <2>1. emitted' \in Nat /\ lost' \in BOOLEAN /\ silent' \in BOOLEAN /\ hostDone' \in BOOLEAN
    BY <1>2, <1>3, <1>11 DEF HostCatch
  <2>2. Len(live) - 1 \in 0 .. Len(live)
    BY <1>2, <1>11 DEF HostCatch
  <2>3. Decided(Len(live) - 1)
    BY <1>11, CatchDecides
  <2> QED
    BY <1>5, <1>11, <2>1, <2>2, <2>3, CatchFacts
<1>12. ASSUME NEW e \in Error, HostAbort(e)
       PROVE  HostTypeOK'
  <2>1. emitted' \in Nat /\ lost' \in BOOLEAN /\ silent' \in BOOLEAN /\ hostDone' \in BOOLEAN
    BY <1>2, <1>3, <1>12 DEF HostAbort
  <2>2. 0 \in 0 .. Len(live)
    BY <1>2
  <2>3. Decided(0)
    BY <1>12, AbortDecides
  <2> QED
    BY <1>5, <1>12, <2>1, <2>2, <2>3, AbortFacts
<1>13. CASE HostedFinish
  BY <1>2, <1>8, <1>13 DEF HostedFinish, hostVars
<1>14. CASE UNCHANGED vars
  BY <1>2, <1>8, <1>14 DEF vars
<1> QED
  BY <1>6, <1>7, <1>9, <1>10, <1>11, <1>12, <1>13, <1>14 DEF HostedNext, HostNext

\* The composed specification keeps every type, and the running calls are the
\* calls without a fate, in the order they were made.
THEOREM HostedTypeCorrect == HostedSpec => []HostTypeOK
<1> QED
  BY HostInitTyped, HostNextTyped, PTL DEF HostedSpec

\* Whatever the host does, the call tree that reads it takes only steps of the
\* call tree of any stream: what is proved of the latter holds of the former.
THEOREM HostedTreeIsATree == HostedSpec => Spec
<1>1. HostedInit => Init
  BY DEF HostedInit
<1>2. HostTypeOK /\ [HostedNext]_vars => [Next]_treeVars
  BY HostedIsTree
<1> QED
  BY <1>1, <1>2, HostedTypeCorrect, PTL DEF HostedSpec, Spec

\* So the tree that reads a host is a tree, lists every fn_call once, blames
\* nobody for another call's error and never revises a frame that has ended.
THEOREM HostedTreeHolds ==
    HostedSpec => [](Preorder /\ FramesAreTheCalls /\ ErrorsAreAttributed) /\ EndedFramesAreFinal
<1> QED
  BY HostedTreeIsATree, TreeIsATree, FramesHold, ErrorsHold, EndedIsFinal, PTL

-----------------------------------------------------------------------------
(***************************************************************************)
(* The frames mirror the calls.                                            *)
(***************************************************************************)

FramesMirror ==
    /\ Len(frames) = Len(calls)
    /\ \A k \in 1 .. Len(calls) : /\ frames[k].contract = calls[k].contract
                                  /\ frames[k].depth = calls[k].depth

\* The running calls are the outermost open frames; above them there may be
\* frames of calls that failed without a word.  No contract has two.
Aligned ==
    /\ Len(live) <= Len(stack)
    /\ \A i \in 1 .. Len(live) : stack[i].frame = live[i]
    /\ \A i, j \in 1 .. Len(stack) : OpenContract(i) = OpenContract(j) => i = j

MirrorInv ==
    /\ ~lost => FramesMirror
    /\ ~lost /\ ~finished => Aligned
    /\ hostDone => live = << >>
    /\ finished => hostDone

\* Where unwind_to stops: at the frame of a running call, or above all of them.
LEMMA StopsAtTheCall ==
    ASSUME HostTypeOK, FramesMirror, Aligned, NEW n \in 1 .. Len(live)
    PROVE  /\ OnStack(calls[live[n]].contract)
           /\ KeptBy(calls[live[n]].contract) = n
<1> DEFINE c == calls[live[n]].contract
<1>1. /\ Len(stack) \in Nat /\ DOMAIN stack = 1 .. Len(stack)
      /\ Len(live) \in Nat /\ live[n] \in 1 .. Len(calls)
  BY RunningCalls DEF HostTypeOK, TypeOK
<1>2. n \in 1 .. Len(stack) /\ stack[n].frame = live[n]
  BY <1>1 DEF Aligned
<1>3. OpenContract(n) = c
  BY <1>1, <1>2 DEF OpenContract, FramesMirror
<1> HIDE DEF c
<1>4. OnStack(c)
  BY <1>1, <1>2, <1>3 DEF OnStack
<1>5. KeptBy(c) \in 1 .. Len(stack) /\ OpenContract(KeptBy(c)) = c
  BY <1>4, KeptByFacts DEF HostTypeOK
<1>6. KeptBy(c) = n
  BY <1>2, <1>3, <1>5 DEF Aligned
<1> QED
  BY <1>4, <1>6 DEF c

LEMMA StopsAboveTheCalls ==
    ASSUME HostTypeOK, FramesMirror, Aligned, NEW c,
           \A i \in 1 .. Len(live) : calls[live[i]].contract # c
    PROVE  Len(live) <= KeptBy(c)
<1>1. /\ Len(stack) \in Nat /\ DOMAIN stack = 1 .. Len(stack) /\ Len(live) \in Nat
      /\ \A i \in 1 .. Len(live) : live[i] \in 1 .. Len(calls)
      /\ KeptBy(c) \in 0 .. Len(stack)
  BY RunningCalls, KeptByFacts DEF HostTypeOK, TypeOK
<1>2. CASE OnStack(c)
  <2>1. KeptBy(c) \in 1 .. Len(stack) /\ OpenContract(KeptBy(c)) = c
    BY <1>2, KeptByFacts DEF HostTypeOK
  <2>2. ASSUME KeptBy(c) \in 1 .. Len(live)
        PROVE  FALSE
    <3>1. stack[KeptBy(c)].frame = live[KeptBy(c)]
      BY <2>2 DEF Aligned
    <3>2. OpenContract(KeptBy(c)) = calls[live[KeptBy(c)]].contract
      BY <1>1, <2>2, <3>1 DEF OpenContract, FramesMirror
    <3> QED
      BY <2>1, <2>2, <3>2
  <2> QED
    BY <1>1, <2>1, <2>2
<1>3. CASE ~OnStack(c)
  BY <1>1, <1>3 DEF KeptBy, Aligned
<1> QED
  BY <1>2, <1>3

\* An event that is no fn_call closes frames and leaves the others as they are.
LEMMA Closing ==
    ASSUME TypeOK, NEW e \in DiagEvent, WellFormed(e), Consume(e), e.kind # "fn_call",
           NEW n \in Nat, n <= Len(stack),
           e.kind = "fn_return" => n < Len(stack),
           e.kind # "fn_return" /\ e.contract # None => n <= KeptBy(e.contract)
    PROVE  /\ Len(frames') = Len(frames)
           /\ \A k \in 1 .. Len(frames) : /\ frames'[k].contract = frames[k].contract
                                          /\ frames'[k].depth = frames[k].depth
           /\ n <= Len(stack') /\ Len(stack') <= Len(stack)
           /\ \A i \in 1 .. Len(stack') : stack'[i].frame = stack[i].frame
<1>1. Len(stack) \in Nat /\ Len(frames) \in Nat
  BY DEF TypeOK
<1>2. CASE ConsumeFnReturn(e)
  <2>1. stack # << >>
    BY <1>1, <1>2, EmptySeq DEF ConsumeFnReturn
  <2>2. /\ Len(frames') = Len(frames)
        /\ \A k \in 1 .. Len(frames) : /\ frames'[k].contract = frames[k].contract
                                       /\ frames'[k].depth = frames[k].depth
        /\ Len(stack) \in Nat \ {0} /\ Len(stack') = Len(stack) - 1
        /\ \A i \in 1 .. Len(stack) - 1 : stack'[i] = stack[i]
    BY <1>2, <2>1, FnReturnFacts
  <2>3. n < Len(stack)
    BY <1>2 DEF ConsumeFnReturn
  <2>4. n <= Len(stack') /\ Len(stack') <= Len(stack)
    BY <2>2, <2>3
  <2>5. \A i \in 1 .. Len(stack') : stack'[i].frame = stack[i].frame
    BY <2>2
  <2> QED
    BY <2>2, <2>4, <2>5
<1>3. CASE ConsumeEmitted(e)
  <2>1. PICK kept \in 0 .. Len(stack) :
           /\ kept = KeptBy(e.contract)
           /\ KeepsFrames(kept)
           /\ Len(stack') = kept
           /\ \A i \in 1 .. kept : stack'[i].frame = stack[i].frame
    BY <1>3, EmittedFacts
  <2>2. n <= kept
    BY <1>3, <2>1 DEF ConsumeEmitted
  <2>3. Len(frames') = Len(frames)
    BY <1>3, EmittedFacts
  <2> QED
    BY <1>1, <2>1, <2>2, <2>3 DEF KeepsFrames
<1>4. CASE ConsumeIgnored(e)
  BY <1>1, <1>4 DEF ConsumeIgnored
<1> QED
  BY <1>2, <1>3, <1>4 DEF Consume, ConsumeFnCall

\* A step that closes frames and ends calls keeps the mirror.
LEMMA MirrorKept ==
    ASSUME HostTypeOK, FramesMirror, Aligned, HostTypeOK', Kept,
           NEW n \in 0 .. Len(live), Running(n),
           Len(frames') = Len(frames),
           \A k \in 1 .. Len(frames) : /\ frames'[k].contract = frames[k].contract
                                      /\ frames'[k].depth = frames[k].depth,
           n <= Len(stack'), Len(stack') <= Len(stack),
           \A i \in 1 .. Len(stack') : stack'[i].frame = stack[i].frame
    PROVE  FramesMirror' /\ Aligned'
<1>1. /\ Len(stack) \in Nat /\ Len(stack') \in Nat /\ Len(live) \in Nat
      /\ \A i \in 1 .. Len(stack) : stack[i].frame \in 1 .. Len(frames)
  BY RunningCalls DEF HostTypeOK, TypeOK
<1>2. Len(live') = n /\ \A i \in 1 .. n : live'[i] = live[i]
  BY DEF Running
<1>3. FramesMirror'
  BY DEF FramesMirror, Kept
<1>4. \A i \in 1 .. Len(live') : stack'[i].frame = live'[i]
  BY <1>1, <1>2 DEF Aligned
<1>5. \A i \in 1 .. Len(stack') : i \in 1 .. Len(stack)
  BY <1>1
<1>6. ASSUME NEW i \in 1 .. Len(stack')
      PROVE  OpenContract(i)' = OpenContract(i)
  <2>1. stack'[i].frame = stack[i].frame /\ stack[i].frame \in 1 .. Len(frames)
    BY <1>1, <1>5, <1>6
  <2> QED
    BY <2>1 DEF OpenContract
<1>7. \A i, j \in 1 .. Len(stack') : OpenContract(i)' = OpenContract(j)' => i = j
  BY <1>5, <1>6 DEF Aligned
<1> QED
  BY <1>2, <1>3, <1>4, <1>7 DEF Aligned

\* A new frame is opened right above the frame of the call that makes it.
LEMMA OpensAtTheCaller ==
    ASSUME HostTypeOK, FramesMirror, Aligned, NEW c \in Contract,
           Emit(FnCall(IF live = << >> THEN None ELSE TopContract, c))
    PROVE  /\ Len(live) <= Len(stack) /\ Len(frames) = Len(calls)
           /\ Len(stack') = Len(live) + 1
           /\ \A i \in 1 .. Len(live) : stack'[i] = stack[i]
           /\ stack'[Len(live) + 1].frame = Len(frames) + 1
           /\ stack'[Len(live) + 1].last = NoRaise
           /\ KeepsFrames(Len(live))
           /\ Len(frames') = Len(frames) + 1
           /\ \A k \in 1 .. Len(frames) : /\ frames'[k].contract = frames[k].contract
                                          /\ frames'[k].depth = frames[k].depth
           /\ frames'[Len(frames) + 1].contract = c
           /\ frames'[Len(frames) + 1].depth = Len(live)
<1> DEFINE caller == IF live = << >> THEN None ELSE TopContract
           e == FnCall(caller, c)
<1>1. /\ Len(stack) \in Nat /\ Len(live) \in Nat /\ Len(frames) \in Nat
      /\ DOMAIN live = 1 .. Len(live)
      /\ \A i \in 1 .. Len(live) : live[i] \in 1 .. Len(calls)
      /\ \A i \in 1 .. Len(stack) : stack[i].frame \in 1 .. Len(frames)
      /\ live # << >> => TopContract \in Contract /\ Len(live) >= 1
      /\ caller \in Contract \cup {None}
  <2>1. live # << >> => TopContract \in Contract /\ Len(live) >= 1
    BY RunningCalls
  <2>2. caller \in Contract \cup {None}
    BY <2>1
  <2> HIDE DEF caller
  <2> QED
    BY <2>1, <2>2, RunningCalls DEF HostTypeOK, TypeOK
<1>2. /\ e.kind = "fn_call" /\ e.contract = caller /\ e.callee = c
      /\ e \in DiagEvent /\ WellFormed(e)
  BY <1>1, NoneIsNothing DEF FnCall, DiagEvent, EventKind, WellFormed
<1>3. (IF e.contract = None THEN 0 ELSE KeptBy(e.contract)) = Len(live)
  <2>1. CASE live = << >>
    <3>1. Len(live) = 0
      BY <2>1, EmptySeq
    <3> QED
      BY <1>2, <2>1, <3>1
  <2>2. CASE live # << >>
    <3>1. KeptBy(TopContract) = Len(live)
      BY <1>1, <2>2, StopsAtTheCall DEF TopContract, Top
    <3> QED
      BY <1>1, <1>2, <2>2, <3>1, NoneIsNothing
  <2> QED
    BY <2>1, <2>2
<1> HIDE DEF e, caller
<1>4. ConsumeFnCall(e)
  BY <1>2 DEF Emit, Consume, ConsumeFnReturn, ConsumeEmitted, ConsumeIgnored, e, caller
<1>5. PICK kept \in 0 .. Len(stack) :
         /\ kept = IF e.contract = None THEN 0 ELSE KeptBy(e.contract)
         /\ KeepsFrames(kept)
         /\ Len(frames') = Len(frames) + 1
         /\ frames'[Len(frames) + 1] = NewFrame(e, kept)
         /\ Len(stack') = kept + 1
         /\ \A i \in 1 .. kept : stack'[i] = stack[i]
         /\ stack'[kept + 1] = [frame |-> Len(frames) + 1, last |-> NoRaise]
  BY <1>2, <1>4, FnCallFacts DEF HostTypeOK
<1>6. kept = Len(live)
  BY <1>3, <1>5
<1>7. NewFrame(e, kept).contract = c /\ NewFrame(e, kept).depth = Len(live)
  BY <1>2, <1>6 DEF NewFrame
<1>8. /\ [frame |-> Len(frames) + 1, last |-> NoRaise].frame = Len(frames) + 1
      /\ [frame |-> Len(frames) + 1, last |-> NoRaise].last = NoRaise
  OBVIOUS
<1>9. \A k \in 1 .. Len(frames) : /\ frames'[k].contract = frames[k].contract
                                 /\ frames'[k].depth = frames[k].depth
  BY <1>5 DEF KeepsFrames
<1> QED
  BY <1>5, <1>6, <1>7, <1>8, <1>9 DEF FramesMirror, Aligned

\* A new call is opened above the call that makes it.
LEMMA MirrorOpened ==
    ASSUME HostTypeOK, FramesMirror, Aligned, HostTypeOK',
           NEW c \in Contract, HostCallAction(c),
           Emit(FnCall(IF live = << >> THEN None ELSE TopContract, c))
    PROVE  FramesMirror' /\ Aligned'
<1>1. /\ Len(stack) \in Nat /\ Len(live) \in Nat /\ Len(frames) \in Nat
      /\ DOMAIN live = 1 .. Len(live)
      /\ \A i \in 1 .. Len(live) : live[i] \in 1 .. Len(calls)
      /\ \A i \in 1 .. Len(stack) : stack[i].frame \in 1 .. Len(frames)
  <2>1. TypeOK
    BY DEF HostTypeOK
  <2>2. /\ Len(stack) \in Nat /\ Len(frames) \in Nat
        /\ \A i \in 1 .. Len(stack) : stack[i].frame \in 1 .. Len(frames)
    BY <2>1 DEF TypeOK
  <2> QED
    BY <2>2, RunningCalls
<1>2. /\ Len(live) <= Len(stack) /\ Len(frames) = Len(calls)
      /\ Len(stack') = Len(live) + 1
      /\ \A i \in 1 .. Len(live) : stack'[i] = stack[i]
      /\ stack'[Len(live) + 1].frame = Len(frames) + 1
      /\ stack'[Len(live) + 1].last = NoRaise
      /\ KeepsFrames(Len(live))
      /\ Len(frames') = Len(frames) + 1
      /\ \A k \in 1 .. Len(frames) : /\ frames'[k].contract = frames[k].contract
                                     /\ frames'[k].depth = frames[k].depth
      /\ frames'[Len(frames) + 1].contract = c
      /\ frames'[Len(frames) + 1].depth = Len(live)
  BY OpensAtTheCaller
<1>3. /\ Len(calls') = Len(calls) + 1
      /\ \A k \in 1 .. Len(calls) : calls'[k] = calls[k]
      /\ calls'[Len(calls) + 1].contract = c /\ calls'[Len(calls) + 1].depth = Len(live)
      /\ Len(live') = Len(live) + 1
      /\ \A i \in 1 .. Len(live) : live'[i] = live[i]
      /\ live'[Len(live) + 1] = Len(calls) + 1
  <2> DEFINE new == [contract |-> c, depth |-> Len(live), raised |-> None, fate |-> "running"]
  <2>1. new.contract = c /\ new.depth = Len(live)
    OBVIOUS
  <2> HIDE DEF new
  <2>2. calls'[Len(calls) + 1] = new
    BY CallFacts DEF new
  <2> QED
    BY <2>1, <2>2, CallFacts
<1>4. FramesMirror'
  <2> SUFFICES ASSUME NEW k \in 1 .. Len(calls')
               PROVE  /\ frames'[k].contract = calls'[k].contract
                      /\ frames'[k].depth = calls'[k].depth
    BY <1>2, <1>3 DEF FramesMirror
  <2>1. CASE k = Len(calls) + 1
    BY <1>2, <1>3, <2>1
  <2>2. CASE k \in 1 .. Len(calls)
    BY <1>2, <1>3, <2>2 DEF FramesMirror
  <2> QED
    BY <1>1, <1>2, <1>3, <2>1, <2>2
<1>5. \A i \in 1 .. Len(live') : stack'[i].frame = live'[i]
  <2> TAKE i \in 1 .. Len(live')
  <2>1. CASE i = Len(live) + 1
    BY <1>2, <1>3, <2>1
  <2>2. CASE i \in 1 .. Len(live)
    BY <1>2, <1>3, <2>2 DEF Aligned
  <2> QED
    BY <1>1, <1>3, <2>1, <2>2
<1>6. ASSUME NEW i \in 1 .. Len(live)
       PROVE  /\ OpenContract(i)' = OpenContract(i) /\ OpenContract(i)' # c
              /\ i \in 1 .. Len(stack)
  <2>1. i \in 1 .. Len(stack) /\ stack'[i] = stack[i]
    BY <1>1, <1>2, <1>6
  <2>2. stack[i].frame = live[i] /\ live[i] \in 1 .. Len(calls) /\ calls[live[i]].contract # c
    BY <1>1, <1>6 DEF Aligned, HostCallAction
  <2>3. frames'[live[i]].contract = frames[live[i]].contract
    BY <1>2, <2>2
  <2> QED
    BY <2>1, <2>2, <2>3 DEF OpenContract, FramesMirror
<1>7. ASSUME NEW i, i = Len(live) + 1
       PROVE  OpenContract(i)' = c
  <2>1. stack'[i].frame = Len(frames) + 1
    BY <1>2, <1>7
  <2> QED
    BY <1>2, <2>1 DEF OpenContract
<1>8. \A i, j \in 1 .. Len(stack') : OpenContract(i)' = OpenContract(j)' => i = j
  <2> TAKE i, j \in 1 .. Len(stack')
  <2>1. (i \in 1 .. Len(live) \/ i = Len(live) + 1) /\ (j \in 1 .. Len(live) \/ j = Len(live) + 1)
    BY <1>1, <1>2
  <2> QED
    BY <1>6, <1>7, <2>1 DEF Aligned
<1> QED
  BY <1>1, <1>2, <1>3, <1>4, <1>5, <1>8 DEF Aligned

LEMMA MirrorInit == HostedInit => MirrorInv
<1> SUFFICES ASSUME HostedInit PROVE MirrorInv
  OBVIOUS
<1>1. /\ frames = << >> /\ stack = << >> /\ finished = FALSE
      /\ calls = << >> /\ live = << >> /\ hostDone = FALSE
  BY DEF HostedInit, Init, HostInit
<1>2. Len(frames) = 0 /\ Len(stack) = 0 /\ Len(calls) = 0 /\ Len(live) = 0
  BY <1>1, EmptySeq
<1>3. FramesMirror /\ Aligned
  BY <1>2 DEF FramesMirror, Aligned
<1> QED
  BY <1>1, <1>3 DEF MirrorInv

\* The event of the running call, of its caller or of a stranger closes no
\* frame of a call that goes on running.
LEMMA MirrorEmitted ==
    ASSUME HostTypeOK, HostTypeOK', FramesMirror, Aligned, Kept,
           NEW n \in 0 .. Len(live), Running(n),
           NEW e \in DiagEvent, WellFormed(e), Emit(e), e.kind # "fn_call",
           e.kind = "fn_return" => n < Len(live),
           e.kind # "fn_return" /\ e.contract # None => n <= KeptBy(e.contract)
    PROVE  FramesMirror' /\ Aligned'
<1>1. Len(stack) \in Nat /\ Len(live) \in Nat /\ Len(live) <= Len(stack)
  BY RunningCalls DEF HostTypeOK, TypeOK, Aligned
<1>2. n \in Nat /\ n <= Len(stack) /\ (e.kind = "fn_return" => n < Len(stack))
  BY <1>1
<1>3. Consume(e) /\ TypeOK
  BY DEF Emit, HostTypeOK
<1> QED
  BY <1>2, <1>3, Closing, MirrorKept

LEMMA MirrorNext ==
    ASSUME HostTypeOK, MirrorInv, [HostedNext]_vars
    PROVE  MirrorInv'
<1>0. /\ HostTypeOK'
      /\ Len(live) \in Nat /\ DOMAIN live = 1 .. Len(live)
      /\ \A i \in 1 .. Len(live) : calls[live[i]].contract \in Contract
      /\ live # << >> => Len(live) >= 1 /\ TopContract \in Contract
  BY HostNextTyped, RunningCalls DEF HostCall
\* A step of the host: the tree is still reading, and nothing is owed once an
\* event is lost.
<1>1. ASSUME ~hostDone, UNCHANGED finished, hostDone' => live' = << >>,
             ~lost /\ ~lost' /\ FramesMirror /\ Aligned => FramesMirror' /\ Aligned',
             lost => lost'
      PROVE  MirrorInv'
  BY <1>1 DEF MirrorInv
<1>2. ASSUME NEW e, Emit(e) \/ Drop
      PROVE  UNCHANGED finished /\ (lost => lost') /\ (~lost' => Emit(e))
  BY <1>2 DEF Emit, Drop, Consume, treeVars
<1>3. ASSUME NEW c \in Contract, HostCallAction(c)
      PROVE  MirrorInv'
  <2> DEFINE e == FnCall(IF live = << >> THEN None ELSE TopContract, c)
  <2>1. Emit(e) \/ Drop
    BY <1>3 DEF HostCallAction
  <2>2. ~hostDone /\ hostDone' = hostDone
    BY <1>3 DEF HostCallAction
  <2>3. Emit(e) /\ FramesMirror /\ Aligned => FramesMirror' /\ Aligned'
    BY <1>0, <1>3, MirrorOpened
  <2> HIDE DEF e
  <2> QED
    BY <1>1, <1>2, <2>1, <2>2, <2>3
<1>4. CASE HostReturn
  <2> DEFINE e == FnReturn(TopContract)
             n == Len(live) - 1
  <2>1. ~hostDone /\ live # << >> /\ (Emit(e) \/ Drop) /\ hostDone' = (Len(live) = 1)
    BY <1>4 DEF HostReturn
  <2>2. Kept /\ Running(n)
    BY <1>4, ReturnFacts
  <2>3. hostDone' => live' = << >>
    <3>1. hostDone' => Len(live) = 1
      BY <2>1, Zenon
    <3>2. live' \in Seq(Nat) /\ Len(live') = Len(live) - 1
      BY <2>2 DEF Running
    <3>3. Len(live) = 1 => Len(live') = 0
      BY <3>2
    <3>4. Len(live') = 0 => live' = << >>
      BY <3>2, EmptySeq
    <3> QED
      BY <3>1, <3>3, <3>4
  <2>4. n \in 0 .. Len(live) /\ n < Len(live)
    BY <1>0, <2>1
  <2>5. e.kind = "fn_return" /\ e \in DiagEvent /\ WellFormed(e)
    BY <1>0, <2>1, NoneIsNothing DEF FnReturn, DiagEvent, EventKind, WellFormed
  <2> HIDE DEF e, n
  <2>6. Emit(e) /\ FramesMirror /\ Aligned => FramesMirror' /\ Aligned'
    BY <1>0, <2>2, <2>4, <2>5, MirrorEmitted
  <2> QED
    BY <1>1, <1>2, <2>1, <2>3, <2>6
<1>5. CASE HostNote
  <2>1. PICK c \in Contract \cup {None}, r \in Error :
           \/ /\ \/ c = None
                 \/ live # << >> /\ c = TopContract
                 \/ \A i \in DOMAIN live : calls[live[i]].contract # c
              /\ Emit(OtherEvent(c)) \/ Drop
           \/ /\ \A i \in DOMAIN live : calls[live[i]].contract # c
              /\ Emit(ErrorEvent(c, r)) \/ Drop
    BY <1>5 DEF HostNote
  <2>2. PICK e \in DiagEvent :
           /\ WellFormed(e) /\ (Emit(e) \/ Drop)
           /\ e.kind \in {"other", "error"} /\ e.contract = c
    <3>1. /\ OtherEvent(c) \in DiagEvent /\ WellFormed(OtherEvent(c))
          /\ OtherEvent(c).kind = "other" /\ OtherEvent(c).contract = c
      BY NoneIsNothing DEF OtherEvent, DiagEvent, EventKind, WellFormed
    <3>2. /\ ErrorEvent(c, r) \in DiagEvent /\ WellFormed(ErrorEvent(c, r))
          /\ ErrorEvent(c, r).kind = "error" /\ ErrorEvent(c, r).contract = c
      BY NoneIsNothing DEF ErrorEvent, DiagEvent, EventKind, WellFormed
    <3> QED
      BY <2>1, <3>1, <3>2
  <2>3. ~hostDone /\ UNCHANGED <<calls, live, silent, hostDone>>
    BY <1>5 DEF HostNote
  <2>4. FramesMirror /\ Aligned /\ c # None => Len(live) <= KeptBy(c)
    <3> SUFFICES ASSUME FramesMirror, Aligned, c # None PROVE Len(live) <= KeptBy(c)
      OBVIOUS
    <3>1. CASE live # << >> /\ c = TopContract
      <4>1. KeptBy(c) = Len(live)
        BY <1>0, <3>1, StopsAtTheCall DEF TopContract, Top
      <4> QED
        BY <1>0, <4>1
    <3>2. CASE \A i \in 1 .. Len(live) : calls[live[i]].contract # c
      BY <3>2, StopsAboveTheCalls
    <3> QED
      BY <1>0, <2>1, <3>1, <3>2
  <2>5. Kept /\ Running(Len(live))
    BY <1>0, <2>3 DEF Kept, Running, HostTypeOK
  <2>6. Len(live) \in 0 .. Len(live)
    BY <1>0
  <2>7. Emit(e) /\ FramesMirror /\ Aligned => FramesMirror' /\ Aligned'
    BY <1>0, <2>2, <2>4, <2>5, <2>6, MirrorEmitted
  <2> QED
    BY <1>1, <1>2, <2>2, <2>3, <2>7
<1>6. ASSUME NEW r \in Error, HostRaise(r)
      PROVE  MirrorInv'
  <2> DEFINE e == ErrorEvent(TopContract, r)
  <2>1. ~hostDone /\ live # << >> /\ (Emit(e) \/ Drop) /\ hostDone' = hostDone
    BY <1>6 DEF HostRaise
  <2>2. Kept /\ live' = live
    BY <1>6, RaiseFacts
  <2>3. Running(Len(live)) /\ Len(live) \in 0 .. Len(live)
    BY <1>0, <2>2 DEF Running, HostTypeOK
  <2>4. e.kind = "error" /\ e.contract = TopContract /\ e \in DiagEvent /\ WellFormed(e)
    BY <1>0, <2>1, EventsAreWellFormed DEF ErrorEvent
  <2> HIDE DEF e
  <2>5. FramesMirror /\ Aligned => KeptBy(TopContract) = Len(live)
    BY <1>0, <2>1, StopsAtTheCall DEF TopContract, Top
  <2>6. Emit(e) /\ FramesMirror /\ Aligned => FramesMirror' /\ Aligned'
    BY <1>0, <2>2, <2>3, <2>4, <2>5, MirrorEmitted
  <2> QED
    BY <1>1, <1>2, <2>1, <2>6
<1>7. ASSUME NEW r \in Error, HostCatch(r)
      PROVE  MirrorInv'
  <2> DEFINE n == Len(live) - 1
             caller == calls[live[n]].contract
             e == ErrorEvent(caller, r)
  <2>1. ~hostDone /\ hostDone' = hostDone
        /\ (Emit(e) \/ Drop \/ UNCHANGED <<treeVars, lost>>)
    BY <1>7 DEF HostCatch
  <2>2. Kept /\ Running(n) /\ Len(live) > 1
    BY <1>7, CatchFacts
  <2>3. n \in 1 .. Len(live) /\ n \in 0 .. Len(live) /\ caller \in Contract
    BY <1>0, <2>2
  <2>4. e.kind = "error" /\ e.contract = caller /\ e \in DiagEvent /\ WellFormed(e)
    BY <2>3, EventsAreWellFormed DEF ErrorEvent
  <2>5. FramesMirror /\ Aligned => KeptBy(caller) = n
    BY <2>3, StopsAtTheCall
  <2> HIDE DEF e, caller, n
  <2>6. Emit(e) /\ FramesMirror /\ Aligned => FramesMirror' /\ Aligned'
    BY <1>0, <2>2, <2>3, <2>4, <2>5, MirrorEmitted
  <2>7. ASSUME UNCHANGED treeVars, FramesMirror, Aligned
        PROVE  FramesMirror' /\ Aligned'
    <3>1. /\ UNCHANGED <<frames, stack>>
          /\ Len(stack) \in Nat /\ n <= Len(stack)
      BY <1>0, <2>3, <2>7 DEF treeVars, HostTypeOK, TypeOK, Aligned
    <3> QED
      BY <1>0, <2>2, <2>3, <2>7, <3>1, MirrorKept
  <2>8. CASE Emit(e) \/ Drop
    BY <1>1, <1>2, <2>1, <2>6, <2>8
  <2>9. CASE UNCHANGED <<treeVars, lost>>
    BY <1>1, <2>1, <2>7, <2>9 DEF treeVars
  <2> QED
    BY <2>1, <2>8, <2>9
<1>8. ASSUME NEW r \in Error, HostAbort(r)
      PROVE  MirrorInv'
  <2> DEFINE e == HostFnFailed(r)
  <2>1. ~hostDone /\ (Emit(e) \/ Drop)
    BY <1>8 DEF HostAbort
  <2>2. Kept /\ live' = << >> /\ Running(0) /\ 0 \in 0 .. Len(live)
    BY <1>0, <1>8, AbortFacts
  <2>3. e.kind = "host_fn_failed" /\ e.contract = None /\ e \in DiagEvent /\ WellFormed(e)
    BY NoneIsNothing DEF HostFnFailed, DiagEvent, EventKind, WellFormed
  <2> HIDE DEF e
  <2>4. Emit(e) /\ FramesMirror /\ Aligned => FramesMirror' /\ Aligned'
    BY <1>0, <2>2, <2>3, MirrorEmitted
  <2> QED
    BY <1>1, <1>2, <2>1, <2>2, <2>4
<1>9. CASE HostedFinish
  <2>1. UNCHANGED <<calls, live, lost, hostDone>> /\ hostDone /\ finished'
    BY <1>9 DEF HostedFinish, hostVars, Finish
  <2>2. /\ Len(frames') = Len(frames)
        /\ \A k \in 1 .. Len(frames) : /\ frames'[k].contract = frames[k].contract
                                       /\ frames'[k].depth = frames[k].depth
    BY <1>9, FinishFacts DEF HostedFinish, HostTypeOK
  <2>3. FramesMirror => FramesMirror'
    BY <2>1, <2>2 DEF FramesMirror
  <2> QED
    BY <2>1, <2>3 DEF MirrorInv
<1>10. CASE UNCHANGED vars
  BY <1>10 DEF vars, MirrorInv, FramesMirror, Aligned, OpenContract
<1> QED
  BY <1>3, <1>4, <1>5, <1>6, <1>7, <1>8, <1>9, <1>10 DEF HostedNext, HostNext

\* As long as no event is lost, the frames are the calls the host made, in the
\* same order and at the same depth, however many failures were caught silently.
THEOREM CallsMirrored == HostedSpec => []CallsAreMirrored
<1>1. HostTypeOK /\ MirrorInv => CallsAreMirrored
  BY RunningCalls DEF MirrorInv, FramesMirror, CallsAreMirrored
<1> QED
  BY <1>1, MirrorInit, MirrorNext, HostedTypeCorrect, PTL DEF HostedSpec

-----------------------------------------------------------------------------
(***************************************************************************)
(* Outcomes are true as long as everything is heard: the open frames are   *)
(* then the running calls, each with the error its call raised last, and a *)
(* frame that closed tells how its call ended.                             *)
(***************************************************************************)

Pending ==
    \A i \in 1 .. Len(stack) :
        /\ stack[i].last.error = calls[stack[i].frame].raised
        /\ hostDone => calls[stack[i].frame].fate = "failed"

Told(k) ==
    \/ calls[k].fate = "returned" /\ frames[k].outcome = Returned
    \/ /\ calls[k].fate = "failed"
       /\ \/ /\ calls[k].raised # None
             /\ frames[k].outcome.tag = "Failed"
             /\ frames[k].outcome.error = calls[k].raised
          \/ calls[k].raised = None /\ frames[k].outcome = Unknown

ClosedAreTold ==
    \A k \in 1 .. Len(calls) : (\A i \in 1 .. Len(stack) : stack[i].frame # k) => Told(k)

TruthInv ==
    /\ Overheard /\ ~finished =>
         /\ ~hostDone => Len(stack) = Len(live)
         /\ Pending
         /\ ClosedAreTold
    /\ OutcomesAreTrue

\* An error that was raised is told from none.
LEMMA RaiseIsAnError ==
    ASSUME NEW last \in Raise
    PROVE  /\ last.error = None <=> last = NoRaise
           /\ last.error = None => EndOutcome(last) = Unknown
           /\ last.error # None => EndOutcome(last).tag = "Failed"
                                  /\ EndOutcome(last).error = last.error
BY NoneIsNothing DEF Raise, NoRaise, EndOutcome, Failed

\* What holds while the host runs and everything is heard.
LEMMA Hearing ==
    ASSUME HostTypeOK, MirrorInv, TruthInv, ~hostDone, Overheard
    PROVE  /\ ~finished /\ FramesMirror /\ Aligned /\ Pending /\ ClosedAreTold
           /\ Len(stack) \in Nat /\ Len(stack) = Len(live) /\ Len(frames) = Len(calls)
           /\ \A i \in 1 .. Len(stack) :
                /\ stack[i] \in Open
                /\ stack[i].frame = live[i] /\ live[i] \in 1 .. Len(calls)
           /\ \A i, j \in 1 .. Len(stack) : live[i] = live[j] => i = j
<1>1. /\ ~finished /\ FramesMirror /\ Aligned /\ Pending /\ ClosedAreTold
      /\ Len(stack) = Len(live)
  BY DEF MirrorInv, TruthInv, Overheard
<1>2. /\ stack \in Seq(Open) /\ Len(stack) \in Nat
      /\ \A i \in 1 .. Len(live) : live[i] \in 1 .. Len(calls)
  BY RunningCalls DEF HostTypeOK, TypeOK
<1>3. \A i \in 1 .. Len(stack) : /\ stack[i] \in Open
                                 /\ stack[i].frame = live[i] /\ live[i] \in 1 .. Len(calls)
  BY <1>1, <1>2 DEF Aligned
<1>4. \A i, j \in 1 .. Len(stack) : live[i] = live[j] => i = j
  BY <1>1, <1>3 DEF Aligned, OpenContract
<1> QED
  BY <1>1, <1>2, <1>3, <1>4 DEF FramesMirror

\* An open frame that unwind_to closes gets the outcome of its last error.
LEMMA EndedAbove ==
    ASSUME TypeOK, NEW n \in 0 .. Len(stack), NEW i \in n + 1 .. Len(stack),
           \A j \in 1 .. Len(stack) : stack[j].frame = stack[i].frame => j = i
    PROVE  EndAbove(n)[stack[i].frame].outcome = EndOutcome(stack[i].last)
<1> DEFINE k == stack[i].frame
<1>1. /\ Len(stack) \in Nat /\ DOMAIN frames = 1 .. Len(frames)
      /\ \A j \in 1 .. Len(stack) : stack[j].frame \in 1 .. Len(frames)
      /\ \A l \in 1 .. Len(frames) : frames[l] \in CallFrame
  BY DEF TypeOK
<1>2. i \in 1 .. Len(stack) /\ k \in 1 .. Len(frames)
  BY <1>1
<1>3. \A j \in n + 1 .. Len(stack) : stack[j].frame = k => j = i
  BY <1>1
<1>4. (CHOOSE j \in n + 1 .. Len(stack) : stack[j].frame = k) = i
  BY <1>3
<1> HIDE DEF k
<1>5. EndAbove(n)[k] = [frames[k] EXCEPT !.outcome = EndOutcome(stack[i].last)]
  BY <1>1, <1>2, <1>4 DEF EndAbove, k
<1>6. frames[k] \in CallFrame
  BY <1>1, <1>2
<1> QED
  BY <1>5, <1>6 DEF CallFrame, k

LEMMA EndedAtLast ==
    ASSUME TypeOK, Finish, NEW i \in 1 .. Len(stack),
           \A j \in 1 .. Len(stack) : stack[j].frame = stack[i].frame => j = i
    PROVE  frames'[stack[i].frame].outcome =
               EndOutcome(IF stack[i].last = NoRaise THEN terminal ELSE stack[i].last)
<1> DEFINE k == stack[i].frame
<1>1. /\ DOMAIN stack = 1 .. Len(stack) /\ DOMAIN frames = 1 .. Len(frames)
      /\ k \in 1 .. Len(frames) /\ frames[k] \in CallFrame
  BY DEF TypeOK
<1>2. (CHOOSE j \in DOMAIN stack : stack[j].frame = k) = i
  BY <1>1
<1> HIDE DEF k
<1>3. frames'[k] = [frames[k] EXCEPT !.outcome =
                      EndOutcome(IF stack[i].last = NoRaise THEN terminal ELSE stack[i].last)]
  BY <1>1, <1>2 DEF Finish, k
<1> QED
  BY <1>1, <1>3 DEF CallFrame, k

\* A call that ended keeps its story as long as neither its frame nor the call
\* is touched.
LEMMA StaysTold ==
    ASSUME NEW k, Told(k), calls'[k] = calls[k], frames'[k] = frames[k]
    PROVE  Told(k)'
BY DEF Told

\* What a step of the host has to keep, once it emitted its event.
Heard == HostTypeOK /\ MirrorInv /\ TruthInv /\ Overheard /\ ~hostDone

LEMMA CallTold ==
    ASSUME Heard, NEW c \in Contract, HostCallAction(c),
           Emit(FnCall(IF live = << >> THEN None ELSE TopContract, c))
    PROVE  Len(stack') = Len(live') /\ Pending' /\ ClosedAreTold'
<1>1. /\ FramesMirror /\ Aligned /\ Pending /\ ClosedAreTold
      /\ Len(stack) \in Nat /\ Len(stack) = Len(live) /\ Len(frames) = Len(calls)
      /\ \A i \in 1 .. Len(stack) : stack[i].frame = live[i] /\ live[i] \in 1 .. Len(calls)
      /\ Len(calls) \in Nat
  BY Hearing, RunningCalls DEF Heard
<1>2. /\ Len(stack') = Len(live) + 1
      /\ \A i \in 1 .. Len(live) : stack'[i] = stack[i]
      /\ stack'[Len(live) + 1].frame = Len(frames) + 1
      /\ stack'[Len(live) + 1].last = NoRaise
      /\ KeepsFrames(Len(live))
  BY <1>1, OpensAtTheCaller DEF Heard
<1>3. /\ Len(calls') = Len(calls) + 1
      /\ \A k \in 1 .. Len(calls) : calls'[k] = calls[k]
      /\ calls'[Len(calls) + 1].raised = None
      /\ Len(live') = Len(live) + 1
  <2> DEFINE new == [contract |-> c, depth |-> Len(live), raised |-> None, fate |-> "running"]
  <2>1. new.raised = None
    OBVIOUS
  <2> HIDE DEF new
  <2>2. calls'[Len(calls) + 1] = new
    BY CallFacts DEF new, Heard
  <2> QED
    BY <2>1, <2>2, CallFacts DEF Heard
<1>4. hostDone' = hostDone
  BY DEF HostCallAction
<1>5. Pending'
  <2> SUFFICES ASSUME NEW i \in 1 .. Len(stack')
               PROVE  stack'[i].last.error = calls'[stack'[i].frame].raised
    BY <1>4 DEF Pending, Heard
  <2>1. CASE i = Len(live) + 1
    BY <1>1, <1>2, <1>3, <2>1 DEF NoRaise
  <2>2. CASE i \in 1 .. Len(live)
    <3>1. stack'[i] = stack[i] /\ stack[i].frame \in 1 .. Len(calls)
      BY <1>1, <1>2, <2>2
    <3>2. stack[i].last.error = calls[stack[i].frame].raised
      BY <1>1, <2>2 DEF Pending
    <3> QED
      BY <1>3, <3>1, <3>2
  <2> QED
    BY <1>1, <1>2, <2>1, <2>2
<1>6. ClosedAreTold'
  <2> SUFFICES ASSUME NEW k \in 1 .. Len(calls'),
                      \A i \in 1 .. Len(stack') : stack'[i].frame # k
               PROVE  Told(k)'
    BY DEF ClosedAreTold
  <2>1. k # Len(calls) + 1
    BY <1>1, <1>2
  <2>2. k \in 1 .. Len(calls) /\ calls'[k] = calls[k]
    BY <1>1, <1>3, <2>1
  <2>3. \A i \in 1 .. Len(stack) : stack[i].frame # k
    BY <1>1, <1>2
  <2>4. frames'[k] = frames[k]
    <3>1. k \in 1 .. Len(frames)
      BY <1>1, <2>2
    <3>2. \A i \in Len(live) + 1 .. Len(stack) : stack[i].frame # k
      BY <1>1, <2>3
    <3> QED
      BY <1>2, <3>1, <3>2 DEF KeepsFrames
  <2>5. Told(k)
    BY <1>1, <2>2, <2>3 DEF ClosedAreTold
  <2> QED
    BY <2>2, <2>4, <2>5, StaysTold
<1> QED
  BY <1>2, <1>3, <1>5, <1>6

\* The running call returns: the frame on top is its own.
LEMMA ReturnTold ==
    ASSUME Heard, HostReturn, Emit(FnReturn(TopContract))
    PROVE  Len(stack') = Len(live') /\ Pending' /\ ClosedAreTold'
<1> DEFINE n == Len(stack) - 1
<1>1. /\ FramesMirror /\ Aligned /\ Pending /\ ClosedAreTold
      /\ Len(stack) \in Nat /\ Len(stack) = Len(live) /\ Len(frames) = Len(calls)
      /\ \A i \in 1 .. Len(stack) : stack[i].frame = live[i] /\ live[i] \in 1 .. Len(calls)
      /\ \A i, j \in 1 .. Len(stack) : live[i] = live[j] => i = j
      /\ Len(calls) \in Nat /\ Len(live) >= 1 /\ TypeOK
      /\ \A k \in 1 .. Len(calls) : calls[k] \in HostCall
  BY Hearing, RunningCalls DEF Heard, HostReturn, HostTypeOK
<1>2. ConsumeFnReturn(FnReturn(TopContract)) /\ stack # << >>
  BY <1>1, EmptySeq
  DEF Emit, Consume, ConsumeFnCall, ConsumeEmitted, ConsumeIgnored, FnReturn
<1>3. /\ Top = stack[Len(stack)].frame /\ Top \in 1 .. Len(calls)
      /\ \A i \in 1 .. n : i \in 1 .. Len(stack) /\ stack[i].frame # Top
  BY <1>1 DEF Top
<1>4. /\ Len(stack') = n
      /\ \A i \in 1 .. n : stack'[i] = stack[i]
      /\ \A k \in 1 .. Len(frames) : k # Top => frames'[k] = frames[k]
  BY <1>2, <1>3, FnReturnFacts, <1>1
<1>5. frames'[Top].outcome = Returned
  <2>1. frames' = [frames EXCEPT ![Top].outcome = Returned]
    BY <1>2, <1>3 DEF ConsumeFnReturn
  <2>2. DOMAIN frames = 1 .. Len(frames) /\ Top \in 1 .. Len(frames)
        /\ frames[Top] \in CallFrame
    BY <1>1, <1>3 DEF TypeOK
  <2> QED
    BY <2>1, <2>2 DEF CallFrame
<1>6. /\ Len(calls') = Len(calls) /\ Len(live') = n
      /\ \A k \in 1 .. Len(calls) :
           calls'[k] = IF k = Top THEN [calls[k] EXCEPT !.fate = "returned"] ELSE calls[k]
  BY <1>1, ReturnFacts DEF Heard, Kept, Running
<1>7. hostDone' => n = 0
  <2>1. hostDone' => Len(live) = 1
    BY Zenon DEF HostReturn
  <2> QED
    BY <1>1, <2>1
<1>8. Pending'
  <2> SUFFICES ASSUME NEW i \in 1 .. Len(stack')
               PROVE  /\ stack'[i].last.error = calls'[stack'[i].frame].raised
                      /\ ~hostDone'
    BY DEF Pending
  <2>1. i \in 1 .. n /\ n # 0
    BY <1>1, <1>4
  <2>2. ~hostDone'
    BY <1>7, <2>1
  <2>3. stack'[i] = stack[i] /\ stack[i].frame \in 1 .. Len(calls) /\ stack[i].frame # Top
    BY <1>1, <1>3, <1>4, <2>1
  <2>4. stack[i].last.error = calls[stack[i].frame].raised
    BY <1>1, <1>3, <2>1 DEF Pending
  <2> QED
    BY <1>6, <2>2, <2>3, <2>4
<1>9. ClosedAreTold'
  <2> SUFFICES ASSUME NEW k \in 1 .. Len(calls'),
                      \A i \in 1 .. Len(stack') : stack'[i].frame # k
               PROVE  Told(k)'
    BY DEF ClosedAreTold
  <2>1. CASE k = Top
    <3>1. calls'[k].fate = "returned"
      BY <1>1, <1>3, <1>6, <2>1 DEF HostCall
    <3> QED
      BY <1>5, <2>1, <3>1 DEF Told
  <2>2. CASE k # Top
    <3>1. k \in 1 .. Len(calls) /\ calls'[k] = calls[k] /\ frames'[k] = frames[k]
      BY <1>1, <1>4, <1>6, <2>2
    <3>2. \A i \in 1 .. Len(stack) : stack[i].frame # k
      <4> TAKE i \in 1 .. Len(stack)
      <4>1. CASE i = Len(stack)
        BY <1>3, <2>2, <4>1
      <4>2. CASE i \in 1 .. n
        BY <1>4, <4>2
      <4> QED
        BY <1>1, <4>1, <4>2
    <3>3. Told(k)
      BY <1>1, <3>1, <3>2 DEF ClosedAreTold
    <3> QED
      BY <3>1, <3>3, StaysTold
  <2> QED
    BY <2>1, <2>2
<1> QED
  BY <1>4, <1>6, <1>8, <1>9

\* An event that closes no frame but may be the last error of one.
LEMMA NothingCloses ==
    ASSUME Heard, Pending, ClosedAreTold, Len(frames) = Len(calls), Kept,
           Len(stack') = Len(stack), Len(stack) \in Nat,
           \A i \in 1 .. Len(stack) : /\ stack'[i].frame = stack[i].frame
                                     /\ stack[i].frame \in 1 .. Len(calls),
           \A k \in 1 .. Len(frames) : frames'[k] = frames[k],
           \A k \in 1 .. Len(calls) :
                (\A i \in 1 .. Len(stack) : stack[i].frame # k) => calls'[k] = calls[k]
    PROVE  ClosedAreTold'
<1> SUFFICES ASSUME NEW k \in 1 .. Len(calls'),
                    \A i \in 1 .. Len(stack') : stack'[i].frame # k
             PROVE  Told(k)'
  BY DEF ClosedAreTold
<1>1. k \in 1 .. Len(calls) /\ \A i \in 1 .. Len(stack) : stack[i].frame # k
  BY DEF Kept
<1>2. Told(k) /\ calls'[k] = calls[k] /\ frames'[k] = frames[k]
  BY <1>1 DEF ClosedAreTold
<1> QED
  BY <1>2, StaysTold

\* An error of the running call is the last error of the frame on top.
LEMMA RaiseTold ==
    ASSUME Heard, NEW r \in Error, HostRaise(r), Emit(ErrorEvent(TopContract, r))
    PROVE  Len(stack') = Len(live') /\ Pending' /\ ClosedAreTold'
<1> DEFINE e == ErrorEvent(TopContract, r)
           n == Len(live)
<1>1. /\ FramesMirror /\ Aligned /\ Pending /\ ClosedAreTold
      /\ Len(stack) \in Nat /\ Len(stack) = Len(live) /\ Len(frames) = Len(calls)
      /\ \A i \in 1 .. Len(stack) : stack[i].frame = live[i] /\ live[i] \in 1 .. Len(calls)
      /\ \A i, j \in 1 .. Len(stack) : live[i] = live[j] => i = j
      /\ Len(calls) \in Nat /\ Len(live) >= 1 /\ TypeOK /\ TopContract \in Contract
      /\ \A k \in 1 .. Len(calls) : calls[k] \in HostCall
  BY Hearing, RunningCalls DEF Heard, HostRaise, HostTypeOK
<1>2. OnStack(TopContract) /\ KeptBy(TopContract) = n
  BY <1>1, StopsAtTheCall DEF Heard, TopContract, Top
<1>3. e.kind = "error" /\ e.contract = TopContract /\ e.error = r
      /\ e \in DiagEvent /\ WellFormed(e)
  BY <1>1, EventsAreWellFormed DEF ErrorEvent
<1> HIDE DEF e
<1>4. ConsumeEmitted(e)
  BY <1>1, <1>3, NoneIsNothing
  DEF Emit, Consume, ConsumeFnCall, ConsumeFnReturn, ConsumeIgnored, e
<1>5. PICK kept \in 0 .. Len(stack) :
         /\ kept = KeptBy(e.contract)
         /\ KeepsFrames(kept)
         /\ Len(stack') = kept
         /\ \A i \in 1 .. kept : stack'[i].frame = stack[i].frame
         /\ e.kind = "error" /\ OnStack(e.contract) =>
                 stack'[kept].last = Raised(e.error, Len(events) + 1)
         /\ \A i \in 1 .. kept :
                 i # kept \/ e.kind # "error" => stack'[i].last = stack[i].last
  BY <1>1, <1>3, <1>4, EmittedFacts
<1>6. /\ Len(stack') = Len(stack) /\ n = Len(stack)
      /\ \A i \in 1 .. Len(stack) : stack'[i].frame = stack[i].frame
      /\ stack'[n].last = Raised(r, Len(events) + 1)
      /\ \A i \in 1 .. Len(stack) : i # n => stack'[i].last = stack[i].last
      /\ \A k \in 1 .. Len(frames) : frames'[k] = frames[k]
  BY <1>1, <1>2, <1>3, <1>5 DEF KeepsFrames
<1>7. /\ Kept /\ live' = live /\ hostDone' = hostDone
      /\ \A k \in 1 .. Len(calls) :
            calls'[k] = IF k = Top THEN [calls[k] EXCEPT !.raised = r] ELSE calls[k]
      /\ Top = stack[n].frame /\ Top \in 1 .. Len(calls) /\ n \in 1 .. Len(stack)
  <2>1. n \in 1 .. Len(stack) /\ Top = live[n]
    BY <1>1 DEF Top
  <2>2. Top = stack[n].frame /\ Top \in 1 .. Len(calls)
    BY <1>1, <2>1
  <2>3. hostDone' = hostDone
    BY DEF HostRaise
  <2>4. HostTypeOK
    BY DEF Heard
  <2> HIDE DEF n
  <2> QED
    BY <2>1, <2>2, <2>3, <2>4, RaiseFacts
<1>8. Pending'
  <2> SUFFICES ASSUME NEW i \in 1 .. Len(stack')
               PROVE  stack'[i].last.error = calls'[stack'[i].frame].raised
    BY <1>7 DEF Pending, Heard
  <2>1. CASE i = n
    <3>1. calls'[Top].raised = r
      BY <1>1, <1>7 DEF HostCall
    <3> QED
      BY <1>1, <1>6, <1>7, <2>1, <3>1 DEF Raised
  <2>2. CASE i # n
    <3>1. i \in 1 .. Len(stack) /\ stack[i].frame # Top /\ stack[i].frame \in 1 .. Len(calls)
      BY <1>1, <1>6, <1>7, <2>2
    <3>2. stack[i].last.error = calls[stack[i].frame].raised
      BY <3>1, <1>1 DEF Pending
    <3> QED
      BY <1>6, <1>7, <2>2, <3>1, <3>2
  <2> QED
    BY <2>1, <2>2
<1>9. \A k \in 1 .. Len(calls) :
         (\A i \in 1 .. Len(stack) : stack[i].frame # k) => calls'[k] = calls[k]
  <2> SUFFICES ASSUME NEW k \in 1 .. Len(calls),
                      \A i \in 1 .. Len(stack) : stack[i].frame # k
               PROVE  calls'[k] = calls[k]
    OBVIOUS
  <2>1. k # Top
    BY <1>7
  <2> QED
    BY <1>7, <2>1
<1>10. \A i \in 1 .. Len(stack) : /\ stack'[i].frame = stack[i].frame
                                  /\ stack[i].frame \in 1 .. Len(calls)
  BY <1>1, <1>6
<1>11. ClosedAreTold'
  BY <1>1, <1>6, <1>7, <1>9, <1>10, NothingCloses
<1> QED
  BY <1>1, <1>6, <1>7, <1>8, <1>11

\* What the running call logs, and whatever somebody else emits, is nobody's error.
LEMMA NoteTold ==
    ASSUME Heard, HostNote, NEW e \in DiagEvent, WellFormed(e), Emit(e),
           e.kind \in {"other", "error"},
           e.contract # None => Len(live) <= KeptBy(e.contract),
           e.kind = "error" => \A i \in 1 .. Len(live) : calls[live[i]].contract # e.contract
    PROVE  Len(stack') = Len(live') /\ Pending' /\ ClosedAreTold'
<1>1. /\ FramesMirror /\ Aligned /\ Pending /\ ClosedAreTold
      /\ Len(stack) \in Nat /\ Len(stack) = Len(live) /\ Len(frames) = Len(calls)
      /\ \A i \in 1 .. Len(stack) : stack[i].frame = live[i] /\ live[i] \in 1 .. Len(calls)
      /\ Len(calls) \in Nat /\ TypeOK
  BY Hearing, RunningCalls DEF Heard, HostTypeOK
<1>2. UNCHANGED <<calls, live, hostDone>>
  BY DEF HostNote
<1>3. /\ Len(stack') = Len(stack)
      /\ \A i \in 1 .. Len(stack) : /\ stack'[i].frame = stack[i].frame
                                    /\ stack'[i].last = stack[i].last
      /\ \A k \in 1 .. Len(frames) : frames'[k] = frames[k]
  <2>1. CASE ConsumeIgnored(e)
    BY <2>1 DEF ConsumeIgnored
  <2>2. CASE ConsumeEmitted(e)
    <3>1. PICK kept \in 0 .. Len(stack) :
             /\ kept = KeptBy(e.contract)
             /\ KeepsFrames(kept)
             /\ Len(stack') = kept
             /\ \A i \in 1 .. kept :
                    /\ stack'[i].frame = stack[i].frame
                    /\ \/ stack'[i].last = stack[i].last
                       \/ /\ e.kind = "error"
                          /\ frames[stack[i].frame].contract = e.contract
                          /\ stack'[i].last = Raised(e.error, Len(events) + 1)
      BY <1>1, <2>2, EmittedFacts
    <3>2. kept = Len(stack)
      BY <1>1, <2>2, <3>1 DEF ConsumeEmitted
    <3>3. \A i \in 1 .. Len(stack) : e.kind = "error" =>
             frames[stack[i].frame].contract # e.contract
      BY <1>1 DEF FramesMirror
    <3>4. \A k \in 1 .. Len(frames) : frames'[k] = frames[k]
      BY <1>1, <3>1, <3>2 DEF KeepsFrames
    <3> QED
      BY <3>1, <3>2, <3>3, <3>4
  <2> QED
    BY <2>1, <2>2 DEF Emit, Consume, ConsumeFnCall, ConsumeFnReturn
<1>4. Pending'
  BY <1>1, <1>2, <1>3 DEF Pending
<1>5. Kept
  BY <1>2 DEF Kept
<1>6. \A i \in 1 .. Len(stack) : /\ stack'[i].frame = stack[i].frame
                                 /\ stack[i].frame \in 1 .. Len(calls)
  BY <1>1, <1>3
<1>7. ClosedAreTold'
  BY <1>1, <1>2, <1>3, <1>5, <1>6, NothingCloses
<1> QED
  BY <1>1, <1>2, <1>3, <1>4, <1>7

\* The caller announces the failure it caught: the callee's frame closes with
\* what the callee raised, and the error is the caller's own.
LEMMA CatchTold ==
    ASSUME Heard, NEW r \in Error, HostCatch(r), ~silent',
           Emit(ErrorEvent(calls[live[Len(live) - 1]].contract, r))
    PROVE  Len(stack') = Len(live') /\ Pending' /\ ClosedAreTold'
<1> DEFINE n == Len(live) - 1
           caller == calls[live[n]].contract
           e == ErrorEvent(caller, r)
<1>0. Len(live) > 1
  BY DEF HostCatch
<1>1. /\ FramesMirror /\ Aligned /\ Pending /\ ClosedAreTold
      /\ Len(stack) \in Nat /\ Len(stack) = Len(live) /\ Len(frames) = Len(calls)
      /\ \A i \in 1 .. Len(stack) : stack[i].frame = live[i] /\ live[i] \in 1 .. Len(calls)
      /\ \A i, j \in 1 .. Len(stack) : live[i] = live[j] => i = j
      /\ \A i \in 1 .. Len(stack) : stack[i] \in Open
      /\ Len(calls) \in Nat /\ TypeOK
      /\ \A k \in 1 .. Len(calls) : calls[k] \in HostCall
  BY Hearing, RunningCalls DEF Heard, HostTypeOK
<1>2. n \in 1 .. Len(live) /\ n + 1 = Len(stack) /\ caller \in Contract
  <2>1. n \in 1 .. Len(live) /\ n + 1 = Len(stack)
    BY <1>0, <1>1
  <2>2. live[n] \in 1 .. Len(calls)
    BY <1>1, <2>1
  <2>3. calls[live[n]] \in HostCall
    BY <1>1, <2>2
  <2> QED
    BY <2>1, <2>3 DEF HostCall
<1>3. OnStack(caller) /\ KeptBy(caller) = n
  BY <1>1, <1>2, StopsAtTheCall DEF Heard
<1>4. e.kind = "error" /\ e.contract = caller /\ e.error = r
      /\ e \in DiagEvent /\ WellFormed(e)
  BY <1>2, EventsAreWellFormed DEF ErrorEvent
<1>5. Emit(e)
  OBVIOUS
<1> HIDE DEF e, caller
<1>6. ConsumeEmitted(e)
  BY <1>2, <1>4, <1>5, NoneIsNothing
  DEF Emit, Consume, ConsumeFnCall, ConsumeFnReturn, ConsumeIgnored
<1>7. PICK kept \in 0 .. Len(stack) :
         /\ kept = KeptBy(e.contract)
         /\ KeepsFrames(kept)
         /\ Len(stack') = kept
         /\ \A i \in 1 .. kept : stack'[i].frame = stack[i].frame
         /\ e.kind = "error" /\ OnStack(e.contract) =>
                 stack'[kept].last = Raised(e.error, Len(events) + 1)
         /\ \A i \in 1 .. kept :
                 i # kept \/ e.kind # "error" => stack'[i].last = stack[i].last
  BY <1>1, <1>4, <1>6, EmittedFacts
<1>8. kept = n
  BY <1>3, <1>4, <1>7
<1> HIDE DEF n
<1>9. /\ Len(stack') = n
      /\ \A i \in 1 .. n : stack'[i].frame = stack[i].frame
      /\ stack'[n].last = Raised(r, Len(events) + 1)
      /\ \A i \in 1 .. n : i # n => stack'[i].last = stack[i].last
      /\ \A k \in 1 .. Len(frames) : k # stack[n + 1].frame => frames'[k] = frames[k]
  BY <1>1, <1>2, <1>3, <1>4, <1>7, <1>8 DEF KeepsFrames
<1>10. /\ Top = stack[n + 1].frame /\ Top \in 1 .. Len(calls)
       /\ \A i \in 1 .. n : /\ i \in 1 .. Len(stack) /\ stack[i].frame # Top
                             /\ stack[i].frame \in 1 .. Len(calls)
       /\ n + 1 \in 1 .. Len(stack)
  <2>1. n + 1 \in 1 .. Len(stack) /\ Top = live[n + 1]
    BY <1>1, <1>2 DEF Top
  <2>2. ASSUME NEW i \in 1 .. n
        PROVE  i \in 1 .. Len(stack) /\ i # n + 1
    BY <1>1, <1>2
  <2> QED
    BY <1>1, <2>1, <2>2
<1>11. frames'[Top].outcome = EndOutcome(stack[n + 1].last)
  <2>1. frames' = EndAbove(n)
    BY <1>3, <1>4, <1>6 DEF ConsumeEmitted
  <2>2. \A j \in 1 .. Len(stack) : stack[j].frame = stack[n + 1].frame => j = n + 1
    BY <1>1, <1>10
  <2>3. n \in 0 .. Len(stack) /\ n + 1 \in n + 1 .. Len(stack)
    BY <1>1, <1>2
  <2> QED
    BY <1>1, <1>10, <2>1, <2>2, <2>3, EndedAbove
<1>12. /\ Kept /\ Len(live') = n /\ hostDone' = hostDone
       /\ \A k \in 1 .. Len(calls) :
             /\ calls'[k].fate = IF k = Top THEN "failed" ELSE calls[k].fate
             /\ calls'[k].raised = IF k = live[n] THEN r ELSE calls[k].raised
  BY CatchFacts DEF Heard, HostCatch, Running, n
<1>13. Pending'
  <2> SUFFICES ASSUME NEW i \in 1 .. Len(stack')
               PROVE  stack'[i].last.error = calls'[stack'[i].frame].raised
    BY <1>12 DEF Pending, Heard
  <2>0. i \in 1 .. n
    BY <1>9
  <2>1. CASE i = n
    <3>1. stack'[i].frame = live[n] /\ live[n] \in 1 .. Len(calls)
      BY <1>1, <1>2, <1>9, <1>10, <2>1
    <3> QED
      BY <1>9, <1>12, <2>1, <3>1 DEF Raised
  <2>2. CASE i # n
    <3>0. i \in 1 .. Len(stack) /\ n \in 1 .. Len(stack)
      BY <1>1, <1>2, <1>10, <2>0
    <3>1. /\ stack'[i].frame = stack[i].frame /\ stack'[i].last = stack[i].last
          /\ stack[i].frame # live[n] /\ stack[i].frame \in 1 .. Len(calls)
      <4>1. stack'[i].frame = stack[i].frame /\ stack'[i].last = stack[i].last
        BY <1>9, <2>0, <2>2
      <4>2. stack[i].frame = live[i] /\ live[i] # live[n] /\ live[i] \in 1 .. Len(calls)
        BY <1>1, <2>2, <3>0
      <4> QED
        BY <4>1, <4>2
    <3>2. stack[i].last.error = calls[stack[i].frame].raised
      BY <1>1, <1>10, <2>0 DEF Pending
    <3> QED
      BY <1>12, <3>1, <3>2
  <2> QED
    BY <2>1, <2>2
<1>14. ClosedAreTold'
  <2> SUFFICES ASSUME NEW k \in 1 .. Len(calls'),
                      \A i \in 1 .. Len(stack') : stack'[i].frame # k
               PROVE  Told(k)'
    BY DEF ClosedAreTold
  <2>0. k \in 1 .. Len(calls)
    BY <1>12 DEF Kept
  <2>1. k # live[n]
    <3>1. n \in 1 .. n /\ n \in 1 .. Len(stack)
      BY <1>1, <1>2
    <3>2. n \in 1 .. Len(stack') /\ stack'[n].frame = live[n]
      BY <1>1, <1>9, <3>1
    <3> QED
      BY <3>2
  <2>2. CASE k = Top
    <3>1. calls'[k].fate = "failed" /\ calls'[k].raised = calls[Top].raised
      BY <1>12, <2>0, <2>1, <2>2
    <3>2. stack[n + 1].last \in Raise /\ stack[n + 1].last.error = calls[Top].raised
      BY <1>1, <1>10 DEF Open, Pending
    <3>3. frames'[k].outcome = EndOutcome(stack[n + 1].last)
      BY <1>11, <2>2
    <3> QED
      BY <3>1, <3>2, <3>3, RaiseIsAnError DEF Told
  <2>3. CASE k # Top
    <3>1. \A i \in 1 .. Len(stack) : stack[i].frame # k
      <4> TAKE i \in 1 .. Len(stack)
      <4>1. i \in 1 .. n \/ i = n + 1
        BY <1>1, <1>2
      <4> QED
        BY <1>9, <1>10, <2>3, <4>1
    <3>2. Told(k)
      BY <1>1, <2>0, <3>1 DEF ClosedAreTold
    <3>3. /\ calls'[k].fate = calls[k].fate /\ calls'[k].raised = calls[k].raised
          /\ frames'[k] = frames[k]
      BY <1>1, <1>9, <1>10, <1>12, <2>0, <2>1, <2>3
    <3> QED
      BY <3>2, <3>3 DEF Told
  <2> QED
    BY <2>2, <2>3
<1> QED
  BY <1>9, <1>12, <1>13, <1>14

\* The failure reaches the host function: every open frame's call has failed.
LEMMA AbortTold ==
    ASSUME Heard, NEW r \in Error, HostAbort(r), Emit(HostFnFailed(r))
    PROVE  Pending' /\ ClosedAreTold'
<1>1. /\ FramesMirror /\ Aligned /\ Pending /\ ClosedAreTold
      /\ Len(stack) \in Nat /\ Len(stack) = Len(live) /\ Len(frames) = Len(calls)
      /\ \A i \in 1 .. Len(stack) : stack[i].frame = live[i] /\ live[i] \in 1 .. Len(calls)
      /\ \A k \in 1 .. Len(calls) : calls[k] \in HostCall
  BY Hearing, RunningCalls DEF Heard
<1>2. ConsumeIgnored(HostFnFailed(r))
  BY DEF Emit, Consume, ConsumeFnCall, ConsumeFnReturn, ConsumeEmitted, HostFnFailed
<1>3. UNCHANGED <<frames, stack>>
  BY <1>2 DEF ConsumeIgnored
<1>4. /\ Kept
      /\ \A k \in 1 .. Len(calls) :
            calls'[k] = IF \E i \in 1 .. Len(live) : live[i] = k
                        THEN [calls[k] EXCEPT !.fate = "failed"] ELSE calls[k]
  BY AbortFacts DEF Heard
<1>5. ASSUME NEW i \in 1 .. Len(stack)
      PROVE  /\ stack[i].frame \in 1 .. Len(calls)
             /\ calls'[stack[i].frame].fate = "failed"
             /\ calls'[stack[i].frame].raised = calls[stack[i].frame].raised
  <2> DEFINE k == stack[i].frame
  <2>1. k \in 1 .. Len(calls) /\ calls[k] \in HostCall /\ \E j \in 1 .. Len(live) : live[j] = k
    BY <1>1
  <2> HIDE DEF k
  <2>2. calls'[k] = [calls[k] EXCEPT !.fate = "failed"]
    BY <1>4, <2>1
  <2> QED
    BY <2>1, <2>2 DEF HostCall, k
<1>6. Pending'
  BY <1>1, <1>3, <1>5 DEF Pending
<1>7. \A k \in 1 .. Len(calls) :
         (\A i \in 1 .. Len(stack) : stack[i].frame # k) => calls'[k] = calls[k]
  <2> SUFFICES ASSUME NEW k \in 1 .. Len(calls),
                      \A i \in 1 .. Len(stack) : stack[i].frame # k
               PROVE  calls'[k] = calls[k]
    OBVIOUS
  <2>1. ~\E i \in 1 .. Len(live) : live[i] = k
    BY <1>1
  <2> QED
    BY <1>4, <2>1
<1>8. ClosedAreTold'
  BY <1>1, <1>3, <1>4, <1>5, <1>7, NothingCloses
<1> QED
  BY <1>6, <1>8

\* When call_tree returns, the frames still open are those of the calls that
\* failed with the transaction, and they get their last or the terminal error.
LEMMA FinishTrue ==
    ASSUME HostTypeOK, MirrorInv, TruthInv, HostedFinish, Overheard
    PROVE  OutcomesAreTrue'
<1>1. /\ hostDone /\ Finish /\ ~finished /\ UNCHANGED <<calls, terminal>>
      /\ FramesMirror /\ Aligned /\ Pending /\ ClosedAreTold /\ TypeOK
  BY DEF HostedFinish, hostVars, Finish, MirrorInv, TruthInv, Overheard, HostTypeOK
<1>2. /\ Len(stack) \in Nat /\ Len(frames) = Len(calls)
      /\ \A i \in 1 .. Len(stack) : /\ stack[i] \in Open
                                    /\ stack[i].frame \in 1 .. Len(frames)
      /\ terminal \in Raise
      /\ DOMAIN calls = 1 .. Len(calls) /\ DOMAIN calls' = 1 .. Len(calls)
  BY <1>1, RunningCalls DEF TypeOK, FramesMirror
<1> SUFFICES ASSUME NEW k \in 1 .. Len(calls)
             PROVE  Explains(frames[k].outcome, calls[k])'
  BY <1>1, <1>2 DEF OutcomesAreTrue
<1>3. CASE \A i \in 1 .. Len(stack) : stack[i].frame # k
  <2>1. frames'[k] = frames[k]
    BY <1>1, <1>2, <1>3, FinishFacts
  <2>2. Told(k)
    BY <1>1, <1>3 DEF ClosedAreTold
  <2> QED
    BY <1>1, <2>1, <2>2 DEF Told, Explains
<1>4. ASSUME NEW i \in 1 .. Len(stack), stack[i].frame = k
      PROVE  Explains(frames[k].outcome, calls[k])'
  <2>1. \A j \in 1 .. Len(stack) : stack[j].frame = stack[i].frame => j = i
    BY <1>1, <1>4 DEF Aligned, OpenContract
  <2>2. frames'[k].outcome =
           EndOutcome(IF stack[i].last = NoRaise THEN terminal ELSE stack[i].last)
    BY <1>1, <1>4, <2>1, EndedAtLast
  <2>3. /\ calls[k].fate = "failed" /\ stack[i].last.error = calls[k].raised
        /\ stack[i].last \in Raise
    BY <1>1, <1>2, <1>4 DEF Pending, Open
  <2>4. CASE calls[k].raised = None
    <3>1. frames'[k].outcome = EndOutcome(terminal)
      BY <2>2, <2>3, <2>4, RaiseIsAnError
    <3>2. frames'[k].outcome \in {Unknown, Failed(terminal)}
      BY <3>1 DEF EndOutcome
    <3> QED
      BY <1>1, <2>3, <2>4, <3>2 DEF Explains, Failed
  <2>5. CASE calls[k].raised # None
    <3>1. frames'[k].outcome = EndOutcome(stack[i].last)
      BY <2>2, <2>3, <2>5, RaiseIsAnError
    <3>2. /\ frames'[k].outcome.tag = "Failed"
          /\ frames'[k].outcome.error = calls[k].raised
      BY <2>3, <2>5, <3>1, RaiseIsAnError
    <3> QED
      BY <1>1, <2>3, <2>5, <3>2 DEF Explains
  <2> QED
    BY <2>4, <2>5
<1> QED
  BY <1>3, <1>4

LEMMA TruthInit == HostedInit => TruthInv
<1> SUFFICES ASSUME HostedInit PROVE TruthInv
  OBVIOUS
<1>1. /\ stack = << >> /\ finished = FALSE /\ calls = << >> /\ live = << >>
  BY DEF HostedInit, Init, HostInit
<1>2. Len(stack) = 0 /\ Len(calls) = 0 /\ Len(live) = 0
  BY <1>1, EmptySeq
<1> QED
  BY <1>1, <1>2 DEF TruthInv, Pending, ClosedAreTold, OutcomesAreTrue

LEMMA TruthNext ==
    ASSUME HostTypeOK, MirrorInv, TruthInv, [HostedNext]_vars
    PROVE  TruthInv'
<1>0. /\ Len(live) \in Nat /\ DOMAIN live = 1 .. Len(live)
      /\ live # << >> => Len(live) >= 1
  BY RunningCalls
\* A step of the host is owed the truth only if everything was heard before it.
<1>1. ASSUME ~hostDone, UNCHANGED finished, lost => lost', silent => silent',
             Heard /\ Overheard' =>
                 /\ ~hostDone' => Len(stack') = Len(live')
                 /\ Pending' /\ ClosedAreTold'
      PROVE  TruthInv'
  <2>1. ~finished /\ ~finished'
    BY <1>1 DEF MirrorInv
  <2>2. Overheard' => Heard
    BY <1>1 DEF Overheard, Heard
  <2> QED
    BY <1>1, <2>1, <2>2 DEF TruthInv, OutcomesAreTrue
<1>2. ASSUME NEW e, Emit(e) \/ Drop
      PROVE  UNCHANGED finished /\ (lost => lost') /\ (Overheard' => Emit(e))
  BY <1>2 DEF Emit, Drop, Consume, treeVars, Overheard
<1>3. ASSUME NEW c \in Contract, HostCallAction(c)
      PROVE  TruthInv'
  <2> DEFINE e == FnCall(IF live = << >> THEN None ELSE TopContract, c)
  <2>1. ~hostDone /\ (Emit(e) \/ Drop) /\ silent' = silent
    BY <1>3 DEF HostCallAction
  <2>2. Heard /\ Emit(e) => Len(stack') = Len(live') /\ Pending' /\ ClosedAreTold'
    BY <1>3, CallTold
  <2> HIDE DEF e
  <2> QED
    BY <1>1, <1>2, <2>1, <2>2
<1>4. CASE HostReturn
  <2> DEFINE e == FnReturn(TopContract)
  <2>1. ~hostDone /\ (Emit(e) \/ Drop) /\ silent' = silent
    BY <1>4 DEF HostReturn
  <2>2. Heard /\ Emit(e) => Len(stack') = Len(live') /\ Pending' /\ ClosedAreTold'
    BY <1>4, ReturnTold
  <2> HIDE DEF e
  <2> QED
    BY <1>1, <1>2, <2>1, <2>2
<1>5. CASE HostNote
  <2>1. PICK c \in Contract \cup {None}, r \in Error :
           \/ /\ \/ c = None
                 \/ live # << >> /\ c = TopContract
                 \/ \A i \in DOMAIN live : calls[live[i]].contract # c
              /\ Emit(OtherEvent(c)) \/ Drop
           \/ /\ \A i \in DOMAIN live : calls[live[i]].contract # c
              /\ Emit(ErrorEvent(c, r)) \/ Drop
    BY <1>5 DEF HostNote
  <2>2. PICK e \in DiagEvent :
           /\ WellFormed(e) /\ (Emit(e) \/ Drop)
           /\ e.kind \in {"other", "error"} /\ e.contract = c
           /\ \/ c = None
              \/ live # << >> /\ c = TopContract
              \/ \A i \in 1 .. Len(live) : calls[live[i]].contract # c
           /\ e.kind = "error" => \A i \in 1 .. Len(live) : calls[live[i]].contract # c
    <3>1. /\ OtherEvent(c) \in DiagEvent /\ WellFormed(OtherEvent(c))
          /\ OtherEvent(c).kind = "other" /\ OtherEvent(c).contract = c
      BY NoneIsNothing DEF OtherEvent, DiagEvent, EventKind, WellFormed
    <3>2. /\ ErrorEvent(c, r) \in DiagEvent /\ WellFormed(ErrorEvent(c, r))
          /\ ErrorEvent(c, r).kind = "error" /\ ErrorEvent(c, r).contract = c
      BY NoneIsNothing DEF ErrorEvent, DiagEvent, EventKind, WellFormed
    <3> QED
      BY <1>0, <2>1, <3>1, <3>2
  <2>3. ~hostDone /\ silent' = silent
    BY <1>5 DEF HostNote
  <2>4. Heard /\ c # None => Len(live) <= KeptBy(c)
    <3> SUFFICES ASSUME Heard, c # None PROVE Len(live) <= KeptBy(c)
      OBVIOUS
    <3>0. HostTypeOK /\ FramesMirror /\ Aligned
      BY Hearing DEF Heard
    <3>1. CASE live # << >> /\ c = TopContract
      <4>1. KeptBy(c) = Len(live)
        BY <1>0, <3>0, <3>1, StopsAtTheCall DEF TopContract, Top
      <4> QED
        BY <1>0, <4>1
    <3>2. CASE \A i \in 1 .. Len(live) : calls[live[i]].contract # c
      BY <3>0, <3>2, StopsAboveTheCalls
    <3> QED
      BY <2>2, <3>1, <3>2
  <2>5. Heard /\ Emit(e) => Len(stack') = Len(live') /\ Pending' /\ ClosedAreTold'
    BY <1>5, <2>2, <2>4, NoteTold
  <2> QED
    BY <1>1, <1>2, <2>2, <2>3, <2>5
<1>6. ASSUME NEW r \in Error, HostRaise(r)
      PROVE  TruthInv'
  <2> DEFINE e == ErrorEvent(TopContract, r)
  <2>1. ~hostDone /\ (Emit(e) \/ Drop) /\ silent' = silent
    BY <1>6 DEF HostRaise
  <2>2. Heard /\ Emit(e) => Len(stack') = Len(live') /\ Pending' /\ ClosedAreTold'
    BY <1>6, RaiseTold
  <2> HIDE DEF e
  <2> QED
    BY <1>1, <1>2, <2>1, <2>2
<1>7. ASSUME NEW r \in Error, HostCatch(r)
      PROVE  TruthInv'
  <2> DEFINE e == ErrorEvent(calls[live[Len(live) - 1]].contract, r)
  <2>1. /\ ~hostDone
        /\ \/ (Emit(e) \/ Drop) /\ silent' = silent
           \/ silent' = TRUE /\ UNCHANGED <<treeVars, lost>>
    BY <1>7 DEF HostCatch
  <2>2. Heard /\ Emit(e) /\ ~silent' => Len(stack') = Len(live') /\ Pending' /\ ClosedAreTold'
    BY <1>7, CatchTold
  <2> HIDE DEF e
  <2>3. CASE (Emit(e) \/ Drop) /\ silent' = silent
    BY <1>1, <1>2, <2>1, <2>2, <2>3 DEF Overheard
  <2>4. CASE silent' = TRUE /\ UNCHANGED <<treeVars, lost>>
    BY <1>1, <2>1, <2>4 DEF Overheard, treeVars
  <2> QED
    BY <2>1, <2>3, <2>4
<1>8. ASSUME NEW r \in Error, HostAbort(r)
      PROVE  TruthInv'
  <2> DEFINE e == HostFnFailed(r)
  <2>1. ~hostDone /\ hostDone' /\ (Emit(e) \/ Drop) /\ silent' = silent
    BY <1>8 DEF HostAbort
  <2>2. Heard /\ Emit(e) => Pending' /\ ClosedAreTold'
    BY <1>8, AbortTold
  <2> HIDE DEF e
  <2> QED
    BY <1>1, <1>2, <2>1, <2>2
<1>9. CASE HostedFinish
  <2>1. finished' /\ UNCHANGED <<lost, silent>>
    BY <1>9 DEF HostedFinish, hostVars, Finish
  <2>2. Overheard => OutcomesAreTrue'
    BY <1>9, FinishTrue
  <2>3. ~Overheard => OutcomesAreTrue'
    BY <2>1 DEF OutcomesAreTrue, Overheard
  <2> QED
    BY <2>1, <2>2, <2>3 DEF TruthInv
<1>10. CASE UNCHANGED vars
  BY <1>10 DEF vars, TruthInv, Overheard, Pending, ClosedAreTold, Told, OutcomesAreTrue, Explains
<1> QED
  BY <1>3, <1>4, <1>5, <1>6, <1>7, <1>8, <1>9, <1>10 DEF HostedNext, HostNext

\* As long as every event arrives and every catch is announced, the open frames
\* are the running calls, each with the last error its call raised.
THEOREM StackLives == HostedSpec => []StackIsLive
<1>1. HostTypeOK /\ MirrorInv /\ TruthInv => StackIsLive
  <2> SUFFICES ASSUME HostTypeOK, MirrorInv, TruthInv, Overheard, ~hostDone
               PROVE  /\ Len(stack) = Len(live)
                      /\ \A i \in DOMAIN live : /\ stack[i].frame = live[i]
                                               /\ stack[i].last.error = calls[live[i]].raised
    BY DEF StackIsLive
  <2>1. /\ Pending /\ Len(stack) = Len(live) /\ DOMAIN live = 1 .. Len(live)
        /\ \A i \in 1 .. Len(stack) : stack[i].frame = live[i]
    BY Hearing, RunningCalls
  <2> QED
    BY <2>1 DEF Pending
<1> QED
  BY <1>1, MirrorInit, MirrorNext, TruthInit, TruthNext, HostedTypeCorrect, PTL DEF HostedSpec

\* When call_tree returns and nothing was lost or silent, every frame says how
\* its call ended and which error that very call raised last.
THEOREM OutcomesTold == HostedSpec => []OutcomesAreTrue
<1>1. TruthInv => OutcomesAreTrue
  BY DEF TruthInv
<1> QED
  BY <1>1, MirrorInit, MirrorNext, TruthInit, TruthNext, HostedTypeCorrect, PTL DEF HostedSpec

=============================================================================
