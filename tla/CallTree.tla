------------------------------ MODULE CallTree ------------------------------
(***************************************************************************)
(* The reconstruction of the contract call tree from diagnostic events:    *)
(* call_tree of model/events.rs.                                           *)
(*                                                                         *)
(* The loop of call_tree reads one event at a time and nothing of the      *)
(* events still to come, so each iteration is an action, Consume(e), and   *)
(* the sequence `events` holds the events read so far.  The event stream   *)
(* of this module is arbitrary: nothing is assumed of the host.  The       *)
(* module HostCalls composes it with a host that emits the stream.         *)
(***************************************************************************)
EXTENDS DiagEvents, Naturals, Sequences

VARIABLES
    events,      \* the events read so far (Diagnostics::events)
    frames,      \* the calls in call order (Diagnostics::calls)
    stack,       \* the frames still open, outermost first (Vec<Open>)
    terminal,    \* Diagnostics::terminal_error: the first host_fn_failed
    finished     \* call_tree has returned

treeVars == <<events, frames, stack, terminal, finished>>

\* Option<(ScError, u32)>: an error and the event that raised it.
NoRaise == [error |-> None, event |-> 0]
Raised(e, n) == [error |-> e, event |-> n]
Raise == {NoRaise} \cup [error : Error, event : Nat]

Returned == [tag |-> "Returned", error |-> None, event |-> 0]
Unknown == [tag |-> "Unknown", error |-> None, event |-> 0]
Failed(r) == [tag |-> "Failed", error |-> r.error, event |-> r.event]

CallOutcome == {Returned, Unknown} \cup [tag : {"Failed"}, error : Error, event : Nat]

CallFrame == [event : Nat, depth : Nat, contract : Contract, outcome : CallOutcome]
Open == [frame : Nat, last : Raise]

TypeOK ==
    /\ events \in Seq(DiagEvent)
    /\ frames \in Seq(CallFrame)
    /\ stack \in Seq(Open)
    /\ \A i \in DOMAIN stack : stack[i].frame \in DOMAIN frames
    /\ terminal \in Raise
    /\ finished \in BOOLEAN

Init ==
    /\ events = << >>
    /\ frames = << >>
    /\ stack = << >>
    /\ terminal = NoRaise
    /\ finished = FALSE

-----------------------------------------------------------------------------
(***************************************************************************)
(* The closures `end` and `unwind_to`.                                     *)
(***************************************************************************)

EndOutcome(last) == IF last = NoRaise THEN Unknown ELSE Failed(last)

\* The frames once every open frame above depth n is popped and ended.
EndAbove(n) ==
    [k \in DOMAIN frames |->
        IF \E i \in n + 1 .. Len(stack) : stack[i].frame = k
        THEN [frames[k] EXCEPT !.outcome =
                EndOutcome(stack[CHOOSE i \in n + 1 .. Len(stack) :
                                    stack[i].frame = k].last)]
        ELSE frames[k]]

OpenContract(i) == frames[stack[i].frame].contract

OnStack(c) == \E i \in DOMAIN stack : OpenContract(i) = c

\* How many open frames survive unwind_to(c): all of them when c is not on
\* the stack, otherwise those up to the innermost frame of c.
KeptBy(c) ==
    IF OnStack(c)
    THEN CHOOSE i \in DOMAIN stack :
            /\ OpenContract(i) = c
            /\ \A j \in i + 1 .. Len(stack) : OpenContract(j) # c
    ELSE Len(stack)

-----------------------------------------------------------------------------
(***************************************************************************)
(* One iteration of the loop, one action per arm of its match.  A `_`      *)
(* marks a mutated form of the arm it stands before.                       *)
(***************************************************************************)

\* The frame of a fn_call: Mutants record the caller where the callee belongs,
\* or read the depth before the stack is unwound or after the frame is pushed.
NewFrame_Swapped(e, kept) ==
    [event |-> Len(events) + 1, depth |-> kept, contract |-> e.contract, outcome |-> Unknown]
NewFrame_EarlyDepth(e, kept) ==
    [event |-> Len(events) + 1, depth |-> Len(stack), contract |-> e.callee, outcome |-> Unknown]
NewFrame_LateDepth(e, kept) ==
    [event |-> Len(events) + 1, depth |-> kept + 1, contract |-> e.callee, outcome |-> Unknown]

NewFrame(e, kept) ==
    [event |-> Len(events) + 1, depth |-> kept, contract |-> e.callee, outcome |-> Unknown]

\* Mutant: the open frame's index is the number of frames, in Rust one past the
\* frame just pushed.
ConsumeFnCall_Len(e) ==
    LET kept == IF e.contract = None THEN 0 ELSE KeptBy(e.contract) IN
    /\ e.kind = "fn_call"
    /\ frames' = Append(EndAbove(kept), NewFrame(e, kept))
    /\ stack' = Append(SubSeq(stack, 1, kept),
                       [frame |-> Len(frames) + 2, last |-> NoRaise])

ConsumeFnCall(e) ==
    LET kept == IF e.contract = None THEN 0 ELSE KeptBy(e.contract) IN
    /\ e.kind = "fn_call"
    /\ frames' = Append(EndAbove(kept), NewFrame(e, kept))
    /\ stack' = Append(SubSeq(stack, 1, kept),
                       [frame |-> Len(frames) + 1, last |-> NoRaise])

\* Mutant: the return goes to the frame listed last, not to the top of the stack.
ConsumeFnReturn_LastFrame(e) ==
    /\ e.kind = "fn_return"
    /\ IF stack = << >>
       THEN UNCHANGED <<frames, stack>>
       ELSE /\ frames' = [frames EXCEPT ![Len(frames)].outcome = Returned]
            /\ stack' = SubSeq(stack, 1, Len(stack) - 1)

ConsumeFnReturn(e) ==
    /\ e.kind = "fn_return"
    /\ IF stack = << >>
       THEN UNCHANGED <<frames, stack>>
       ELSE /\ frames' = [frames EXCEPT ![stack[Len(stack)].frame].outcome = Returned]
            /\ stack' = SubSeq(stack, 1, Len(stack) - 1)

\* Mutant: the error is the top frame's, whoever emitted it.
ConsumeEmitted_TopFrame(e) ==
    /\ e.kind \notin {"fn_call", "fn_return"}
    /\ e.contract # None
    /\ stack' = IF e.kind = "error" /\ stack # << >>
                THEN [stack EXCEPT ![Len(stack)].last = Raised(e.error, Len(events) + 1)]
                ELSE stack
    /\ UNCHANGED frames

ConsumeEmitted(e) ==
    LET kept == KeptBy(e.contract)
        below == SubSeq(stack, 1, kept)
    IN
    /\ e.kind \notin {"fn_call", "fn_return"}
    /\ e.contract # None
    /\ frames' = EndAbove(kept)
    /\ stack' = IF e.kind = "error" /\ OnStack(e.contract)
                THEN [below EXCEPT ![kept].last = Raised(e.error, Len(events) + 1)]
                ELSE below

ConsumeIgnored(e) ==
    /\ e.kind \notin {"fn_call", "fn_return"}
    /\ e.contract = None
    /\ UNCHANGED <<frames, stack>>

Consume(e) ==
    /\ ~finished
    /\ \/ ConsumeFnCall(e)
       \/ ConsumeFnReturn(e)
       \/ ConsumeEmitted(e)
       \/ ConsumeIgnored(e)
    /\ events' = Append(events, e)
    /\ terminal' = IF e.kind = "host_fn_failed" /\ terminal = NoRaise
                   THEN Raised(e.error, Len(events) + 1)
                   ELSE terminal
    /\ UNCHANGED finished

\* Mutant: the terminal error is every open frame's, even of one that raised.
Finish_Terminal ==
    /\ ~finished
    /\ finished' = TRUE
    /\ frames' = [k \in DOMAIN frames |->
            IF \E i \in DOMAIN stack : stack[i].frame = k
            THEN [frames[k] EXCEPT !.outcome = EndOutcome(terminal)]
            ELSE frames[k]]
    /\ stack' = << >>
    /\ UNCHANGED <<events, terminal>>

\* After the loop: the frames still open failed with their last error, or
\* with the terminal error when they raised none.
Finish ==
    /\ ~finished
    /\ finished' = TRUE
    /\ frames' = [k \in DOMAIN frames |->
            IF \E i \in DOMAIN stack : stack[i].frame = k
            THEN LET last == stack[CHOOSE i \in DOMAIN stack : stack[i].frame = k].last
                 IN  [frames[k] EXCEPT !.outcome =
                        EndOutcome(IF last = NoRaise THEN terminal ELSE last)]
            ELSE frames[k]]
    /\ stack' = << >>
    /\ UNCHANGED <<events, terminal>>

\* The events classify can produce.
WellFormed(e) ==
    /\ e.kind = "fn_call" <=> e.callee # None
    /\ e.kind \in {"error", "host_fn_failed"} <=> e.error # None

Next ==
    \/ \E e \in {d \in DiagEvent : WellFormed(d)} : Consume(e)
    \/ Finish

Spec == Init /\ [][Next]_treeVars

-----------------------------------------------------------------------------
(***************************************************************************)
(* Properties that hold for every event stream, whatever the host sent.    *)
(***************************************************************************)

IsOpen(k) == \E i \in DOMAIN stack : stack[i].frame = k

\* The open frames are a chain of calls: each was opened after the one below
\* it, its recorded depth is its place on the stack, and its outcome is still
\* undecided.  CallFrame::depth is documented as the nesting depth.
OpenChain ==
    /\ \A i \in DOMAIN stack : /\ frames[stack[i].frame].depth = i - 1
                               /\ frames[stack[i].frame].outcome = Unknown
    /\ \A i, j \in DOMAIN stack : i < j => stack[i].frame < stack[j].frame

\* The flattened tree is a tree: it starts at depth 0 and a call is at most one
\* level below the call listed before it, so the depths alone give every frame
\* its caller (what render.rs indents by).
Preorder ==
    \A k \in DOMAIN frames :
        /\ k = 1 => frames[k].depth = 0
        /\ k > 1 => frames[k].depth <= frames[k - 1].depth + 1

\* A frame is only ever said to have failed with an error that its own
\* contract raised after the call began, or with the terminal error; the event
\* cited is the one that carries that error.
ErrorsAreAttributed ==
    \A k \in DOMAIN frames :
        LET o == frames[k].outcome IN
        o.tag = "Failed" =>
            /\ o.event \in DOMAIN events
            /\ events[o.event].error = o.error
            /\ \/ /\ events[o.event].kind = "error"
                  /\ events[o.event].contract = frames[k].contract
                  /\ o.event > frames[k].event
               \/ Raised(o.error, o.event) = terminal /\ finished

\* Every fn_call has exactly one frame and the frames are in call order.
FramesAreTheCalls ==
    /\ \A k \in DOMAIN frames :
        /\ frames[k].event \in DOMAIN events
        /\ events[frames[k].event].kind = "fn_call"
        /\ events[frames[k].event].callee = frames[k].contract
        /\ \A j \in DOMAIN frames : j < k => frames[j].event < frames[k].event
    /\ \A n \in DOMAIN events :
        events[n].kind = "fn_call" => \E k \in DOMAIN frames : frames[k].event = n

\* A frame that has ended is never touched again: a later event cannot turn a
\* return into a failure or move an error between calls.
EndedFramesAreFinal ==
    [][\A k \in DOMAIN frames : ~IsOpen(k) => frames'[k] = frames[k]]_treeVars

=============================================================================
