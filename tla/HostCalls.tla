----------------------------- MODULE HostCalls ------------------------------
(***************************************************************************)
(* The call tree of CallTree composed with the host whose events it reads. *)
(*                                                                         *)
(* The host is external: its actions are what the header of                *)
(* model/events.rs says of who emits which event, and the shape its tests  *)
(* give to a caught failure (the callee raises, then the caller emits an   *)
(* error before it does anything else).  It keeps the truth the events     *)
(* only hint at: which calls are running, how each one ended and the last  *)
(* error each one raised.  A contract is not called again while it is      *)
(* running.                                                                *)
(*                                                                         *)
(* Each event the host emits is either consumed or dropped: decode_events  *)
(* of soroban-failure-rpc/src/decode.rs leaves out an event it cannot      *)
(* decode and renumbers those that follow.  A caller may also catch a      *)
(* failure and emit nothing.  Both are recorded: what the reconstruction   *)
(* owes the host depends on whether it could see everything.               *)
(***************************************************************************)
EXTENDS CallTree

CONSTANTS
    MaxEvents,      \* bound: events the host emits
    MaxNotes        \* bound: logs and contract events among those that arrive

ASSUME HostAssumption == MaxEvents \in Nat /\ MaxNotes \in Nat

VARIABLES
    calls,       \* every call the host made: contract, depth, raised, fate
    live,        \* the calls running, outermost first, as indexes of calls
    emitted,     \* how many events the host has emitted
    lost,        \* decoding has dropped an event
    silent,      \* a caller has caught a failure without a word
    hostDone     \* the invocation is over

hostVars == <<calls, live, emitted, lost, silent, hostDone>>
vars == <<events, frames, stack, terminal, finished, calls, live, emitted, lost, silent, hostDone>>

Fate == {"running", "returned", "failed"}
HostCall == [contract : Contract, depth : Nat, raised : Error \cup {None},
             fate : Fate]

\* The calls without a fate are those on the live stack, in the order they were
\* made.
RunningInOrder ==
    /\ \A i, j \in DOMAIN live : i < j => live[i] < live[j]
    /\ \A k \in DOMAIN calls : calls[k].fate = "running" <=> \E i \in DOMAIN live : live[i] = k

HostTypeOK ==
    /\ TypeOK
    /\ calls \in Seq(HostCall)
    /\ live \in Seq(Nat)
    /\ \A i \in DOMAIN live : live[i] \in DOMAIN calls
    /\ RunningInOrder
    /\ emitted \in Nat
    /\ lost \in BOOLEAN
    /\ silent \in BOOLEAN
    /\ hostDone \in BOOLEAN

HostInit ==
    /\ calls = << >>
    /\ live = << >>
    /\ emitted = 0
    /\ lost = FALSE
    /\ silent = FALSE
    /\ hostDone = FALSE

-----------------------------------------------------------------------------
Emit(e) ==
    /\ emitted < MaxEvents
    /\ emitted' = emitted + 1
    /\ Consume(e)
    /\ UNCHANGED lost

Drop ==
    /\ emitted < MaxEvents
    /\ emitted' = emitted + 1
    /\ lost' = TRUE
    /\ UNCHANGED treeVars

Top == live[Len(live)]
TopContract == calls[Top].contract
Pop(s) == SubSeq(s, 1, Len(s) - 1)

\* The transaction's own call, or a call made by the contract that is running.
HostCallAction(c) ==
    /\ ~hostDone
    /\ live = << >> => calls = << >>
    /\ \A i \in DOMAIN live : calls[live[i]].contract # c
    /\ calls' = Append(calls, [contract |-> c, depth |-> Len(live),
                               raised |-> None, fate |-> "running"])
    /\ Emit(FnCall(IF live = << >> THEN None ELSE TopContract, c)) \/ Drop
    /\ live' = Append(live, Len(calls) + 1)
    /\ UNCHANGED <<silent, hostDone>>

HostReturn ==
    /\ ~hostDone
    /\ live # << >>
    /\ calls' = [calls EXCEPT ![Top].fate = "returned"]
    /\ live' = Pop(live)
    /\ hostDone' = (Len(live) = 1)
    /\ UNCHANGED silent
    /\ Emit(FnReturn(TopContract)) \/ Drop

HostRaise(e) ==
    /\ ~hostDone
    /\ live # << >>
    /\ calls' = [calls EXCEPT ![Top].raised = e]
    /\ Emit(ErrorEvent(TopContract, e)) \/ Drop
    /\ UNCHANGED <<live, silent, hostDone>>

\* A log or contract event of the running contract, an error or other event of
\* a contract that is not running, or an event that nobody emitted: call_tree
\* skips that whatever its kind.
HostNote ==
    /\ ~hostDone
    /\ \E c \in Contract \cup {None}, e \in Error :
        \/ /\ \/ c = None
              \/ live # << >> /\ c = TopContract
              \/ \A i \in DOMAIN live : calls[live[i]].contract # c
           /\ Len(SelectSeq(events, LAMBDA d : d.kind = "other")) < MaxNotes
           /\ Emit(OtherEvent(c)) \/ Drop
        \/ /\ c # None
           /\ \A i \in DOMAIN live : calls[live[i]].contract # c
           /\ Emit(ErrorEvent(c, e)) \/ Drop
    /\ UNCHANGED <<calls, live, silent, hostDone>>

\* The running call fails and its caller catches the failure: the caller
\* emits an error event, or says nothing.
HostCatch(e) ==
    /\ ~hostDone
    /\ Len(live) > 1
    /\ LET caller == live[Len(live) - 1] IN
       \/ /\ calls' = [calls EXCEPT ![Top].fate = "failed", ![caller].raised = e]
          /\ Emit(ErrorEvent(calls[caller].contract, e)) \/ Drop
          /\ UNCHANGED silent
       \/ /\ calls' = [calls EXCEPT ![Top].fate = "failed"]
          /\ silent' = TRUE
          /\ UNCHANGED <<treeVars, emitted, lost>>
    /\ live' = Pop(live)
    /\ UNCHANGED hostDone

\* The failure reaches the host function: every running call fails.
HostAbort(e) ==
    /\ ~hostDone
    /\ calls' = [k \in DOMAIN calls |->
                    IF \E i \in DOMAIN live : live[i] = k
                    THEN [calls[k] EXCEPT !.fate = "failed"] ELSE calls[k]]
    /\ live' = << >>
    /\ hostDone' = TRUE
    /\ UNCHANGED silent
    /\ Emit(HostFnFailed(e)) \/ Drop

HostNext ==
    \/ \E c \in Contract : HostCallAction(c)
    \/ HostReturn
    \/ HostNote
    \/ \E e \in Error : HostRaise(e) \/ HostCatch(e) \/ HostAbort(e)

\* call_tree returns only once every event has been read.
HostedFinish ==
    /\ hostDone
    /\ Finish
    /\ UNCHANGED hostVars

HostedInit == Init /\ HostInit

HostedNext == HostNext \/ HostedFinish

HostedSpec == HostedInit /\ [][HostedNext]_vars

-----------------------------------------------------------------------------
(***************************************************************************)
(* What the reconstruction owes the host, as long as it saw enough.        *)
(***************************************************************************)

\* While no event was lost, the frames reconstructed so far are the calls the
\* host made: same contracts, same order, same nesting depth.  It needs every
\* event but it does not need a caller to report the failures it catches,
\* because the emitter of the next fn_call tells how far to unwind.
CallsAreMirrored ==
    ~lost =>
        /\ Len(frames) = Len(calls)
        /\ \A k \in DOMAIN calls : /\ frames[k].contract = calls[k].contract
                                   /\ frames[k].depth = calls[k].depth

Overheard == ~lost /\ ~silent

\* While every event arrived and every catch was announced, the open frames
\* are the running calls, each with the last error its call has raised.
StackIsLive ==
    Overheard /\ ~finished /\ ~hostDone =>
        /\ Len(stack) = Len(live)
        /\ \A i \in DOMAIN live : /\ stack[i].frame = live[i]
                                  /\ stack[i].last.error = calls[live[i]].raised

\* The outcome a frame reports for the fate of the call it stands for.
Explains(outcome, call) ==
    CASE call.fate = "running"  -> outcome = Unknown
      [] call.fate = "returned" -> outcome = Returned
      [] call.fate = "failed"   ->
            IF call.raised # None
            THEN outcome.tag = "Failed" /\ outcome.error = call.raised
            ELSE outcome \in {Unknown, Failed(terminal)}

\* When call_tree returns and nothing was lost or silent, every frame tells the
\* truth: Returned exactly for the calls that returned, and Failed with the last
\* error of that very call (the terminal error when the call raised none).
OutcomesAreTrue ==
    Overheard /\ finished => \A k \in DOMAIN calls : Explains(frames[k].outcome, calls[k])

=============================================================================
