----------------------------- MODULE DiagEvents -----------------------------
(***************************************************************************)
(* The classified diagnostic events of model/events.rs.  An event keeps    *)
(* what the call tree reads: its EventKind, the contract that emitted it   *)
(* (None when nobody did), the callee of a fn_call and the ScError of an   *)
(* error or host_fn_failed.  Topics, data, messages and function names are *)
(* dropped.  A contract and an error are uninterpreted values.             *)
(*                                                                         *)
(* An event's index is its position in the list: index n of the code is    *)
(* position n + 1 here.                                                    *)
(***************************************************************************)

CONSTANTS
    Contract,     \* contract addresses
    Error,        \* ScError values
    None          \* the absent contract or error: Option::None

ASSUME NoneIsNothing == None \notin Contract \cup Error

EventKind == {"fn_call", "fn_return", "error", "host_fn_failed", "other"}

DiagEvent == [kind : EventKind, contract : Contract \cup {None},
              callee : Contract \cup {None}, error : Error \cup {None}]

FnCall(caller, callee) ==
    [kind |-> "fn_call", contract |-> caller, callee |-> callee, error |-> None]

FnReturn(c) ==
    [kind |-> "fn_return", contract |-> c, callee |-> None, error |-> None]

ErrorEvent(c, e) ==
    [kind |-> "error", contract |-> c, callee |-> None, error |-> e]

HostFnFailed(e) ==
    [kind |-> "host_fn_failed", contract |-> None, callee |-> None, error |-> e]

OtherEvent(c) ==
    [kind |-> "other", contract |-> c, callee |-> None, error |-> None]

=============================================================================
