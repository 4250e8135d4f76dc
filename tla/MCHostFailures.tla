--------------------------- MODULE MCHostFailures ---------------------------
(***************************************************************************)
(* HostFailures with transactions of every family of causes: one whose     *)
(* contracts fail to authorize, one that violates its footprint or traps,  *)
(* contract-defined errors across three contracts, failures no rule covers *)
(* and results of every stage.                                             *)
(***************************************************************************)
EXTENDS HostFailures

Cause(type, code, marker) == [error |-> ScError(type, code), marker |-> marker]

MCAddress == {"source", "alice", "bob"}
MCKey == {"k1", "k2"}

ContractCauses == {Cause("Contract", "1", "origin"), Cause("Contract", "2", "origin")}

AuthCauses ==
    {Cause("Auth", "InvalidInput", "expired"), Cause("Auth", "ExistingValue", "nonce"),
     Cause("Auth", "InvalidAction", "unauthorized"), Cause("Auth", "InvalidAction", "other")}

HostCauses ==
    {Cause("Storage", "ExceededLimit", "footprint"), Cause("Storage", "ExceededLimit", "other"),
     Cause("WasmVm", "InvalidAction", "unreachable"), Cause("WasmVm", "InvalidAction", "other"),
     Cause("Contract", "1", "origin")}

UncoveredCauses == {Cause("Budget", "ExceededLimit", "other"),
                    Cause("WasmVm", "IndexBounds", "other")}

-----------------------------------------------------------------------------
CONSTANTS c1, c2, c3

Tx(auth, declared, code, raises) ==
    [source |-> "source", auth |-> auth, declared |-> declared, code |-> code,
     raises |-> raises]

OneCode == [c \in {c1, c2} |-> "w1"]
\* Every choice of code for three contracts, up to a permutation of them.
CodesOfThree ==
    {[c \in {c1, c2, c3} |-> IF c \in S THEN "w2" ELSE "w1"] :
        S \in {{}, {c3}, {c2, c3}, {c1, c2, c3}}}

\* Entries that are valid, expired, doubled for an address or the source's own.
AuthTxs ==
    {Tx(auth, {"k1"}, OneCode, AuthCauses) :
        auth \in {<< >>, <<AuthEntry(None, 0)>>, <<AuthEntry("alice", 1)>>,
                  <<AuthEntry("alice", 3), AuthEntry("alice", 1)>>,
                  <<AuthEntry("bob", 3), AuthEntry("alice", 1)>>}}

HostTxs == {Tx(<< >>, {"k1"}, OneCode, HostCauses)}
CodeTxs == {Tx(<< >>, {}, code, ContractCauses) : code \in CodesOfThree}
UncoveredTxs == {Tx(<< >>, {"k1"}, OneCode, UncoveredCauses)}

MCTransactions == AuthTxs \cup HostTxs \cup CodeTxs \cup UncoveredTxs

\* Code 1 has one name in w1, another in w2 and w3; code 2 none in w2 and two
\* in w3.
MCNamesOf ==
    [w1 |-> ("1" :> {"Paused"} @@ "2" :> {"Late"}),
     w2 |-> ("1" :> {"Broke"}  @@ "2" :> {}),
     w3 |-> ("1" :> {"Closed"} @@ "2" :> {"Late", "Early"})]

-----------------------------------------------------------------------------
Ops == {OpResult("InvokeHostFunction", c) :
          c \in {"Success", "Malformed", "ResourceLimitExceeded", "EntryArchived",
                 "InsufficientRefundableFee"}}
       \cup {OpResult(t, c) :
               t \in {"ExtendFootprintTtl", "RestoreFootprint"},
               c \in {"Success", "Malformed", "ResourceLimitExceeded",
                      "InsufficientRefundableFee"}}
       \cup {OpResult("Classic", "Success"), OpResult("Classic", "Failure")}
       \cup {OpResult(None, c) : c \in WrapperCode}

Fails(ops) == \E i \in DOMAIN ops : ops[i].code # "Success"

AllResults ==
    {Result(bump, "TxSuccess", << >>) : bump \in {None, "TxFeeBumpInnerSuccess"}}
    \cup {Result(bump, code, << >>) : bump \in {None, "TxFeeBumpInnerFailed"},
                                      code \in TxCode \ {"TxSuccess", "TxFailed"}}
    \cup {Result(bump, "TxFailed", ops) :
            bump \in {None, "TxFeeBumpInnerFailed"},
            ops \in {s \in Ops \X Ops : Fails(s)} \cup {<<op>> : op \in {o \in Ops : Fails(<<o>>)}}}
=============================================================================
