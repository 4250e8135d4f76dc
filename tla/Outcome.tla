------------------------------- MODULE Outcome -------------------------------
(***************************************************************************)
(* model/outcome.rs: from the result of a transaction to the stage it      *)
(* failed at.  A result is its effective code, the name of its fee-bump    *)
(* wrapper and the results of its operations; an operation result is the   *)
(* operation's type and its code.  Fees and hashes are dropped, and every  *)
(* classic operation is "Classic" with the codes "Success" and "Failure".  *)
(***************************************************************************)
EXTENDS Naturals, Sequences

CONSTANT None     \* the absent value: Option::None

FailureStage == {"Validation", "Sequence", "Fee", "Operation", "HostFunction",
                 "ContractExecution", "StateArchival", "ResourceLimit",
                 "ResourceFee", "Unknown"}

ValidationCode ==
    {"TxTooEarly", "TxTooLate", "TxMissingOperation", "TxBadAuth",
     "TxBadAuthExtra", "TxNoAccount", "TxNotSupported", "TxBadSponsorship",
     "TxMalformed", "TxSorobanInvalid"}
SequenceCode == {"TxBadSeq", "TxBadMinSeqAgeOrGap"}
FeeCode == {"TxInsufficientFee", "TxInsufficientBalance"}
UnknownCode == {"TxInternalError", "TxFrozenKeyAccessed"}

TxCode == {"TxSuccess", "TxFailed"} \cup ValidationCode \cup SequenceCode
            \cup FeeCode \cup UnknownCode

\* The generic codes that do not say which operation type failed.
WrapperCode == {"OpBadAuth", "OpNoAccount", "OpNotSupported", "OpTooManySubentries",
                "OpExceededWorkLimit", "OpTooManySponsoring"}

FeeBump == {"TxFeeBumpInnerSuccess", "TxFeeBumpInnerFailed"}

Result(bump, code, ops) == [feeBump |-> bump, code |-> code, ops |-> ops]
OpResult(type, code) == [type |-> type, code |-> code]

-----------------------------------------------------------------------------
\* The stage a result that never ran its operations was rejected at.
RejectedStage(code) ==
    CASE code \in ValidationCode -> "Validation"
      [] code \in SequenceCode   -> "Sequence"
      [] code \in FeeCode        -> "Fee"
      [] OTHER                   -> "Unknown"

SorobanOperation == {"InvokeHostFunction", "ExtendFootprintTtl", "RestoreFootprint"}

\* The stage of a failed Soroban operation: only the invocation maps Malformed.
SorobanStage(op) ==
    CASE op.code = "ResourceLimitExceeded"     -> "ResourceLimit"
      [] op.code = "InsufficientRefundableFee" -> "ResourceFee"
      [] op.code = "Trapped"                   -> "ContractExecution"
      [] op.code = "EntryArchived"             -> "StateArchival"
      [] op.code = "Malformed" ->
            IF op.type = "InvokeHostFunction" THEN "HostFunction" ELSE "Unknown"

OperationStage(op) ==
    CASE op.code \in {"OpBadAuth", "OpNoAccount"} -> "Validation"
      [] op.code \in WrapperCode \ {"OpBadAuth", "OpNoAccount"} -> "Unknown"
      [] op.code \notin WrapperCode /\ op.type \in SorobanOperation -> SorobanStage(op)
      [] OTHER -> "Operation"

\* Mutant: the last operation that failed.
FirstFailed_Last(ops) ==
    LET failed == {i \in DOMAIN ops : ops[i].code # "Success"} IN
    IF failed = {} THEN None ELSE CHOOSE i \in failed : \A j \in failed : j <= i

\* The first operation that did not succeed, if any.
FirstFailed(ops) ==
    LET failed == {i \in DOMAIN ops : ops[i].code # "Success"} IN
    IF failed = {} THEN None ELSE CHOOSE i \in failed : \A j \in failed : i <= j

\* A fee bump is unwrapped whatever its wrapper says: the effective code is
\* the inner one.  The stage of a success is None.
Classify(result) ==
    CASE result.code = "TxSuccess" -> [stage |-> None, failed |-> None]
      [] result.code = "TxFailed" ->
            LET i == FirstFailed(result.ops) IN
            IF i = None THEN [stage |-> "Unknown", failed |-> None]
            ELSE [stage |-> OperationStage(result.ops[i]), failed |-> result.ops[i]]
      [] OTHER -> [stage |-> RejectedStage(result.code), failed |-> None]

=============================================================================
