------------------------------ MODULE Response ------------------------------
(***************************************************************************)
(* The answer to getTransaction and its two readers, which share no code:  *)
(* decode_get_transaction (soroban-failure-rpc/src/decode.rs), which feeds *)
(* the engine, and probe_transaction (rpc-probe/src/probe.rs), which       *)
(* measures an endpoint and describes the fixtures.                        *)
(*                                                                         *)
(* A field is None when it is absent and Bad when it does not decode.  An  *)
(* envelope is what operation it carries, a result one of Outcome, a meta  *)
(* its version and events; an event is a value, or Bad.                    *)
(***************************************************************************)
EXTENDS Outcome, Places, SequencesExt

CONSTANT Bad     \* what does not decode

Meta(version, soroban, events) ==
    [version |-> version, soroban |-> soroban, events |-> events]

Answer(hash, ledger, status) ==
    [hash |-> hash, ledger |-> ledger, status |-> status, envelope |-> None,
     result |-> None, meta |-> None, top |-> None, nested |-> None]

Strings(field) == IF field = None THEN << >> ELSE field

\* The diagnostics a meta carries: V3 within its Soroban meta, V4 itself.
Embedded(meta) ==
    IF meta \in {None, Bad} THEN << >>
    ELSE IF meta.version = 4 \/ (meta.version = 3 /\ meta.soroban) THEN meta.events
    ELSE << >>

-----------------------------------------------------------------------------
(***************************************************************************)
(* decode.rs.                                                              *)
(***************************************************************************)

DecodeEvents(raw) == Only(raw, {i \in DOMAIN raw : raw[i] # Bad})

LocateDiagnostics(a) ==
    IF Strings(a.top) # << >>
    THEN [source |-> "TopLevel", events |-> DecodeEvents(a.top)]
    ELSE IF Strings(a.nested) # << >>
    THEN [source |-> "EventsObject", events |-> DecodeEvents(a.nested)]
    ELSE IF Embedded(a.meta) # << >>
    THEN [source |-> "ResultMeta", events |-> Embedded(a.meta)]
    ELSE [source |-> None, events |-> << >>]

\* What decode_get_transaction refuses an answer for, None if it does not: the
\* status first, then what is absent, then what does not decode.
DecodeError(a) ==
    IF a.status = "NOT_FOUND" THEN "TransactionNotFound"
    ELSE IF a.status \notin {"SUCCESS", "FAILED", None} THEN "UnknownStatus"
    ELSE IF None \in {a.status, a.envelope, a.result} THEN "MissingField"
    ELSE IF Bad \in {a.envelope, a.result, a.meta} THEN "Xdr"
    ELSE None

-----------------------------------------------------------------------------
(***************************************************************************)
(* probe.rs and result_codes.rs.                                           *)
(***************************************************************************)

Usable(field) == field \notin {None, Bad}

\* Mutant: the probe looks for the events of a V4 meta in its Soroban meta.
LocateDiagnosticEvents_V3(a) ==
    IF Strings(a.top) # << >>
    THEN [location |-> "TopLevel", raw |-> a.top]
    ELSE IF Strings(a.nested) # << >>
    THEN [location |-> "EventsObject", raw |-> a.nested]
    ELSE IF Usable(a.meta) /\ a.meta.version = 3 /\ Embedded(a.meta) # << >>
    THEN [location |-> "ResultMeta", raw |-> a.meta.events]
    ELSE [location |-> None, raw |-> << >>]

LocateDiagnosticEvents(a) ==
    IF Strings(a.top) # << >>
    THEN [location |-> "TopLevel", raw |-> a.top]
    ELSE IF Strings(a.nested) # << >>
    THEN [location |-> "EventsObject", raw |-> a.nested]
    ELSE IF Embedded(a.meta) # << >>
    THEN [location |-> "ResultMeta", raw |-> Embedded(a.meta)]
    ELSE [location |-> None, raw |-> << >>]

\* failure_signal: what the result says, a fee bump unwrapped.  Operations
\* count wherever they are carried, the first that failed or not.
FailureSignal(result) ==
    [fee_bumped |-> result.feeBump # None,
     failed_in_contract_execution |->
        /\ result.code \in {"TxSuccess", "TxFailed"}
        /\ \E i \in DOMAIN result.ops :
              result.ops[i].type = "InvokeHostFunction" /\ result.ops[i].code # "Success"]

ProbeVerdict(a, undecoded, count) ==
    IF a.status = "NOT_FOUND" THEN "TransactionNotFound"
    ELSE IF a.status = "SUCCESS" THEN "NotAFailedTransaction"
    ELSE IF ~Usable(a.envelope) \/ ~Usable(a.result) THEN "Unusable"
    ELSE IF count > 0 /\ undecoded = 0 THEN "SufficientForAnalysis"
    ELSE "InsufficientForFullAnalysis"

\* probe_transaction: every answer has a report.
ProbeTransaction(asked, a) ==
    LET located   == LocateDiagnosticEvents(a)
        count     == Len(located.raw)
        undecoded == Cardinality({i \in DOMAIN located.raw : located.raw[i] = Bad})
    IN [transaction |-> asked, ledger |-> a.ledger,
        is_soroban |-> a.envelope = "soroban",
        signal |-> IF Usable(a.result) THEN FailureSignal(a.result) ELSE None,
        location |-> located.location, count |-> count, decoded_count |-> count - undecoded,
        verdict |-> ProbeVerdict(a, undecoded, count)]

-----------------------------------------------------------------------------
\* Events the decoder drops.  No field of its own result tells of them.
Lost(a) == Len(LocateDiagnosticEvents(a).raw) - Len(LocateDiagnostics(a).events)

\* The probe, which decides whether an endpoint is good enough for analysis,
\* and the decoder, which analysis begins with, agree on every answer: on what
\* was not found, on where the events are and how many are readable, on what is
\* unusable, and on which failures are the contract's own.
Agree(asked, a) ==
    LET report  == ProbeTransaction(asked, a)
        located == LocateDiagnostics(a)
        error   == DecodeError(a)
    IN
    /\ report.verdict = "TransactionNotFound" <=> error = "TransactionNotFound"
    /\ report.verdict = "Unusable" => error \in {"MissingField", "UnknownStatus", "Xdr"}
    /\ error = None =>
          /\ a.status = "FAILED" <=> report.verdict # "NotAFailedTransaction"
          /\ report.location = located.source
          /\ report.decoded_count = Len(located.events)
          /\ report.verdict = "SufficientForAnalysis" => located.events # << >> /\ Lost(a) = 0
          /\ Classify(a.result).stage = "ContractExecution" =>
                report.signal.failed_in_contract_execution
    /\ error = "Xdr" /\ report.verdict = "SufficientForAnalysis" => a.meta = Bad

=============================================================================
