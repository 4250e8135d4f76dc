-------------------------------- MODULE Rules --------------------------------
(***************************************************************************)
(* The eight rules of soroban-failure-analysis/src/rules, as operators on  *)
(* the canonical model of a transaction (model/mod.rs):                    *)
(*   outcome   Outcome!Classify of its result;                             *)
(*   soroban   None, or its authorization entries, the data keys its       *)
(*             footprint declares and the WASM hashes it names;            *)
(*   source    its source account;                                         *)
(*   emitted   are its diagnostic events available;                        *)
(*   errors    its error events; terminal its host_fn_failed.              *)
(*                                                                         *)
(* A rule's outcome keeps its status and, for a match, the confidence, the *)
(* error event it blames and the address, key or contract it names.        *)
(* Summaries and remediations are dropped.                                 *)
(***************************************************************************)
EXTENDS ContractErrors

RuleStatus == {"NotApplicable", "NoEvidence", "Matched"}
Confidence == {"Possible", "Likely", "Confirmed"}

NotApplicable == [status |-> "NotApplicable", confidence |-> None, event |-> 0, subject |-> None]
NoEvidence == [NotApplicable EXCEPT !.status = "NoEvidence"]
Matched(confidence, event, subject) ==
    [status |-> "Matched", confidence |-> confidence, event |-> event, subject |-> subject]

-----------------------------------------------------------------------------
\* result_code_gate and the three rules that are confirmed by a result code.
\* They blame no event: event 0.
ResultCodeRule(m, wanted, code) ==
    IF m.outcome.stage # wanted THEN NotApplicable
    ELSE IF m.outcome.failed = None THEN NoEvidence
    ELSE IF m.outcome.failed.code # code THEN NoEvidence
    ELSE Matched("Confirmed", 0, None)

ArchivedEntry(m) == ResultCodeRule(m, "StateArchival", "EntryArchived")

ResourceLimitExceeded(m) == ResultCodeRule(m, "ResourceLimit", "ResourceLimitExceeded")

InsufficientResourceFee(m) ==
    IF m.outcome.stage = "Fee" THEN NotApplicable
    ELSE ResultCodeRule(m, "ResourceFee", "InsufficientRefundableFee")

-----------------------------------------------------------------------------
\* Mutant: a rule does not concern a transaction without diagnostics.
Concerns_Emitted(m, needsSoroban) ==
    /\ m.outcome.stage = "ContractExecution"
    /\ needsSoroban => m.soroban # None
    /\ m.emitted

\* The gates the other five rules share.  needsSoroban: the rule reads the
\* authorization entries or the footprint.
Concerns(m, needsSoroban) ==
    m.outcome.stage = "ContractExecution" /\ (needsSoroban => m.soroban # None)

\* Mutant: two errors of one type are the same error.
EndedBy_SameType(m, i) ==
    m.terminal # None /\ m.terminal.error.type = m.errors[i].error.type

\* The error that ended the invocation has the value of event i's error.  The
\* code compares values: it does not ask whether it is that occurrence.
EndedBy(m, i) == m.terminal # None /\ m.terminal.error = m.errors[i].error

\* The first entry with credentials for the address, as an index; 0 if none.
EntryFor(m, address) ==
    IF address = None THEN 0
    ELSE SelectInSeq(m.soroban.auth, LAMBDA entry : entry.address = address)

TerminalReport(reports) == SelectInSeq(reports, LAMBDA r : r.terminal)

\* Where the code was raised: its first event that is not the terminal one.
RaisedAt(m, report) ==
    LET earlier == {i \in DOMAIN report.events : report.events[i] # m.terminal.index}
    IN IF earlier = {} THEN m.terminal.index ELSE report.events[Min(earlier)]

ContractDefinedError(m, reports) ==
    IF ~Concerns(m, FALSE) THEN NotApplicable
    ELSE IF ~m.emitted \/ m.terminal = None THEN NoEvidence
    ELSE IF m.terminal.error.type # "Contract" THEN NotApplicable
    ELSE IF TerminalReport(reports) = 0 THEN NoEvidence
    ELSE LET report == reports[TerminalReport(reports)]
             res    == report.resolution
         IN Matched(IF res.tag = "Resolved" /\ res.verified THEN "Confirmed" ELSE "Likely",
                    RaisedAt(m, report), Identified(report.who))

-----------------------------------------------------------------------------
IsAuth(e) == e.error.type = "Auth"
IsInvalidEntry(e) == IsAuth(e) /\ e.marker \in {"expired", "nonce"}

\* The entry found for the address expires at the ledger the host checked.
\* The host reports a signature as expired only past that ledger.
Corroborated(m, i) ==
    LET data  == m.errors[i].data
        entry == EntryFor(m, data.address)
    IN entry # 0 /\ data.expiry # None /\ m.soroban.auth[entry].expiry = data.expiry

\* Mutant: an expired signature is confirmed without having ended anything.
InvalidEntryConfidence_Caught(m, i) ==
    IF m.errors[i].marker = "expired"
    THEN IF Corroborated(m, i) THEN "Confirmed"
         ELSE IF EndedBy(m, i) THEN "Likely" ELSE "Possible"
    ELSE IF EndedBy(m, i) /\ EntryFor(m, m.errors[i].data.address) # 0
         THEN "Likely" ELSE "Possible"

InvalidEntryConfidence(m, i) ==
    IF m.errors[i].marker = "expired"
    THEN IF ~EndedBy(m, i) THEN "Possible"
         ELSE IF Corroborated(m, i) THEN "Confirmed" ELSE "Likely"
    ELSE IF EndedBy(m, i) /\ EntryFor(m, m.errors[i].data.address) # 0
         THEN "Likely" ELSE "Possible"

InvalidAuthorizationEntry(m) ==
    LET i == SelectInSeq(m.errors, IsInvalidEntry) IN
    IF ~Concerns(m, TRUE) THEN NotApplicable
    ELSE IF ~m.emitted THEN NoEvidence
    ELSE IF SelectInSeq(m.errors, IsAuth) = 0
         THEN IF m.terminal # None THEN NotApplicable ELSE NoEvidence
    ELSE IF i = 0 THEN NoEvidence
    ELSE Matched(InvalidEntryConfidence(m, i), m.errors[i].index, m.errors[i].data.address)

-----------------------------------------------------------------------------
IsUnauthorized(e) ==
    e.error = ScError("Auth", "InvalidAction") /\ e.marker = "unauthorized"

\* Mutant: without the message, any authorization error will do.
MissingAuthorizationEntry_Fallback(m) ==
    LET named   == SelectInSeq(m.errors, IsUnauthorized)
        i       == IF named = 0 THEN SelectInSeq(m.errors, IsAuth) ELSE named
        address == m.errors[i].data.address
    IN IF ~Concerns(m, TRUE) THEN NotApplicable
       ELSE IF ~m.emitted \/ i = 0 THEN NoEvidence
       ELSE IF address # None /\ address = m.source THEN NotApplicable
       ELSE IF EntryFor(m, address) # 0 THEN NoEvidence
       ELSE Matched(IF EndedBy(m, i) /\ address # None THEN "Confirmed" ELSE "Likely",
                    m.errors[i].index, address)

MissingAuthorizationEntry(m) ==
    LET i       == SelectInSeq(m.errors, IsUnauthorized)
        address == m.errors[i].data.address
    IN IF ~Concerns(m, TRUE) THEN NotApplicable
       ELSE IF ~m.emitted \/ i = 0 THEN NoEvidence
       ELSE IF address # None /\ address = m.source THEN NotApplicable
       ELSE IF EntryFor(m, address) # 0 THEN NoEvidence
       ELSE Matched(IF EndedBy(m, i) /\ address # None THEN "Confirmed" ELSE "Likely",
                    m.errors[i].index, address)

-----------------------------------------------------------------------------
IsOutsideFootprint(e) == e.error.type = "Storage" /\ e.marker = "footprint"

\* A key counts as declared under either durability.
FootprintConfidence(m, i) ==
    LET key == m.errors[i].data.key IN
    IF ~EndedBy(m, i) \/ key \in m.soroban.declared THEN "Possible"
    ELSE IF key = None THEN "Likely" ELSE "Confirmed"

FootprintEntryMissing(m) ==
    LET i == SelectInSeq(m.errors, IsOutsideFootprint) IN
    IF ~Concerns(m, TRUE) THEN NotApplicable
    ELSE IF ~m.emitted \/ i = 0 THEN NoEvidence
    ELSE Matched(FootprintConfidence(m, i), m.errors[i].index, m.errors[i].data.key)

-----------------------------------------------------------------------------
\* Any WasmVm error passes; the message tells an unreachable instruction apart.
ContractTrap(m) ==
    LET i == SelectInSeq(m.errors, LAMBDA e : e.error = m.terminal.error
                                              /\ e.marker = "unreachable")
    IN IF ~Concerns(m, FALSE) THEN NotApplicable
       ELSE IF ~m.emitted \/ m.terminal = None THEN NoEvidence
       ELSE IF m.terminal.error.type # "WasmVm" THEN NotApplicable
       ELSE IF i = 0 THEN NoEvidence
       ELSE Matched("Likely", m.errors[i].index, m.errors[i].contract)

-----------------------------------------------------------------------------
\* RuleRegistry::builtin, in registration order.
Builtin ==
    <<"archived_entry", "resource_limit_exceeded", "insufficient_resource_fee",
      "contract_defined_error", "invalid_authorization_entry",
      "footprint_entry_missing", "contract_trap", "missing_authorization_entry">>

\* Rule::evaluate of the rule with this id.
Evaluate(rule, m, reports) ==
    CASE rule = "archived_entry"              -> ArchivedEntry(m)
      [] rule = "resource_limit_exceeded"     -> ResourceLimitExceeded(m)
      [] rule = "insufficient_resource_fee"   -> InsufficientResourceFee(m)
      [] rule = "contract_defined_error"      -> ContractDefinedError(m, reports)
      [] rule = "invalid_authorization_entry" -> InvalidAuthorizationEntry(m)
      [] rule = "footprint_entry_missing"     -> FootprintEntryMissing(m)
      [] rule = "contract_trap"               -> ContractTrap(m)
      [] rule = "missing_authorization_entry" -> MissingAuthorizationEntry(m)

=============================================================================
