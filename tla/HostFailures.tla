---------------------------- MODULE HostFailures ----------------------------
(***************************************************************************)
(* Analysis composed with the host whose failures it explains.             *)
(*                                                                         *)
(* The host is external, modelled from what the rules and the documents    *)
(* say of the events it emits: the contract that runs raises an error with *)
(* the message of its cause; a caller that propagates or catches a         *)
(* callee's failure emits the same error from its own frame with another   *)
(* message; host_fn_failed carries the error that reaches the top.  It     *)
(* keeps the truth a diagnosis should find: origin[i] is the event where   *)
(* the failure that event i reports was raised, and failing the one that   *)
(* is not caught yet.  Only events that carry an error are modelled, so    *)
(* an event's index is its place among them.                               *)
(***************************************************************************)
EXTENDS Analysis

CONSTANTS
    Transactions,  \* what may be submitted: source, auth, declared, code (of
                   \* each contract it may call) and what these may raise, as
                   \* [error, marker]
    Results,       \* the results of transactions that trap in no contract code
    Address, Key,  \* the addresses and data keys an error may name
    Ledger,        \* the ledger the transaction is applied in
    NamesOf,       \* the error names each WASM declares
    UpgradesTo,    \* the WASM a contract may be upgraded to afterwards
    MaxErrors      \* bound: events that carry an error

\* The host words an expired signature as Error(Auth, InvalidInput), never as
\* the InvalidAction of a missing authorization, and announces the errors that
\* contracts define by its origin message.  The codes of a Soroban operation
\* are returned by no other.
ASSUME HostAssumption ==
    /\ None \notin Contract
    /\ \A t \in Transactions :
          /\ DOMAIN t.code \subseteq Contract
          /\ \A cause \in t.raises :
                /\ cause.error = ScError(cause.error.type, cause.error.code)
                /\ cause.error.code # None
                /\ cause.error.type = "Contract" => cause.marker = "origin"
                /\ cause.marker = "expired" => cause.error # ScError("Auth", "InvalidAction")
    /\ \A r \in Results :
          /\ r.ops \in Seq(Range(r.ops))
          /\ None \notin Range(r.ops)
          /\ \A i \in DOMAIN r.ops :
                r.ops[i].code \in {"EntryArchived", "ResourceLimitExceeded",
                                  "InsufficientRefundableFee"} =>
                    r.ops[i].type \in SorobanOperation

VARIABLES
    tx,         \* the transaction
    result,     \* its result, None until it is applied
    live,       \* the contracts running, outermost first
    errs,       \* the error events so far
    origin,     \* for each, the event where its failure was raised
    failing     \* that event for the failure being propagated, 0 if none

hostVars == <<tx, result, live, errs, origin, failing>>
vars == <<model, specs, contractErrors, evaluated, reports, candidates, limitations, phase,
          tx, result, live, errs, origin, failing>>

HostInit ==
    /\ AnalysisInit
    /\ tx \in Transactions
    /\ result = None
    /\ live = << >>
    /\ errs = << >>
    /\ origin = << >>
    /\ failing = 0

Top == live[Len(live)]
Pop(s) == SubSeq(s, 1, Len(s) - 1)
NextIndex == Len(errs) + 1

Running == phase = "input" /\ live # << >>

HostCall(c) ==
    /\ phase = "input"
    /\ failing = 0
    /\ c \in DOMAIN tx.code
    /\ \A i \in DOMAIN live : live[i] # c
    /\ live = << >> => errs = << >>
    /\ live' = Append(live, c)
    /\ UNCHANGED <<analysisVars, tx, result, errs, origin, failing>>

HostReturn ==
    /\ Running
    /\ failing = 0
    /\ Len(live) > 1
    /\ live' = Pop(live)
    /\ UNCHANGED <<analysisVars, tx, result, errs, origin, failing>>

\* What the data of an error event says, if it can be read.
DataOf(marker) ==
    {NoData} \cup
    CASE marker = "expired" ->
            {[NoData EXCEPT !.address = e.address, !.expiry = e.expiry] :
                e \in {tx.auth[i] : i \in {j \in DOMAIN tx.auth :
                                             /\ tx.auth[j].address # None
                                             /\ tx.auth[j].expiry < Ledger}}}
      [] marker = "nonce" ->
            {[NoData EXCEPT !.address = tx.auth[i].address] : i \in DOMAIN tx.auth}
      [] marker = "unauthorized" -> {[NoData EXCEPT !.address = a] : a \in Address}
      [] marker = "footprint"    -> {[NoData EXCEPT !.key = k] : k \in Key}
      [] OTHER                   -> {}

HostRaise(cause) ==
    /\ Running
    /\ cause \in tx.raises
    /\ failing = 0
    /\ NextIndex <= MaxErrors
    /\ cause.marker = "nonce" => tx.auth # << >>
    /\ cause.marker = "expired" => DataOf("expired") # {NoData}
    /\ \E data \in DataOf(cause.marker) :
          errs' = Append(errs, EmittedError(Top, cause.error, cause.marker, NextIndex, data))
    /\ origin' = Append(origin, NextIndex)
    /\ failing' = NextIndex
    /\ UNCHANGED <<analysisVars, tx, result, live>>

\* The caller emits the error again, and fails in turn or catches it.
HostUnwind(caught) ==
    /\ Running
    /\ failing # 0
    /\ Len(live) > 1
    /\ NextIndex <= MaxErrors
    /\ errs' = Append(errs, EmittedError(live[Len(live) - 1], errs[failing].error,
                                         "other", NextIndex, NoData))
    /\ origin' = Append(origin, failing)
    /\ failing' = IF caught THEN 0 ELSE failing
    /\ live' = Pop(live)
    /\ UNCHANGED <<analysisVars, tx, result>>

-----------------------------------------------------------------------------
\* Who authorizes: an address until a ledger, or the source account, None.
AuthEntry(address, expiry) == [address |-> address, expiry |-> expiry]

\* The specs fetched after the fact: each is of the code that ran or, if the
\* contract was upgraded since, of other code; or it could not be fetched.
Fetched ==
    LET code(c)   == IF c \in DOMAIN tx.code THEN {tx.code[c]} \cup UpgradesTo ELSE {}
        choice(c) == {None} \cup {Spec(w, NamesOf[w]) : w \in code(c)}
    IN {f \in [Contract -> UNION {choice(c) : c \in Contract}] :
          \A c \in Contract : f[c] \in choice(c)}

Soroban ==
    [auth |-> tx.auth, declared |-> tx.declared, loaded |-> {tx.code[c] : c \in DOMAIN tx.code}]

IsClassic(r) == \E i \in DOMAIN r.ops : r.ops[i].type = "Classic"

\* What the engine is given.  Attaching events says that the node emits them; a
\* node that does not leaves the input as it was built, without any.
AnalysisInput(r, emitted, terminal) ==
    [result |-> r, diagnostics_enabled |-> emitted,
     errors |-> IF emitted THEN errs ELSE << >>, terminal |-> IF emitted THEN terminal ELSE None]

\* TransactionModel::from_input.
Model(input) ==
    [outcome |-> Classify(input.result),
     soroban |-> IF IsClassic(input.result) THEN None ELSE Soroban,
     source |-> tx.source, emitted |-> input.diagnostics_enabled,
     errors |-> input.errors, terminal |-> input.terminal]

Trapped(bump) ==
    Result(bump, "TxFailed", <<OpResult("InvokeHostFunction", "Trapped")>>)

\* The failure reaches the host function.
HostAbort ==
    /\ Running
    /\ failing # 0
    /\ Len(live) = 1
    /\ result' \in {Trapped(bump) : bump \in {None, "TxFeeBumpInnerFailed"}}
    /\ \E emitted \in BOOLEAN, supplied \in Fetched :
          LET terminal == [error |-> errs[failing].error, index |-> NextIndex]
          IN Begin(Model(AnalysisInput(result', emitted, terminal)), supplied)
    /\ UNCHANGED <<tx, live, errs, origin, failing>>

\* The transaction succeeds, or fails otherwise than by a trap.
HostRefuse ==
    /\ phase = "input"
    /\ live = << >>
    /\ result' \in Results
    /\ \E emitted \in BOOLEAN :
          Begin(Model(AnalysisInput(result', emitted, None)), [c \in Contract |-> None])
    /\ UNCHANGED <<tx, live, errs, origin, failing>>

HostedAnalyse == Analyse /\ UNCHANGED hostVars

HostedNext ==
    \/ \E c \in Contract : HostCall(c)
    \/ \E cause \in UNION {t.raises : t \in Transactions} : HostRaise(cause)
    \/ \E caught \in BOOLEAN : HostUnwind(caught)
    \/ HostReturn
    \/ HostAbort
    \/ HostRefuse
    \/ HostedAnalyse

HostedSpec == HostInit /\ [][HostedNext]_vars


-----------------------------------------------------------------------------
(***************************************************************************)
(* What a diagnosis owes the host's truth.                                 *)
(***************************************************************************)

DiagnosticRules == {"contract_defined_error", "invalid_authorization_entry",
                    "footprint_entry_missing", "contract_trap",
                    "missing_authorization_entry"}

CandidateSet == {candidates[i] : i \in DOMAIN candidates}
Confirmed == {c \in CandidateSet : c.confidence = "Confirmed"}

\* Two rules never confirm two causes of one failure: "one authorization
\* failure is never claimed by both" (docs/architecture/rules.md:143-144), and
\* neither is any other.  The rules are independent: nothing in analyze_with
\* enforces it.
AtMostOneConfirmed == Cardinality(Confirmed) <= 1

\* An error of the same value was raised before the one that ended the
\* invocation, and was caught.
CaughtBefore ==
    \E i \in DOMAIN errs : origin[i] # failing /\ errs[i].error = errs[failing].error

\* A rule that confirms a cause blames the failure that really ended the
\* invocation, except that it cannot tell it from an earlier, caught one of
\* the same value: the error events carry no identity.
ConfirmedIsTheCulprit ==
    \A c \in Confirmed :
        c.rule \in DiagnosticRules => origin[c.event] = failing \/ CaughtBefore

\* When a contract-defined error is attributed to a contract, it is the one
\* that raised it and none of the callers that only emitted it again: the
\* terminal error comes from the contract that failed, every other code from a
\* contract that raised it, and the event a cause names is one of the contract
\* it names, though the rule looks the two up separately.
ErrorsComeFromTheirOrigin ==
    /\ \A i \in DOMAIN contractErrors :
          LET r == contractErrors[i]
              c == Identified(r.who)
          IN c # None =>
              /\ \E j \in DOMAIN errs : /\ origin[j] = j
                                        /\ errs[j].contract = c
                                        /\ errs[j].error = ContractError(r.code)
              /\ r.terminal => errs[failing].contract = c
    /\ \A c \in CandidateSet :
          c.rule = "contract_defined_error" /\ c.subject # None =>
              errs[c.event].contract = c.subject

\* A name whose spec was verified is one that the code which ran gives that
\* error (SpecProvenance, contract/resolve.rs:126: "Whether a spec is known to
\* describe the code that ran").
VerifiedNamesDescribeTheCode ==
    \A i \in DOMAIN contractErrors :
        LET r == contractErrors[i] IN
        r.resolution.verified /\ r.resolution.name # None =>
            r.resolution.name \in NamesOf[tx.code[Identified(r.who)]][r.code]

\* The rules of a diagnosis without diagnostics conclude nothing that the
\* diagnostics would not have shown: a trap is inconclusive, never unsupported
\* and never explained.
AbsenceConcludesNothing ==
    phase = "done" /\ ~model.emitted =>
        /\ \A c \in CandidateSet : c.rule \notin DiagnosticRules
        /\ model.outcome.stage = "ContractExecution" => Verdict = "InsufficientEvidence"

\* A cause confirmed by a result code is confirmed exactly when the first
\* operation that failed returned that code, under a fee bump or not.
CodesConfirmTheirCause ==
    LET returned(code) ==
            /\ result.code = "TxFailed"
            /\ \E i \in DOMAIN result.ops :
                  /\ result.ops[i].code = code
                  /\ \A j \in 1 .. i - 1 : result.ops[j].code = "Success"
        claimed(rule) == \E c \in CandidateSet : c.rule = rule
    IN phase = "done" =>
        /\ claimed("archived_entry") <=> returned("EntryArchived")
        /\ claimed("resource_limit_exceeded") <=> returned("ResourceLimitExceeded")
        /\ claimed("insufficient_resource_fee") <=> returned("InsufficientRefundableFee")

\* The model of the same transaction under a host release that rewords one of
\* its messages.
Reworded(m, marker) ==
    [m EXCEPT !.errors = [i \in DOMAIN m.errors |->
        LET e == m.errors[i] IN
        IF e.marker = marker THEN EmittedError(e.contract, e.error, "other", e.index, e.data)
        ELSE e]]

\* "If a host release rewords it, this rule degrades to "no evidence", never to
\* a false diagnosis" (rules/footprint.rs:26-28 and three other rules): whatever
\* message is reworded, a rule that matches also matched before, and one that
\* now confirms confirmed the same before or confirms the failure that ended
\* the invocation, or a caught one of the same value.
RewordingDegrades ==
    phase = "sorted" =>
        \A marker \in Marker, i \in DOMAIN Registry :
            LET m     == Reworded(model, marker)
                after == Evaluate(Registry[i], m,
                            ResolveContractErrors(m.errors, m.terminal, specs, CodeHashes(m)))
            IN
            /\ after.status = "Matched" => reports[i].status = "Matched"
            /\ after.confidence = "Confirmed" =>
                  after = reports[i] \/ origin[after.event] = failing \/ CaughtBefore

\* "Partial evidence is still evidence" (decode.rs:82): whichever error event
\* does not decode, or the one that ended the invocation, no rule matches that
\* did not match before unless the lost event was of a failure that had been
\* caught, and one that now confirms a cause blames the failure that ended the
\* invocation or a caught one of the same value, as without the loss.
LossDegrades ==
    LET lost(i) == IF i = 0 THEN [model EXCEPT !.terminal = None]
                            ELSE [model EXCEPT !.errors = RemoveAt(@, i)]
        after(m, rule) == Evaluate(rule, m,
                             ResolveContractErrors(m.errors, m.terminal, specs, CodeHashes(m)))
    IN phase = "sorted" /\ model.emitted =>
        \A i \in 0 .. Len(model.errors), n \in DOMAIN Registry :
            LET outcome == after(lost(i), Registry[n]) IN
            /\ outcome.status = "Matched" =>
                  reports[n].status = "Matched" \/ (i # 0 /\ origin[i] # failing)
            /\ outcome.confidence = "Confirmed" /\ outcome.event # 0 =>
                  origin[outcome.event] = failing \/ CaughtBefore

-----------------------------------------------------------------------------
(***************************************************************************)
(* What the documents say and the code does not do.                        *)
(***************************************************************************)

\* "Confirmed when the error ended the invocation and no authorization entry in
\* the envelope carries credentials for that address"
\* (docs/architecture/rules.md, missing_authorization_entry).
ConfirmedMissingEndedIt ==
    \A c \in Confirmed :
        c.rule = "missing_authorization_entry" => origin[c.event] = failing

\* `signature has expired`: "Confirmed when the error ended the invocation and
\* the entry's expiry matches the one the host checked"
\* (docs/architecture/rules.md:149), also after another failure was caught.
EndingExpiryIsConfirmed ==
    phase = "done" /\ model.emitted /\ model.terminal # None
    /\ errs[failing].marker = "expired"
    /\ errs[failing].data.address # None
    /\ (\A i, j \in DOMAIN tx.auth : tx.auth[i].address = tx.auth[j].address => i = j) =>
        \E c \in Confirmed : origin[c.event] = failing

=============================================================================
