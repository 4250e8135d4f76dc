------------------------ MODULE HostFailures_proofs -------------------------
(***************************************************************************)
(* Proofs about a diagnosis composed with the host whose failure it        *)
(* explains: the safety properties of HostFailures and Analysis, and that  *)
(* Analysis implements Diagnosis.                                          *)
(***************************************************************************)
EXTENDS HostFailures, ContractErrors_proofs

-----------------------------------------------------------------------------
(***************************************************************************)
(* The first element that passes a test.                                   *)
(***************************************************************************)

First(I) == IF I # {} THEN Min(I) ELSE 0

LEMMA FirstFacts ==
    ASSUME NEW k \in Nat, NEW I \in SUBSET (1 .. k)
    PROVE  \/ I = {} /\ First(I) = 0
           \/ First(I) \in I /\ \A j \in I : First(I) <= j
BY MinFacts DEF First

-----------------------------------------------------------------------------
(***************************************************************************)
(* What each rule needs to match and to confirm.                           *)
(***************************************************************************)

\* The events a rule may blame, by the rule.
Invalid(m) == {i \in 1 .. Len(m.errors) : IsInvalidEntry(m.errors[i])}
Auths(m) == {i \in 1 .. Len(m.errors) : IsAuth(m.errors[i])}
Unauthorizeds(m) == {i \in 1 .. Len(m.errors) : IsUnauthorized(m.errors[i])}
Outside(m) == {i \in 1 .. Len(m.errors) : IsOutsideFootprint(m.errors[i])}
Unreachables(m) ==
    {i \in 1 .. Len(m.errors) : m.errors[i].error = m.terminal.error
                                /\ m.errors[i].marker = "unreachable"}
Terminals(reports_) == {i \in 1 .. Len(reports_) : reports_[i].terminal}

LEMMA Selected ==
    ASSUME NEW m, NEW reports_
    PROVE  /\ SelectInSeq(m.errors, IsInvalidEntry) = First(Invalid(m))
           /\ SelectInSeq(m.errors, IsAuth) = First(Auths(m))
           /\ SelectInSeq(m.errors, IsUnauthorized) = First(Unauthorizeds(m))
           /\ SelectInSeq(m.errors, IsOutsideFootprint) = First(Outside(m))
           /\ TerminalReport(reports_) = First(Terminals(reports_))
BY DEF SelectInSeq, First, Invalid, Auths, Unauthorizeds, Outside, Terminals, TerminalReport

MatchedFacts(outcome) ==
    /\ outcome.status \in RuleStatus
    /\ outcome.status = "Matched" => outcome.confidence \in Confidence
    /\ outcome.status # "Matched" => outcome.confidence \notin Confidence

LEMMA OutcomeKinds ==
    /\ MatchedFacts(NotApplicable) /\ NotApplicable.status = "NotApplicable"
    /\ MatchedFacts(NoEvidence) /\ NoEvidence.status = "NoEvidence"
<1>1. NotApplicable.status = "NotApplicable" /\ NotApplicable.confidence = None
  BY DEF NotApplicable
<1>2. NoEvidence.status = "NoEvidence" /\ NoEvidence.confidence = None
  <2>1. "status" \in DOMAIN NotApplicable /\ "confidence" \in DOMAIN NotApplicable
    BY DEF NotApplicable
  <2>2. \A r : "status" \in DOMAIN r /\ "confidence" \in DOMAIN r =>
          LET n == [r EXCEPT !.status = "NoEvidence"] IN
          n.status = "NoEvidence" /\ n.confidence = r.confidence
    OBVIOUS
  <2> QED
    BY <1>1, <2>1, <2>2 DEF NoEvidence
<1>3. None \notin Confidence
  BY RegistryAssumption
<1> QED
  BY <1>1, <1>2, <1>3 DEF MatchedFacts, RuleStatus

LEMMA MatchKinds ==
    ASSUME NEW c \in Confidence, NEW e, NEW s,
           NEW outcome, outcome = Matched(c, e, s)
    PROVE  /\ MatchedFacts(outcome) /\ outcome.status = "Matched"
           /\ outcome.confidence = c /\ outcome.event = e /\ outcome.subject = s
BY DEF MatchedFacts, Matched, RuleStatus

\* A rule of a result code confirms what it matches, on the code alone.
LEMMA CodeRuleFacts ==
    ASSUME NEW m, NEW wanted, NEW code,
           NEW outcome, outcome = ResultCodeRule(m, wanted, code)
    PROVE  /\ MatchedFacts(outcome)
           /\ outcome.status = "Matched" <=>
                 m.outcome.stage = wanted /\ m.outcome.failed # None /\ m.outcome.failed.code = code
           /\ m.outcome.stage # wanted => outcome.status # "NoEvidence"
<1> DEFINE ready == m.outcome.stage = wanted /\ m.outcome.failed # None
                    /\ m.outcome.failed.code = code
<1>1. /\ \/ ~ready /\ outcome \in {NotApplicable, NoEvidence}
         \/ ready /\ outcome = Matched("Confirmed", 0, None)
      /\ m.outcome.stage # wanted => outcome = NotApplicable
  BY DEF ResultCodeRule
<1>2. CASE ~ready /\ outcome \in {NotApplicable, NoEvidence}
  BY <1>1, <1>2, OutcomeKinds
<1>3. CASE ready /\ outcome = Matched("Confirmed", 0, None)
  <2>1. "Confirmed" \in Confidence
    BY DEF Confidence
  <2>2. MatchedFacts(outcome) /\ outcome.status = "Matched"
    BY <1>3, <2>1, MatchKinds
  <2> QED
    BY <1>3, <2>2
<1> QED
  BY <1>1, <1>2, <1>3

LEMMA ContractDefinedFacts ==
    ASSUME NEW m, NEW reports_,
           NEW outcome, outcome = ContractDefinedError(m, reports_)
    PROVE  /\ MatchedFacts(outcome)
           /\ outcome.status = "Matched" <=>
                 /\ Concerns(m, FALSE) /\ m.emitted /\ m.terminal # None
                 /\ m.terminal.error.type = "Contract"
                 /\ First(Terminals(reports_)) # 0
           /\ outcome.status = "Matched" =>
                 LET report == reports_[First(Terminals(reports_))] IN
                 /\ outcome.event = RaisedAt(m, report)
                 /\ outcome.subject = Identified(report.who)
                 /\ outcome.confidence = "Confirmed" => report.resolution.tag = "Resolved"
<1> DEFINE report == reports_[First(Terminals(reports_))]
           conf   == IF report.resolution.tag = "Resolved" /\ report.resolution.verified
                     THEN "Confirmed" ELSE "Likely"
           ready  == /\ Concerns(m, FALSE) /\ m.emitted /\ m.terminal # None
                     /\ m.terminal.error.type = "Contract"
                     /\ First(Terminals(reports_)) # 0
<1>1. \/ ~ready /\ outcome \in {NotApplicable, NoEvidence}
      \/ ready /\ outcome = Matched(conf, RaisedAt(m, report), Identified(report.who))
  BY Selected DEF ContractDefinedError
<1>2. conf \in Confidence /\ (conf = "Confirmed" => report.resolution.tag = "Resolved")
  BY DEF Confidence
<1> HIDE DEF conf, ready
<1>3. CASE ~ready /\ outcome \in {NotApplicable, NoEvidence}
  BY <1>3, OutcomeKinds DEF ready
<1>4. CASE ready /\ outcome = Matched(conf, RaisedAt(m, report), Identified(report.who))
  <2>1. /\ MatchedFacts(outcome) /\ outcome.status = "Matched"
        /\ outcome.confidence = conf /\ outcome.event = RaisedAt(m, report)
        /\ outcome.subject = Identified(report.who)
    BY <1>4, <1>2, MatchKinds
  <2> QED
    BY <1>2, <1>4, <2>1 DEF ready
<1> QED
  BY <1>1, <1>3, <1>4

LEMMA InvalidEntryFacts ==
    ASSUME NEW m,
           NEW outcome, outcome = InvalidAuthorizationEntry(m)
    PROVE  LET i == First(Invalid(m)) IN
           /\ MatchedFacts(outcome)
           /\ outcome.status = "Matched" <=>
                 Concerns(m, TRUE) /\ m.emitted /\ First(Auths(m)) # 0 /\ i # 0
           /\ outcome.status = "Matched" =>
                 /\ outcome.event = m.errors[i].index
                 /\ outcome.confidence = "Confirmed" =>
                       EndedBy(m, i) /\ m.errors[i].marker = "expired"
<1> DEFINE i     == First(Invalid(m))
           conf  == InvalidEntryConfidence(m, i)
           ready == Concerns(m, TRUE) /\ m.emitted /\ First(Auths(m)) # 0 /\ i # 0
<1>1. \/ ~ready /\ outcome \in {NotApplicable, NoEvidence}
      \/ ready /\ outcome = Matched(conf, m.errors[i].index, m.errors[i].data.address)
  BY Selected DEF InvalidAuthorizationEntry
<1>2. /\ conf \in Confidence
      /\ conf = "Confirmed" => EndedBy(m, i) /\ m.errors[i].marker = "expired"
  <2> HIDE DEF i
  <2> QED
    BY DEF Confidence, InvalidEntryConfidence
<1> HIDE DEF conf, ready, i
<1>3. CASE ~ready /\ outcome \in {NotApplicable, NoEvidence}
  BY <1>3, OutcomeKinds DEF ready, i
<1>4. CASE ready /\ outcome = Matched(conf, m.errors[i].index, m.errors[i].data.address)
  <2>1. /\ MatchedFacts(outcome) /\ outcome.status = "Matched"
        /\ outcome.confidence = conf /\ outcome.event = m.errors[i].index
        /\ outcome.subject = m.errors[i].data.address
    BY <1>4, <1>2, MatchKinds
  <2> QED
    BY <1>2, <1>4, <2>1 DEF ready, i
<1> QED
  BY <1>1, <1>3, <1>4 DEF i

LEMMA OutsideFootprintFacts ==
    ASSUME NEW m,
           NEW outcome, outcome = FootprintEntryMissing(m)
    PROVE  LET i == First(Outside(m)) IN
           /\ MatchedFacts(outcome)
           /\ outcome.status = "Matched" <=> Concerns(m, TRUE) /\ m.emitted /\ i # 0
           /\ outcome.status = "Matched" =>
                 /\ outcome.event = m.errors[i].index
                 /\ outcome.confidence = "Confirmed" => EndedBy(m, i)
<1> DEFINE i     == First(Outside(m))
           conf  == FootprintConfidence(m, i)
           ready == Concerns(m, TRUE) /\ m.emitted /\ i # 0
<1>1. \/ ~ready /\ outcome \in {NotApplicable, NoEvidence}
      \/ ready /\ outcome = Matched(conf, m.errors[i].index, m.errors[i].data.key)
  BY Selected DEF FootprintEntryMissing
<1>2. conf \in Confidence /\ (conf = "Confirmed" => EndedBy(m, i))
  <2> HIDE DEF i
  <2> QED
    BY DEF Confidence, FootprintConfidence
<1> HIDE DEF conf, ready, i
<1>3. CASE ~ready /\ outcome \in {NotApplicable, NoEvidence}
  BY <1>3, OutcomeKinds DEF ready, i
<1>4. CASE ready /\ outcome = Matched(conf, m.errors[i].index, m.errors[i].data.key)
  <2>1. /\ MatchedFacts(outcome) /\ outcome.status = "Matched"
        /\ outcome.confidence = conf /\ outcome.event = m.errors[i].index
        /\ outcome.subject = m.errors[i].data.key
    BY <1>4, <1>2, MatchKinds
  <2> QED
    BY <1>2, <1>4, <2>1 DEF ready, i
<1> QED
  BY <1>1, <1>3, <1>4 DEF i

LEMMA TrapFacts ==
    ASSUME NEW m,
           NEW outcome, outcome = ContractTrap(m)
    PROVE  /\ MatchedFacts(outcome)
           /\ outcome.status = "Matched" <=>
                 /\ Concerns(m, FALSE) /\ m.emitted /\ m.terminal # None
                 /\ m.terminal.error.type = "WasmVm" /\ First(Unreachables(m)) # 0
           /\ outcome.confidence # "Confirmed"
           /\ Concerns(m, FALSE) /\ ~m.emitted => outcome.status = "NoEvidence"
<1> DEFINE i     == First(Unreachables(m))
           ready == /\ Concerns(m, FALSE) /\ m.emitted /\ m.terminal # None
                    /\ m.terminal.error.type = "WasmVm" /\ i # 0
<1>1. /\ \/ ~ready /\ outcome \in {NotApplicable, NoEvidence}
         \/ ready /\ outcome = Matched("Likely", m.errors[i].index, m.errors[i].contract)
      /\ Concerns(m, FALSE) /\ ~m.emitted => outcome = NoEvidence
  <2>1. SelectInSeq(m.errors, LAMBDA e : e.error = m.terminal.error
                                        /\ e.marker = "unreachable") = i
    BY DEF SelectInSeq, First, Unreachables
  <2> HIDE DEF i
  <2> QED
    BY <2>1 DEF ContractTrap
<1> HIDE DEF i
<1>2. CASE ~ready /\ outcome \in {NotApplicable, NoEvidence}
  BY <1>1, <1>2, OutcomeKinds DEF i, MatchedFacts, Confidence
<1>3. CASE ready /\ outcome = Matched("Likely", m.errors[i].index, m.errors[i].contract)
  <2>0. "Likely" \in Confidence
    BY DEF Confidence
  <2>1. /\ MatchedFacts(outcome) /\ outcome.status = "Matched"
        /\ outcome.confidence = "Likely" /\ outcome.event = m.errors[i].index
        /\ outcome.subject = m.errors[i].contract
    BY <1>3, <2>0, MatchKinds
  <2> QED
    BY <1>1, <1>3, <2>1 DEF i
<1> QED
  BY <1>1, <1>2, <1>3

LEMMA MissingEntryFacts ==
    ASSUME NEW m,
           NEW outcome, outcome = MissingAuthorizationEntry(m)
    PROVE  LET i       == First(Unauthorizeds(m))
               address == m.errors[i].data.address
           IN
           /\ MatchedFacts(outcome)
           /\ outcome.status = "Matched" <=>
                 /\ Concerns(m, TRUE) /\ m.emitted /\ i # 0
                 /\ ~(address # None /\ address = m.source)
                 /\ EntryFor(m, address) = 0
           /\ outcome.status = "Matched" =>
                 /\ outcome.event = m.errors[i].index
                 /\ outcome.confidence = "Confirmed" => EndedBy(m, i)
<1> DEFINE i       == First(Unauthorizeds(m))
           address == m.errors[i].data.address
           conf    == IF EndedBy(m, i) /\ address # None THEN "Confirmed" ELSE "Likely"
           ready   == /\ Concerns(m, TRUE) /\ m.emitted /\ i # 0
                      /\ ~(address # None /\ address = m.source)
                      /\ EntryFor(m, address) = 0
<1>1. \/ ~ready /\ outcome \in {NotApplicable, NoEvidence}
      \/ ready /\ outcome = Matched(conf, m.errors[i].index, address)
  BY Selected DEF MissingAuthorizationEntry
<1>2. conf \in Confidence /\ (conf = "Confirmed" => EndedBy(m, i))
  BY DEF Confidence
<1> HIDE DEF conf, ready
<1>3. CASE ~ready /\ outcome \in {NotApplicable, NoEvidence}
  BY <1>3, OutcomeKinds DEF ready
<1>4. CASE ready /\ outcome = Matched(conf, m.errors[i].index, address)
  <2>1. /\ MatchedFacts(outcome) /\ outcome.status = "Matched"
        /\ outcome.confidence = conf /\ outcome.event = m.errors[i].index
        /\ outcome.subject = address
    BY <1>4, <1>2, MatchKinds
  <2> QED
    BY <1>2, <1>4, <2>1 DEF ready
<1> QED
  BY <1>1, <1>3, <1>4

\* Dispatch on the id of a rule.
LEMMA EvaluatesTo ==
    ASSUME NEW m, NEW reports_
    PROVE  /\ Evaluate("archived_entry", m, reports_) = ArchivedEntry(m)
           /\ Evaluate("resource_limit_exceeded", m, reports_) = ResourceLimitExceeded(m)
           /\ Evaluate("insufficient_resource_fee", m, reports_) = InsufficientResourceFee(m)
           /\ Evaluate("contract_defined_error", m, reports_) = ContractDefinedError(m, reports_)
           /\ Evaluate("invalid_authorization_entry", m, reports_) = InvalidAuthorizationEntry(m)
           /\ Evaluate("footprint_entry_missing", m, reports_) = FootprintEntryMissing(m)
           /\ Evaluate("contract_trap", m, reports_) = ContractTrap(m)
           /\ Evaluate("missing_authorization_entry", m, reports_) = MissingAuthorizationEntry(m)
BY DEF Evaluate

LEMMA TheRules ==
    /\ Range(Builtin) = {"archived_entry", "resource_limit_exceeded", "insufficient_resource_fee",
                         "contract_defined_error", "invalid_authorization_entry",
                         "footprint_entry_missing", "contract_trap",
                         "missing_authorization_entry"}
BY DEF Range, Builtin

\* The fee rule is the rule of its code: its own gate refuses another stage.
LEMMA FeeRuleIsACodeRule ==
    ASSUME NEW m
    PROVE  /\ InsufficientResourceFee(m) = ResultCodeRule(m, "ResourceFee", "InsufficientRefundableFee")
           /\ ArchivedEntry(m) = ResultCodeRule(m, "StateArchival", "EntryArchived")
           /\ ResourceLimitExceeded(m) = ResultCodeRule(m, "ResourceLimit", "ResourceLimitExceeded")
BY DEF InsufficientResourceFee, ResultCodeRule, ArchivedEntry, ResourceLimitExceeded

\* A rule's outcome and the confidence of a match are what they should be.
LEMMA OutcomesAreTyped ==
    ASSUME NEW rule \in Range(Builtin), NEW m, NEW reports_
    PROVE  MatchedFacts(Evaluate(rule, m, reports_))
<1>1. CASE rule = "archived_entry"
  BY <1>1, CodeRuleFacts, FeeRuleIsACodeRule, EvaluatesTo
<1>2. CASE rule = "resource_limit_exceeded"
  BY <1>2, CodeRuleFacts, FeeRuleIsACodeRule, EvaluatesTo
<1>3. CASE rule = "insufficient_resource_fee"
  BY <1>3, CodeRuleFacts, FeeRuleIsACodeRule, EvaluatesTo
<1>4. CASE rule = "contract_defined_error"
  <2>1. MatchedFacts(ContractDefinedError(m, reports_))
    BY ContractDefinedFacts
  <2> QED
    BY <1>4, <2>1, EvaluatesTo
<1>5. CASE rule = "invalid_authorization_entry"
  BY <1>5, InvalidEntryFacts, EvaluatesTo
<1>6. CASE rule = "footprint_entry_missing"
  BY <1>6, OutsideFootprintFacts, EvaluatesTo
<1>7. CASE rule = "contract_trap"
  BY <1>7, TrapFacts, EvaluatesTo
<1>8. CASE rule = "missing_authorization_entry"
  BY <1>8, MissingEntryFacts, EvaluatesTo
<1> QED
  BY <1>1, <1>2, <1>3, <1>4, <1>5, <1>6, <1>7, <1>8, TheRules

\* A rule matches at the stage it is about; those that read the diagnostics
\* need them.
LEMMA MatchesAtItsStage ==
    ASSUME NEW rule \in Range(Builtin), NEW m, NEW reports_,
           Evaluate(rule, m, reports_).status = "Matched"
    PROVE  /\ m.outcome.stage \in {"StateArchival", "ResourceLimit", "ResourceFee",
                                   "ContractExecution"}
           /\ rule \in DiagnosticRules => m.emitted
           /\ rule \notin DiagnosticRules => m.outcome.stage # "ContractExecution"
<1>1. CASE rule = "archived_entry"
  BY <1>1, CodeRuleFacts, FeeRuleIsACodeRule, EvaluatesTo DEF DiagnosticRules
<1>2. CASE rule = "resource_limit_exceeded"
  BY <1>2, CodeRuleFacts, FeeRuleIsACodeRule, EvaluatesTo DEF DiagnosticRules
<1>3. CASE rule = "insufficient_resource_fee"
  BY <1>3, CodeRuleFacts, FeeRuleIsACodeRule, EvaluatesTo DEF DiagnosticRules
<1>4. CASE rule = "contract_defined_error"
  <2>1. ContractDefinedError(m, reports_).status = "Matched"
    BY <1>4, EvaluatesTo
  <2>2. Concerns(m, FALSE) /\ m.emitted
    BY <2>1, ContractDefinedFacts
  <2> QED
    BY <1>4, <2>2 DEF Concerns, DiagnosticRules
<1>5. CASE rule = "invalid_authorization_entry"
  <2>1. Concerns(m, TRUE) /\ m.emitted
    BY <1>5, InvalidEntryFacts, EvaluatesTo
  <2> QED
    BY <1>5, <2>1 DEF Concerns, DiagnosticRules
<1>6. CASE rule = "footprint_entry_missing"
  <2>1. Concerns(m, TRUE) /\ m.emitted
    BY <1>6, OutsideFootprintFacts, EvaluatesTo
  <2> QED
    BY <1>6, <2>1 DEF Concerns, DiagnosticRules
<1>7. CASE rule = "contract_trap"
  <2>1. Concerns(m, FALSE) /\ m.emitted
    BY <1>7, TrapFacts, EvaluatesTo
  <2> QED
    BY <1>7, <2>1 DEF Concerns, DiagnosticRules
<1>8. CASE rule = "missing_authorization_entry"
  <2>1. Concerns(m, TRUE) /\ m.emitted
    BY <1>8, MissingEntryFacts, EvaluatesTo
  <2> QED
    BY <1>8, <2>1 DEF Concerns, DiagnosticRules
<1> QED
  BY <1>1, <1>2, <1>3, <1>4, <1>5, <1>6, <1>7, <1>8, TheRules

-----------------------------------------------------------------------------
(***************************************************************************)
(* Which failure a confirmed cause is about.                               *)
(***************************************************************************)

Unexpired(m) ==
    \A i \in 1 .. Len(m.errors) :
        m.errors[i].marker = "expired" => m.errors[i].error # ScError("Auth", "InvalidAction")

\* What the model says when the rule confirms: the stage, or else the error
\* that ended the invocation.
ConfirmedOf(rule, m) ==
    /\ rule = "archived_entry" => m.outcome.stage = "StateArchival"
    /\ rule = "resource_limit_exceeded" => m.outcome.stage = "ResourceLimit"
    /\ rule = "insufficient_resource_fee" => m.outcome.stage = "ResourceFee"
    /\ rule \in DiagnosticRules => m.outcome.stage = "ContractExecution" /\ m.terminal # None
    /\ rule = "contract_defined_error" => m.terminal.error.type = "Contract"
    /\ rule = "invalid_authorization_entry" =>
          m.terminal.error.type = "Auth" /\ m.terminal.error # ScError("Auth", "InvalidAction")
    /\ rule = "footprint_entry_missing" => m.terminal.error.type = "Storage"
    /\ rule # "contract_trap"
    /\ rule = "missing_authorization_entry" => m.terminal.error = ScError("Auth", "InvalidAction")

LEMMA WhatConfirmationNeeds ==
    ASSUME NEW rule \in Range(Builtin), NEW m, NEW reports_,
           Len(m.errors) \in Nat, Unexpired(m),
           Evaluate(rule, m, reports_).confidence = "Confirmed"
    PROVE  ConfirmedOf(rule, m)
<1> DEFINE outcome == Evaluate(rule, m, reports_)
<1>1. outcome.status = "Matched"
  <2>1. MatchedFacts(outcome)
    BY OutcomesAreTyped
  <2> QED
    BY <2>1 DEF MatchedFacts, Confidence
<1>2. CASE rule = "archived_entry"
  BY <1>1, <1>2, CodeRuleFacts, FeeRuleIsACodeRule, EvaluatesTo DEF ConfirmedOf, DiagnosticRules
<1>3. CASE rule = "resource_limit_exceeded"
  BY <1>1, <1>3, CodeRuleFacts, FeeRuleIsACodeRule, EvaluatesTo DEF ConfirmedOf, DiagnosticRules
<1>4. CASE rule = "insufficient_resource_fee"
  BY <1>1, <1>4, CodeRuleFacts, FeeRuleIsACodeRule, EvaluatesTo DEF ConfirmedOf, DiagnosticRules
<1>5. CASE rule = "contract_defined_error"
  <2>1. Concerns(m, FALSE) /\ m.terminal # None /\ m.terminal.error.type = "Contract"
    <3>1. ContractDefinedError(m, reports_).status = "Matched"
      BY <1>1, <1>5, EvaluatesTo
    <3> QED
      BY <3>1, ContractDefinedFacts
  <2> QED
    BY <1>5, <2>1 DEF ConfirmedOf, Concerns
<1>6. CASE rule = "invalid_authorization_entry"
  <2> DEFINE i == First(Invalid(m))
  <2>1. /\ Concerns(m, TRUE) /\ i # 0
        /\ EndedBy(m, i) /\ m.errors[i].marker = "expired"
    BY <1>1, <1>6, InvalidEntryFacts, EvaluatesTo
  <2>2. i \in Invalid(m)
    <3>1. Invalid(m) \in SUBSET (1 .. Len(m.errors))
      BY DEF Invalid
    <3> QED
      BY <2>1, <3>1, FirstFacts
  <2> HIDE DEF i
  <2>3. i \in 1 .. Len(m.errors) /\ m.errors[i].error.type = "Auth"
    BY <2>2 DEF Invalid, IsInvalidEntry, IsAuth
  <2>4. m.errors[i].error # ScError("Auth", "InvalidAction")
    BY <2>1, <2>3 DEF Unexpired
  <2> QED
    BY <1>6, <2>1, <2>3, <2>4 DEF ConfirmedOf, Concerns, EndedBy
<1>7. CASE rule = "footprint_entry_missing"
  <2> DEFINE i == First(Outside(m))
  <2>1. Concerns(m, TRUE) /\ i # 0 /\ EndedBy(m, i)
    BY <1>1, <1>7, OutsideFootprintFacts, EvaluatesTo
  <2>2. i \in Outside(m)
    <3>1. Outside(m) \in SUBSET (1 .. Len(m.errors))
      BY DEF Outside
    <3> QED
      BY <2>1, <3>1, FirstFacts
  <2> HIDE DEF i
  <2>3. m.errors[i].error.type = "Storage"
    BY <2>2 DEF Outside, IsOutsideFootprint
  <2> QED
    BY <1>7, <2>1, <2>3 DEF ConfirmedOf, Concerns, EndedBy
<1>8. CASE rule = "contract_trap"
  BY <1>1, <1>8, TrapFacts, EvaluatesTo
<1>9. CASE rule = "missing_authorization_entry"
  <2> DEFINE i == First(Unauthorizeds(m))
  <2>1. Concerns(m, TRUE) /\ i # 0 /\ EndedBy(m, i)
    BY <1>1, <1>9, MissingEntryFacts, EvaluatesTo
  <2>2. i \in Unauthorizeds(m)
    <3>1. Unauthorizeds(m) \in SUBSET (1 .. Len(m.errors))
      BY DEF Unauthorizeds
    <3> QED
      BY <2>1, <3>1, FirstFacts
  <2> HIDE DEF i
  <2>3. m.errors[i].error = ScError("Auth", "InvalidAction")
    BY <2>2 DEF Unauthorizeds, IsUnauthorized
  <2> QED
    BY <1>9, <2>1, <2>3 DEF ConfirmedOf, Concerns, EndedBy
<1> QED
  BY <1>2, <1>3, <1>4, <1>5, <1>6, <1>7, <1>8, <1>9, TheRules

LEMMA OneRuleConfirms ==
    ASSUME NEW rule \in Range(Builtin), NEW other \in Range(Builtin), NEW m,
           ConfirmedOf(rule, m), ConfirmedOf(other, m)
    PROVE  rule = other
<1>1. ScError("Auth", "InvalidAction").type = "Auth"
  BY DEF ScError
<1> QED
  BY <1>1, TheRules DEF ConfirmedOf, DiagnosticRules

-----------------------------------------------------------------------------
(***************************************************************************)
(* The host: where each error event comes from.                            *)
(***************************************************************************)

\* The i-th of the events e, whose failure was raised at event o[i].
Traced(e, o, i) ==
    /\ o[i] \in 1 .. i /\ o[o[i]] = o[i]
    /\ e[o[i]].error = e[i].error
    /\ e[i].index = i /\ e[i].contract \in Contract
    /\ e[i].error = ScError(e[i].error.type, e[i].error.code) /\ e[i].error.code # None
    /\ o[i] # i => e[i].marker = "other"
    /\ o[i] = i /\ e[i].error.type = "Contract" => e[i].marker = "origin"
    /\ e[i].marker = "expired" => e[i].error # ScError("Auth", "InvalidAction")

HostTyped ==
    /\ tx \in Transactions
    /\ live \in Seq(Contract)
    /\ errs \in Seq(Range(errs)) /\ origin \in Seq(Nat) /\ Len(origin) = Len(errs)

FailingIsLatest ==
    failing # 0 =>
        /\ failing \in DOMAIN errs /\ origin[failing] = failing
        /\ \A i \in DOMAIN errs : origin[i] <= failing

HostInv ==
    /\ HostTyped
    /\ \A i \in DOMAIN errs : Traced(errs, origin, i)
    /\ FailingIsLatest

LEMMA AppendIsASequence ==
    ASSUME NEW s, s \in Seq(Range(s)), NEW x
    PROVE  LET t == Append(s, x) IN
           /\ t \in Seq(Range(t)) /\ Len(t) = Len(s) + 1
           /\ DOMAIN s = 1 .. Len(s) /\ DOMAIN t = 1 .. Len(s) + 1 /\ Len(s) \in Nat
           /\ \A i \in DOMAIN s : t[i] = s[i]
           /\ t[Len(s) + 1] = x
<1> DEFINE t == Append(s, x)
           T == Range(s) \cup {x}
<1>1. s \in Seq(T) /\ x \in T
  OBVIOUS
<1> HIDE DEF T
<1>2. /\ t \in Seq(T) /\ Len(t) = Len(s) + 1 /\ Len(s) \in Nat
      /\ DOMAIN s = 1 .. Len(s) /\ DOMAIN t = 1 .. Len(s) + 1
      /\ \A i \in DOMAIN s : t[i] = s[i]
      /\ t[Len(s) + 1] = x
  BY <1>1
<1> HIDE DEF t
<1>3. t \in Seq(Range(t))
  <2>1. \A i \in 1 .. Len(t) : t[i] \in Range(t)
    BY <1>2 DEF Range
  <2>2. t \in [1 .. Len(t) -> Range(t)]
    BY <1>2, <2>1
  <2> QED
    BY <1>2, <2>2
<1> QED
  BY <1>2, <1>3 DEF t

LEMMA AppendTraced ==
    ASSUME NEW e, e \in Seq(Range(e)), NEW o \in Seq(Nat), Len(o) = Len(e),
           \A i \in DOMAIN e : Traced(e, o, i),
           NEW x, NEW p \in 1 .. Len(e) + 1,
           x.index = Len(e) + 1, x.contract \in Contract,
           x.error = ScError(x.error.type, x.error.code), x.error.code # None,
           p # Len(e) + 1 => /\ o[p] = p /\ e[p].error = x.error /\ x.marker = "other",
           p = Len(e) + 1 /\ x.error.type = "Contract" => x.marker = "origin",
           x.marker = "expired" => x.error # ScError("Auth", "InvalidAction")
    PROVE  \A i \in DOMAIN Append(e, x) : Traced(Append(e, x), Append(o, p), i)
<1> DEFINE e2 == Append(e, x)
           o2 == Append(o, p)
           n  == Len(e)
<1>1. /\ DOMAIN e2 = 1 .. n + 1 /\ DOMAIN e = 1 .. n /\ n \in Nat
      /\ \A i \in 1 .. n : e2[i] = e[i]
      /\ e2[n + 1] = x
  BY AppendIsASequence
<1>2. (\A i \in 1 .. n : o2[i] = o[i]) /\ o2[n + 1] = p
  BY <1>1
<1> HIDE DEF e2, o2, n
<1>3. ASSUME NEW i \in 1 .. n PROVE Traced(e2, o2, i)
  <2>1. Traced(e, o, i) /\ e2[i] = e[i] /\ o2[i] = o[i]
    BY <1>1, <1>2, <1>3
  <2>2. o[i] \in 1 .. i /\ o[i] \in 1 .. n
    BY <1>1, <2>1 DEF Traced
  <2>3. e2[o[i]] = e[o[i]] /\ o2[o[i]] = o[o[i]]
    BY <1>1, <1>2, <2>2
  <2> QED
    BY <2>1, <2>2, <2>3 DEF Traced
<1>4. Traced(e2, o2, n + 1)
  <2>1. e2[n + 1] = x /\ o2[n + 1] = p
    BY <1>1, <1>2
  <2>2. p \in 1 .. n + 1 /\ x.index = n + 1 /\ (p # n + 1 => p \in 1 .. n)
    BY <1>1 DEF n
  <2>3. p # n + 1 => e2[p] = e[p] /\ o2[p] = p
    BY <1>1, <1>2, <2>2 DEF n
  <2>4. e2[p].error = x.error /\ o2[p] = p
    BY <2>1, <2>2, <2>3 DEF n
  <2> QED
    BY <2>1, <2>2, <2>4 DEF Traced, n
<1> QED
  BY <1>1, <1>3, <1>4 DEF e2, o2

-----------------------------------------------------------------------------
(***************************************************************************)
(* The inductive invariant.                                                *)
(***************************************************************************)

Ended == [error |-> errs[failing].error, index |-> Len(errs) + 1]

\* What was submitted to the engine when the host had finished.
Submitted ==
    /\ \E emitted \in BOOLEAN, terminal \in {None, Ended} :
          /\ terminal # None => failing # 0
          /\ model = Model(AnalysisInput(result, emitted, terminal))
    /\ result \in Results \cup {Trapped(bump) : bump \in {None, "TxFeeBumpInnerFailed"}}
    /\ contractErrors = ResolveContractErrors(model.errors, model.terminal, specs,
                                              CodeHashes(model))
    /\ \A c \in Contract : specs[c] # None =>
          /\ c \in DOMAIN tx.code
          /\ \E w \in {tx.code[c]} \cup UpgradesTo : specs[c] = Spec(w, NamesOf[w])

ModelInv == phase # "input" => Submitted

MatchedPlaces(given) == {i \in DOMAIN given : given[i].status = "Matched"}

\* One candidate for each report of a match.
FromMatches(found, given) ==
    /\ found \in Seq(Range(found))
    /\ Len(found) = Cardinality(MatchedPlaces(given))
    /\ \A n \in DOMAIN found : \E i \in MatchedPlaces(given) :
          found[n] = Candidate(Registry[i], given[i])
    /\ \A i \in MatchedPlaces(given) : \E n \in DOMAIN found :
          found[n] = Candidate(Registry[i], given[i])

\* Two candidates in registration order.
Registered(a, b) ==
    \E i, j \in DOMAIN Registry : i < j /\ Registry[i] = a.rule /\ Registry[j] = b.rule

InOrder(found) == \A a, b \in DOMAIN found : a < b => Registered(found[a], found[b])

Stronger(a, b) == Promised!Strength(a.confidence) > Promised!Strength(b.confidence)

ByStrength(found) ==
    \A a, b \in DOMAIN found : a < b =>
        \/ Stronger(found[a], found[b])
        \/ found[a].confidence = found[b].confidence /\ Registered(found[a], found[b])

Stated ==
    StageLimitation
    \cup (IF \E i \in DOMAIN contractErrors : contractErrors[i].resolution.name = None
          THEN {"unnamed_codes"} ELSE {})
    \cup (IF model.emitted THEN {} ELSE {"no_diagnostics"})

ReportsInv ==
    /\ phase \in {"input", "rules", "sorted", "done"}
    /\ phase = "input" =>
          model = None /\ contractErrors = << >> /\ evaluated = 0 /\ limitations = {}
    /\ evaluated \in 0 .. Len(Registry)
    /\ reports \in Seq(Range(reports)) /\ Len(reports) = evaluated
    /\ \A i \in 1 .. evaluated : reports[i] = Evaluate(Registry[i], model, contractErrors)
    /\ phase \in {"sorted", "done"} => evaluated = Len(Registry)

CandidatesInv ==
    /\ FromMatches(candidates, reports)
    /\ phase \in {"input", "rules"} => InOrder(candidates)
    /\ phase \in {"sorted", "done"} => ByStrength(candidates)

LimitationsInv ==
    /\ phase # "done" => limitations = {}
    /\ phase = "done" => limitations = Stated

IInv == HostInv /\ ModelInv /\ ReportsInv /\ CandidatesInv /\ LimitationsInv

-----------------------------------------------------------------------------
\* Ranked keeps the candidates and orders them by strength, then as they were.
LEMMA StrengthValues ==
    /\ Promised!Strength("Confirmed") = 3 /\ Promised!Strength("Likely") = 2
    /\ Promised!Strength("Possible") = 1
<1>1. ASSUME NEW n \in 1 .. 3 PROVE Promised!Strength(Promised!Confidences[n]) = n
  BY <1>1 DEF Promised!Strength, Promised!Confidences
<1>2. Promised!Confidences[1] = "Possible" /\ Promised!Confidences[2] = "Likely"
      /\ Promised!Confidences[3] = "Confirmed"
  BY DEF Promised!Confidences
<1> QED
  BY <1>1, <1>2

At(s, confidence) == {i \in DOMAIN s : s[i].confidence = confidence}

\* Where the n-th candidate of the ranking comes from.
PlaceIn(s, n) ==
    LET x == Cardinality(At(s, "Confirmed"))
        y == Cardinality(At(s, "Likely"))
    IN IF n <= x THEN Nth(At(s, "Confirmed"), n)
       ELSE IF n <= x + y THEN Nth(At(s, "Likely"), n - x)
       ELSE Nth(At(s, "Possible"), n - (x + y))

\* A block x of the ranking: what s holds at the places S.
Block(x, s, S) ==
    /\ x \in Seq(Held(s, S)) /\ Len(x) = Cardinality(S) /\ Cardinality(S) \in Nat
    /\ \A n \in 1 .. Cardinality(S) : x[n] = s[Nth(S, n)] /\ Nth(S, n) \in S
    /\ \A i \in S : \E n \in 1 .. Cardinality(S) : Nth(S, n) = i
    /\ \A a, b \in 1 .. Cardinality(S) : a < b => Nth(S, a) < Nth(S, b)

LEMMA OnlyIsABlock ==
    ASSUME NEW k \in Nat, NEW s, NEW S \in SUBSET (1 .. k)
    PROVE  Block(Only(s, S), s, S)
<1>1. \A i \in S : s[i] \in Held(s, S)
  BY DEF Held
<1>2. Only(s, S) \in Seq(Held(s, S))
  BY <1>1, OnlyIsASequence
<1> DEFINE c == Cardinality(S)
<1>3. /\ c \in Nat
      /\ \A n \in 1 .. c : Nth(S, n) \in S /\ Rank(S, Nth(S, n)) = n
      /\ \A i \in S : Rank(S, i) \in 1 .. c /\ Nth(S, Rank(S, i)) = i
  BY NthFacts
<1>4. Only(s, S) = [n \in 1 .. c |-> s[Nth(S, n)]]
  BY DEF Only
<1> HIDE DEF c
<1> DEFINE f == Only(s, S)
<1>5. DOMAIN f = 1 .. c
  BY <1>4
<1>6. Len(f) = c
  <2>1. f \in Seq(Held(s, S))
    BY <1>2
  <2> HIDE DEF f
  <2>2. Len(f) \in Nat /\ DOMAIN f = 1 .. Len(f)
    BY <2>1
  <2> QED
    BY <1>3, <1>5, <2>2
<1>7. \A n \in 1 .. c : Only(s, S)[n] = s[Nth(S, n)]
  BY <1>4
<1>8. ASSUME NEW a \in 1 .. c, NEW b \in 1 .. c, a < b
      PROVE  Nth(S, a) < Nth(S, b)
  <2>1. /\ Nth(S, a) \in S /\ Rank(S, Nth(S, a)) = a
        /\ Nth(S, b) \in S /\ Rank(S, Nth(S, b)) = b
    BY <1>3
  <2>2. Nth(S, b) < Nth(S, a) => b < a
    BY <2>1, RanksAscend
  <2>3. Nth(S, a) \in Nat /\ Nth(S, b) \in Nat /\ a \in Nat /\ b \in Nat
    <3>1. S \subseteq Nat
      BY PlacesAreFinite
    <3>2. c \in Nat
      BY <1>3
    <3>3. a \in Nat /\ b \in Nat
      BY <3>2
    <3> QED
      BY <2>1, <3>1, <3>3
  <2>4. Nth(S, a) # Nth(S, b)
    BY <2>1, <2>3, <1>8
  <2> QED
    BY <1>8, <2>2, <2>3, <2>4
<1> QED
  BY <1>2, <1>3, <1>6, <1>7, <1>8 DEF c, Block

LEMMA ConcatFacts ==
    ASSUME NEW H, NEW u \in Seq(H), NEW v \in Seq(H)
    PROVE  /\ u \o v \in Seq(H) /\ Len(u \o v) = Len(u) + Len(v)
           /\ Len(u) \in Nat /\ Len(v) \in Nat
           /\ \A n \in 1 .. Len(u) + Len(v) :
                 (u \o v)[n] = IF n <= Len(u) THEN u[n] ELSE v[n - Len(u)]
OBVIOUS

RankingOf(r, s) ==
    /\ r \in Seq(Range(r)) /\ Len(r) = Len(s)
    /\ \A n \in DOMAIN r : PlaceIn(s, n) \in DOMAIN s /\ r[n] = s[PlaceIn(s, n)]
    /\ \A i \in DOMAIN s : \E n \in DOMAIN r : r[n] = s[i]
    /\ \A a, b \in DOMAIN r : a < b =>
          \/ Stronger(r[a], r[b])
          \/ r[a].confidence = r[b].confidence /\ PlaceIn(s, a) < PlaceIn(s, b)

LEMMA RankedFacts ==
    ASSUME NEW s, s \in Seq(Range(s)), \A i \in DOMAIN s : s[i].confidence \in Confidence
    PROVE  RankingOf(Ranked(s), s)
<1> DEFINE k == Len(s)
           A == At(s, "Confirmed")
           B == At(s, "Likely")
           C == At(s, "Possible")
           x == Only(s, A)
           y == Only(s, B)
           z == Only(s, C)
           p == Cardinality(A)
           q == Cardinality(B)
           t == Cardinality(C)
           r == Ranked(s)
<1>1. k \in Nat /\ DOMAIN s = 1 .. k
  OBVIOUS
<1>2. A \in SUBSET (1 .. k) /\ B \in SUBSET (1 .. k) /\ C \in SUBSET (1 .. k)
  BY <1>1 DEF At
<1>3. A \cup B \cup C = 1 .. k /\ A \cap B = {} /\ (A \cup B) \cap C = {}
  <2>1. \A i \in 1 .. k : s[i].confidence \in {"Confirmed", "Likely", "Possible"}
    BY <1>1 DEF Confidence
  <2> QED
    BY <1>1, <2>1 DEF At
<1>4. r = x \o y \o z
  BY DEF Ranked, At
<1>5. /\ x \in Seq(Held(s, A)) /\ Len(x) = p /\ p \in Nat
      /\ \A n \in 1 .. p : x[n] = s[Nth(A, n)] /\ Nth(A, n) \in A
      /\ \A i \in A : \E n \in 1 .. p : Nth(A, n) = i
      /\ \A a, b \in 1 .. p : a < b => Nth(A, a) < Nth(A, b)
  <2>1. Block(x, s, A)
    BY <1>1, <1>2, OnlyIsABlock
  <2> HIDE DEF x, A
  <2> QED
    BY <2>1 DEF Block
<1>6. /\ y \in Seq(Held(s, B)) /\ Len(y) = q /\ q \in Nat
      /\ \A n \in 1 .. q : y[n] = s[Nth(B, n)] /\ Nth(B, n) \in B
      /\ \A i \in B : \E n \in 1 .. q : Nth(B, n) = i
      /\ \A a, b \in 1 .. q : a < b => Nth(B, a) < Nth(B, b)
  <2>1. Block(y, s, B)
    BY <1>1, <1>2, OnlyIsABlock
  <2> HIDE DEF y, B
  <2> QED
    BY <2>1 DEF Block
<1>7. /\ z \in Seq(Held(s, C)) /\ Len(z) = t /\ t \in Nat
      /\ \A n \in 1 .. t : z[n] = s[Nth(C, n)] /\ Nth(C, n) \in C
      /\ \A i \in C : \E n \in 1 .. t : Nth(C, n) = i
      /\ \A a, b \in 1 .. t : a < b => Nth(C, a) < Nth(C, b)
  <2>1. Block(z, s, C)
    BY <1>1, <1>2, OnlyIsABlock
  <2> HIDE DEF z, C
  <2> QED
    BY <2>1 DEF Block
<1>8. p + q + t = k
  <2>1. IsFiniteSet(A) /\ IsFiniteSet(B) /\ IsFiniteSet(C)
    BY <1>1, <1>2, PlacesAreFinite
  <2>2. IsFiniteSet(A \cup B) /\ Cardinality(A \cup B) = p + q - Cardinality(A \cap B)
    BY <2>1, FS_Union
  <2>3. Cardinality((A \cup B) \cup C)
          = Cardinality(A \cup B) + t - Cardinality((A \cup B) \cap C)
    BY <2>1, <2>2, FS_Union
  <2>4. Cardinality({}) = 0
    BY FS_EmptySet
  <2>5. Cardinality(1 .. k) = k
    <3> HIDE DEF k
    <3> QED
      BY <1>1, FS_Interval
  <2>6. Cardinality(A \cap B) = 0 /\ Cardinality((A \cup B) \cap C) = 0
        /\ Cardinality((A \cup B) \cup C) = k
    BY <1>3, <2>4, <2>5
  <2>7. p \in Nat /\ q \in Nat /\ t \in Nat
    BY <1>5, <1>6, <1>7
  <2>8. Cardinality(A \cup B) = p + q /\ k = Cardinality(A \cup B) + t
    <3> HIDE DEF A, B, C, k, p, q, t
    <3> QED
      BY <2>2, <2>3, <2>6, <2>7
  <2> QED
    BY <2>8
<1>9. \A i \in A : s[i].confidence = "Confirmed"
  BY DEF At
<1>10. \A i \in B : s[i].confidence = "Likely"
  BY DEF At
<1>11. \A i \in C : s[i].confidence = "Possible"
  BY DEF At
<1>12. ASSUME NEW n
       PROVE  PlaceIn(s, n) = IF n <= p THEN Nth(A, n)
                              ELSE IF n <= p + q THEN Nth(B, n - p)
                              ELSE Nth(C, n - (p + q))
  BY DEF PlaceIn
<1> HIDE DEF A, B, C, x, y, z, p, q, t, r, k
<1>13. /\ r \in Seq(Held(s, A) \cup Held(s, B) \cup Held(s, C)) /\ Len(r) = k
       /\ DOMAIN r = 1 .. k
       /\ \A n \in 1 .. k : r[n] = IF n <= p THEN x[n]
                                   ELSE IF n <= p + q THEN y[n - p]
                                   ELSE z[n - (p + q)]
  <2> DEFINE H == Held(s, A) \cup Held(s, B) \cup Held(s, C)
  <2>1. x \in Seq(H) /\ y \in Seq(H) /\ z \in Seq(H)
    BY <1>5, <1>6, <1>7
  <2> HIDE DEF H
  <2>2. /\ x \o y \in Seq(H) /\ Len(x \o y) = p + q
        /\ \A n \in 1 .. p + q : (x \o y)[n] = IF n <= p THEN x[n] ELSE y[n - p]
    <3>1. Len(x) = p /\ Len(y) = q
      BY <1>5, <1>6
    <3> QED
      BY <2>1, <3>1, ConcatFacts
  <2> DEFINE xy == x \o y
  <2> HIDE DEF xy
  <2>3. /\ xy \in Seq(H) /\ Len(xy) = p + q
        /\ \A n \in 1 .. p + q : xy[n] = IF n <= p THEN x[n] ELSE y[n - p]
    BY <2>2 DEF xy
  <2>4. /\ xy \o z \in Seq(H) /\ Len(xy \o z) = p + q + t
        /\ \A n \in 1 .. p + q + t :
              (xy \o z)[n] = IF n <= p + q THEN xy[n] ELSE z[n - (p + q)]
    <3>1. Len(z) = t /\ Len(xy) = p + q
      BY <2>3, <1>7
    <3>2. /\ xy \o z \in Seq(H) /\ Len(xy \o z) = Len(xy) + Len(z)
          /\ \A n \in 1 .. Len(xy) + Len(z) :
                (xy \o z)[n] = IF n <= Len(xy) THEN xy[n] ELSE z[n - Len(xy)]
      BY <2>1, <2>3, ConcatFacts
    <3> QED
      BY <3>1, <3>2
  <2>5. r = xy \o z
    BY <1>4 DEF xy
  <2>6. r \in Seq(H) /\ Len(r) = k
    BY <2>4, <2>5, <1>8
  <2>7. \A n \in 1 .. k : r[n] = IF n <= p + q THEN xy[n] ELSE z[n - (p + q)]
    BY <2>4, <2>5, <1>8
  <2>8. \A n \in 1 .. k : r[n] = IF n <= p THEN x[n]
                                 ELSE IF n <= p + q THEN y[n - p]
                                 ELSE z[n - (p + q)]
    BY <2>3, <2>7, <1>5, <1>6
  <2> QED
    BY <2>6, <2>8 DEF H
<1>14. ASSUME NEW n \in 1 .. k
       PROVE  /\ PlaceIn(s, n) \in 1 .. k /\ r[n] = s[PlaceIn(s, n)]
              /\ n <= p => r[n].confidence = "Confirmed"
              /\ n > p /\ n <= p + q => r[n].confidence = "Likely"
              /\ n > p + q => r[n].confidence = "Possible"
  <2>1. CASE n <= p
    <3>1. n \in 1 .. p /\ PlaceIn(s, n) = Nth(A, n) /\ r[n] = x[n]
      BY <1>5, <1>12, <1>13, <2>1
    <3>2. Nth(A, n) \in A /\ x[n] = s[Nth(A, n)]
      BY <1>5, <3>1
    <3>3. PlaceIn(s, n) \in 1 .. k /\ r[n] = s[PlaceIn(s, n)]
          /\ r[n].confidence = "Confirmed"
      BY <1>2, <1>9, <3>1, <3>2
    <3> QED
      BY <1>1, <1>5, <1>6, <2>1, <3>3
  <2>2. CASE n > p /\ n <= p + q
    <3>1. n - p \in 1 .. q /\ PlaceIn(s, n) = Nth(B, n - p) /\ r[n] = y[n - p]
      BY <1>5, <1>6, <1>12, <1>13, <2>2
    <3>2. Nth(B, n - p) \in B /\ y[n - p] = s[Nth(B, n - p)]
      BY <1>6, <3>1
    <3>3. PlaceIn(s, n) \in 1 .. k /\ r[n] = s[PlaceIn(s, n)]
          /\ r[n].confidence = "Likely"
      BY <1>2, <1>10, <3>1, <3>2
    <3> QED
      BY <1>1, <1>5, <1>6, <2>2, <3>3
  <2>3. CASE n > p + q
    <3>1. n - (p + q) \in 1 .. t /\ PlaceIn(s, n) = Nth(C, n - (p + q))
          /\ r[n] = z[n - (p + q)]
      BY <1>1, <1>5, <1>6, <1>7, <1>8, <1>12, <1>13, <2>3
    <3>2. Nth(C, n - (p + q)) \in C /\ z[n - (p + q)] = s[Nth(C, n - (p + q))]
      BY <1>7, <3>1
    <3>3. PlaceIn(s, n) \in 1 .. k /\ r[n] = s[PlaceIn(s, n)]
          /\ r[n].confidence = "Possible"
      BY <1>2, <1>11, <3>1, <3>2
    <3> QED
      BY <1>1, <1>5, <1>6, <2>3, <3>3
  <2> QED
    BY <1>1, <1>5, <1>6, <2>1, <2>2, <2>3
<1>15. r \in Seq(Range(r))
  <2>1. \A n \in 1 .. k : r[n] \in Range(r)
    BY <1>13 DEF Range
  <2>2. r \in [1 .. k -> Range(r)]
    BY <1>13, <2>1
  <2> QED
    BY <1>1, <2>2
<1>16. ASSUME NEW i \in 1 .. k PROVE \E n \in 1 .. k : r[n] = s[i]
  <2>1. CASE i \in A
    <3>1. PICK n \in 1 .. p : Nth(A, n) = i
      BY <1>5, <2>1
    <3>2. n \in 1 .. k /\ r[n] = s[i]
      BY <1>1, <1>5, <1>6, <1>7, <1>8, <1>13, <3>1
    <3> QED
      BY <3>2
  <2>2. CASE i \in B
    <3>1. PICK n \in 1 .. q : Nth(B, n) = i
      BY <1>6, <2>2
    <3>2. n + p \in 1 .. k /\ ~(n + p <= p) /\ n + p <= p + q /\ (n + p) - p = n
      BY <1>5, <1>6, <1>7, <1>8, <3>1
    <3>3. r[n + p] = s[i]
      BY <1>6, <1>13, <3>1, <3>2
    <3> QED
      BY <3>2, <3>3
  <2>3. CASE i \in C
    <3>1. PICK n \in 1 .. t : Nth(C, n) = i
      BY <1>7, <2>3
    <3>2. /\ n + (p + q) \in 1 .. k /\ ~(n + (p + q) <= p) /\ ~(n + (p + q) <= p + q)
          /\ (n + (p + q)) - (p + q) = n
      BY <1>5, <1>6, <1>7, <1>8, <3>1
    <3>3. r[n + (p + q)] = s[i]
      BY <1>7, <1>13, <3>1, <3>2
    <3> QED
      BY <3>2, <3>3
  <2> QED
    BY <1>3, <2>1, <2>2, <2>3
<1>17. ASSUME NEW a \in 1 .. k, NEW b \in 1 .. k, a < b
       PROVE  \/ Stronger(r[a], r[b])
              \/ r[a].confidence = r[b].confidence /\ PlaceIn(s, a) < PlaceIn(s, b)
  <2>1. CASE b <= p
    <3>1. a \in 1 .. p /\ b \in 1 .. p
      BY <1>1, <1>5, <1>17, <2>1
    <3>2. PlaceIn(s, a) = Nth(A, a) /\ PlaceIn(s, b) = Nth(A, b)
      BY <1>5, <1>12, <3>1
    <3> QED
      BY <1>5, <1>14, <1>17, <3>1, <3>2
  <2>2. CASE a > p /\ b <= p + q
    <3>1. a - p \in 1 .. q /\ b - p \in 1 .. q /\ a - p < b - p /\ a <= p + q /\ b > p
      BY <1>1, <1>5, <1>6, <1>17, <2>2
    <3>2. PlaceIn(s, a) = Nth(B, a - p) /\ PlaceIn(s, b) = Nth(B, b - p)
      BY <1>1, <1>5, <1>6, <1>12, <3>1, <2>2
    <3>3. Nth(B, a - p) < Nth(B, b - p)
      BY <1>6, <3>1
    <3>4. r[a].confidence = "Likely" /\ r[b].confidence = "Likely"
      BY <1>14, <3>1, <2>2
    <3> QED
      BY <3>2, <3>3, <3>4
  <2>3. CASE a > p + q
    <3>1. /\ a - (p + q) \in 1 .. t /\ b - (p + q) \in 1 .. t
          /\ a - (p + q) < b - (p + q) /\ b > p + q
          /\ ~(a <= p) /\ ~(b <= p) /\ ~(a <= p + q) /\ ~(b <= p + q)
      BY <1>1, <1>5, <1>6, <1>7, <1>8, <1>17, <2>3
    <3>2. PlaceIn(s, a) = Nth(C, a - (p + q)) /\ PlaceIn(s, b) = Nth(C, b - (p + q))
      BY <1>12, <3>1
    <3> QED
      BY <1>7, <1>14, <3>1, <3>2, <2>3
  <2>4. CASE a <= p /\ b > p
    <3>1. r[a].confidence = "Confirmed" /\ r[b].confidence \in {"Likely", "Possible"}
      BY <1>1, <1>5, <1>6, <1>14, <2>4
    <3> QED
      BY <3>1, StrengthValues DEF Stronger
  <2>5. CASE a > p /\ a <= p + q /\ b > p + q
    <3>1. r[a].confidence = "Likely" /\ r[b].confidence = "Possible"
      BY <1>1, <1>5, <1>6, <1>14, <2>5
    <3> QED
      BY <3>1, StrengthValues DEF Stronger
  <2> QED
    BY <1>1, <1>5, <1>6, <2>1, <2>2, <2>3, <2>4, <2>5
<1> QED
  BY <1>1, <1>13, <1>14, <1>15, <1>16, <1>17 DEF r, k, RankingOf

-----------------------------------------------------------------------------
(***************************************************************************)
(* The invariant is inductive: the host's steps.                           *)
(***************************************************************************)

EngineInv == ReportsInv /\ CandidatesInv /\ LimitationsInv

LEMMA EmptyIsASequence == << >> \in Seq(Range(<< >>)) /\ DOMAIN << >> = {} /\ Len(<< >>) = 0
<1>1. << >> \in [1 .. 0 -> Range(<< >>)]
  OBVIOUS
<1> QED
  BY <1>1

LEMMA InitInv == HostInit => IInv
<1> SUFFICES ASSUME HostInit PROVE IInv
  OBVIOUS
<1> USE DEF HostInit, AnalysisInit
<1>1. HostInv
  <2>1. HostTyped
    <3>1. live \in Seq(Contract) /\ origin \in Seq(Nat)
      OBVIOUS
    <3>2. errs \in Seq(Range(errs)) /\ Len(errs) = 0 /\ Len(origin) = 0
      BY EmptyIsASequence
    <3> QED
      BY <3>1, <3>2 DEF HostTyped
  <2> QED
    BY <2>1 DEF HostInv, FailingIsLatest
<1>2. ReportsInv
  <2>1. reports \in Seq(Range(reports)) /\ Len(reports) = 0
    BY EmptyIsASequence
  <2>2. Len(Registry) \in Nat
    BY RegistryAssumption
  <2> QED
    BY <2>1, <2>2 DEF ReportsInv
<1>3. CandidatesInv
  <2>1. candidates \in Seq(Range(candidates)) /\ DOMAIN candidates = {} /\ Len(candidates) = 0
    BY EmptyIsASequence
  <2>2. MatchedPlaces(reports) = {}
    BY EmptyIsASequence DEF MatchedPlaces
  <2>3. Cardinality(MatchedPlaces(reports)) = 0
    BY <2>2, FS_EmptySet
  <2>4. FromMatches(candidates, reports)
    BY <2>1, <2>2, <2>3 DEF FromMatches
  <2> QED
    BY <2>1, <2>4 DEF CandidatesInv, InOrder
<1> QED
  BY <1>1, <1>2, <1>3 DEF IInv, ModelInv, LimitationsInv

\* The host does not disturb an engine that has no input yet.
LEMMA EngineIdles ==
    ASSUME EngineInv, UNCHANGED analysisVars
    PROVE  EngineInv'
<1>1. ReportsInv'
  BY DEF EngineInv, ReportsInv, analysisVars
<1>2. CandidatesInv'
  BY DEF EngineInv, CandidatesInv, analysisVars
<1>3. LimitationsInv'
  <2>1. Stated' = Stated
    BY DEF Stated, StageLimitation, Inconclusive, analysisVars
  <2> QED
    BY <2>1 DEF EngineInv, LimitationsInv, analysisVars
<1> QED
  BY <1>1, <1>2, <1>3 DEF EngineInv

LEMMA CallInv ==
    ASSUME IInv, NEW c \in Contract, HostCall(c)
    PROVE  HostInv'
<1>1. live' \in Seq(Contract)
  BY DEF HostCall, IInv, HostInv, HostTyped
<1>2. UNCHANGED <<tx, errs, origin, failing>>
  BY DEF HostCall
<1> QED
  BY <1>1, <1>2 DEF IInv, HostInv, HostTyped, FailingIsLatest, Traced

LEMMA PopIsASequence ==
    ASSUME NEW s \in Seq(Contract), s # << >>
    PROVE  Pop(s) \in Seq(Contract)
BY DEF Pop

LEMMA ReturnInv ==
    ASSUME IInv, HostReturn
    PROVE  HostInv'
<1>1. live' \in Seq(Contract)
  BY PopIsASequence DEF HostReturn, Running, IInv, HostInv, HostTyped
<1>2. UNCHANGED <<tx, errs, origin, failing>>
  BY DEF HostReturn
<1> QED
  BY <1>1, <1>2 DEF IInv, HostInv, HostTyped, FailingIsLatest, Traced

\* What an event appended to the trace does to the host's invariant.
LEMMA EventInv ==
    ASSUME IInv, NEW x, NEW p \in 1 .. NextIndex,
           errs' = Append(errs, x), origin' = Append(origin, p),
           tx' = tx, live' \in Seq(Contract),
           x.index = NextIndex, x.contract \in Contract,
           x.error = ScError(x.error.type, x.error.code), x.error.code # None,
           p # NextIndex => /\ origin[p] = p /\ errs[p].error = x.error /\ x.marker = "other",
           p = NextIndex /\ x.error.type = "Contract" => x.marker = "origin",
           x.marker = "expired" => x.error # ScError("Auth", "InvalidAction"),
           \A i \in DOMAIN errs : origin[i] <= p,
           failing' \in {0, p}
    PROVE  HostInv'
<1>0. /\ errs \in Seq(Range(errs)) /\ origin \in Seq(Nat) /\ Len(origin) = Len(errs)
      /\ tx \in Transactions /\ \A i \in DOMAIN errs : Traced(errs, origin, i)
  BY DEF IInv, HostInv, HostTyped
<1>1. /\ errs' \in Seq(Range(errs')) /\ Len(errs') = Len(errs) + 1 /\ Len(errs) \in Nat
      /\ DOMAIN errs = 1 .. Len(errs) /\ DOMAIN errs' = 1 .. Len(errs) + 1
  BY <1>0, AppendIsASequence
<1>2. /\ origin' \in Seq(Nat) /\ Len(origin') = Len(errs) + 1
      /\ \A i \in 1 .. Len(errs) : origin'[i] = origin[i]
      /\ origin'[Len(errs) + 1] = p /\ p \in Nat /\ p \in 1 .. Len(errs) + 1
  BY <1>0, <1>1 DEF NextIndex
<1>3. HostTyped'
  BY <1>0, <1>1, <1>2 DEF HostTyped
<1>4. \A i \in DOMAIN errs' : Traced(errs', origin', i)
  BY <1>0, <1>1, AppendTraced DEF NextIndex
<1>5. FailingIsLatest'
  <2>1. origin'[p] = p
    BY <1>1, <1>2 DEF NextIndex
  <2>2. \A i \in DOMAIN errs' : origin'[i] <= p
    BY <1>1, <1>2
  <2> QED
    BY <1>1, <1>2, <2>1, <2>2 DEF FailingIsLatest
<1>6. (\A i \in DOMAIN errs : Traced(errs, origin, i))'
  BY <1>4
<1> QED
  BY <1>3, <1>5, <1>6 DEF HostInv

LEMMA RaiseInv ==
    ASSUME IInv, NEW cause, HostRaise(cause)
    PROVE  HostInv'
<1>0. /\ live \in Seq(Contract) /\ live # << >> /\ tx \in Transactions
      /\ errs \in Seq(Range(errs)) /\ \A i \in DOMAIN errs : Traced(errs, origin, i)
  BY DEF IInv, HostInv, HostTyped, HostRaise, Running
<1>1. Top \in Contract
  <2>1. Len(live) \in 1 .. Len(live)
    BY <1>0
  <2> QED
    BY <1>0, <2>1 DEF Top
<1>2. PICK data : errs' = Append(errs, EmittedError(Top, cause.error, cause.marker, NextIndex, data))
  BY DEF HostRaise
<1> DEFINE x == EmittedError(Top, cause.error, cause.marker, NextIndex, data)
<1>3. /\ x.index = NextIndex /\ x.contract = Top /\ x.error = cause.error
      /\ x.marker = cause.marker
  BY DEF EmittedError
<1>4. cause \in tx.raises /\ origin' = Append(origin, NextIndex) /\ failing' = NextIndex
      /\ tx' = tx /\ live' = live
  BY DEF HostRaise
<1>5. /\ cause.error = ScError(cause.error.type, cause.error.code)
      /\ cause.error.code # None
      /\ cause.error.type = "Contract" => cause.marker = "origin"
      /\ cause.marker = "expired" => cause.error # ScError("Auth", "InvalidAction")
  BY <1>0, <1>4, HostAssumption
<1>6. NextIndex \in 1 .. NextIndex /\ \A i \in DOMAIN errs : origin[i] <= NextIndex
  <2>1. Len(errs) \in Nat /\ DOMAIN errs = 1 .. Len(errs)
    BY <1>0
  <2>2. \A i \in DOMAIN errs : origin[i] \in 1 .. i
    BY <1>0 DEF Traced
  <2> QED
    BY <2>1, <2>2 DEF NextIndex
<1> HIDE DEF x
<1> QED
  BY <1>0, <1>1, <1>2, <1>3, <1>4, <1>5, <1>6, EventInv DEF x

LEMMA UnwindInv ==
    ASSUME IInv, NEW caught \in BOOLEAN, HostUnwind(caught)
    PROVE  HostInv'
<1>0. /\ live \in Seq(Contract) /\ live # << >> /\ Len(live) > 1
      /\ errs \in Seq(Range(errs)) /\ \A i \in DOMAIN errs : Traced(errs, origin, i)
      /\ failing # 0 /\ FailingIsLatest
  BY DEF IInv, HostInv, HostTyped, HostUnwind, Running
<1> DEFINE x == EmittedError(live[Len(live) - 1], errs[failing].error, "other", NextIndex, NoData)
<1>1. /\ errs' = Append(errs, x) /\ origin' = Append(origin, failing)
      /\ failing' \in {0, failing} /\ live' = Pop(live) /\ tx' = tx
  BY DEF HostUnwind
<1>2. live[Len(live) - 1] \in Contract
  <2>1. Len(live) - 1 \in 1 .. Len(live)
    BY <1>0
  <2> QED
    BY <1>0, <2>1
<1>3. /\ x.index = NextIndex /\ x.contract \in Contract /\ x.error = errs[failing].error
      /\ x.marker = "other"
  BY <1>2 DEF EmittedError
<1>4. live' \in Seq(Contract)
  BY <1>0, <1>1, PopIsASequence
<1>5. /\ failing \in DOMAIN errs /\ origin[failing] = failing
      /\ \A i \in DOMAIN errs : origin[i] <= failing
      /\ Traced(errs, origin, failing)
  BY <1>0 DEF FailingIsLatest
<1>6. failing \in 1 .. NextIndex /\ failing # NextIndex
  BY <1>0, <1>5 DEF NextIndex
<1>7. /\ x.error = ScError(x.error.type, x.error.code) /\ x.error.code # None
  BY <1>3, <1>5 DEF Traced
<1> HIDE DEF x
<1> QED
  BY <1>1, <1>3, <1>4, <1>5, <1>6, <1>7, EventInv

-----------------------------------------------------------------------------
(***************************************************************************)
(* The invariant is inductive: the engine's steps.                         *)
(***************************************************************************)

Aborted == {Trapped(bump) : bump \in {None, "TxFeeBumpInnerFailed"}}

\* Both ways a finished transaction reaches the engine.
LEMMA SubmitInv ==
    ASSUME IInv, NEW emitted \in BOOLEAN, NEW terminal \in {None, Ended}, NEW supplied,
           terminal # None => failing # 0,
           result' \in Results \cup Aborted,
           \A c \in Contract : supplied[c] # None =>
              /\ c \in DOMAIN tx.code
              /\ \E w \in {tx.code[c]} \cup UpgradesTo : supplied[c] = Spec(w, NamesOf[w]),
           Begin(Model(AnalysisInput(result', emitted, terminal)), supplied),
           UNCHANGED <<tx, live, errs, origin, failing>>
    PROVE  IInv'
<1>1. HostInv'
  BY DEF IInv, HostInv, HostTyped, FailingIsLatest, Traced
<1>2. ModelInv'
  <2>1. /\ model' = Model(AnalysisInput(result', emitted, terminal)) /\ specs' = supplied
        /\ contractErrors' = ResolveContractErrors(model'.errors, model'.terminal, supplied,
                                                   CodeHashes(model'))
    BY DEF Begin
  <2>2. Model(AnalysisInput(result', emitted, terminal)) = Model(AnalysisInput(result, emitted, terminal))'
    BY DEF Model, AnalysisInput, IsClassic, Soroban
  <2>3. Ended' = Ended
    BY DEF Ended
  <2>4. Submitted'
    BY <2>1, <2>2, <2>3 DEF Submitted, Aborted
  <2> QED
    BY <2>4 DEF ModelInv
<1>3. ReportsInv' /\ CandidatesInv' /\ LimitationsInv'
  <2>0. /\ phase = "input" /\ phase' = "rules"
        /\ UNCHANGED <<evaluated, reports, candidates, limitations>>
    BY DEF Begin
  <2>1. evaluated = 0 /\ reports \in Seq(Range(reports)) /\ Len(reports) = 0
        /\ evaluated \in 0 .. Len(Registry)
    BY <2>0 DEF IInv, ReportsInv
  <2>2. ReportsInv'
    BY <2>0, <2>1 DEF ReportsInv
  <2>3. CandidatesInv'
    BY <2>0 DEF IInv, CandidatesInv
  <2>4. LimitationsInv'
    BY <2>0 DEF IInv, LimitationsInv
  <2> QED
    BY <2>2, <2>3, <2>4
<1> QED
  BY <1>1, <1>2, <1>3 DEF IInv

LEMMA AbortInv ==
    ASSUME IInv, HostAbort
    PROVE  IInv'
<1>1. failing # 0 /\ result' \in Aborted /\ UNCHANGED <<tx, live, errs, origin, failing>>
  BY DEF HostAbort, Aborted
<1>2. PICK emitted \in BOOLEAN, supplied \in Fetched :
         Begin(Model(AnalysisInput(result', emitted, Ended)), supplied)
  BY DEF HostAbort, Ended, NextIndex
<1>3. ASSUME NEW c \in Contract, supplied[c] # None
      PROVE  /\ c \in DOMAIN tx.code
             /\ \E w \in {tx.code[c]} \cup UpgradesTo : supplied[c] = Spec(w, NamesOf[w])
  BY <1>2, <1>3 DEF Fetched
<1>4. result' \in Results \cup Aborted
  BY <1>1
<1> QED
  BY <1>1, <1>2, <1>3, <1>4, SubmitInv

LEMMA RefuseInv ==
    ASSUME IInv, HostRefuse
    PROVE  IInv'
<1>1. result' \in Results \cup Aborted /\ UNCHANGED <<tx, live, errs, origin, failing>>
  BY DEF HostRefuse
<1>2. PICK emitted \in BOOLEAN :
         Begin(Model(AnalysisInput(result', emitted, None)), [c \in Contract |-> None])
  BY DEF HostRefuse
<1>3. \A c \in Contract : [d \in Contract |-> None][c] = None
  OBVIOUS
<1> QED
  BY <1>1, <1>2, <1>3, SubmitInv

\* Once submitted, what was submitted stays.
LEMMA ModelStays ==
    ASSUME IInv, phase # "input",
           UNCHANGED hostVars, UNCHANGED <<model, specs, contractErrors>>
    PROVE  HostInv' /\ ModelInv'
<1>1. HostInv'
  BY DEF IInv, HostInv, HostTyped, FailingIsLatest, Traced, hostVars
<1>2. Submitted
  BY DEF IInv, ModelInv
<1>3. Submitted'
  <2>1. PICK emitted \in BOOLEAN, terminal \in {None, Ended} :
           /\ terminal # None => failing # 0
           /\ model = Model(AnalysisInput(result, emitted, terminal))
    BY <1>2 DEF Submitted
  <2>2. Model(AnalysisInput(result, emitted, terminal))
             = Model(AnalysisInput(result, emitted, terminal))'
    BY DEF Model, AnalysisInput, IsClassic, Soroban, hostVars
  <2>3. Ended' = Ended /\ failing' = failing /\ tx' = tx /\ result' = result
    BY DEF Ended, hostVars
  <2>4. (\E e \in BOOLEAN, t \in {None, Ended} :
           /\ t # None => failing # 0
           /\ model = Model(AnalysisInput(result, e, t)))'
    BY <2>1, <2>2, <2>3
  <2>5. /\ contractErrors' = ResolveContractErrors(model'.errors, model'.terminal, specs',
                                                   CodeHashes(model'))
        /\ result' \in Results \cup {Trapped(bump) : bump \in {None, "TxFeeBumpInnerFailed"}}
    BY <1>2, <2>3 DEF Submitted
  <2>6. \A c \in Contract : specs'[c] # None =>
          /\ c \in DOMAIN tx'.code
          /\ \E w \in {tx'.code[c]} \cup UpgradesTo : specs'[c] = Spec(w, NamesOf[w])
    BY <1>2, <2>3 DEF Submitted
  <2> QED
    BY <2>4, <2>5, <2>6 DEF Submitted
<1> QED
  BY <1>1, <1>3 DEF ModelInv

LEMMA RunRuleInv ==
    ASSUME IInv, RunRule, UNCHANGED hostVars
    PROVE  IInv'
<1> DEFINE n       == evaluated + 1
           outcome == Evaluate(Registry[n], model, contractErrors)
           found   == IF outcome.status = "Matched"
                      THEN Append(candidates, Candidate(Registry[n], outcome)) ELSE candidates
<1>0. /\ phase = "rules" /\ evaluated < Len(Registry)
      /\ reports' = Append(reports, outcome) /\ candidates' = found
      /\ evaluated' = n /\ UNCHANGED <<model, specs, contractErrors, limitations, phase>>
  BY DEF RunRule
<1>1. /\ ReportsInv /\ CandidatesInv /\ LimitationsInv
      /\ Len(Registry) \in Nat /\ DOMAIN Registry = 1 .. Len(Registry)
  BY RegistryAssumption DEF IInv
<1>2. HostInv' /\ ModelInv'
  BY <1>0, ModelStays
<1>3. /\ evaluated \in Nat /\ n \in 1 .. Len(Registry) /\ n \in DOMAIN Registry
      /\ reports \in Seq(Range(reports)) /\ Len(reports) = evaluated
  BY <1>0, <1>1 DEF ReportsInv
<1> HIDE DEF outcome
<1>4. /\ reports' \in Seq(Range(reports')) /\ Len(reports') = n
      /\ DOMAIN reports = 1 .. evaluated /\ DOMAIN reports' = 1 .. n
      /\ \A i \in 1 .. evaluated : reports'[i] = reports[i]
      /\ reports'[n] = outcome
  BY <1>0, <1>3, AppendIsASequence
<1>5. ReportsInv'
  <2>1. \A i \in 1 .. n : i \in 1 .. evaluated \/ i = n
    BY <1>3
  <2>2. \A i \in 1 .. n : reports'[i] = Evaluate(Registry[i], model, contractErrors)
    BY <1>1, <1>4, <2>1 DEF ReportsInv, outcome
  <2>3. /\ phase' = "rules" /\ evaluated' = n /\ model' = model
        /\ contractErrors' = contractErrors
    BY <1>0
  <2> QED
    BY <1>3, <1>4, <2>2, <2>3 DEF ReportsInv
<1> DEFINE M  == MatchedPlaces(reports)
           M2 == MatchedPlaces(reports')
<1>6. M \subseteq 1 .. evaluated
      /\ M2 = IF outcome.status = "Matched" THEN M \cup {n} ELSE M
  <2>1. \A i \in 1 .. n : i \in 1 .. evaluated \/ i = n
    BY <1>3
  <2>2. 1 .. evaluated \subseteq 1 .. n /\ n \in 1 .. n
    BY <1>3
  <2> QED
    BY <1>4, <2>1, <2>2 DEF MatchedPlaces
<1>7. /\ FromMatches(candidates, reports) /\ InOrder(candidates)
  BY <1>0, <1>1 DEF CandidatesInv
<1>8. /\ candidates \in Seq(Range(candidates)) /\ Len(candidates) = Cardinality(M)
      /\ \A a \in DOMAIN candidates : \E i \in M : candidates[a] = Candidate(Registry[i], reports[i])
      /\ \A i \in M : \E a \in DOMAIN candidates : candidates[a] = Candidate(Registry[i], reports[i])
  BY <1>7 DEF FromMatches
<1>9. \A i \in M : reports'[i] = reports[i]
  BY <1>4, <1>6
<1> HIDE DEF M, M2
<1>10. CandidatesInv'
  <2>1. CASE outcome.status # "Matched"
    <3>1. candidates' = candidates /\ M2 = M
      BY <1>0, <1>6, <2>1
    <3>2. FromMatches(candidates', reports')
      BY <1>8, <1>9, <3>1 DEF FromMatches, M2
    <3> QED
      BY <1>0, <1>7, <3>1, <3>2 DEF CandidatesInv
  <2>2. CASE outcome.status = "Matched"
    <3> DEFINE x == Candidate(Registry[n], outcome)
               k == Len(candidates)
    <3>1. candidates' = Append(candidates, x) /\ M2 = M \cup {n}
      BY <1>0, <1>6, <2>2
    <3>2. /\ candidates' \in Seq(Range(candidates')) /\ Len(candidates') = k + 1 /\ k \in Nat
          /\ DOMAIN candidates = 1 .. k /\ DOMAIN candidates' = 1 .. k + 1
          /\ \A a \in 1 .. k : candidates'[a] = candidates[a]
          /\ candidates'[k + 1] = x
      <4> HIDE DEF x
      <4> QED
        BY <1>8, <3>1, AppendIsASequence
    <3>3. Cardinality(M2) = Cardinality(M) + 1
      <4>1. IsFiniteSet(M) /\ n \notin M
        <5>1. IsFiniteSet(1 .. evaluated) /\ n \notin 1 .. evaluated
          BY <1>3, FS_Interval
        <5> QED
          BY <1>6, <5>1, FS_Subset
      <4> QED
        BY <3>1, <4>1, FS_AddElement
    <3>4. \A a \in 1 .. k + 1 : \E i \in M2 : candidates'[a] = Candidate(Registry[i], reports'[i])
      <4>1. ASSUME NEW a \in 1 .. k
            PROVE  \E i \in M2 : candidates'[a] = Candidate(Registry[i], reports'[i])
        BY <1>8, <1>9, <3>1, <3>2, <4>1
      <4>2. n \in M2 /\ candidates'[k + 1] = Candidate(Registry[n], reports'[n])
        BY <1>4, <3>1, <3>2
      <4>3. \A a \in 1 .. k + 1 : a \in 1 .. k \/ a = k + 1
        BY <3>2
      <4> QED
        BY <4>1, <4>2, <4>3
    <3>5. \A i \in M2 : \E a \in 1 .. k + 1 : candidates'[a] = Candidate(Registry[i], reports'[i])
      <4>1. ASSUME NEW i \in M
            PROVE  \E a \in 1 .. k + 1 : candidates'[a] = Candidate(Registry[i], reports'[i])
        <5>1. PICK a \in 1 .. k : candidates[a] = Candidate(Registry[i], reports[i])
          BY <1>8, <3>2, <4>1
        <5>2. a \in 1 .. k + 1 /\ candidates'[a] = candidates[a] /\ reports'[i] = reports[i]
          BY <1>9, <3>2, <4>1, <5>1
        <5> QED
          BY <5>1, <5>2
      <4>2. k + 1 \in 1 .. k + 1 /\ candidates'[k + 1] = Candidate(Registry[n], reports'[n])
        BY <1>4, <3>2
      <4> QED
        BY <3>1, <4>1, <4>2
    <3>6. FromMatches(candidates', reports')
      BY <1>8, <3>2, <3>3, <3>4, <3>5 DEF FromMatches, M2
    <3>7. InOrder(candidates')
      <4> SUFFICES ASSUME NEW a \in 1 .. k + 1, NEW b \in 1 .. k + 1, a < b
                   PROVE  Registered(candidates'[a], candidates'[b])
        BY <3>2 DEF InOrder
      <4>1. CASE b \in 1 .. k
        <5>1. a \in 1 .. k
          BY <3>2, <4>1
        <5> QED
          BY <1>7, <3>2, <4>1, <5>1 DEF InOrder
      <4>2. CASE b = k + 1
        <5>1. a \in 1 .. k
          BY <3>2, <4>2
        <5>2. PICK i \in M : candidates[a] = Candidate(Registry[i], reports[i])
          BY <1>8, <3>2, <5>1
        <5>3. candidates'[a].rule = Registry[i] /\ candidates'[b].rule = Registry[n]
          BY <3>2, <4>2, <5>1, <5>2 DEF Candidate
        <5>4. i \in DOMAIN Registry /\ i < n
          BY <1>1, <1>3, <1>6
        <5> QED
          BY <1>3, <5>3, <5>4 DEF Registered
      <4> QED
        BY <3>2, <4>1, <4>2
    <3> QED
      BY <1>0, <3>6, <3>7 DEF CandidatesInv
  <2> QED
    BY <2>1, <2>2
<1>11. LimitationsInv'
  BY <1>0, <1>1 DEF LimitationsInv
<1> QED
  BY <1>2, <1>5, <1>10, <1>11 DEF IInv

LEMMA SortInv ==
    ASSUME IInv, Sort, UNCHANGED hostVars
    PROVE  IInv'
<1>0. /\ phase = "rules" /\ evaluated = Len(Registry) /\ phase' = "sorted"
      /\ candidates' = Ranked(candidates)
      /\ UNCHANGED <<model, specs, contractErrors, evaluated, reports, limitations>>
  BY DEF Sort
<1>1. ReportsInv /\ CandidatesInv /\ LimitationsInv
  BY DEF IInv
<1>2. HostInv' /\ ModelInv'
  BY <1>0, ModelStays
<1>3. ReportsInv'
  BY <1>0, <1>1 DEF ReportsInv
<1>4. /\ FromMatches(candidates, reports) /\ InOrder(candidates)
  BY <1>0, <1>1 DEF CandidatesInv
<1>5. /\ candidates \in Seq(Range(candidates))
      /\ Len(candidates) = Cardinality(MatchedPlaces(reports))
      /\ \A a \in DOMAIN candidates : \E i \in MatchedPlaces(reports) :
            candidates[a] = Candidate(Registry[i], reports[i])
      /\ \A i \in MatchedPlaces(reports) : \E a \in DOMAIN candidates :
            candidates[a] = Candidate(Registry[i], reports[i])
  BY <1>4 DEF FromMatches
<1>6. \A i \in DOMAIN candidates : candidates[i].confidence \in Confidence
  <2> SUFFICES ASSUME NEW a \in DOMAIN candidates
               PROVE  candidates[a].confidence \in Confidence
    OBVIOUS
  <2>1. PICK i \in MatchedPlaces(reports) : candidates[a] = Candidate(Registry[i], reports[i])
    BY <1>5
  <2>2. i \in 1 .. evaluated /\ reports[i].status = "Matched" /\ i \in DOMAIN Registry
    BY <1>0, <1>1, RegistryAssumption DEF ReportsInv, MatchedPlaces
  <2>3. reports[i] = Evaluate(Registry[i], model, contractErrors)
    BY <1>1, <2>2 DEF ReportsInv
  <2>4. Registry[i] \in Range(Builtin)
    BY <2>2, RegistryAssumption
  <2>5. MatchedFacts(reports[i])
    BY <2>3, <2>4, OutcomesAreTyped
  <2> QED
    BY <2>1, <2>2, <2>5 DEF Candidate, MatchedFacts
<1>7. /\ candidates' \in Seq(Range(candidates')) /\ Len(candidates') = Len(candidates)
      /\ \A n \in DOMAIN candidates' :
            /\ PlaceIn(candidates, n) \in DOMAIN candidates
            /\ candidates'[n] = candidates[PlaceIn(candidates, n)]
      /\ \A i \in DOMAIN candidates : \E n \in DOMAIN candidates' : candidates'[n] = candidates[i]
      /\ \A a, b \in DOMAIN candidates' : a < b =>
            \/ Stronger(candidates'[a], candidates'[b])
            \/ /\ candidates'[a].confidence = candidates'[b].confidence
               /\ PlaceIn(candidates, a) < PlaceIn(candidates, b)
  <2>1. RankingOf(Ranked(candidates), candidates)
    BY <1>5, <1>6, RankedFacts
  <2>2. RankingOf(candidates', candidates)
    BY <1>0, <2>1
  <2> QED
    BY <2>2 DEF RankingOf
<1>8. FromMatches(candidates', reports')
  <2>1. \A n \in DOMAIN candidates' : \E i \in MatchedPlaces(reports) :
            candidates'[n] = Candidate(Registry[i], reports[i])
    BY <1>5, <1>7
  <2>2. \A i \in MatchedPlaces(reports) : \E n \in DOMAIN candidates' :
            candidates'[n] = Candidate(Registry[i], reports[i])
    <3> SUFFICES ASSUME NEW i \in MatchedPlaces(reports)
                 PROVE  \E n \in DOMAIN candidates' :
                           candidates'[n] = Candidate(Registry[i], reports[i])
      OBVIOUS
    <3>1. PICK a \in DOMAIN candidates : candidates[a] = Candidate(Registry[i], reports[i])
      <4>1. \A j \in MatchedPlaces(reports) : \E a \in DOMAIN candidates :
                candidates[a] = Candidate(Registry[j], reports[j])
        BY <1>4 DEF FromMatches
      <4> QED
        BY <4>1
    <3>2. PICK n \in DOMAIN candidates' : candidates'[n] = candidates[a]
      BY <1>7, <3>1
    <3> QED
      BY <3>1, <3>2
  <2> QED
    BY <1>0, <1>5, <1>7, <2>1, <2>2 DEF FromMatches
<1>9. ByStrength(candidates')
  BY <1>4, <1>7 DEF ByStrength, InOrder
<1>10. CandidatesInv'
  BY <1>0, <1>8, <1>9 DEF CandidatesInv
<1>11. LimitationsInv'
  BY <1>0, <1>1 DEF LimitationsInv
<1> QED
  BY <1>2, <1>3, <1>10, <1>11 DEF IInv

LEMMA ConcludeInv ==
    ASSUME IInv, Conclude, UNCHANGED hostVars
    PROVE  IInv'
<1>0. /\ phase = "sorted" /\ phase' = "done" /\ limitations' = Stated
      /\ UNCHANGED <<model, specs, contractErrors, evaluated, reports, candidates>>
  BY DEF Conclude, Stated
<1>1. ReportsInv /\ CandidatesInv
  BY DEF IInv
<1>2. HostInv' /\ ModelInv'
  BY <1>0, ModelStays
<1>3. ReportsInv' /\ CandidatesInv'
  BY <1>0, <1>1 DEF ReportsInv, CandidatesInv
<1>4. Stated' = Stated
  BY <1>0 DEF Stated, StageLimitation, Inconclusive
<1> QED
  BY <1>0, <1>2, <1>3, <1>4 DEF IInv, LimitationsInv

LEMMA StepInv ==
    ASSUME IInv, [HostedNext]_vars
    PROVE  IInv'
<1>1. ASSUME HostInv', UNCHANGED analysisVars, phase = "input"
      PROVE  IInv'
  <2>1. EngineInv'
    BY <1>1, EngineIdles DEF IInv, EngineInv
  <2>2. ModelInv'
    BY <1>1 DEF ModelInv, analysisVars
  <2> QED
    BY <1>1, <2>1, <2>2 DEF IInv, EngineInv
<1>2. ASSUME NEW c \in Contract, HostCall(c) PROVE IInv'
  BY <1>1, <1>2, CallInv DEF HostCall
<1>3. ASSUME NEW cause, HostRaise(cause) PROVE IInv'
  BY <1>1, <1>3, RaiseInv DEF HostRaise, Running
<1>4. ASSUME NEW caught \in BOOLEAN, HostUnwind(caught) PROVE IInv'
  BY <1>1, <1>4, UnwindInv DEF HostUnwind, Running
<1>5. CASE HostReturn
  BY <1>1, <1>5, ReturnInv DEF HostReturn, Running
<1>6. CASE HostAbort
  BY <1>6, AbortInv
<1>7. CASE HostRefuse
  BY <1>7, RefuseInv
<1>8. CASE HostedAnalyse
  BY <1>8, RunRuleInv, SortInv, ConcludeInv DEF HostedAnalyse, Analyse
<1>9. CASE UNCHANGED vars
  <2>1. UNCHANGED analysisVars /\ UNCHANGED hostVars
    BY <1>9 DEF vars, analysisVars, hostVars
  <2>2. EngineInv'
    BY <2>1, EngineIdles DEF IInv, EngineInv
  <2>3. CASE phase = "input"
    <3>1. HostInv'
      BY <2>1 DEF IInv, HostInv, HostTyped, FailingIsLatest, Traced, hostVars
    <3>2. ModelInv'
      BY <2>1, <2>3 DEF ModelInv, analysisVars
    <3> QED
      BY <2>2, <3>1, <3>2 DEF IInv, EngineInv
  <2>4. CASE phase # "input"
    <3>1. HostInv' /\ ModelInv'
      BY <2>1, <2>4, ModelStays DEF analysisVars
    <3> QED
      BY <2>2, <3>1 DEF IInv, EngineInv
  <2> QED
    BY <2>3, <2>4
<1> QED
  BY <1>2, <1>3, <1>4, <1>5, <1>6, <1>7, <1>8, <1>9 DEF HostedNext

LEMMA Invariance == HostedSpec => []IInv
<1>1. HostInit => IInv
  BY InitInv
<1>2. IInv /\ [HostedNext]_vars => IInv'
  BY StepInv
<1> QED
  BY <1>1, <1>2, PTL DEF HostedSpec

-----------------------------------------------------------------------------
(***************************************************************************)
(* What the invariant says of the model, the reports and the candidates.   *)
(***************************************************************************)

ModelFacts ==
    /\ Len(errs) \in Nat /\ DOMAIN errs = 1 .. Len(errs)
    /\ model.outcome = Classify(result)
    /\ model.emitted \in BOOLEAN
    /\ model.emitted => model.errors = errs
    /\ ~model.emitted => model.errors = << >>
    /\ model.terminal \in {None, Ended}
    /\ model.terminal # None => failing # 0 /\ model.terminal = Ended /\ model.errors = errs
    /\ CodeHashes(model) \subseteq {tx.code[c] : c \in DOMAIN tx.code}

LEMMA TheModel ==
    ASSUME IInv, phase # "input"
    PROVE  ModelFacts
<1>1. errs \in Seq(Range(errs))
  BY DEF IInv, HostInv, HostTyped
<1>2. PICK emitted \in BOOLEAN, terminal \in {None, Ended} :
         /\ terminal # None => failing # 0
         /\ model = Model(AnalysisInput(result, emitted, terminal))
  BY DEF IInv, ModelInv, Submitted
<1>3. /\ model.outcome = Classify(result) /\ model.emitted = emitted
      /\ model.errors = (IF emitted THEN errs ELSE << >>)
      /\ model.terminal = (IF emitted THEN terminal ELSE None)
      /\ model.soroban = None \/ model.soroban = Soroban
  BY <1>2 DEF Model, AnalysisInput
<1>4. CodeHashes(model) \subseteq {tx.code[c] : c \in DOMAIN tx.code}
  BY <1>3 DEF CodeHashes, Soroban
<1>5. Len(errs) \in Nat /\ DOMAIN errs = 1 .. Len(errs)
  BY <1>1
<1>6. /\ model.emitted \in BOOLEAN
      /\ model.emitted => model.errors = errs
      /\ ~model.emitted => model.errors = << >>
      /\ model.terminal \in {None, Ended}
  BY <1>3
<1>7. model.terminal # None => failing # 0 /\ model.terminal = Ended /\ model.errors = errs
  BY <1>2, <1>3
<1> QED
  BY <1>3, <1>4, <1>5, <1>6, <1>7 DEF ModelFacts

LEMMA TheReports ==
    ASSUME IInv
    PROVE  /\ reports # << >> => phase # "input"
           /\ DOMAIN reports = 1 .. evaluated
           /\ \A i \in 1 .. evaluated :
                 /\ i \in DOMAIN Registry /\ Registry[i] \in Range(Builtin)
                 /\ reports[i] = Evaluate(Registry[i], model, contractErrors)
                 /\ MatchedFacts(reports[i])
                 /\ phase # "input"
<1>1. ReportsInv /\ Len(Registry) \in Nat /\ DOMAIN Registry = 1 .. Len(Registry)
  BY RegistryAssumption DEF IInv
<1>2. DOMAIN reports = 1 .. evaluated /\ evaluated \in 0 .. Len(Registry)
      /\ (phase = "input" => evaluated = 0)
  <2>1. /\ reports \in Seq(Range(reports)) /\ Len(reports) = evaluated
        /\ evaluated \in 0 .. Len(Registry)
        /\ phase = "input" => evaluated = 0
    BY <1>1 DEF ReportsInv
  <2>2. DOMAIN reports = 1 .. Len(reports)
    BY <2>1
  <2> QED
    BY <2>1, <2>2
<1>3. reports # << >> => phase # "input"
  <2>1. ASSUME phase = "input" PROVE reports = << >>
    <3>1. reports \in Seq(Range(reports)) /\ Len(reports) = 0
      BY <1>1, <1>2, <2>1 DEF ReportsInv
    <3> QED
      BY <3>1
  <2> QED
    BY <2>1
<1>4. ASSUME NEW i \in 1 .. evaluated
      PROVE  /\ i \in DOMAIN Registry /\ Registry[i] \in Range(Builtin)
             /\ reports[i] = Evaluate(Registry[i], model, contractErrors)
             /\ MatchedFacts(reports[i])
             /\ phase # "input"
  <2>1. i \in DOMAIN Registry
    BY <1>1, <1>2
  <2>2. Registry[i] \in Range(Builtin)
    BY <2>1, RegistryAssumption
  <2>3. reports[i] = Evaluate(Registry[i], model, contractErrors)
    BY <1>1 DEF ReportsInv
  <2>4. MatchedFacts(reports[i])
    BY <2>2, <2>3, OutcomesAreTyped
  <2>5. phase # "input"
    BY <1>2
  <2> QED
    BY <2>1, <2>2, <2>3, <2>4, <2>5
<1> QED
  BY <1>2, <1>3, <1>4

\* A cause is the outcome of one rule that matched.
LEMMA TheCandidates ==
    ASSUME IInv, NEW c \in CandidateSet
    PROVE  \E i \in 1 .. evaluated :
              /\ c = Candidate(Registry[i], reports[i])
              /\ reports[i].status = "Matched"
<1>1. FromMatches(candidates, reports)
  BY DEF IInv, CandidatesInv
<1>2. PICK n \in DOMAIN candidates : c = candidates[n]
  BY DEF CandidateSet
<1>3. PICK i \in MatchedPlaces(reports) : c = Candidate(Registry[i], reports[i])
  BY <1>1, <1>2 DEF FromMatches
<1>4. i \in 1 .. evaluated /\ reports[i].status = "Matched"
  BY <1>3, TheReports DEF MatchedPlaces
<1> QED
  BY <1>3, <1>4

LEMMA EveryMatchIsACandidate ==
    ASSUME IInv, NEW i \in 1 .. evaluated, reports[i].status = "Matched"
    PROVE  Candidate(Registry[i], reports[i]) \in CandidateSet /\ candidates # << >>
<1>1. FromMatches(candidates, reports)
  BY DEF IInv, CandidatesInv
<1>2. i \in MatchedPlaces(reports)
  BY TheReports DEF MatchedPlaces
<1>3. PICK n \in DOMAIN candidates : candidates[n] = Candidate(Registry[i], reports[i])
  BY <1>1, <1>2 DEF FromMatches
<1> QED
  BY <1>3 DEF CandidateSet

-----------------------------------------------------------------------------
(***************************************************************************)
(* Types, limitations and the verdict.                                     *)
(***************************************************************************)

LEMMA TypeFollows ==
    ASSUME IInv
    PROVE  AnalysisTypeOK
<1>1. ReportsInv
  BY DEF IInv
<1>2. \A i \in DOMAIN reports : reports[i].status \in RuleStatus
  BY TheReports DEF MatchedFacts
<1>3. ASSUME NEW n \in DOMAIN candidates PROVE candidates[n].confidence \in Confidence
  <2>1. candidates[n] \in CandidateSet
    BY DEF CandidateSet
  <2>2. PICK i \in 1 .. evaluated : /\ candidates[n] = Candidate(Registry[i], reports[i])
                                    /\ reports[i].status = "Matched"
    BY <2>1, TheCandidates
  <2>3. reports[i].confidence \in Confidence
    BY <2>2, TheReports DEF MatchedFacts
  <2> QED
    BY <2>2, <2>3 DEF Candidate
<1>4. limitations \subseteq Limitation
  BY DEF IInv, LimitationsInv, Stated, StageLimitation, Limitation
<1>5. phase = "input" => reports = << >>
  BY TheReports
<1> QED
  BY <1>1, <1>2, <1>3, <1>4, <1>5 DEF ReportsInv, AnalysisTypeOK

LEMMA LimitationsFollow ==
    ASSUME IInv
    PROVE  LimitationsMatchTheVerdict
<1> SUFFICES ASSUME phase = "done" PROVE LimitationsMatchTheVerdict
  BY DEF LimitationsMatchTheVerdict
<1>1. limitations = Stated
  BY DEF IInv, LimitationsInv
<1>2. candidates \in Seq(Range(candidates))
  BY DEF IInv, CandidatesInv, FromMatches
<1>3. candidates # << >> => Head(candidates).confidence \in Confidence
  <2>1. ASSUME candidates # << >> PROVE 1 \in DOMAIN candidates /\ Head(candidates) = candidates[1]
    BY <1>2, <2>1
  <2>2. \A n \in DOMAIN candidates : candidates[n].confidence \in Confidence
    BY TypeFollows DEF AnalysisTypeOK
  <2> QED
    BY <2>1, <2>2
<1>4. \A x \in {"succeeded", "inconclusive", "unsupported"} :
         x \in limitations <=> x \in StageLimitation
  BY <1>1 DEF Stated
<1>5. CASE model.outcome.stage = None
  <2>1. Verdict = "NotAFailure" /\ StageLimitation = {"succeeded"}
    BY <1>5 DEF Verdict, StageLimitation
  <2>2. candidates = << >>
    <3> SUFFICES ASSUME candidates # << >> PROVE FALSE
      OBVIOUS
    <3>1. candidates[1] \in CandidateSet
      BY <1>2 DEF CandidateSet
    <3>2. PICK i \in 1 .. evaluated : reports[i].status = "Matched"
      BY <3>1, TheCandidates
    <3>3. /\ Registry[i] \in Range(Builtin)
          /\ reports[i] = Evaluate(Registry[i], model, contractErrors)
      BY TheReports
    <3>4. model.outcome.stage \in FailureStage
      BY <3>2, <3>3, MatchesAtItsStage DEF FailureStage
    <3> QED
      BY <1>5, <3>4, RegistryAssumption
  <2> QED
    BY <1>4, <2>1, <2>2 DEF LimitationsMatchTheVerdict
<1>6. CASE model.outcome.stage # None
  BY <1>3, <1>4, <1>6 DEF LimitationsMatchTheVerdict, Verdict, StageLimitation, Confidence
<1> QED
  BY <1>5, <1>6

-----------------------------------------------------------------------------
(***************************************************************************)
(* One cause, and the right one.                                           *)
(***************************************************************************)

LEMMA ErrorsAreUnexpired ==
    ASSUME IInv, phase # "input"
    PROVE  Len(model.errors) \in Nat /\ Unexpired(model)
<1>1. ModelFacts
  BY TheModel
<1>2. \A i \in DOMAIN errs : Traced(errs, origin, i)
  BY DEF IInv, HostInv
<1>3. CASE model.emitted
  BY <1>1, <1>2, <1>3 DEF ModelFacts, Unexpired, Traced
<1>4. CASE ~model.emitted
  BY <1>1, <1>4 DEF ModelFacts, Unexpired
<1> QED
  BY <1>3, <1>4

LEMMA OneConfirmed ==
    ASSUME IInv
    PROVE  AtMostOneConfirmed
<1>1. ASSUME NEW c \in Confirmed, NEW d \in Confirmed PROVE c = d
  <2>1. c \in CandidateSet /\ c.confidence = "Confirmed"
        /\ d \in CandidateSet /\ d.confidence = "Confirmed"
    BY DEF Confirmed
  <2>2. PICK i \in 1 .. evaluated : c = Candidate(Registry[i], reports[i])
    BY <2>1, TheCandidates
  <2>3. PICK j \in 1 .. evaluated : d = Candidate(Registry[j], reports[j])
    BY <2>1, TheCandidates
  <2>4. reports[i].confidence = "Confirmed" /\ reports[j].confidence = "Confirmed"
    BY <2>1, <2>2, <2>3 DEF Candidate
  <2>5. /\ i \in DOMAIN Registry /\ Registry[i] \in Range(Builtin)
        /\ reports[i] = Evaluate(Registry[i], model, contractErrors)
        /\ j \in DOMAIN Registry /\ Registry[j] \in Range(Builtin)
        /\ reports[j] = Evaluate(Registry[j], model, contractErrors)
        /\ phase # "input"
    BY TheReports
  <2>6. Len(model.errors) \in Nat /\ Unexpired(model)
    BY <2>5, ErrorsAreUnexpired
  <2>7. ConfirmedOf(Registry[i], model) /\ ConfirmedOf(Registry[j], model)
    BY <2>4, <2>5, <2>6, WhatConfirmationNeeds
  <2>8. Registry[i] = Registry[j]
    BY <2>5, <2>7, OneRuleConfirms
  <2>9. i = j
    BY <2>5, <2>8, RegistryAssumption
  <2> QED
    BY <2>2, <2>3, <2>9
<1>2. CASE Confirmed = {}
  BY <1>2, FS_EmptySet DEF AtMostOneConfirmed
<1>3. CASE Confirmed # {}
  <2>1. PICK c : c \in Confirmed
    BY <1>3
  <2>2. Confirmed = {c}
    BY <1>1, <2>1
  <2>3. Cardinality(Confirmed) = 1
    BY <2>2, FS_Singleton
  <2> QED
    BY <2>3 DEF AtMostOneConfirmed
<1> QED
  BY <1>2, <1>3

\* Whatever has been lost of the trace or reworded in it, an event that is left
\* is one the host emitted.
FromTheTrace(m) ==
    /\ Len(m.errors) \in Nat /\ DOMAIN m.errors = 1 .. Len(m.errors)
    /\ m.terminal \in {None, Ended} /\ (m.terminal # None => m.terminal = Ended /\ failing # 0)
    /\ \A n \in 1 .. Len(m.errors) :
          /\ m.errors[n].index \in DOMAIN errs
          /\ m.errors[n].error = errs[m.errors[n].index].error

Ascending(m) ==
    \A i, j \in 1 .. Len(m.errors) : i < j => m.errors[i].index < m.errors[j].index

\* The events listed for a code carry it, but for the terminal one; every event
\* that carries it is listed; and they are listed in order.
EventsOf(listed, m, code) ==
    /\ DOMAIN listed \subseteq Nat
    /\ \A n \in DOMAIN listed : listed[n] # Len(errs) + 1 =>
          listed[n] \in DOMAIN errs /\ errs[listed[n]].error = ContractError(code)
    /\ \A i \in DOMAIN m.errors : m.errors[i].error = ContractError(code) =>
          \E n \in DOMAIN listed : listed[n] = m.errors[i].index
    /\ Ascending(m) => \A a, b \in DOMAIN listed : a < b => listed[a] < listed[b]

LEMMA TheEventsOfACode ==
    ASSUME IInv, NEW m, FromTheTrace(m), NEW code, code # None
    PROVE  EventsOf(EventIndexes(m.errors, m.terminal, code), m, code)
<1> DEFINE S        == {i \in DOMAIN m.errors : m.errors[i].error = ContractError(code)}
           carrying == Only(m.errors, S)
           indexes  == [k \in DOMAIN carrying |-> carrying[k].index]
           all      == EventIndexes(m.errors, m.terminal, code)
           c        == Cardinality(S)
<1>0. S \in SUBSET (1 .. Len(m.errors)) /\ DOMAIN errs = 1 .. Len(errs) /\ Len(errs) \in Nat
  BY DEF FromTheTrace, IInv, HostInv, HostTyped
<1>1. Block(carrying, m.errors, S)
  <2>1. Len(m.errors) \in Nat
    BY DEF FromTheTrace
  <2> HIDE DEF S
  <2> QED
    BY <1>0, <2>1, OnlyIsABlock
<1>2. all = IF TerminalCode(m.terminal) = code THEN Append(indexes, m.terminal.index) ELSE indexes
  BY DEF EventIndexes
<1> HIDE DEF carrying, all, c
<1>3. /\ carrying \in Seq(Held(m.errors, S)) /\ Len(carrying) = c /\ c \in Nat
      /\ \A k \in 1 .. c : carrying[k] = m.errors[Nth(S, k)] /\ Nth(S, k) \in S
      /\ \A i \in S : \E k \in 1 .. c : Nth(S, k) = i
      /\ \A a, b \in 1 .. c : a < b => Nth(S, a) < Nth(S, b)
  <2> HIDE DEF S
  <2> QED
    BY <1>1 DEF Block, c
<1>4. DOMAIN carrying = 1 .. c
  BY <1>3
<1>5. ASSUME NEW k \in 1 .. c
      PROVE  /\ indexes[k] \in DOMAIN errs /\ errs[indexes[k]].error = ContractError(code)
             /\ indexes[k] = m.errors[Nth(S, k)].index /\ Nth(S, k) \in 1 .. Len(m.errors)
  <2>1. Nth(S, k) \in S /\ indexes[k] = m.errors[Nth(S, k)].index
    BY <1>3, <1>4
  <2> DEFINE i == Nth(S, k)
  <2> HIDE DEF i
  <2>2. i \in 1 .. Len(m.errors) /\ m.errors[i].error = ContractError(code)
        /\ indexes[k] = m.errors[i].index
    BY <1>0, <2>1 DEF i
  <2> QED
    BY <2>2 DEF FromTheTrace, i
<1>6. indexes \in Seq(DOMAIN errs) /\ Len(indexes) = c /\ DOMAIN indexes = 1 .. c
  <2>1. indexes \in [1 .. c -> DOMAIN errs]
    BY <1>4, <1>5
  <2> HIDE DEF indexes
  <2> QED
    BY <1>3, <2>1
<1> HIDE DEF indexes
<1>7. \/ DOMAIN all = 1 .. c /\ \A k \in 1 .. c : all[k] = indexes[k]
      \/ /\ DOMAIN all = 1 .. c + 1 /\ \A k \in 1 .. c : all[k] = indexes[k]
         /\ all[c + 1] = Len(errs) + 1
  <2>1. CASE TerminalCode(m.terminal) = code
    <3>1. m.terminal # None
      BY <2>1 DEF TerminalCode
    <3>2. m.terminal.index = Len(errs) + 1
      BY <3>1 DEF FromTheTrace, Ended
    <3>3. all = Append(indexes, m.terminal.index)
      BY <1>2, <2>1
    <3>4. indexes \in Seq(Nat) /\ m.terminal.index \in Nat
      BY <1>0, <1>6, <3>2
    <3> QED
      BY <1>3, <1>6, <3>2, <3>3, <3>4
  <2>2. CASE TerminalCode(m.terminal) # code
    BY <1>2, <1>6, <2>2
  <2> QED
    BY <2>1, <2>2
<1>8. \A n \in DOMAIN all : n \in 1 .. c \/ (n = c + 1 /\ all[n] = Len(errs) + 1)
  BY <1>3, <1>7
<1>9. DOMAIN all \subseteq Nat /\ 1 .. c \subseteq DOMAIN all
      /\ \A k \in 1 .. c : all[k] = indexes[k]
  BY <1>3, <1>7
<1>10. ASSUME NEW n \in DOMAIN all, all[n] # Len(errs) + 1
       PROVE  all[n] \in DOMAIN errs /\ errs[all[n]].error = ContractError(code)
  BY <1>5, <1>8, <1>9, <1>10
<1>11. ASSUME NEW i \in DOMAIN m.errors, m.errors[i].error = ContractError(code)
       PROVE  \E n \in DOMAIN all : all[n] = m.errors[i].index
  <2>1. i \in S
    BY <1>11
  <2>2. PICK k \in 1 .. c : Nth(S, k) = i
    BY <1>3, <2>1
  <2>3. k \in DOMAIN all /\ all[k] = m.errors[i].index
    BY <1>5, <1>9, <2>2
  <2> QED
    BY <2>3
<1>12. ASSUME Ascending(m), NEW a \in DOMAIN all, NEW b \in DOMAIN all, a < b
       PROVE  all[a] < all[b]
  <2>1. a \in 1 .. c
    BY <1>3, <1>8, <1>9, <1>12
  <2>2. CASE b \in 1 .. c
    <3>1. Nth(S, a) < Nth(S, b)
      BY <1>3, <1>12, <2>1, <2>2
    <3>2. /\ indexes[a] = m.errors[Nth(S, a)].index /\ Nth(S, a) \in 1 .. Len(m.errors)
          /\ indexes[b] = m.errors[Nth(S, b)].index /\ Nth(S, b) \in 1 .. Len(m.errors)
      BY <1>5, <2>1, <2>2
    <3>3. indexes[a] < indexes[b]
      BY <1>12, <3>1, <3>2 DEF Ascending
    <3> QED
      BY <1>9, <2>1, <2>2, <3>3
  <2>3. CASE all[b] = Len(errs) + 1
    <3>1. all[a] \in 1 .. Len(errs)
      BY <1>0, <1>5, <1>9, <2>1
    <3> QED
      BY <1>0, <2>3, <3>1
  <2> QED
    BY <1>8, <2>2, <2>3
<1> QED
  BY <1>9, <1>10, <1>11, <1>12 DEF EventsOf, all

-----------------------------------------------------------------------------
\* The report of a code.
ReportOf(r, m, sp, loaded) ==
    /\ r.terminal <=> TerminalCode(m.terminal) = r.code
    /\ r.events = EventIndexes(m.errors, m.terminal, r.code)
    /\ r.who = Identify(m.errors, r.code)
    /\ r.resolution = Resolve(r.who, r.code, sp, loaded)

LEMMA TheContractErrors ==
    ASSUME NEW m, NEW sp, NEW loaded, NEW k \in Nat, DOMAIN m.errors = 1 .. k
    PROVE  LET all == ResolveContractErrors(m.errors, m.terminal, sp, loaded) IN
           /\ Len(all) \in Nat /\ DOMAIN all = 1 .. Len(all)
           /\ DOMAIN all = DOMAIN CodesInOrder(m.errors, m.terminal)
           /\ \A i \in DOMAIN all : /\ ReportOf(all[i], m, sp, loaded)
                                    /\ all[i].code = CodesInOrder(m.errors, m.terminal)[i]
<1> DEFINE all   == ResolveContractErrors(m.errors, m.terminal, sp, loaded)
           codes == CodesInOrder(m.errors, m.terminal)
           report(code) ==
            LET who == Identify(m.errors, code) IN
            [code |-> code, terminal |-> TerminalCode(m.terminal) = code,
             events |-> EventIndexes(m.errors, m.terminal, code),
             who |-> who, resolution |-> Resolve(who, code, sp, loaded)]
<1>1. PICK n \in Nat : DOMAIN codes = 1 .. n
  BY CodesAreListed
<1>2. all = [i \in DOMAIN codes |-> report(codes[i])]
  BY DEF ResolveContractErrors
<1> HIDE DEF codes
<1>3. \A i \in 1 .. n : ReportOf(report(codes[i]), m, sp, loaded) /\ report(codes[i]).code = codes[i]
  BY DEF ReportOf
<1> HIDE DEF report, all
<1>4. DOMAIN all = 1 .. n /\ \A i \in 1 .. n : all[i] = report(codes[i])
  BY <1>1, <1>2
<1>5. Len(all) = n
  <2>1. all \in [1 .. n -> {report(codes[i]) : i \in 1 .. n}]
    BY <1>1, <1>2
  <2> QED
    BY <2>1
<1> QED
  BY <1>1, <1>3, <1>4, <1>5 DEF all, codes

-----------------------------------------------------------------------------
\* A confirming rule that reads the diagnostics blames an event of the error
\* that ended the invocation, whatever was lost or reworded of the trace.
LEMMA BlamesTheEndingError ==
    ASSUME IInv, NEW m, FromTheTrace(m), NEW i \in 1 .. Len(m.errors), EndedBy(m, i)
    PROVE  origin[m.errors[i].index] = failing \/ CaughtBefore
<1>1. m.terminal = Ended /\ m.errors[i].error = errs[failing].error
  BY DEF EndedBy, FromTheTrace, Ended
<1>2. /\ m.errors[i].index \in DOMAIN errs
      /\ errs[m.errors[i].index].error = errs[failing].error
  BY <1>1 DEF FromTheTrace
<1> QED
  BY <1>2 DEF CaughtBefore

LEMMA WhereItWasRaised ==
    ASSUME IInv, NEW m, FromTheTrace(m), NEW r, NEW code, code # None,
           TerminalCode(m.terminal) = code,
           r.events = EventIndexes(m.errors, m.terminal, code),
           NEW j \in DOMAIN m.errors, m.errors[j].error = ContractError(code)
    PROVE  /\ RaisedAt(m, r) \in DOMAIN errs /\ errs[RaisedAt(m, r)].error = ContractError(code)
           /\ Ascending(m) => RaisedAt(m, r) <= m.errors[j].index
<1> DEFINE listed  == EventIndexes(m.errors, m.terminal, code)
           earlier == {n \in DOMAIN r.events : r.events[n] # m.terminal.index}
<1>1. EventsOf(listed, m, code)
  BY TheEventsOfACode
<1> HIDE DEF listed
<1>2. m.terminal.index = Len(errs) + 1 /\ Len(errs) \in Nat /\ DOMAIN errs = 1 .. Len(errs)
  <2>1. m.terminal # None
    BY DEF TerminalCode
  <2>2. Len(errs) \in Nat /\ DOMAIN errs = 1 .. Len(errs)
    BY DEF IInv, HostInv, HostTyped
  <2> QED
    BY <2>1, <2>2 DEF FromTheTrace, Ended
<1>3. PICK p \in DOMAIN listed : listed[p] = m.errors[j].index
  BY <1>1 DEF EventsOf
<1>4. r.events = listed /\ m.errors[j].index \in DOMAIN errs
  BY DEF listed, FromTheTrace
<1>5. p \in earlier /\ earlier \in SUBSET Nat
  BY <1>1, <1>2, <1>3, <1>4 DEF EventsOf
<1> DEFINE f == Min(earlier)
<1>6. f \in earlier /\ f <= p
  <2> HIDE DEF earlier
  <2> QED
    BY <1>5, MinFacts
<1>7. RaisedAt(m, r) = listed[f]
  BY <1>4, <1>5 DEF RaisedAt
<1>8. f \in DOMAIN listed /\ listed[f] # Len(errs) + 1
  <2> HIDE DEF f
  <2> QED
    BY <1>2, <1>4, <1>6
<1> HIDE DEF f
<1>9. listed[f] \in DOMAIN errs /\ errs[listed[f]].error = ContractError(code)
  BY <1>1, <1>8 DEF EventsOf
<1>10. ASSUME Ascending(m) PROVE listed[f] <= m.errors[j].index
  <2>1. f < p => listed[f] < listed[p]
    BY <1>1, <1>3, <1>8, <1>10 DEF EventsOf
  <2>2. f \in Nat /\ p \in Nat
    BY <1>1, <1>3, <1>8 DEF EventsOf
  <2>3. listed[f] \in Nat /\ listed[p] \in Nat
    BY <1>2, <1>3, <1>4, <1>9
  <2>4. f = p => listed[f] = listed[p]
    OBVIOUS
  <2>5. f < p \/ f = p
    BY <1>6, <2>2
  <2>6. listed[f] <= listed[p]
    BY <2>1, <2>3, <2>4, <2>5
  <2> QED
    BY <1>3, <2>6
<1> QED
  BY <1>7, <1>9, <1>10

\* The terminal report is of the code that ended the invocation.
LEMMA TheTerminalReport ==
    ASSUME NEW m, NEW sp, NEW loaded, NEW k \in Nat, DOMAIN m.errors = 1 .. k,
           First(Terminals(ResolveContractErrors(m.errors, m.terminal, sp, loaded))) # 0
    PROVE  LET all == ResolveContractErrors(m.errors, m.terminal, sp, loaded)
               i   == First(Terminals(all))
           IN /\ i \in DOMAIN all /\ ReportOf(all[i], m, sp, loaded)
              /\ TerminalCode(m.terminal) = all[i].code
<1> DEFINE all == ResolveContractErrors(m.errors, m.terminal, sp, loaded)
<1>1. /\ Len(all) \in Nat /\ DOMAIN all = 1 .. Len(all)
      /\ \A i \in DOMAIN all : ReportOf(all[i], m, sp, loaded)
  BY TheContractErrors, ZenonT(60)
<1> HIDE DEF all
<1>2. Terminals(all) \in SUBSET (1 .. Len(all))
  BY DEF Terminals
<1> DEFINE i == First(Terminals(all))
<1>3. i \in Terminals(all)
  BY <1>1, <1>2, FirstFacts DEF all
<1>4. i \in DOMAIN all /\ all[i].terminal
  <2> HIDE DEF i
  <2> QED
    BY <1>1, <1>3 DEF Terminals
<1>5. ReportOf(all[i], m, sp, loaded)
  BY <1>1, <1>4
<1>6. TerminalCode(m.terminal) = all[i].code
  BY <1>4, <1>5 DEF ReportOf
<1> QED
  BY <1>4, <1>5, <1>6 DEF all

\* A contract is identified only by an event that carries the code.
LEMMA IdentifiedByAnEvent ==
    ASSUME NEW errors, NEW code, Identified(Identify(errors, code)) # None
    PROVE  \E j \in DOMAIN errors : Carries(errors[j], code)
<1>1. Identified(Unidentified) = None
  BY DEF Identified, Unidentified
<1> QED
  BY <1>1 DEF Identify

LEMMA Culprit ==
    ASSUME IInv, NEW m, FromTheTrace(m), NEW sp, NEW loaded,
           NEW rule \in DiagnosticRules,
           Evaluate(rule, m, ResolveContractErrors(m.errors, m.terminal, sp, loaded)).confidence
             = "Confirmed"
    PROVE  LET outcome ==
                 Evaluate(rule, m, ResolveContractErrors(m.errors, m.terminal, sp, loaded))
           IN origin[outcome.event] = failing \/ CaughtBefore
<1> DEFINE all     == ResolveContractErrors(m.errors, m.terminal, sp, loaded)
           outcome == Evaluate(rule, m, all)
<1>0. rule \in Range(Builtin) /\ Len(m.errors) \in Nat /\ DOMAIN m.errors = 1 .. Len(m.errors)
  BY TheRules DEF DiagnosticRules, FromTheTrace
<1>1. outcome.status = "Matched" /\ outcome.confidence = "Confirmed"
  <2>1. MatchedFacts(outcome)
    BY <1>0, OutcomesAreTyped
  <2> QED
    BY <2>1 DEF MatchedFacts, Confidence
<1>2. CASE rule = "contract_defined_error"
  <2>1. /\ ContractDefinedError(m, all).status = "Matched"
        /\ ContractDefinedError(m, all).confidence = "Confirmed"
        /\ ContractDefinedError(m, all).event = outcome.event
    BY <1>1, <1>2, EvaluatesTo
  <2> DEFINE r == all[First(Terminals(all))]
  <2>2. /\ m.terminal # None /\ m.terminal.error.type = "Contract"
        /\ First(Terminals(all)) # 0
        /\ outcome.event = RaisedAt(m, r)
        /\ r.resolution.tag = "Resolved"
    <3> HIDE DEF all, outcome
    <3> QED
      BY <2>1, ContractDefinedFacts
  <2>3. ReportOf(r, m, sp, loaded) /\ TerminalCode(m.terminal) = r.code
    <3>1. First(Terminals(all)) # 0
      BY <2>2
    <3> QED
      BY <1>0, <3>1, TheTerminalReport
  <2> HIDE DEF r, all, outcome
  <2>4. Resolve(r.who, r.code, sp, loaded).tag = "Resolved" /\ r.who = Identify(m.errors, r.code)
    BY <2>2, <2>3 DEF ReportOf
  <2>5. Identified(r.who) # None
    BY <2>4, ResolvedFacts
  <2>6. PICK j \in DOMAIN m.errors : Carries(m.errors[j], r.code)
    BY <2>4, <2>5, IdentifiedByAnEvent
  <2>7. m.terminal = Ended /\ r.code = errs[failing].error.code /\ failing # 0
        /\ errs[failing].error.type = "Contract"
    BY <2>2, <2>3 DEF FromTheTrace, Ended, TerminalCode
  <2>8. errs[failing].error = ContractError(r.code) /\ r.code # None
    <3>1. failing \in DOMAIN errs /\ Traced(errs, origin, failing)
      BY <2>7 DEF IInv, HostInv, FailingIsLatest
    <3> QED
      BY <2>7, <3>1 DEF Traced, ContractError
  <2>9. /\ RaisedAt(m, r) \in DOMAIN errs
        /\ errs[RaisedAt(m, r)].error = ContractError(r.code)
    <3>1. m.errors[j].error = ContractError(r.code) /\ r.events = EventIndexes(m.errors, m.terminal, r.code)
      BY <2>3, <2>6 DEF Carries, ReportOf
    <3> QED
      BY <2>3, <2>8, <3>1, WhereItWasRaised
  <2>10. origin[outcome.event] = failing \/ CaughtBefore
    BY <2>2, <2>8, <2>9 DEF CaughtBefore
  <2> QED
    BY <2>10 DEF outcome, all
<1>3. CASE rule = "invalid_authorization_entry"
  <2> DEFINE i == First(Invalid(m))
  <2>1. EndedBy(m, i) /\ i # 0 /\ outcome.event = m.errors[i].index
    BY <1>1, <1>3, InvalidEntryFacts, EvaluatesTo
  <2>2. i \in 1 .. Len(m.errors)
    <3>1. Invalid(m) \in SUBSET (1 .. Len(m.errors))
      BY DEF Invalid
    <3> QED
      BY <1>0, <2>1, <3>1, FirstFacts
  <2> HIDE DEF i
  <2> QED
    BY <2>1, <2>2, BlamesTheEndingError
<1>4. CASE rule = "footprint_entry_missing"
  <2> DEFINE i == First(Outside(m))
  <2>1. EndedBy(m, i) /\ i # 0 /\ outcome.event = m.errors[i].index
    BY <1>1, <1>4, OutsideFootprintFacts, EvaluatesTo
  <2>2. i \in 1 .. Len(m.errors)
    <3>1. Outside(m) \in SUBSET (1 .. Len(m.errors))
      BY DEF Outside
    <3> QED
      BY <1>0, <2>1, <3>1, FirstFacts
  <2> HIDE DEF i
  <2> QED
    BY <2>1, <2>2, BlamesTheEndingError
<1>5. CASE rule = "contract_trap"
  BY <1>1, <1>5, TrapFacts, EvaluatesTo
<1>6. CASE rule = "missing_authorization_entry"
  <2> DEFINE i == First(Unauthorizeds(m))
  <2>1. EndedBy(m, i) /\ i # 0 /\ outcome.event = m.errors[i].index
    BY <1>1, <1>6, MissingEntryFacts, EvaluatesTo
  <2>2. i \in 1 .. Len(m.errors)
    <3>1. Unauthorizeds(m) \in SUBSET (1 .. Len(m.errors))
      BY DEF Unauthorizeds
    <3> QED
      BY <1>0, <2>1, <3>1, FirstFacts
  <2> HIDE DEF i
  <2> QED
    BY <2>1, <2>2, BlamesTheEndingError
<1> QED
  BY <1>2, <1>3, <1>4, <1>5, <1>6 DEF DiagnosticRules

LEMMA TheModelIsFromTheTrace ==
    ASSUME IInv, phase # "input"
    PROVE  FromTheTrace(model) /\ Ascending(model)
<1>1. ModelFacts
  BY TheModel
<1>2. \A i \in DOMAIN errs : errs[i].index = i
  BY DEF IInv, HostInv, Traced
<1>3. CASE model.emitted
  BY <1>1, <1>2, <1>3 DEF ModelFacts, FromTheTrace, Ascending
<1>4. CASE ~model.emitted
  BY <1>1, <1>4, EmptyIsASequence DEF ModelFacts, FromTheTrace, Ascending
<1> QED
  BY <1>3, <1>4

LEMMA CulpritConfirmed ==
    ASSUME IInv
    PROVE  ConfirmedIsTheCulprit
<1> SUFFICES ASSUME NEW c \in Confirmed, c.rule \in DiagnosticRules
             PROVE  origin[c.event] = failing \/ CaughtBefore
  BY DEF ConfirmedIsTheCulprit
<1>1. c \in CandidateSet /\ c.confidence = "Confirmed"
  BY DEF Confirmed
<1>2. PICK i \in 1 .. evaluated : c = Candidate(Registry[i], reports[i])
  BY <1>1, TheCandidates
<1>3. /\ Registry[i] \in DiagnosticRules /\ reports[i].confidence = "Confirmed"
      /\ c.event = reports[i].event
  BY <1>1, <1>2 DEF Candidate
<1>4. reports[i] = Evaluate(Registry[i], model, contractErrors) /\ phase # "input"
  BY TheReports
<1>5. contractErrors = ResolveContractErrors(model.errors, model.terminal, specs, CodeHashes(model))
  BY <1>4 DEF IInv, ModelInv, Submitted
<1>6. FromTheTrace(model)
  BY <1>4, TheModelIsFromTheTrace
<1> QED
  BY <1>3, <1>4, <1>5, <1>6, Culprit

-----------------------------------------------------------------------------
(***************************************************************************)
(* Contract errors and their names.                                        *)
(***************************************************************************)

\* A contract is identified as its own only emitter, or as the only emitter of
\* the origin message among several.
LEMMA ImageIsFinite ==
    ASSUME NEW k \in Nat, NEW errors, NEW S \in SUBSET (1 .. k)
    PROVE  IsFiniteSet({errors[i].contract : i \in S})
<1> DEFINE T == {errors[i].contract : i \in S}
           f == [i \in S |-> errors[i].contract]
<1>1. f \in Surjection(S, T)
  BY DEF Surjection
<1>2. IsFiniteSet(S)
  BY PlacesAreFinite
<1> HIDE DEF T, f
<1>3. IsFiniteSet(T)
  BY <1>1, <1>2, FS_Surjection
<1> QED
  BY <1>3 DEF T

LEMMA WhoIsIdentified ==
    ASSUME NEW errors, NEW k \in Nat, DOMAIN errors = 1 .. k,
           NEW code, NEW c, c = Identified(Identify(errors, code)), c # None
    PROVE  \/ \A j \in DOMAIN errors : Carries(errors[j], code) => errors[j].contract = c
           \/ /\ \A j \in DOMAIN errors :
                    Carries(errors[j], code) /\ errors[j].marker = "origin" => errors[j].contract = c
              /\ \E j \in DOMAIN errors :
                    /\ Carries(errors[j], code) /\ errors[j].marker = "origin"
                    /\ errors[j].contract = c
<1> DEFINE mine     == {i \in DOMAIN errors : Carries(errors[i], code)}
           emitters == {errors[i].contract : i \in mine}
           from     == {j \in mine : errors[j].marker = "origin"}
           origins  == {errors[i].contract : i \in from}
           who      == Identify(errors, code)
<1>1. \/ who = Unidentified
      \/ Cardinality(emitters) = 1 /\ who = Unique(Sole(emitters))
      \/ Cardinality(origins) = 1 /\ who = Unique(Sole(origins))
      \/ who = Ambiguous(emitters)
  BY DEF Identify
<1>2. /\ Identified(Unidentified) = None
      /\ \A S : Identified(Ambiguous(S)) = None
  BY DEF Identified, Unidentified, Ambiguous
<1>3. \A x : Identified(Unique(x)) = x
  <2>1. \A x : Sole({x}) = x
    BY DEF Sole
  <2> QED
    BY <2>1 DEF Identified, Unique
<1>4. ASSUME NEW S, Cardinality(S) = 1, IsFiniteSet(S), who = Unique(Sole(S))
      PROVE  S = {c}
  <2>1. PICK x : S = {x}
    BY <1>4, FS_Singleton
  <2>2. Sole(S) = x
    BY <2>1 DEF Sole
  <2> QED
    BY <1>3, <1>4, <2>1, <2>2 DEF who
<1>5. IsFiniteSet(emitters) /\ IsFiniteSet(origins)
  <2>1. mine \in SUBSET (1 .. k) /\ from \in SUBSET (1 .. k)
    OBVIOUS
  <2> HIDE DEF mine, from
  <2> QED
    BY <2>1, ImageIsFinite
<1> HIDE DEF who
<1>6. CASE Cardinality(emitters) = 1 /\ who = Unique(Sole(emitters))
  <2>1. emitters = {c}
    BY <1>4, <1>5, <1>6
  <2>2. \A j \in mine : errors[j].contract = c
    BY <2>1
  <2> QED
    BY <2>2
<1>7. CASE Cardinality(origins) = 1 /\ who = Unique(Sole(origins))
  <2>1. origins = {c}
    BY <1>4, <1>5, <1>7
  <2>2. \A j \in from : errors[j].contract = c
    BY <2>1
  <2>3. \E j \in from : errors[j].contract = c
    BY <2>1
  <2> QED
    BY <2>2, <2>3
<1>8. who # Unidentified /\ \A S : who # Ambiguous(S)
  BY <1>2 DEF who
<1> QED
  BY <1>1, <1>6, <1>7, <1>8

\* The codes that are resolved are codes of the trace or of what ended it.
LEMMA CodesAreRaised ==
    ASSUME IInv, phase # "input", NEW i \in DOMAIN contractErrors,
           Identified(contractErrors[i].who) # None
    PROVE  LET r == contractErrors[i] IN
           /\ ReportOf(r, model, specs, CodeHashes(model))
           /\ model.errors = errs /\ r.code # None
           /\ \E j \in DOMAIN errs : errs[j].error = ContractError(r.code)
<1> DEFINE r == contractErrors[i]
<1>1. ModelFacts
  BY TheModel
<1>2. contractErrors = ResolveContractErrors(model.errors, model.terminal, specs, CodeHashes(model))
  BY DEF IInv, ModelInv, Submitted
<1>3. DOMAIN model.errors = 1 .. Len(model.errors) /\ Len(model.errors) \in Nat
  BY TheModelIsFromTheTrace DEF FromTheTrace
<1>4. ReportOf(r, model, specs, CodeHashes(model))
  BY <1>2, <1>3, TheContractErrors
<1> HIDE DEF r
<1>5. PICK j \in DOMAIN model.errors : Carries(model.errors[j], r.code)
  <2>1. r.who = Identify(model.errors, r.code)
    BY <1>4 DEF ReportOf
  <2>2. Identified(Identify(model.errors, r.code)) # None
    BY <2>1 DEF r
  <2> QED
    BY <2>2, IdentifiedByAnEvent
<1>6. model.errors = errs
  <2>1. CASE ~model.emitted
    BY <1>1, <1>5, <2>1, EmptyIsASequence DEF ModelFacts
  <2> QED
    BY <1>1, <2>1 DEF ModelFacts
<1>7. j \in DOMAIN errs /\ errs[j].error = ContractError(r.code) /\ Traced(errs, origin, j)
  BY <1>5, <1>6 DEF Carries, IInv, HostInv
<1>8. r.code # None
  <2>1. errs[j].error.code = r.code
    BY <1>7 DEF ContractError, ScError
  <2> QED
    BY <1>7, <2>1 DEF Traced
<1> QED
  BY <1>4, <1>6, <1>7, <1>8 DEF r

\* A contract that is identified for a code emitted it as its origin.
LEMMA AnOriginOfTheCode ==
    ASSUME IInv, NEW code, NEW c, c = Identified(Identify(errs, code)), c # None,
           NEW j \in DOMAIN errs, errs[j].error = ContractError(code), origin[j] = j
    PROVE  errs[j].contract = c
<1>1. Traced(errs, origin, j) /\ DOMAIN errs = 1 .. Len(errs) /\ Len(errs) \in Nat
  BY DEF IInv, HostInv, HostTyped
<1>2. errs[j].contract # None
  BY <1>1, HostAssumption DEF Traced
<1>3. errs[j].error.type = "Contract"
  BY DEF ContractError, ScError
<1>4. Carries(errs[j], code) /\ errs[j].marker = "origin"
  BY <1>1, <1>2, <1>3 DEF Carries, Traced
<1> QED
  BY <1>1, <1>4, WhoIsIdentified

LEMMA OriginFollows ==
    ASSUME IInv
    PROVE  ErrorsComeFromTheirOrigin
<1>0. \A j \in DOMAIN errs : Traced(errs, origin, j)
  BY DEF IInv, HostInv
<1>00. DOMAIN errs = 1 .. Len(errs) /\ Len(errs) \in Nat
  BY DEF IInv, HostInv, HostTyped
<1>1. ASSUME NEW i \in DOMAIN contractErrors, Identified(contractErrors[i].who) # None,
             phase # "input"
      PROVE  LET r == contractErrors[i]
                 c == Identified(r.who)
             IN /\ \E j \in DOMAIN errs : /\ origin[j] = j
                                          /\ errs[j].contract = c
                                          /\ errs[j].error = ContractError(r.code)
                /\ r.terminal => errs[failing].contract = c
  <2> DEFINE r == contractErrors[i]
             c == Identified(r.who)
  <2>1. /\ ReportOf(r, model, specs, CodeHashes(model))
        /\ model.errors = errs /\ r.code # None
        /\ \E j \in DOMAIN errs : errs[j].error = ContractError(r.code)
    BY <1>1, CodesAreRaised
  <2>2. c = Identified(Identify(errs, r.code)) /\ c # None
    BY <1>1, <2>1 DEF ReportOf
  <2> HIDE DEF r, c
  <2>3. PICK j \in DOMAIN errs : errs[j].error = ContractError(r.code)
    BY <2>1
  <2>4. /\ origin[j] \in DOMAIN errs /\ origin[origin[j]] = origin[j]
        /\ errs[origin[j]].error = ContractError(r.code)
    <3>1. Traced(errs, origin, j)
      BY <1>0
    <3> QED
      BY <1>00, <2>3, <3>1 DEF Traced
  <2>5. errs[origin[j]].contract = c
    BY <2>2, <2>4, AnOriginOfTheCode
  <2>6. ASSUME r.terminal PROVE errs[failing].contract = c
    <3>1. TerminalCode(model.terminal) = r.code
      BY <2>1, <2>6 DEF ReportOf
    <3>2. /\ model.terminal # None /\ model.terminal.error.type = "Contract"
          /\ model.terminal.error.code = r.code
      BY <2>1, <3>1 DEF TerminalCode
    <3>3. failing # 0 /\ model.terminal = Ended
      BY <1>1, <3>2, TheModel DEF ModelFacts
    <3>4. failing \in DOMAIN errs /\ origin[failing] = failing /\ Traced(errs, origin, failing)
      BY <1>0, <3>3 DEF IInv, HostInv, FailingIsLatest
    <3>5. errs[failing].error = ContractError(r.code)
      BY <3>2, <3>3, <3>4 DEF Ended, Traced, ContractError
    <3> QED
      BY <2>2, <3>4, <3>5, AnOriginOfTheCode
  <2> QED
    BY <2>4, <2>5, <2>6 DEF r, c
<1>2. ASSUME NEW i \in DOMAIN contractErrors PROVE phase # "input"
  BY <1>2, EmptyIsASequence DEF IInv, ReportsInv
<1>3. ASSUME NEW d \in CandidateSet, d.rule = "contract_defined_error", d.subject # None
      PROVE  errs[d.event].contract = d.subject
  <2>1. PICK k \in 1 .. evaluated : /\ d = Candidate(Registry[k], reports[k])
                                    /\ reports[k].status = "Matched"
    BY TheCandidates
  <2>2. /\ reports[k] = Evaluate(Registry[k], model, contractErrors) /\ phase # "input"
        /\ Registry[k] = "contract_defined_error"
        /\ d.event = reports[k].event /\ d.subject = reports[k].subject
    BY <1>3, <2>1, TheReports DEF Candidate
  <2>3. reports[k] = ContractDefinedError(model, contractErrors)
    BY <2>2, EvaluatesTo
  <2> DEFINE n == First(Terminals(contractErrors))
             r == contractErrors[n]
             e == RaisedAt(model, r)
  <2>4. n # 0 /\ reports[k].event = e /\ reports[k].subject = Identified(r.who)
    BY <2>1, <2>3, ContractDefinedFacts, ZenonT(60)
  <2>5. contractErrors = ResolveContractErrors(model.errors, model.terminal, specs, CodeHashes(model))
    BY <2>2 DEF IInv, ModelInv, Submitted
  <2>6. FromTheTrace(model) /\ Ascending(model)
    BY <2>2, TheModelIsFromTheTrace
  <2>7. n \in DOMAIN contractErrors /\ TerminalCode(model.terminal) = r.code
    <3>1. DOMAIN model.errors = 1 .. Len(model.errors) /\ Len(model.errors) \in Nat
      BY <2>6 DEF FromTheTrace
    <3> QED
      BY <2>4, <2>5, <3>1, TheTerminalReport
  <2> HIDE DEF n
  <2>8. Identified(r.who) # None
    BY <1>3, <2>2, <2>4
  <2>9. /\ ReportOf(r, model, specs, CodeHashes(model))
        /\ model.errors = errs /\ r.code # None
        /\ \E j \in DOMAIN errs : errs[j].error = ContractError(r.code)
    BY <2>2, <2>7, <2>8, CodesAreRaised
  <2>10. r.events = EventIndexes(model.errors, model.terminal, r.code)
         /\ r.who = Identify(errs, r.code)
    BY <2>9 DEF ReportOf
  <2> HIDE DEF r, e
  <2>11. ASSUME NEW j \in DOMAIN errs, errs[j].error = ContractError(r.code)
         PROVE  e \in DOMAIN errs /\ errs[e].error = ContractError(r.code) /\ e <= j
    <3>1. errs[j].index = j
      BY <1>0 DEF Traced
    <3> QED
      BY <2>6, <2>7, <2>9, <2>10, <2>11, <3>1, WhereItWasRaised DEF e
  <2>12. e \in DOMAIN errs /\ errs[e].error = ContractError(r.code)
    BY <2>9, <2>11
  <2>13. origin[e] = e
    <3>1. Traced(errs, origin, e) /\ e \in Nat
      BY <1>0, <1>00, <2>12
    <3>2. origin[e] \in 1 .. e /\ origin[e] \in DOMAIN errs
          /\ errs[origin[e]].error = ContractError(r.code)
      BY <1>00, <2>12, <3>1 DEF Traced
    <3>3. e <= origin[e]
      BY <2>11, <3>2
    <3> QED
      BY <3>1, <3>2, <3>3
  <2>14. errs[e].contract = Identified(r.who)
    BY <2>8, <2>10, <2>12, <2>13, AnOriginOfTheCode
  <2> QED
    BY <2>2, <2>4, <2>14
<1> QED
  BY <1>1, <1>2, <1>3 DEF ErrorsComeFromTheirOrigin

\* The code that runs is not what a contract may be upgraded to.
UpgradesAreNew ==
    \A t \in Transactions : \A c \in DOMAIN t.code : t.code[c] \notin UpgradesTo

LEMMA NamesFollow ==
    ASSUME IInv, UpgradesAreNew
    PROVE  VerifiedNamesDescribeTheCode
<1> SUFFICES ASSUME NEW i \in DOMAIN contractErrors,
                    contractErrors[i].resolution.verified,
                    contractErrors[i].resolution.name # None
             PROVE  contractErrors[i].resolution.name
                      \in NamesOf[tx.code[Identified(contractErrors[i].who)]][contractErrors[i].code]
  BY DEF VerifiedNamesDescribeTheCode
<1> DEFINE r == contractErrors[i]
           c == Identified(r.who)
<1>1. phase # "input"
  BY EmptyIsASequence DEF IInv, ReportsInv
<1>2. /\ contractErrors = ResolveContractErrors(model.errors, model.terminal, specs,
                                                CodeHashes(model))
      /\ \A d \in Contract : specs[d] # None =>
          /\ d \in DOMAIN tx.code
          /\ \E w \in {tx.code[d]} \cup UpgradesTo : specs[d] = Spec(w, NamesOf[w])
      /\ tx \in Transactions
  BY <1>1 DEF IInv, ModelInv, Submitted, HostInv, HostTyped
<1>3. FromTheTrace(model)
  BY <1>1, TheModelIsFromTheTrace
<1>4. ReportOf(r, model, specs, CodeHashes(model))
  BY <1>2, <1>3, TheContractErrors DEF FromTheTrace
<1> HIDE DEF r
<1>5. /\ r.resolution = Resolve(r.who, r.code, specs, CodeHashes(model))
      /\ r.who = Identify(model.errors, r.code)
  BY <1>4 DEF ReportOf
<1>6. r.resolution.tag = "Resolved" /\ r.resolution.verified
  <2>1. r.resolution.verified /\ r.resolution.name # None
    BY DEF r
  <2>2. \A tag : Unnamed(tag).name = None
    BY DEF Unnamed
  <2>3. \A names, v : Lookup(names, v).name # None => Lookup(names, v).tag = "Resolved"
    BY DEF Lookup, Unnamed
  <2>4. \/ \E tag : r.resolution = Unnamed(tag)
        \/ \E names, v : r.resolution = Lookup(names, v)
    BY <1>5 DEF Resolve
  <2> QED
    BY <2>1, <2>2, <2>3, <2>4
<1>7. /\ c # None /\ specs[c] # None
      /\ r.resolution.name \in specs[c].names[r.code]
      /\ (specs[c].hash # None /\ CodeHashes(model) # {}) =>
            specs[c].hash \in CodeHashes(model)
      /\ specs[c].hash # None /\ CodeHashes(model) # {}
  <2> DEFINE res == Resolve(r.who, r.code, specs, CodeHashes(model))
  <2>1. res.tag = "Resolved" /\ res = r.resolution /\ res.verified
    BY <1>5, <1>6
  <2> DEFINE checked == specs[c].hash # None /\ CodeHashes(model) # {}
  <2>2. /\ c # None /\ specs[c] # None
        /\ res.name \in specs[c].names[r.code] /\ res.verified = checked
        /\ checked => specs[c].hash \in CodeHashes(model)
    BY <2>1, ResolvedFacts DEF c
  <2>3. checked
    BY <2>1, <2>2
  <2> HIDE DEF res
  <2> QED
    BY <2>1, <2>2, <2>3
<1>8. c \in Contract
  <2>1. \A j \in DOMAIN model.errors : model.errors[j].contract \in Contract \cup {None}
    <3>1. ModelFacts
      BY <1>1, TheModel
    <3>2. \A j \in DOMAIN errs : errs[j].contract \in Contract
      BY DEF IInv, HostInv, Traced
    <3>3. CASE model.emitted
      BY <3>1, <3>2, <3>3 DEF ModelFacts
    <3>4. CASE ~model.emitted
      BY <3>1, <3>4, EmptyIsASequence DEF ModelFacts
    <3> QED
      BY <3>3, <3>4
  <2>2. Identified(Identify(model.errors, r.code)) \in Contract \cup {None}
    BY <2>1, IdentifiedIsAContract
  <2> QED
    BY <1>5, <1>7, <2>2
<1> HIDE DEF c
<1>9. PICK w \in {tx.code[c]} \cup UpgradesTo : specs[c] = Spec(w, NamesOf[w])
  BY <1>2, <1>7, <1>8
<1>10. specs[c].hash = w /\ specs[c].names = NamesOf[w]
  BY <1>9 DEF Spec
<1>11. w = tx.code[c]
  <2>1. w \in {tx.code[d] : d \in DOMAIN tx.code}
    BY <1>1, <1>7, <1>10, TheModel DEF ModelFacts
  <2>2. PICK d \in DOMAIN tx.code : w = tx.code[d]
    BY <2>1
  <2>3. w \notin UpgradesTo
    BY <1>2, <2>2 DEF UpgradesAreNew
  <2> QED
    BY <1>9, <2>3
<1> QED
  BY <1>7, <1>10, <1>11 DEF r, c

-----------------------------------------------------------------------------
(***************************************************************************)
(* Diagnoses without diagnostics, and of a result code.                    *)
(***************************************************************************)

LEMMA EveryRuleHasRun ==
    ASSUME IInv, phase \in {"sorted", "done"}, NEW rule \in Range(Builtin)
    PROVE  \E i \in 1 .. evaluated :
              Registry[i] = rule /\ reports[i] = Evaluate(rule, model, contractErrors)
<1>1. evaluated = Len(Registry) /\ DOMAIN Registry = 1 .. Len(Registry)
  BY RegistryAssumption DEF IInv, ReportsInv
<1>2. rule \in Range(Registry)
  BY RegistryAssumption
<1>3. PICK i \in DOMAIN Registry : Registry[i] = rule
  BY <1>2 DEF Range
<1>4. i \in 1 .. evaluated
  BY <1>1
<1> QED
  BY <1>3, <1>4, TheReports

LEMMA AbsenceFollows ==
    ASSUME IInv
    PROVE  AbsenceConcludesNothing
<1> SUFFICES ASSUME phase = "done", ~model.emitted PROVE AbsenceConcludesNothing
  BY DEF AbsenceConcludesNothing
<1>1. ASSUME NEW c \in CandidateSet
      PROVE  c.rule \notin DiagnosticRules /\ model.outcome.stage # "ContractExecution"
  <2>1. PICK i \in 1 .. evaluated : /\ c = Candidate(Registry[i], reports[i])
                                    /\ reports[i].status = "Matched"
    BY TheCandidates
  <2>2. /\ Registry[i] \in Range(Builtin) /\ c.rule = Registry[i]
        /\ Evaluate(Registry[i], model, contractErrors).status = "Matched"
    BY <2>1, TheReports DEF Candidate
  <2> QED
    BY <2>2, MatchesAtItsStage
<1>2. ASSUME model.outcome.stage = "ContractExecution"
      PROVE  Verdict = "InsufficientEvidence"
  <2>1. candidates = << >>
    <3> SUFFICES ASSUME candidates # << >> PROVE FALSE
      OBVIOUS
    <3>1. candidates \in Seq(Range(candidates))
      BY DEF IInv, CandidatesInv, FromMatches
    <3>2. candidates[1] \in CandidateSet
      BY <3>1 DEF CandidateSet
    <3> QED
      BY <1>1, <1>2, <3>2
  <2>2. Inconclusive
    <3>1. "contract_trap" \in Range(Builtin)
      BY TheRules
    <3>2. PICK i \in 1 .. evaluated : reports[i] = Evaluate("contract_trap", model, contractErrors)
      BY <3>1, EveryRuleHasRun
    <3>3. Concerns(model, FALSE)
      BY <1>2 DEF Concerns
    <3>4. reports[i].status = "NoEvidence"
      BY <3>2, <3>3, TrapFacts, EvaluatesTo
    <3> QED
      BY <3>4, TheReports DEF Inconclusive
  <2>3. model.outcome.stage # None
    <3>1. "ContractExecution" \in FailureStage
      BY DEF FailureStage
    <3> QED
      BY <1>2, <3>1, RegistryAssumption
  <2> QED
    BY <2>1, <2>2, <2>3 DEF Verdict
<1> QED
  BY <1>1, <1>2 DEF AbsenceConcludesNothing

\* The code that the first failed operation returned.
Returned(r, code) ==
    /\ r.code = "TxFailed"
    /\ \E i \in DOMAIN r.ops : /\ r.ops[i].code = code
                               /\ \A j \in 1 .. i - 1 : r.ops[j].code = "Success"

LEMMA TheFirstThatFailed ==
    ASSUME NEW ops, ops \in Seq(Range(ops)), NEW i \in DOMAIN ops
    PROVE  FirstFailed(ops) = i <=>
              /\ ops[i].code # "Success"
              /\ \A j \in 1 .. i - 1 : ops[j].code = "Success"
<1> DEFINE failed == {j \in DOMAIN ops : ops[j].code # "Success"}
<1>1. DOMAIN ops = 1 .. Len(ops) /\ Len(ops) \in Nat
  OBVIOUS
<1>2. failed \subseteq Nat /\ FirstFailed(ops) = IF failed = {} THEN None ELSE Min(failed)
  BY <1>1 DEF FirstFailed, Min
<1>3. None \notin Nat
  BY RegistryAssumption
<1>4. ASSUME FirstFailed(ops) = i
      PROVE  ops[i].code # "Success" /\ \A j \in 1 .. i - 1 : ops[j].code = "Success"
  <2>1. i \in Nat /\ i \in 1 .. Len(ops)
    BY <1>1
  <2>2. failed # {} /\ Min(failed) = i
    BY <1>2, <1>3, <1>4, <2>1
  <2>3. i \in failed /\ \A j \in failed : i <= j
    BY <1>2, <2>2, MinFacts
  <2> QED
    BY <1>1, <2>1, <2>3
<1>5. ASSUME ops[i].code # "Success", \A j \in 1 .. i - 1 : ops[j].code = "Success"
      PROVE  FirstFailed(ops) = i
  <2>1. i \in failed /\ i \in Nat
    BY <1>1, <1>5
  <2>2. \A j \in failed : i <= j
    BY <1>1, <1>5
  <2>3. Min(failed) \in failed /\ \A j \in failed : Min(failed) <= j
    BY <1>2, <2>1, MinFacts
  <2>4. Min(failed) \in Nat
    BY <1>2, <2>3
  <2> HIDE DEF failed
  <2>5. Min(failed) <= i /\ i <= Min(failed)
    BY <2>1, <2>2, <2>3
  <2> QED
    BY <1>2, <2>1, <2>4, <2>5
<1> QED
  BY <1>4, <1>5

LEMMA ClassifiedByTheFirst ==
    ASSUME NEW r \in Results,
           NEW wanted, NEW code,
           <<wanted, code>> \in {<<"StateArchival", "EntryArchived">>,
                                 <<"ResourceLimit", "ResourceLimitExceeded">>,
                                 <<"ResourceFee", "InsufficientRefundableFee">>}
    PROVE  LET o == Classify(r) IN
           o.stage = wanted /\ o.failed # None /\ o.failed.code = code <=> Returned(r, code)
<1> DEFINE o == Classify(r)
           i == FirstFailed(r.ops)
<1>1. /\ r.ops \in Seq(Range(r.ops)) /\ None \notin Range(r.ops)
      /\ \A n \in DOMAIN r.ops : r.ops[n].code = code => r.ops[n].type \in SorobanOperation
  BY HostAssumption
<1>2. \A n \in DOMAIN r.ops : r.ops[n] # None
  BY <1>1 DEF Range
<1>3. ASSUME o.failed # None
      PROVE  r.code = "TxFailed" /\ i # None /\ o.failed = r.ops[i]
  BY <1>3 DEF Classify, RejectedStage
<1>4. i = None \/ i \in DOMAIN r.ops
  <2> DEFINE failed == {n \in DOMAIN r.ops : r.ops[n].code # "Success"}
  <2>1. failed \subseteq Nat
    BY <1>1
  <2>2. i = IF failed = {} THEN None ELSE Min(failed)
    BY DEF FirstFailed, Min
  <2>3. failed # {} => Min(failed) \in failed
    BY <2>1, MinFacts
  <2> QED
    BY <2>2, <2>3
<1>5. ASSUME o.stage = wanted, o.failed # None, o.failed.code = code
      PROVE  Returned(r, code)
  <2>1. i \in DOMAIN r.ops /\ r.ops[i].code = code /\ r.code = "TxFailed"
    BY <1>3, <1>4, <1>5
  <2> HIDE DEF i
  <2>2. \A j \in 1 .. i - 1 : r.ops[j].code = "Success"
    BY <1>1, <2>1, TheFirstThatFailed DEF i
  <2> QED
    BY <2>1, <2>2 DEF Returned
<1>6. ASSUME Returned(r, code)
      PROVE  o.stage = wanted /\ o.failed # None /\ o.failed.code = code
  <2>1. PICK n \in DOMAIN r.ops : /\ r.ops[n].code = code
                                  /\ \A j \in 1 .. n - 1 : r.ops[j].code = "Success"
    BY <1>6 DEF Returned
  <2>2. i = n
    <3>1. r.ops[n].code # "Success"
      BY <2>1
    <3> QED
      BY <1>1, <2>1, <3>1, TheFirstThatFailed
  <2>3. i # None
    <3>1. n \in Nat
      BY <1>1
    <3> QED
      BY <2>2, <3>1, RegistryAssumption
  <2> HIDE DEF i
  <2>4. r.code = "TxFailed"
    BY <1>6 DEF Returned
  <2>5. o = [stage |-> OperationStage(r.ops[n]), failed |-> r.ops[n]]
    BY <2>2, <2>3, <2>4 DEF Classify, i
  <2>6. OperationStage(r.ops[n]) = wanted
    <3>1. r.ops[n].type \in SorobanOperation /\ r.ops[n].code = code
      BY <1>1, <2>1
    <3>2. code \notin WrapperCode
      BY DEF WrapperCode
    <3>3. OperationStage(r.ops[n]) = SorobanStage(r.ops[n])
      BY <3>1, <3>2 DEF OperationStage, WrapperCode
    <3>4. SorobanStage(r.ops[n]) = wanted
      BY <3>1 DEF SorobanStage
    <3> QED
      BY <3>3, <3>4
  <2> QED
    BY <1>2, <2>1, <2>5, <2>6
<1> QED
  BY <1>5, <1>6

LEMMA CodesFollow ==
    ASSUME IInv
    PROVE  CodesConfirmTheirCause
<1> SUFFICES ASSUME phase = "done" PROVE CodesConfirmTheirCause
  BY DEF CodesConfirmTheirCause
<1>1. ASSUME NEW rule \in Range(Builtin), NEW wanted, NEW code,
             <<wanted, code>> \in {<<"StateArchival", "EntryArchived">>,
                                   <<"ResourceLimit", "ResourceLimitExceeded">>,
                                   <<"ResourceFee", "InsufficientRefundableFee">>},
             Evaluate(rule, model, contractErrors) = ResultCodeRule(model, wanted, code)
      PROVE  (\E c \in CandidateSet : c.rule = rule) <=> Returned(result, code)
  <2>1. PICK i \in 1 .. evaluated :
           Registry[i] = rule /\ reports[i] = ResultCodeRule(model, wanted, code)
    BY <1>1, EveryRuleHasRun
  <2>2. (\E c \in CandidateSet : c.rule = rule) <=> reports[i].status = "Matched"
    <3>1. ASSUME NEW c \in CandidateSet, c.rule = rule PROVE reports[i].status = "Matched"
      <4>1. PICK n \in 1 .. evaluated : /\ c = Candidate(Registry[n], reports[n])
                                        /\ reports[n].status = "Matched"
        BY TheCandidates
      <4>2. Registry[n] = rule
        BY <3>1, <4>1 DEF Candidate
      <4>3. n = i
        BY <2>1, <4>2, TheReports, RegistryAssumption
      <4> QED
        BY <4>1, <4>3
    <3>2. ASSUME reports[i].status = "Matched" PROVE \E c \in CandidateSet : c.rule = rule
      <4>1. Candidate(rule, reports[i]) \in CandidateSet
        BY <2>1, <3>2, EveryMatchIsACandidate
      <4>2. Candidate(rule, reports[i]).rule = rule
        BY DEF Candidate
      <4> QED
        BY <4>1, <4>2
    <3> QED
      BY <3>1, <3>2
  <2>3. reports[i].status = "Matched" <=>
           LET o == Classify(result) IN
           o.stage = wanted /\ o.failed # None /\ o.failed.code = code
    BY <2>1, CodeRuleFacts, TheModel DEF ModelFacts
  <2>4. CASE result \in Results
    BY <1>1, <2>2, <2>3, <2>4, ClassifiedByTheFirst
  <2>5. CASE \E bump : result = Trapped(bump)
    <3>1. PICK bump : result = Trapped(bump)
      BY <2>5
    <3>2. /\ result.code = "TxFailed" /\ DOMAIN result.ops = {1}
          /\ result.ops = <<OpResult("InvokeHostFunction", "Trapped")>>
          /\ result.ops[1].code = "Trapped"
      BY <3>1 DEF Trapped, Result, OpResult
    <3>3. ~Returned(result, code)
      BY <1>1, <3>2 DEF Returned
    <3>4. ~(Classify(result).failed # None /\ Classify(result).failed.code = code)
      <4>1. result.ops \in Seq(Range(result.ops))
        <5>1. \A i_1 \in {1} : result.ops[i_1] \in Range(result.ops)
          BY <3>2 DEF Range
        <5> QED
          BY <3>2, <5>1
      <4>2. FirstFailed(result.ops) = 1
        <5>1. 1 \in DOMAIN result.ops /\ result.ops[1].code # "Success"
          BY <3>2
        <5>2. \A j \in 1 .. 1 - 1 : result.ops[j].code = "Success"
          OBVIOUS
        <5> QED
          BY <4>1, <5>1, <5>2, TheFirstThatFailed
      <4>3. Classify(result).failed = result.ops[1] \/ Classify(result).failed = None
        BY <3>2, <4>2 DEF Classify
      <4> QED
        BY <1>1, <3>2, <4>3
    <3> QED
      BY <2>2, <2>3, <3>3, <3>4
  <2> QED
    BY <2>4, <2>5 DEF IInv, ModelInv, Submitted
<1>2. /\ (\E c \in CandidateSet : c.rule = "archived_entry") <=> Returned(result, "EntryArchived")
      /\ (\E c \in CandidateSet : c.rule = "resource_limit_exceeded")
            <=> Returned(result, "ResourceLimitExceeded")
      /\ (\E c \in CandidateSet : c.rule = "insufficient_resource_fee")
            <=> Returned(result, "InsufficientRefundableFee")
  BY <1>1, TheRules, EvaluatesTo, FeeRuleIsACodeRule
<1> QED
  BY <1>2 DEF CodesConfirmTheirCause, Returned

-----------------------------------------------------------------------------
(***************************************************************************)
(* The diagnosis implements Diagnosis.                                     *)
(***************************************************************************)

LEMMA PositionOf ==
    ASSUME NEW i \in DOMAIN Registry
    PROVE  Promised!Position(Registry[i]) = i
BY RegistryAssumption DEF Promised!Position

LEMMA OneCausePerMatch ==
    ASSUME IInv
    PROVE  Promised!OnePerMatch(reports, candidates)
<1>1. Promised!With("Matched", reports) = MatchedPlaces(reports)
  BY DEF Promised!With, MatchedPlaces
<1>2. FromMatches(candidates, reports)
  BY DEF IInv, CandidatesInv
<1>3. ASSUME NEW i \in MatchedPlaces(reports)
      PROVE  \E n \in DOMAIN candidates :
                /\ candidates[n].rule = Registry[i]
                /\ \A field \in {"confidence", "event", "subject"} :
                      candidates[n][field] = reports[i][field]
  <2>1. PICK n \in DOMAIN candidates : candidates[n] = Candidate(Registry[i], reports[i])
    BY <1>2 DEF FromMatches
  <2>2. /\ candidates[n].rule = Registry[i]
        /\ candidates[n].confidence = reports[i].confidence
        /\ candidates[n].event = reports[i].event
        /\ candidates[n].subject = reports[i].subject
    BY <2>1 DEF Candidate
  <2> QED
    BY <2>2
<1>4. Len(candidates) = Cardinality(MatchedPlaces(reports))
  BY <1>2 DEF FromMatches
<1> HIDE DEF MatchedPlaces
<1>5. \A S : Promised!Cardinality(S) = Cardinality(S)
  BY DEF Cardinality, Promised!Cardinality
<1>6. /\ Len(candidates) = Promised!Cardinality(Promised!With("Matched", reports))
      /\ \A i \in Promised!With("Matched", reports) : \E n \in DOMAIN candidates :
            /\ candidates[n].rule = Registry[i]
            /\ \A field \in {"confidence", "event", "subject"} :
                  candidates[n][field] = reports[i][field]
  <2> HIDE DEF Promised!With
  <2> QED
    BY <1>1, <1>3, <1>4, <1>5, Zenon
<1> QED
  BY <1>6, Zenon DEF Promised!OnePerMatch

LEMMA CausesAreRanked ==
    ASSUME IInv, phase \in {"sorted", "done"}
    PROVE  Promised!RankedStably(candidates)
<1>1. ByStrength(candidates)
  BY DEF IInv, CandidatesInv
<1>2. ASSUME NEW a, NEW b, Registered(a, b)
      PROVE  Promised!Position(a.rule) < Promised!Position(b.rule)
  <2>1. PICK i, j \in DOMAIN Registry : i < j /\ Registry[i] = a.rule /\ Registry[j] = b.rule
    BY <1>2 DEF Registered
  <2>2. Promised!Position(a.rule) = i /\ Promised!Position(b.rule) = j
    BY <2>1, PositionOf
  <2> QED
    BY <2>1, <2>2
<1> QED
  BY <1>1, <1>2 DEF Promised!RankedStably, ByStrength, Stronger

LEMMA VerdictFollows ==
    ASSUME IInv, phase \in {"sorted", "done"}
    PROVE  Promised!Follows(Verdict, reports) /\ Verdict # None
<1> DEFINE found == {reports[i].confidence : i \in Promised!With("Matched", reports)}
<1>1. found = {reports[i].confidence : i \in MatchedPlaces(reports)}
  BY DEF Promised!With, MatchedPlaces
<1> HIDE DEF found
<1>2. candidates \in Seq(Range(candidates)) /\ FromMatches(candidates, reports)
  BY DEF IInv, CandidatesInv, FromMatches
<1>3. found = {candidates[n].confidence : n \in DOMAIN candidates}
  <2>1. \A n \in DOMAIN candidates : \E i \in MatchedPlaces(reports) :
           candidates[n].confidence = reports[i].confidence
    BY <1>2 DEF FromMatches, Candidate
  <2>2. \A i \in MatchedPlaces(reports) : \E n \in DOMAIN candidates :
           candidates[n].confidence = reports[i].confidence
    BY <1>2 DEF FromMatches, Candidate
  <2> QED
    BY <1>1, <2>1, <2>2
<1>4. CASE candidates # << >>
  <2>1. 1 \in DOMAIN candidates /\ Head(candidates) = candidates[1]
        /\ DOMAIN candidates = 1 .. Len(candidates) /\ Len(candidates) \in Nat
    BY <1>2, <1>4
  <2>2. model.outcome.stage # None
    <3>1. candidates[1] \in CandidateSet
      BY <2>1 DEF CandidateSet
    <3>2. PICK i \in 1 .. evaluated : reports[i].status = "Matched"
      BY <3>1, TheCandidates
    <3>3. /\ Registry[i] \in Range(Builtin)
          /\ reports[i] = Evaluate(Registry[i], model, contractErrors)
      BY TheReports
    <3>4. model.outcome.stage \in FailureStage
      BY <3>2, <3>3, MatchesAtItsStage DEF FailureStage
    <3> QED
      BY <3>4, RegistryAssumption
  <2>3. Verdict = candidates[1].confidence
    BY <1>4, <2>1, <2>2 DEF Verdict
  <2>4. \A n \in DOMAIN candidates : candidates[n].confidence \in Confidence
    BY TypeFollows DEF AnalysisTypeOK
  <2>5. ASSUME NEW n \in DOMAIN candidates
        PROVE  Promised!Strength(candidates[1].confidence)
                 >= Promised!Strength(candidates[n].confidence)
    <3>1. Promised!Strength(candidates[n].confidence) \in 1 .. 3
      BY <2>4, StrengthValues DEF Confidence
    <3>2. Promised!Strength(candidates[1].confidence) \in 1 .. 3
      BY <2>1, <2>4, StrengthValues DEF Confidence
    <3>3. CASE n = 1
      BY <3>1, <3>3
    <3>4. CASE 1 < n
      <4>1. \/ Stronger(candidates[1], candidates[n])
            \/ candidates[1].confidence = candidates[n].confidence
        BY <2>1, <3>4 DEF IInv, CandidatesInv, ByStrength
      <4> QED
        BY <3>1, <3>2, <4>1 DEF Stronger
    <3> QED
      BY <2>1, <3>3, <3>4
  <2>6. Verdict \in found /\ \A c \in found : Promised!Strength(Verdict) >= Promised!Strength(c)
    BY <1>3, <2>1, <2>3, <2>5
  <2>7. Verdict # None
    BY <2>1, <2>3, <2>4, RegistryAssumption
  <2> QED
    BY <2>6, <2>7 DEF Promised!Follows, found
<1>5. CASE candidates = << >>
  <2>1. found = {}
    BY <1>3, <1>5
  <2>2. Promised!With("NoEvidence", reports) # {} <=> Inconclusive
    BY DEF Promised!With, Inconclusive
  <2>3. Verdict \in {"NotAFailure", IF Promised!With("NoEvidence", reports) # {}
                                    THEN "InsufficientEvidence" ELSE "Unsupported"}
    BY <1>5, <2>2 DEF Verdict
  <2>4. Verdict # None
    BY <2>3, RegistryAssumption
  <2> QED
    BY <2>1, <2>3, <2>4 DEF Promised!Follows, found
<1> QED
  BY <1>4, <1>5

LEMMA PromisedInit == HostInit => Promised!Undiagnosed
BY DEF HostInit, AnalysisInit, Promised!Undiagnosed

LEMMA PromisedStep ==
    ASSUME IInv, [HostedNext]_vars
    PROVE  [Promised!Diagnose]_(Promised!diagnosis)
<1>1. CASE phase # "done" /\ phase' # "done"
  BY <1>1 DEF Promised!diagnosis
<1>2. CASE UNCHANGED vars
  <2>1. UNCHANGED <<phase, reports, candidates, model>>
    BY <1>2 DEF vars
  <2>2. UNCHANGED Verdict
    BY <2>1 DEF Verdict, Inconclusive
  <2> QED
    BY <2>1, <2>2 DEF Promised!diagnosis
<1>3. CASE Conclude
  <2>1. phase = "sorted" /\ phase' = "done"
        /\ UNCHANGED <<reports, candidates, model>>
    BY <1>3 DEF Conclude
  <2>2. UNCHANGED Verdict
    BY <2>1 DEF Verdict, Inconclusive
  <2>3. Promised!Undiagnosed
    BY <2>1 DEF Promised!Undiagnosed
  <2>4. /\ Promised!OnePerMatch(reports, candidates)
        /\ Promised!RankedStably(candidates)
        /\ Promised!Follows(Verdict, reports) /\ Verdict # None
    BY <2>1, OneCausePerMatch, CausesAreRanked, VerdictFollows
  <2>5. Len(reports) = Len(Registry)
    BY <2>1 DEF IInv, ReportsInv
  <2>6. Promised!Diagnose
    BY <2>1, <2>2, <2>3, <2>4, <2>5 DEF Promised!Diagnose
  <2> QED
    BY <2>6
<1>4. CASE HostedNext /\ phase = "done"
  BY <1>4 DEF HostedNext, HostCall, HostRaise, HostUnwind, HostReturn, HostAbort, HostRefuse,
              HostedAnalyse, Running, Begin, Analyse, RunRule, Sort, Conclude
<1>5. CASE HostedNext /\ phase # "done" /\ phase' = "done"
  <2>1. Conclude
    BY <1>5 DEF HostedNext, HostCall, HostRaise, HostUnwind, HostReturn, HostAbort, HostRefuse,
                HostedAnalyse, Running, Begin, Analyse, RunRule, Sort, analysisVars
  <2> QED
    BY <1>3, <2>1
<1> QED
  BY <1>1, <1>2, <1>4, <1>5

-----------------------------------------------------------------------------
(***************************************************************************)
(* What is left of a diagnosis when a message is reworded or an event is   *)
(* lost.                                                                   *)
(***************************************************************************)

\* The model n shows no more of a trace than m.
ShowsNoMore(n, m) ==
    /\ n.outcome = m.outcome /\ n.soroban = m.soroban /\ n.source = m.source
    /\ n.emitted = m.emitted /\ n.terminal \in {None, m.terminal}
    /\ Len(n.errors) \in Nat /\ Len(m.errors) \in Nat
    /\ \A i \in 1 .. Len(n.errors) : \E j \in 1 .. Len(m.errors) :
          /\ n.errors[i].error = m.errors[j].error
          /\ n.errors[i].marker \in {m.errors[j].marker, "other"}

LEMMA FirstExists ==
    ASSUME NEW k \in Nat, NEW I \in SUBSET (1 .. k)
    PROVE  First(I) # 0 <=> I # {}
<1>1. First(I) \in I => First(I) # 0
  OBVIOUS
<1> QED
  BY <1>1, FirstFacts

LEMMA ShowsNoMoreEvents ==
    ASSUME NEW n, NEW m, ShowsNoMore(n, m)
    PROVE  /\ First(Invalid(n)) # 0 => First(Invalid(m)) # 0
           /\ First(Auths(n)) # 0 => First(Auths(m)) # 0
           /\ First(Outside(n)) # 0 => First(Outside(m)) # 0
           /\ n.terminal # None /\ First(Unreachables(n)) # 0 => First(Unreachables(m)) # 0
<1>1. /\ First(Invalid(n)) # 0 <=> Invalid(n) # {}
      /\ First(Auths(n)) # 0 <=> Auths(n) # {}
      /\ First(Outside(n)) # 0 <=> Outside(n) # {}
      /\ First(Unreachables(n)) # 0 <=> Unreachables(n) # {}
      /\ First(Invalid(m)) # 0 <=> Invalid(m) # {}
      /\ First(Auths(m)) # 0 <=> Auths(m) # {}
      /\ First(Outside(m)) # 0 <=> Outside(m) # {}
      /\ First(Unreachables(m)) # 0 <=> Unreachables(m) # {}
  <2>1. \A x \in {n, m} :
           /\ Invalid(x) \in SUBSET (1 .. Len(x.errors)) /\ Auths(x) \in SUBSET (1 .. Len(x.errors))
           /\ Outside(x) \in SUBSET (1 .. Len(x.errors))
           /\ Unreachables(x) \in SUBSET (1 .. Len(x.errors))
           /\ Len(x.errors) \in Nat
    BY DEF Invalid, Auths, Outside, Unreachables, ShowsNoMore
  <2> QED
    BY <2>1, FirstExists
<1>2. ASSUME NEW i \in Invalid(n) PROVE Invalid(m) # {}
  <2>1. i \in 1 .. Len(n.errors) /\ IsInvalidEntry(n.errors[i])
    BY DEF Invalid
  <2>2. PICK j \in 1 .. Len(m.errors) : /\ n.errors[i].error = m.errors[j].error
                                        /\ n.errors[i].marker \in {m.errors[j].marker, "other"}
    BY <2>1 DEF ShowsNoMore
  <2>3. IsInvalidEntry(m.errors[j])
    BY <2>1, <2>2 DEF IsInvalidEntry, IsAuth
  <2> QED
    BY <2>3 DEF Invalid
<1>3. ASSUME NEW i \in Auths(n) PROVE Auths(m) # {}
  <2>1. i \in 1 .. Len(n.errors) /\ IsAuth(n.errors[i])
    BY DEF Auths
  <2>2. PICK j \in 1 .. Len(m.errors) : n.errors[i].error = m.errors[j].error
    BY <2>1 DEF ShowsNoMore
  <2>3. IsAuth(m.errors[j])
    BY <2>1, <2>2 DEF IsAuth
  <2> QED
    BY <2>3 DEF Auths
<1>4. ASSUME NEW i \in Outside(n) PROVE Outside(m) # {}
  <2>1. i \in 1 .. Len(n.errors) /\ IsOutsideFootprint(n.errors[i])
    BY DEF Outside
  <2>2. PICK j \in 1 .. Len(m.errors) : /\ n.errors[i].error = m.errors[j].error
                                        /\ n.errors[i].marker \in {m.errors[j].marker, "other"}
    BY <2>1 DEF ShowsNoMore
  <2>3. IsOutsideFootprint(m.errors[j])
    BY <2>1, <2>2 DEF IsOutsideFootprint
  <2> QED
    BY <2>3 DEF Outside
<1>5. ASSUME n.terminal # None, NEW i \in Unreachables(n) PROVE Unreachables(m) # {}
  <2>1. /\ i \in 1 .. Len(n.errors) /\ n.errors[i].error = n.terminal.error
        /\ n.errors[i].marker = "unreachable"
    BY DEF Unreachables
  <2>2. PICK j \in 1 .. Len(m.errors) : /\ n.errors[i].error = m.errors[j].error
                                        /\ n.errors[i].marker \in {m.errors[j].marker, "other"}
    BY <2>1 DEF ShowsNoMore
  <2>3. n.terminal = m.terminal
    BY <1>5 DEF ShowsNoMore
  <2>4. m.errors[j].error = m.terminal.error /\ m.errors[j].marker = "unreachable"
    BY <2>1, <2>2, <2>3
  <2> QED
    BY <2>4 DEF Unreachables
<1> QED
  BY <1>1, <1>2, <1>3, <1>4, <1>5

EntryIn(auth, address) ==
    IF address = None THEN 0 ELSE SelectInSeq(auth, LAMBDA entry : entry.address = address)

LEMMA EntryForOf ==
    ASSUME NEW m, NEW address
    PROVE  EntryFor(m, address) = EntryIn(m.soroban.auth, address)
BY DEF EntryFor, EntryIn

\* The rule for a missing entry judges the same event.
SameUnauthorized(n, m) ==
    LET i == First(Unauthorizeds(n))
        j == First(Unauthorizeds(m))
    IN i # 0 => j # 0 /\ n.errors[i].data.address = m.errors[j].data.address

LEMMA MatchesAsBefore ==
    ASSUME NEW rule \in Range(Builtin), NEW n, NEW m, NEW after_, NEW before_,
           ShowsNoMore(n, m),
           n.terminal # None /\ n.terminal.error.type = "Contract" => First(Terminals(before_)) # 0,
           rule = "missing_authorization_entry" => SameUnauthorized(n, m),
           Evaluate(rule, n, after_).status = "Matched"
    PROVE  Evaluate(rule, m, before_).status = "Matched"
<1>1. /\ n.outcome = m.outcome /\ n.emitted = m.emitted /\ n.source = m.source
      /\ n.soroban = m.soroban
      /\ n.terminal # None => n.terminal = m.terminal
      /\ \A b \in BOOLEAN : Concerns(n, b) <=> Concerns(m, b)
  BY DEF ShowsNoMore, Concerns
<1>2. CASE rule \in {"archived_entry", "resource_limit_exceeded", "insufficient_resource_fee"}
  BY <1>1, <1>2, CodeRuleFacts, FeeRuleIsACodeRule, EvaluatesTo
<1>3. CASE rule = "contract_defined_error"
  <2>1. ContractDefinedError(n, after_).status = "Matched"
    BY <1>3, EvaluatesTo
  <2>2. /\ Concerns(n, FALSE) /\ n.emitted /\ n.terminal # None
        /\ n.terminal.error.type = "Contract"
    BY <2>1, ContractDefinedFacts
  <2>3. ContractDefinedError(m, before_).status = "Matched"
    BY <1>1, <2>2, ContractDefinedFacts
  <2> QED
    BY <1>3, <2>3, EvaluatesTo
<1>4. CASE rule = "invalid_authorization_entry"
  <2>1. InvalidAuthorizationEntry(n).status = "Matched"
    BY <1>4, EvaluatesTo
  <2>2. Concerns(n, TRUE) /\ n.emitted /\ First(Auths(n)) # 0 /\ First(Invalid(n)) # 0
    BY <2>1, InvalidEntryFacts
  <2>3. InvalidAuthorizationEntry(m).status = "Matched"
    BY <1>1, <2>2, InvalidEntryFacts, ShowsNoMoreEvents
  <2> QED
    BY <1>4, <2>3, EvaluatesTo
<1>5. CASE rule = "footprint_entry_missing"
  <2>1. FootprintEntryMissing(n).status = "Matched"
    BY <1>5, EvaluatesTo
  <2>2. Concerns(n, TRUE) /\ n.emitted /\ First(Outside(n)) # 0
    BY <2>1, OutsideFootprintFacts
  <2>3. FootprintEntryMissing(m).status = "Matched"
    BY <1>1, <2>2, OutsideFootprintFacts, ShowsNoMoreEvents
  <2> QED
    BY <1>5, <2>3, EvaluatesTo
<1>6. CASE rule = "contract_trap"
  <2>1. ContractTrap(n).status = "Matched"
    BY <1>6, EvaluatesTo
  <2>2. /\ Concerns(n, FALSE) /\ n.emitted /\ n.terminal # None
        /\ n.terminal.error.type = "WasmVm" /\ First(Unreachables(n)) # 0
    BY <2>1, TrapFacts
  <2>3. First(Unreachables(m)) # 0
    BY <2>2, ShowsNoMoreEvents
  <2>4. ContractTrap(m).status = "Matched"
    BY <1>1, <2>2, <2>3, TrapFacts
  <2> QED
    BY <1>6, <2>4, EvaluatesTo
<1>7. CASE rule = "missing_authorization_entry"
  <2> DEFINE i == First(Unauthorizeds(n))
             j == First(Unauthorizeds(m))
  <2>1. MissingAuthorizationEntry(n).status = "Matched"
    BY <1>7, EvaluatesTo
  <2>2. /\ Concerns(n, TRUE) /\ n.emitted /\ i # 0
        /\ ~(n.errors[i].data.address # None /\ n.errors[i].data.address = n.source)
        /\ EntryFor(n, n.errors[i].data.address) = 0
    BY <2>1, MissingEntryFacts
  <2>3. j # 0 /\ n.errors[i].data.address = m.errors[j].data.address
    BY <1>7, <2>2 DEF SameUnauthorized
  <2>4. EntryFor(m, m.errors[j].data.address) = 0
    <3> HIDE DEF i, j
    <3> QED
      BY <1>1, <2>2, <2>3, EntryForOf
  <2>5. /\ Concerns(m, TRUE) /\ m.emitted
        /\ ~(m.errors[j].data.address # None /\ m.errors[j].data.address = m.source)
    <3> HIDE DEF i, j
    <3> QED
      BY <1>1, <2>2, <2>3
  <2>6. MissingAuthorizationEntry(m).status = "Matched"
    BY <2>3, <2>4, <2>5, MissingEntryFacts
  <2> QED
    BY <1>7, <2>6, EvaluatesTo
<1> QED
  BY <1>2, <1>3, <1>4, <1>5, <1>6, <1>7, TheRules

\* The code that ended the invocation always has its report.
LEMMA TheEndingCodeIsReported ==
    ASSUME NEW m, NEW sp, NEW loaded, NEW k \in Nat, DOMAIN m.errors = 1 .. k,
           TerminalCode(m.terminal) # None
    PROVE  First(Terminals(ResolveContractErrors(m.errors, m.terminal, sp, loaded))) # 0
<1> DEFINE all   == ResolveContractErrors(m.errors, m.terminal, sp, loaded)
           codes == CodesInOrder(m.errors, m.terminal)
           t     == TerminalCode(m.terminal)
<1>1. 1 \in DOMAIN codes /\ codes[1] = t
  BY TheEndingCodeIsFirst
<1>2. /\ Len(all) \in Nat /\ DOMAIN all = 1 .. Len(all)
      /\ \A i \in DOMAIN all : ReportOf(all[i], m, sp, loaded)
  BY TheContractErrors, ZenonT(60)
<1>3. DOMAIN all = DOMAIN codes
  BY TheContractErrors
<1>4. all[1].code = codes[1]
  <2> HIDE DEF codes
  <2> QED
    BY <1>1 DEF ResolveContractErrors, codes
<1> HIDE DEF all, codes
<1>5. 1 \in 1 .. Len(all) /\ all[1].terminal
  BY <1>1, <1>2, <1>3, <1>4 DEF ReportOf
<1>6. Terminals(all) # {} /\ Terminals(all) \in SUBSET (1 .. Len(all))
  BY <1>5 DEF Terminals
<1> QED
  BY <1>2, <1>6, FirstExists DEF all

LEMMA ModelWith ==
    ASSUME IInv, phase # "input", NEW x
    PROVE  /\ LET n == [model EXCEPT !.errors = x] IN
              /\ n.errors = x /\ n.terminal = model.terminal
              /\ n.outcome = model.outcome /\ n.soroban = model.soroban
              /\ n.source = model.source /\ n.emitted = model.emitted
           /\ LET n == [model EXCEPT !.terminal = x] IN
              /\ n.errors = model.errors /\ n.terminal = x
              /\ n.outcome = model.outcome /\ n.soroban = model.soroban
              /\ n.source = model.source /\ n.emitted = model.emitted
<1>1. PICK emitted, terminal : model = Model(AnalysisInput(result, emitted, terminal))
  BY DEF IInv, ModelInv, Submitted
<1>2. DOMAIN model = {"outcome", "soroban", "source", "emitted", "errors", "terminal"}
  BY <1>1 DEF Model
<1> QED
  BY <1>2

\* The error that ended the invocation has a code, if the model shows it.
LEMMA TheEndingCode ==
    ASSUME IInv, phase # "input", model.terminal # None, model.terminal.error.type = "Contract"
    PROVE  TerminalCode(model.terminal) # None
<1>1. model.terminal = Ended /\ failing # 0
  BY TheModel DEF ModelFacts
<1>2. Traced(errs, origin, failing)
  BY <1>1 DEF IInv, HostInv, FailingIsLatest
<1> QED
  BY <1>1, <1>2 DEF Traced, TerminalCode, Ended

\* A rule that reads no diagnostics ignores them.
LEMMA CodeRulesIgnoreEvents ==
    ASSUME NEW rule \in Range(Builtin), rule \notin DiagnosticRules,
           NEW n, NEW m, n.outcome = m.outcome, NEW after_, NEW before_
    PROVE  /\ Evaluate(rule, n, after_) = Evaluate(rule, m, before_)
           /\ Evaluate(rule, m, before_).event = 0
<1>1. ASSUME NEW wanted, NEW code
      PROVE  /\ ResultCodeRule(n, wanted, code) = ResultCodeRule(m, wanted, code)
             /\ ResultCodeRule(m, wanted, code).event = 0
  <2>1. NotApplicable.event = 0 /\ NoEvidence.event = 0 /\ Matched("Confirmed", 0, None).event = 0
    <3>1. \A r : "event" \in DOMAIN r => [r EXCEPT !.status = "NoEvidence"].event = r.event
      OBVIOUS
    <3>2. "event" \in DOMAIN NotApplicable /\ NotApplicable.event = 0
      BY DEF NotApplicable
    <3> QED
      BY <3>1, <3>2 DEF NoEvidence, Matched
  <2>2. ResultCodeRule(m, wanted, code) \in {NotApplicable, NoEvidence, Matched("Confirmed", 0, None)}
    BY DEF ResultCodeRule
  <2> QED
    BY <2>1, <2>2 DEF ResultCodeRule
<1>2. rule \in {"archived_entry", "resource_limit_exceeded", "insufficient_resource_fee"}
  BY TheRules DEF DiagnosticRules
<1> QED
  BY <1>1, <1>2, EvaluatesTo, FeeRuleIsACodeRule

LEMMA RewordingFollows ==
    ASSUME IInv
    PROVE  RewordingDegrades
<1> SUFFICES ASSUME phase = "sorted", NEW marker \in Marker, NEW i \in DOMAIN Registry
             PROVE  LET m     == Reworded(model, marker)
                        after == Evaluate(Registry[i], m,
                                    ResolveContractErrors(m.errors, m.terminal, specs, CodeHashes(m)))
                    IN
                    /\ after.status = "Matched" => reports[i].status = "Matched"
                    /\ after.confidence = "Confirmed" =>
                          after = reports[i] \/ origin[after.event] = failing \/ CaughtBefore
  BY DEF RewordingDegrades
<1> DEFINE m     == Reworded(model, marker)
           all   == ResolveContractErrors(m.errors, m.terminal, specs, CodeHashes(m))
           after == Evaluate(Registry[i], m, all)
           k     == Len(model.errors)
<1>1. /\ i \in 1 .. evaluated /\ Registry[i] \in Range(Builtin)
      /\ reports[i] = Evaluate(Registry[i], model, contractErrors)
      /\ contractErrors = ResolveContractErrors(model.errors, model.terminal, specs,
                                                CodeHashes(model))
  <2>1. evaluated = Len(Registry) /\ DOMAIN Registry = 1 .. Len(Registry)
    BY RegistryAssumption DEF IInv, ReportsInv
  <2>2. i \in 1 .. evaluated
    BY <2>1
  <2> QED
    BY <2>2, TheReports DEF IInv, ModelInv, Submitted
<1>2. FromTheTrace(model)
  BY TheModelIsFromTheTrace
<1>3. k \in Nat /\ DOMAIN model.errors = 1 .. k
  BY <1>2 DEF FromTheTrace
<1>4. /\ DOMAIN m.errors = 1 .. k /\ Len(m.errors) = k
      /\ \A j \in 1 .. k : /\ m.errors[j].error = model.errors[j].error
                           /\ m.errors[j].index = model.errors[j].index
                           /\ m.errors[j].data = model.errors[j].data
                           /\ m.errors[j].marker = IF model.errors[j].marker = marker THEN "other"
                                                   ELSE model.errors[j].marker
  <2> DEFINE f == [j \in 1 .. k |->
                     LET e == model.errors[j] IN
                     IF e.marker = marker
                     THEN EmittedError(e.contract, e.error, "other", e.index, e.data)
                     ELSE e]
  <2>1. m.errors = f
    BY <1>3, ModelWith DEF Reworded
  <2>2. Len(f) = k
    <3>1. f \in [1 .. k -> {f[j] : j \in 1 .. k}]
      OBVIOUS
    <3> QED
      BY <1>3, <3>1
  <2> QED
    BY <2>1, <2>2 DEF EmittedError
<1>5. /\ m.terminal = model.terminal /\ m.outcome = model.outcome /\ m.soroban = model.soroban
      /\ m.source = model.source /\ m.emitted = model.emitted
  BY ModelWith DEF Reworded
<1> HIDE DEF m
<1>6. ShowsNoMore(m, model)
  BY <1>3, <1>4, <1>5 DEF ShowsNoMore
<1>7. SameUnauthorized(m, model)
  <2> SUFFICES ASSUME First(Unauthorizeds(m)) # 0 PROVE SameUnauthorized(m, model)
    BY DEF SameUnauthorized
  <2>1. PICK j \in Unauthorizeds(m) : TRUE
    <3>1. Unauthorizeds(m) \in SUBSET (1 .. k)
      BY <1>4 DEF Unauthorizeds
    <3> QED
      BY <1>3, <3>1, FirstExists
  <2>2. j \in 1 .. k /\ m.errors[j].marker = "unauthorized"
    BY <1>4, <2>1 DEF Unauthorizeds, IsUnauthorized
  <2>3. \A n \in 1 .. k : IsUnauthorized(m.errors[n]) => IsUnauthorized(model.errors[n])
    BY <1>4 DEF IsUnauthorized
  <2>4. ASSUME NEW n \in 1 .. k, IsUnauthorized(model.errors[n]), marker # "unauthorized"
        PROVE  IsUnauthorized(m.errors[n])
    BY <1>4, <2>4 DEF IsUnauthorized
  <2>5. CASE marker # "unauthorized"
    <3>1. Unauthorizeds(m) = Unauthorizeds(model)
      BY <1>4, <2>3, <2>4, <2>5 DEF Unauthorizeds
    <3>2. First(Unauthorizeds(m)) \in 1 .. k
      <4>1. Unauthorizeds(m) \in SUBSET (1 .. k)
        BY <1>4 DEF Unauthorizeds
      <4> QED
        BY <1>3, <4>1, FirstFacts
    <3> QED
      BY <1>4, <3>1, <3>2 DEF SameUnauthorized
  <2>6. CASE marker = "unauthorized"
    BY <1>4, <2>2, <2>6
  <2> QED
    BY <2>5, <2>6
<1>8. m.terminal # None /\ m.terminal.error.type = "Contract" => First(Terminals(contractErrors)) # 0
  BY <1>1, <1>3, <1>5, TheEndingCode, TheEndingCodeIsReported
<1>9. after.status = "Matched" => reports[i].status = "Matched"
  <2> HIDE DEF all
  <2> QED
    BY <1>1, <1>6, <1>7, <1>8, MatchesAsBefore
<1>10. FromTheTrace(m)
  BY <1>2, <1>4, <1>5 DEF FromTheTrace
<1>11. ASSUME after.confidence = "Confirmed"
       PROVE  after = reports[i] \/ origin[after.event] = failing \/ CaughtBefore
  <2>1. CASE Registry[i] \in DiagnosticRules
    BY <1>10, <1>11, <2>1, Culprit
  <2>2. CASE Registry[i] \notin DiagnosticRules
    <3> HIDE DEF all
    <3> QED
      BY <1>1, <1>5, <2>2, CodeRulesIgnoreEvents
  <2> QED
    BY <2>1, <2>2
<1> QED
  BY <1>9, <1>11 DEF m

LEMMA RemovedFacts ==
    ASSUME NEW e, e \in Seq(Range(e)), NEW i \in 1 .. Len(e)
    PROVE  LET r == RemoveAt(e, i) IN
           /\ Len(r) \in Nat /\ DOMAIN r = 1 .. Len(r)
           /\ \A n \in 1 .. Len(r) :
                 \/ n < i /\ n \in 1 .. Len(e) /\ r[n] = e[n]
                 \/ n >= i /\ n + 1 \in 1 .. Len(e) /\ r[n] = e[n + 1]
           /\ \A n \in 1 .. Len(e) : n < i => n \in 1 .. Len(r) /\ r[n] = e[n]
           /\ \A n \in 1 .. Len(e) : n > i => n - 1 \in 1 .. Len(r) /\ r[n - 1] = e[n]
<1> DEFINE T == Range(e)
           u == SubSeq(e, 1, i - 1)
           v == SubSeq(e, i + 1, Len(e))
<1>1. e \in Seq(T) /\ Len(e) \in Nat /\ i \in Nat
  OBVIOUS
<1> HIDE DEF T
<1>2. /\ u \in Seq(T) /\ Len(u) = i - 1 /\ \A n \in 1 .. i - 1 : u[n] = e[n]
      /\ v \in Seq(T) /\ Len(v) = Len(e) - i /\ \A n \in 1 .. Len(e) - i : v[n] = e[n + i]
  BY <1>1
<1> HIDE DEF u, v
<1> DEFINE r == u \o v
<1>3. /\ r \in Seq(T) /\ Len(r) = Len(e) - 1
      /\ \A n \in 1 .. Len(e) - 1 : r[n] = IF n <= i - 1 THEN u[n] ELSE v[n - (i - 1)]
  BY <1>1, <1>2
<1>4. DOMAIN r = 1 .. Len(r)
  BY <1>3
<1> HIDE DEF r
<1>5. ASSUME NEW n \in 1 .. Len(e) - 1
      PROVE  /\ n < i => r[n] = e[n]
             /\ n >= i => r[n] = e[n + 1]
  <2>1. n < i => n \in 1 .. i - 1 /\ n <= i - 1
    BY <1>1
  <2>2. n >= i => n - (i - 1) \in 1 .. Len(e) - i /\ ~(n <= i - 1) /\ (n - (i - 1)) + i = n + 1
    BY <1>1
  <2> QED
    BY <1>2, <1>3, <2>1, <2>2
<1>6. RemoveAt(e, i) = r
  BY DEF RemoveAt, r, u, v
<1>7. \A n \in 1 .. Len(e) : n > i => n - 1 \in 1 .. Len(e) - 1 /\ n - 1 >= i /\ (n - 1) + 1 = n
  BY <1>1
<1>8. \A n \in 1 .. Len(e) : n < i => n \in 1 .. Len(e) - 1
  BY <1>1
<1>9. \A n \in 1 .. Len(e) - 1 : n \in 1 .. Len(e) /\ n + 1 \in 1 .. Len(e) /\ (n < i \/ n >= i)
  BY <1>1
<1>10. Len(r) \in Nat /\ DOMAIN r = 1 .. Len(r) /\ Len(r) = Len(e) - 1
  BY <1>1, <1>3, <1>4
<1>11. ASSUME NEW n \in 1 .. Len(r)
       PROVE  \/ n < i /\ n \in 1 .. Len(e) /\ r[n] = e[n]
              \/ n >= i /\ n + 1 \in 1 .. Len(e) /\ r[n] = e[n + 1]
  BY <1>5, <1>9, <1>10
<1>12. ASSUME NEW n \in 1 .. Len(e), n < i
       PROVE  n \in 1 .. Len(r) /\ r[n] = e[n]
  BY <1>5, <1>8, <1>10, <1>12
<1>13. ASSUME NEW n \in 1 .. Len(e), n > i
       PROVE  n - 1 \in 1 .. Len(r) /\ r[n - 1] = e[n]
  <2>1. n - 1 \in 1 .. Len(e) - 1 /\ n - 1 >= i /\ (n - 1) + 1 = n
    BY <1>7, <1>13
  <2>2. r[n - 1] = e[(n - 1) + 1]
    BY <1>5, <2>1
  <2> QED
    BY <1>10, <2>1, <2>2
<1> QED
  BY <1>6, <1>10, <1>11, <1>12, <1>13

\* What is left when the event that ended the invocation is lost.
LEMMA WithoutTheTerminal ==
    ASSUME IInv, phase # "input", model.emitted
    PROVE  LET n == [model EXCEPT !.terminal = None] IN
           ShowsNoMore(n, model) /\ FromTheTrace(n) /\ SameUnauthorized(n, model)
<1> DEFINE n == [model EXCEPT !.terminal = None]
<1>1. /\ n.errors = model.errors /\ n.terminal = None
      /\ n.outcome = model.outcome /\ n.soroban = model.soroban
      /\ n.source = model.source /\ n.emitted = model.emitted
  BY ModelWith
<1> HIDE DEF n
<1>2. FromTheTrace(model)
  BY TheModelIsFromTheTrace
<1>3. ShowsNoMore(n, model)
  BY <1>1, <1>2 DEF ShowsNoMore, FromTheTrace
<1>4. FromTheTrace(n)
  BY <1>1, <1>2 DEF FromTheTrace
<1>5. Unauthorizeds(n) = Unauthorizeds(model)
  BY <1>1 DEF Unauthorizeds
<1> QED
  BY <1>1, <1>3, <1>4, <1>5 DEF n, SameUnauthorized

\* What is left when an error event is lost.
LEMMA WithoutAnEvent ==
    ASSUME IInv, phase # "input", model.emitted, NEW i \in 1 .. Len(model.errors)
    PROVE  LET n == [model EXCEPT !.errors = RemoveAt(@, i)] IN
           /\ ShowsNoMore(n, model) /\ FromTheTrace(n) /\ n.terminal = model.terminal
           /\ origin[i] = failing => SameUnauthorized(n, model)
<1> DEFINE n == [model EXCEPT !.errors = RemoveAt(@, i)]
           r == RemoveAt(errs, i)
<1>1. model.errors = errs /\ errs \in Seq(Range(errs)) /\ Len(errs) \in Nat
      /\ DOMAIN errs = 1 .. Len(errs)
  BY TheModel DEF ModelFacts, IInv, HostInv, HostTyped
<1>2. /\ n.errors = r /\ n.terminal = model.terminal
      /\ n.outcome = model.outcome /\ n.soroban = model.soroban
      /\ n.source = model.source /\ n.emitted = model.emitted
  <2>1. n = [model EXCEPT !.errors = r]
    BY <1>1
  <2> HIDE DEF n, r
  <2>2. LET w == [model EXCEPT !.errors = r] IN
        /\ w.errors = r /\ w.terminal = model.terminal
        /\ w.outcome = model.outcome /\ w.soroban = model.soroban
        /\ w.source = model.source /\ w.emitted = model.emitted
    BY ModelWith, Zenon
  <2> QED
    BY <2>1, <2>2
<1> HIDE DEF n
<1>3. /\ Len(r) \in Nat /\ DOMAIN r = 1 .. Len(r)
      /\ \A j \in 1 .. Len(r) :
            \/ j < i /\ j \in 1 .. Len(errs) /\ r[j] = errs[j]
            \/ j >= i /\ j + 1 \in 1 .. Len(errs) /\ r[j] = errs[j + 1]
      /\ \A j \in 1 .. Len(errs) : j < i => j \in 1 .. Len(r) /\ r[j] = errs[j]
      /\ \A j \in 1 .. Len(errs) : j > i => j - 1 \in 1 .. Len(r) /\ r[j - 1] = errs[j]
  BY <1>1, RemovedFacts
<1> HIDE DEF r
<1>4. \A j \in 1 .. Len(r) : \E k \in 1 .. Len(errs) : k # i /\ r[j] = errs[k]
  <2>1. \A j \in 1 .. Len(r) : j < i => j # i
    BY <1>3
  <2>2. \A j \in 1 .. Len(r) : j >= i => j + 1 # i
    BY <1>1, <1>3
  <2> QED
    BY <1>3, <2>1, <2>2
<1>5. ShowsNoMore(n, model)
  <2>1. ASSUME NEW j \in 1 .. Len(n.errors)
        PROVE  \E k \in 1 .. Len(model.errors) :
                  /\ n.errors[j].error = model.errors[k].error
                  /\ n.errors[j].marker \in {model.errors[k].marker, "other"}
    <3>1. PICK k \in 1 .. Len(errs) : r[j] = errs[k]
      BY <1>2, <1>4, <2>1
    <3> QED
      BY <1>1, <1>2, <3>1
  <2> QED
    BY <1>1, <1>2, <1>3, <2>1 DEF ShowsNoMore
<1>6. FromTheTrace(n)
  <2>1. FromTheTrace(model)
    BY TheModelIsFromTheTrace
  <2> QED
    BY <1>1, <1>2, <1>3, <1>4, <2>1 DEF FromTheTrace
<1>7. ASSUME origin[i] = failing, First(Unauthorizeds(n)) # 0
      PROVE  SameUnauthorized(n, model)
  <2> DEFINE U == Unauthorizeds(model)
             V == Unauthorizeds(n)
             f == First(U)
             g == First(V)
  <2>1. U = {j \in 1 .. Len(errs) : IsUnauthorized(errs[j])}
        /\ V = {j \in 1 .. Len(r) : IsUnauthorized(r[j])}
    BY <1>1, <1>2 DEF Unauthorizeds
  <2>2. g \in V /\ \A j \in V : g <= j
    BY <1>3, <1>7, <2>1, FirstFacts
  <2>3. PICK k \in 1 .. Len(errs) : k # i /\ r[g] = errs[k]
    BY <1>4, <2>1, <2>2
  <2>4. k \in U
    BY <2>1, <2>2, <2>3
  <2>5. f \in U /\ \A j \in U : f <= j
    BY <1>1, <2>1, <2>4, FirstFacts
  <2>6. f # i
    <3> SUFFICES ASSUME f = i PROVE FALSE
      OBVIOUS
    <3>1. \A j \in U : origin[j] = j
      <4>1. \A j \in DOMAIN errs : Traced(errs, origin, j)
        BY DEF IInv, HostInv
      <4>2. \A j \in U : errs[j].marker = "unauthorized"
        BY <2>1 DEF IsUnauthorized
      <4> QED
        BY <1>1, <2>1, <4>1, <4>2 DEF Traced
    <3>2. failing = i /\ origin[k] = k /\ i \in Nat /\ k \in Nat
      BY <1>1, <1>7, <2>4, <2>5, <3>1
    <3>3. origin[k] <= failing
      BY <1>1, <2>3, <3>2 DEF IInv, HostInv, FailingIsLatest
    <3>4. i <= k
      BY <2>4, <2>5
    <3> QED
      BY <2>3, <3>2, <3>3, <3>4
  <2>7. r[g] = errs[f]
    <3> HIDE DEF f, g, U, V
    <3>1. f \in 1 .. Len(errs) /\ g \in 1 .. Len(r)
      BY <2>1, <2>2, <2>5
    <3>2. CASE f < i
      <4>1. f \in V /\ r[f] = errs[f]
        BY <1>3, <2>1, <2>5, <3>1, <3>2
      <4>2. g <= f
        BY <2>2, <4>1
      <4>3. g < i
        BY <1>1, <1>3, <3>1, <3>2, <4>2
      <4>4. r[g] = errs[g] /\ g \in 1 .. Len(errs)
        BY <1>3, <3>1, <4>3
      <4>5. g \in U
        BY <2>1, <2>2, <4>4
      <4>6. f <= g
        BY <2>5, <4>5
      <4>7. f = g
        BY <1>1, <1>3, <3>1, <4>2, <4>6
      <4> QED
        BY <4>4, <4>7
    <3>3. CASE f > i
      <4>1. f - 1 \in V /\ r[f - 1] = errs[f]
        BY <1>3, <2>1, <2>5, <3>1, <3>3
      <4>2. g <= f - 1
        BY <2>2, <4>1
      <4>3. ~(g < i)
        <5>1. ASSUME g < i PROVE g \in U
          BY <1>3, <2>1, <2>2, <3>1, <5>1
        <5>2. ASSUME g < i PROVE FALSE
          BY <1>1, <1>3, <2>5, <3>1, <3>3, <5>1, <5>2
        <5> QED
          BY <5>2
      <4>4. r[g] = errs[g + 1] /\ g + 1 \in 1 .. Len(errs)
        BY <1>3, <3>1, <4>3
      <4>5. g + 1 \in U
        BY <2>1, <2>2, <4>4
      <4>6. f <= g + 1
        BY <2>5, <4>5
      <4>7. f = g + 1
        BY <1>1, <1>3, <3>1, <4>2, <4>6
      <4> QED
        BY <4>4, <4>7
    <3> QED
      BY <1>1, <2>6, <3>1, <3>2, <3>3
  <2>8. f # 0
    BY <1>1, <2>1, <2>5
  <2> QED
    BY <1>1, <1>2, <2>7, <2>8 DEF SameUnauthorized
<1>8. First(Unauthorizeds(n)) = 0 => SameUnauthorized(n, model)
  BY DEF SameUnauthorized
<1> QED
  BY <1>2, <1>5, <1>6, <1>7, <1>8 DEF n

LEMMA LossFollows ==
    ASSUME IInv
    PROVE  LossDegrades
<1> DEFINE lost(i) == IF i = 0 THEN [model EXCEPT !.terminal = None]
                              ELSE [model EXCEPT !.errors = RemoveAt(@, i)]
           after(m, rule) == Evaluate(rule, m,
                               ResolveContractErrors(m.errors, m.terminal, specs, CodeHashes(m)))
<1> SUFFICES ASSUME phase = "sorted", model.emitted,
                    NEW i \in 0 .. Len(model.errors), NEW p \in DOMAIN Registry
             PROVE  LET outcome == after(lost(i), Registry[p]) IN
                    /\ outcome.status = "Matched" =>
                          reports[p].status = "Matched" \/ (i # 0 /\ origin[i] # failing)
                    /\ outcome.confidence = "Confirmed" /\ outcome.event # 0 =>
                          origin[outcome.event] = failing \/ CaughtBefore
  BY DEF LossDegrades
<1> DEFINE n       == lost(i)
           all     == ResolveContractErrors(n.errors, n.terminal, specs, CodeHashes(n))
           outcome == Evaluate(Registry[p], n, all)
<1>1. /\ p \in 1 .. evaluated /\ Registry[p] \in Range(Builtin)
      /\ reports[p] = Evaluate(Registry[p], model, contractErrors)
      /\ contractErrors = ResolveContractErrors(model.errors, model.terminal, specs,
                                                CodeHashes(model))
  <2>1. evaluated = Len(Registry) /\ DOMAIN Registry = 1 .. Len(Registry)
    BY RegistryAssumption DEF IInv, ReportsInv
  <2>2. p \in 1 .. evaluated
    BY <2>1
  <2> QED
    BY <2>2, TheReports DEF IInv, ModelInv, Submitted
<1>2. Len(model.errors) \in Nat /\ DOMAIN model.errors = 1 .. Len(model.errors)
  BY TheModelIsFromTheTrace DEF FromTheTrace
<1>3. /\ ShowsNoMore(n, model) /\ FromTheTrace(n)
      /\ i = 0 \/ origin[i] = failing => SameUnauthorized(n, model)
  <2>1. CASE i = 0
    BY <2>1, WithoutTheTerminal
  <2>2. CASE i # 0
    <3>1. i \in 1 .. Len(model.errors)
      BY <1>2, <2>2
    <3> QED
      BY <2>2, <3>1, WithoutAnEvent
  <2> QED
    BY <2>1, <2>2
<1> HIDE DEF n
<1>4. n.terminal # None /\ n.terminal.error.type = "Contract" => First(Terminals(contractErrors)) # 0
  <2>1. n.terminal # None => n.terminal = model.terminal
    BY <1>3 DEF ShowsNoMore
  <2> QED
    BY <1>1, <1>2, <2>1, TheEndingCode, TheEndingCodeIsReported
<1>5. ASSUME outcome.status = "Matched"
      PROVE  reports[p].status = "Matched" \/ (i # 0 /\ origin[i] # failing)
  <2> HIDE DEF all
  <2>1. CASE i = 0 \/ origin[i] = failing
    BY <1>1, <1>3, <1>4, <1>5, <2>1, MatchesAsBefore
  <2> QED
    BY <2>1
<1>6. ASSUME outcome.confidence = "Confirmed", outcome.event # 0
      PROVE  origin[outcome.event] = failing \/ CaughtBefore
  <2>1. CASE Registry[p] \in DiagnosticRules
    BY <1>3, <1>6, <2>1, Culprit
  <2>2. CASE Registry[p] \notin DiagnosticRules
    <3> HIDE DEF all
    <3>1. n.outcome = model.outcome
      BY <1>3 DEF ShowsNoMore
    <3>2. outcome.event = 0
      BY <1>1, <2>2, <3>1, CodeRulesIgnoreEvents
    <3> QED
      BY <1>6, <3>2
  <2> QED
    BY <2>1, <2>2
<1> QED
  BY <1>5, <1>6 DEF n

-----------------------------------------------------------------------------
(***************************************************************************)
(* What holds of every diagnosis.                                          *)
(***************************************************************************)

\* A diagnosis is built as it should be: one outcome per rule that has run, each
\* cause with a confidence.
THEOREM DiagnosisTypeCorrect == HostedSpec => []AnalysisTypeOK
<1>1. IInv => AnalysisTypeOK
  BY TypeFollows
<1> QED
  BY <1>1, Invariance, PTL

\* The limitations that analyze_with states never disagree with the verdict that
\* Diagnosis::verdict reads.
THEOREM LimitationsAndVerdictAgree == HostedSpec => []LimitationsMatchTheVerdict
<1>1. IInv => LimitationsMatchTheVerdict
  BY LimitationsFollow
<1> QED
  BY <1>1, Invariance, PTL

\* No failure has two confirmed causes, whatever the host did and whatever the
\* order of the registry.
THEOREM OneCauseIsConfirmed == HostedSpec => []AtMostOneConfirmed
<1>1. IInv => AtMostOneConfirmed
  BY OneConfirmed
<1> QED
  BY <1>1, Invariance, PTL

\* A confirmed cause that blames an event blames the failure that ended the
\* invocation, or a caught one of the same value.
THEOREM TheCulpritIsConfirmed == HostedSpec => []ConfirmedIsTheCulprit
<1>1. IInv => ConfirmedIsTheCulprit
  BY CulpritConfirmed
<1> QED
  BY <1>1, Invariance, PTL

\* A contract error is attributed to a contract that raised it, never to a
\* caller that only emitted it again.
THEOREM TheOriginIsNamed == HostedSpec => []ErrorsComeFromTheirOrigin
<1>1. IInv => ErrorsComeFromTheirOrigin
  BY OriginFollows
<1> QED
  BY <1>1, Invariance, PTL

\* A verified name is one that the code which ran gives the error, as long as no
\* contract is upgraded to code that the transaction ran.
THEOREM VerifiedNamesAreTrue ==
    ASSUME UpgradesAreNew
    PROVE  HostedSpec => []VerifiedNamesDescribeTheCode
<1>1. IInv => VerifiedNamesDescribeTheCode
  BY NamesFollow
<1> QED
  BY <1>1, Invariance, PTL

\* Without diagnostics no rule that reads them matches, and a trap is left
\* inconclusive.
THEOREM AbsenceIsInconclusive == HostedSpec => []AbsenceConcludesNothing
<1>1. IInv => AbsenceConcludesNothing
  BY AbsenceFollows
<1> QED
  BY <1>1, Invariance, PTL

\* The rules of the result codes claim exactly the transactions whose first
\* failed operation returned their code.
THEOREM CodesAreConfirmed == HostedSpec => []CodesConfirmTheirCause
<1>1. IInv => CodesConfirmTheirCause
  BY CodesFollow
<1> QED
  BY <1>1, Invariance, PTL

\* Whatever message a host release rewords, no rule matches that did not match,
\* and a new confirmation blames what ended the invocation or its like.
THEOREM RewordingOnlyDegrades == HostedSpec => []RewordingDegrades
<1>1. IInv => RewordingDegrades
  BY RewordingFollows
<1> QED
  BY <1>1, Invariance, PTL

\* Whatever error event is lost, no rule matches that did not match, unless the
\* lost event was of a caught failure; and what is confirmed is the culprit.
THEOREM LossOnlyDegrades == HostedSpec => []LossDegrades
<1>1. IInv => LossDegrades
  BY LossFollows
<1> QED
  BY <1>1, Invariance, PTL

\* analyze_with keeps what it promises: one diagnosis, given when it is complete
\* and never revised, of every rule, ranked stably, whose verdict follows.
THEOREM DiagnosisImplements == HostedSpec => DiagnosisIsAsPromised
<1>1. HostInit => Promised!Undiagnosed
  BY PromisedInit
<1>2. IInv /\ [HostedNext]_vars => [Promised!Diagnose]_(Promised!diagnosis)
  BY PromisedStep
<1> QED
  BY <1>1, <1>2, Invariance, PTL DEF HostedSpec, DiagnosisIsAsPromised, Promised!Spec

=============================================================================
