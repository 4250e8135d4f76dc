------------------------------ MODULE Analysis ------------------------------
(***************************************************************************)
(* analyze_with of soroban-failure-analysis/src/lib.rs.  One action per    *)
(* step of its body: take the model and resolve its contract errors, run   *)
(* one rule, sort the candidates, state the limitations.  The diagnosis it *)
(* returns is reports, candidates, limitations and the verdict read from   *)
(* them.                                                                   *)
(*                                                                         *)
(* Each rule that matched contributes one candidate: its outcome together  *)
(* with its id.  A limitation is named, not worded.                        *)
(***************************************************************************)
EXTENDS Rules

CONSTANT Registry    \* the ids of the registered rules, in order

\* Each built-in rule is registered once; None is no name of anything.
ASSUME RegistryAssumption ==
    /\ Registry \in Seq(Range(Builtin))
    /\ Range(Registry) = Range(Builtin)
    /\ \A i, j \in DOMAIN Registry : Registry[i] = Registry[j] => i = j
    /\ None \notin FailureStage /\ None \notin Confidence /\ None \notin Nat
    /\ None \notin {"NotAFailure", "InsufficientEvidence", "Unsupported"}

VARIABLES
    model,          \* the canonical model, None before it is submitted
    specs,          \* the contract specs supplied with it
    contractErrors, \* ctx.contract_errors
    evaluated,      \* how many rules of the registry have run
    reports,        \* the outcome of each, in order
    candidates,     \* candidate_causes
    limitations,    \* the limitations stated, a set of names
    phase           \* "input", "rules", "sorted" or "done"

analysisVars == <<model, specs, contractErrors, evaluated, reports, candidates, limitations, phase>>

Limitation == {"succeeded", "inconclusive", "unsupported", "unnamed_codes", "no_diagnostics"}

AnalysisInit ==
    /\ model = None
    /\ specs = None
    /\ contractErrors = << >>
    /\ evaluated = 0
    /\ reports = << >>
    /\ candidates = << >>
    /\ limitations = {}
    /\ phase = "input"

-----------------------------------------------------------------------------
CodeHashes(m) == IF m.soroban = None THEN {} ELSE m.soroban.loaded

Begin(m, supplied) ==
    /\ phase = "input"
    /\ model' = m
    /\ specs' = supplied
    /\ contractErrors' = ResolveContractErrors(m.errors, m.terminal, supplied, CodeHashes(m))
    /\ phase' = "rules"
    /\ UNCHANGED <<evaluated, reports, candidates, limitations>>

Candidate(rule, outcome) ==
    [rule |-> rule, confidence |-> outcome.confidence, event |-> outcome.event,
     subject |-> outcome.subject]

\* Mutant: only the rules that apply are reported.
RunRule_Applicable ==
    /\ phase = "rules"
    /\ evaluated < Len(Registry)
    /\ LET rule    == Registry[evaluated + 1]
           outcome == Evaluate(rule, model, contractErrors)
       IN /\ reports' = IF outcome = NotApplicable THEN reports ELSE Append(reports, outcome)
          /\ candidates' = IF outcome.status = "Matched"
                           THEN Append(candidates, Candidate(rule, outcome))
                           ELSE candidates
    /\ evaluated' = evaluated + 1
    /\ UNCHANGED <<model, specs, contractErrors, limitations, phase>>

RunRule ==
    /\ phase = "rules"
    /\ evaluated < Len(Registry)
    /\ LET rule    == Registry[evaluated + 1]
           outcome == Evaluate(rule, model, contractErrors)
       IN /\ reports' = Append(reports, outcome)
          /\ candidates' = IF outcome.status = "Matched"
                           THEN Append(candidates, Candidate(rule, outcome))
                           ELSE candidates
    /\ evaluated' = evaluated + 1
    /\ UNCHANGED <<model, specs, contractErrors, limitations, phase>>

\* Mutant: the weakest candidates come first.
Ranked_Ascending(s) ==
    LET at(confidence) == Only(s, {i \in DOMAIN s : s[i].confidence = confidence})
    IN at("Possible") \o at("Likely") \o at("Confirmed")

\* A stable sort by descending confidence.
Ranked(s) ==
    LET at(confidence) == Only(s, {i \in DOMAIN s : s[i].confidence = confidence})
    IN at("Confirmed") \o at("Likely") \o at("Possible")

Sort ==
    /\ phase = "rules"
    /\ evaluated = Len(Registry)
    /\ candidates' = Ranked(candidates)
    /\ phase' = "sorted"
    /\ UNCHANGED <<model, specs, contractErrors, evaluated, reports, limitations>>

Inconclusive == \E i \in DOMAIN reports : reports[i].status = "NoEvidence"

\* The first limitation is about the stage: a success, or a failure that no
\* rule explains.
StageLimitation ==
    IF model.outcome.stage = None THEN {"succeeded"}
    ELSE IF candidates # << >> THEN {}
    ELSE IF Inconclusive THEN {"inconclusive"} ELSE {"unsupported"}

Conclude ==
    /\ phase = "sorted"
    /\ limitations' =
          StageLimitation
          \cup (IF \E i \in DOMAIN contractErrors : contractErrors[i].resolution.name = None
                THEN {"unnamed_codes"} ELSE {})
          \cup (IF model.emitted THEN {} ELSE {"no_diagnostics"})
    /\ phase' = "done"
    /\ UNCHANGED <<model, specs, contractErrors, evaluated, reports, candidates>>

\* Mutant: the verdict forgets that a success is not a failure.
Verdict_NoStage ==
    IF candidates # << >> THEN Head(candidates).confidence
    ELSE IF Inconclusive THEN "InsufficientEvidence" ELSE "Unsupported"

\* Diagnosis::verdict, which reads the finished diagnosis.
Verdict ==
    IF model.outcome.stage = None THEN "NotAFailure"
    ELSE IF candidates # << >> THEN Head(candidates).confidence
    ELSE IF Inconclusive THEN "InsufficientEvidence" ELSE "Unsupported"

Analyse == RunRule \/ Sort \/ Conclude

-----------------------------------------------------------------------------
AnalysisTypeOK ==
    /\ phase \in {"input", "rules", "sorted", "done"}
    /\ phase = "input" => model = None /\ reports = << >>
    /\ evaluated \in 0 .. Len(Registry)
    /\ Len(reports) = evaluated
    /\ \A i \in DOMAIN reports : reports[i].status \in RuleStatus
    /\ \A i \in DOMAIN candidates : candidates[i].confidence \in Confidence
    /\ limitations \subseteq Limitation

\* A diagnosis is what Diagnosis promises: every rule reported once, one cause
\* for each that matched, ranked stably ("rules of equal confidence keep their
\* registration order", lib.rs:96-97), a verdict that follows from the reports,
\* and none of it seen before it is complete or changed after.
Promised == INSTANCE Diagnosis WITH
    reports <- IF phase = "done" THEN reports ELSE None,
    causes  <- IF phase = "done" THEN candidates ELSE None,
    verdict <- IF phase = "done" THEN Verdict ELSE None

DiagnosisIsAsPromised == Promised!Spec

\* The limitations are worded by analyze_with and the verdict is read by
\* Diagnosis::verdict, from different fields: they never disagree.
LimitationsMatchTheVerdict ==
    phase = "done" =>
        /\ Verdict = "NotAFailure" <=> "succeeded" \in limitations
        /\ Verdict = "InsufficientEvidence" <=> "inconclusive" \in limitations
        /\ Verdict = "Unsupported" <=> "unsupported" \in limitations
        /\ candidates # << >> => Verdict \in Confidence

=============================================================================
