----------------------------- MODULE Diagnosis -----------------------------
(***************************************************************************)
(* What analyze_with promises of a diagnosis, whatever its rules are (the  *)
(* documentation of analyze_with and of Diagnosis::verdict): one answer,   *)
(* given once and never revised.  Analysis implements it: a diagnosis is   *)
(* there when all of its steps are done, and None before.                  *)
(***************************************************************************)
EXTENDS Naturals, Sequences, FiniteSets

CONSTANTS
    Registry,    \* the ids of the registered rules, in order
    None         \* no diagnosis yet

VARIABLES
    reports,     \* the outcome of each rule, in registration order
    causes,      \* the causes, strongest first
    verdict      \* the verdict a caller reads

diagnosis == <<reports, causes, verdict>>

Undiagnosed == reports = None /\ causes = None /\ verdict = None

\* From the weakest, as the derived order of the Confidence enum.
Confidences == <<"Possible", "Likely", "Confirmed">>

Strength(confidence) == CHOOSE n \in 1 .. 3 : Confidences[n] = confidence

With(status, given) == {i \in DOMAIN given : given[i].status = status}

\* One cause for each rule that matched, with what it found.
OnePerMatch(given, ranked) ==
    /\ Len(ranked) = Cardinality(With("Matched", given))
    /\ \A i \in With("Matched", given) : \E n \in DOMAIN ranked :
          /\ ranked[n].rule = Registry[i]
          /\ \A field \in {"confidence", "event", "subject"} : ranked[n][field] = given[i][field]

Position(rule) == CHOOSE i \in DOMAIN Registry : Registry[i] = rule

\* "Candidate causes are returned ranked by Confidence, strongest first.
\* Ranking is stable: rules of equal confidence keep their registration order."
RankedStably(ranked) ==
    \A i, j \in DOMAIN ranked : i < j =>
        \/ Strength(ranked[i].confidence) > Strength(ranked[j].confidence)
        \/ /\ ranked[i].confidence = ranked[j].confidence
           /\ Position(ranked[i].rule) < Position(ranked[j].rule)

\* The verdict is the confidence of the strongest cause.  Without any it says
\* whether a rule lacked evidence; and a success has no cause.
Follows(answer, given) ==
    LET found == {given[i].confidence : i \in With("Matched", given)} IN
    \/ answer \in found /\ \A c \in found : Strength(answer) >= Strength(c)
    \/ /\ found = {}
       /\ answer \in {"NotAFailure", IF With("NoEvidence", given) # {}
                                     THEN "InsufficientEvidence" ELSE "Unsupported"}

Diagnose ==
    /\ Undiagnosed
    /\ verdict' # None
    /\ Len(reports') = Len(Registry)
    /\ OnePerMatch(reports', causes')
    /\ RankedStably(causes')
    /\ Follows(verdict', reports')

Spec == Undiagnosed /\ [][Diagnose]_diagnosis

=============================================================================
