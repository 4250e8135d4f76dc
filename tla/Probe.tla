------------------------------- MODULE Probe -------------------------------
(***************************************************************************)
(* sdo-probe (tools/rpc-probe) as fixtures/README.md has it used: scan the *)
(* ledgers for failed Soroban transactions, then capture some of them into *)
(* a fixture directory, and the tests of crates/sdo/tests/fixtures.rs that *)
(* accept the directory or not.                                            *)
(*                                                                         *)
(* The endpoint is external: it serves the transactions up to the last     *)
(* ledger it has ingested, answers getTransaction with less than it should *)
(* or not at all, and forgets what it retained.  The tool has one client   *)
(* and retries nothing.  It may be stopped between any two steps: a file   *)
(* it had opened is then Bad, which is also what a truncated one is.       *)
(***************************************************************************)
EXTENDS Response, FiniteSetsExt

CONSTANTS
    Chain,        \* the network's transactions: hash, ledger, status, envelope
    Answers,      \* what the endpoint may answer to getTransaction
    StartLedger,  \* --from-ledger, or a little after the oldest retained one
    Want,         \* --want
    MaxPages,     \* --max-pages
    PageSize,     \* --page-size
    MaxLedger,    \* the largest u32
    MaxCaptures   \* bound: how many times capture is run

ASSUME ProbeAssumption ==
    /\ Want \in Nat /\ MaxPages \in Nat /\ MaxCaptures \in Nat
    /\ PageSize \in Nat \ {0}
    /\ StartLedger \in 0 .. MaxLedger
    /\ MaxLedger \in Nat
    /\ Chain \in Seq(Range(Chain))
    /\ \A i \in DOMAIN Chain : Chain[i].ledger \in 0 .. MaxLedger - 1
    /\ \A i, j \in DOMAIN Chain : i < j => Chain[i].ledger <= Chain[j].ledger
    /\ \A i, j \in DOMAIN Chain :
          Chain[i].hash # None /\ Chain[i].hash = Chain[j].hash => i = j

VARIABLES
    pc,         \* what the tool does next, "idle" between two commands
    ledger,     \* the scan: where its next page starts
    pages,      \*   how many it has read
    found,      \*   what it has found
    cut,        \*   history: the ledgers that a page ended within
    listed,     \* the transactions the scan printed
    captures,   \* how many captures have started
    asked,      \* the hash given to the capture that runs
    answer,     \* what the endpoint answered it
    open,       \* whether the file it writes next is open
    dir,        \* the files of the fixture, None where there is none
    by          \* history: the capture that wrote each of them

scanVars == <<ledger, pages, found, cut, listed>>
captureVars == <<captures, asked, answer, open, dir, by>>
vars == <<pc, scanVars, captureVars>>

File == {"rpc-response", "probe", "metadata"}

Init ==
    /\ pc = "scan"
    /\ ledger = StartLedger
    /\ pages = 0
    /\ found = << >>
    /\ cut = {}
    /\ listed = {}
    /\ captures = 0
    /\ asked = None
    /\ answer = None
    /\ open = FALSE
    /\ dir = [f \in File |-> None]
    /\ by = [f \in File |-> 0]

-----------------------------------------------------------------------------
(***************************************************************************)
(* Scan.                                                                   *)
(***************************************************************************)

Before(l) == Cardinality({i \in DOMAIN Chain : Chain[i].ledger < l})

\* A page that starts at a ledger, of an endpoint that has ingested those up
\* to tip.
Page(l, tip) == SubSeq(Chain, Before(l) + 1, Min({Before(l) + PageSize, Before(tip + 1)}))

IsMatch(tx) == tx.status = "FAILED" /\ tx.envelope = "soroban" /\ tx.hash # None

\* The failed Soroban transactions of a page, as far as they can be told.
Matches(page) == Only(page, {i \in DOMAIN page : IsMatch(page[i])})

\* Mutant: a page is read to its end, whatever is still wanted.
Seen_Whole(page, wanted) == page

\* The part of a page that is looked at: the scan breaks off once it has found
\* what it wants.
Seen(page, wanted) ==
    IF Len(Matches(page)) < wanted THEN page
    ELSE LET ends == {i \in DOMAIN page : Len(Matches(SubSeq(page, 1, i))) = wanted}
         IN SubSeq(page, 1, Min(ends))

\* Mutant: the next page starts at the last ledger seen.
NextStart_Same(last) == last

\* `last_ledger as u32` and saturating_add(1).
NextStart(last) == Min({last + 1, MaxLedger})

CanScan == pc = "scan" /\ pages < MaxPages /\ Len(found) < Want

ScanPage ==
    /\ CanScan
    /\ \E tip \in ledger .. MaxLedger :
          LET page == Page(ledger, tip)
              seen == Seen(page, Want - Len(found))
              last == seen[Len(seen)].ledger
          IN /\ page # << >>
             /\ found' = found \o Matches(seen)
             /\ cut' = IF Before(last + 1) > Before(ledger) + Len(seen) THEN cut \cup {last}
                                                                       ELSE cut
             /\ IF NextStart(last) <= ledger THEN pc' = "list" /\ UNCHANGED ledger
                                             ELSE ledger' = NextStart(last) /\ UNCHANGED pc
    /\ pages' = pages + 1
    /\ UNCHANGED <<listed, captureVars>>

\* The scan returns: it has what it wants, it has read its pages or the last
\* one was empty.
ScanEnds ==
    /\ \/ pc = "list"
       \/ pc = "scan" /\ ~CanScan
       \/ CanScan /\ \E tip \in ledger .. MaxLedger : Page(ledger, tip) = << >>
    /\ listed' = Range(found)
    /\ pc' = "idle"
    /\ found' = << >> /\ cut' = {} /\ pages' = 0 /\ ledger' = StartLedger
    /\ UNCHANGED captureVars

\* A page cannot be read, or starts at a ledger the endpoint does not have:
\* the error is returned and what was found is not.
ScanFails ==
    /\ CanScan
    /\ pc' = "idle"
    /\ found' = << >> /\ cut' = {} /\ pages' = 0 /\ ledger' = StartLedger
    /\ UNCHANGED <<listed, captureVars>>

-----------------------------------------------------------------------------
(***************************************************************************)
(* Capture.                                                                *)
(***************************************************************************)

\* getTransaction answers: the directory is made and the response opened.
Ask ==
    /\ pc = "idle"
    /\ captures < MaxCaptures
    /\ captures' = captures + 1
    /\ \E a \in Answers :
          /\ a.hash \in {tx.hash : tx \in listed}
          /\ answer' = a
          /\ asked' = a.hash
    /\ pc' = "rpc-response"
    /\ UNCHANGED <<scanVars, open, dir, by>>

\* The endpoint does not answer: nothing is written.
AskFails ==
    /\ pc = "idle"
    /\ captures < MaxCaptures
    /\ captures' = captures + 1
    /\ UNCHANGED <<pc, scanVars, asked, answer, open, dir, by>>

\* Creating a file empties the one that is there.
Open ==
    /\ pc \in File
    /\ ~open
    /\ open' = TRUE
    /\ dir' = [dir EXCEPT ![pc] = Bad]
    /\ by' = [by EXCEPT ![pc] = captures]
    /\ UNCHANGED <<pc, scanVars, captures, asked, answer>>

Report == ProbeTransaction(asked, answer)

Metadata(report) ==
    [transaction_hash |-> report.transaction, ledger |-> report.ledger,
     fee_bumped |-> IF report.signal = None THEN FALSE ELSE report.signal.fee_bumped,
     diagnostic_event_count |-> report.count]

\* None and Bad are no strings, records or events; a meta decodes as a whole, so
\* that none of its events is Bad; and of the operations only an invocation
\* traps or meets an archived entry, as their result types have it.
ASSUME AnswerAssumption ==
    /\ None # Bad
    /\ None \notin {"TransactionNotFound", "UnknownStatus", "MissingField", "Xdr", "ContractExecution"}
    /\ \A a \in Answers :
          /\ LET report == ProbeTransaction(a.hash, a)
             IN None \notin {a, report, Metadata(report)}
          /\ \A raw \in {Strings(a.top), Strings(a.nested), Embedded(a.meta)} :
                raw \in Seq(Range(raw))
          /\ Bad \notin Range(Embedded(a.meta))
          /\ Usable(a.result) =>
                /\ FailureSignal(a.result) # None
                /\ a.result.ops \in Seq(Range(a.result.ops))
                /\ \A op \in Range(a.result.ops) :
                      op.type \in SorobanOperation =>
                          \/ op.code \in WrapperCode \cup
                                {"Success", "Malformed", "ResourceLimitExceeded",
                                 "InsufficientRefundableFee"}
                          \/ /\ op.type = "InvokeHostFunction"
                             /\ op.code \in {"Trapped", "EntryArchived"}

Done == pc' = "idle" /\ asked' = None /\ answer' = None

\* An open file is completed.  Without a passphrase or a ledger the tool fails
\* before it writes the metadata.
Fill ==
    /\ open
    /\ open' = FALSE
    /\ \/ /\ pc = "rpc-response"
          /\ dir' = [dir EXCEPT !["rpc-response"] = answer]
          /\ pc' = "probe"
          /\ UNCHANGED <<asked, answer>>
       \/ /\ pc = "probe"
          /\ dir' = [dir EXCEPT !["probe"] = Report]
          /\ \/ Report.ledger # None /\ pc' = "metadata" /\ UNCHANGED <<asked, answer>>
             \/ Done
       \/ /\ pc = "metadata"
          /\ dir' = [dir EXCEPT !["metadata"] = Metadata(Report)]
          /\ Done
    /\ UNCHANGED <<scanVars, captures, by>>

\* The tool is stopped, or a file cannot be written.
Stop ==
    /\ pc \in File
    /\ Done
    /\ open' = FALSE
    /\ UNCHANGED <<scanVars, captures, dir, by>>

Capture == Ask \/ AskFails \/ Open \/ Fill

Next == ScanPage \/ ScanEnds \/ ScanFails \/ Capture \/ Stop

Spec == Init /\ [][Next]_vars

-----------------------------------------------------------------------------
(***************************************************************************)
(* The tests that guard the fixtures.                                      *)
(***************************************************************************)

Response == dir["rpc-response"]
Probed   == dir["probe"]
Claimed  == dir["metadata"]

\* The analysis of the recording says at which stage the transaction failed; the
\* stage of a success is None.
KnownStage(a) == Classify(a.result).stage \notin {None, "Unknown"}

\* Mutant: the events are not counted again.
Accepted_NoCount ==
    /\ \A f \in File : dir[f] \notin {None, Bad}
    /\ DecodeError(Response) = None
    /\ Response.status = "FAILED"
    /\ KnownStage(Response)
    /\ {Response.hash, Probed.transaction, Claimed.transaction_hash} = {Response.hash}
    /\ {Response.ledger, Probed.ledger, Claimed.ledger} = {Response.ledger}
    /\ Claimed.diagnostic_event_count = Probed.count

\* every_fixture_has_the_required_files, decodes and can be analysed, to a known
\* stage; its hashes match, the probe's report agrees with a fresh decode, and so
\* do the metadata's claims.  The README.md and the absence of secrets are not of
\* the tool's making.  That an undetermined diagnosis says why holds of every
\* analysis (LimitationsMatchTheVerdict), and evidence is not modelled.
Accepted ==
    /\ \A f \in File : dir[f] \notin {None, Bad}
    /\ DecodeError(Response) = None
    /\ Response.status = "FAILED"
    /\ KnownStage(Response)
    /\ {Response.hash, Probed.transaction, Claimed.transaction_hash} = {Response.hash}
    /\ {Response.ledger, Probed.ledger, Claimed.ledger} = {Response.ledger}
    /\ Claimed.diagnostic_event_count = Probed.count
    /\ Probed.count = Len(LocateDiagnostics(Response).events)

-----------------------------------------------------------------------------
Hit == {tx \in Range(Chain) : IsMatch(tx)}

TypeOK ==
    /\ pc \in File \cup {"scan", "list", "idle"}
    /\ ledger \in 0 .. MaxLedger
    /\ pages \in 0 .. MaxPages
    /\ Range(found) \cup listed \subseteq Hit
    /\ Len(found) <= Want
    /\ captures \in 0 .. MaxCaptures
    /\ (answer # None) <=> (pc \in File)
    /\ open => pc \in File /\ dir[pc] = Bad
    /\ \A f \in File : by[f] \in 0 .. captures /\ (by[f] = 0 <=> dir[f] = None)

\* A scan finds the failed Soroban transactions of the ledgers it went through
\* once each and in the order of the chain.  What it misses are those of a
\* ledger that a page ended within: the next page starts after that ledger
\* (scan.rs:97-104).
ScanMissesOnlyCuts ==
    LET at(tx) == CHOOSE i \in DOMAIN Chain : Chain[i] = tx IN
    pc \in {"scan", "list"} =>
        /\ \A i, j \in DOMAIN found : i < j => at(found[i]) < at(found[j])
        /\ \A tx \in Hit :
              tx.ledger \in StartLedger .. ledger - 1 /\ tx.ledger \notin cut =>
                  tx \in Range(found)

\* What a capture measures with the probe is what the analysis of its recording
\* will decode (probe.rs and decode.rs are kept apart on purpose, rpc.rs:3-6).
ProbeAgreesWithDecoder == answer # None => Agree(asked, answer)

\* The tests accept what one capture wrote exactly when it is a failure at a known
\* stage that decodes with none of its events lost; the metadata then tells
\* whether it was fee-bumped, and the probe that it suffices or has no
\* diagnostics.  A failed status whose result is a success, or names a code that
\* outcome.rs does not place, is recorded whole and refused.  They also
\* accept what two captures wrote if their counts agree: a response that one of
\* them replaced before it was stopped.
AcceptedFixturesAreWhole ==
    /\ (/\ pc = "idle"
        /\ Bad \notin {Response, Probed, Claimed}
        /\ Claimed # None
        /\ by["rpc-response"] = by["metadata"]) =>
          (Accepted <=> /\ Response.status = "FAILED"
                        /\ DecodeError(Response) = None
                        /\ KnownStage(Response)
                        /\ Lost(Response) = 0)
    /\ Accepted /\ by["rpc-response"] = by["metadata"] =>
          /\ Claimed.fee_bumped = (Response.result.feeBump # None)
          /\ Probed.verdict = "SufficientForAnalysis" \/ Probed.count = 0

\* "Envelope, result, meta and decodable diagnostic events are all present."
\* (the verdict SufficientForAnalysis, probe.rs:97).
SufficientMeansAllPresent ==
    answer # None /\ Report.verdict = "SufficientForAnalysis" =>
        Usable(answer.envelope) /\ Usable(answer.result) /\ Usable(answer.meta)

=============================================================================
