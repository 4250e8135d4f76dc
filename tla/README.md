# Soroban failure analysis: TLA+ models and proofs

This directory holds the formal models of the Stellar Developer Observatory: a
workspace that takes a failed Stellar transaction, reconstructs what its
contracts did from diagnostic events, and names the causes the evidence
supports. The models are written from the Rust sources. Paths are relative to
the repository; `engine/` abbreviates `crates/soroban-failure-analysis/src/` and
`rpc/` abbreviates `crates/soroban-failure-rpc/`.

To check one run: `tlc -config MCHostFailures.cfg MCHostFailures`. To check the
proofs: `tlapm` on `NatLemmas.tla` and on each module whose name ends in
`_proofs`. `PROJECT.json` lists the runs, the mutants that show each property
can fail, the source lines of every definition, the findings, the hazards and
the theorems.

## 1. The system

| Part | Source | State it keeps | Operations |
|---|---|---|---|
| Diagnostics | `engine/model/events.rs` | the classified events, the call frames, the terminal error | `from_events`, `classify`, `call_tree` |
| Transaction model | `engine/model/mod.rs`, `envelope.rs`, `soroban.rs`, `engine/input.rs` | none | `from_input`, `unwrap`, `SorobanData::from_xdr` |
| Outcome | `engine/model/outcome.rs` | none (a function of the result) | `classify`, `first_failed_operation`, `soroban_stage` |
| Contract errors | `engine/contract/resolve.rs`, `spec.rs` | the reports of one analysis | `resolve_contract_errors`, `identify`, `resolve`, `lookup` |
| Rules | `engine/rules/*.rs`, `engine/rule.rs` | none: each rule reads the model | eight `evaluate` functions and the registry |
| Analysis | `engine/lib.rs`, `engine/diagnosis.rs` | the candidates and reports collected so far | `analyze_with`, `Diagnosis::verdict` |
| Explanation | `crates/sdo/src/main.rs`, `rpc/src/contract.rs`, `client.rs` | the per-call cache of specs | load or fetch, `contracts_needing_specs`, `fetch_specs`, analyse, render |
| Decoding | `rpc/src/decode.rs` | none | `locate_diagnostics`, `decode_events`, `decode_get_transaction` |
| Census | `rpc/examples/survey_failures.rs` | two append-only files, an instance cache | `stratified_ledgers`, `Rpc::call` with retries and fallback, `whole_ledger`, `ledger_mode` with resume |
| Report | `rpc/examples/pilot_report.rs`, `rpc/src/cluster.rs` | the samples chosen | read log, filter, exclude, cluster, `Caps::select` |
| Probe | `tools/rpc-probe/src` | the scan cursor, the files of a fixture | scan, probe, capture |
| Fixtures | `rpc/src/fixture.rs`, `crates/sdo/tests/fixtures.rs` | none: recorded directories | load, the tests that accept a directory |

How they interact. The CLI loads a transaction, from a fixture or by RPC, which
decodes the diagnostic events; the engine builds a `TransactionModel` from it;
the model says which contracts need a spec, and these are fetched as the ledger
is *now*; the engine then evaluates the registry, rule by rule, over the model
and the specs; the candidates are ranked and rendered. The engine is pure:
nothing in it waits or fails. The census is a long-running client that writes a
ledger log and a record log, may be interrupted anywhere and is resumed from
what the two files say; the report reads what the census wrote. The probe scans
an endpoint for failures and captures some into fixture directories; it reads
the same answers as the decoder, with code of its own, and the tests compare
the two readings before a directory is accepted.

What is hard about each part, and what makes it correct:

* **Call tree.** One loop rebuilds a stack machine from a stream that says too
  little: a `fn_return` does not name its call, a caught failure is only visible
  as a later event of the caller, decoding may have dropped events. Correct: the
  frames are a tree in call order, each call listed once; a frame that ended
  never changes; no frame is blamed for an error it did not raise; and when the
  stream was complete, every outcome is the fate of the call.
* **Contract errors.** A failing contract's code is emitted again by every frame
  it crosses, may be raised by several contracts, and is named from a spec
  fetched after the fact. Correct: a code is attributed to a contract that
  raised it; a name marked as verified is one the code that ran gives it.
* **Rules and analysis.** Eight independent rules, each with its own idea of
  which event matters, of "ended the invocation" (a comparison of error
  *values*) and of which texts to trust. Correct: at most one cause is
  confirmed, and it is the failure that ended the invocation; absent or reworded
  diagnostics never add a conclusion; the causes are exactly the matches, ranked
  stably; the verdict and the printed limitations tell the same story.
* **Explanation.** Requests one by one to a ledger that moves on between them,
  any of which may fail, with a cache that keeps failures too. Correct: who is
  looked up is who is reported; nothing is asked twice; a name comes from the
  code the contract's own instance named; the run ends.
* **Census.** Two files, one buffered and one not, no transaction between them,
  stops at any point, resumption by reading them back; a primary provider and a
  fallback that need not have ingested the same ledgers. Correct: the sampled
  ledgers lie one in each stratum; a ledger enters the population whole and
  once.
* **Report.** An answer cache during collection, emptied by every resumption, an
  eligibility funnel whose checks must imply what the selection takes for
  granted, caps carried over two rounds. Correct: one sample per code, three per
  payer, nothing left out that there was room for, artefacts of the run told
  from facts about the ledger.
* **Probe and fixtures.** Two readers of one answer that share no code and must
  find the same events; a scan whose next page starts after the last ledger
  seen, although a page may end within a ledger; a capture that writes three
  files one after the other over those of an earlier one. Correct: a scan misses
  nothing but what a page cut off; what the probe says of an answer is what the
  decoder makes of it; the tests accept a directory exactly when its recording
  is whole and of a failure whose stage is known.

## 2. The models

| Module | Models | Depends on |
|---|---|---|
| `DiagEvents` | the classified events `call_tree` reads | |
| `CallTree` | `call_tree`, one action per match arm, then `Finish` | `DiagEvents` |
| `HostCalls` | a host that makes, returns from, fails and catches calls, with loss of events, composed with `CallTree` | `CallTree`, which it implements |
| `Outcome` | results, stages, the first failed operation, as operators | |
| `ContractErrors` | error events, identification, resolution, spec lookup, as operators | `Outcome`, `Places` |
| `Rules` | the eight rules as operators from a model to an outcome | `ContractErrors` |
| `Diagnosis` | abstract: what `analyze_with` promises of a diagnosis, whatever the rules | |
| `Analysis` | `analyze_with`: begin, one rule per step, sort, conclude; the verdict | `Rules`; refines `Diagnosis` |
| `HostFailures` | a host that raises, re-emits and catches failures and knows their origin, composed with `Analysis` | `Analysis` |
| `Explain` | one run of `sdo explain`, request by request, over a changing ledger | `ContractErrors` |
| `Strata` | the choice of ledgers and pages, as operators | |
| `Population` | abstract: what a census promises | |
| `Census` | `ledger_mode`: its providers, files, buffer, stops and resumption | `Strata`; refines `Population` |
| `Sampling` | the census's records, the instance cache, eligibility, caps and rounds | |
| `Response` | an answer to `getTransaction` and its two readers, as operators | `Outcome`, `Places` |
| `Probe` | `sdo-probe`: scan, capture, and the tests that accept a fixture | `Response` |
| `Places` | the elements of a sequence at a set of its places, in order: `filter` over a vector | |
| `HostCalls_proofs`, `ContractErrors_proofs`, `HostFailures_proofs`, `Explain_proofs`, `Census_proofs`, `Sampling_proofs`, `Probe_proofs` | the theorems of section 4 and their lemmas; those of `CallTree` are in `HostCalls_proofs` | the module they are named for |
| `NatLemmas` | lemmas about naturals, sets of places and sequences that several proofs need | `Places` |

### CallTree and HostCalls

`frames` and `stack` are the two local vectors of `call_tree`; an entry of
`stack` is the `Open` struct: a frame's index and the last error its contract
raised. `events` is what was read, so a frame or an error can be traced to the
event it cites, and `terminal` is the `terminal_error` that `from_events` finds
before the loop: here it is recorded as the first `host_fn_failed` is read,
because only `Finish` uses it. `ConsumeFnCall`, `ConsumeFnReturn`,
`ConsumeEmitted` and `ConsumeIgnored` are the arms; `KeptBy` and `EndAbove` are
`unwind_to`. `WellFormed` bounds the inputs by what `classify` can produce.
Function names and messages are dropped: nothing in the loop looks at them.

`HostCalls` adds the host: it keeps every call with its fate and the last error
it raised, and each event it emits is consumed or dropped, as `decode_events`
drops what it does not decode. Between them come the events that say nothing of
a call (`HostNote`): logs of the running contract, and events and errors of
contracts that are not running. `lost` and `silent` record whether anything was
dropped or a failure was caught without a word, because what the reconstruction
owes the host depends on it. The host is external; what is assumed of it comes
from the header of `events.rs` and its tests: errors are emitted by the running
contract, a contract is not called while it runs, a caller that catches and
speaks emits an error first.

### Outcome, ContractErrors, Rules, Analysis and HostFailures

A model of a transaction is a record with the outcome, the Soroban data (auth
entries, declared keys, loaded WASM), the error events and the terminal error.
An error event keeps its contract, its error, its index, the *marker* of its
message (which of the host messages the code looks for it is: `origin`,
`expired`, `nonce`, `unauthorized`, `footprint`, `unreachable`, or `other`) and
the data some rules read. `Evaluate(rule, m, reports)` is the rule's `evaluate`
with all its gates and early returns; evidence and prose are dropped. `Analysis`
runs the registry one rule per step as the loop of `analyze_with` does, sorts,
and concludes. The limitations are tags, so that they can be compared with the
verdict, which the code derives separately.

`Diagnosis` is the promise made to a caller of `analyze_with`, whatever its
rules are: one answer, given in one step and never revised, with one cause for
each rule that matched, ranked stably, and the verdict that follows from them.
`Promised` in `Analysis` maps a diagnosis to `None` until all steps are done,
and `DiagnosisIsAsPromised` checks the refinement.

`HostFailures` keeps the truth a diagnosis should find: `origin[i]`, the event
where the failure that event `i` reports was first raised, and `failing`, the
failure on its way up. A contract raises a cause of the transaction's family,
callers re-emit it and fail in turn or catch it, and it reaches the host
function or the transaction succeeds or is refused with any result. Then a spec
is fetched for each contract, of the code that ran, of code it was upgraded to,
or none; the node may not emit diagnostics at all. Only events that carry an
error are modelled, so an index is a place among them. Assumed of the host:
which message goes with which error, that a contract-defined error is emitted
with the origin marker where it is raised, that an expired signature is never
worded as the `Error(Auth, InvalidAction)` of a missing authorization, and that
it is reported only when its expiry is past (so the rule's comparison with the
current ledger always succeeds and is left out). A source account is the address
its envelope spells; a muxed one, which `envelope.rs:102` spells as such, equals
the address of no event, and no property depends on the difference. `Reworded` is the model of the
same transaction under a host release that rewords one message, and
`LossDegrades` evaluates the rules again with any one event taken away. The evidence of
`contract_error.rs:197-239`, a count over the call tree, is prose and left out.

### Explain

`source` is where specs are looked up: the RPC provider, a directory of
recordings, or nowhere. `pc` follows `run`: fetch and decode, then for each
contract needed its instance, and for each WASM not seen in this run its code.
`byHash` and `supplied` are the two maps of `fetch_specs`. `deployed` is the
ledger, which `Change` upgrades or archives between requests. A request is
answered with what the ledger says now, or fails. `answered` and `asked` are
history. Decoding is modelled by what it does to the events: any of them may be
left out, those that remain are renumbered (`Decoded`).

### Strata, Census and Population

`Stratified` is `stratified_ledgers` with the generator's numbers taken modulo
the width of a stratum as arbitrary offsets: `sampled` is any set it can return.

A file is a sequence of complete lines and the remainder after the last
newline. `jsonl` is written through a buffer that reaches the file when it
fills, at any point of a record (`Spill`), or at the flush after each ledger;
`log` is written unbuffered, one line after the flush. `Stop` kills the run
between any two steps and may leave a cut line: nothing of it, a part that does
not parse, or all of it but the newline; the next line is written on the same
line (`Put`). `Start` needs a provider that has the window, reads the log,
decides between appending and truncating and continues with the ledgers that
remain, as `ledger_mode` does. `read` holds the places of the transactions of
the ledger that were read and not yet turned into records.

`tip` is the last ledger each of the two providers has ingested; `Ingest` lets
one that is behind catch up. `ReadPage` is one iteration of `whole_ledger`,
answered by the primary, or by the fallback after four failed calls of the
primary: a provider refuses to start at a ledger it does not have, but answers
a cursor past its tip with an empty page. `short` is the history of ledgers
that ended this way. A call that also fails on the fallback gives the ledger up
(`CallFails`). `Published` is the population a report reads: the records of
ledgers logged as read.

`Population` says what that amounts to: ledgers enter one at a time, each with
all its failed transactions. `PopulationIsWhole` checks that `Census` implements
it, with `settled` the ledgers logged as read and `published` the records that
parse, as long as no stop cut a line in two and no ledger was logged that a
lagging provider ended; afterwards `Population` promises nothing and
`EachTearLosesAtMostOne` bounds the damage.

### Sampling

A transaction is an envelope, its ledger, the number of its diagnostic events,
and whether it failed and decodes. `Unwrap`, `RootContract`,
`SubmitterCluster`, `CodeCluster` and `PilotRecord` are the functions of those
names; `FailedSoroban` is the filter, and a transaction it rejects is skipped.
The instance of a root contract is looked up through the cache of the run
(`Instance`), while `Change` upgrades or archives contracts and the provider
fails; `Restart` resumes the census with an empty cache, and `restarts` records
where. The report then walks the eligible records of each round in any order —
the code's order is pseudorandom per trial — after `Exclusion`, the funnel of
`pilot_report.rs`, and `Walk` is the body of `Caps::select`.

### Response and Probe

An answer keeps its fields: each is absent (`None`), does not decode (`Bad`) or
has what the two readers look at. `LocateDiagnostics` and `DecodeError` are
`decode.rs`; `LocateDiagnosticEvents`, `FailureSignal`, `ProbeVerdict` and
`ProbeTransaction` are `probe.rs` and `result_codes.rs`. `Agree` says what must
hold of every answer for the two to tell the same story.

`Probe` is a session with the tool: `ScanPage` reads a page of ledgers up to
whatever the endpoint has ingested and moves on as `scan.rs` does, `ScanEnds`
and `ScanFails` are its two ways out, and `cut` records the ledgers a page ended
within. A capture asks (`Ask`, `AskFails`) and then creates (`Open`) and
completes (`Fill`) the response, the probe's report and the metadata in turn;
`Stop` may interrupt it anywhere and leaves the open file unreadable. `by`
records which capture wrote each file. `Accepted` is what the tests in
`crates/sdo/tests/fixtures.rs` demand of a directory: the three files, a
recording that decodes as a failure, an analysis that places it at a known stage
(`KnownStage`, the assertion at line 88), and files that agree with each other
and with a fresh decode. That an undetermined diagnosis has limitations, which
the same test asks, is `LimitationsMatchTheVerdict` of every analysis; that a
cause has evidence is left out with the evidence. Nor does `Accepted` ask for the
`README.md`, which is written by hand, or look for secrets. The scan's guard
against a page that does not advance (`scan.rs:101`) is in `ScanPage` but never
taken: no ledger of the chain is the largest `u32`, and no page starts before
the ledger asked for.

## 3. The runs

Twelve runs; six must pass and six exhibit a disagreement between the code
and what its documents say (section 5).

| Run | States | Shows |
|---|---|---|
| `host_calls` | 1.7 M | over every run of a host of up to 6 events (one log or contract event among those that arrive), three contracts and two errors: the frames are a preorder (`Preorder`), they are the `fn_call`s that arrived (`FramesAreTheCalls`), failed frames cite an error their contract raised after the call or the terminal one (`ErrorsAreAttributed`), ended frames never change (`EndedFramesAreFinal`); calls and depths are mirrored while none was lost, even when catches are silent (`CallsAreMirrored`); while nothing is lost or silent, the stack is the live calls (`StackIsLive`) and every outcome is true (`OutcomesAreTrue`) |
| `failures` | 1.8 M | every family of causes raised, caught and re-emitted over up to three contracts and four error events: see below |
| `census` | 319 k | a census of two sampled ledgers of a window of five, two providers, pages of two, up to three starts: `PopulationIsWhole` (refinement), `EachTearLosesAtMostOne`, `NeverReadTwice` (action property), `CensusEnds` (liveness) |
| `sampling` | 1.2 M | three populations, two upgrades, two outages, one resumption: `EligibleIsClustered`, `OutagesAreArtefacts`, `OneAnswerPerContract`, `CapsHold`, `NothingLeftOut` |
| `explain` | 224 k | three transactions, three deployments, two upgrades, any request failing: `AskedForWhatIsReported`, `AskedOnce`, `NamesComeFromTheContract`, `OneCodeOneSpec`, `ExplainEnds` (liveness) |
| `probe` | 2.4 M | a scan of up to two pages and two captures of what it found: the scan misses only what a page cut off (`ScanMissesOnlyCuts`), probe and decoder agree (`ProbeAgreesWithDecoder`), and the tests accept what one capture wrote exactly when it is a whole failure at a known stage (`AcceptedFixturesAreWhole`) |

Each also checks the type invariant of its module.

`failures` checks, of every analysis, that

* it implements the abstract `Diagnosis` (`DiagnosisIsAsPromised`): one cause
  for each match, ranked by confidence and in registry order among equals, given
  once; and the limitations say what the verdict says
  (`LimitationsMatchTheVerdict`);
* at most one cause is confirmed (`AtMostOneConfirmed`), and a confirmed one
  blames the failure that ended the invocation, except that it may be an earlier
  caught failure of the same value (`ConfirmedIsTheCulprit`);
* contract errors are attributed to a contract that raised them, the terminal
  one to the contract that failed, and a cause's event is one of the contract it
  names (`ErrorsComeFromTheirOrigin`);
* verified names are those of the code that ran (`VerifiedNamesDescribeTheCode`),
  as long as a contract is only upgraded to code the transaction did not load;
* without diagnostics no rule that reads them matches and a trap stays
  inconclusive (`AbsenceConcludesNothing`); rewording any one host message never
  makes a rule match that did not, nor confirm a wrong cause
  (`RewordingDegrades`); nor does losing any one event, except that a caught
  failure whose event is lost may look like the one that was not
  (`LossDegrades`);
* a cause confirmed by a result code is confirmed exactly when the first failed
  operation returned it, fee bump or not (`CodesConfirmTheirCause`).

`MCHostFailures` is not symmetric in the contracts as declared (the choices of
code name them); it enumerates the codes of three contracts up to permutation
instead. `MCHostCalls` uses symmetry over contracts and errors, which no
definition of its tells apart; it checks no liveness.

**Bounds and why they suffice.** `MaxEvents` 6: a call, a nested call, an error,
its re-emission, another call and an end fit in six. `MaxNotes` 1: a log or
contract event carries nothing, it only unwinds to its contract, and a second one
that arrives among six events unwinds what a first one does; errors of contracts
that are not running are not counted by it. The theorems of section 4 hold for
every value of both bounds. `MaxErrors` 4: a failure raised, caught, and another raised
and propagated; the rules look at the first recognised event, at the terminal
value and at a code's first event that is not the terminal one, which two
failures tell apart. Two codes, two keys, three addresses (the source's own, one
with an entry, one without). Census: the window 1..5 has the strata {1, 2} and
{3, 4} and a ledger left over; one ledger spans two pages of two, one is
followed by an empty page; both providers have the window, or the fallback ends
at ledger 2; three starts so that damage can be compounded. Sampling: four
contracts so that a payer exceeds `SubmitterCap` 3, which is the code's own
value. `MaxChanges` and `MaxOutages` 2: a change or failure between any two of
the lookups a property relates; one restart between them. Probe: pages of four
against a ledger of five transactions; three hits wanted of at most two pages,
so that a scan stops in the middle of a page that has a fourth, at its last page
without the third, or at an empty one; answers that differ in at most two fields
from a complete one (so every pair of fields takes every pair of values, failed
statuses with the result of a success or of an unknown stage among them), and
two captures, so that one can interrupt the other's
directory.

**Fairness.** `Census` and `Explain` assume `WF_vars(Work)`: each is a single
thread whose steps are file writes and requests, and a request ends, answered or
not, by its timeout and after a bounded number of retries (`client.rs`,
`Rpc::call`). Neither assumes that a request succeeds, and `Census` does not
assume that a provider catches up. Stops of the census are bounded by `MaxRuns`;
`CensusEnds` says it ends once it is no longer stopped. All other specifications
are safety only; they stop when the analysis is done, so their configurations
do not check deadlock, nor do those of programs that end.

## 4. What is proved

Every safety property that the passing runs check, the type invariants
included, is proved for every value of the constants. What is assumed of these
is the named `ASSUME` of each module, which TLC evaluates on the runs.

### CallTree

For any sets of contracts and errors and for streams of any length. The only
assumption is `NoneIsNothing` of `DiagEvents`: the value that stands for "no
contract" is neither a contract nor an error.

* `TypeCorrect`: `Spec => []TypeOK`. In particular an open frame is always the
  index of a frame, so no `frames[o.frame]` of the code is out of bounds.
* `TreeIsATree`: `Spec => [](OpenChain /\ Preorder)`. `Preorder` is not
  inductive: that a new frame is at most one level below the frame listed before
  it needs a bound on how deep the stack can be, which is `Ceiling`: the stack
  is never deeper than one below the last listed frame. `TreeInv` is `TypeOK`,
  `OpenChain`, `Preorder` and `Ceiling`.
* `EndedIsFinal`: `Spec => EndedFramesAreFinal`, from `TypeOK` and what each arm
  does to the frames index by index.
* `FramesHold`: `Spec => []FramesAreTheCalls`: the frames are the `fn_call`s of
  the stream, each once and in order.
* `ErrorsHold`: `Spec => []ErrorsAreAttributed`. Made inductive by
  `PendingErrors` (an open frame carries only an error of its own contract),
  `TerminalIsCited` and `FailedFrames`.

The argument is the same throughout: `KeptByFacts` and `EndAboveFacts` say where
`unwind_to` stops and what it leaves alone; `FnCallFacts`, `FnReturnFacts`,
`EmittedFacts` and `FinishFacts` restate each arm index by index; the theorems
use only those. `NatLemmas` provides least and greatest elements of sets of
naturals, from the library's well-foundedness theorem, and what `Places` picks
from a sequence: the elements at those places, each once and in order.

### HostCalls

* `HostedTypeCorrect`: `HostedSpec => []HostTypeOK`. Its part `RunningInOrder`
  says that the calls without a fate are those on the live stack, in the order
  they were made; `InOrderKept` and `InOrderCalled` show that every action of the
  host keeps it, from which calls each decides (`Decided`).
* `HostedTreeIsATree`: `HostedSpec => Spec`. A host's step is a step of
  `CallTree` or leaves it alone, so `HostedTreeHolds` carries the theorems above
  over to the composition.
* `CallsMirrored`: `HostedSpec => []CallsAreMirrored`, from `MirrorInv`: besides
  the frames being the calls (`FramesMirror`), the running calls are the
  outermost open frames and no contract has two (`Aligned`). Above them there
  may be frames of calls that failed silently; `Aligned` is why the emitter of
  the next event is enough to unwind them.
* `StackLives` and `OutcomesTold`, from `TruthInv`: while everything was heard,
  nothing is open above the running calls, each open frame carries the last
  error of its call (`Pending`), and each frame that is not open tells the fate
  of its call (`ClosedAreTold`).

### HostFailures and Analysis

For any registry of the eight rules in any order, any transactions, results,
addresses, keys and specs, and failures of any length. `IInv` is the conjunction
of

* `HostInv`: every event is `Traced` to the event where its failure was raised,
  with the same error, and a failure being propagated is the latest
  (`FailingIsLatest`);
* `ModelInv`: once submitted, the model is the one `from_input` makes of a host
  in that state;
* `ReportsInv`: the reports are the evaluations of the rules so far;
* `CandidatesInv`: one candidate for each match, in registry order until they
  are sorted and by strength afterwards;
* `LimitationsInv`: the limitations are those of the finished reports.

The properties follow from `IInv` and from lemmas on what each rule says of a
model. `AtMostOneConfirmed` (`OneCauseIsConfirmed`) is by cases: the rules that
read a result code need different codes, the diagnostic ones need a trap and
different terminal errors (`OneRuleConfirms`). It rests on the part of
`HostAssumption` that keeps `signature has expired` apart from a missing
authorization. `ConfirmedIsTheCulprit` is proved for any model that shows part
of the host's trace, so `RewordingOnlyDegrades` and `LossOnlyDegrades` reuse it
for the reworded and the shortened model. `VerifiedNamesAreTrue` needs
`UpgradesAreNew`: no contract is upgraded to code the transaction itself ran;
the run `failures_upgraded` shows why. `DiagnosisImplements` is the refinement:
every step but the last leaves the mapped diagnosis `None`, and the last is
`Diagnose`, because `Ranked` is shown to be a stable ranking of what it is given
(`RankedFacts`).

### Strata, Census and Population

* `ChosenInWindow` and `OnePerStratum`: for every window, count and offsets, the
  ledgers chosen lie in the window, and one in each stratum if there are as many
  ledgers as are asked for; what the division leaves over, and the window's end,
  are never chosen. `PagesStartInWindow` does the same for page mode.
* `CensusTypeCorrect`: `TypeOK` is not inductive: what the buffer holds and what
  a run may still log depend on where the run is (`PhaseInv`) and on the order
  in which it takes the ledgers (`OrderInv`). `TypeInv` is the three of them.
* `ReadOnce`: `Spec => NeverReadTwice`, from `TypeInv`.
* `TearsBoundTheLoss`: `Spec => []EachTearLosesAtMostOne`. That the records
  missing are at most as many as the cut lines of the JSONL is not inductive: a
  line just cut has cost nothing yet. `TearInv` therefore counts it: the missing
  records and the cut line at the end of the file together are at most
  `tears.jsonl`. `CutInv` says whose record such a line is, and `PagesInv` that
  the pages so far were read whole.
* `CensusIsWhole`: `Spec => PopulationIsWhole`. While nothing was torn the
  invariant says that nothing is missing, and `LogInv` that the log ends with a
  whole line, so that a step that logs a ledger is the abstract step that settles
  it, with all of its failed transactions published; every other step changes
  neither.

`CensusAssumption` bounds the constants, orders the chain by ledger and tells
`Garbage` from a line.

### Sampling

For any populations of transactions, deployments, caps and split, any changes of
the ledger and outages of the provider, any restarts, and any order in which the
records are walked:

* `CapsAlwaysHold`: `Spec => []CapsHold`. The caps are stated over what was
  accepted, while `Caps` only keeps the codes seen and a counter per submitter,
  so the invariant says that these are exact: `CountersInv` (the codes are those
  of the accepted records, each accepted once, and each counter is the number
  of accepted records of that submitter), which in turn needs `RoundsInv` (a
  record still to be walked was not accepted in this round or the one before,
  because the rounds share no ledger) and `RecordsInv` (records only grow, and
  not once the report runs).
* `NothingIsLeftOut`: `Spec => []NothingLeftOut`, from `SettledInv`: whatever
  is no longer to be walked is accepted or has no room, and what is settled
  stays so because nothing accepted is taken back.
* `OneIdentityPerRun`: `Spec => []OneAnswerPerContract`, from `IdentityInv`: the
  answered lookups of the current run are what the cache holds.
* `OutagesAreNotRemembered` and `EligibleHasCluster`, from what a record says of
  its lookup: `RecordCode` shows that it has a code, a reason why not, or no
  root contract, and `EligibleFacts` that an eligible one has neither of the
  last two.
* `TypeCorrect`: `Spec => []TypeOK`. Most of it follows from the invariants
  above. `AcceptedInv` adds what they do not say: a record that was accepted is
  still eligible, and the counters are those of accounts that submitted
  something, so that `CountersInv` bounds each of them.

They rest on `SamplingAssumption` (the bounds, the split and ledger numbers are
naturals and each population is a sequence of transactions) and on
`LookupAssumption` (the answers of a lookup can be told apart).

### Explain

`RunInv` is `StepInv` (types and what each `pc` knows), `MapsInv` (what is
supplied for a contract is what was found for the code it was found to have),
`WantedInv` (looked up or still to be: exactly the contracts a report will
identify) and `AskedInv` (asked once: exactly what has an answer). From it
follow `ExplainTypeCorrect`, `NobodyIsAskedTwice`, `SharedCodeSharesItsSpec`,
`WhoIsReportedWasAsked` and `NamesAreTheContracts`. `WantedInv` is why the
contracts worked out before the specs are known are the ones reported after:
`ContractErrors_proofs` shows that both are the identified contracts of the same
events, whatever specs are supplied. They rest on `ExplainAssumption` and
`LookupAssumption`.

### Response and Probe

For any chain, page size, page limit and number wanted, an endpoint that has
ingested any part of the chain at each page, and answers with any number of
events, decodable or not:

* `ScanFindsTheRest`: `Spec => []ScanMissesOnlyCuts`. The property compares two
  sequences. The invariant says instead, place by place in the chain, what was
  found (`ScanInv`): all of it lies before the next page (`FoundArePast`), in the
  order of the chain and so without repetition (`FoundAscend`), and each hit
  before the next page was found or is of a cut ledger (`NothingElseMissed`).
  `PageFacts` says which places of the chain a page holds, `SeenFacts` and
  `PageIsRead` which of them a scan that breaks off has looked at; what it did
  not look at is of a later ledger or of one recorded as cut.
* `ProbeAgrees`: `Spec => []ProbeAgreesWithDecoder`, from `ReadersAgree`, which
  is about one answer and no state. It counts the events of either reader as
  sets of positions (`EventsAreCounted`), shows that the two look at the same
  list (`SameEvents`), and that the probe signals a contract failure for every
  result the decoder places in contract execution (`TrapsAreSignalled`).
* `AcceptedIsWhole`: `Spec => []AcceptedFixturesAreWhole`, from `DirInv`: which
  capture wrote each file, and that the one that is open is `Bad`
  (`CaptureInv`); and that files of one capture that can be read were made from
  one answer, wherever captures were stopped (`FixtureInv`). For that answer
  every check of `Accepted` but four holds by then, and the four are that it
  failed, decodes, is at a known stage and lost no event (`AcceptedFacts`).
* `TypeCorrect`: `Spec => []TypeOK`, from `ScanInv` and `DirInv`.

They rest on `ProbeAssumption` (the bounds are naturals, the chain is in ledger
order and no two transactions have a hash in common) and on `AnswerAssumption`:
the values that stand for an absent or an undecodable field are told apart from
real ones, a meta decodes as a whole, and an operation's result code is one its
type can have. The last is the XDR of operation results: only
`InvokeHostFunctionResultCode` has `Trapped` and `EntryArchived`, and without it
the two readers would disagree on results the network cannot produce.

The guards of `OperationStage` in `Outcome` are disjoint: a wrapper code says
nothing of the operation's type (`first_failed_operation` of
`engine/model/outcome.rs`), so it is excluded where the type decides the stage.
Were they to overlap, `CASE` might take either, TLC would take the first, and
`TrapsAreSignalled` could not be proved.

### Only model-checked

Liveness under fairness (`CensusEnds`, `ExplainEnds`) and `ENABLED` are out of
the prover's reach, and so is what a recursion over data computes for every
input: `RECURSIVE` operators are avoided throughout. The properties of the runs
that expect a violation do not hold and have no theorem.

## 5. Findings

* `failures_equal`: a missing authorization that was caught is `Confirmed` when
  another error of the same value ended the invocation: "ended the invocation"
  is a comparison of values.
* `failures_masked`: `InvalidAuthorizationEntry` judges the first recognised
  error only, so an expired signature that did end the invocation is not
  `Confirmed` when an earlier one was caught.
* `failures_upgraded`: a contract upgraded, after the failure, to WASM that
  another contract of the transaction ran passes the footprint check, and its
  names are marked as verified.
* `census_lost`: a run stopped inside a JSONL line is resumed on the same line,
  so the first record of the resumed run is lost, its ledger is logged as read,
  and the report panics on the line.
* `census_lagging`: `whole_ledger` takes an empty page as the end of a ledger.
  When the primary fails between two pages of it, a fallback that is behind
  answers with an empty page, and the ledger is logged as read without its other
  transactions.
* `probe_sufficient`: the verdict `SufficientForAnalysis`, documented as
  "Envelope, result, meta and decodable diagnostic events are all present", does
  not look at the meta: it may be absent, or refused by the decoder.

Met while modelling and not worth a run of their own:

* After decoding dropped a `fn_return`, the next one pops another frame
  (`engine/model/events.rs:450`), so a frame is `Returned` although no
  `fn_return` of it was seen, which is what the documentation of
  `CallOutcome::Returned` says (`events.rs:105`). `OutcomesAreTrue` is stated
  for streams that are whole.
* A failure no rule covers is `InsufficientEvidence`, not `Unsupported` as
  `docs/architecture/README.md:242` says: two rules report missing evidence for
  any trap.
* With events lost, a contract error may be attributed to a caller that only
  emitted it again: `ErrorsComeFromTheirOrigin` is of complete diagnostics, and
  `LossDegrades` promises only that a lost event confirms nothing wrong.
* `rpc/src/decode.rs:77` says of dropped events that the count difference is
  visible to callers; no field of the result tells of it (`Lost` in `Response`).
  The probe's note "No diagnostic events returned" is likewise wrong when events
  were returned and none could be decoded.
* A rewording can move a confirmation to a caught failure of the same value, the
  exception `CaughtBefore` of `RewordingDegrades`.

## 6. What is not modelled, and what is left

Not modelled: rendering and JSON output (layout of a finished diagnosis), the
byte readers `engine/contract/wasm.rs` and `rpc/src/xdr.rs` (properties about
bytes, better tested), page mode's counting and the printed buckets of the
census, the statistics of the report, `FixtureContractSource`, the HTTP client
and the notes of the probe, and the scripts `capture_contract` and
`verify_protocol_assumptions`, which run once and print what they saw. Of the
transaction model, fees, observed resources and notes are left out: no rule
compares them.

Some hazards have no property, and why:

* The width of the strata (`survey_failures.rs:187`) is a matter of arithmetic
  over all windows: it is proved, and TLC sees one window.
* Without `--window` the window comes from `getHealth` (line 338): it may be
  reversed on an endpoint that retains little, and differs between a run and its
  resumption. The census is modelled as the protocol runs it, with a window
  given.
* An error of a page discards what a scan had found (`scan.rs:45`). `ScanFails`
  models it; nothing promises partial results.

Two simplifications of what is modelled: every response to `getTransactions` has
a list of transactions (the census reads one without as an empty page,
`survey_failures.rs:216`, the scan likewise), and `Restart` in `Sampling` resumes
after the last record, where a run stopped between the records of a ledger and
its log line records the ledger again; `Census` models that.

What is left: the composition of `Sampling`'s records with the files of
`Census`, so that a record lost to a cut line is also missing from the sample;
and page mode, whose buckets are counters over the same pages.
