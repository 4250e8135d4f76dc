---------------------------- MODULE Probe_proofs ----------------------------
(***************************************************************************)
(* What the probe promises for every chain, every set of answers and any   *)
(* bounds: the scan misses nothing but the ledgers its pages end within,   *)
(* the probe and the decoder agree, and the tests that guard the fixtures  *)
(* accept what one capture wrote exactly when it is whole.                 *)
(***************************************************************************)
EXTENDS Probe, NatLemmas, SequenceTheorems

-----------------------------------------------------------------------------
(***************************************************************************)
(* What the two readers of an answer say of it.                            *)
(***************************************************************************)

\* An answer that the endpoint may give.
LEMMA AnswerFacts ==
    ASSUME NEW a \in Answers
    PROVE  /\ a # None /\ ProbeTransaction(a.hash, a) # None
           /\ Metadata(ProbeTransaction(a.hash, a)) # None
           /\ \A raw \in {Strings(a.top), Strings(a.nested), Embedded(a.meta)} :
                 Len(raw) \in Nat /\ DOMAIN raw = 1 .. Len(raw)
           /\ \A i \in DOMAIN Embedded(a.meta) : Embedded(a.meta)[i] # Bad
<1>1. \A raw \in {Strings(a.top), Strings(a.nested), Embedded(a.meta)} :
         raw \in Seq(Range(raw))
  BY AnswerAssumption
<1>2. \A raw \in {Strings(a.top), Strings(a.nested), Embedded(a.meta)} :
         Len(raw) \in Nat /\ DOMAIN raw = 1 .. Len(raw)
  BY <1>1
<1>3. None \notin {a, ProbeTransaction(a.hash, a), Metadata(ProbeTransaction(a.hash, a))}
  BY AnswerAssumption
<1>4. Bad \notin Range(Embedded(a.meta))
  BY AnswerAssumption
<1>5. \A i \in DOMAIN Embedded(a.meta) : Embedded(a.meta)[i] # Bad
  BY <1>4 DEF Range
<1> QED
  BY <1>2, <1>3, <1>5

\* What a list of events decodes to and what it does not are all it has.
LEMMA EventsAreCounted ==
    ASSUME NEW raw, Len(raw) \in Nat, DOMAIN raw = 1 .. Len(raw)
    PROVE  LET undecoded == Cardinality({i \in DOMAIN raw : raw[i] = Bad})
           IN /\ undecoded \in 0 .. Len(raw)
              /\ Len(DecodeEvents(raw)) = Len(raw) - undecoded
              /\ DecodeEvents(raw) # << >> <=> undecoded # Len(raw)
<1> DEFINE n == Len(raw)
           S == {i \in DOMAIN raw : raw[i] = Bad}
           T == {i \in DOMAIN raw : raw[i] # Bad}
<1>1. n \in Nat /\ S \in SUBSET (1 .. n) /\ T \in SUBSET (1 .. n)
  OBVIOUS
<1>2. S \cap T = {} /\ S \cup T = 1 .. n
  OBVIOUS
<1>3. DecodeEvents(raw) = Only(raw, T)
  BY DEF DecodeEvents
<1> HIDE DEF n, S, T
<1>4. Len(Only(raw, T)) = Cardinality(T)
  <2>1. n \in Nat
    BY <1>1
  <2>2. T \in SUBSET (1 .. n)
    BY <1>1
  <2> QED
    BY <2>1, <2>2, OnlyLength
<1>5. IsFiniteSet(S) /\ IsFiniteSet(T) /\ Cardinality(S) \in Nat /\ Cardinality(T) \in Nat
  BY <1>1, PlacesAreFinite
<1>6. Cardinality(S) + Cardinality(T) = n
  <2>1. Cardinality(1 .. n) = n
    BY <1>1, FS_Interval
  <2>2. Cardinality(S \cup T) = Cardinality(S) + Cardinality(T) - Cardinality(S \cap T)
    BY <1>5, FS_Union
  <2>3. Cardinality(S \cap T) = 0
    BY <1>2, FS_EmptySet
  <2>4. Cardinality(S) + Cardinality(T) - 0 = n
    BY <1>2, <2>1, <2>2, <2>3
  <2> QED
    BY <1>5, <2>4
<1>7. Only(raw, T) # << >> <=> Cardinality(T) # 0
  BY <1>1, <1>4, <1>5, OnlyLength
<1>8. /\ Cardinality(S) \in 0 .. n
      /\ Len(DecodeEvents(raw)) = n - Cardinality(S)
      /\ DecodeEvents(raw) # << >> <=> Cardinality(S) # n
  BY <1>1, <1>3, <1>4, <1>5, <1>6, <1>7
<1> QED
  BY <1>8 DEF n, S

\* Both readers look for the events in the same places and in the same order.
LEMMA SameEvents ==
    ASSUME NEW a \in Answers
    PROVE  LET raw       == LocateDiagnosticEvents(a).raw
               undecoded == Cardinality({i \in DOMAIN raw : raw[i] = Bad})
           IN /\ LocateDiagnosticEvents(a).location = LocateDiagnostics(a).source
              /\ Len(raw) \in Nat /\ undecoded \in 0 .. Len(raw)
              /\ Len(LocateDiagnostics(a).events) = Len(raw) - undecoded
              /\ LocateDiagnostics(a).events # << >> <=> undecoded # Len(raw)
<1> DEFINE located   == LocateDiagnosticEvents(a)
           undecoded == Cardinality({i \in DOMAIN located.raw : located.raw[i] = Bad})
           events    == LocateDiagnostics(a).events
           Goal      == /\ located.location = LocateDiagnostics(a).source
                        /\ Len(located.raw) \in Nat /\ undecoded \in 0 .. Len(located.raw)
                        /\ Len(events) = Len(located.raw) - undecoded
                        /\ events # << >> <=> undecoded # Len(located.raw)
<1>1. \A raw \in {Strings(a.top), Strings(a.nested), Embedded(a.meta)} :
         Len(raw) \in Nat /\ DOMAIN raw = 1 .. Len(raw)
  BY AnswerFacts
<1>2. CASE Strings(a.top) # << >>
  <2>1. Strings(a.top) = a.top
    BY <1>2 DEF Strings
  <2>2. /\ located.raw = a.top /\ events = DecodeEvents(a.top)
        /\ located.location = LocateDiagnostics(a).source
    BY <1>2 DEF LocateDiagnosticEvents, LocateDiagnostics
  <2> QED
    BY <1>1, <2>1, <2>2, EventsAreCounted
<1>3. CASE Strings(a.top) = << >> /\ Strings(a.nested) # << >>
  <2>1. Strings(a.nested) = a.nested
    BY <1>3 DEF Strings
  <2>2. /\ located.raw = a.nested /\ events = DecodeEvents(a.nested)
        /\ located.location = LocateDiagnostics(a).source
    BY <1>3 DEF LocateDiagnosticEvents, LocateDiagnostics
  <2> QED
    BY <1>1, <2>1, <2>2, EventsAreCounted
<1>4. CASE Strings(a.top) = << >> /\ Strings(a.nested) = << >>
  <2>1. /\ located.raw = Embedded(a.meta) /\ events = Embedded(a.meta)
        /\ located.location = LocateDiagnostics(a).source
    BY <1>4 DEF LocateDiagnosticEvents, LocateDiagnostics
  <2>2. undecoded = 0
    <3>1. {i \in DOMAIN located.raw : located.raw[i] = Bad} = {}
      BY <2>1, AnswerFacts
    <3> QED
      BY <3>1, FS_EmptySet
  <2>3. events # << >> <=> Len(events) # 0
    <3>1. events \in Seq(Range(events))
      BY <2>1, AnswerAssumption
    <3> QED
      BY <3>1
  <2> QED
    BY <1>1, <2>1, <2>2, <2>3
<1> QED
  BY <1>2, <1>3, <1>4

\* A trap is the invocation's, and the result then says that a contract failed.
LEMMA TrapsAreSignalled ==
    ASSUME NEW a \in Answers, Usable(a.result),
           Classify(a.result).stage = "ContractExecution"
    PROVE  FailureSignal(a.result).failed_in_contract_execution
<1> DEFINE result == a.result
           failed == {i \in DOMAIN result.ops : result.ops[i].code # "Success"}
           first  == FirstFailed(result.ops)
<1>0. None # "ContractExecution"
  BY AnswerAssumption
<1>1. result.code = "TxFailed"
  <2>1. CASE result.code = "TxSuccess"
    <3>1. Classify(result).stage = None
      BY <2>1 DEF Classify
    <3> QED
      BY <1>0, <3>1
  <2>2. CASE result.code \notin {"TxSuccess", "TxFailed"}
    <3>1. Classify(result).stage = RejectedStage(result.code)
      BY <2>2 DEF Classify
    <3>2. RejectedStage(result.code) \in {"Validation", "Sequence", "Fee", "Unknown"}
      BY DEF RejectedStage
    <3> QED
      BY <3>1, <3>2
  <2> QED
    BY <2>1, <2>2
<1>2. first # None /\ OperationStage(result.ops[first]) = "ContractExecution"
  <2>1. CASE first = None
    <3>1. Classify(result).stage = "Unknown"
      BY <1>1, <2>1 DEF Classify
    <3> QED
      BY <3>1
  <2>2. CASE first # None
    <3>1. Classify(result).stage = OperationStage(result.ops[first])
      BY <1>1, <2>2 DEF Classify
    <3> QED
      BY <2>2, <3>1
  <2> QED
    BY <2>1, <2>2
<1>3. result.ops \in Seq(Range(result.ops))
  BY AnswerAssumption
<1>4. first \in failed
  <2>1. failed # {} /\ first = CHOOSE i \in failed : \A j \in failed : i <= j
    BY <1>2 DEF FirstFailed
  <2>2. failed \in SUBSET Nat
    BY <1>3
  <2>3. \E i \in failed : \A j \in failed : i <= j
    <3> HIDE DEF failed
    <3> QED
      BY <2>1, <2>2, LeastElement
  <2> QED
    BY <2>1, <2>3
<1> DEFINE op == result.ops[first]
<1>5. op \in Range(result.ops) /\ op.code # "Success"
  BY <1>4 DEF Range
<1>6. /\ op.type \in SorobanOperation
      /\ op.code \notin WrapperCode
      /\ SorobanStage(op) = "ContractExecution"
  <2> HIDE DEF op
  <2>1. OperationStage(op) = "ContractExecution"
    BY <1>2 DEF op
  <2>2. op.code \notin WrapperCode
    BY <2>1 DEF OperationStage, WrapperCode
  <2>3. op.type \in SorobanOperation
    BY <2>1, <2>2 DEF OperationStage, WrapperCode
  <2> QED
    BY <2>1, <2>2, <2>3 DEF OperationStage, WrapperCode
<1>7. op.type = "InvokeHostFunction"
  <2>1. \/ op.code \in WrapperCode \cup
              {"Success", "Malformed", "ResourceLimitExceeded", "InsufficientRefundableFee"}
        \/ op.type = "InvokeHostFunction"
    BY <1>5, <1>6, AnswerAssumption
  <2> HIDE DEF op
  <2>2. op.code # "Malformed"
    BY <1>6 DEF SorobanStage
  <2>3. op.code \notin {"ResourceLimitExceeded", "InsufficientRefundableFee"}
    BY <1>6 DEF SorobanStage
  <2> QED
    BY <1>5, <1>6, <2>1, <2>2, <2>3
<1> QED
  BY <1>1, <1>4, <1>5, <1>7 DEF FailureSignal

\* What the probe says of an answer: its verdict, by what it found.
LEMMA VerdictFacts ==
    ASSUME NEW a, NEW undecoded, NEW count
    PROVE  /\ ProbeVerdict(a, undecoded, count) = "TransactionNotFound" <=> a.status = "NOT_FOUND"
           /\ ProbeVerdict(a, undecoded, count) = "NotAFailedTransaction" <=> a.status = "SUCCESS"
           /\ ProbeVerdict(a, undecoded, count) = "Unusable" <=>
                 /\ a.status \notin {"NOT_FOUND", "SUCCESS"}
                 /\ ~Usable(a.envelope) \/ ~Usable(a.result)
           /\ ProbeVerdict(a, undecoded, count) = "SufficientForAnalysis" <=>
                 /\ a.status \notin {"NOT_FOUND", "SUCCESS"}
                 /\ Usable(a.envelope) /\ Usable(a.result)
                 /\ count > 0 /\ undecoded = 0
BY DEF ProbeVerdict

\* What the decoder refuses an answer for.
LEMMA DecodeErrorFacts ==
    ASSUME NEW a
    PROVE  /\ DecodeError(a) = "TransactionNotFound" <=> a.status = "NOT_FOUND"
           /\ DecodeError(a) = None <=>
                 /\ a.status \in {"SUCCESS", "FAILED"} \ {None}
                 /\ Usable(a.envelope) /\ Usable(a.result) /\ a.meta # Bad
           /\ a.status \notin {"NOT_FOUND", "SUCCESS"} /\ (~Usable(a.envelope) \/ ~Usable(a.result)) =>
                 DecodeError(a) \in {"MissingField", "UnknownStatus", "Xdr"}
           /\ DecodeError(a) = "Xdr" => Bad \in {a.envelope, a.result, a.meta}
BY AnswerAssumption DEF DecodeError, Usable

\* The probe and the decoder agree on every answer that an endpoint may give.
LEMMA ReadersAgree ==
    ASSUME NEW a \in Answers
    PROVE  Agree(a.hash, a)
<1> DEFINE report    == ProbeTransaction(a.hash, a)
           raw       == LocateDiagnosticEvents(a).raw
           undecoded == Cardinality({i \in DOMAIN raw : raw[i] = Bad})
           count     == Len(raw)
           located   == LocateDiagnostics(a)
           error     == DecodeError(a)
<1>1. /\ report.verdict = ProbeVerdict(a, undecoded, count)
      /\ report.location = LocateDiagnosticEvents(a).location
      /\ report.decoded_count = count - undecoded
      /\ Usable(a.result) => report.signal = FailureSignal(a.result)
  BY DEF ProbeTransaction
<1>2. /\ LocateDiagnosticEvents(a).location = located.source
      /\ count \in Nat /\ undecoded \in 0 .. count
      /\ Len(located.events) = count - undecoded
      /\ located.events # << >> <=> undecoded # count
  BY SameEvents
<1>3. Lost(a) = count - Len(located.events)
  BY DEF Lost
<1> HIDE DEF report, raw, undecoded, count, located, error
<1>4. report.verdict = "TransactionNotFound" <=> error = "TransactionNotFound"
  <2>1. report.verdict = "TransactionNotFound" <=> a.status = "NOT_FOUND"
    BY <1>1, VerdictFacts
  <2>2. error = "TransactionNotFound" <=> a.status = "NOT_FOUND"
    BY DecodeErrorFacts DEF error
  <2> QED
    BY <2>1, <2>2
<1>5. report.verdict = "Unusable" => error \in {"MissingField", "UnknownStatus", "Xdr"}
  <2> SUFFICES ASSUME report.verdict = "Unusable"
               PROVE  error \in {"MissingField", "UnknownStatus", "Xdr"}
    OBVIOUS
  <2>1. a.status \notin {"NOT_FOUND", "SUCCESS"} /\ (~Usable(a.envelope) \/ ~Usable(a.result))
    BY <1>1, VerdictFacts
  <2> QED
    BY <2>1, DecodeErrorFacts DEF error
<1>6. ASSUME error = None
      PROVE  /\ a.status = "FAILED" <=> report.verdict # "NotAFailedTransaction"
             /\ report.location = located.source
             /\ report.decoded_count = Len(located.events)
             /\ report.verdict = "SufficientForAnalysis" => located.events # << >> /\ Lost(a) = 0
             /\ Classify(a.result).stage = "ContractExecution" =>
                   report.signal.failed_in_contract_execution
  <2>1. a.status \in {"SUCCESS", "FAILED"} /\ Usable(a.result)
    BY <1>6, DecodeErrorFacts DEF error
  <2>2. a.status = "FAILED" <=> report.verdict # "NotAFailedTransaction"
    BY <1>1, <2>1, VerdictFacts
  <2>3. report.verdict = "SufficientForAnalysis" => located.events # << >> /\ Lost(a) = 0
    <3>1. report.verdict = "SufficientForAnalysis" => count > 0 /\ undecoded = 0
      BY <1>1, VerdictFacts
    <3> QED
      BY <1>2, <1>3, <3>1
  <2>4. Classify(a.result).stage = "ContractExecution" =>
           report.signal.failed_in_contract_execution
    BY <1>1, <2>1, TrapsAreSignalled
  <2> QED
    BY <1>1, <1>2, <2>2, <2>3, <2>4
<1>7. error = "Xdr" /\ report.verdict = "SufficientForAnalysis" => a.meta = Bad
  <2> SUFFICES ASSUME error = "Xdr", report.verdict = "SufficientForAnalysis"
               PROVE  a.meta = Bad
    OBVIOUS
  <2>1. Usable(a.envelope) /\ Usable(a.result)
    BY <1>1, VerdictFacts
  <2>2. Bad \in {a.envelope, a.result, a.meta}
    BY DecodeErrorFacts DEF error
  <2> QED
    BY <2>1, <2>2 DEF Usable
<1> QED
  BY <1>4, <1>5, <1>6, <1>7 DEF Agree, report, located, error

-----------------------------------------------------------------------------
(***************************************************************************)
(* The chain, and the pages the scan reads of it.                          *)
(***************************************************************************)

LEMMA ChainFacts ==
    /\ Len(Chain) \in Nat /\ DOMAIN Chain = 1 .. Len(Chain)
    /\ \A i \in 1 .. Len(Chain) : Chain[i].ledger \in Nat /\ Chain[i].ledger < MaxLedger
    /\ \A i, j \in 1 .. Len(Chain) : i <= j => Chain[i].ledger <= Chain[j].ledger
    /\ MaxLedger \in Nat /\ StartLedger \in Nat /\ StartLedger <= MaxLedger
    /\ Want \in Nat /\ MaxPages \in Nat /\ PageSize \in Nat /\ PageSize > 0
<1>1. Len(Chain) \in Nat /\ DOMAIN Chain = 1 .. Len(Chain)
  <2>1. Chain \in Seq(Range(Chain))
    BY ProbeAssumption
  <2> QED
    BY <2>1
<1>2. /\ MaxLedger \in Nat /\ StartLedger \in Nat /\ StartLedger <= MaxLedger
      /\ Want \in Nat /\ MaxPages \in Nat /\ PageSize \in Nat /\ PageSize > 0
  BY ProbeAssumption
<1>3. \A i \in 1 .. Len(Chain) : Chain[i].ledger \in Nat /\ Chain[i].ledger < MaxLedger
  <2>1. \A i \in 1 .. Len(Chain) : Chain[i].ledger \in 0 .. MaxLedger - 1
    BY <1>1, ProbeAssumption
  <2> QED
    BY <1>2, <2>1
<1>4. \A i, j \in 1 .. Len(Chain) : i <= j => Chain[i].ledger <= Chain[j].ledger
  <2>1. \A i, j \in 1 .. Len(Chain) : i < j => Chain[i].ledger <= Chain[j].ledger
    BY <1>1, ProbeAssumption
  <2>2. \A i, j \in 1 .. Len(Chain) : i <= j => i < j \/ i = j
    BY <1>1
  <2> QED
    BY <1>3, <2>1, <2>2
<1> QED
  BY <1>1, <1>2, <1>3, <1>4

\* The transactions before a ledger are the first ones of the chain.
LEMMA BeforeFacts ==
    ASSUME NEW l \in Nat
    PROVE  /\ Before(l) \in 0 .. Len(Chain)
           /\ \A i \in 1 .. Len(Chain) : Chain[i].ledger < l <=> i <= Before(l)
<1> DEFINE S == {i \in DOMAIN Chain : Chain[i].ledger < l}
<1>1. /\ Len(Chain) \in Nat /\ S \in SUBSET (1 .. Len(Chain))
      /\ \A i \in 1 .. Len(Chain) : i \in S <=> Chain[i].ledger < l
  BY ChainFacts
<1>2. \A i \in 1 .. Len(Chain), j \in S : i < j => i \in S
  <2> SUFFICES ASSUME NEW i \in 1 .. Len(Chain), NEW j \in S, i < j
               PROVE  Chain[i].ledger < l
    BY <1>1
  <2>1. j \in 1 .. Len(Chain) /\ i <= j /\ Chain[j].ledger < l
    BY <1>1
  <2>2. Chain[i].ledger <= Chain[j].ledger /\ Chain[i].ledger \in Nat /\ Chain[j].ledger \in Nat
    BY <2>1, ChainFacts
  <2> QED
    BY <2>1, <2>2
<1>3. Before(l) = Cardinality(S)
  BY DEF Before
<1> HIDE DEF S
<1>4. /\ Cardinality(S) \in 0 .. Len(Chain)
      /\ \A i \in 1 .. Len(Chain) : i \in S <=> i <= Cardinality(S)
  BY <1>1, <1>2, InitialSegment
<1> QED
  BY <1>1, <1>3, <1>4

\* A page is what stands in the chain after what precedes its ledger.
LEMMA PageFacts ==
    ASSUME NEW l \in Nat, NEW tip \in Nat, Page(l, tip) # << >>
    PROVE  /\ Page(l, tip) \in Seq(Range(Chain)) /\ Len(Page(l, tip)) \in Nat
           /\ DOMAIN Page(l, tip) = 1 .. Len(Page(l, tip))
           /\ Len(Page(l, tip)) > 0 /\ Before(l) + Len(Page(l, tip)) <= Len(Chain)
           /\ \A i \in 1 .. Len(Page(l, tip)) : Page(l, tip)[i] = Chain[Before(l) + i]
<1> DEFINE b == Before(l)
           e == Min({b + PageSize, Before(tip + 1)})
           t == Before(tip + 1)
<1>1. /\ b \in Nat /\ b <= Len(Chain) /\ t \in Nat /\ t <= Len(Chain)
      /\ Len(Chain) \in Nat /\ PageSize \in Nat
  <2>1. b \in 0 .. Len(Chain)
    BY BeforeFacts
  <2>2. t \in 0 .. Len(Chain)
    <3>1. tip + 1 \in Nat
      OBVIOUS
    <3> QED
      BY <3>1, BeforeFacts
  <2> QED
    BY <2>1, <2>2, ChainFacts
<1>4. Page(l, tip) = SubSeq(Chain, b + 1, e)
  BY DEF Page
<1>2. e = Min({b + PageSize, t})
  OBVIOUS
<1> HIDE DEF b, e, t
<1>3. e \in Nat /\ e <= Len(Chain)
  <2> DEFINE M == {b + PageSize, t}
  <2>1. M \in SUBSET Nat /\ M # {}
    BY <1>1
  <2>2. Min(M) \in M /\ \A y \in M : Min(M) <= y
    <3> HIDE DEF M
    <3> QED
      BY <2>1, MinFacts
  <2>3. e \in Nat /\ e <= t
    BY <1>2, <2>1, <2>2
  <2> QED
    BY <1>1, <2>3
<1>5. \A i \in b + 1 .. e : Chain[i] \in Range(Chain)
  <2>1. \A i \in b + 1 .. e : i \in DOMAIN Chain
    BY <1>1, <1>3, ChainFacts
  <2> QED
    BY <2>1 DEF Range
<1>6. /\ Page(l, tip) \in Seq(Range(Chain))
      /\ Len(Page(l, tip)) = IF b + 1 <= e THEN e - (b + 1) + 1 ELSE 0
      /\ \A i \in 1 .. e - (b + 1) + 1 : Page(l, tip)[i] = Chain[b + 1 + i - 1]
  <2>1. b + 1 \in Int /\ e \in Int
    BY <1>1, <1>3
  <2> QED
    BY <1>4, <1>5, <2>1, SubSeqProperties
<1>7. Len(Page(l, tip)) # 0 /\ DOMAIN Page(l, tip) = 1 .. Len(Page(l, tip))
  BY <1>6, EmptySeq
<1>8. b + 1 <= e /\ Len(Page(l, tip)) = e - b
  BY <1>1, <1>3, <1>6, <1>7
<1>9. \A i \in 1 .. Len(Page(l, tip)) : Page(l, tip)[i] = Chain[b + i]
  BY <1>1, <1>3, <1>6, <1>8
<1> QED
  BY <1>1, <1>3, <1>6, <1>7, <1>8, <1>9 DEF b

\* The places of a list of transactions that the scan keeps.
MatchAt(txs) == {i \in DOMAIN txs : IsMatch(txs[i])}

LEMMA MatchFacts ==
    ASSUME NEW txs, NEW n \in Nat, DOMAIN txs = 1 .. n
    PROVE  /\ MatchAt(txs) \in SUBSET (1 .. n)
           /\ Len(Matches(txs)) = Cardinality(MatchAt(txs))
           /\ Cardinality(MatchAt(txs)) \in Nat
           /\ DOMAIN Matches(txs) = 1 .. Cardinality(MatchAt(txs))
           /\ \A j \in 1 .. Cardinality(MatchAt(txs)) :
                 Matches(txs)[j] = txs[Nth(MatchAt(txs), j)]
<1> DEFINE S == MatchAt(txs)
<1>1. S \in SUBSET (1 .. n)
  BY DEF MatchAt
<1>2. Matches(txs) = Only(txs, S)
  BY DEF Matches, MatchAt
<1> HIDE DEF S
<1>3. /\ Len(Only(txs, S)) = Cardinality(S) /\ Cardinality(S) \in Nat
      /\ DOMAIN Only(txs, S) = 1 .. Cardinality(S)
      /\ \A j \in 1 .. Cardinality(S) : Only(txs, S)[j] = txs[Nth(S, j)]
  BY <1>1, OnlyLength
<1> QED
  BY <1>1, <1>2, <1>3 DEF S

\* The first transactions of a list keep those of its matches that are theirs.
LEMMA MatchesOfPrefix ==
    ASSUME NEW T, NEW txs \in Seq(T), NEW i \in 1 .. Len(txs)
    PROVE  /\ SubSeq(txs, 1, i) \in Seq(T) /\ Len(SubSeq(txs, 1, i)) = i
           /\ \A j \in 1 .. i : SubSeq(txs, 1, i)[j] = txs[j]
           /\ Len(Matches(SubSeq(txs, 1, i))) = Cardinality(UpTo(MatchAt(txs), i))
<1> DEFINE s == SubSeq(txs, 1, i)
<1>1. s \in Seq(T) /\ Len(s) = i /\ \A j \in 1 .. i : s[j] = txs[j]
  BY SubSeqProperties
<1>2. DOMAIN s = 1 .. i /\ i \in Nat /\ Len(txs) \in Nat /\ DOMAIN txs = 1 .. Len(txs)
  BY <1>1
<1> HIDE DEF s
<1>3. MatchAt(s) = UpTo(MatchAt(txs), i)
  BY <1>1, <1>2 DEF MatchAt, UpTo
<1>4. Len(Matches(s)) = Cardinality(MatchAt(s))
  BY <1>2, MatchFacts
<1> QED
  BY <1>1, <1>3, <1>4 DEF s

\* The scan looks at a first part of a page: at all of it, or up to the match
\* that is the last one wanted.
LEMMA SeenFacts ==
    ASSUME NEW T, NEW page \in Seq(T), page # << >>, NEW wanted \in Nat, wanted > 0
    PROVE  \E m \in 1 .. Len(page) :
              /\ Seen(page, wanted) = SubSeq(page, 1, m)
              /\ Seen(page, wanted) \in Seq(T) /\ Len(Seen(page, wanted)) = m
              /\ \A j \in 1 .. m : Seen(page, wanted)[j] = page[j]
              /\ Len(Matches(Seen(page, wanted))) <= wanted
<1>1. Len(page) \in Nat /\ DOMAIN page = 1 .. Len(page) /\ Len(page) > 0
  BY EmptySeq
<1> DEFINE S == MatchAt(page)
           n == Cardinality(S)
<1>2. S \in SUBSET (1 .. Len(page)) /\ Len(Matches(page)) = n /\ n \in Nat
  BY <1>1, MatchFacts
<1>3. CASE n < wanted
  <2>1. Seen(page, wanted) = page
    BY <1>2, <1>3 DEF Seen
  <2>2. SubSeq(page, 1, Len(page)) = page
    BY SubSeqFull
  <2>3. Len(Matches(page)) <= wanted
    BY <1>2, <1>3
  <2>4. Len(page) \in 1 .. Len(page)
    BY <1>1
  <2>5. /\ Seen(page, wanted) = SubSeq(page, 1, Len(page))
        /\ Seen(page, wanted) \in Seq(T) /\ Len(Seen(page, wanted)) = Len(page)
        /\ \A j \in 1 .. Len(page) : Seen(page, wanted)[j] = page[j]
        /\ Len(Matches(Seen(page, wanted))) <= wanted
    BY <2>1, <2>2, <2>3
  <2> QED
    BY <2>4, <2>5
<1>4. CASE ~(n < wanted)
  <2> DEFINE ends == {i \in DOMAIN page : Len(Matches(SubSeq(page, 1, i))) = wanted}
             m    == Min(ends)
  <2>1. Seen(page, wanted) = SubSeq(page, 1, m)
    BY <1>2, <1>4 DEF Seen
  <2>2. ends # {}
    <3> DEFINE i == Nth(S, wanted)
    <3>1. wanted \in 1 .. n
      BY <1>2, <1>4
    <3>2. i \in S /\ Rank(S, i) = wanted
      <4> HIDE DEF n, S
      <4>1. \A j \in 1 .. Cardinality(S) : Nth(S, j) \in S /\ Rank(S, Nth(S, j)) = j
        BY <1>1, <1>2, NthFacts
      <4> QED
        BY <3>1, <4>1 DEF n
    <3>3. i \in 1 .. Len(page)
      BY <1>2, <3>2
    <3> HIDE DEF i
    <3>4. Len(Matches(SubSeq(page, 1, i))) = Rank(S, i)
      BY <3>3, MatchesOfPrefix DEF Rank
    <3>5. i \in ends
      BY <1>1, <3>2, <3>3, <3>4
    <3> QED
      BY <3>5
  <2>3. ends \in SUBSET Nat
    BY <1>1
  <2>4. m \in ends
    <3> HIDE DEF ends
    <3> QED
      BY <2>2, <2>3, MinFacts
  <2>5. m \in 1 .. Len(page) /\ Len(Matches(SubSeq(page, 1, m))) = wanted
    BY <1>1, <2>4
  <2> HIDE DEF m, ends
  <2>6. /\ SubSeq(page, 1, m) \in Seq(T) /\ Len(SubSeq(page, 1, m)) = m
        /\ \A j \in 1 .. m : SubSeq(page, 1, m)[j] = page[j]
    BY <2>5, MatchesOfPrefix
  <2>7. Len(Matches(SubSeq(page, 1, m))) <= wanted
    BY <2>5
  <2>8. m \in 1 .. Len(page)
    BY <2>5
  <2> QED
    BY <2>1, <2>6, <2>7, <2>8
<1> QED
  BY <1>3, <1>4

\* A hit stands at one place of the chain.
At(tx) == CHOOSE i \in DOMAIN Chain : Chain[i] = tx

LEMMA HitsStandOnce ==
    ASSUME NEW i \in 1 .. Len(Chain), IsMatch(Chain[i])
    PROVE  At(Chain[i]) = i /\ Chain[i] \in Hit
<1>1. i \in DOMAIN Chain
  BY ChainFacts
<1>2. Chain[i].hash # None
  BY DEF IsMatch
<1>3. \A j \in DOMAIN Chain : Chain[j] = Chain[i] => j = i
  BY <1>1, <1>2, ProbeAssumption
<1>4. At(Chain[i]) = i
  BY <1>1, <1>3 DEF At
<1>5. Chain[i] \in Range(Chain)
  BY <1>1 DEF Range
<1> QED
  BY <1>4, <1>5 DEF Hit

\* What one page brings: the part of it that is looked at ends at a place of
\* the chain, at a ledger no earlier than the one it starts at, and its matches
\* are the hits that stand between, in the order of the chain.
Read(l, tip, wanted) == Seen(Page(l, tip), wanted)

LastLedger(seen) == seen[Len(seen)].ledger

LEMMA PageIsRead ==
    ASSUME NEW l \in Nat, NEW tip \in Nat, NEW wanted \in Nat, wanted > 0,
           Page(l, tip) # << >>,
           NEW seen, seen = Read(l, tip, wanted)
    PROVE  /\ Len(seen) \in Nat /\ Len(seen) > 0 /\ Before(l) + Len(seen) <= Len(Chain)
           /\ LastLedger(seen) = Chain[Before(l) + Len(seen)].ledger
           /\ LastLedger(seen) \in Nat /\ l <= LastLedger(seen) /\ LastLedger(seen) < MaxLedger
           /\ Matches(seen) \in Seq(Hit) /\ Len(Matches(seen)) <= wanted
           /\ \A j \in 1 .. Len(Matches(seen)) :
                 /\ Matches(seen)[j].ledger <= LastLedger(seen)
                 /\ At(Matches(seen)[j]) \in Nat /\ At(Matches(seen)[j]) > Before(l)
           /\ \A i, j \in 1 .. Len(Matches(seen)) :
                 i < j => At(Matches(seen)[i]) < At(Matches(seen)[j])
           /\ \A i \in Before(l) + 1 .. Before(l) + Len(seen) :
                 IsMatch(Chain[i]) => Chain[i] \in Range(Matches(seen))
<1> DEFINE page == Page(l, tip)
           b    == Before(l)
           new  == Matches(seen)
           last == LastLedger(seen)
<1>1. /\ page \in Seq(Range(Chain)) /\ Len(page) \in Nat /\ b + Len(page) <= Len(Chain)
      /\ \A i \in 1 .. Len(page) : page[i] = Chain[b + i]
  BY PageFacts
<1>2. b \in Nat /\ \A i \in 1 .. Len(Chain) : Chain[i].ledger < l <=> i <= b
  BY BeforeFacts, ChainFacts
<1>3. PICK m \in 1 .. Len(page) :
         /\ seen = SubSeq(page, 1, m) /\ seen \in Seq(Range(Chain)) /\ Len(seen) = m
         /\ \A j \in 1 .. m : seen[j] = page[j]
         /\ Len(Matches(seen)) <= wanted
  <2> HIDE DEF page
  <2>1. page # << >> /\ seen = Seen(page, wanted)
    BY DEF page, Read
  <2>2. page \in Seq(Range(Chain))
    BY <1>1
  <2>3. \E m \in 1 .. Len(page) :
           /\ Seen(page, wanted) = SubSeq(page, 1, m)
           /\ Seen(page, wanted) \in Seq(Range(Chain)) /\ Len(Seen(page, wanted)) = m
           /\ \A j \in 1 .. m : Seen(page, wanted)[j] = page[j]
           /\ Len(Matches(Seen(page, wanted))) <= wanted
    BY <2>1, <2>2, SeenFacts
  <2> QED
    BY <2>1, <2>3
<1> HIDE DEF page, b
<1>4. /\ m \in Nat /\ m > 0 /\ b + m <= Len(Chain) /\ DOMAIN seen = 1 .. m
      /\ \A j \in 1 .. m : seen[j] = Chain[b + j]
  <2>1. m \in Nat /\ m > 0 /\ b + m <= Len(Chain)
    BY <1>1, <1>2, <1>3, ChainFacts
  <2>2. DOMAIN seen = 1 .. m
    <3>1. DOMAIN seen = 1 .. Len(seen)
      BY <1>3, LenProperties
    <3> QED
      BY <1>3, <3>1
  <2>3. ASSUME NEW j \in 1 .. m PROVE seen[j] = Chain[b + j]
    <3>1. j \in 1 .. Len(page) /\ seen[j] = page[j]
      BY <1>1, <1>3
    <3> QED
      BY <1>1, <3>1
  <2> QED
    BY <2>1, <2>2, <2>3
<1>5. /\ last = Chain[b + m].ledger /\ last \in Nat /\ l <= last /\ last < MaxLedger
      /\ \A j \in 1 .. m : seen[j].ledger <= last
  <2>1. last = Chain[b + m].ledger
    BY <1>3, <1>4 DEF LastLedger
  <2>2. b + m \in 1 .. Len(Chain) /\ ~(b + m <= b)
    BY <1>2, <1>4
  <2>3. last \in Nat /\ last < MaxLedger
    BY <2>1, <2>2, ChainFacts
  <2>4. l <= last
    BY <1>2, <2>1, <2>2, <2>3
  <2>5. ASSUME NEW j \in 1 .. m PROVE seen[j].ledger <= last
    <3>1. b + j \in 1 .. Len(Chain) /\ b + j <= b + m
      BY <1>2, <1>4
    <3>2. Chain[b + j].ledger <= Chain[b + m].ledger
      BY <2>2, <3>1, ChainFacts
    <3> QED
      BY <1>4, <2>1, <3>2
  <2> QED
    BY <2>1, <2>3, <2>4, <2>5
<1> DEFINE S == MatchAt(seen)
<1>6. /\ S \in SUBSET (1 .. m) /\ Len(new) = Cardinality(S) /\ Cardinality(S) \in Nat
      /\ DOMAIN new = 1 .. Cardinality(S)
      /\ \A j \in 1 .. Cardinality(S) : new[j] = seen[Nth(S, j)]
  BY <1>4, MatchFacts
<1>7. \A i \in 1 .. m : i \in S <=> IsMatch(Chain[b + i])
  BY <1>4 DEF MatchAt
<1>12. \A i \in S : seen[i] \in Hit
  <2> TAKE i \in S
  <2>1. i \in 1 .. m /\ b + i \in 1 .. Len(Chain) /\ IsMatch(Chain[b + i]) /\ seen[i] = Chain[b + i]
    BY <1>2, <1>4, <1>6, <1>7
  <2> QED
    BY <2>1, HitsStandOnce
<1>13. new = Only(seen, S)
  BY DEF Matches, MatchAt
<1> HIDE DEF S, new, last
<1>8. \A j \in 1 .. Cardinality(S) : Nth(S, j) \in S
  BY <1>4, <1>6, NthFacts
<1>9. ASSUME NEW j \in 1 .. Cardinality(S)
      PROVE  /\ Nth(S, j) \in 1 .. m /\ new[j] = Chain[b + Nth(S, j)]
             /\ At(new[j]) = b + Nth(S, j) /\ new[j] \in Hit
             /\ new[j].ledger <= last
  <2>1. Nth(S, j) \in S /\ Nth(S, j) \in 1 .. m
    BY <1>6, <1>8
  <2>2. /\ b + Nth(S, j) \in 1 .. Len(Chain) /\ IsMatch(Chain[b + Nth(S, j)])
        /\ new[j] = Chain[b + Nth(S, j)] /\ new[j] = seen[Nth(S, j)]
    BY <1>2, <1>4, <1>6, <1>7, <2>1
  <2>3. At(new[j]) = b + Nth(S, j) /\ new[j] \in Hit
    BY <2>2, HitsStandOnce
  <2> QED
    BY <1>5, <2>1, <2>2, <2>3
<1>10. \A i, j \in 1 .. Cardinality(S) : i < j => At(new[i]) < At(new[j])
  <2> SUFFICES ASSUME NEW i \in 1 .. Cardinality(S), NEW j \in 1 .. Cardinality(S), i < j
               PROVE  At(new[i]) < At(new[j])
    OBVIOUS
  <2>1. Nth(S, i) < Nth(S, j)
    BY <1>4, <1>6, NthAscends
  <2> QED
    BY <1>2, <1>9, <2>1
<1>11. ASSUME NEW i \in b + 1 .. b + m, IsMatch(Chain[i])
       PROVE  Chain[i] \in Range(new)
  <2>1. i - b \in 1 .. m /\ b + (i - b) = i
    BY <1>2, <1>4
  <2>2. i - b \in S /\ seen[i - b] = Chain[i]
    BY <1>4, <1>7, <1>11, <2>1
  <2>3. Range(Only(seen, S)) = Held(seen, S)
    BY <1>4, <1>6, OnlyHolds
  <2> QED
    BY <1>13, <2>2, <2>3 DEF Held
<1>14. new \in Seq(Hit)
  <2>1. Only(seen, S) \in Seq(Hit)
    BY <1>4, <1>6, <1>12, OnlyIsASequence
  <2> QED
    BY <1>13, <2>1
<1>15. \A j \in 1 .. Len(new) : /\ new[j].ledger <= last
                                /\ At(new[j]) \in Nat /\ At(new[j]) > b
  BY <1>2, <1>6, <1>9
<1>16. Len(new) <= wanted
  BY <1>3 DEF new
<1>17. /\ Len(seen) \in Nat /\ Len(seen) > 0 /\ b + Len(seen) <= Len(Chain)
       /\ last = Chain[b + Len(seen)].ledger
       /\ last \in Nat /\ l <= last /\ last < MaxLedger
  BY <1>3, <1>4, <1>5
<1>18. \A i, j \in 1 .. Len(new) : i < j => At(new[i]) < At(new[j])
  BY <1>6, <1>10
<1>19. \A i \in b + 1 .. b + Len(seen) : IsMatch(Chain[i]) => Chain[i] \in Range(new)
  BY <1>3, <1>11
<1> QED
  BY <1>14, <1>15, <1>16, <1>17, <1>18, <1>19 DEF b, new, last

-----------------------------------------------------------------------------
(***************************************************************************)
(* The scan.  What it has found are hits of the ledgers it is past, in     *)
(* their order, and of those it has them all but what a page ended within. *)
(***************************************************************************)

ScanTyped ==
    /\ found \in Seq(Hit) /\ Len(found) <= Want
    /\ listed \subseteq Hit
    /\ ledger \in StartLedger .. MaxLedger
    /\ pages \in 0 .. MaxPages

FoundArePast == \A k \in 1 .. Len(found) : found[k].ledger < ledger

FoundAscend == \A i, j \in 1 .. Len(found) : i < j => At(found[i]) < At(found[j])

NothingElseMissed ==
    \A i \in 1 .. Len(Chain) :
        /\ IsMatch(Chain[i]) /\ StartLedger <= Chain[i].ledger /\ Chain[i].ledger < ledger
        /\ Chain[i].ledger \notin cut
        => Chain[i] \in Range(found)

ScanInv ==
    /\ ScanTyped /\ FoundArePast /\ FoundAscend
    /\ pc \in File \cup {"scan", "idle"}
    /\ pc = "scan" => NothingElseMissed

\* The next page starts after the last ledger seen: the chain ends before the
\* largest ledger there is.
LEMMA NextStartFacts ==
    ASSUME NEW last \in Nat, last < MaxLedger
    PROVE  NextStart(last) = last + 1
<1>1. {last + 1, MaxLedger} \in SUBSET Nat /\ {last + 1, MaxLedger} # {}
  BY ChainFacts
<1> DEFINE M == {last + 1, MaxLedger}
<1>2. Min(M) \in M /\ \A y \in M : Min(M) <= y
  <2>1. M \in SUBSET Nat /\ M # {}
    BY <1>1
  <2> HIDE DEF M
  <2> QED
    BY <2>1, MinFacts
<1>3. Min(M) = last + 1
  BY <1>2, ChainFacts
<1> QED
  BY <1>3 DEF NextStart

\* Where a hit stands.
LEMMA PlaceOfHit ==
    ASSUME NEW tx \in Hit
    PROVE  At(tx) \in 1 .. Len(Chain) /\ Chain[At(tx)] = tx /\ IsMatch(tx)
<1>1. tx \in Range(Chain) /\ IsMatch(tx)
  BY DEF Hit
<1>2. PICK i \in DOMAIN Chain : Chain[i] = tx
  BY <1>1 DEF Range
<1> QED
  BY <1>1, <1>2, ChainFacts, HitsStandOnce

\* What is found and what a page adds to it, one after the other.
LEMMA Found ==
    ASSUME NEW s \in Seq(Hit), NEW t \in Seq(Hit)
    PROVE  /\ s \o t \in Seq(Hit) /\ Len(s \o t) = Len(s) + Len(t)
           /\ Len(s) \in Nat /\ Len(t) \in Nat
           /\ \A k \in 1 .. Len(s) : (s \o t)[k] = s[k]
           /\ \A k \in Len(s) + 1 .. Len(s) + Len(t) :
                 k - Len(s) \in 1 .. Len(t) /\ (s \o t)[k] = t[k - Len(s)]
           /\ Range(s \o t) = Range(s) \cup Range(t)
<1>1. Len(s) \in Nat /\ Len(t) \in Nat
  OBVIOUS
<1>2. /\ s \o t \in Seq(Hit) /\ Len(s \o t) = Len(s) + Len(t)
      /\ \A k \in 1 .. Len(s) + Len(t) :
            (s \o t)[k] = IF k <= Len(s) THEN s[k] ELSE t[k - Len(s)]
  BY ConcatProperties
<1>3. \A k \in 1 .. Len(s) : (s \o t)[k] = s[k]
  BY <1>1, <1>2
<1>4. \A k \in Len(s) + 1 .. Len(s) + Len(t) :
         k - Len(s) \in 1 .. Len(t) /\ (s \o t)[k] = t[k - Len(s)]
  BY <1>1, <1>2
<1>5. Range(s \o t) = Range(s) \cup Range(t)
  BY RangeOfConcat
<1> QED
  BY <1>1, <1>2, <1>3, <1>4, <1>5

LEMMA ScanPageKeeps ==
    ASSUME ScanInv, ScanPage
    PROVE  ScanInv' /\ pc' = pc
<1>1. PICK tip \in ledger .. MaxLedger :
         LET page == Page(ledger, tip)
             seen == Seen(page, Want - Len(found))
             last == seen[Len(seen)].ledger
         IN /\ page # << >>
            /\ found' = found \o Matches(seen)
            /\ cut' = IF Before(last + 1) > Before(ledger) + Len(seen) THEN cut \cup {last}
                                                                      ELSE cut
            /\ IF NextStart(last) <= ledger THEN pc' = "list" /\ UNCHANGED ledger
                                            ELSE ledger' = NextStart(last) /\ UNCHANGED pc
  BY DEF ScanPage
<1> DEFINE wanted == Want - Len(found)
           seen   == Read(ledger, tip, wanted)
           new    == Matches(seen)
           b      == Before(ledger)
           e      == b + Len(seen)
           last   == LastLedger(seen)
<1>2. /\ Page(ledger, tip) # << >>
      /\ found' = found \o new
      /\ cut' = IF Before(last + 1) > e THEN cut \cup {last} ELSE cut
      /\ IF NextStart(last) <= ledger THEN pc' = "list" /\ UNCHANGED ledger
                                      ELSE ledger' = NextStart(last) /\ UNCHANGED pc
  BY <1>1 DEF Read, LastLedger
<1>3. /\ pc = "scan" /\ pages < MaxPages /\ Len(found) < Want
      /\ pages' = pages + 1 /\ listed' = listed
  BY DEF ScanPage, CanScan
<1>4. /\ ledger \in Nat /\ tip \in Nat /\ wanted \in Nat /\ wanted > 0
      /\ found \in Seq(Hit) /\ Len(found) \in Nat
      /\ StartLedger <= ledger /\ pages \in Nat
  BY <1>3, ChainFacts DEF ScanInv, ScanTyped
<1>5. /\ Len(seen) \in Nat /\ Len(seen) > 0 /\ b + Len(seen) <= Len(Chain)
      /\ last = Chain[b + Len(seen)].ledger
      /\ last \in Nat /\ ledger <= last /\ last < MaxLedger
      /\ new \in Seq(Hit) /\ Len(new) <= wanted
      /\ \A j \in 1 .. Len(new) : /\ new[j].ledger <= last
                                  /\ At(new[j]) \in Nat /\ At(new[j]) > b
      /\ \A i, j \in 1 .. Len(new) : i < j => At(new[i]) < At(new[j])
      /\ \A i \in b + 1 .. b + Len(seen) : IsMatch(Chain[i]) => Chain[i] \in Range(new)
  <2> HIDE DEF wanted
  <2> QED
    BY <1>2, <1>4, PageIsRead
<1> HIDE DEF seen, new, last
<1>6. b \in Nat /\ \A i \in 1 .. Len(Chain) : Chain[i].ledger < ledger <=> i <= b
  <2>1. ledger \in Nat
    BY <1>4
  <2>2. b \in 0 .. Len(Chain) /\ \A i \in 1 .. Len(Chain) : Chain[i].ledger < ledger <=> i <= b
    BY <2>1, BeforeFacts
  <2> QED
    BY <2>2, ChainFacts
<1> HIDE DEF b
<1>7. ledger' = last + 1 /\ pc' = pc
  <2>1. NextStart(last) = last + 1
    BY <1>5, NextStartFacts
  <2> QED
    BY <1>2, <1>4, <1>5, <2>1
<1>14. last \in Nat /\ ledger <= last /\ last < MaxLedger /\ ledger' = last + 1
  BY <1>5, <1>7
<1>8. /\ found' \in Seq(Hit) /\ Len(found') = Len(found) + Len(new) /\ Len(new) \in Nat
      /\ \A k \in 1 .. Len(found) : found'[k] = found[k]
      /\ \A k \in Len(found) + 1 .. Len(found) + Len(new) :
            k - Len(found) \in 1 .. Len(new) /\ found'[k] = new[k - Len(found)]
      /\ Range(found') = Range(found) \cup Range(new)
  BY <1>2, <1>4, <1>5, Found
<1>9. ScanTyped'
  <2>1. Len(found') <= Want
    BY <1>4, <1>5, <1>8, ChainFacts
  <2>2. listed' \subseteq Hit
    <3>1. listed \subseteq Hit
      BY DEF ScanInv, ScanTyped
    <3> QED
      BY <1>3, <3>1
  <2>3. ledger' \in StartLedger .. MaxLedger
    BY <1>4, <1>14, ChainFacts
  <2>4. pages' \in 0 .. MaxPages
    BY <1>3, <1>4, ChainFacts
  <2> QED
    BY <1>8, <2>1, <2>2, <2>3, <2>4 DEF ScanTyped
<1>10. ASSUME NEW k \in 1 .. Len(found)
       PROVE  /\ found'[k].ledger < ledger'
              /\ At(found'[k]) \in Nat /\ At(found'[k]) <= b
  <2>1. found[k] \in Hit /\ found[k].ledger < ledger /\ found'[k] = found[k]
    BY <1>4, <1>8 DEF ScanInv, FoundArePast
  <2>2. At(found[k]) \in 1 .. Len(Chain) /\ Chain[At(found[k])] = found[k]
    BY <2>1, PlaceOfHit
  <2>3. At(found[k]) <= b /\ Chain[At(found[k])].ledger \in Nat
    BY <1>6, <2>1, <2>2, ChainFacts
  <2>4. found[k].ledger < ledger'
    <3>1. found[k].ledger \in Nat
      BY <2>2, <2>3
    <3> QED
      BY <1>4, <1>14, <2>1, <3>1
  <2> QED
    BY <2>1, <2>2, <2>3, <2>4
<1>11. FoundArePast'
  <2> SUFFICES ASSUME NEW k \in 1 .. Len(found') PROVE found'[k].ledger < ledger'
    BY DEF FoundArePast
  <2>1. CASE k \in 1 .. Len(found)
    BY <1>10, <2>1
  <2>2. CASE k \in Len(found) + 1 .. Len(found) + Len(new)
    <3>1. found'[k] \in Hit
      BY <1>8
    <3>2. found'[k].ledger \in Nat
      BY <3>1, PlaceOfHit, ChainFacts
    <3>3. found'[k].ledger <= last
      BY <1>5, <1>8, <2>2
    <3>4. last \in Nat /\ ledger' = last + 1
      BY <1>5, <1>7
    <3> HIDE DEF last
    <3> QED
      BY <3>2, <3>3, <3>4
  <2> QED
    BY <1>4, <1>8, <2>1, <2>2
<1>12. FoundAscend'
  <2> SUFFICES ASSUME NEW i \in 1 .. Len(found'), NEW j \in 1 .. Len(found'), i < j
               PROVE  At(found'[i]) < At(found'[j])
    BY DEF FoundAscend
  <2>1. CASE j \in 1 .. Len(found)
    <3>1. i \in 1 .. Len(found)
      BY <1>4, <1>8, <2>1
    <3>2. At(found[i]) < At(found[j])
      BY <2>1, <3>1 DEF ScanInv, FoundAscend
    <3> QED
      BY <1>8, <2>1, <3>1, <3>2
  <2>2. CASE i \in 1 .. Len(found) /\ j \in Len(found) + 1 .. Len(found) + Len(new)
    <3>1. At(found'[i]) \in Nat /\ At(found'[i]) <= b
      BY <1>10, <2>2
    <3>2. At(found'[j]) \in Nat /\ At(found'[j]) > b
      BY <1>5, <1>8, <2>2
    <3> QED
      BY <1>6, <3>1, <3>2
  <2>3. CASE i \in Len(found) + 1 .. Len(found) + Len(new)
    <3>1. j \in Len(found) + 1 .. Len(found) + Len(new)
      BY <1>4, <1>8, <2>3
    <3> DEFINE p == i - Len(found)
               q == j - Len(found)
    <3>2. /\ p \in 1 .. Len(new) /\ q \in 1 .. Len(new) /\ p < q
          /\ found'[i] = new[p] /\ found'[j] = new[q]
      BY <1>4, <1>8, <2>3, <3>1
    <3> HIDE DEF p, q
    <3> QED
      BY <1>5, <3>2
  <2> QED
    BY <1>4, <1>8, <2>1, <2>2, <2>3
<1>13. NothingElseMissed'
  <2> SUFFICES ASSUME NEW i \in 1 .. Len(Chain), IsMatch(Chain[i]),
                      StartLedger <= Chain[i].ledger, Chain[i].ledger < ledger',
                      Chain[i].ledger \notin cut'
               PROVE  Chain[i] \in Range(found')
    BY DEF NothingElseMissed
  <2>0. i \in Nat /\ Chain[i].ledger \in Nat /\ cut \subseteq cut'
    BY <1>2, ChainFacts
  <2>1. CASE i <= b
    <3>1. Chain[i].ledger < ledger /\ Chain[i].ledger \notin cut
      BY <1>6, <2>0, <2>1
    <3>2. Chain[i] \in Range(found)
      BY <1>3, <3>1 DEF ScanInv, NothingElseMissed
    <3> QED
      BY <1>8, <3>2
  <2>2. CASE b < i /\ i <= e
    <3>1. i \in b + 1 .. b + Len(seen)
      BY <1>5, <1>6, <2>0, <2>2
    <3> QED
      BY <1>5, <1>8, <3>1
  <2>3. CASE e < i
    <3>1. e \in 1 .. Len(Chain) /\ e <= i /\ Chain[e].ledger = last
      BY <1>5, <1>6, <2>0, <2>3
    <3>2. last <= Chain[i].ledger
      BY <3>1, ChainFacts
    <3>3. Chain[i].ledger = last
      <4>1. last \in Nat /\ ledger' = last + 1
        BY <1>5, <1>7
      <4>2. Chain[i].ledger < last + 1
        BY <4>1
      <4> HIDE DEF last
      <4> QED
        BY <2>0, <3>2, <4>1, <4>2
    <3>4. i <= Before(last + 1) /\ Before(last + 1) \in Nat
      <4>1. last + 1 \in Nat /\ Chain[i].ledger < last + 1
        BY <1>5, <3>3
      <4>2. /\ Before(last + 1) \in 0 .. Len(Chain)
            /\ Chain[i].ledger < last + 1 <=> i <= Before(last + 1)
        BY <4>1, BeforeFacts
      <4> QED
        BY <4>1, <4>2, ChainFacts
    <3>5. Before(last + 1) > e
      BY <2>0, <2>3, <3>1, <3>4
    <3>6. last \in cut'
      BY <1>2, <3>5
    <3> QED
      BY <3>3, <3>6
  <2> QED
    BY <1>5, <1>6, <2>0, <2>1, <2>2, <2>3
<1> QED
  BY <1>3, <1>7, <1>9, <1>11, <1>12, <1>13 DEF ScanInv

\* Capturing leaves the scan alone, and nothing starts it again.
LEMMA ScanIsLeftAlone ==
    ASSUME ScanInv, UNCHANGED scanVars, pc' \in File \cup {"idle"} \/ pc' = pc
    PROVE  ScanInv'
<1>1. ledger' = ledger /\ pages' = pages /\ found' = found /\ cut' = cut /\ listed' = listed
  BY DEF scanVars
<1>2. ScanTyped' /\ FoundArePast' /\ FoundAscend'
  <2>1. ScanTyped'
    BY <1>1 DEF ScanInv, ScanTyped
  <2>2. FoundArePast'
    BY <1>1 DEF ScanInv, FoundArePast
  <2>3. FoundAscend'
    BY <1>1 DEF ScanInv, FoundAscend
  <2> QED
    BY <2>1, <2>2, <2>3
<1>3. pc' \in File \cup {"scan", "idle"}
  BY DEF ScanInv
<1>4. pc' = "scan" => pc = "scan"
  BY DEF File
<1>5. ASSUME pc' = "scan" PROVE NothingElseMissed'
  <2>1. NothingElseMissed
    BY <1>4, <1>5 DEF ScanInv
  <2> QED
    BY <1>1, <2>1 DEF NothingElseMissed
<1> QED
  BY <1>2, <1>3, <1>5 DEF ScanInv

\* Nothing is found before a scan begins and once it is over.
LEMMA NothingFound ==
    ASSUME found' = << >>, listed' \subseteq Hit, pages' = 0, ledger' = StartLedger,
           pc' = "idle"
    PROVE  ScanInv'
<1>1. << >> \in Seq(Hit) /\ Len(<< >>) = 0
  BY EmptySeq
<1>2. ScanTyped'
  BY <1>1, ChainFacts DEF ScanTyped
<1>3. FoundArePast' /\ FoundAscend'
  BY <1>1 DEF FoundArePast, FoundAscend
<1> QED
  BY <1>2, <1>3 DEF ScanInv, File

LEMMA ScanStarts ==
    Init => ScanInv
<1> SUFFICES ASSUME Init PROVE ScanInv
  OBVIOUS
<1>1. /\ pc = "scan" /\ ledger = StartLedger /\ pages = 0 /\ found = << >> /\ cut = {}
      /\ listed = {}
  BY DEF Init
<1>2. << >> \in Seq(Hit) /\ Len(<< >>) = 0
  BY EmptySeq
<1>3. ScanTyped
  BY <1>1, <1>2, ChainFacts DEF ScanTyped
<1>4. FoundArePast /\ FoundAscend
  BY <1>1, <1>2 DEF FoundArePast, FoundAscend
<1>5. NothingElseMissed
  <2>1. \A i \in 1 .. Len(Chain) : ~(StartLedger <= Chain[i].ledger /\ Chain[i].ledger < ledger)
    BY <1>1, ChainFacts
  <2> QED
    BY <2>1 DEF NothingElseMissed
<1> QED
  BY <1>1, <1>3, <1>4, <1>5 DEF ScanInv

LEMMA ScanStep ==
    ASSUME ScanInv, [Next]_vars
    PROVE  ScanInv'
<1>1. CASE ScanPage
  BY <1>1, ScanPageKeeps
<1>2. CASE ScanEnds
  <2>1. Range(found) \subseteq Hit
    <3>1. found \in Seq(Hit)
      BY DEF ScanInv, ScanTyped
    <3>2. \A i \in DOMAIN found : found[i] \in Hit
      BY <3>1
    <3> QED
      BY <3>2 DEF Range
  <2>2. /\ found' = << >> /\ listed' = Range(found) /\ pages' = 0 /\ ledger' = StartLedger
        /\ pc' = "idle"
    BY <1>2 DEF ScanEnds
  <2> QED
    BY <2>1, <2>2, NothingFound
<1>3. CASE ScanFails
  <2>1. /\ found' = << >> /\ listed' = listed /\ pages' = 0 /\ ledger' = StartLedger
        /\ pc' = "idle"
    BY <1>3 DEF ScanFails
  <2>2. listed \subseteq Hit
    BY DEF ScanInv, ScanTyped
  <2> QED
    BY <2>1, <2>2, NothingFound
<1>4. CASE Ask
  <2>1. UNCHANGED scanVars /\ pc' \in File
    BY <1>4 DEF Ask, File
  <2> QED
    BY <2>1, ScanIsLeftAlone
<1>5. CASE AskFails \/ Open
  <2>1. UNCHANGED scanVars /\ pc' = pc
    BY <1>5 DEF AskFails, Open
  <2> QED
    BY <2>1, ScanIsLeftAlone
<1>6. CASE Fill
  <2>1. UNCHANGED scanVars /\ pc' \in File \cup {"idle"}
    BY <1>6 DEF Fill, File, Done
  <2> QED
    BY <2>1, ScanIsLeftAlone
<1>7. CASE Stop
  <2>1. UNCHANGED scanVars /\ pc' = "idle"
    BY <1>7 DEF Stop, Done
  <2> QED
    BY <2>1, ScanIsLeftAlone
<1>8. CASE UNCHANGED vars
  <2>1. UNCHANGED scanVars /\ pc' = pc
    BY <1>8 DEF vars
  <2> QED
    BY <2>1, ScanIsLeftAlone
<1> QED
  BY <1>1, <1>2, <1>3, <1>4, <1>5, <1>6, <1>7, <1>8 DEF Next, Capture

\* A scan finds the failed Soroban transactions of the ledgers it is past once
\* each and in order, but for those of a ledger that a page ended within
\* (scan.rs:97-104).
THEOREM ScanFindsTheRest ==
    Spec => []ScanMissesOnlyCuts
<1>1. Init => ScanInv
  BY ScanStarts
<1>2. ScanInv /\ [Next]_vars => ScanInv'
  BY ScanStep
<1>3. ScanInv => ScanMissesOnlyCuts
  <2> SUFFICES ASSUME ScanInv, pc \in {"scan", "list"}
               PROVE  /\ \A i, j \in DOMAIN found : i < j => At(found[i]) < At(found[j])
                      /\ \A tx \in Hit :
                            tx.ledger \in StartLedger .. ledger - 1 /\ tx.ledger \notin cut =>
                                tx \in Range(found)
    BY DEF ScanMissesOnlyCuts, At
  <2>1. pc = "scan"
    BY DEF ScanInv, File
  <2>2. found \in Seq(Hit) /\ ledger \in Nat
    BY ChainFacts DEF ScanInv, ScanTyped
  <2>3. \A i, j \in DOMAIN found : i < j => At(found[i]) < At(found[j])
    BY <2>2 DEF ScanInv, FoundAscend
  <2>4. ASSUME NEW tx \in Hit, tx.ledger \in StartLedger .. ledger - 1, tx.ledger \notin cut
        PROVE  tx \in Range(found)
    <3>1. /\ At(tx) \in 1 .. Len(Chain) /\ Chain[At(tx)] = tx /\ IsMatch(tx)
          /\ StartLedger <= tx.ledger /\ tx.ledger < ledger
      BY <2>2, <2>4, PlaceOfHit, ChainFacts
    <3> QED
      BY <2>1, <2>4, <3>1 DEF ScanInv, NothingElseMissed
  <2> QED
    BY <2>3, <2>4
<1> QED
  BY <1>1, <1>2, <1>3, PTL DEF Spec

-----------------------------------------------------------------------------
(***************************************************************************)
(* A capture.  It writes its three files in one order, so that a file's    *)
(* writer is no later than the writer of the one before it; and a file     *)
(* that two captures wrote is, in between, Bad.                            *)
(***************************************************************************)

CaptureInv ==
    /\ captures \in 0 .. MaxCaptures
    /\ open \in BOOLEAN
    /\ dir = [f \in File |-> dir[f]] /\ by \in [File -> Nat]
    /\ \A f \in File : by[f] <= captures /\ (by[f] = 0 <=> dir[f] = None)
    /\ pc \in File =>
          /\ answer \in Answers /\ asked = answer.hash /\ captures > 0
          /\ IF open THEN by[pc] = captures /\ dir[pc] = Bad ELSE by[pc] < captures
    /\ pc \notin File => answer = None /\ ~open

\* The files of the capture that runs and of those before it.
FixtureInv ==
    /\ by["metadata"] <= by["probe"] /\ by["probe"] <= by["rpc-response"]
    /\ Response \notin {None, Bad} => Response \in Answers
    /\ by["probe"] = by["rpc-response"] /\ by["probe"] > 0 /\ Bad \notin {Response, Probed} =>
          Probed = ProbeTransaction(Response.hash, Response)
    /\ by["metadata"] = by["probe"] /\ by["metadata"] > 0 /\ Bad \notin {Probed, Claimed} =>
          Claimed = Metadata(Probed)
    /\ pc = "rpc-response" => by["probe"] < captures
    /\ pc \in {"probe", "metadata"} => by["rpc-response"] = captures /\ Response = answer
    /\ pc = "probe" => by["metadata"] < captures
    /\ pc = "metadata" => by["probe"] = captures /\ Probed = Report

DirInv == CaptureInv /\ FixtureInv

LEMMA CaptureStarts ==
    Init => DirInv
<1> SUFFICES ASSUME Init PROVE DirInv
  OBVIOUS
<1>1. /\ pc = "scan" /\ captures = 0 /\ answer = None /\ open = FALSE
      /\ dir = [f \in File |-> None] /\ by = [f \in File |-> 0]
  BY DEF Init
<1>2. \A f \in File : dir[f] = None /\ by[f] = 0
  BY <1>1
<1>3. CaptureInv
  <2>1. captures \in 0 .. MaxCaptures
    BY <1>1, ProbeAssumption
  <2>2. by \in [File -> Nat] /\ dir = [f \in File |-> dir[f]]
    BY <1>1
  <2>3. pc \notin File
    BY <1>1 DEF File
  <2>4. \A f \in File : by[f] <= captures /\ (by[f] = 0 <=> dir[f] = None)
    BY <1>1, <1>2
  <2>5. open \in BOOLEAN /\ ~open /\ answer = None
    BY <1>1
  <2> QED
    BY <2>1, <2>2, <2>3, <2>4, <2>5 DEF CaptureInv
<1>4. FixtureInv
  <2>1. by["metadata"] = 0 /\ by["probe"] = 0 /\ by["rpc-response"] = 0 /\ Response = None
    BY <1>2 DEF File, Response
  <2> QED
    BY <1>1, <2>1 DEF FixtureInv
<1> QED
  BY <1>3, <1>4 DEF DirInv

\* The three files, and what a step makes of one of them.
LEMMA ThreeFiles ==
    ASSUME DirInv
    PROVE  /\ by["metadata"] \in Nat /\ by["probe"] \in Nat /\ by["rpc-response"] \in Nat
           /\ captures \in Nat /\ None # Bad
           /\ \A f \in File : by[f] \in Nat /\ by[f] <= captures /\ (by[f] = 0 <=> dir[f] = None)
BY ProbeAssumption, AnswerAssumption DEF DirInv, CaptureInv, File

LEMMA AskStep ==
    ASSUME DirInv, Ask
    PROVE  DirInv'
<1>1. PICK a \in Answers : answer' = a /\ asked' = a.hash
  BY DEF Ask
<1>2. /\ pc = "idle" /\ captures < MaxCaptures /\ captures' = captures + 1
      /\ pc' = "rpc-response" /\ open' = open /\ dir' = dir /\ by' = by
  BY DEF Ask
<1>3. /\ by["metadata"] \in Nat /\ by["probe"] \in Nat /\ by["rpc-response"] \in Nat
      /\ captures \in Nat
      /\ \A f \in File : by[f] \in Nat /\ by[f] <= captures /\ (by[f] = 0 <=> dir[f] = None)
  BY ThreeFiles
<1>4. pc \notin File /\ pc' \in File
  BY <1>2 DEF File
<1>5. ~open
  BY <1>4 DEF DirInv, CaptureInv
<1>6. CaptureInv'
  <2>1. captures' \in 0 .. MaxCaptures /\ captures' > 0
    BY <1>2, <1>3, ProbeAssumption
  <2>2. dir' = [f \in File |-> dir'[f]] /\ by' \in [File -> Nat] /\ open' \in BOOLEAN
    BY <1>2 DEF DirInv, CaptureInv
  <2>3. \A f \in File : by'[f] < captures' /\ (by'[f] = 0 <=> dir'[f] = None)
    BY <1>2, <1>3
  <2>4. \A f \in File : by'[f] <= captures'
    BY <1>2, <1>3
  <2> QED
    BY <1>1, <1>2, <1>4, <1>5, <2>1, <2>2, <2>3, <2>4 DEF CaptureInv
<1>7. FixtureInv'
  <2>1. by["probe"] < captures'
    BY <1>2, <1>3 DEF File
  <2>2. FixtureInv
    BY DEF DirInv
  <2> QED
    BY <1>2, <2>1, <2>2 DEF FixtureInv, Response, Probed, Claimed
<1> QED
  BY <1>6, <1>7 DEF DirInv

\* A file that is opened is Bad, and its capture's.
LEMMA OpenStep ==
    ASSUME DirInv, Open
    PROVE  DirInv'
<1>1. /\ pc \in File /\ ~open /\ open' = TRUE
      /\ dir' = [dir EXCEPT ![pc] = Bad] /\ by' = [by EXCEPT ![pc] = captures]
      /\ pc' = pc /\ captures' = captures /\ asked' = asked /\ answer' = answer
  BY DEF Open
<1>2. /\ by["metadata"] \in Nat /\ by["probe"] \in Nat /\ by["rpc-response"] \in Nat
      /\ captures \in Nat /\ None # Bad
      /\ \A f \in File : by[f] \in Nat /\ by[f] <= captures /\ (by[f] = 0 <=> dir[f] = None)
  BY ThreeFiles
<1>3. /\ answer \in Answers /\ asked = answer.hash /\ captures > 0 /\ by[pc] < captures
      /\ dir = [f \in File |-> dir[f]] /\ by \in [File -> Nat] /\ captures \in 0 .. MaxCaptures
  BY <1>1 DEF DirInv, CaptureInv
<1>4. /\ dir'[pc] = Bad /\ by'[pc] = captures
      /\ \A f \in File \ {pc} : dir'[f] = dir[f] /\ by'[f] = by[f]
      /\ dir' = [f \in File |-> dir'[f]] /\ by' \in [File -> Nat]
  BY <1>1, <1>2, <1>3
<1>5. CaptureInv'
  <2>1. \A f \in File : by'[f] <= captures /\ (by'[f] = 0 <=> dir'[f] = None)
    BY <1>2, <1>3, <1>4
  <2> QED
    BY <1>1, <1>3, <1>4, <2>1 DEF CaptureInv
<1>6. FixtureInv
  BY DEF DirInv
<1>7. CASE pc = "rpc-response"
  <2>1. /\ by'["rpc-response"] = captures /\ Response' = Bad
        /\ by'["probe"] = by["probe"] /\ by'["metadata"] = by["metadata"]
        /\ Probed' = Probed /\ Claimed' = Claimed
    BY <1>4, <1>7 DEF File, Response, Probed, Claimed
  <2> QED
    BY <1>1, <1>2, <1>5, <1>6, <1>7, <2>1 DEF FixtureInv, DirInv
<1>8. CASE pc = "probe"
  <2>1. /\ by'["probe"] = captures /\ Probed' = Bad
        /\ by'["rpc-response"] = by["rpc-response"] /\ by'["metadata"] = by["metadata"]
        /\ Response' = Response /\ Claimed' = Claimed
    BY <1>4, <1>8 DEF File, Response, Probed, Claimed
  <2> QED
    BY <1>1, <1>2, <1>5, <1>6, <1>8, <2>1 DEF FixtureInv, DirInv
<1>9. CASE pc = "metadata"
  <2>1. /\ by'["metadata"] = captures /\ Claimed' = Bad
        /\ by'["rpc-response"] = by["rpc-response"] /\ by'["probe"] = by["probe"]
        /\ Response' = Response /\ Probed' = Probed /\ Report' = Report
    BY <1>1, <1>4, <1>9 DEF File, Response, Probed, Claimed, Report
  <2> QED
    BY <1>1, <1>2, <1>5, <1>6, <1>9, <2>1 DEF FixtureInv, DirInv
<1> QED
  BY <1>1, <1>7, <1>8, <1>9 DEF File

\* The capture is over: the files are what they are.
LEMMA DoneStep ==
    ASSUME DirInv, pc' = "idle", asked' = None, answer' = None, open' = FALSE,
           captures' = captures, dir' = dir, by' = by
    PROVE  DirInv'
<1>1. pc' \notin File
  BY DEF File
<1>2. CaptureInv'
  BY <1>1 DEF DirInv, CaptureInv
<1>3. FixtureInv'
  BY DEF DirInv, FixtureInv, Response, Probed, Claimed
<1> QED
  BY <1>2, <1>3 DEF DirInv

\* Before the tool goes on, an open file is completed.
Filled(f, file) ==
    /\ open' = FALSE /\ captures' = captures /\ by' = by
    /\ dir' = [dir EXCEPT ![f] = file]

LEMMA FilledFacts ==
    ASSUME DirInv, NEW f \in File, NEW file, file # None, pc = f, open, Filled(f, file)
    PROVE  /\ answer \in Answers /\ asked = answer.hash
           /\ captures > 0 /\ by[f] = captures
           /\ dir'[f] = file /\ \A g \in File \ {f} : dir'[g] = dir[g]
           /\ dir' = [g \in File |-> dir'[g]] /\ by' = by /\ captures' = captures
           /\ captures' \in 0 .. MaxCaptures /\ open' = FALSE /\ by' \in [File -> Nat]
           /\ \A g \in File : by'[g] <= captures' /\ (by'[g] = 0 <=> dir'[g] = None)
<1>1. /\ answer \in Answers /\ asked = answer.hash /\ captures > 0 /\ by[f] = captures
      /\ dir = [g \in File |-> dir[g]] /\ by \in [File -> Nat] /\ captures \in 0 .. MaxCaptures
      /\ \A g \in File : by[g] <= captures /\ (by[g] = 0 <=> dir[g] = None)
  BY DEF DirInv, CaptureInv
<1>2. /\ dir' = [dir EXCEPT ![f] = file] /\ by' = by /\ captures' = captures /\ open' = FALSE
  BY DEF Filled
<1>3. /\ dir'[f] = file /\ \A g \in File \ {f} : dir'[g] = dir[g]
      /\ dir' = [g \in File |-> dir'[g]]
  BY <1>1, <1>2
<1> QED
  BY <1>1, <1>2, <1>3

LEMMA FillStep ==
    ASSUME DirInv, Fill
    PROVE  DirInv'
<1>1. open /\ open' = FALSE /\ captures' = captures /\ by' = by
  BY DEF Fill
<1>2. /\ by["metadata"] \in Nat /\ by["probe"] \in Nat /\ by["rpc-response"] \in Nat
      /\ captures \in Nat /\ None # Bad
  BY ThreeFiles
<1>3. FixtureInv
  BY DEF DirInv
<1>4. CASE pc = "rpc-response"
  <2>1. /\ dir' = [dir EXCEPT !["rpc-response"] = answer] /\ pc' = "probe"
        /\ asked' = asked /\ answer' = answer
    BY <1>4 DEF Fill
  <2>2. answer \in Answers
    BY <1>4 DEF DirInv, CaptureInv, File
  <2>3. Filled("rpc-response", answer) /\ answer # None
    BY <1>1, <2>1, <2>2, AnswerFacts DEF Filled
  <2>4. /\ asked = answer.hash /\ captures > 0 /\ by["rpc-response"] = captures
        /\ dir'["rpc-response"] = answer
        /\ \A g \in File \ {"rpc-response"} : dir'[g] = dir[g]
        /\ dir' = [g \in File |-> dir'[g]]
        /\ captures' \in 0 .. MaxCaptures /\ by' \in [File -> Nat]
        /\ \A g \in File : by'[g] <= captures' /\ (by'[g] = 0 <=> dir'[g] = None)
    BY <1>1, <1>4, <2>3, FilledFacts DEF File
  <2>5. by["probe"] < captures /\ by["metadata"] < captures
    BY <1>2, <1>3, <1>4 DEF FixtureInv
  <2>6. CaptureInv'
    BY <1>1, <2>1, <2>2, <2>4, <2>5 DEF CaptureInv, File
  <2>7. Response' = answer /\ Probed' = Probed /\ Claimed' = Claimed
    BY <2>4 DEF Response, Probed, Claimed, File
  <2>8. FixtureInv'
    BY <1>1, <1>2, <1>3, <2>1, <2>2, <2>4, <2>5, <2>7 DEF FixtureInv
  <2> QED
    BY <2>6, <2>8 DEF DirInv
<1>5. CASE pc = "probe"
  <2>1. dir' = [dir EXCEPT !["probe"] = Report]
    BY <1>5 DEF Fill
  <2>2. answer \in Answers /\ asked = answer.hash
    BY <1>5 DEF DirInv, CaptureInv, File
  <2>3. Filled("probe", Report) /\ Report # None /\ Report = ProbeTransaction(answer.hash, answer)
    BY <1>1, <2>1, <2>2, AnswerFacts DEF Filled, Report
  <2>4. /\ captures > 0 /\ by["probe"] = captures
        /\ dir'["probe"] = Report
        /\ \A g \in File \ {"probe"} : dir'[g] = dir[g]
        /\ dir' = [g \in File |-> dir'[g]]
        /\ captures' \in 0 .. MaxCaptures /\ by' \in [File -> Nat]
        /\ \A g \in File : by'[g] <= captures' /\ (by'[g] = 0 <=> dir'[g] = None)
    BY <1>1, <1>5, <2>3, FilledFacts DEF File
  <2>5. /\ by["rpc-response"] = captures /\ Response = answer /\ by["metadata"] < captures
    BY <1>3, <1>5 DEF FixtureInv
  <2>6. Response' = Response /\ Probed' = Report /\ Claimed' = Claimed
    BY <2>4 DEF Response, Probed, Claimed, File
  <2>7. CASE pc' = "metadata" /\ asked' = asked /\ answer' = answer
    <3>1. CaptureInv'
      BY <1>1, <2>2, <2>4, <2>5, <2>7 DEF CaptureInv, File
    <3>2. Report' = Report
      BY <2>7 DEF Report
    <3>3. FixtureInv'
      BY <1>1, <1>2, <1>3, <2>3, <2>4, <2>5, <2>6, <2>7, <3>2 DEF FixtureInv
    <3> QED
      BY <3>1, <3>3 DEF DirInv
  <2>8. CASE Done
    <3>1. pc' = "idle" /\ answer' = None /\ pc' \notin File
      BY <2>8 DEF Done, File
    <3>2. CaptureInv'
      BY <1>1, <2>4, <3>1 DEF CaptureInv
    <3>3. FixtureInv'
      BY <1>1, <1>2, <1>3, <2>3, <2>4, <2>5, <2>6, <3>1 DEF FixtureInv
    <3> QED
      BY <3>2, <3>3 DEF DirInv
  <2> QED
    BY <1>5, <2>7, <2>8 DEF Fill
<1>6. CASE pc = "metadata"
  <2>1. dir' = [dir EXCEPT !["metadata"] = Metadata(Report)] /\ Done
    BY <1>6 DEF Fill
  <2>2. answer \in Answers /\ asked = answer.hash
    BY <1>6 DEF DirInv, CaptureInv, File
  <2>3. Filled("metadata", Metadata(Report)) /\ Metadata(Report) # None
    BY <1>1, <2>1, <2>2, AnswerFacts DEF Filled, Report
  <2>4. /\ captures > 0 /\ by["metadata"] = captures
        /\ dir'["metadata"] = Metadata(Report)
        /\ \A g \in File \ {"metadata"} : dir'[g] = dir[g]
        /\ dir' = [g \in File |-> dir'[g]]
        /\ captures' \in 0 .. MaxCaptures /\ by' \in [File -> Nat]
        /\ \A g \in File : by'[g] <= captures' /\ (by'[g] = 0 <=> dir'[g] = None)
    BY <1>1, <1>6, <2>3, FilledFacts DEF File
  <2>5. /\ by["rpc-response"] = captures /\ Response = answer
        /\ by["probe"] = captures /\ Probed = Report
    BY <1>3, <1>6 DEF FixtureInv
  <2>6. Response' = Response /\ Probed' = Probed /\ Claimed' = Metadata(Report)
    BY <2>4 DEF Response, Probed, Claimed, File
  <2>7. pc' = "idle" /\ answer' = None /\ pc' \notin File
    BY <2>1 DEF Done, File
  <2>8. CaptureInv'
    BY <1>1, <2>4, <2>7 DEF CaptureInv
  <2>9. FixtureInv'
    BY <1>1, <1>2, <1>3, <2>4, <2>5, <2>6, <2>7 DEF FixtureInv
  <2> QED
    BY <2>8, <2>9 DEF DirInv
<1> QED
  BY <1>4, <1>5, <1>6 DEF Fill

LEMMA DirStep ==
    ASSUME DirInv, [Next]_vars
    PROVE  DirInv'
<1>1. CASE ScanPage \/ ScanEnds \/ ScanFails
  <2>1. /\ captures' = captures /\ asked' = asked /\ answer' = answer /\ open' = open
        /\ dir' = dir /\ by' = by
    BY <1>1 DEF ScanPage, ScanEnds, ScanFails, captureVars
  <2>2. pc \notin File /\ pc' \notin File
    BY <1>1 DEF ScanPage, ScanEnds, ScanFails, CanScan, File
  <2>3. CaptureInv'
    BY <2>1, <2>2 DEF DirInv, CaptureInv
  <2>4. FixtureInv'
    BY <2>1, <2>2 DEF DirInv, FixtureInv, Response, Probed, Claimed, File
  <2> QED
    BY <2>3, <2>4 DEF DirInv
<1>2. CASE AskFails
  <2>1. /\ pc = "idle" /\ captures < MaxCaptures /\ captures' = captures + 1
        /\ pc' = pc /\ asked' = asked /\ answer' = answer /\ open' = open
        /\ dir' = dir /\ by' = by
    BY <1>2 DEF AskFails
  <2>2. pc \notin File /\ pc' \notin File
    BY <2>1 DEF File
  <2>3. captures \in Nat /\ \A f \in File : by[f] \in Nat /\ by[f] <= captures
    BY ThreeFiles
  <2>4. captures' \in 0 .. MaxCaptures /\ \A f \in File : by'[f] <= captures'
    BY <2>1, <2>3, ProbeAssumption
  <2>5. CaptureInv'
    BY <2>1, <2>2, <2>4 DEF DirInv, CaptureInv
  <2>6. FixtureInv'
    BY <2>1, <2>2 DEF DirInv, FixtureInv, Response, Probed, Claimed, File
  <2> QED
    BY <2>5, <2>6 DEF DirInv
<1>3. CASE Stop
  <2>1. /\ pc' = "idle" /\ asked' = None /\ answer' = None /\ open' = FALSE
        /\ captures' = captures /\ dir' = dir /\ by' = by
    BY <1>3 DEF Stop, Done
  <2> QED
    BY <2>1, DoneStep
<1>4. CASE UNCHANGED vars
  <2>1. /\ captures' = captures /\ asked' = asked /\ answer' = answer /\ open' = open
        /\ dir' = dir /\ by' = by /\ pc' = pc
    BY <1>4 DEF vars, captureVars
  <2>2. CaptureInv'
    BY <2>1 DEF DirInv, CaptureInv
  <2>3. FixtureInv'
    BY <2>1 DEF DirInv, FixtureInv, Response, Probed, Claimed, Report
  <2> QED
    BY <2>2, <2>3 DEF DirInv
<1> QED
  BY <1>1, <1>2, <1>3, <1>4, AskStep, OpenStep, FillStep DEF Next, Capture

-----------------------------------------------------------------------------
(***************************************************************************)
(* The properties of the probe.                                            *)
(***************************************************************************)

LEMMA Invariants ==
    Spec => [](ScanInv /\ DirInv)
<1>1. Init => ScanInv /\ DirInv
  BY ScanStarts, CaptureStarts
<1>2. ScanInv /\ DirInv /\ [Next]_vars => (ScanInv /\ DirInv)'
  BY ScanStep, DirStep
<1> QED
  BY <1>1, <1>2, PTL DEF Spec

\* The type invariant: a scan stays within its bounds and finds hits only, an
\* answer is held exactly while it is being written, the file that is open is
\* Bad, and a file has a writer exactly when there is one.
THEOREM TypeCorrect ==
    Spec => []TypeOK
<1>1. ScanInv /\ DirInv => TypeOK
  <2> SUFFICES ASSUME ScanInv, DirInv PROVE TypeOK
    OBVIOUS
  <2>1. pc \in File \cup {"scan", "list", "idle"}
    BY DEF ScanInv
  <2>2. ledger \in 0 .. MaxLedger /\ pages \in 0 .. MaxPages /\ Len(found) <= Want
    BY ChainFacts DEF ScanInv, ScanTyped
  <2>3. Range(found) \cup listed \subseteq Hit
    <3>1. found \in Seq(Hit) /\ listed \subseteq Hit
      BY DEF ScanInv, ScanTyped
    <3>2. \A i \in DOMAIN found : found[i] \in Hit
      BY <3>1
    <3> QED
      BY <3>1, <3>2 DEF Range
  <2>4. captures \in 0 .. MaxCaptures
    BY DEF DirInv, CaptureInv
  <2>5. (answer # None) <=> (pc \in File)
    BY AnswerFacts DEF DirInv, CaptureInv
  <2>6. open => pc \in File /\ dir[pc] = Bad
    BY DEF DirInv, CaptureInv
  <2>7. \A f \in File : by[f] \in 0 .. captures /\ (by[f] = 0 <=> dir[f] = None)
    BY ThreeFiles
  <2> QED
    BY <2>1, <2>2, <2>3, <2>4, <2>5, <2>6, <2>7 DEF TypeOK
<1> QED
  BY <1>1, Invariants, PTL

\* What a capture measures with the probe is what the analysis of its recording
\* decodes, for every answer an endpoint may give (probe.rs, decode.rs).
THEOREM ProbeAgrees ==
    Spec => []ProbeAgreesWithDecoder
<1>1. DirInv => ProbeAgreesWithDecoder
  <2> SUFFICES ASSUME DirInv, answer # None PROVE Agree(asked, answer)
    BY DEF ProbeAgreesWithDecoder
  <2>1. answer \in Answers /\ asked = answer.hash
    BY DEF DirInv, CaptureInv
  <2> QED
    BY <2>1, ReadersAgree
<1> QED
  BY <1>1, Invariants, PTL

\* Three whole files of one capture are the answer it got, the probe's report
\* of it and what the report claims.
LEMMA OneCapture ==
    ASSUME DirInv, Bad \notin {Response, Probed, Claimed}, Claimed # None,
           by["rpc-response"] = by["metadata"]
    PROVE  /\ Response \in Answers
           /\ Probed = ProbeTransaction(Response.hash, Response)
           /\ Claimed = Metadata(Probed)
           /\ None \notin {Response, Probed, Claimed}
<1>1. /\ by["metadata"] \in Nat /\ by["probe"] \in Nat /\ by["rpc-response"] \in Nat
      /\ \A f \in File : by[f] = 0 <=> dir[f] = None
  BY ThreeFiles
<1>2. by["metadata"] <= by["probe"] /\ by["probe"] <= by["rpc-response"]
  BY DEF DirInv, FixtureInv
<1>3. by["metadata"] = by["probe"] /\ by["probe"] = by["rpc-response"] /\ by["metadata"] # 0
  BY <1>1, <1>2 DEF Claimed, File
<1>4. None \notin {Response, Probed, Claimed}
  BY <1>1, <1>3 DEF Response, Probed, Claimed, File
<1>5. by["probe"] > 0 /\ by["metadata"] > 0
  BY <1>1, <1>3
<1> QED
  BY <1>3, <1>4, <1>5 DEF DirInv, FixtureInv

\* What an accepted answer decodes to, in the words of its probe.
LEMMA AcceptedFacts ==
    ASSUME NEW a \in Answers, NEW report, report = ProbeTransaction(a.hash, a)
    PROVE  /\ Len(LocateDiagnostics(a).events) = report.count <=> Lost(a) = 0
           /\ DecodeError(a) = None => Metadata(report).fee_bumped = (a.result.feeBump # None)
           /\ DecodeError(a) = None /\ a.status = "FAILED" /\ Lost(a) = 0 =>
                 report.verdict = "SufficientForAnalysis" \/ report.count = 0
<1> DEFINE raw       == LocateDiagnosticEvents(a).raw
           undecoded == Cardinality({i \in DOMAIN raw : raw[i] = Bad})
           events    == LocateDiagnostics(a).events
<1>1. /\ report.count = Len(raw) /\ report.verdict = ProbeVerdict(a, undecoded, Len(raw))
      /\ Usable(a.result) => report.signal = FailureSignal(a.result)
  BY DEF ProbeTransaction
<1>2. /\ Len(raw) \in Nat /\ undecoded \in 0 .. Len(raw)
      /\ Len(events) = Len(raw) - undecoded
  BY SameEvents
<1>3. Lost(a) = Len(raw) - Len(events)
  BY DEF Lost
<1> HIDE DEF raw, undecoded, events
<1>4. Len(events) = report.count <=> Lost(a) = 0
  BY <1>1, <1>2, <1>3
<1>5. ASSUME DecodeError(a) = None
      PROVE  Metadata(report).fee_bumped = (a.result.feeBump # None)
  <2>1. Usable(a.result)
    BY <1>5, DecodeErrorFacts
  <2>2. FailureSignal(a.result) # None
    BY <2>1, AnswerAssumption
  <2>3. Metadata(report).fee_bumped = FailureSignal(a.result).fee_bumped
    BY <1>1, <2>1, <2>2 DEF Metadata
  <2> QED
    BY <2>3 DEF FailureSignal
<1>6. ASSUME DecodeError(a) = None, a.status = "FAILED", Lost(a) = 0
      PROVE  report.verdict = "SufficientForAnalysis" \/ report.count = 0
  <2>1. Usable(a.envelope) /\ Usable(a.result)
    BY <1>6, DecodeErrorFacts
  <2>2. undecoded = 0
    BY <1>2, <1>3, <1>6
  <2>3. Len(raw) > 0 => report.verdict = "SufficientForAnalysis"
    BY <1>1, <1>6, <2>1, <2>2, VerdictFacts
  <2> QED
    BY <1>1, <1>2, <2>3
<1> QED
  BY <1>4, <1>5, <1>6 DEF events

\* The tests of crates/sdo/tests/fixtures.rs accept the three files of one
\* capture exactly when they are a failure at a known stage that decodes with no
\* event lost, and the claims the files then make are true.
THEOREM AcceptedIsWhole ==
    Spec => []AcceptedFixturesAreWhole
<1>1. ASSUME DirInv, Bad \notin {Response, Probed, Claimed}, Claimed # None,
             by["rpc-response"] = by["metadata"]
      PROVE  /\ Accepted <=> /\ Response.status = "FAILED"
                             /\ DecodeError(Response) = None
                             /\ KnownStage(Response)
                             /\ Lost(Response) = 0
             /\ Accepted => /\ Claimed.fee_bumped = (Response.result.feeBump # None)
                            /\ Probed.verdict = "SufficientForAnalysis" \/ Probed.count = 0
  <2>1. /\ Response \in Answers
        /\ Probed = ProbeTransaction(Response.hash, Response)
        /\ Claimed = Metadata(Probed)
        /\ None \notin {Response, Probed, Claimed}
    BY <1>1, OneCapture
  <2>2. \A f \in File : dir[f] \notin {None, Bad}
    BY <1>1, <2>1 DEF File, Response, Probed, Claimed
  <2>3. /\ Probed.transaction = Response.hash /\ Probed.ledger = Response.ledger
        /\ Claimed.transaction_hash = Probed.transaction /\ Claimed.ledger = Probed.ledger
        /\ Claimed.diagnostic_event_count = Probed.count
    BY <2>1 DEF ProbeTransaction, Metadata
  <2>4. /\ Len(LocateDiagnostics(Response).events) = Probed.count <=> Lost(Response) = 0
        /\ DecodeError(Response) = None =>
              Metadata(Probed).fee_bumped = (Response.result.feeBump # None)
        /\ DecodeError(Response) = None /\ Response.status = "FAILED" /\ Lost(Response) = 0 =>
              Probed.verdict = "SufficientForAnalysis" \/ Probed.count = 0
    BY <2>1, AcceptedFacts
  <2>5. Accepted <=> /\ Response.status = "FAILED"
                     /\ DecodeError(Response) = None
                     /\ KnownStage(Response)
                     /\ Lost(Response) = 0
    <3>1. /\ {Response.hash, Probed.transaction, Claimed.transaction_hash} = {Response.hash}
          /\ {Response.ledger, Probed.ledger, Claimed.ledger} = {Response.ledger}
      BY <2>3
    <3> QED
      BY <2>2, <2>3, <2>4, <3>1 DEF Accepted
  <2> QED
    BY <2>1, <2>4, <2>5
<1>2. DirInv => AcceptedFixturesAreWhole
  <2> SUFFICES ASSUME DirInv PROVE AcceptedFixturesAreWhole
    OBVIOUS
  <2>1. Accepted => Bad \notin {Response, Probed, Claimed} /\ Claimed # None
    BY DEF Accepted, File, Response, Probed, Claimed
  <2> QED
    BY <1>1, <2>1 DEF AcceptedFixturesAreWhole
<1> QED
  BY <1>2, Invariants, PTL

=============================================================================
