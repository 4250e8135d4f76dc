--------------------------- MODULE Explain_proofs ---------------------------
(***************************************************************************)
(* What one run of `sdo explain` asks for and what it names, for any       *)
(* transaction, contracts and code, whatever the ledger does meanwhile.    *)
(***************************************************************************)
EXTENDS Explain, ContractErrors_proofs

-----------------------------------------------------------------------------
(***************************************************************************)
(* Who is identified.  Nothing here depends on the specs supplied.         *)
(***************************************************************************)

\* A decoded transaction, as far as identification reads it.
Readable(m) ==
    \E k \in Nat : /\ DOMAIN m.errors = 1 .. k
                   /\ \A i \in 1 .. k : m.errors[i].contract \in Contract \cup {None}

LEMMA DecodedIsReadable ==
    ASSUME tx \in Transactions, NEW m \in Decoded
    PROVE  Readable(m)
<1>1. /\ tx.errors \in Seq(Range(tx.errors))
      /\ \A e \in Range(tx.errors) : /\ "contract" \in DOMAIN e
                                     /\ e.contract \in Contract \cup {None}
  BY ExplainAssumption
<1>2. PICK S \in SUBSET DOMAIN tx.errors : m.errors = Kept(tx.errors, S)
  BY DEF Decoded
<1> DEFINE k == Len(tx.errors)
           kept == Only(tx.errors, S)
<1>3. k \in Nat /\ DOMAIN tx.errors = 1 .. k
  BY <1>1
<1>4. \A i \in S : tx.errors[i] \in Range(tx.errors)
  BY <1>2 DEF Range
<1>5. kept \in Seq(Range(tx.errors))
  <2> HIDE DEF k
  <2>1. S \in SUBSET (1 .. k)
    BY <1>2, <1>3
  <2> QED
    BY <1>3, <1>4, <2>1, OnlyIsASequence
<1>6. m.errors = [i \in DOMAIN kept |-> [kept[i] EXCEPT !.index = i]]
  BY <1>2 DEF Kept
<1> HIDE DEF kept
<1>7. Len(kept) \in Nat /\ DOMAIN kept = 1 .. Len(kept)
  BY <1>5
<1>8. ASSUME NEW i \in 1 .. Len(kept)
      PROVE  m.errors[i].contract \in Contract \cup {None}
  <2>1. kept[i] \in Range(tx.errors)
    BY <1>5, <1>7
  <2>2. m.errors[i] = [kept[i] EXCEPT !.index = i]
    BY <1>6, <1>7
  <2>3. m.errors[i].contract = kept[i].contract
    BY <1>1, <2>1, <2>2
  <2> QED
    BY <1>1, <2>1, <2>3
<1> QED
  BY <1>6, <1>7, <1>8 DEF Readable

\* The reports identify the same contracts whatever the specs are.
LEMMA ReportsAreNamed ==
    ASSUME NEW m, NEW specs
    PROVE  LET reports == ResolveContractErrors(m.errors, m.terminal, specs, m.loaded)
           IN /\ DOMAIN reports = DOMAIN Named(m)
              /\ \A i \in DOMAIN reports : Identified(reports[i].who) = Named(m)[i]
BY DEF Named, ResolveContractErrors

LEMMA NamedFacts ==
    ASSUME NEW m, Readable(m)
    PROVE  \E n \in Nat : /\ DOMAIN Named(m) = 1 .. n
                          /\ \A i \in 1 .. n : Named(m)[i] \in Contract \cup {None}
<1>1. PICK k \in Nat : /\ DOMAIN m.errors = 1 .. k
                       /\ \A i \in 1 .. k : m.errors[i].contract \in Contract \cup {None}
  BY DEF Readable
<1> DEFINE codes == CodesInOrder(m.errors, m.terminal)
<1>2. PICK n \in Nat : DOMAIN codes = 1 .. n
  BY <1>1, CodesAreListed
<1>3. DOMAIN Named(m) = 1 .. n
  BY <1>2 DEF Named, ResolveContractErrors
<1>4. \A i \in 1 .. n : Named(m)[i] = Identified(Identify(m.errors, codes[i]))
  BY <1>2 DEF Named, ResolveContractErrors
<1> QED
  BY <1>1, <1>3, <1>4, IdentifiedIsAContract

\* The contracts that some report identifies.
Wanted(m) == {Named(m)[i] : i \in DOMAIN Named(m)} \ {None}

\* contracts_needing_specs lists them, each once.
LEMMA NeededFacts ==
    ASSUME NEW m, Readable(m)
    PROVE  LET needing == ContractsNeedingSpecs(m)
           IN /\ needing \in Seq(Contract)
              /\ Range(needing) = Wanted(m)
              /\ \A i, j \in DOMAIN needing : needing[i] = needing[j] => i = j
<1> DEFINE who   == Named(m)
           first == {i \in DOMAIN who : who[i] # None /\ \A j \in 1 .. i - 1 : who[j] # who[i]}
<1>1. PICK n \in Nat : /\ DOMAIN who = 1 .. n
                       /\ \A i \in 1 .. n : who[i] \in Contract \cup {None}
  BY NamedFacts
<1>2. ContractsNeedingSpecs(m) = Only(who, first)
  BY DEF ContractsNeedingSpecs
<1>3. first \in SUBSET (1 .. n) /\ \A i \in first : who[i] \in Contract
  BY <1>1
<1>4. ASSUME NEW i \in first, NEW j \in first, who[i] = who[j]
      PROVE  i = j
  BY <1>1, <1>4
<1>5. Held(who, first) = Wanted(m)
  <2>1. Held(who, first) \subseteq Wanted(m)
    BY DEF Wanted, Held
  <2>2. ASSUME NEW i \in 1 .. n, who[i] # None
        PROVE  \E j \in first : who[j] = who[i]
    <3> DEFINE same == {j \in 1 .. n : who[j] = who[i]}
    <3>1. same \in SUBSET Nat /\ same # {}
      OBVIOUS
    <3>2. PICK j \in same : \A l \in same : j <= l
      <4> HIDE DEF same
      <4> QED
        BY <3>1, LeastElement
    <3>3. \A l \in 1 .. j - 1 : who[l] # who[j]
      BY <1>1, <3>2
    <3> QED
      BY <1>1, <2>2, <3>2, <3>3
  <2>3. ASSUME NEW x \in Wanted(m) PROVE x \in Held(who, first)
    <3>1. PICK i \in 1 .. n : who[i] = x /\ who[i] # None
      BY <1>1 DEF Wanted
    <3> HIDE DEF first
    <3> QED
      BY <2>2, <3>1 DEF Held
  <2> QED
    BY <2>1, <2>3
<1> HIDE DEF first, who
<1>6. Only(who, first) \in Seq(Contract)
  BY <1>3, OnlyIsASequence
<1>7. Range(Only(who, first)) = Held(who, first)
  BY <1>3, OnlyHolds
<1>8. \A i, j \in DOMAIN Only(who, first) :
         Only(who, first)[i] = Only(who, first)[j] => i = j
  <2>1. \A i, j \in first : who[i] = who[j] => i = j
    BY <1>4
  <2> QED
    BY <1>3, <2>1, OnlyOnce
<1> QED
  BY <1>2, <1>5, <1>6, <1>7, <1>8

-----------------------------------------------------------------------------
(***************************************************************************)
(* The run.                                                                *)
(***************************************************************************)

\* A sequence without repetitions.
Distinct(s) == \A i, j \in DOMAIN s : s[i] = s[j] => i = j

LEMMA HeadAndTail ==
    ASSUME NEW T, NEW s \in Seq(T), s # << >>, Distinct(s)
    PROVE  /\ Head(s) \in T /\ Tail(s) \in Seq(T)
           /\ Range(s) = {Head(s)} \cup Range(Tail(s))
           /\ Head(s) \notin Range(Tail(s))
           /\ Distinct(Tail(s))
<1>1. /\ Len(s) \in Nat \ {0} /\ DOMAIN s = 1 .. Len(s)
      /\ Head(s) = s[1] /\ Head(s) \in T /\ Tail(s) \in Seq(T)
      /\ Len(Tail(s)) = Len(s) - 1 /\ DOMAIN Tail(s) = 1 .. Len(s) - 1
  OBVIOUS
<1>2. \A i \in 1 .. Len(s) - 1 : Tail(s)[i] = s[i + 1] /\ i + 1 \in 1 .. Len(s)
  BY <1>1
<1>3. \A i \in 1 .. Len(s) : i = 1 \/ (i - 1 \in 1 .. Len(s) - 1 /\ Tail(s)[i - 1] = s[i])
  BY <1>1, <1>2
<1>4. Range(s) = {Head(s)} \cup Range(Tail(s))
  <2>1. \A i \in 1 .. Len(s) : s[i] \in {Head(s)} \cup Range(Tail(s))
    BY <1>1, <1>3 DEF Range
  <2>2. Head(s) \in Range(s)
    BY <1>1 DEF Range
  <2>3. \A i \in 1 .. Len(s) - 1 : Tail(s)[i] \in Range(s)
    BY <1>1, <1>2 DEF Range
  <2>4. Range(s) \subseteq {Head(s)} \cup Range(Tail(s))
    BY <1>1, <2>1 DEF Range
  <2>5. Range(Tail(s)) \subseteq Range(s)
    BY <1>1, <2>3 DEF Range
  <2> QED
    BY <2>2, <2>4, <2>5
<1>5. Head(s) \notin Range(Tail(s))
  <2> SUFFICES ASSUME NEW i \in 1 .. Len(s) - 1, Tail(s)[i] = s[1] PROVE FALSE
    BY <1>1 DEF Range
  <2>1. s[i + 1] = s[1] /\ i + 1 \in DOMAIN s /\ 1 \in DOMAIN s /\ i + 1 # 1
    BY <1>1, <1>2
  <2> QED
    BY <2>1 DEF Distinct
<1>6. Distinct(Tail(s))
  <2> SUFFICES ASSUME NEW i \in 1 .. Len(s) - 1, NEW j \in 1 .. Len(s) - 1,
                      Tail(s)[i] = Tail(s)[j]
               PROVE  i = j
    BY <1>1 DEF Distinct
  <2>1. s[i + 1] = s[j + 1] /\ i + 1 \in DOMAIN s /\ j + 1 \in DOMAIN s
    BY <1>1, <1>2
  <2>2. i + 1 = j + 1
    BY <2>1 DEF Distinct
  <2> QED
    BY <2>2
<1> QED
  BY <1>1, <1>4, <1>5, <1>6

StepInv ==
    /\ tx \in Transactions
    /\ pc \in {"fetch", "error", "instance", "code", "done"}
    /\ deployed \in [Contract -> Executable \cup {NotFound}]
    /\ needed \in Seq(Contract) /\ Distinct(needed)
    /\ Range(needed) \cap DOMAIN supplied = {}
    /\ pc = "code" => needed # << >> /\ hash \in Wasm \ DOMAIN byHash
    /\ pc # "code" => hash = None
    /\ pc = "done" => needed = << >>

\* What is supplied for a contract is what was found for the code it was found
\* to have; a contract whose code is being fetched is answered for already.
MapsInv ==
    /\ DOMAIN supplied \subseteq Contract
    /\ DOMAIN answered = DOMAIN supplied \cup (IF pc = "code" THEN {Head(needed)} ELSE {})
    /\ pc = "code" => answered[Head(needed)] = hash
    /\ DOMAIN byHash \subseteq Wasm
    /\ \A w \in DOMAIN byHash : byHash[w] \in Fetched(w)
    /\ \A c \in DOMAIN supplied :
          IF answered[c] \in Wasm
          THEN answered[c] \in DOMAIN byHash /\ supplied[c] = byHash[answered[c]]
          ELSE supplied[c] = Unavailable

\* Looked up or still to be: the contracts that some report identifies.
WantedInv ==
    /\ pc \in {"fetch", "error"} => needed = << >> /\ DOMAIN supplied = {}
    /\ pc \in {"instance", "code", "done"} =>
          /\ Readable(input)
          /\ DOMAIN supplied \cup Range(needed) =
                IF source = "nowhere" THEN {} ELSE Wanted(input)

AskedInv ==
    asked = [x \in Contract \cup Wasm |->
                IF x \in DOMAIN answered \cup DOMAIN byHash THEN 1 ELSE 0]

RunInv == StepInv /\ MapsInv /\ WantedInv /\ AskedInv

LEMMA RunInit == Init => RunInv
<1> SUFFICES ASSUME Init PROVE RunInv
  OBVIOUS
<1>1. DOMAIN Nothing = {}
  BY DEF Nothing
<1>2. Range(<< >>) = {} /\ Distinct(<< >>)
  BY DEF Range, Distinct
<1>3. StepInv
  BY <1>1, <1>2, LookupAssumption DEF Init, StepInv
<1>4. MapsInv
  BY <1>1 DEF Init, MapsInv
<1>5. WantedInv /\ AskedInv
  BY <1>1 DEF Init, WantedInv, AskedInv
<1> QED
  BY <1>3, <1>4, <1>5 DEF RunInv

\* What is asked for the first time is counted.
LEMMA AskingCounts ==
    ASSUME AskedInv, NEW x \in Contract \cup Wasm, Ask(x),
           x \notin DOMAIN answered \cup DOMAIN byHash,
           (DOMAIN answered \cup DOMAIN byHash)' = (DOMAIN answered \cup DOMAIN byHash) \cup {x}
    PROVE  AskedInv'
<1>1. asked[x] = 0
  BY DEF AskedInv
<1>2. asked' = [asked EXCEPT ![x] = 1]
  BY <1>1 DEF Ask
<1> QED
  BY <1>2 DEF AskedInv

LEMMA FetchKeeps == RunInv /\ Fetch => RunInv'
<1> SUFFICES ASSUME RunInv, Fetch PROVE RunInv'
  OBVIOUS
<1> USE DEF RunInv
<1>1. /\ pc = "fetch" /\ pc' = "instance" /\ input' \in Decoded
      /\ UNCHANGED <<source, tx, hash, byHash, supplied, deployed, answered, asked>>
      /\ needed' = IF source = "nowhere" THEN << >> ELSE ContractsNeedingSpecs(input')
  BY DEF Fetch
<1>2. DOMAIN supplied = {} /\ hash = None /\ tx \in Transactions
  BY <1>1 DEF WantedInv, StepInv
<1>3. Readable(input')
  BY <1>1, <1>2, DecodedIsReadable
<1>4. /\ needed' \in Seq(Contract) /\ Distinct(needed')
      /\ Range(needed') = IF source = "nowhere" THEN {} ELSE Wanted(input')
  <2>1. CASE source = "nowhere"
    BY <1>1, <2>1 DEF Range, Distinct
  <2>2. CASE source # "nowhere"
    BY <1>1, <1>3, <2>2, NeededFacts DEF Distinct
  <2> QED
    BY <2>1, <2>2
<1>5. StepInv'
  BY <1>1, <1>2, <1>4 DEF StepInv
<1>6. MapsInv'
  BY <1>1, <1>2 DEF MapsInv
<1>7. WantedInv'
  BY <1>1, <1>2, <1>3, <1>4 DEF WantedInv
<1>8. AskedInv'
  BY <1>1 DEF AskedInv
<1> QED
  BY <1>5, <1>6, <1>7, <1>8

\* A contract is crossed off the list with what was found for it.
LEMMA SupplyKeeps ==
    ASSUME RunInv, pc \in {"instance", "code"}, needed # << >>,
           NEW availability, Supply(availability),
           pc' = "instance", hash' = None, UNCHANGED <<tx, source, input, deployed>>
    PROVE  /\ StepInv' /\ WantedInv'
           /\ DOMAIN supplied' = DOMAIN supplied \cup {Head(needed)}
           /\ Head(needed) \in Contract \ DOMAIN supplied
           /\ supplied'[Head(needed)] = availability
           /\ \A c \in DOMAIN supplied : supplied'[c] = supplied[c] /\ c # Head(needed)
<1> USE DEF RunInv
<1>1. /\ needed \in Seq(Contract) /\ Distinct(needed)
      /\ Range(needed) \cap DOMAIN supplied = {}
  BY DEF StepInv
<1>2. supplied' = Insert(supplied, Head(needed), availability) /\ needed' = Tail(needed)
  BY DEF Supply
<1>3. /\ Head(needed) \in Contract /\ needed' \in Seq(Contract) /\ Distinct(needed')
      /\ Range(needed) = {Head(needed)} \cup Range(needed')
      /\ Head(needed) \notin Range(needed')
  BY <1>1, <1>2, HeadAndTail
<1>4. /\ DOMAIN supplied' = DOMAIN supplied \cup {Head(needed)}
      /\ supplied'[Head(needed)] = availability
      /\ \A c \in DOMAIN supplied \ {Head(needed)} : supplied'[c] = supplied[c]
  BY <1>2 DEF Insert
<1>5. Head(needed) \notin DOMAIN supplied
  BY <1>1, <1>3
<1>6. StepInv'
  BY <1>1, <1>3, <1>4 DEF StepInv
<1>7. WantedInv'
  <2>1. DOMAIN supplied' \cup Range(needed') = DOMAIN supplied \cup Range(needed)
    BY <1>3, <1>4
  <2> QED
    BY <2>1 DEF WantedInv
<1> QED
  BY <1>3, <1>4, <1>5, <1>6, <1>7

LEMMA FetchInstanceKeeps == RunInv /\ FetchInstance => RunInv'
<1> SUFFICES ASSUME RunInv, FetchInstance PROVE RunInv'
  OBVIOUS
<1> USE DEF RunInv
<1> DEFINE c == Head(needed)
<1>1. /\ pc = "instance" /\ needed # << >> /\ Ask(c)
      /\ UNCHANGED <<source, tx, input, byHash, deployed>>
  BY DEF FetchInstance
<1>2. PICK answer \in {deployed[c], Failed} :
        /\ answered' = Insert(answered, c, answer)
        /\ IF answer \in Wasm \ DOMAIN byHash
           THEN pc' = "code" /\ hash' = answer /\ UNCHANGED <<needed, supplied>>
           ELSE /\ Supply(IF answer \in Wasm THEN byHash[answer] ELSE Unavailable)
                /\ UNCHANGED <<pc, hash>>
  BY DEF FetchInstance
<1>3. /\ c \in Contract /\ c \notin DOMAIN supplied /\ hash = None
      /\ DOMAIN answered = DOMAIN supplied
  <2>1. needed \in Seq(Contract) /\ Distinct(needed) /\ Range(needed) \cap DOMAIN supplied = {}
    BY DEF StepInv
  <2>2. c \in Contract /\ c \in Range(needed)
    BY <1>1, <2>1, HeadAndTail
  <2> QED
    BY <1>1, <2>1, <2>2 DEF StepInv, MapsInv
<1>4. /\ DOMAIN answered' = DOMAIN answered \cup {c}
      /\ answered'[c] = answer
      /\ \A d \in DOMAIN answered \ {c} : answered'[d] = answered[d]
  BY <1>2 DEF Insert
<1> HIDE DEF c
<1>5. AskedInv'
  <2>1. c \notin DOMAIN byHash
    BY <1>3, ExplainAssumption DEF MapsInv
  <2> QED
    BY <1>1, <1>3, <1>4, <2>1, AskingCounts
<1>6. CASE answer \in Wasm \ DOMAIN byHash
  <2>1. pc' = "code" /\ hash' = answer /\ UNCHANGED <<needed, supplied>>
    BY <1>2, <1>6
  <2>2. StepInv'
    BY <1>1, <1>6, <2>1 DEF StepInv
  <2>3. WantedInv'
    BY <1>1, <2>1 DEF WantedInv
  <2>4. MapsInv'
    BY <1>1, <1>3, <1>4, <1>6, <2>1 DEF MapsInv, c
  <2> QED
    BY <1>5, <2>2, <2>3, <2>4
<1>7. CASE answer \notin Wasm \ DOMAIN byHash
  <2> DEFINE found == IF answer \in Wasm THEN byHash[answer] ELSE Unavailable
  <2>1. Supply(found) /\ pc' = "instance" /\ hash' = None
    BY <1>1, <1>2, <1>3, <1>7
  <2> HIDE DEF found
  <2>2. /\ StepInv' /\ WantedInv'
        /\ DOMAIN supplied' = DOMAIN supplied \cup {c}
        /\ supplied'[c] = found
        /\ \A d \in DOMAIN supplied : supplied'[d] = supplied[d] /\ d # c
    BY <1>1, <2>1, SupplyKeeps DEF c
  <2>3. MapsInv'
    BY <1>1, <1>3, <1>4, <1>7, <2>1, <2>2 DEF MapsInv, found
  <2> QED
    BY <1>5, <2>2, <2>3
<1> QED
  BY <1>6, <1>7

LEMMA FetchCodeKeeps == RunInv /\ FetchCode => RunInv'
<1> SUFFICES ASSUME RunInv, FetchCode PROVE RunInv'
  OBVIOUS
<1> USE DEF RunInv
<1> DEFINE c == Head(needed)
<1>1. /\ pc = "code" /\ Ask(hash) /\ pc' = "instance" /\ hash' = None
      /\ UNCHANGED <<source, tx, input, deployed, answered>>
  BY DEF FetchCode
<1>2. PICK spec \in Fetched(hash) : Supply(spec) /\ byHash' = Insert(byHash, hash, spec)
  BY DEF FetchCode
<1>3. /\ needed # << >> /\ hash \in Wasm \ DOMAIN byHash
      /\ DOMAIN answered = DOMAIN supplied \cup {c} /\ answered[c] = hash
  BY <1>1 DEF StepInv, MapsInv
<1>4. /\ DOMAIN byHash' = DOMAIN byHash \cup {hash}
      /\ byHash'[hash] = spec
      /\ \A w \in DOMAIN byHash : byHash'[w] = byHash[w]
  BY <1>2, <1>3 DEF Insert
<1>5. /\ StepInv' /\ WantedInv'
      /\ DOMAIN supplied' = DOMAIN supplied \cup {c}
      /\ c \in Contract
      /\ supplied'[c] = spec
      /\ \A d \in DOMAIN supplied : supplied'[d] = supplied[d] /\ d # c
  BY <1>1, <1>2, <1>3, SupplyKeeps
<1> HIDE DEF c
<1>6. AskedInv'
  <2>1. hash \notin DOMAIN answered
    BY <1>3, <1>5, ExplainAssumption DEF MapsInv
  <2> QED
    BY <1>1, <1>3, <1>4, <2>1, AskingCounts
<1>7. MapsInv'
  BY <1>1, <1>2, <1>3, <1>4, <1>5 DEF MapsInv
<1> QED
  BY <1>5, <1>6, <1>7

LEMMA RunNext == RunInv /\ [Next]_vars => RunInv'
<1> SUFFICES ASSUME RunInv, [Next]_vars PROVE RunInv'
  OBVIOUS
<1>1. CASE GiveUp
  BY <1>1 DEF GiveUp, RunInv, StepInv, MapsInv, WantedInv, AskedInv
<1>2. CASE Report
  BY <1>2 DEF Report, RunInv, StepInv, MapsInv, WantedInv, AskedInv
<1>3. ASSUME NEW c \in Contract, Change(c) PROVE RunInv'
  <2>1. UNCHANGED runVars /\ deployed' \in [Contract -> Executable \cup {NotFound}]
    BY <1>3 DEF Change, RunInv, StepInv
  <2> QED
    BY <2>1 DEF runVars, RunInv, StepInv, MapsInv, WantedInv, AskedInv
<1>4. CASE UNCHANGED vars
  BY <1>4 DEF vars, RunInv, StepInv, MapsInv, WantedInv, AskedInv
<1> QED
  BY <1>1, <1>2, <1>3, <1>4, FetchKeeps, FetchInstanceKeeps, FetchCodeKeeps DEF Next, Work

LEMMA RunAlways == ExplainSpec => []RunInv
<1> QED
  BY RunInit, RunNext, PTL DEF ExplainSpec

-----------------------------------------------------------------------------
(***************************************************************************)
(* What holds of every run.                                                *)
(***************************************************************************)

\* The run's variables have their types: only contracts and code are looked up,
\* nobody twice, and what is supplied is a spec or that there is none.
THEOREM ExplainTypeCorrect == ExplainSpec => []TypeOK
<1>1. ASSUME RunInv PROVE TypeOK
  <2> USE <1>1 DEF RunInv
  <2>1. /\ pc \in {"fetch", "error", "instance", "code", "done"}
        /\ deployed \in [Contract -> Executable \cup {NotFound}]
        /\ pc = "code" => needed # << >> /\ hash \notin DOMAIN byHash
    BY DEF StepInv
  <2>2. pc = "code" <=> hash # None
    BY LookupAssumption DEF StepInv
  <2>3. \A i \in DOMAIN needed : needed[i] \in Contract \ DOMAIN supplied
    <3>1. needed \in Seq(Contract) /\ Range(needed) \cap DOMAIN supplied = {}
      BY DEF StepInv
    <3> QED
      BY <3>1 DEF Range
  <2>4. \A w \in Wasm : Fetched(w) \subseteq SpecAvailability
    BY DEF Fetched, SpecAvailability
  <2>5. DOMAIN byHash \subseteq Wasm
    BY DEF MapsInv
  <2>6. ASSUME NEW c \in DOMAIN supplied PROVE supplied[c] \in SpecAvailability
    <3>1. CASE answered[c] \in Wasm
      <4>1. /\ answered[c] \in DOMAIN byHash /\ supplied[c] = byHash[answered[c]]
            /\ byHash[answered[c]] \in Fetched(answered[c])
        BY <3>1 DEF MapsInv
      <4> QED
        BY <2>4, <3>1, <4>1
    <3>2. CASE answered[c] \notin Wasm
      BY <3>2 DEF MapsInv, SpecAvailability
    <3> QED
      BY <3>1, <3>2
  <2> QED
    BY <2>1, <2>2, <2>3, <2>5, <2>6 DEF TypeOK
<1> QED
  BY <1>1, RunAlways, PTL

\* No instance and no code is asked for twice (fetch_specs).
THEOREM NobodyIsAskedTwice == ExplainSpec => []AskedOnce
<1>1. RunInv => AskedOnce
  BY DEF RunInv, AskedInv, AskedOnce
<1> QED
  BY <1>1, RunAlways, PTL

\* Contracts found to run the same code are supplied with the same spec, or
\* none of them with any.
THEOREM SharedCodeSharesItsSpec == ExplainSpec => []OneCodeOneSpec
<1>1. RunInv => OneCodeOneSpec
  BY DEF RunInv, MapsInv, OneCodeOneSpec
<1> QED
  BY <1>1, RunAlways, PTL

\* When the run ends, those looked up are those its reports identify.
THEOREM WhoIsReportedWasAsked == ExplainSpec => []AskedForWhatIsReported
<1>1. ASSUME RunInv, pc = "done"
      PROVE  DOMAIN supplied =
                IF source = "nowhere" THEN {}
                ELSE {Identified(Reports[i].who) : i \in DOMAIN Reports} \ {None}
  <2> USE <1>1 DEF RunInv
  <2>1. needed = << >>
    BY DEF StepInv
  <2>2. Range(needed) = {}
    BY <2>1 DEF Range
  <2>3. DOMAIN supplied = IF source = "nowhere" THEN {} ELSE Wanted(input)
    BY <2>2 DEF WantedInv
  <2>4. /\ DOMAIN Reports = DOMAIN Named(input)
        /\ \A i \in DOMAIN Reports : Identified(Reports[i].who) = Named(input)[i]
    BY ReportsAreNamed DEF Reports
  <2> QED
    BY <2>3, <2>4 DEF Wanted
<1>2. RunInv => AskedForWhatIsReported
  BY <1>1 DEF AskedForWhatIsReported
<1> QED
  BY <1>2, RunAlways, PTL

\* Every name printed was read from code the contract itself named, and is
\* verified exactly if the footprint has that code.
THEOREM NamesAreTheContracts == ExplainSpec => []NamesComeFromTheContract
<1>1. ASSUME RunInv, pc = "done", NEW i \in DOMAIN Reports,
             Reports[i].resolution.tag = "Resolved"
      PROVE  LET r == Reports[i]
                 w == answered[Identified(r.who)]
             IN /\ w \in Wasm
                /\ r.resolution.name \in NamesOf[w][r.code]
                /\ r.resolution.verified <=> w \in input.loaded
  <2> USE <1>1 DEF RunInv
  <2> DEFINE r     == Reports[i]
             c     == Identified(r.who)
             w     == answered[c]
             specs == [d \in Contract |->
                          IF d \in DOMAIN supplied THEN supplied[d] ELSE Unavailable]
  <2>1. r.who = Identify(input.errors, r.code)
    BY DEF Reports, ResolveContractErrors
  <2>2. r.resolution = Resolve(r.who, r.code, specs, input.loaded)
    BY DEF Reports, ResolveContractErrors
  <2>3. c \in Contract \cup {None}
    <3>1. Readable(input)
      BY DEF WantedInv
    <3>2. \A j \in DOMAIN input.errors : input.errors[j].contract \in Contract \cup {None}
      BY <3>1 DEF Readable
    <3> HIDE DEF r
    <3> QED
      BY <2>1, <3>2, IdentifiedIsAContract
  <2> HIDE DEF r, c, specs
  <2>4. /\ c # None /\ specs[c] # None
        /\ r.resolution.name \in specs[c].names[r.code]
        /\ r.resolution.verified = (specs[c].hash # None /\ input.loaded # {})
        /\ specs[c].hash # None /\ input.loaded # {} => specs[c].hash \in input.loaded
    <3>1. r.resolution.tag = "Resolved"
      BY DEF r
    <3> QED
      BY <2>2, <3>1, ResolvedFacts DEF c
  <2>5. c \in DOMAIN supplied /\ specs[c] = supplied[c]
    BY <2>3, <2>4 DEF specs, Unavailable
  <2>6. /\ w \in Wasm /\ w \in DOMAIN byHash /\ supplied[c] = byHash[w]
        /\ byHash[w] \in Fetched(w)
    BY <2>4, <2>5 DEF MapsInv, Unavailable
  <2>7. specs[c] = Spec(w, NamesOf[w])
    BY <2>4, <2>5, <2>6 DEF Fetched, Unavailable
  <2>8. specs[c].hash = w /\ specs[c].names = NamesOf[w] /\ w # None
    BY <2>6, <2>7, LookupAssumption DEF Spec
  <2> QED
    BY <2>4, <2>6, <2>8 DEF r, c
<1>2. RunInv => NamesComeFromTheContract
  BY <1>1 DEF NamesComeFromTheContract
<1> QED
  BY <1>2, RunAlways, PTL

=============================================================================
