------------------------------- MODULE Explain -------------------------------
(***************************************************************************)
(* One run of `sdo explain` (sdo/src/main.rs): fetch a transaction, decode *)
(* it, fetch the specs its contract errors need, and resolve them.         *)
(*                                                                         *)
(* The ledger is external.  It is read with one request for each contract  *)
(* and one for each WASM, any of which may fail, while contracts are       *)
(* upgraded and archived between the requests.  A recorded fixture is read *)
(* the same way from a directory of recordings, or alone: then nothing is  *)
(* asked of anyone.                                                        *)
(***************************************************************************)
EXTENDS ContractErrors

CONSTANTS
    Wasm,           \* WASM hashes
    NamesOf,        \* the error names each WASM declares, None if it has no readable spec
    Transactions,   \* what may be explained: errors, terminal, loaded
    Deployments,    \* what the contracts' instances may say at first
    MaxChanges      \* bound: contracts upgraded or archived

ASSUME ExplainAssumption ==
    /\ MaxChanges \in Nat
    /\ Contract \cap Wasm = {}
    /\ \A t \in Transactions :
          /\ t.errors \in Seq(Range(t.errors))
          /\ \A e \in Range(t.errors) : "contract" \in DOMAIN e
                                       /\ e.contract \in Contract \cup {None}

VARIABLES
    source,      \* where specs are looked up: "rpc", "recorded" or "nowhere"
    tx,          \* the transaction asked for
    pc,          \* what the run does next
    input,       \* the decoded transaction
    needed,      \* contracts still to be looked up
    hash,        \* the WASM being fetched for the first of them
    byHash,      \* fetch_specs: the specs of the WASM fetched so far
    supplied,    \* fetch_specs: the availability for each contract
    deployed,    \* ledger: what each contract's instance says
    changes,
    answered,    \* history: the executable each contract was found to have
    asked        \* history: how often each entry was asked for, up to twice

runVars == <<source, tx, pc, input, needed, hash, byHash, supplied, answered, asked>>
vars == <<source, tx, pc, input, needed, hash, byHash, supplied, deployed, changes,
          answered, asked>>

StellarAsset == "stellar_asset"
ExternalRef == "external_ref"
Executable == Wasm \cup {StellarAsset, ExternalRef}
NotFound == "not_found"
Failed == "failed"

ASSUME LookupAssumption ==
    /\ Wasm \cap {StellarAsset, ExternalRef, NotFound, Failed, None} = {}
    /\ Deployments \subseteq [Contract -> Executable \cup {NotFound}]

\* A spec, or that there is none; the reason is dropped.
Unavailable == None
SpecAvailability == {Unavailable} \cup {Spec(w, NamesOf[w]) : w \in Wasm}

Nothing == [x \in {} |-> None]

Init ==
    /\ source \in {"rpc", "recorded", "nowhere"}
    /\ tx \in Transactions
    /\ pc = "fetch"
    /\ input = None
    /\ needed = << >>
    /\ hash = None
    /\ byHash = Nothing
    /\ supplied = Nothing
    /\ deployed \in Deployments
    /\ changes = 0
    /\ answered = Nothing
    /\ asked = [x \in Contract \cup Wasm |-> 0]

\* Somebody upgrades a contract or its instance is archived; recordings stay.
Change(c) ==
    /\ source = "rpc"
    /\ pc \in {"instance", "code"}
    /\ changes < MaxChanges
    /\ changes' = changes + 1
    /\ deployed' \in {[deployed EXCEPT ![c] = e] :
                        e \in (Executable \cup {NotFound}) \ {deployed[c]}}
    /\ UNCHANGED runVars

-----------------------------------------------------------------------------
\* decode_events leaves out what it cannot decode and renumbers the rest.
Kept(errors, S) ==
    LET kept == Only(errors, S) IN [i \in DOMAIN kept |-> [kept[i] EXCEPT !.index = i]]

\* The events in one of two arrays, decoded one by one, in the metadata,
\* decoded whole, or nowhere: what is lost is any part of them.
Decoded ==
    {[errors   |-> Kept(tx.errors, S),
      terminal |-> IF ended THEN [error |-> tx.terminal, index |-> Cardinality(S) + 1] ELSE None,
      loaded   |-> tx.loaded] : S \in SUBSET DOMAIN tx.errors, ended \in BOOLEAN}

\* The contract that each report identifies before any spec is known, or None.
Named(m) ==
    LET reports == ResolveContractErrors(m.errors, m.terminal,
                                         [c \in Contract |-> Unavailable], m.loaded)
    IN [i \in DOMAIN reports |-> Identified(reports[i].who)]

\* Mutant: a contract is listed again for each of its errors.
ContractsNeedingSpecs_Repeated(m) ==
    LET who == Named(m) IN Only(who, {i \in DOMAIN who : who[i] # None})

\* Mutant: only the first error, the one that ended the invocation, needs a name.
ContractsNeedingSpecs_Terminal(m) ==
    LET who == Named(m) IN Only(who, {i \in DOMAIN who : who[i] # None /\ i = 1})

\* Each contract identified for some error, once, in the order of the reports.
ContractsNeedingSpecs(m) ==
    LET who == Named(m)
    IN Only(who, {i \in DOMAIN who : who[i] # None /\ \A j \in 1 .. i - 1 : who[j] # who[i]})

\* The request fails, the endpoint does not have the transaction, or a field is
\* missing or malformed.
GiveUp ==
    /\ pc = "fetch"
    /\ pc' = "error"
    /\ UNCHANGED <<source, tx, input, needed, hash, byHash, supplied, deployed,
                   changes, answered, asked>>

Fetch ==
    /\ pc = "fetch"
    /\ input' \in Decoded
    /\ needed' = IF source = "nowhere" THEN << >> ELSE ContractsNeedingSpecs(input')
    /\ pc' = "instance"
    /\ UNCHANGED <<source, tx, hash, byHash, supplied, deployed, changes, answered, asked>>

-----------------------------------------------------------------------------
Ask(x) == asked' = [asked EXCEPT ![x] = IF @ = 2 THEN 2 ELSE @ + 1]

Insert(map, key, value) ==
    [k \in DOMAIN map \cup {key} |-> IF k = key THEN value ELSE map[k]]

Supply(availability) ==
    /\ supplied' = Insert(supplied, Head(needed), availability)
    /\ needed' = Tail(needed)

\* Mutant: a WASM that was fetched serves whatever code comes next.
FetchInstance_AnyCode ==
    /\ pc = "instance"
    /\ needed # << >>
    /\ Ask(Head(needed))
    /\ \E answer \in {deployed[Head(needed)], Failed} :
          /\ answered' = Insert(answered, Head(needed), answer)
          /\ IF answer \in Wasm /\ byHash = Nothing
             THEN /\ pc' = "code"
                  /\ hash' = answer
                  /\ UNCHANGED <<needed, supplied>>
             ELSE /\ Supply(IF answer \in Wasm THEN byHash[CHOOSE w \in DOMAIN byHash : TRUE]
                            ELSE Unavailable)
                  /\ UNCHANGED <<pc, hash>>
    /\ UNCHANGED <<source, tx, input, byHash, deployed, changes>>

\* What the contract's instance says: code fetched before, code to be fetched,
\* an executable that has no spec, or no answer.
FetchInstance ==
    /\ pc = "instance"
    /\ needed # << >>
    /\ Ask(Head(needed))
    /\ \E answer \in {deployed[Head(needed)], Failed} :
          /\ answered' = Insert(answered, Head(needed), answer)
          /\ IF answer \in Wasm \ DOMAIN byHash
             THEN /\ pc' = "code"
                  /\ hash' = answer
                  /\ UNCHANGED <<needed, supplied>>
             ELSE /\ Supply(IF answer \in Wasm THEN byHash[answer] ELSE Unavailable)
                  /\ UNCHANGED <<pc, hash>>
    /\ UNCHANGED <<source, tx, input, byHash, deployed, changes>>

\* What fetching and parsing a WASM may yield: the request may fail, the entry
\* may be archived, and the WASM may hold no readable spec.
Fetched(w) == {Unavailable} \cup (IF NamesOf[w] = None THEN {} ELSE {Spec(w, NamesOf[w])})

\* Mutant: a WASM that could not be fetched is not remembered.
FetchCode_Forget ==
    /\ pc = "code"
    /\ Ask(hash)
    /\ \E spec \in Fetched(hash) :
          /\ byHash' = IF spec = Unavailable THEN byHash ELSE Insert(byHash, hash, spec)
          /\ Supply(spec)
    /\ pc' = "instance"
    /\ hash' = None
    /\ UNCHANGED <<source, tx, input, deployed, changes, answered>>

\* Mutant: a contract whose WASM could not be fetched is looked up again.
FetchCode_TryAgain ==
    /\ pc = "code"
    /\ Ask(hash)
    /\ \E spec \in Fetched(hash) :
          IF spec = Unavailable THEN UNCHANGED <<byHash, needed, supplied>>
          ELSE Supply(spec) /\ byHash' = Insert(byHash, hash, spec)
    /\ pc' = "instance"
    /\ hash' = None
    /\ UNCHANGED <<source, tx, input, deployed, changes, answered>>

\* Spec or not, what was found is what every contract with that code gets.
FetchCode ==
    /\ pc = "code"
    /\ Ask(hash)
    /\ \E spec \in Fetched(hash) : Supply(spec) /\ byHash' = Insert(byHash, hash, spec)
    /\ pc' = "instance"
    /\ hash' = None
    /\ UNCHANGED <<source, tx, input, deployed, changes, answered>>

\* The contract errors of the diagnosis that is printed.
Reports ==
    ResolveContractErrors(input.errors, input.terminal,
        [c \in Contract |-> IF c \in DOMAIN supplied THEN supplied[c] ELSE Unavailable],
        input.loaded)

Report ==
    /\ pc = "instance"
    /\ needed = << >>
    /\ pc' = "done"
    /\ UNCHANGED <<source, tx, input, needed, hash, byHash, supplied, deployed, changes,
                   answered, asked>>

Work == GiveUp \/ Fetch \/ FetchInstance \/ FetchCode \/ Report

Next == Work \/ \E c \in Contract : Change(c)

\* One thread; every request ends, at the latest by its timeout.
ExplainSpec == Init /\ [][Next]_vars /\ WF_vars(Work)

-----------------------------------------------------------------------------
TypeOK ==
    /\ pc \in {"fetch", "error", "instance", "code", "done"}
    /\ pc = "code" <=> hash # None
    /\ pc = "code" => needed # << >> /\ hash \notin DOMAIN byHash
    /\ \A i \in DOMAIN needed : needed[i] \in Contract \ DOMAIN supplied
    /\ DOMAIN byHash \subseteq Wasm
    /\ \A x \in DOMAIN supplied : supplied[x] \in SpecAvailability
    /\ deployed \in [Contract -> Executable \cup {NotFound}]

\* Who is identified does not depend on the specs, though it is worked out
\* before they are fetched and again after: when the run ends, exactly the
\* contracts its reports identify have been looked up, none is reported as "no
\* contract spec was supplied" (resolve.rs:377), and without a source nobody
\* was asked anything.
AskedForWhatIsReported ==
    pc = "done" =>
        DOMAIN supplied =
            IF source = "nowhere" THEN {}
            ELSE {Identified(Reports[i].who) : i \in DOMAIN Reports} \ {None}

\* "Contracts sharing a WASM hash are fetched and parsed once"
\* (soroban-failure-rpc/src/contract.rs:161): no instance and no code is asked
\* for twice in a run, whether or not the first request was answered.
AskedOnce == \A x \in Contract \cup Wasm : asked[x] <= 1

\* Upgrades between the requests notwithstanding, a name is read from the code
\* that the contract's own instance named when it was asked, and is verified
\* exactly if the transaction's footprint can tell.
NamesComeFromTheContract ==
    pc = "done" => \A i \in DOMAIN Reports :
        LET r == Reports[i]
            w == answered[Identified(r.who)]
        IN r.resolution.tag = "Resolved" =>
            /\ w \in Wasm
            /\ r.resolution.name \in NamesOf[w][r.code]
            /\ r.resolution.verified <=> w \in input.loaded

\* Two contracts that were found to run the same code are both named or both not.
OneCodeOneSpec ==
    \A c, d \in DOMAIN supplied :
        answered[c] \in Wasm /\ answered[c] = answered[d] => supplied[c] = supplied[d]

\* A run ends, whatever fails and is upgraded meanwhile.
ExplainEnds == <>(pc \in {"done", "error"})

=============================================================================
