--------------------------- MODULE ContractErrors ---------------------------
(***************************************************************************)
(* contract/resolve.rs and ContractSpec::lookup: which contract raised     *)
(* each contract-defined error of a transaction, and what the error is     *)
(* called.                                                                 *)
(*                                                                         *)
(* An error event keeps its index among the diagnostic events, the         *)
(* contract that emitted it, the ScError, the host message its text is     *)
(* recognised by (the MARKER constants of the rules) and the values the    *)
(* rules read from its data.  Names are uninterpreted values.              *)
(***************************************************************************)
EXTENDS Outcome, Places, SequencesExt

CONSTANTS
    Contract,     \* contract addresses
    Code          \* the codes of contract-defined errors

Marker == {"origin", "expired", "nonce", "unauthorized", "footprint",
           "unreachable", "other"}

ScError(type, code) == [type |-> type, code |-> code]
ContractError(code) == ScError("Contract", code)

EmittedError(contract, error, marker, index, data) ==
    [contract |-> contract, error |-> error, marker |-> marker,
     index |-> index, data |-> data]

NoData == [address |-> None, expiry |-> None, key |-> None]

\* A contract spec: the hash of the WASM it was read from, if recorded, and
\* the names its error enums give each code.
Spec(hash, names) == [hash |-> hash, names |-> names]

-----------------------------------------------------------------------------
Unique(c) == [tag |-> "Unique", candidates |-> {c}]
Ambiguous(candidates) == [tag |-> "Ambiguous", candidates |-> candidates]
Unidentified == [tag |-> "Unidentified", candidates |-> {}]

Sole(S) == CHOOSE x \in S : TRUE

\* ContractIdentification::contract.
Identified(who) == IF who.tag = "Unique" THEN Sole(who.candidates) ELSE None

Carries(e, code) == e.error = ContractError(code) /\ e.contract # None

\* Mutant: the marker is not consulted, the first emitter is the origin.
Identify_First(errors, code) ==
    LET mine == {i \in DOMAIN errors : Carries(errors[i], code)}
    IN IF mine = {} THEN Unidentified
       ELSE Unique(errors[CHOOSE i \in mine : \A j \in mine : i <= j].contract)

\* The only emitter of the code or, to break a tie between several, the only
\* one of them that emitted the host's origin message.
Identify(errors, code) ==
    LET mine     == {i \in DOMAIN errors : Carries(errors[i], code)}
        emitters == {errors[i].contract : i \in mine}
        origins  == {errors[i].contract : i \in {j \in mine : errors[j].marker = "origin"}}
    IN IF emitters = {} THEN Unidentified
       ELSE IF Cardinality(emitters) = 1 THEN Unique(Sole(emitters))
       ELSE IF Cardinality(origins) = 1 THEN Unique(Sole(origins))
       ELSE Ambiguous(emitters)

-----------------------------------------------------------------------------
ErrorResolution == {"Resolved", "CodeNotInSpec", "AmbiguousInSpec", "SpecUnavailable",
                    "SpecVersionMismatch", "ContractNotIdentified"}

Unnamed(tag) == [tag |-> tag, name |-> None, verified |-> FALSE]

\* ContractSpec::lookup: cases that share a name are one answer.
Lookup(names, verified) ==
    IF names = {} THEN [Unnamed("CodeNotInSpec") EXCEPT !.verified = verified]
    ELSE IF Cardinality(names) = 1
         THEN [tag |-> "Resolved", name |-> Sole(names), verified |-> verified]
    ELSE Unnamed("AmbiguousInSpec")

\* Mutant: a spec of code the transaction did not load keeps its names.
Resolve_KeepStale(who, code, specs, loaded) ==
    IF Identified(who) = None THEN Unnamed("ContractNotIdentified")
    ELSE LET spec == specs[Identified(who)] IN
         IF spec = None THEN Unnamed("SpecUnavailable")
         ELSE Lookup(spec.names[code], spec.hash # None /\ loaded # {})

\* A spec is checked when its hash is known and the footprint names some code:
\* it is verified if the footprint names its WASM and refused if it does not.
\* loaded is {} also when there is no footprint.
Resolve(who, code, specs, loaded) ==
    IF Identified(who) = None THEN Unnamed("ContractNotIdentified")
    ELSE LET spec    == specs[Identified(who)]
             checked == spec.hash # None /\ loaded # {}
         IN IF spec = None THEN Unnamed("SpecUnavailable")
            ELSE IF checked /\ spec.hash \notin loaded THEN Unnamed("SpecVersionMismatch")
            ELSE Lookup(spec.names[code], checked)

-----------------------------------------------------------------------------
\* Where the contract codes of a sequence of errors first appear.
FirstAppearances(errors) ==
    {i \in DOMAIN errors : /\ errors[i].error.type = "Contract"
                           /\ \A j \in 1 .. i - 1 : errors[j].error # errors[i].error}

TerminalCode(terminal) ==
    IF terminal # None /\ terminal.error.type = "Contract"
    THEN terminal.error.code ELSE None

\* The code that ended the invocation comes first, the others as they appear.
CodesInOrder(errors, terminal) ==
    LET code == [i \in DOMAIN errors |-> errors[i].error.code]
        t    == TerminalCode(terminal)
        rest == Only(code, {i \in FirstAppearances(errors) : code[i] # t})
    IN IF t = None THEN rest ELSE <<t>> \o rest

\* The indexes of the events that carry the code, the terminal event last.
EventIndexes(errors, terminal, code) ==
    LET carrying == Only(errors, {i \in DOMAIN errors : errors[i].error = ContractError(code)})
        indexes  == [n \in DOMAIN carrying |-> carrying[n].index]
    IN IF TerminalCode(terminal) = code THEN Append(indexes, terminal.index) ELSE indexes

\* resolve_contract_errors: one report per code.
ResolveContractErrors(errors, terminal, specs, loaded) ==
    LET codes == CodesInOrder(errors, terminal)
        report(code) ==
            LET who == Identify(errors, code) IN
            [code |-> code, terminal |-> TerminalCode(terminal) = code,
             events |-> EventIndexes(errors, terminal, code),
             who |-> who, resolution |-> Resolve(who, code, specs, loaded)]
    IN [i \in DOMAIN codes |-> report(codes[i])]

=============================================================================
