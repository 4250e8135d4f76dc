------------------------------ MODULE MCExplain ------------------------------
(***************************************************************************)
(* Explain with three contracts that may share code, one WASM without a    *)
(* readable spec and transactions with up to three error events.           *)
(***************************************************************************)
EXTENDS Explain

CONSTANTS c1, c2, c3, w1, w2, w3

Event(c, code, marker) == EmittedError(c, ContractError(code), marker, 0, NoData)

Tx(errors, terminal, loaded) == [errors |-> errors, terminal |-> terminal, loaded |-> loaded]

\* Three contracts with an error each; one error propagated by three contracts
\* and raised by the first; one contract with two errors, and no footprint.
MCTransactions ==
    {Tx(<<Event(c1, "1", "origin"), Event(c2, "2", "origin"), Event(c3, "3", "origin")>>,
        ContractError("3"), {w1, w2}),
     Tx(<<Event(c1, "1", "origin"), Event(c2, "1", "other"), Event(c3, "2", "origin")>>,
        ContractError("1"), {w1}),
     Tx(<<Event(c1, "1", "origin"), Event(c1, "2", "origin"), Event(c2, "2", "other")>>,
        ScError("WasmVm", "InvalidAction"), {})}

MCNamesOf ==
    (w1 :> ("1" :> {"Paused"} @@ "2" :> {"Late"} @@ "3" :> {})
     @@ w2 :> ("1" :> {"Broke"} @@ "2" :> {"Late", "Early"} @@ "3" :> {"Full"})
     @@ w3 :> None)

\* All three share their code, two do, or none has WASM with a spec.
MCDeployments ==
    {(c1 :> w1 @@ c2 :> w1 @@ c3 :> w1), (c1 :> w1 @@ c2 :> w2 @@ c3 :> w1),
     (c1 :> StellarAsset @@ c2 :> w3 @@ c3 :> w3)}

=============================================================================
