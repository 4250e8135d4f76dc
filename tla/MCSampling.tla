----------------------------- MODULE MCSampling -----------------------------
(***************************************************************************)
(* Sampling with four contracts and three populations: one account that    *)
(* pays for one failure too many, one contract that fails again and again  *)
(* while it changes, and one record for each eligibility check.            *)
(***************************************************************************)
EXTENDS Sampling, TLC

CONSTANTS c1, c2, c3, c4, w1, w2, w3

Account(base, id) == [base |-> base, id |-> id]

Envelope(operations, footprint, source, feeSource) ==
    [feeBump |-> feeSource,
     inner   |-> [source |-> source, operations |-> operations,
                  soroban |-> IF footprint = None THEN None ELSE [footprint |-> footprint]]]

Failure(envelope, ledger) ==
    [envelope |-> envelope, ledger |-> ledger, events |-> 1, failed |-> TRUE, decodes |-> TRUE]

Tx(root, footprint, source, feeSource, ledger) ==
    Failure(Envelope(<<Operation("InvokeHostFunction", root)>>, footprint, source, feeSource),
            ledger)

\* Alice pays for a failure of every contract, as herself, under two
\* multiplexed ids and through a fee bump, and Bob for one of them as well.
OnePayer ==
    <<Tx(c1, Wasm, Account("alice", 0), None, 1),
      Tx(c2, Wasm, Account("alice", 1), None, 1),
      Tx(c3, Wasm, Account("bob", 0), Account("alice", 2), 2),
      Tx(c4, Wasm, Account("alice", 0), None, 2),
      Tx(c1, Wasm, Account("bob", 0), None, 2)>>

\* One contract, before and after an upgrade, and a success of it in between.
OneContract ==
    <<Tx(c1, {w1}, Account("alice", 0), None, 1), Tx(c1, {w1}, Account("bob", 0), None, 1),
      [Tx(c1, {w1}, Account("alice", 0), None, 1) EXCEPT !.failed = FALSE],
      Tx(c1, {w2}, Account("alice", 0), None, 2), Tx(c2, {w2}, Account("bob", 0), None, 2)>>

\* One transaction for each way of not being sampled: classic, not decoded, two
\* operations (which the protocol forbids and the checks exclude all the same),
\* no diagnostics, no contract invoked (an upload, a restoration, an account
\* called) and a footprint without code.
Ineligible ==
    LET one(op) == Failure(Envelope(<<op>>, {}, Account("alice", 0), None), 1)
        call    == Operation("InvokeHostFunction", c1)
    IN <<Failure(Envelope(<<Operation("Classic", None)>>, None, Account("alice", 0), None), 1),
         [one(call) EXCEPT !.decodes = FALSE],
         Failure(Envelope(<<Operation("Classic", None), call>>, None, Account("bob", 0), None), 1),
         [one(call) EXCEPT !.events = 0],
         one(Operation("InvokeHostFunction", None)),
         one(Operation("RestoreFootprint", None)),
         one(Operation("InvokeHostFunction", "alice")),
         one(call)>>

\* Four codes, or a code that two contracts share.
MCDeployments == {(c1 :> w1 @@ c2 :> w2 @@ c3 :> w3 @@ c4 :> e) : e \in {StellarAsset, w3}}

MCPopulations == {OnePayer, OneContract, Ineligible}

=============================================================================
