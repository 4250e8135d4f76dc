------------------------------ MODULE MCProbe ------------------------------
(***************************************************************************)
(* Probe over three ledgers, one of them longer than a page, and answers   *)
(* that differ in up to two fields from a complete one.                    *)
(***************************************************************************)
EXTENDS Probe

CONSTANTS h1, h2, h3, h4, h5

NetTx(l, hash, status, envelope) ==
    [ledger |-> l, hash |-> hash, status |-> status, envelope |-> envelope]

\* The second ledger is longer than a page, and a scan that wants three finds the
\* third in the middle of one or stops at its last page without it.
MCChain == <<NetTx(1, h1, "FAILED", "soroban"),   NetTx(1, "t1", "SUCCESS", "soroban"),
             NetTx(2, h2, "FAILED", "soroban"),   NetTx(2, None, "FAILED", "soroban"),
             NetTx(2, "t2", "FAILED", Bad),       NetTx(2, "t3", "FAILED", "classic"),
             NetTx(2, h3, "FAILED", "soroban"),
             NetTx(4, h4, "FAILED", "soroban"),   NetTx(4, h5, "FAILED", "soroban")>>

Invoke(code) == OpResult("InvokeHostFunction", code)

Complete(hash) ==
    [Answer(hash, 1, "FAILED") EXCEPT
        !.envelope = "soroban",
        !.result   = Result("TxFeeBumpInnerFailed", "TxFailed", <<Invoke("Trapped")>>),
        !.meta     = Meta(4, TRUE, <<"e1", "e2">>),
        !.top      = <<"e1", "e2">>]

Statuses  == {"SUCCESS", "FAILED", "NOT_FOUND", "PENDING", None}
Envelopes == {None, Bad, "soroban", "classic"}
MCResults ==
    {None, Bad, Result(None, "TxSuccess", <<Invoke("Success")>>), Result(None, "TxBadSeq", << >>),
     Result(None, "TxInternalError", << >>),
     Result("TxFeeBumpInnerFailed", "TxFailed", <<Invoke("Trapped")>>),
     Result(None, "TxFailed", <<OpResult("Classic", "Failure"), Invoke("Trapped")>>)}
Metas == {None, Bad, Meta(2, FALSE, << >>), Meta(3, FALSE, << >>), Meta(3, TRUE, <<"e1">>),
          Meta(4, FALSE, <<"e1">>), Meta(4, TRUE, <<"e1", "e2">>), Meta(4, TRUE, << >>)}
EventLists == {None, << >>, <<"e1">>, <<"e1", "e2">>, <<"e1", Bad>>, <<Bad>>}

Fields == [status |-> Statuses, envelope |-> Envelopes, result |-> MCResults,
           meta |-> Metas, top |-> EventLists, nested |-> EventLists]

\* Answers that differ from a in one field, or not.
Altered(a) == UNION {{[a EXCEPT ![f] = v] : v \in Fields[f]} : f \in DOMAIN Fields}

\* An endpoint that forgot the transaction names no ledger.
NotFound(hash) == [Answer(hash, None, "NOT_FOUND") EXCEPT !.ledger = None]

MCAnswers ==
    UNION {Altered(a) : a \in Altered([Complete(h1) EXCEPT !.top = None])}
    \cup {NotFound(h1), NotFound(h2), Complete(h2)}
=============================================================================
