----------------------------- MODULE Population -----------------------------
(***************************************************************************)
(* What a census promises (survey_failures.rs:67, "A ledger is only ever   *)
(* used if it was read completely."): a ledger enters the population whole *)
(* and for good, with every failed transaction it holds.                   *)
(***************************************************************************)
CONSTANTS
    FailedIn(_)   \* the failed transactions of a ledger

VARIABLES
    sampled,      \* the ledgers chosen, once and for all
    settled,      \* the ledgers read completely
    published,    \* the failed transactions recorded for them
    intact        \* the files are as the census left them

Init == settled = {} /\ published = {} /\ intact = TRUE

Settle(l) ==
    /\ intact = TRUE /\ intact' = TRUE
    /\ l \in sampled \ settled
    /\ settled' = settled \cup {l}
    /\ published' = published \cup FailedIn(l)

\* Files that are no longer intact promise nothing, and stay so.
Damage == intact' = FALSE

Next == UNCHANGED sampled /\ ((\E l \in sampled : Settle(l)) \/ Damage)

Spec == Init /\ [][Next]_<<sampled, settled, published, intact>>

=============================================================================
