------------------------------ MODULE Sampling ------------------------------
(***************************************************************************)
(* From failed transactions to samples: the records the census makes of    *)
(* them (survey_failures.rs, cluster.rs) and the two-round projection of   *)
(* the report (pilot_report.rs --split).                                   *)
(*                                                                         *)
(* The census looks up the instance of each root contract as it is on the  *)
(* ledger then, through a cache that lasts as long as the run, while the   *)
(* contracts are upgraded or archived, the provider fails and the census   *)
(* is resumed.  The report keeps the eligible records, walks those of      *)
(* either round in a pseudorandom order, here in any, and accepts what the *)
(* caps leave room for.  The two programs run one after the other.         *)
(***************************************************************************)
EXTENDS Naturals, Sequences, FiniteSets

CONSTANTS
    Contract, Wasm, None,
    Populations,      \* the transactions a census may read, in order
    Deployments,      \* what the contracts' instances may say at first
    Split,            \* the first ledger of the second round
    SubmitterCap,     \* samples a submitter may have: 3 in the code
    MaxChanges,       \* bound: contracts upgraded or archived
    MaxOutages,       \* bound: lookups the provider fails
    MaxRestarts       \* bound: times the census is stopped and resumed

Transaction == UNION {{p[i] : i \in DOMAIN p} : p \in Populations}

ASSUME SamplingAssumption ==
    /\ {Split, SubmitterCap, MaxChanges, MaxOutages, MaxRestarts} \subseteq Nat
    /\ \A p \in Populations : p \in Seq(Transaction)
    /\ \A tx \in Transaction : tx.ledger \in Nat

VARIABLES
    unread,       \* the transactions still to be recorded
    deployed,     \* ledger: what each contract's instance says
    instances,    \* the lookups remembered in this run
    records,      \* the census's records
    codes,        \* code clusters that have a sample
    submitters,   \* how many samples each submitter has
    round,        \* 0 until the report runs, then the round it walks
    candidates,   \* records of that round still to be walked
    accepted,     \* records accepted
    changes, outages,
    restarts      \* history: how many records there were when a run was resumed

ledgerVars == <<deployed, changes>>
censusVars == <<unread, instances, records, outages, restarts>>
reportVars == <<codes, submitters, round, candidates, accepted>>
vars == <<unread, deployed, instances, records, codes, submitters, round, candidates,
          accepted, changes, outages, restarts>>

-----------------------------------------------------------------------------
StellarAsset == "stellar_asset"
ExternalRef == "external_ref"
Executable == Wasm \cup {StellarAsset, ExternalRef}

\* InstanceLookup: an executable, that there is no entry, or no answer.
NotFound == "not_found"
Failed == "failed"
Lookup == Executable \cup {NotFound, Failed}

\* Why a transaction has no code cluster, and why a record is not eligible.
Unresolved == {"instance_unavailable", "not_in_footprint", "unsupported_executable"}
Excluded == {"unexpected_operation_count", "no_diagnostic_events",
             "no_root_contract_invocation"} \cup Unresolved

ASSUME LookupAssumption ==
    /\ None \notin Lookup \cup Excluded
    /\ Wasm \cap {StellarAsset, ExternalRef, NotFound, Failed} = {}
    /\ Deployments \subseteq [Contract -> Executable \cup {NotFound}]

\* What is read of a transaction's code: its cluster, or why it has none.
CodeCluster(lookup, footprint) ==
    CASE lookup \in {NotFound, Failed} -> [cluster |-> None, reason |-> "instance_unavailable"]
      [] lookup \in Wasm \cap footprint -> [cluster |-> lookup, reason |-> None]
      [] lookup \in Wasm \ footprint -> [cluster |-> None, reason |-> "not_in_footprint"]
      [] lookup = StellarAsset -> [cluster |-> StellarAsset, reason |-> None]
      [] lookup = ExternalRef -> [cluster |-> None, reason |-> "unsupported_executable"]

\* What an operation does, and the address it invokes, None if it invokes none.
Operation(kind, invocation) == [kind |-> kind, invocation |-> invocation]

IsSoroban(model) == \E i \in DOMAIN model.operations : model.operations[i].kind # "Classic"

\* A fee bump is unwrapped to the transaction inside, the payer kept beside it;
\* a legacy or a classic transaction has no Soroban data and so no footprint.
Unwrap(envelope) ==
    LET inner == envelope.inner
    IN [feeBump |-> envelope.feeBump, source |-> inner.source, operations |-> inner.operations,
        footprint |-> IF inner.soroban = None THEN {} ELSE inner.soroban.footprint]

\* The contract the first invocation calls, if it is a contract.
RootContract(model) ==
    LET invoking == SelectSeq(model.operations, LAMBDA op : op.invocation # None)
    IN IF invoking # << >> /\ Head(invoking).invocation \in Contract
       THEN Head(invoking).invocation ELSE None

\* What the census records: failures that decode and have a Soroban operation.
FailedSoroban(tx) == tx.failed /\ tx.decodes /\ IsSoroban(Unwrap(tx.envelope))

\* Mutant: the account that signs inside a fee bump is the submitter.
SubmitterCluster_Inner(model) == model.source.base

\* The fee source of a fee bump, else the source, without its multiplexed id.
SubmitterCluster(model) ==
    IF model.feeBump # None THEN model.feeBump.base ELSE model.source.base

\* A transaction that invokes no contract has neither a cluster nor a reason.
PilotRecord(tx, lookup) ==
    LET model == Unwrap(tx.envelope)
        root  == RootContract(model)
        code  == IF root = None THEN [cluster |-> None, reason |-> None]
                                ELSE CodeCluster(lookup, model.footprint)
    IN [tx |-> tx, operations |-> Len(model.operations), events |-> tx.events,
        submitter |-> SubmitterCluster(model), root |-> root, lookup |-> lookup,
        code |-> code.cluster, reason |-> code.reason]

\* Mutant: the check that a contract was invoked is left to the code identity.
Exclusion_NoRoot(r) ==
    CASE r.operations # 1 -> "unexpected_operation_count"
      [] r.operations = 1 /\ r.events = 0 -> "no_diagnostic_events"
      [] r.operations = 1 /\ r.events # 0 -> r.reason

\* The first eligibility check a record fails, None if it is eligible.
Exclusion(r) ==
    LET oneOperation == r.operations = 1
        diagnosed    == oneOperation /\ r.events # 0
    IN CASE ~oneOperation -> "unexpected_operation_count"
         [] oneOperation /\ ~diagnosed -> "no_diagnostic_events"
         [] diagnosed /\ r.root = None -> "no_root_contract_invocation"
         [] diagnosed /\ r.root # None -> r.reason

Eligible == {i \in DOMAIN records : Exclusion(records[i]) = None}

-----------------------------------------------------------------------------
Init ==
    /\ unread \in Populations
    /\ deployed \in Deployments
    /\ instances = [c \in Contract |-> None]
    /\ records = << >>
    /\ codes = {}
    /\ submitters = [a \in {} |-> 0]
    /\ round = 0
    /\ candidates = {}
    /\ accepted = {}
    /\ changes = 0
    /\ outages = {}
    /\ restarts = {}

\* Somebody upgrades a contract, or its instance is archived.
Change(c) ==
    /\ changes < MaxChanges
    /\ round = 0
    /\ changes' = changes + 1
    /\ deployed' \in {[deployed EXCEPT ![c] = e] :
                        e \in (Executable \cup {NotFound}) \ {deployed[c]}}
    /\ UNCHANGED <<censusVars, reportVars>>

\* Mutant: a lookup that failed is remembered like an answer.
Instance_RememberFailure(c, lookup) ==
    IF instances[c] # None
    THEN lookup = instances[c] /\ UNCHANGED <<instances, outages>>
    ELSE /\ lookup \in {deployed[c], Failed}
         /\ instances' = [instances EXCEPT ![c] = lookup]
         /\ outages' = IF lookup = Failed THEN outages \cup {Len(records) + 1} ELSE outages

\* Mutant: only instances that were found are remembered.
Instance_AskAgain(c, lookup) ==
    IF instances[c] # None /\ lookup = instances[c]
    THEN UNCHANGED <<instances, outages>>
    ELSE /\ lookup \in {deployed[c], Failed}
         /\ instances' = IF lookup \in Executable THEN [instances EXCEPT ![c] = lookup]
                                                  ELSE instances
         /\ outages' = IF lookup = Failed THEN outages \cup {Len(records) + 1} ELSE outages

\* An answer is remembered until the run ends; a failure is not.
Instance(c, lookup) ==
    IF instances[c] # None
    THEN lookup = instances[c] /\ UNCHANGED <<instances, outages>>
    ELSE /\ lookup \in {deployed[c], Failed}
         /\ instances' = IF lookup = Failed THEN instances ELSE [instances EXCEPT ![c] = lookup]
         /\ outages' = IF lookup = Failed THEN outages \cup {Len(records) + 1} ELSE outages

\* A transaction that is no failed Soroban transaction is passed over.
Skip ==
    /\ unread # << >>
    /\ ~FailedSoroban(Head(unread))
    /\ unread' = Tail(unread)
    /\ UNCHANGED <<ledgerVars, instances, records, outages, restarts, reportVars>>

Read ==
    /\ unread # << >>
    /\ FailedSoroban(Head(unread))
    /\ LET root == RootContract(Unwrap(Head(unread).envelope)) IN
       \E lookup \in Lookup \cup {None} :
          /\ IF root = None THEN lookup = None /\ UNCHANGED <<instances, outages>>
                            ELSE Instance(root, lookup)
          /\ records' = Append(records, PilotRecord(Head(unread), lookup))
    /\ Cardinality(outages') <= MaxOutages
    /\ unread' = Tail(unread)
    /\ UNCHANGED <<ledgerVars, restarts, reportVars>>

\* The census is stopped and resumed: main starts with an empty cache.
Restart ==
    /\ unread # << >>
    /\ Len(records) \notin restarts
    /\ Cardinality(restarts) < MaxRestarts
    /\ restarts' = restarts \cup {Len(records)}
    /\ instances' = [c \in Contract |-> None]
    /\ UNCHANGED <<ledgerVars, unread, records, outages, reportVars>>

-----------------------------------------------------------------------------
Of(r) == {i \in Eligible : IF r = 1 THEN records[i].tx.ledger < Split
                                    ELSE records[i].tx.ledger >= Split}

Samples(s) == IF s \in DOMAIN submitters THEN submitters[s] ELSE 0

NextRound ==
    /\ unread = << >>
    /\ candidates = {}
    /\ round < 2
    /\ round' = round + 1
    /\ candidates' = Of(round + 1)
    /\ UNCHANGED <<ledgerVars, censusVars, codes, submitters, accepted>>

\* Mutant: the submitter's samples are counted before the cap is looked at.
Walk_CountFirst(i) ==
    LET r    == records[i]
        used == Samples(r.submitter) + 1
        room == used <= SubmitterCap
    IN /\ i \in candidates
       /\ candidates' = candidates \ {i}
       /\ submitters' = [s \in DOMAIN submitters \cup {r.submitter} |->
                            IF s = r.submitter THEN used ELSE submitters[s]]
       /\ IF r.code \notin codes /\ room
          THEN codes' = codes \cup {r.code} /\ accepted' = accepted \cup {i}
          ELSE UNCHANGED <<codes, accepted>>
       /\ UNCHANGED <<ledgerVars, censusVars, round>>

Walk(i) ==
    LET r    == records[i]
        used == Samples(r.submitter)
        room == used < SubmitterCap
    IN /\ i \in candidates
       /\ candidates' = candidates \ {i}
       /\ IF r.code \in codes
          THEN UNCHANGED <<codes, submitters, accepted>>
          ELSE /\ submitters' = [s \in DOMAIN submitters \cup {r.submitter} |->
                                    IF s # r.submitter THEN submitters[s]
                                    ELSE IF room THEN used + 1 ELSE used]
               /\ codes' = IF room THEN codes \cup {r.code} ELSE codes
               /\ accepted' = IF room THEN accepted \cup {i} ELSE accepted
       /\ UNCHANGED <<ledgerVars, censusVars, round>>

Next ==
    \/ \E c \in Contract : Change(c)
    \/ Skip
    \/ Read
    \/ Restart
    \/ NextRound
    \/ \E i \in DOMAIN records : Walk(i)

Spec == Init /\ [][Next]_vars

-----------------------------------------------------------------------------
TypeOK ==
    /\ deployed \in [Contract -> Executable \cup {NotFound}]
    /\ instances \in [Contract -> (Lookup \ {Failed}) \cup {None}]
    /\ \A i \in DOMAIN records : /\ records[i].code \in Wasm \cup {StellarAsset, None}
                                 /\ records[i].reason \in Unresolved \cup {None}
    /\ codes \subseteq Wasm \cup {StellarAsset}
    /\ \A s \in DOMAIN submitters : submitters[s] \in 0 .. SubmitterCap
    /\ round \in 0 .. 2
    /\ candidates \subseteq Eligible
    /\ accepted \subseteq Eligible
    /\ outages \subseteq DOMAIN records
    /\ restarts \subseteq 0 .. Len(records)

\* Caps::select takes the code cluster of every eligible record
\* (pilot_report.rs:131, expect("eligible")): no check that passes leaves a
\* record without one.
EligibleIsClustered == \A i \in Eligible : records[i].code # None

\* "`Failed` is a fact about this run, so it is not cached and the next
\* transaction asks again" (survey_failures.rs:246-247): the records that say a
\* lookup failed, which the report counts as artefacts of the run, are those
\* for which the provider was asked and failed.
OutagesAreArtefacts == {i \in DOMAIN records : records[i].lookup = Failed} = outages

\* Whatever happens to the contracts meanwhile, one run of the census gives a
\* contract one identity: the lookups answered between two restarts agree.
OneAnswerPerContract ==
    \A i, j \in DOMAIN records :
        /\ records[i].root # None
        /\ records[i].root = records[j].root
        /\ Failed \notin {records[i].lookup, records[j].lookup}
        /\ restarts \cap i .. j - 1 = {}
        /\ i < j
        => records[i].lookup = records[j].lookup

\* Who pays for a transaction, as a base account.
Payer(tx) == (IF tx.envelope.feeBump = None THEN tx.envelope.inner.source
                                            ELSE tx.envelope.feeBump).base

\* "Caps apply cumulatively across all rounds of a dataset"
\* (docs/evaluation/protocol.md:183-186): no two samples run the same code, and
\* no account pays for more than SubmitterCap, however it multiplexes itself.
CapsHold ==
    /\ \A i, j \in accepted : records[i].code = records[j].code => i = j
    /\ \A i \in accepted :
          Cardinality({j \in accepted : Payer(records[j].tx) = Payer(records[i].tx)})
              <= SubmitterCap

\* The selection leaves nothing out that the caps had room for: when the report
\* ends, every eligible record that was not accepted shares its code with a
\* sample or its payer with SubmitterCap of them.
NothingLeftOut ==
    round = 2 /\ candidates = {} =>
        \A i \in Eligible \ accepted :
            \/ \E j \in accepted : records[j].code = records[i].code
            \/ Cardinality({j \in accepted : Payer(records[j].tx) = Payer(records[i].tx)})
                  = SubmitterCap

=============================================================================
