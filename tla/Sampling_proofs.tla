-------------------------- MODULE Sampling_proofs ---------------------------
(***************************************************************************)
(* The caps of the selection, the identities the census gives and the      *)
(* types of both, for any populations, contracts, caps and split, and      *)
(* whatever happens to the ledger and the provider.                        *)
(***************************************************************************)
EXTENDS Sampling, FiniteSetTheorems, SequenceTheorems, TLAPS

\* What a census may record, and who it may record as the submitter.
Recorded == {PilotRecord(tx, lookup) : tx \in Transaction, lookup \in Lookup \cup {None}}
Submitter == {r.submitter : r \in Recorded}

\* A record keeps its transaction, and counts for the account that paid.
LEMMA RecordFacts ==
    ASSUME NEW r \in Recorded
    PROVE  /\ r.submitter = Payer(r.tx)
           /\ r.submitter \in Submitter
           /\ r.tx.ledger \in Nat
<1>1. PICK tx \in Transaction, lookup \in Lookup \cup {None} : r = PilotRecord(tx, lookup)
  BY DEF Recorded
<1>2. r.tx = tx /\ r.submitter = SubmitterCluster(Unwrap(tx.envelope))
  BY <1>1 DEF PilotRecord
<1>3. SubmitterCluster(Unwrap(tx.envelope)) = Payer(tx)
  BY DEF SubmitterCluster, Unwrap, Payer
<1> QED
  BY <1>2, <1>3, SamplingAssumption DEF Submitter

-----------------------------------------------------------------------------
(***************************************************************************)
(* Records only grow, and only before the report runs.                     *)
(***************************************************************************)

RecordsInv ==
    /\ unread \in Seq(Transaction)
    /\ records \in Seq(Recorded)
    /\ round \in 0 .. 2
    /\ round > 0 => unread = << >>

LEMMA RecordsInit == Init => RecordsInv
BY SamplingAssumption DEF Init, RecordsInv

\* A step that records adds a record at the end and leaves the report alone.
Recording ==
    /\ unread # << >>
    /\ UNCHANGED reportVars
    /\ \E r \in Recorded : records' = Append(records, r)

LEMMA ReadRecords ==
    ASSUME RecordsInv, Read
    PROVE  Recording /\ unread' = Tail(unread)
<1>1. Head(unread) \in Transaction
  BY DEF RecordsInv, Read
<1>2. PICK lookup \in Lookup \cup {None} :
         records' = Append(records, PilotRecord(Head(unread), lookup))
  BY DEF Read
<1>3. PilotRecord(Head(unread), lookup) \in Recorded
  BY <1>1, <1>2 DEF Recorded
<1> QED
  BY <1>2, <1>3 DEF Read, Recording

LEMMA RecordsNext ==
    ASSUME RecordsInv, [Next]_vars
    PROVE  RecordsInv'
<1>1. CASE UNCHANGED vars
  BY <1>1 DEF vars, RecordsInv
<1>2. ASSUME NEW c \in Contract, Change(c) PROVE RecordsInv'
  BY <1>2 DEF Change, RecordsInv, censusVars, reportVars
<1>3. CASE Skip
  BY <1>3 DEF Skip, RecordsInv, reportVars
<1>4. CASE Read
  <2>1. Recording /\ unread' = Tail(unread)
    BY <1>4, ReadRecords
  <2> QED
    BY <2>1 DEF Recording, RecordsInv, reportVars
<1>5. CASE NextRound
  BY <1>5 DEF NextRound, RecordsInv, censusVars
<1>6. ASSUME NEW i \in DOMAIN records, Walk(i) PROVE RecordsInv'
  BY <1>6 DEF Walk, RecordsInv, censusVars
<1>7. CASE Restart
  BY <1>7 DEF Restart, RecordsInv, reportVars
<1> QED
  BY <1>1, <1>2, <1>3, <1>4, <1>5, <1>6, <1>7 DEF Next

-----------------------------------------------------------------------------
(***************************************************************************)
(* The caps.  What is accepted is told apart from what is still to be      *)
(* walked, so that no record is counted twice, and the two counters of the *)
(* walk, codes and submitters, are exactly what was accepted.              *)
(***************************************************************************)

RoundsInv ==
    /\ accepted \in SUBSET DOMAIN records
    /\ candidates \subseteq Of(round)
    /\ candidates \cap accepted = {}
    /\ round = 0 => candidates = {} /\ accepted = {}
    /\ round = 1 => accepted \subseteq Of(1)

PaidBy(a) == {j \in accepted : records[j].submitter = a}

CountersInv ==
    /\ codes = {records[j].code : j \in accepted}
    /\ \A i, j \in accepted : records[i].code = records[j].code => i = j
    /\ \A a \in Submitter : /\ Samples(a) = Cardinality(PaidBy(a))
                            /\ Samples(a) <= SubmitterCap

CapsInv == RecordsInv /\ RoundsInv /\ CountersInv

LEMMA CapsInit == Init => CapsInv
<1> SUFFICES ASSUME Init PROVE CapsInv
  OBVIOUS
<1>1. RecordsInv
  BY RecordsInit
<1>2. RoundsInv
  BY DEF Init, RoundsInv
<1>3. CountersInv
  <2>1. \A a : Samples(a) = 0 /\ PaidBy(a) = {}
    BY DEF Init, Samples, PaidBy
  <2>2. codes = {} /\ accepted = {}
    BY DEF Init
  <2>3. \A a \in Submitter : /\ Samples(a) = Cardinality(PaidBy(a))
                             /\ Samples(a) <= SubmitterCap
    <3>1. Cardinality({}) = 0
      BY FS_EmptySet
    <3>2. 0 <= SubmitterCap
      BY SamplingAssumption
    <3>3. ASSUME NEW a PROVE Samples(a) = 0 /\ Cardinality(PaidBy(a)) = 0
      BY <2>1, <3>1
    <3> QED
      BY <3>2, <3>3
  <2> QED
    BY <2>2, <2>3 DEF CountersInv
<1> QED
  BY <1>1, <1>2, <1>3 DEF CapsInv

\* No record belongs to both rounds.
LEMMA RoundsApart ==
    ASSUME RecordsInv
    PROVE  /\ Of(1) \cap Of(2) = {}
           /\ Of(1) \cup Of(2) = Eligible
           /\ Eligible \subseteq DOMAIN records
<1>1. \A i \in Eligible : i \in DOMAIN records /\ records[i].tx.ledger \in Nat
  <2> SUFFICES ASSUME NEW i \in DOMAIN records PROVE records[i].tx.ledger \in Nat
    BY DEF Eligible
  <2>1. records[i] \in Recorded
    BY DEF RecordsInv
  <2> QED
    BY <2>1, RecordFacts
<1> QED
  BY <1>1, SamplingAssumption DEF Of

\* The sets that are counted are finite.
LEMMA FiniteInRecords ==
    ASSUME RecordsInv, NEW T, T \subseteq DOMAIN records
    PROVE  IsFiniteSet(T) /\ Cardinality(T) \in Nat
<1>1. Len(records) \in Nat /\ DOMAIN records = 1 .. Len(records)
  BY DEF RecordsInv
<1>2. IsFiniteSet(DOMAIN records)
  BY <1>1, FS_Interval
<1> QED
  BY <1>2, FS_Subset, FS_CardinalityType

LEMMA PaidByIsFinite ==
    ASSUME RecordsInv, RoundsInv, NEW a
    PROVE  IsFiniteSet(PaidBy(a)) /\ Cardinality(PaidBy(a)) \in Nat
BY FiniteInRecords DEF PaidBy, RoundsInv

\* A record made changes nothing of the report.
LEMMA RecordingKeepsCaps ==
    ASSUME CapsInv, Recording
    PROVE  RoundsInv' /\ CountersInv'
<1>1. round = 0 /\ candidates = {} /\ accepted = {}
  BY DEF CapsInv, RecordsInv, RoundsInv, Recording
<1>2. round' = 0 /\ candidates' = {} /\ accepted' = {} /\ codes' = codes
      /\ submitters' = submitters
  BY <1>1 DEF Recording, reportVars
<1>3. RoundsInv'
  BY <1>2 DEF RoundsInv
<1>4. \A a : PaidBy(a) = {} /\ PaidBy(a)' = {} /\ Samples(a)' = Samples(a)
  BY <1>1, <1>2 DEF PaidBy, Samples
<1>5. CountersInv'
  BY <1>1, <1>2, <1>4 DEF CapsInv, CountersInv
<1> QED
  BY <1>3, <1>5

LEMMA NextRoundKeepsCaps ==
    ASSUME CapsInv, NextRound
    PROVE  RoundsInv' /\ CountersInv'
<1>1. /\ records' = records /\ accepted' = accepted /\ codes' = codes
      /\ submitters' = submitters /\ candidates = {}
      /\ round \in {0, 1} /\ round' = round + 1 /\ candidates' = Of(round + 1)
  BY DEF NextRound, CapsInv, RecordsInv, censusVars
<1>2. RoundsInv'
  <2> \A n : Of(n)' = Of(n)
    BY <1>1 DEF Of, Eligible
  <2>1. CASE round = 0
    <3>1. candidates' = Of(1) /\ accepted' = {}
      BY <1>1, <2>1 DEF CapsInv, RoundsInv
    <3> QED
      BY <1>1, <2>1, <3>1, RoundsApart DEF CapsInv, RoundsInv
  <2>2. CASE round = 1
    <3>1. candidates' = Of(2) /\ accepted \subseteq Of(1)
      BY <1>1, <2>2 DEF CapsInv, RoundsInv
    <3> QED
      BY <1>1, <2>2, <3>1, RoundsApart DEF CapsInv, RoundsInv
  <2> QED
    BY <1>1, <2>1, <2>2
<1>3. \A a : PaidBy(a)' = PaidBy(a) /\ Samples(a)' = Samples(a)
  BY <1>1 DEF PaidBy, Samples
<1>4. CountersInv'
  BY <1>1, <1>3 DEF CapsInv, CountersInv
<1> QED
  BY <1>2, <1>4

\* A record that is walked past: its code has a sample, or its payer has enough.
LEMMA PassedOver ==
    ASSUME CapsInv, NEW i \in candidates, candidates' = candidates \ {i},
           records' = records, accepted' = accepted, codes' = codes, round' = round,
           Eligible' = Eligible,
           \A a : Samples(a)' = Samples(a)
    PROVE  RoundsInv' /\ CountersInv'
<1>1. \A n, a : Of(n)' = Of(n) /\ PaidBy(a)' = PaidBy(a)
  BY DEF Of, PaidBy
<1>2. RoundsInv'
  BY <1>1 DEF CapsInv, RoundsInv
<1>3. CountersInv'
  BY <1>1 DEF CapsInv, CountersInv
<1> QED
  BY <1>2, <1>3

\* A record that becomes a sample counts once more for its submitter and for
\* no other.
LEMMA Accepted ==
    ASSUME CapsInv, NEW i \in candidates, candidates' = candidates \ {i},
           records' = records, accepted' = accepted \cup {i}, round' = round,
           Eligible' = Eligible,
           records[i].code \notin codes, codes' = codes \cup {records[i].code},
           Samples(records[i].submitter) < SubmitterCap,
           \A a : Samples(a)' = IF a = records[i].submitter THEN Samples(a) + 1 ELSE Samples(a)
    PROVE  RoundsInv' /\ CountersInv'
<1>1. /\ \A n : Of(n)' = Of(n)
      /\ i \in Of(round) /\ i \in DOMAIN records /\ i \notin accepted
      /\ records[i] \in Recorded
  BY DEF Of, Eligible, CapsInv, RecordsInv, RoundsInv
<1>2. RoundsInv'
  BY <1>1 DEF CapsInv, RoundsInv
<1>3. codes' = {records'[j].code : j \in accepted'}
  BY DEF CapsInv, CountersInv
<1>4. \A j, k \in accepted' : records'[j].code = records'[k].code => j = k
  BY <1>1 DEF CapsInv, CountersInv
<1>5. ASSUME NEW a \in Submitter
      PROVE  Samples(a)' = Cardinality(PaidBy(a)') /\ Samples(a)' <= SubmitterCap
  <2>1. /\ Samples(a) = Cardinality(PaidBy(a)) /\ Samples(a) <= SubmitterCap
        /\ IsFiniteSet(PaidBy(a)) /\ Cardinality(PaidBy(a)) \in Nat
    BY PaidByIsFinite DEF CapsInv, CountersInv
  <2>2. CASE a = records[i].submitter
    <3>1. PaidBy(a)' = PaidBy(a) \cup {i} /\ i \notin PaidBy(a)
      BY <1>1, <2>2 DEF PaidBy
    <3>2. Cardinality(PaidBy(a)') = Cardinality(PaidBy(a)) + 1
      BY <2>1, <3>1, FS_AddElement
    <3> QED
      BY <2>1, <2>2, <3>2, SamplingAssumption
  <2>3. CASE a # records[i].submitter
    <3>1. PaidBy(a)' = PaidBy(a)
      BY <1>1, <2>3 DEF PaidBy
    <3> QED
      BY <2>1, <2>3, <3>1
  <2> QED
    BY <2>2, <2>3
<1>6. CountersInv'
  BY <1>3, <1>4, <1>5 DEF CountersInv
<1> QED
  BY <1>2, <1>6

LEMMA WalkKeepsCaps ==
    ASSUME CapsInv, NEW i \in DOMAIN records, Walk(i)
    PROVE  RoundsInv' /\ CountersInv'
<1> DEFINE r == records[i]
           used == Samples(r.submitter)
<1>1. /\ i \in candidates /\ candidates' = candidates \ {i}
      /\ records' = records /\ round' = round
  BY DEF Walk, censusVars
<1>2. Eligible' = Eligible
  BY <1>1 DEF Eligible
<1>3. r.submitter \in Submitter /\ used <= SubmitterCap /\ used \in Nat
  <2>1. r \in Recorded
    BY DEF CapsInv, RecordsInv
  <2>2. r.submitter \in Submitter
    BY <2>1, RecordFacts
  <2> QED
    BY <2>2, PaidByIsFinite DEF CapsInv, CountersInv
<1>4. CASE r.code \in codes
  <2>1. accepted' = accepted /\ codes' = codes /\ submitters' = submitters
    BY <1>4 DEF Walk
  <2>2. \A a : Samples(a)' = Samples(a)
    BY <2>1 DEF Samples
  <2> QED
    BY <1>1, <1>2, <2>1, <2>2, PassedOver
<1>5. CASE r.code \notin codes /\ ~(used < SubmitterCap)
  <2>1. /\ accepted' = accepted /\ codes' = codes
        /\ submitters' = [s \in DOMAIN submitters \cup {r.submitter} |->
                             IF s # r.submitter THEN submitters[s] ELSE used]
    BY <1>5 DEF Walk
  <2>2. \A a : Samples(a)' = Samples(a)
    BY <2>1 DEF Samples
  <2> QED
    BY <1>1, <1>2, <2>1, <2>2, PassedOver
<1>6. CASE r.code \notin codes /\ used < SubmitterCap
  <2>1. /\ accepted' = accepted \cup {i} /\ codes' = codes \cup {r.code}
        /\ submitters' = [s \in DOMAIN submitters \cup {r.submitter} |->
                             IF s # r.submitter THEN submitters[s] ELSE used + 1]
    BY <1>6 DEF Walk
  <2>2. \A a : Samples(a)' = IF a = r.submitter THEN Samples(a) + 1 ELSE Samples(a)
    BY <2>1 DEF Samples
  <2> QED
    BY <1>1, <1>2, <1>6, <2>1, <2>2, Accepted
<1> QED
  BY <1>4, <1>5, <1>6

LEMMA CapsNext ==
    ASSUME CapsInv, [Next]_vars
    PROVE  CapsInv'
<1>1. RecordsInv'
  BY RecordsNext DEF CapsInv
<1>2. ASSUME UNCHANGED <<records, reportVars>> PROVE RoundsInv' /\ CountersInv'
  <2>1. \A n, a : Of(n)' = Of(n) /\ PaidBy(a)' = PaidBy(a) /\ Samples(a)' = Samples(a)
    BY <1>2 DEF Of, Eligible, PaidBy, Samples, reportVars
  <2>2. RoundsInv'
    BY <1>2, <2>1 DEF CapsInv, RoundsInv, reportVars
  <2>3. CountersInv'
    BY <1>2, <2>1 DEF CapsInv, CountersInv, reportVars
  <2> QED
    BY <2>2, <2>3
<1>3. RoundsInv' /\ CountersInv'
  <2>1. CASE UNCHANGED vars
    BY <1>2, <2>1 DEF vars, reportVars
  <2>2. ASSUME NEW c \in Contract, Change(c) PROVE RoundsInv' /\ CountersInv'
    BY <1>2, <2>2 DEF Change, censusVars
  <2>3. CASE Skip
    BY <1>2, <2>3 DEF Skip
  <2>4. CASE Read
    BY <2>4, ReadRecords, RecordingKeepsCaps DEF CapsInv
  <2>5. CASE NextRound
    BY <2>5, NextRoundKeepsCaps
  <2>6. ASSUME NEW i \in DOMAIN records, Walk(i) PROVE RoundsInv' /\ CountersInv'
    BY <2>6, WalkKeepsCaps
  <2>7. CASE Restart
    BY <1>2, <2>7 DEF Restart
  <2> QED
    BY <2>1, <2>2, <2>3, <2>4, <2>5, <2>6, <2>7 DEF Next
<1> QED
  BY <1>1, <1>3 DEF CapsInv

\* Who submitted is who paid.
LEMMA PayerIsSubmitter ==
    ASSUME CapsInv, NEW i \in DOMAIN records
    PROVE  {j \in accepted : Payer(records[j].tx) = Payer(records[i].tx)}
              = PaidBy(records[i].submitter)
<1>1. ASSUME NEW j \in DOMAIN records
      PROVE  records[j].submitter = Payer(records[j].tx)
  <2>1. records[j] \in Recorded
    BY DEF CapsInv, RecordsInv
  <2> QED
    BY <2>1, RecordFacts
<1> QED
  BY <1>1 DEF PaidBy, CapsInv, RoundsInv

\* The caps hold over both rounds: no two samples run the same code, and nobody
\* pays for more than SubmitterCap, for any cap, populations and order.
THEOREM CapsAlwaysHold == Spec => []CapsHold
<1>1. CapsInv => CapsHold
  <2> SUFFICES ASSUME CapsInv PROVE CapsHold
    OBVIOUS
  <2>1. \A i, j \in accepted : records[i].code = records[j].code => i = j
    BY DEF CapsInv, CountersInv
  <2>2. ASSUME NEW i \in accepted
        PROVE  Cardinality({j \in accepted : Payer(records[j].tx) = Payer(records[i].tx)})
                  <= SubmitterCap
    <3>1. i \in DOMAIN records /\ records[i] \in Recorded
      BY DEF CapsInv, RoundsInv, RecordsInv
    <3>2. Cardinality(PaidBy(records[i].submitter)) <= SubmitterCap
      BY <3>1, RecordFacts DEF CapsInv, CountersInv
    <3> QED
      BY <3>1, <3>2, PayerIsSubmitter
  <2> QED
    BY <2>1, <2>2 DEF CapsHold
<1> QED
  BY <1>1, CapsInit, CapsNext, PTL DEF Spec

-----------------------------------------------------------------------------
(***************************************************************************)
(* The selection wastes no room.                                           *)
(***************************************************************************)

\* The record is a sample, or the caps have no room for it.
Settled(i) ==
    \/ \E j \in accepted : records[j].code = records[i].code
    \/ Cardinality(PaidBy(records[i].submitter)) = SubmitterCap

\* What is no longer to be walked is settled.
SettledInv ==
    /\ round = 1 => \A i \in Of(1) \ candidates : Settled(i)
    /\ round = 2 => \A i \in Eligible \ candidates : Settled(i)

\* Samples are never taken back, so what is settled stays settled.
LEMMA SettledStays ==
    ASSUME CapsInv, CapsInv', records' = records, accepted \subseteq accepted',
           NEW i \in DOMAIN records, Settled(i)
    PROVE  Settled(i)'
<1>1. CASE \E j \in accepted : records[j].code = records[i].code
  BY <1>1 DEF Settled
<1>2. CASE Cardinality(PaidBy(records[i].submitter)) = SubmitterCap
  <2> DEFINE a == records[i].submitter
  <2>1. a \in Submitter
    BY RecordFacts DEF CapsInv, RecordsInv
  <2>2. Cardinality(PaidBy(a)') <= SubmitterCap
    BY <2>1 DEF CapsInv, CountersInv
  <2>3. PaidBy(a) \subseteq PaidBy(a)'
    BY DEF PaidBy
  <2>4. IsFiniteSet(PaidBy(a)') /\ Cardinality(PaidBy(a)') \in Nat
    <3>1. PaidBy(a)' \subseteq DOMAIN records
      BY DEF PaidBy, CapsInv, RoundsInv
    <3> QED
      BY <3>1, FiniteInRecords DEF CapsInv
  <2>5. Cardinality(PaidBy(a)) <= Cardinality(PaidBy(a)')
    BY <2>3, <2>4, FS_Subset
  <2>6. Cardinality(PaidBy(a)') = SubmitterCap
    BY <1>2, <2>2, <2>4, <2>5, SamplingAssumption
  <2> QED
    BY <2>6 DEF Settled
<1> QED
  BY <1>1, <1>2 DEF Settled

LEMMA SettledWalk ==
    ASSUME CapsInv, CapsInv', SettledInv, NEW i \in DOMAIN records, Walk(i)
    PROVE  SettledInv'
<1>1. /\ i \in candidates /\ candidates' = candidates \ {i}
      /\ records' = records /\ round' = round /\ accepted \subseteq accepted'
  BY DEF Walk, censusVars
<1>2. \A n : Of(n)' = Of(n) /\ Eligible' = Eligible /\ Eligible \subseteq DOMAIN records
             /\ Of(n) \subseteq Eligible
  BY <1>1 DEF Of, Eligible
<1>3. Settled(i)'
  <2> DEFINE r == records[i]
  <2>1. CASE r.code \in codes
    <3>1. Settled(i)
      BY <2>1 DEF CapsInv, CountersInv, Settled
    <3> QED
      BY <1>1, <3>1, SettledStays
  <2>2. CASE r.code \notin codes /\ ~(Samples(r.submitter) < SubmitterCap)
    <3>1. r.submitter \in Submitter
      BY RecordFacts DEF CapsInv, RecordsInv
    <3>2. /\ Samples(r.submitter) = Cardinality(PaidBy(r.submitter))
          /\ Samples(r.submitter) <= SubmitterCap
          /\ Cardinality(PaidBy(r.submitter)) \in Nat
      BY <3>1, PaidByIsFinite DEF CapsInv, CountersInv
    <3>3. Cardinality(PaidBy(r.submitter)) = SubmitterCap
      BY <2>2, <3>2, SamplingAssumption
    <3>4. Settled(i)
      BY <3>3 DEF Settled
    <3> QED
      BY <1>1, <3>4, SettledStays
  <2>3. CASE r.code \notin codes /\ Samples(r.submitter) < SubmitterCap
    <3>1. accepted' = accepted \cup {i}
      BY <2>3 DEF Walk
    <3> QED
      BY <1>1, <3>1 DEF Settled
  <2> QED
    BY <2>1, <2>2, <2>3
<1>4. ASSUME NEW k \in Eligible, k \notin candidates, Settled(k)
      PROVE  Settled(k)'
  BY <1>1, <1>2, <1>4, SettledStays
<1> QED
  BY <1>1, <1>2, <1>3, <1>4 DEF SettledInv

LEMMA SettledNext ==
    ASSUME CapsInv, CapsInv', SettledInv, [Next]_vars
    PROVE  SettledInv'
<1>1. ASSUME UNCHANGED <<records, reportVars>> PROVE SettledInv'
  <2>1. /\ \A k : Settled(k)' = Settled(k)
        /\ Of(1)' = Of(1) /\ Eligible' = Eligible
    BY <1>1 DEF Settled, PaidBy, Of, Eligible, reportVars
  <2> QED
    BY <1>1, <2>1 DEF SettledInv, reportVars
<1>2. CASE UNCHANGED vars
  BY <1>1, <1>2 DEF vars, reportVars
<1>3. ASSUME NEW c \in Contract, Change(c) PROVE SettledInv'
  BY <1>1, <1>3 DEF Change, censusVars
<1>4. CASE Skip
  BY <1>1, <1>4 DEF Skip
<1>5. CASE Read
  BY <1>5, ReadRecords DEF Recording, reportVars, CapsInv, RecordsInv, SettledInv
<1>6. CASE NextRound
  <2>1. /\ records' = records /\ accepted' = accepted /\ candidates = {}
        /\ round \in {0, 1} /\ round' = round + 1 /\ candidates' = Of(round + 1)
    BY <1>6 DEF NextRound, CapsInv, RecordsInv, censusVars
  <2>2. /\ \A k : Settled(k)' = Settled(k)
        /\ Of(1)' = Of(1) /\ Eligible' = Eligible
    BY <2>1 DEF Settled, PaidBy, Of, Eligible
  <2>3. Eligible \ Of(2) \subseteq Of(1)
    BY RoundsApart DEF CapsInv
  <2> QED
    BY <2>1, <2>2, <2>3 DEF SettledInv
<1>7. ASSUME NEW i \in DOMAIN records, Walk(i) PROVE SettledInv'
  BY <1>7, SettledWalk
<1>8. CASE Restart
  BY <1>1, <1>8 DEF Restart
<1> QED
  BY <1>2, <1>3, <1>4, <1>5, <1>6, <1>7, <1>8 DEF Next

\* When the report ends, every eligible record is a sample or shares its code
\* with one or its payer with as many as the cap allows: no order in which the
\* records are walked leaves room unused.
THEOREM NothingIsLeftOut == Spec => []NothingLeftOut
<1>1. Init => SettledInv
  BY DEF Init, SettledInv
<1>2. CapsInv /\ SettledInv => NothingLeftOut
  <2> SUFFICES ASSUME CapsInv, SettledInv, round = 2, candidates = {},
                      NEW i \in Eligible \ accepted
               PROVE  \/ \E j \in accepted : records[j].code = records[i].code
                      \/ Cardinality({j \in accepted :
                              Payer(records[j].tx) = Payer(records[i].tx)}) = SubmitterCap
    BY DEF NothingLeftOut
  <2>1. i \in DOMAIN records
    BY DEF Eligible
  <2>2. Settled(i)
    BY DEF SettledInv
  <2> QED
    BY <2>1, <2>2, PayerIsSubmitter DEF Settled
<1> QED
  BY <1>1, <1>2, CapsInit, CapsNext, SettledNext, PTL DEF Spec

-----------------------------------------------------------------------------
(***************************************************************************)
(* The identity of a contract.  What is remembered of a contract is what   *)
(* every record made since the last restart says of it, if its lookup was  *)
(* answered; and it is asked for again only when nothing is remembered.    *)
(***************************************************************************)

\* Record i was made in the run that is under way.
OfThisRun(i) == restarts \cap i .. Len(records) = {}

Answered(i) == records[i].root # None /\ records[i].lookup # Failed

\* What a record is made of: a lookup for each contract invoked, and no other.
IsRecord(r) ==
    \E tx \in Transaction, lookup \in Lookup \cup {None} :
        /\ r = PilotRecord(tx, lookup)
        /\ IF r.root = None THEN lookup = None ELSE r.root \in Contract /\ lookup \in Lookup

IdentityInv ==
    /\ deployed \in [Contract -> Executable \cup {NotFound}]
    /\ instances \in [Contract -> (Lookup \ {Failed}) \cup {None}]
    /\ restarts \subseteq 0 .. Len(records)
    /\ \A i \in DOMAIN records : IsRecord(records[i])
    /\ \A i \in DOMAIN records :
          Answered(i) /\ OfThisRun(i) => records[i].lookup = instances[records[i].root]
    /\ OneAnswerPerContract
    /\ OutagesAreArtefacts

LEMMA IdentityInit == Init => IdentityInv
<1> SUFFICES ASSUME Init PROVE IdentityInv
  OBVIOUS
<1>1. records = << >> /\ DOMAIN records = {} /\ restarts = {} /\ outages = {}
  BY DEF Init
<1>2. deployed \in [Contract -> Executable \cup {NotFound}]
  BY LookupAssumption DEF Init
<1>3. instances \in [Contract -> (Lookup \ {Failed}) \cup {None}]
  BY DEF Init
<1>4. OneAnswerPerContract /\ OutagesAreArtefacts
  BY <1>1 DEF OneAnswerPerContract, OutagesAreArtefacts
<1> QED
  BY <1>1, <1>2, <1>3, <1>4 DEF IdentityInv

\* What one lookup does.
LEMMA LookupFacts ==
    ASSUME IdentityInv, NEW c \in Contract, NEW lookup, Instance(c, lookup)
    PROVE  /\ lookup \in Lookup
           /\ instances' \in [Contract -> (Lookup \ {Failed}) \cup {None}]
           /\ lookup # Failed => instances'[c] = lookup
           /\ \A d \in Contract : instances[d] # None => instances'[d] = instances[d]
           /\ lookup = Failed => outages' = outages \cup {Len(records) + 1}
           /\ lookup # Failed => outages' = outages
<1>1. /\ deployed[c] \in Lookup \ {Failed} /\ instances[c] \in (Lookup \ {Failed}) \cup {None}
      /\ Failed \in Lookup
  BY LookupAssumption DEF IdentityInv, Lookup, Executable, NotFound, Failed, StellarAsset,
     ExternalRef
<1>2. CASE instances[c] # None
  BY <1>1, <1>2 DEF Instance, IdentityInv
<1>3. CASE instances[c] = None
  BY <1>1, <1>3 DEF Instance, IdentityInv
<1> QED
  BY <1>2, <1>3

\* A record is added that agrees with what is remembered.
LEMMA ReadKeepsIdentity ==
    ASSUME RecordsInv, IdentityInv, Read
    PROVE  IdentityInv'
<1> DEFINE root == RootContract(Unwrap(Head(unread).envelope))
<1>1. PICK lookup \in Lookup \cup {None} :
         /\ IF root = None THEN lookup = None /\ UNCHANGED <<instances, outages>>
                           ELSE Instance(root, lookup)
         /\ records' = Append(records, PilotRecord(Head(unread), lookup))
  BY DEF Read
<1> DEFINE r == PilotRecord(Head(unread), lookup)
           n == Len(records)
<1>2. r.root = root /\ r.lookup = lookup
  BY DEF PilotRecord
<1>3. root = None \/ root \in Contract
  BY DEF RootContract
<1>4. Head(unread) \in Transaction
  BY DEF RecordsInv, Read
<1>5. UNCHANGED <<deployed, restarts>>
  BY DEF Read, ledgerVars
<1>6. /\ n \in Nat /\ DOMAIN records = 1 .. n /\ DOMAIN records' = 1 .. n + 1
      /\ Len(records') = n + 1 /\ records'[n + 1] = r
      /\ \A i \in DOMAIN records : records'[i] = records[i]
  BY <1>1 DEF RecordsInv
<1>7. root # None => root \in Contract /\ Instance(root, lookup)
  BY <1>1, <1>3
<1>8. /\ IF root = None THEN lookup = None ELSE lookup \in Lookup
      /\ instances' \in [Contract -> (Lookup \ {Failed}) \cup {None}]
      /\ root # None /\ lookup # Failed => instances'[root] = lookup
      /\ \A d \in Contract : instances[d] # None => instances'[d] = instances[d]
      /\ outages' = IF lookup = Failed THEN outages \cup {n + 1} ELSE outages
  <2>1. CASE root = None
    <3>1. lookup = None /\ lookup # Failed
      BY <1>1, <2>1, LookupAssumption DEF Lookup
    <3> QED
      BY <1>1, <2>1, <3>1 DEF IdentityInv
  <2>2. CASE root # None
    <3>1. /\ lookup \in Lookup
          /\ instances' \in [Contract -> (Lookup \ {Failed}) \cup {None}]
          /\ lookup # Failed => instances'[root] = lookup
          /\ \A d \in Contract : instances[d] # None => instances'[d] = instances[d]
          /\ lookup = Failed => outages' = outages \cup {n + 1}
          /\ lookup # Failed => outages' = outages
      BY <1>7, <2>2, LookupFacts
    <3> QED
      BY <2>2, <3>1
  <2> QED
    BY <2>1, <2>2
<1>9. IsRecord(r)
  BY <1>2, <1>3, <1>4, <1>8 DEF IsRecord
<1>10. \A i \in DOMAIN records' : IsRecord(records'[i])
  BY <1>6, <1>9 DEF IdentityInv
<1>11. ASSUME NEW i \in DOMAIN records', Answered(i)', OfThisRun(i)'
       PROVE  records'[i].lookup = instances'[records'[i].root]
  <2>1. CASE i = n + 1
    BY <1>2, <1>6, <1>8, <1>11, <2>1 DEF Answered
  <2>2. CASE i \in DOMAIN records
    <3>1. Answered(i)
      BY <1>6, <1>11, <2>2 DEF Answered
    <3>2. OfThisRun(i)
      BY <1>5, <1>6, <1>11, <2>2 DEF OfThisRun
    <3>3. records[i].lookup = instances[records[i].root]
      BY <2>2, <3>1, <3>2 DEF IdentityInv
    <3>4. records[i].root \in Contract /\ records[i].lookup \in Lookup
      <4>1. IsRecord(records[i]) /\ records[i].root # None
        BY <2>2, <3>1 DEF IdentityInv, Answered
      <4>2. PICK tx \in Transaction, l \in Lookup \cup {None} :
               /\ records[i] = PilotRecord(tx, l)
               /\ records[i].root \in Contract /\ l \in Lookup
        BY <4>1 DEF IsRecord
      <4>3. records[i].lookup = l
        BY <4>2 DEF PilotRecord
      <4> QED
        BY <4>2, <4>3
    <3>5. instances[records[i].root] # None
      BY <3>3, <3>4, LookupAssumption
    <3> QED
      BY <1>6, <1>8, <2>2, <3>3, <3>4, <3>5
  <2> QED
    BY <1>6, <2>1, <2>2
<1>12. OutagesAreArtefacts'
  <2>1. {i \in DOMAIN records' : records'[i].lookup = Failed}
           = {i \in DOMAIN records : records[i].lookup = Failed}
             \cup (IF lookup = Failed THEN {n + 1} ELSE {})
    BY <1>2, <1>6
  <2> QED
    BY <1>8, <2>1 DEF IdentityInv, OutagesAreArtefacts
<1>13. deployed' \in [Contract -> Executable \cup {NotFound}]
       /\ restarts' \subseteq 0 .. Len(records')
  BY <1>5, <1>6 DEF IdentityInv
<1>14. OneAnswerPerContract'
  <2> SUFFICES ASSUME NEW i \in DOMAIN records', NEW j \in DOMAIN records',
                      Answered(i)', Answered(j)', records'[i].root = records'[j].root,
                      restarts' \cap i .. j - 1 = {}, i < j
               PROVE  records'[i].lookup = records'[j].lookup
    BY DEF OneAnswerPerContract, Answered
  <2>1. CASE j = n + 1
    <3>1. OfThisRun(i)'
      <4>1. restarts' \subseteq 0 .. n
        BY <1>5, <1>6 DEF IdentityInv
      <4> QED
        BY <1>6, <2>1, <4>1 DEF OfThisRun
    <3>2. OfThisRun(j)'
      <4>1. restarts' \subseteq 0 .. n
        BY <1>5, <1>6 DEF IdentityInv
      <4> QED
        BY <1>6, <2>1, <4>1 DEF OfThisRun
    <3> QED
      BY <1>11, <3>1, <3>2
  <2>2. CASE j \in DOMAIN records
    <3>1. i \in DOMAIN records
      BY <1>6, <2>2
    <3>2. Answered(i) /\ Answered(j) /\ records[i].root = records[j].root
      BY <1>6, <2>2, <3>1 DEF Answered
    <3> QED
      BY <1>5, <1>6, <2>2, <3>1, <3>2 DEF IdentityInv, OneAnswerPerContract, Answered
  <2> QED
    BY <1>6, <2>1, <2>2
<1> QED
  BY <1>8, <1>10, <1>11, <1>12, <1>13, <1>14 DEF IdentityInv

\* After a restart no record is of the run that is under way.
LEMMA RestartKeepsIdentity ==
    ASSUME RecordsInv, IdentityInv, Restart
    PROVE  IdentityInv'
<1>1. /\ restarts' = restarts \cup {Len(records)}
      /\ instances' = [c \in Contract |-> None]
      /\ UNCHANGED <<deployed, records, outages>>
  BY DEF Restart, ledgerVars
<1>2. Len(records) \in Nat /\ DOMAIN records = 1 .. Len(records)
  BY DEF RecordsInv
<1>3. \A i \in DOMAIN records : ~OfThisRun(i)'
  BY <1>1, <1>2 DEF OfThisRun
<1>4. \A i \in DOMAIN records' :
         Answered(i)' /\ OfThisRun(i)' => records'[i].lookup = instances'[records'[i].root]
  BY <1>1, <1>3
<1>5. restarts' \subseteq 0 .. Len(records')
  <2>1. Len(records) \in 0 .. Len(records)
    BY <1>2
  <2>2. restarts \subseteq 0 .. Len(records)
    BY DEF IdentityInv
  <2> QED
    BY <1>1, <2>1, <2>2
<1>6. instances' \in [Contract -> (Lookup \ {Failed}) \cup {None}]
  BY <1>1
<1>7. /\ deployed' \in [Contract -> Executable \cup {NotFound}]
      /\ \A i \in DOMAIN records' : IsRecord(records'[i])
      /\ OutagesAreArtefacts'
  BY <1>1 DEF IdentityInv, OutagesAreArtefacts
<1>8. OneAnswerPerContract'
  BY <1>1 DEF IdentityInv, OneAnswerPerContract
<1> QED
  BY <1>4, <1>5, <1>6, <1>7, <1>8 DEF IdentityInv

LEMMA IdentityNext ==
    ASSUME RecordsInv, IdentityInv, [Next]_vars
    PROVE  IdentityInv'
<1>1. ASSUME UNCHANGED <<instances, records, outages, restarts>>,
             deployed' \in [Contract -> Executable \cup {NotFound}]
      PROVE  IdentityInv'
  <2>1. \A i : OfThisRun(i)' = OfThisRun(i) /\ Answered(i)' = Answered(i)
    BY <1>1 DEF OfThisRun, Answered
  <2>2. OneAnswerPerContract' /\ OutagesAreArtefacts'
    BY <1>1 DEF IdentityInv, OneAnswerPerContract, OutagesAreArtefacts
  <2> QED
    BY <1>1, <2>1, <2>2 DEF IdentityInv
<1>2. ASSUME UNCHANGED <<deployed, instances, records, outages, restarts>> PROVE IdentityInv'
  BY <1>1, <1>2 DEF IdentityInv
<1>3. CASE UNCHANGED vars
  BY <1>2, <1>3 DEF vars
<1>4. ASSUME NEW c \in Contract, Change(c) PROVE IdentityInv'
  <2>1. deployed' \in [Contract -> Executable \cup {NotFound}]
    BY <1>4 DEF Change, IdentityInv
  <2> QED
    BY <1>1, <1>4, <2>1 DEF Change, censusVars
<1>5. CASE Skip
  BY <1>2, <1>5 DEF Skip, ledgerVars
<1>6. CASE Read
  BY <1>6, ReadKeepsIdentity
<1>7. CASE Restart
  BY <1>7, RestartKeepsIdentity
<1>8. CASE NextRound
  BY <1>2, <1>8 DEF NextRound, ledgerVars, censusVars
<1>9. ASSUME NEW i \in DOMAIN records, Walk(i) PROVE IdentityInv'
  BY <1>2, <1>9 DEF Walk, ledgerVars, censusVars
<1> QED
  BY <1>3, <1>4, <1>5, <1>6, <1>7, <1>8, <1>9 DEF Next

\* One run of the census gives a contract one identity, whatever is upgraded,
\* archived or not answered meanwhile.
THEOREM OneIdentityPerRun == Spec => []OneAnswerPerContract
<1>1. IdentityInv => OneAnswerPerContract
  BY DEF IdentityInv
<1> QED
  BY <1>1, RecordsInit, RecordsNext, IdentityInit, IdentityNext, PTL DEF Spec

\* The records that say a lookup failed are those for which the provider was
\* asked in vain: no failure is remembered for a later record.
THEOREM OutagesAreNotRemembered == Spec => []OutagesAreArtefacts
<1>1. IdentityInv => OutagesAreArtefacts
  BY DEF IdentityInv
<1> QED
  BY <1>1, RecordsInit, RecordsNext, IdentityInit, IdentityNext, PTL DEF Spec

-----------------------------------------------------------------------------
(***************************************************************************)
(* Types.  A code is read or there is a reason why not; what the report    *)
(* works on are eligible records, and those have a code.                   *)
(***************************************************************************)

LEMMA CodeFacts ==
    ASSUME NEW lookup \in Lookup, NEW footprint
    PROVE  \/ /\ CodeCluster(lookup, footprint).cluster \in Wasm \cup {StellarAsset}
              /\ CodeCluster(lookup, footprint).reason = None
           \/ /\ CodeCluster(lookup, footprint).cluster = None
              /\ CodeCluster(lookup, footprint).reason \in Unresolved
<1>1. lookup \in Wasm \cup {StellarAsset, ExternalRef, NotFound, Failed}
  BY DEF Lookup, Executable
<1>2. CASE lookup \in Wasm
  <2>1. lookup \notin {StellarAsset, ExternalRef, NotFound, Failed}
    BY <1>2, LookupAssumption
  <2>2. CASE lookup \in footprint
    BY <1>2, <2>1, <2>2 DEF CodeCluster
  <2>3. CASE lookup \notin footprint
    BY <1>2, <2>1, <2>3 DEF CodeCluster, Unresolved
  <2> QED
    BY <2>2, <2>3
<1>3. CASE lookup \in {NotFound, Failed}
  <2>1. lookup \notin Wasm \cup {StellarAsset, ExternalRef}
    BY <1>3, LookupAssumption DEF StellarAsset, ExternalRef, NotFound, Failed
  <2> QED
    BY <1>3, <2>1 DEF CodeCluster, Unresolved
<1>4. CASE lookup = ExternalRef
  <2>1. lookup \notin Wasm \cup {StellarAsset, NotFound, Failed}
    BY <1>4, LookupAssumption DEF StellarAsset, ExternalRef, NotFound, Failed
  <2> QED
    BY <1>4, <2>1 DEF CodeCluster, Unresolved
<1>5. CASE lookup = StellarAsset
  <2>1. lookup \notin Wasm \cup {ExternalRef, NotFound, Failed}
    BY <1>5, LookupAssumption DEF StellarAsset, ExternalRef, NotFound, Failed
  <2> QED
    BY <1>5, <2>1 DEF CodeCluster
<1> QED
  BY <1>1, <1>2, <1>3, <1>4, <1>5

\* A record has a code, a reason why not, or no root contract.
LEMMA RecordCode ==
    ASSUME NEW r, IsRecord(r)
    PROVE  \/ r.code \in Wasm \cup {StellarAsset} /\ r.reason = None
           \/ r.code = None /\ r.reason \in Unresolved
           \/ r.code = None /\ r.reason = None /\ r.root = None
<1>1. PICK tx \in Transaction, lookup \in Lookup \cup {None} :
         /\ r = PilotRecord(tx, lookup)
         /\ IF r.root = None THEN lookup = None ELSE r.root \in Contract /\ lookup \in Lookup
  BY DEF IsRecord
<1> DEFINE footprint == Unwrap(tx.envelope).footprint
<1>2. CASE r.root = None
  <2>1. r.code = None /\ r.reason = None
    BY <1>1, <1>2 DEF PilotRecord
  <2> QED
    BY <1>2, <2>1
<1>3. CASE r.root # None
  <2>1. /\ r.code = CodeCluster(lookup, footprint).cluster
        /\ r.reason = CodeCluster(lookup, footprint).reason
    BY <1>1, <1>3 DEF PilotRecord
  <2>2. lookup \in Lookup
    BY <1>1, <1>3
  <2> HIDE DEF footprint
  <2> QED
    BY <2>1, <2>2, CodeFacts
<1> QED
  BY <1>2, <1>3

\* Which checks an eligible record has passed.
LEMMA EligibleFacts ==
    ASSUME NEW r, Exclusion(r) = None
    PROVE  r.root # None /\ r.reason = None
<1>1. /\ None # "unexpected_operation_count" /\ None # "no_diagnostic_events"
      /\ None # "no_root_contract_invocation"
  BY LookupAssumption DEF Excluded, Unresolved
<1>2. r.operations = 1
  <2> SUFFICES ASSUME r.operations # 1 PROVE FALSE
    OBVIOUS
  <2>1. Exclusion(r) = "unexpected_operation_count"
    BY DEF Exclusion
  <2> QED
    BY <1>1, <2>1
<1>3. r.events # 0
  <2> SUFFICES ASSUME r.events = 0 PROVE FALSE
    OBVIOUS
  <2>1. Exclusion(r) = "no_diagnostic_events"
    BY <1>2 DEF Exclusion
  <2> QED
    BY <1>1, <2>1
<1>4. r.root # None
  <2> SUFFICES ASSUME r.root = None PROVE FALSE
    OBVIOUS
  <2>1. Exclusion(r) = "no_root_contract_invocation"
    BY <1>2, <1>3 DEF Exclusion
  <2> QED
    BY <1>1, <2>1
<1>5. Exclusion(r) = r.reason
  BY <1>2, <1>3, <1>4 DEF Exclusion
<1> QED
  BY <1>4, <1>5

LEMMA EligibleCode ==
    ASSUME IdentityInv, NEW i \in Eligible
    PROVE  i \in DOMAIN records /\ records[i].code \in Wasm \cup {StellarAsset}
<1>1. i \in DOMAIN records /\ Exclusion(records[i]) = None
  BY DEF Eligible
<1>2. IsRecord(records[i])
  BY <1>1 DEF IdentityInv
<1>3. records[i].root # None /\ records[i].reason = None
  BY <1>1, EligibleFacts
<1>4. None \notin Unresolved
  BY LookupAssumption DEF Excluded
<1> QED
  BY <1>1, <1>2, <1>3, <1>4, RecordCode

\* A record that passes every eligibility check has a code cluster, whatever
\* was looked up: the expect("eligible") of the selection cannot fail.
THEOREM EligibleHasCluster == Spec => []EligibleIsClustered
<1>1. IdentityInv => EligibleIsClustered
  <2>1. None \notin Wasm \cup {StellarAsset}
    BY LookupAssumption DEF Lookup, Executable
  <2> QED
    BY <2>1, EligibleCode DEF EligibleIsClustered
<1> QED
  BY <1>1, RecordsInit, RecordsNext, IdentityInit, IdentityNext, PTL DEF Spec

\* What the report accepts was eligible and still is; what it counts, it
\* counts for accounts that submitted something.
AcceptedInv ==
    /\ accepted \subseteq Eligible
    /\ DOMAIN submitters \subseteq Submitter

TypesInv == CapsInv /\ IdentityInv /\ AcceptedInv

LEMMA AcceptedNext ==
    ASSUME CapsInv, AcceptedInv, [Next]_vars
    PROVE  AcceptedInv'
<1>1. ASSUME UNCHANGED <<records, reportVars>> PROVE AcceptedInv'
  BY <1>1 DEF AcceptedInv, Eligible, reportVars
<1>2. CASE UNCHANGED vars
  BY <1>1, <1>2 DEF vars, reportVars
<1>3. ASSUME NEW c \in Contract, Change(c) PROVE AcceptedInv'
  BY <1>1, <1>3 DEF Change, censusVars
<1>4. CASE Skip
  BY <1>1, <1>4 DEF Skip
<1>5. CASE Read
  <2>1. Recording
    BY <1>5, ReadRecords DEF CapsInv
  <2>2. accepted = {} /\ accepted' = {} /\ submitters' = submitters
    BY <2>1 DEF CapsInv, RecordsInv, RoundsInv, Recording, reportVars
  <2> QED
    BY <2>2 DEF AcceptedInv
<1>6. CASE NextRound
  BY <1>6 DEF NextRound, censusVars, AcceptedInv, Eligible
<1>7. ASSUME NEW i \in DOMAIN records, Walk(i) PROVE AcceptedInv'
  <2>1. i \in candidates /\ records' = records
    BY <1>7 DEF Walk, censusVars
  <2>2. Eligible' = Eligible
    BY <2>1 DEF Eligible
  <2>3. i \in Eligible
    BY <2>1 DEF CapsInv, RoundsInv, Of
  <2>4. records[i].submitter \in Submitter
    BY RecordFacts DEF CapsInv, RecordsInv
  <2>5. accepted' \subseteq accepted \cup {i}
    BY <1>7 DEF Walk
  <2>6. DOMAIN submitters' \subseteq DOMAIN submitters \cup {records[i].submitter}
    <3>1. CASE records[i].code \in codes
      BY <1>7, <3>1 DEF Walk
    <3>2. CASE records[i].code \notin codes
      BY <1>7, <3>2 DEF Walk
    <3> QED
      BY <3>1, <3>2
  <2> QED
    BY <2>2, <2>3, <2>4, <2>5, <2>6 DEF AcceptedInv
<1>8. CASE Restart
  BY <1>1, <1>8 DEF Restart
<1> QED
  BY <1>2, <1>3, <1>4, <1>5, <1>6, <1>7, <1>8 DEF Next

\* Every variable keeps its type; among them that what is walked or accepted is
\* eligible, that the codes counted are codes, and that no submitter's count
\* passes the cap.
THEOREM TypeCorrect == Spec => []TypeOK
<1>1. Init => TypesInv
  <2> SUFFICES ASSUME Init PROVE AcceptedInv
    BY CapsInit, IdentityInit DEF TypesInv
  <2> QED
    BY DEF Init, AcceptedInv
<1>2. TypesInv /\ [Next]_vars => TypesInv'
  BY CapsNext, IdentityNext, AcceptedNext DEF TypesInv, CapsInv
<1>3. TypesInv => TypeOK
  <2> SUFFICES ASSUME TypesInv PROVE TypeOK
    OBVIOUS
  <2>1. CapsInv /\ RecordsInv /\ RoundsInv /\ CountersInv /\ IdentityInv /\ AcceptedInv
    BY DEF TypesInv, CapsInv
  <2>2. /\ deployed \in [Contract -> Executable \cup {NotFound}]
        /\ instances \in [Contract -> (Lookup \ {Failed}) \cup {None}]
        /\ restarts \subseteq 0 .. Len(records)
    BY <2>1 DEF IdentityInv
  <2>3. ASSUME NEW i \in DOMAIN records
        PROVE  /\ records[i].code \in Wasm \cup {StellarAsset, None}
               /\ records[i].reason \in Unresolved \cup {None}
    <3>1. IsRecord(records[i])
      BY <2>1 DEF IdentityInv
    <3> QED
      BY <3>1, RecordCode
  <2>4. accepted \subseteq Eligible
    BY <2>1 DEF AcceptedInv
  <2>5. codes \subseteq Wasm \cup {StellarAsset}
    <3>1. \A j \in accepted : records[j].code \in Wasm \cup {StellarAsset}
      BY <2>1, <2>4, EligibleCode
    <3> QED
      BY <2>1, <3>1 DEF CountersInv
  <2>6. ASSUME NEW s \in DOMAIN submitters PROVE submitters[s] \in 0 .. SubmitterCap
    <3>1. s \in Submitter
      BY <2>1 DEF AcceptedInv
    <3>2. Samples(s) = Cardinality(PaidBy(s)) /\ Samples(s) <= SubmitterCap
      BY <2>1, <3>1 DEF CountersInv
    <3>3. Cardinality(PaidBy(s)) \in Nat
      BY <2>1, PaidByIsFinite
    <3>4. submitters[s] = Samples(s)
      BY DEF Samples
    <3> QED
      BY <3>2, <3>3, <3>4, SamplingAssumption
  <2>7. round \in 0 .. 2
    BY <2>1 DEF RecordsInv
  <2>8. candidates \subseteq Eligible
    BY <2>1 DEF RoundsInv, Of
  <2>9. outages \subseteq DOMAIN records
    BY <2>1 DEF IdentityInv, OutagesAreArtefacts
  <2> QED
    BY <2>2, <2>3, <2>4, <2>5, <2>6, <2>7, <2>8, <2>9 DEF TypeOK
<1> QED
  BY <1>1, <1>2, <1>3, PTL DEF Spec

=============
