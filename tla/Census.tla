------------------------------- MODULE Census -------------------------------
(***************************************************************************)
(* Ledger mode of examples/survey_failures.rs: a census that reads sampled *)
(* ledgers whole, writes one JSONL record for each failed transaction,     *)
(* logs each ledger, and resumes from its two files after it was stopped.  *)
(* The report of examples/pilot_report.rs is the state function Published. *)
(*                                                                         *)
(* The providers are external: the transactions are one sequence, a cursor *)
(* is a position in it, and any call may fail.  Each provider has ingested *)
(* the ledgers up to its tip, and the two need not have the same.  A       *)
(* transaction keeps its ledger, its hash and whether failed_soroban       *)
(* yields a record for it.  The process may stop between any two steps:    *)
(* its memory and the buffer of its BufWriter are lost, the files stay.    *)
(***************************************************************************)
EXTENDS Strata, Sequences, FiniteSets, FiniteSetsExt, Functions

CONSTANTS
    Chain,        \* the network's transactions, in ledger order
    Lo, Hi,       \* --window, the same in every run
    Count,        \* --ledgers
    Tips,         \* the ledgers the providers may have ingested at first
    PageSize,     \* transactions in a page
    MaxRuns,      \* bound: how many times the census is started
    Garbage,      \* a line that does not parse
    None          \* no cursor

Provider == {"primary", "fallback"}

\* A line of the ledger log.
Line == [ledger : Nat, status : {"read", "unreadable"}]

ASSUME CensusAssumption ==
    /\ Lo \in Nat \ {0} /\ Hi \in Nat /\ Lo < Hi
    /\ Count \in Nat
    /\ PageSize \in Nat \ {0}
    /\ MaxRuns \in Nat
    /\ Tips \subseteq [Provider -> Nat]
    /\ \A t \in Tips : \E p \in Provider : t[p] >= Hi
    /\ Chain \in Seq(Range(Chain))
    /\ \A tx \in Range(Chain) : tx.ledger \in Nat /\ tx.failed \in BOOLEAN
    /\ \A i, j \in DOMAIN Chain : i < j => Chain[i].ledger <= Chain[j].ledger
    /\ Garbage \notin Range(Chain) \cup Line

VARIABLES
    jsonl, log,     \* the files: their lines, and the one not ended by a newline
    runs,           \* how many runs have started
    pc,             \* what the run does next
    done,           \* the ledgers earlier runs read
    ledger,         \* the ledger being read, the last one read, or 0
    cursor,         \* where its next page starts
    read,           \* its transactions read and not yet turned into records, by place
    buffer,         \* records held by the BufWriter
    half,           \* what the file holds of the buffer's first record
    tears,          \* history: how many stops left either file with a cut line
    sampled,        \* the ledgers chosen, the same in every run
    tip,            \* the last ledger each provider has ingested
    short           \* history: the ledgers a provider ended before it had them

files == <<jsonl, log>>
place == <<sampled, tip>>
vars == <<jsonl, log, runs, pc, done, ledger, cursor, read, buffer, half, tears,
          sampled, tip, short>>

Empty == [lines |-> << >>, cut |-> << >>]

\* Complete lines written at the end of a file.  The first one continues a
\* line that an earlier run left unfinished, and neither parses.
Put(file, lines) ==
    IF lines = << >> THEN file
    ELSE [lines |-> file.lines \o (IF file.cut = << >> THEN lines
                                   ELSE <<Garbage>> \o Tail(lines)),
          cut |-> << >>]

\* What can follow the last newline of a file stopped while it wrote a line:
\* nothing, a part that does not parse, or all of the line but its newline.
Cuts(line) == {<< >>, <<Garbage>>, <<line>>}

Parsed(file) == Range(file.lines \o file.cut) \ {Garbage}

\* already_read: the ledgers with a line of status read.
AlreadyRead == {l.ledger : l \in {k \in Parsed(log) : k.status = "read"}}

LogLine(l, status) == [ledger |-> l, status |-> status]

Init ==
    /\ jsonl = Empty /\ log = Empty
    /\ runs = 0
    /\ pc = "start"
    /\ done = {}
    /\ ledger = 0
    /\ cursor = None
    /\ read = {}
    /\ buffer = << >> /\ half = << >>
    /\ tears = [jsonl |-> 0, log |-> 0]
    /\ sampled \in {Stratified(Lo, Hi, Count, offset) : offset \in Offsets(Lo, Hi, Count)}
    /\ tip \in Tips
    /\ short = {}

-----------------------------------------------------------------------------
\* Mutant: every run starts the JSONL afresh.
Start_Truncate ==
    /\ pc = "start"
    /\ runs < MaxRuns
    /\ runs' = runs + 1
    /\ done' = AlreadyRead
    /\ jsonl' = Empty
    /\ pc' = "next"
    /\ ledger' = 0
    /\ UNCHANGED <<log, cursor, read, buffer, half, tears, place, short>>

\* The provider that answers getHealth must have the window.  A run that
\* resumes appends to the JSONL; one that finds no ledger read starts it afresh.
Start ==
    /\ pc = "start"
    /\ runs < MaxRuns
    /\ \E p \in Provider : Hi <= tip[p]
    /\ runs' = runs + 1
    /\ done' = AlreadyRead
    /\ jsonl' = IF done' = {} THEN Empty ELSE jsonl
    /\ pc' = "next"
    /\ ledger' = 0
    /\ UNCHANGED <<log, cursor, read, buffer, half, tears, place, short>>

\* Mutant: the ledgers earlier runs read are not left out.
Remaining_Again == {l \in sampled : l > ledger}

Remaining == {l \in sampled \ done : l > ledger}

\* Mutant: the transactions are collected in a vector that outlives the ledger.
NextLedger_Stale ==
    /\ pc = "next"
    /\ IF Remaining = {} THEN pc' = "finished" /\ UNCHANGED ledger
                         ELSE pc' = "page" /\ ledger' = Min(Remaining)
    /\ cursor' = None
    /\ UNCHANGED <<jsonl, log, runs, done, read, buffer, half, tears, place, short>>

NextLedger ==
    /\ pc = "next"
    /\ IF Remaining = {} THEN pc' = "finished" /\ UNCHANGED ledger
                         ELSE pc' = "page" /\ ledger' = Min(Remaining)
    /\ cursor' = None
    /\ read' = {}
    /\ UNCHANGED <<jsonl, log, runs, done, buffer, half, tears, place, short>>

-----------------------------------------------------------------------------
\* The place of the last transaction before ledger l.
Before(l) == Cardinality({i \in DOMAIN Chain : Chain[i].ledger < l})

From == IF cursor = None THEN Before(ledger) ELSE cursor

\* A provider answers with the places of a page of the ledgers it has ingested.
Until(p) == Max({From, Min({From + PageSize, Before(tip[p] + 1)})})

Page(p) == From + 1 .. Until(p)

\* It refuses to start at a ledger it does not have, but not to go on from a
\* cursor that lies behind its tip.
Answers(p) == cursor = None => ledger <= tip[p]

\* The ledger counts as read to its end.
Reached(page) == page = {} \/ \E i \in page : Chain[i].ledger > ledger

\* One page of whole_ledger: Rpc::call returns the primary's answer, or the
\* fallback's when four calls of the primary failed.  Without a cursor to go
\* on from, a ledger that may not be complete is not used.
ReadPage ==
    /\ pc = "page"
    /\ \E p \in Provider :
          /\ Answers(p)
          /\ read' = read \cup {i \in Page(p) : Chain[i].ledger = ledger}
          /\ \E c \in {Until(p), None} :
                /\ cursor' = c
                /\ pc' = IF Reached(Page(p)) THEN "write"
                         ELSE IF c = None THEN "unreadable" ELSE "page"
          /\ short' = IF Reached(Page(p)) /\ tip[p] < ledger THEN short \cup {ledger}
                                                            ELSE short \ {ledger}
    /\ UNCHANGED <<jsonl, log, runs, done, ledger, buffer, half, tears, place>>

\* A provider ingests the next ledger of the network.
Ingest ==
    /\ \E p \in Provider, q \in Provider :
          /\ tip[p] < tip[q]
          /\ tip' = [tip EXCEPT ![p] = @ + 1]
    /\ UNCHANGED <<jsonl, log, runs, pc, done, ledger, cursor, read, buffer, half,
                   tears, sampled, short>>

\* Mutant: a ledger whose call failed is taken up again at once.
CallFails_AtOnce ==
    /\ pc = "page"
    /\ pc' = "next"
    /\ ledger' = ledger - 1
    /\ UNCHANGED <<jsonl, log, runs, done, cursor, read, buffer, half, tears, place, short>>

\* A call that fails four times, and on the fallback: the ledger is given up.
CallFails ==
    /\ pc = "page"
    /\ pc' = "unreadable"
    /\ UNCHANGED <<jsonl, log, runs, done, ledger, cursor, read, buffer, half, tears, place, short>>

LogUnreadable ==
    /\ pc = "unreadable"
    /\ log' = Put(log, <<LogLine(ledger, "unreadable")>>)
    /\ pc' = "next"
    /\ UNCHANGED <<jsonl, runs, done, ledger, cursor, read, buffer, half, tears, place, short>>

-----------------------------------------------------------------------------
\* One transaction of the ledger: a record if it is a failed Soroban one.
Write ==
    /\ pc = "write"
    /\ read # {}
    /\ LET i == Min(read) IN
          /\ read' = read \ {i}
          /\ buffer' = IF Chain[i].failed THEN Append(buffer, Chain[i]) ELSE buffer
    /\ UNCHANGED <<jsonl, log, runs, pc, done, ledger, cursor, half, tears, place, short>>

\* The BufWriter is full: some records reach the file, the last one perhaps
\* only in part.
Spill ==
    /\ pc = "write"
    /\ buffer # << >>
    /\ \E n \in 0 .. Len(buffer) :
          /\ jsonl' = Put(jsonl, SubSeq(buffer, 1, n))
          /\ buffer' = SubSeq(buffer, n + 1, Len(buffer))
          /\ half' \in IF n < Len(buffer) THEN Cuts(buffer[n + 1]) ELSE {<< >>}
          /\ n = 0 => half = << >> /\ half' # << >>
    /\ UNCHANGED <<log, runs, pc, done, ledger, cursor, read, tears, place, short>>

\* Mutant: the JSONL is flushed only when the BufWriter is dropped.
Flush_Late ==
    /\ pc = "write"
    /\ read = {}
    /\ pc' = "log"
    /\ UNCHANGED <<jsonl, buffer, half, log, runs, done, ledger, cursor, read, tears, place, short>>

\* "The JSONL is flushed before the ledger is logged as read."
Flush ==
    /\ pc = "write"
    /\ read = {}
    /\ jsonl' = Put(jsonl, buffer)
    /\ buffer' = << >>
    /\ half' = << >>
    /\ pc' = "log"
    /\ UNCHANGED <<log, runs, done, ledger, cursor, read, tears, place, short>>

LogRead ==
    /\ pc = "log"
    /\ log' = Put(log, <<LogLine(ledger, "read")>>)
    /\ pc' = "next"
    /\ UNCHANGED <<jsonl, runs, done, ledger, cursor, read, buffer, half, tears, place, short>>

-----------------------------------------------------------------------------
Finished == pc = "finished"

\* An unfinished line after the file's own, if it has one.
Torso(file, cut) == IF file.cut = << >> THEN cut ELSE <<Garbage>>

\* The run is stopped, or was finished and is started again to retry the
\* ledgers it could not read.  A line of the log, its newline too, is written
\* in pieces: the log has no buffer.
Stop ==
    /\ pc # "start"
    /\ runs < MaxRuns
    /\ pc' = "start"
    /\ jsonl' = IF half = << >> THEN jsonl ELSE [jsonl EXCEPT !.cut = Torso(jsonl, half)]
    /\ \E cut \in CASE pc = "log" -> Cuts(LogLine(ledger, "read"))
                   [] pc = "unreadable" -> Cuts(LogLine(ledger, "unreadable"))
                   [] OTHER -> {<< >>} :
          /\ log' = IF cut = << >> THEN log ELSE [log EXCEPT !.cut = Torso(log, cut)]
          /\ tears' = [jsonl |-> tears.jsonl + Len(half), log |-> tears.log + Len(cut)]
    /\ buffer' = << >>
    /\ half' = << >>
    /\ read' = {}
    /\ cursor' = None
    /\ done' = {}
    /\ UNCHANGED <<runs, ledger, place, short>>

Work == \/ Start \/ NextLedger \/ ReadPage \/ CallFails \/ LogUnreadable
        \/ Write \/ Flush \/ LogRead

Next == Work \/ Spill \/ Stop \/ Ingest

Spec == Init /\ [][Next]_vars /\ WF_vars(Work)

-----------------------------------------------------------------------------
Records == {tx \in Range(Chain) : tx.failed}

Failed(l) == {r \in Records : r.ledger = l}

File(S) == [lines : Seq(S), cut : Seq(S)]

TypeOK ==
    /\ jsonl \in File(Records \cup {Garbage})
    /\ log \in File(Line \cup {Garbage})
    /\ runs \in 0 .. MaxRuns
    /\ pc \in {"start", "next", "page", "unreadable", "write", "log", "finished"}
    /\ sampled \subseteq Lo .. Hi
    /\ AlreadyRead \cup done \cup short \subseteq sampled
    /\ ledger \in sampled \cup {0}
    /\ cursor \in 0 .. Len(Chain) \cup {None}
    /\ read \subseteq {i \in DOMAIN Chain : Chain[i].ledger = ledger}
    /\ buffer \in Seq(Failed(ledger))
    /\ half # << >> => buffer # << >> /\ half \in Cuts(buffer[1])
    /\ tears \in [jsonl : Nat, log : Nat]
    /\ tip \in [Provider -> Nat]

\* The records a report counts: each once, and only of ledgers read whole
\* (pilot_report.rs:240-249).  The report refuses a file with a line that does
\* not parse: this is what it counts once such lines are taken out.
Published == {r \in Parsed(jsonl) : r.ledger \in AlreadyRead}

\* What the records of ledgers logged as read fall short of.
LostRecords == (UNION {Failed(l) : l \in AlreadyRead}) \ Published

\* What a cut line can cost: as many records are lost as stops left the JSONL
\* with one, at most (the first record the next run writes), and none to a cut
\* line of the log.  A provider that lags costs only the ledgers it ended.
EachTearLosesAtMostOne ==
    Cardinality({r \in LostRecords : r.ledger \notin short}) <= tears.jsonl

\* Whatever stops and failures the census meets, as long as no stop cut a line
\* in two and no provider ended a ledger it did not have, a report over its
\* files sees ledgers enter the population one at a time, each with all its
\* failed transactions, and none leave.
Promise == INSTANCE Population WITH
              FailedIn <- Failed, settled <- AlreadyRead, published <- Published,
              intact <- tears = [jsonl |-> 0, log |-> 0] /\ short \cap AlreadyRead = {}

PopulationIsWhole == Promise!Spec

\* A census whose runs are not stopped for ever comes to an end.
CensusEnds == <>[]Finished

\* While the log says that a ledger was read, no run reads it again, whatever
\* stopped the runs before (survey_failures.rs:407).
NeverReadTwice ==
    [][\A l \in AlreadyRead : ~(pc = "next" /\ pc' = "page" /\ ledger' = l)]_vars

-----------------------------------------------------------------------------
\* "a resumed run never skips a ledger whose records were lost"
\* (survey_failures.rs:444-445): every failed transaction of a ledger logged
\* as read has its record.  A cut line shows that it may.
NothingReadIsLost == short = {} => LostRecords = {}

\* "A ledger is only ever used if it was read completely."
\* (survey_failures.rs:67): while no stop interferes, every failed transaction
\* of a ledger logged as read has its record.  A fallback behind the primary
\* shows that it may not.
OnlyWholeLedgersAreUsed == tears = [jsonl |-> 0, log |-> 0] => LostRecords = {}

=============================================================================
