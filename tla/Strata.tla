------------------------------- MODULE Strata -------------------------------
(***************************************************************************)
(* Which ledgers a run of examples/survey_failures.rs samples: one from    *)
(* each of `count` equal strata of the window (ledger mode), or the first  *)
(* ledgers of evenly spread pages (page mode).  The generator's numbers    *)
(* modulo the stratum are arbitrary offsets.                               *)
(***************************************************************************)
EXTENDS Integers

AtLeastOne(n) == IF n < 1 THEN 1 ELSE n

\* The width of a stratum.  What the division leaves over, and `hi` itself, lies
\* behind the last one.
Stratum(lo, hi, count) == AtLeastOne(AtLeastOne(hi - lo) \div AtLeastOne(count))

Offsets(lo, hi, count) == [1 .. count -> 0 .. Stratum(lo, hi, count) - 1]

\* The ledger of the i-th stratum.
Choice(lo, hi, count, offset, i) ==
    LET l == lo + (i - 1) * Stratum(lo, hi, count) + offset[i]
    IN  IF l < hi THEN l ELSE hi

Stratified(lo, hi, count, offset) == {Choice(lo, hi, count, offset, i) : i \in 1 .. count}

\* Where page p of page_mode starts.
PageStart(lo, hi, pages, p) == lo + ((hi - lo) * p) \div AtLeastOne(pages)

=============================================================================
