--------------------------- MODULE Census_proofs ----------------------------
(***************************************************************************)
(* What stratified_ledgers returns, for every window, count and generator, *)
(* and what a census owes its report, for every chain, window, sample,     *)
(* page size and number of runs, wherever the runs are stopped.            *)
(***************************************************************************)
EXTENDS Census, NatLemmas, FiniteSetTheorems, SequenceTheorems

-----------------------------------------------------------------------------
(***************************************************************************)
(* The ledgers chosen.                                                     *)
(***************************************************************************)

LEMMA Quotient ==
    ASSUME NEW a \in Nat, NEW b \in Nat, b >= 1
    PROVE  a \div b \in Nat /\ b * (a \div b) <= a
OBVIOUS

LEMMA Product ==
    ASSUME NEW i \in Nat, NEW j \in Nat, NEW w \in Nat, i <= j
    PROVE  i * w \in Nat /\ i * w <= j * w
OBVIOUS

LEMMA Distributes ==
    ASSUME NEW i \in Int, NEW w \in Nat
    PROVE  (i - 1) * w \in Int /\ i * w = (i - 1) * w + w
OBVIOUS

\* A stratum has at least one ledger, and as many strata as ledgers are asked
\* for fit before the end of the window when it has that many ledgers.
LEMMA StratumFits ==
    ASSUME NEW lo \in Nat, NEW hi \in Nat, NEW count \in Nat, lo <= hi
    PROVE  LET w == Stratum(lo, hi, count)
           IN  /\ w \in Nat \ {0}
               /\ count <= hi - lo => count * w <= hi - lo
<1> DEFINE w == Stratum(lo, hi, count)
           span == AtLeastOne(hi - lo)
           n == AtLeastOne(count)
<1>1. span \in Nat /\ n \in Nat /\ span >= 1 /\ n >= 1
  BY DEF AtLeastOne
<1>2. span \div n \in Nat /\ n * (span \div n) <= span
  BY <1>1, Quotient
<1>3. w = AtLeastOne(span \div n)
  BY DEF Stratum
<1>4. w \in Nat \ {0}
  BY <1>2, <1>3 DEF AtLeastOne
<1>5. ASSUME count <= hi - lo
      PROVE  count * w <= hi - lo
  <2>1. CASE count = 0
    BY <2>1, <1>4
  <2>2. CASE count >= 1
    <3>1. n = count /\ span = hi - lo
      BY <2>2, <1>5 DEF AtLeastOne
    <3>2. CASE span \div n >= 1
      BY <3>1, <3>2, <1>2, <1>3 DEF AtLeastOne
    <3>3. CASE span \div n < 1
      <4>1. w = 1
        BY <3>3, <1>2, <1>3 DEF AtLeastOne
      <4> QED
        BY <4>1, <1>5
    <3> QED
      BY <3>2, <3>3, <1>2
  <2> QED
    BY <2>1, <2>2
<1> QED
  BY <1>4, <1>5

\* stratified_ledgers stays inside the window, whatever the generator returns
\* and also when more ledgers are asked for than the window has.
THEOREM ChosenInWindow ==
    ASSUME NEW lo \in Nat, NEW hi \in Nat, NEW count \in Nat, lo <= hi,
           NEW offset \in Offsets(lo, hi, count)
    PROVE  Stratified(lo, hi, count, offset) \subseteq lo .. hi
<1> DEFINE w == Stratum(lo, hi, count)
<1>1. w \in Nat \ {0}
  BY StratumFits
<1>2. SUFFICES ASSUME NEW i \in 1 .. count
               PROVE  Choice(lo, hi, count, offset, i) \in lo .. hi
  BY DEF Stratified
<1>3. offset[i] \in Nat
  BY <1>1 DEF Offsets
<1>4. (i - 1) * w \in Nat
  BY <1>1, Product
<1> QED
  BY <1>3, <1>4 DEF Choice

\* One ledger from each of `count` equal strata: in a window of that many
\* ledgers or more, the i-th choice lies in the i-th stratum, so the choices are
\* distinct, and the ledgers behind the last stratum, `hi` one of them, are
\* never chosen.
THEOREM OnePerStratum ==
    ASSUME NEW lo \in Nat, NEW hi \in Nat, NEW count \in Nat, lo <= hi,
           count <= hi - lo,
           NEW offset \in Offsets(lo, hi, count),
           NEW i \in 1 .. count
    PROVE  LET w == Stratum(lo, hi, count)
               l == Choice(lo, hi, count, offset, i)
           IN  /\ lo + (i - 1) * w <= l
               /\ l < lo + i * w
               /\ lo + i * w <= hi
<1> DEFINE w == Stratum(lo, hi, count)
<1>1. w \in Nat \ {0} /\ count * w <= hi - lo
  BY StratumFits
<1>2. offset[i] \in Nat /\ offset[i] <= w - 1
  BY <1>1 DEF Offsets
<1>3. (i - 1) * w \in Nat /\ i * w \in Nat /\ i * w <= count * w
  BY <1>1, Product
<1>4. i * w = (i - 1) * w + w
  BY <1>1, Distributes
<1>5. count * w \in Nat
  BY <1>1, Product
<1> DEFINE l == lo + (i - 1) * w + offset[i]
<1>6. l < lo + i * w /\ lo + i * w <= hi
  <2> HIDE DEF w
  <2> QED
    BY <1>1, <1>2, <1>3, <1>4, <1>5
<1>7. Choice(lo, hi, count, offset, i) = l
  <2>1. l < hi
    <3> HIDE DEF w
    <3> QED
      BY <1>6, <1>2, <1>3
  <2> QED
    BY <2>1 DEF Choice
<1> QED
  BY <1>6, <1>7, <1>2, <1>3

\* page_mode starts every page inside the window (survey_failures.rs:483).
THEOREM PagesStartInWindow ==
    ASSUME NEW lo \in Nat, NEW hi \in Nat, NEW pages \in Nat, lo <= hi,
           NEW p \in 0 .. pages - 1
    PROVE  PageStart(lo, hi, pages, p) \in lo .. hi
<1>1. AtLeastOne(pages) = pages /\ pages >= 1
  BY DEF AtLeastOne
<1>2. (hi - lo) * p \in Nat /\ p * (hi - lo) <= pages * (hi - lo)
  BY Product
<1> DEFINE q == ((hi - lo) * p) \div pages
<1>3. q \in Nat /\ pages * q <= (hi - lo) * p
  BY <1>1, <1>2, Quotient
<1>4. q <= hi - lo
  <2>1. SUFFICES ASSUME q >= hi - lo + 1 PROVE FALSE
    BY <1>3
  <2>2. (hi - lo + 1) * pages <= q * pages
    BY <1>3, <2>1, Product
  <2>3. (hi - lo + 1) * pages = (hi - lo) * pages + pages
    OBVIOUS
  <2> QED
    BY <1>1, <1>2, <1>3, <2>2, <2>3
<1> QED
  BY <1>1, <1>3, <1>4 DEF PageStart

-----------------------------------------------------------------------------
(***************************************************************************)
(* What a sequence holds.                                                  *)
(***************************************************************************)

LEMMA RangeOfOne ==
    ASSUME NEW x
    PROVE  Range(<<x>>) = {x}
BY DEF Range

LEMMA RangeOfNone ==
    Range(<< >>) = {}
BY DEF Range

\* The first n elements and the others are all there are.
LEMMA RangeOfParts ==
    ASSUME NEW S, NEW s \in Seq(S), NEW n \in 0 .. Len(s)
    PROVE  /\ SubSeq(s, 1, n) \in Seq(S) /\ SubSeq(s, n + 1, Len(s)) \in Seq(S)
           /\ Len(SubSeq(s, 1, n)) = n
           /\ Range(s) = Range(SubSeq(s, 1, n)) \cup Range(SubSeq(s, n + 1, Len(s)))
           /\ n > 0 => SubSeq(s, 1, n)[1] = s[1]
           /\ n < Len(s) => /\ SubSeq(s, n + 1, Len(s)) # << >>
                            /\ SubSeq(s, n + 1, Len(s))[1] = s[n + 1]
<1> DEFINE a == SubSeq(s, 1, n)
           b == SubSeq(s, n + 1, Len(s))
<1>1. Len(s) \in Nat /\ DOMAIN s = 1 .. Len(s)
  OBVIOUS
<1>2. /\ a \in Seq(S) /\ Len(a) = n /\ DOMAIN a = 1 .. n
      /\ \A i \in 1 .. n : a[i] = s[i]
  BY <1>1
<1>3. /\ b \in Seq(S) /\ Len(b) = Len(s) - n /\ DOMAIN b = 1 .. Len(s) - n
      /\ \A i \in 1 .. Len(s) - n : b[i] = s[i + n]
  <2>1. \A i \in n + 1 .. Len(s) : s[i] \in S
    BY <1>1
  <2>2. /\ b \in Seq(S) /\ Len(b) = IF n + 1 <= Len(s) THEN Len(s) - (n + 1) + 1 ELSE 0
        /\ \A i \in 1 .. Len(s) - (n + 1) + 1 : b[i] = s[n + 1 + i - 1]
    <3> HIDE DEF b
    <3> QED
      BY <1>1, <2>1, SubSeqProperties DEF b
  <2> HIDE DEF b
  <2>3. Len(b) = Len(s) - n
    <3>1. CASE n = Len(s)
      BY <1>1, <2>2, <3>1
    <3>2. CASE n < Len(s)
      <4>1. n + 1 <= Len(s) /\ Len(s) - (n + 1) + 1 = Len(s) - n
        BY <1>1, <3>2
      <4>2. Len(b) = Len(s) - (n + 1) + 1
        BY <2>2, <4>1, Zenon
      <4> QED
        BY <4>1, <4>2
    <3>3. n \in Nat /\ Len(s) \in Nat /\ n <= Len(s)
      BY <1>1
    <3> HIDE DEF a
    <3> QED
      BY <3>1, <3>2, <3>3
  <2>4. DOMAIN b = 1 .. Len(b)
    BY <2>2, LenProperties
  <2>5. ASSUME NEW i \in 1 .. Len(s) - n PROVE b[i] = s[i + n]
    <3>1. i \in 1 .. Len(s) - (n + 1) + 1 /\ n + 1 + i - 1 = i + n
      BY <1>1
    <3> QED
      BY <2>2, <3>1
  <2> QED
    BY <2>2, <2>3, <2>4, <2>5
<1> HIDE DEF a, b
<1>4. Range(a) \subseteq Range(s)
  BY <1>1, <1>2 DEF Range
<1>5. Range(b) \subseteq Range(s)
  <2> SUFFICES ASSUME NEW i \in 1 .. Len(s) - n PROVE b[i] \in Range(s)
    BY <1>3 DEF Range
  <2>1. i + n \in 1 .. Len(s)
    BY <1>1
  <2> QED
    BY <1>1, <1>3, <2>1 DEF Range
<1>6. ASSUME NEW i \in 1 .. Len(s)
      PROVE  s[i] \in Range(a) \cup Range(b)
  <2>1. CASE i <= n
    BY <1>1, <1>2, <2>1 DEF Range
  <2>2. CASE i > n
    <3>1. i - n \in 1 .. Len(s) - n /\ b[i - n] = s[i]
      BY <1>1, <1>3, <2>2
    <3> QED
      BY <1>3, <3>1 DEF Range
  <2> QED
    BY <1>1, <2>1, <2>2
<1>7. n > 0 => a[1] = s[1]
  BY <1>2
<1>8. ASSUME n < Len(s)
      PROVE  b # << >> /\ b[1] = s[n + 1]
  <2>1. 1 \in 1 .. Len(s) - n
    BY <1>1, <1>8
  <2>2. b[1] = s[1 + n]
    BY <1>3, <2>1
  <2>3. Len(b) # 0
    BY <1>1, <1>3, <1>8
  <2> QED
    BY <1>1, <2>2, <2>3, EmptySeq
<1>9. Range(s) = Range(a) \cup Range(b)
  <2>1. Range(s) \subseteq Range(a) \cup Range(b)
    BY <1>1, <1>6 DEF Range
  <2> QED
    BY <1>4, <1>5, <2>1
<1> QED
  BY <1>2, <1>3, <1>7, <1>8, <1>9 DEF a, b

LEMMA RangeOfTail ==
    ASSUME NEW S, NEW s \in Seq(S), s # << >>
    PROVE  /\ Tail(s) \in Seq(S) /\ s[1] \in S
           /\ Range(s) = {s[1]} \cup Range(Tail(s))
<1>1. /\ Len(s) \in Nat /\ Len(s) >= 1 /\ DOMAIN s = 1 .. Len(s)
      /\ \A i \in 1 .. Len(s) : s[i] \in S
  BY EmptySeq
<1>2. /\ Tail(s) \in Seq(S) /\ Len(Tail(s)) = Len(s) - 1
      /\ \A i \in 1 .. Len(Tail(s)) : Tail(s)[i] = s[i + 1]
  BY <1>1, HeadTailProperties
<1>3. DOMAIN Tail(s) = 1 .. Len(s) - 1
  BY <1>2, LenProperties
<1>4. Range(Tail(s)) \subseteq Range(s)
  <2> SUFFICES ASSUME NEW i \in 1 .. Len(s) - 1 PROVE Tail(s)[i] \in Range(s)
    BY <1>3 DEF Range
  <2>1. i + 1 \in 1 .. Len(s) /\ Tail(s)[i] = s[i + 1]
    BY <1>1, <1>2
  <2> QED
    BY <1>1, <2>1 DEF Range
<1>5. ASSUME NEW i \in 1 .. Len(s), i # 1
      PROVE  s[i] \in Range(Tail(s))
  <2>1. i - 1 \in 1 .. Len(s) - 1 /\ Tail(s)[i - 1] = s[i]
    BY <1>1, <1>2, <1>5
  <2> QED
    BY <1>3, <2>1 DEF Range
<1>6. s[1] \in Range(s) /\ s[1] \in S
  BY <1>1 DEF Range
<1> QED
  BY <1>1, <1>2, <1>4, <1>5, <1>6 DEF Range

-----------------------------------------------------------------------------
(***************************************************************************)
(* Files: what parses in them, and what a write does to it.                *)
(***************************************************************************)

LEMMA ParsedFacts ==
    ASSUME NEW S, NEW f \in File(S)
    PROVE  /\ Parsed(f) = (Range(f.lines) \cup Range(f.cut)) \ {Garbage}
           /\ Range(f.lines) \subseteq S /\ Range(f.cut) \subseteq S
<1>1. f.lines \in Seq(S) /\ f.cut \in Seq(S)
  BY DEF File
<1>2. Range(f.lines \o f.cut) = Range(f.lines) \cup Range(f.cut)
  BY <1>1, RangeOfConcat
<1>3. Range(f.lines) \subseteq S /\ Range(f.cut) \subseteq S
  BY <1>1 DEF Range
<1> QED
  BY <1>2, <1>3 DEF Parsed

\* A file that is known by its two parts.
LEMMA FileOf ==
    ASSUME NEW S, NEW g, NEW whole \in Seq(S), NEW cut \in Seq(S),
           g = [lines |-> whole, cut |-> cut]
    PROVE  /\ g \in File(S) /\ g.cut = cut
           /\ Parsed(g) = (Range(whole) \cup Range(cut)) \ {Garbage}
<1>1. g \in File(S) /\ g.lines = whole /\ g.cut = cut
  BY DEF File
<1> QED
  BY <1>1, ParsedFacts

\* Lines written to a file whose last line is complete are added to it.
LEMMA PutWhole ==
    ASSUME NEW S, NEW f \in File(S), f.cut = << >>, NEW lines \in Seq(S)
    PROVE  /\ Put(f, lines) \in File(S) /\ Put(f, lines).cut = << >>
           /\ Parsed(Put(f, lines)) = Parsed(f) \cup (Range(lines) \ {Garbage})
<1>1. CASE lines = << >>
  BY <1>1, RangeOfNone DEF Put
<1>2. CASE lines # << >>
  <2> DEFINE whole == f.lines \o lines
             none == << >>
             g == Put(f, lines)
  <2>1. f.lines \in Seq(S)
    BY DEF File
  <2>2. g = [lines |-> whole, cut |-> none]
    BY <1>2 DEF Put
  <2>3. whole \in Seq(S) /\ Range(whole) = Range(f.lines) \cup Range(lines)
    BY <2>1, RangeOfConcat
  <2>4. none \in Seq(S) /\ Range(none) = {}
    BY RangeOfNone
  <2> HIDE DEF whole, none, g
  <2>5. g \in File(S) /\ g.cut = none /\ Parsed(g) = (Range(whole) \cup Range(none)) \ {Garbage}
    BY <2>2, <2>3, <2>4, FileOf
  <2>6. Parsed(f) = Range(f.lines) \ {Garbage}
    BY ParsedFacts, RangeOfNone
  <2> QED
    BY <2>3, <2>4, <2>5, <2>6 DEF g, none
<1> QED
  BY <1>1, <1>2

\* Lines written after a cut one cost it and the first of them.
LEMMA PutAfterCut ==
    ASSUME NEW S, NEW f \in File(S), f.cut # << >>, NEW lines \in Seq(S), lines # << >>,
           Garbage \in S
    PROVE  /\ Put(f, lines) \in File(S) /\ Put(f, lines).cut = << >>
           /\ Parsed(Put(f, lines)) = (Range(f.lines) \cup Range(Tail(lines))) \ {Garbage}
<1> DEFINE one == <<Garbage>>
           rest == Tail(lines)
           more == one \o rest
           whole == f.lines \o more
           none == << >>
           g == Put(f, lines)
<1>1. f.lines \in Seq(S)
  BY DEF File
<1>2. g = [lines |-> whole, cut |-> none]
  BY DEF Put
<1>3. /\ rest \in Seq(S)
      /\ one \in Seq(S) /\ Range(one) = {Garbage}
      /\ none \in Seq(S) /\ Range(none) = {}
  BY RangeOfTail, RangeOfOne, RangeOfNone
<1> HIDE DEF one, rest, none, g
<1>4. more \in Seq(S) /\ Range(more) = Range(one) \cup Range(rest)
  BY <1>3, RangeOfConcat
<1> HIDE DEF more
<1>5. whole \in Seq(S) /\ Range(whole) = Range(f.lines) \cup Range(more)
  BY <1>1, <1>4, RangeOfConcat
<1> HIDE DEF whole
<1>6. g \in File(S) /\ g.cut = none /\ Parsed(g) = (Range(whole) \cup Range(none)) \ {Garbage}
  BY <1>2, <1>3, <1>5, FileOf
<1> QED
  BY <1>3, <1>4, <1>5, <1>6 DEF g, none, rest

LEMMA CutFacts ==
    ASSUME NEW line, NEW cut \in Cuts(line), cut # << >>
    PROVE  Len(cut) = 1 /\ (cut = <<Garbage>> \/ cut = <<line>>)
BY DEF Cuts

\* A cut line leaves the complete ones, and what was cut before it is garbage.
LEMMA TornFacts ==
    ASSUME NEW S, NEW f \in File(S), NEW line \in S, Garbage \in S,
           NEW cut \in Cuts(line), cut # << >>
    PROVE  LET g == [f EXCEPT !.cut = Torso(f, cut)]
           IN  /\ g \in File(S) /\ g.cut # << >>
               /\ Parsed(g) \subseteq Parsed(f) \cup {line}
               /\ f.cut = << >> => Parsed(f) \subseteq Parsed(g) /\ g.cut = cut
               /\ f.cut # << >> => Range(g.cut) = {Garbage}
                                   /\ Parsed(g) = Range(f.lines) \ {Garbage}
<1> DEFINE g == [f EXCEPT !.cut = Torso(f, cut)]
<1>1. /\ f = [lines |-> f.lines, cut |-> f.cut]
      /\ f.lines \in Seq(S) /\ f.cut \in Seq(S)
  BY DEF File
<1>2. g = [lines |-> f.lines, cut |-> Torso(f, cut)]
  BY <1>1
<1>3. cut = <<Garbage>> \/ cut = <<line>>
  BY CutFacts
<1>4. /\ Torso(f, cut) \in Seq(S) /\ Torso(f, cut) # << >>
      /\ Range(Torso(f, cut)) \subseteq {Garbage, line}
      /\ f.cut # << >> => Range(Torso(f, cut)) = {Garbage}
  <2>1. /\ <<Garbage>> \in Seq(S) /\ <<line>> \in Seq(S)
        /\ <<Garbage>> # << >> /\ <<line>> # << >>
    OBVIOUS
  <2>2. Range(<<Garbage>>) = {Garbage} /\ Range(<<line>>) = {line}
    BY RangeOfOne
  <2> DEFINE t == Torso(f, cut)
  <2>3. /\ t = <<Garbage>> \/ t = <<line>>
        /\ f.cut # << >> => t = <<Garbage>>
    BY <1>3 DEF Torso
  <2> HIDE DEF t
  <2>4. t \in Seq(S) /\ t # << >>
    BY <2>1, <2>3
  <2>5. CASE t = <<Garbage>>
    BY <2>2, <2>4, <2>5 DEF t
  <2>6. CASE t = <<line>> /\ f.cut = << >>
    BY <2>2, <2>4, <2>6 DEF t
  <2> QED
    BY <2>3, <2>5, <2>6
<1>5. g \in File(S)
  BY <1>1, <1>2, <1>4 DEF File
<1> HIDE DEF g
<1>6. /\ Parsed(g) = (Range(f.lines) \cup Range(g.cut)) \ {Garbage}
      /\ Parsed(f) = (Range(f.lines) \cup Range(f.cut)) \ {Garbage}
  BY <1>2, <1>5, ParsedFacts
<1>7. f.cut = << >> => g.cut = cut
  BY <1>2 DEF Torso
<1>8. f.cut = << >> => Range(f.cut) = {}
  BY RangeOfNone
<1> QED
  BY <1>2, <1>4, <1>5, <1>6, <1>7, <1>8 DEF g

-----------------------------------------------------------------------------
(***************************************************************************)
(* The chain, and what a page of it reaches.                               *)
(***************************************************************************)

LEMMA ChainFacts ==
    /\ Len(Chain) \in Nat /\ DOMAIN Chain = 1 .. Len(Chain)
    /\ \A i \in 1 .. Len(Chain) : /\ Chain[i] \in Range(Chain)
                                 /\ Chain[i].ledger \in Nat
                                 /\ Chain[i].failed \in BOOLEAN
    /\ \A r \in Range(Chain) : /\ r.ledger \in Nat
                               /\ \E i \in 1 .. Len(Chain) : r = Chain[i]
    /\ \A i, j \in 1 .. Len(Chain) : i < j => Chain[i].ledger <= Chain[j].ledger
    /\ Garbage \notin Range(Chain)
<1>1. Len(Chain) \in Nat /\ DOMAIN Chain = 1 .. Len(Chain)
  BY CensusAssumption
<1> QED
  BY <1>1, CensusAssumption DEF Range

LEMMA RecordsAreFinite ==
    IsFiniteSet(Records)
<1>1. IsFiniteSet(1 .. Len(Chain))
  BY ChainFacts, FS_Interval
<1>2. Chain \in Surjection(1 .. Len(Chain), Range(Chain))
  <2>1. Chain \in [1 .. Len(Chain) -> Range(Chain)]
    BY ChainFacts, CensusAssumption
  <2> QED
    BY <2>1, ChainFacts DEF Surjection
<1>3. IsFiniteSet(Range(Chain))
  BY <1>1, <1>2, FS_Surjection
<1> QED
  BY <1>3, FS_Subset DEF Records

LEMMA BeforeFacts ==
    ASSUME NEW l \in Nat
    PROVE  /\ Before(l) \in 0 .. Len(Chain)
           /\ \A i \in 1 .. Len(Chain) : Chain[i].ledger < l <=> i <= Before(l)
<1> DEFINE S == {0} \cup {i \in DOMAIN Chain : Chain[i].ledger < l}
<1>1. S \subseteq 0 .. Len(Chain) /\ 0 \in S
  BY ChainFacts
<1>2. Before(l) = Cardinality(S \ {0})
  <2>1. S \ {0} = {i \in DOMAIN Chain : Chain[i].ledger < l}
    BY ChainFacts
  <2> QED
    BY <2>1 DEF Before
<1>3. \A i \in 1 .. Len(Chain) : i \in S <=> Chain[i].ledger < l
  BY ChainFacts
<1> HIDE DEF S
<1>4. Max(S) \in S /\ \A y \in S : Max(S) >= y
  BY <1>1, ChainFacts, MaxFacts
<1>5. ASSUME NEW i \in 1 .. Len(Chain), i <= Max(S)
      PROVE  Chain[i].ledger < l
  <2> DEFINE m == Max(S)
  <2>0. m \in S /\ m \in 0 .. Len(Chain) /\ i <= m
    BY <1>1, <1>4, <1>5
  <2> HIDE DEF m
  <2>1. m \in 1 .. Len(Chain) /\ Chain[m].ledger < l
    BY <1>3, <2>0, ChainFacts
  <2>2. Chain[i].ledger <= Chain[m].ledger
    BY <2>0, <2>1, ChainFacts
  <2> QED
    BY <2>1, <2>2, ChainFacts
<1>6. Max(S) \in 0 .. Len(Chain) /\ \A i \in 1 .. Len(Chain) : i \in S <=> i <= Max(S)
  BY <1>1, <1>3, <1>4, <1>5, ChainFacts
<1>7. Before(l) = Max(S)
  <2> DEFINE m == Max(S)
  <2>1. /\ m \in 0 .. Len(Chain) /\ Len(Chain) \in Nat
        /\ \A i \in 1 .. Len(Chain) : i \in S <=> i <= m
    BY <1>6, ChainFacts
  <2> HIDE DEF m
  <2>2. S \ {0} = 1 .. m
    <3>1. ASSUME NEW x \in S \ {0} PROVE x \in 1 .. m
      BY <1>1, <2>1, <3>1
    <3>2. ASSUME NEW x \in 1 .. m PROVE x \in S \ {0}
      BY <2>1, <3>2
    <3> QED
      BY <3>1, <3>2
  <2>3. Cardinality(1 .. m) = m
    BY <2>1, FS_Interval
  <2> QED
    BY <1>2, <2>2, <2>3 DEF m
<1> QED
  BY <1>3, <1>6, <1>7

\* Pages lie in the chain, and an empty one at the end of what its provider has.
LEMMA PageFacts ==
    ASSUME NEW p \in Provider, cursor \in 0 .. Len(Chain) \cup {None}, ledger \in Nat,
           tip[p] \in Nat
    PROVE  /\ From \in 0 .. Len(Chain)
           /\ Until(p) \in From .. Len(Chain)
           /\ Page(p) = From + 1 .. Until(p)
           /\ Page(p) = {} => Before(tip[p] + 1) <= From
<1>1. From \in 0 .. Len(Chain)
  BY BeforeFacts DEF From
<1> DEFINE b == Before(tip[p] + 1)
           T == {From + PageSize, b}
           m == Min(T)
           U == {From, m}
<1>2. b \in 0 .. Len(Chain)
  <2>1. tip[p] + 1 \in Nat
    OBVIOUS
  <2> QED
    BY <2>1, BeforeFacts
<1>3. From \in Nat /\ PageSize \in Nat \ {0} /\ Len(Chain) \in Nat
  BY <1>1, ChainFacts, CensusAssumption
<1> HIDE DEF b
<1>4. m \in T /\ \A y \in T : m <= y
  <2>1. T \in SUBSET Nat /\ T # {}
    BY <1>2, <1>3
  <2> HIDE DEF T
  <2> QED
    BY <2>1, MinFacts
<1>5. m \in 0 .. Len(Chain)
  BY <1>2, <1>3, <1>4
<1> HIDE DEF m
<1>6. Max(U) \in U /\ \A y \in U : Max(U) >= y
  <2>1. U \in SUBSET (0 .. Len(Chain)) /\ U # {}
    BY <1>1, <1>5
  <2> HIDE DEF U
  <2> QED
    BY <1>3, <2>1, MaxFacts
<1>7. Until(p) = Max(U)
  BY DEF Until, m, b
<1>8. Until(p) \in From .. Len(Chain)
  BY <1>1, <1>3, <1>5, <1>6, <1>7
<1>9. ASSUME Page(p) = {}
      PROVE  b <= From
  <2>1. Until(p) = From
    <3>1. From + 1 \notin Page(p)
      BY <1>9
    <3> QED
      BY <1>1, <1>3, <1>8, <3>1 DEF Page
  <2>2. m <= From
    BY <1>6, <1>7, <2>1
  <2> QED
    BY <1>2, <1>3, <1>4, <2>2
<1> QED
  BY <1>1, <1>8, <1>9 DEF Page, b

-----------------------------------------------------------------------------
(***************************************************************************)
(* The inductive invariant.                                                *)
(***************************************************************************)

\* What the phases of a ledger have behind them.
PhaseInv ==
    /\ pc # "write" => buffer = << >>
    /\ pc \in {"start", "log"} => read = {}

\* A run goes up through the ledgers that were not read when it started.
OrderInv ==
    /\ pc # "start" => \A l \in AlreadyRead : l \in done \/ l <= ledger
    /\ pc \in {"page", "unreadable", "write", "log"} => ledger \in sampled \ AlreadyRead

\* All of the ledger that the pages so far reached was read.
PagesInv ==
    pc = "page" => \A i \in DOMAIN Chain : Chain[i].ledger = ledger /\ i <= From => i \in read

\* The records of the ledger that are still to come.
Coming == Range(buffer) \cup {Chain[i] : i \in read}

\* A ledger read whole is being recorded, or has just been.
Recording == pc \in {"write", "log"} /\ ledger \notin short

\* A record cut off in the JSONL belongs to a ledger that is not logged as read,
\* and until the JSONL is written to, nothing of the current ledger is lost.
CutInv ==
    jsonl.cut # << >> =>
        /\ \A r \in Range(jsonl.cut) \ {Garbage} : r.ledger \notin AlreadyRead \ short
        /\ Recording => Failed(ledger) \subseteq Coming

\* The records the JSONL should have and does not.
Missing ==
    {r \in Records \ Parsed(jsonl) :
        \/ r.ledger \in AlreadyRead \ short
        \/ Recording /\ r.ledger = ledger /\ r \notin Coming}

\* A stop that left a cut line has cost one record already or may cost one yet.
TearInv ==
    Cardinality(Missing) + (IF jsonl.cut = << >> THEN 0 ELSE 1) <= tears.jsonl

\* A log that no stop cut ends with a whole line.
LogInv == tears.log = 0 => log.cut = << >>

TypeInv == TypeOK /\ PhaseInv /\ OrderInv

-----------------------------------------------------------------------------
(***************************************************************************)
(* The ledger log.                                                         *)
(***************************************************************************)

ReadIn(f) == {l.ledger : l \in {k \in Parsed(f) : k.status = "read"}}

LEMMA AlreadyReadIn == AlreadyRead = ReadIn(log) /\ AlreadyRead' = ReadIn(log')
BY DEF AlreadyRead, ReadIn

LEMMA LogLineFacts ==
    ASSUME NEW l \in Nat, NEW status \in {"read", "unreadable"}
    PROVE  /\ LogLine(l, status) \in Line /\ LogLine(l, status) # Garbage
           /\ LogLine(l, status).ledger = l /\ LogLine(l, status).status = status
BY CensusAssumption DEF LogLine, Line

\* What a line of the log adds to the ledgers that count as read.
LEMMA ReadInPut ==
    ASSUME NEW f \in File(Line \cup {Garbage}), NEW l \in Nat,
           NEW status \in {"read", "unreadable"}
    PROVE  LET g == Put(f, <<LogLine(l, status)>>)
               new == IF status = "read" THEN {l} ELSE {}
           IN  /\ g \in File(Line \cup {Garbage}) /\ g.cut = << >>
               /\ ReadIn(g) \subseteq ReadIn(f) \cup new
               /\ f.cut = << >> => ReadIn(g) = ReadIn(f) \cup new
<1> DEFINE S == Line \cup {Garbage}
           line == LogLine(l, status)
           lines == <<line>>
           g == Put(f, lines)
<1>1. /\ line \in S /\ line # Garbage /\ line.ledger = l /\ line.status = status
  BY LogLineFacts
<1> HIDE DEF line
<1>2. lines \in Seq(S) /\ lines # << >> /\ Range(lines) = {line}
  BY <1>1, RangeOfOne
<1>3. Tail(lines) = << >> /\ Range(Tail(lines)) = {}
  BY RangeOfNone
<1> HIDE DEF lines
<1>4. CASE f.cut = << >>
  <2>1. /\ g \in File(S) /\ g.cut = << >>
        /\ Parsed(g) = Parsed(f) \cup (Range(lines) \ {Garbage})
    BY <1>2, <1>4, PutWhole
  <2>2. Parsed(g) = Parsed(f) \cup {line}
    BY <1>1, <1>2, <2>1
  <2> HIDE DEF g, S
  <2>3. ReadIn(g) = ReadIn(f) \cup (IF status = "read" THEN {l} ELSE {})
    BY <1>1, <2>2 DEF ReadIn
  <2> QED
    BY <1>4, <2>1, <2>3 DEF g, lines, line, S
<1>5. CASE f.cut # << >>
  <2>1. /\ g \in File(S) /\ g.cut = << >>
        /\ Parsed(g) = (Range(f.lines) \cup Range(Tail(lines))) \ {Garbage}
    BY <1>2, <1>5, PutAfterCut
  <2>2. Parsed(g) \subseteq Parsed(f)
    BY <1>3, <2>1, ParsedFacts
  <2> HIDE DEF g, S
  <2>3. ReadIn(g) \subseteq ReadIn(f)
    BY <2>2 DEF ReadIn
  <2> QED
    BY <1>5, <2>1, <2>3 DEF g, lines, line, S
<1> QED
  BY <1>4, <1>5

LEMMA ReadInTorn ==
    ASSUME NEW f \in File(Line \cup {Garbage}), NEW l \in Nat,
           NEW status \in {"read", "unreadable"},
           NEW cut \in Cuts(LogLine(l, status)), cut # << >>
    PROVE  LET g == [f EXCEPT !.cut = Torso(f, cut)]
           IN  /\ g \in File(Line \cup {Garbage})
               /\ ReadIn(g) \subseteq ReadIn(f) \cup (IF status = "read" THEN {l} ELSE {})
<1> DEFINE S == Line \cup {Garbage}
           line == LogLine(l, status)
           g == [f EXCEPT !.cut = Torso(f, cut)]
<1>1. /\ line \in S /\ line # Garbage /\ line.ledger = l /\ line.status = status
  BY LogLineFacts
<1>2. g \in File(S) /\ Parsed(g) \subseteq Parsed(f) \cup {line}
  BY <1>1, TornFacts
<1> HIDE DEF line, g
<1>3. ReadIn(g) \subseteq ReadIn(f) \cup (IF status = "read" THEN {l} ELSE {})
  BY <1>1, <1>2 DEF ReadIn
<1> QED
  BY <1>2, <1>3 DEF g

\* No step but that of a ledger read to its end adds to them, and none that
\* leaves whole lines takes one away.
LEMMA LogStep ==
    ASSUME TypeInv, [Next]_vars
    PROVE  /\ log' \in File(Line \cup {Garbage})
           /\ AlreadyRead' \subseteq AlreadyRead \cup (IF pc = "log" THEN {ledger} ELSE {})
           /\ log.cut = << >> /\ log'.cut = << >> => AlreadyRead \subseteq AlreadyRead'
           /\ LogRead /\ log.cut = << >> => AlreadyRead' = AlreadyRead \cup {ledger}
           /\ pc \notin {"log", "unreadable"} => log' = log
           /\ pc' # "next" /\ pc' # "start" => log' = log
<1>1. log \in File(Line \cup {Garbage}) /\ ledger \in Nat
  BY CensusAssumption DEF TypeInv, TypeOK
<1>2. CASE log' = log /\ ~LogRead
  BY <1>1, <1>2, AlreadyReadIn
<1>3. CASE LogRead
  <2>1. pc = "log" /\ pc' = "next" /\ log' = Put(log, <<LogLine(ledger, "read")>>)
    BY <1>3 DEF LogRead
  <2>2. /\ log' \in File(Line \cup {Garbage}) /\ log'.cut = << >>
        /\ ReadIn(log') \subseteq ReadIn(log) \cup {ledger}
        /\ log.cut = << >> => ReadIn(log') = ReadIn(log) \cup {ledger}
    BY <1>1, <2>1, ReadInPut
  <2> QED
    BY <2>1, <2>2, AlreadyReadIn
<1>4. CASE LogUnreadable
  <2>1. /\ pc = "unreadable" /\ pc' = "next" /\ ~LogRead
        /\ log' = Put(log, <<LogLine(ledger, "unreadable")>>)
    BY <1>4 DEF LogUnreadable, LogRead
  <2>2. /\ log' \in File(Line \cup {Garbage}) /\ log'.cut = << >>
        /\ ReadIn(log') \subseteq ReadIn(log)
        /\ log.cut = << >> => ReadIn(log') = ReadIn(log)
    <3> DEFINE new == IF "unreadable" = "read" THEN {ledger} ELSE {}
    <3>1. /\ log' \in File(Line \cup {Garbage}) /\ log'.cut = << >>
          /\ ReadIn(log') \subseteq ReadIn(log) \cup new
          /\ log.cut = << >> => ReadIn(log') = ReadIn(log) \cup new
      BY <1>1, <2>1, ReadInPut
    <3>2. new = {}
      OBVIOUS
    <3> HIDE DEF new
    <3> QED
      BY <3>1, <3>2
  <2> QED
    BY <2>1, <2>2, AlreadyReadIn
<1>5. CASE Stop /\ log' # log
  <2>1. PICK cut \in CASE pc = "log" -> Cuts(LogLine(ledger, "read"))
                       [] pc = "unreadable" -> Cuts(LogLine(ledger, "unreadable"))
                       [] OTHER -> {<< >>} :
           log' = IF cut = << >> THEN log ELSE [log EXCEPT !.cut = Torso(log, cut)]
    BY <1>5 DEF Stop
  <2>2. cut # << >> /\ log' = [log EXCEPT !.cut = Torso(log, cut)]
    BY <1>5, <2>1
  <2>3. \/ pc = "log" /\ cut \in Cuts(LogLine(ledger, "read"))
        \/ pc = "unreadable" /\ cut \in Cuts(LogLine(ledger, "unreadable"))
    BY <2>1, <2>2
  <2>4. log'.cut # << >>
    <3>1. CASE pc = "log"
      BY <1>1, <2>2, <2>3, <3>1, LogLineFacts, TornFacts
    <3>2. CASE pc = "unreadable"
      BY <1>1, <2>2, <2>3, <3>2, LogLineFacts, TornFacts
    <3> QED
      BY <2>3, <3>1, <3>2
  <2>5. pc' = "start" /\ ~LogRead
    BY <1>5 DEF Stop, LogRead
  <2>6. CASE pc = "log"
    BY <1>1, <2>2, <2>3, <2>4, <2>5, <2>6, ReadInTorn, AlreadyReadIn
  <2>7. CASE pc = "unreadable"
    BY <1>1, <2>2, <2>3, <2>4, <2>5, <2>7, ReadInTorn, AlreadyReadIn
  <2> QED
    BY <2>3, <2>6, <2>7
<1> QED
  BY <1>2, <1>3, <1>4, <1>5
     DEF Next, Work, Start, NextLedger, ReadPage, CallFails, Write, Flush, Spill, Ingest, vars

-----------------------------------------------------------------------------
(***************************************************************************)
(* Types.                                                                  *)
(***************************************************************************)

LEMMA PutType ==
    ASSUME NEW S, NEW f \in File(S), NEW lines \in Seq(S), Garbage \in S
    PROVE  Put(f, lines) \in File(S)
<1>1. CASE lines = << >>
  BY <1>1 DEF Put
<1>2. CASE lines # << >> /\ f.cut = << >>
  BY <1>2, PutWhole
<1>3. CASE lines # << >> /\ f.cut # << >>
  BY <1>3, PutAfterCut
<1> QED
  BY <1>1, <1>2, <1>3

LEMMA SeqOfMore ==
    ASSUME NEW S, NEW T, S \subseteq T, NEW s \in Seq(S)
    PROVE  s \in Seq(T)
OBVIOUS

LEMMA FailedFacts ==
    ASSUME NEW l
    PROVE  /\ Failed(l) \subseteq Records /\ Records \subseteq Range(Chain)
           /\ Garbage \notin Records
           /\ \A s \in Seq(Failed(l)) : s \in Seq(Records \cup {Garbage})
<1>1. Failed(l) \subseteq Records /\ Records \subseteq Range(Chain)
  BY DEF Failed, Records
<1> QED
  BY <1>1, ChainFacts, SeqOfMore

LEMMA EmptyFile ==
    ASSUME NEW S
    PROVE  Empty \in File(S) /\ Empty.cut = << >> /\ Parsed(Empty) = {}
<1> DEFINE none == << >>
<1>1. none \in Seq(S) /\ Empty = [lines |-> none, cut |-> none] /\ Range(none) = {}
  BY RangeOfNone DEF Empty
<1> HIDE DEF none
<1>2. Empty \in File(S) /\ Empty.cut = none
      /\ Parsed(Empty) = (Range(none) \cup Range(none)) \ {Garbage}
  BY <1>1, FileOf
<1> QED
  BY <1>1, <1>2 DEF none

\* The parts of the state that all steps read.
LEMMA Basics ==
    ASSUME TypeInv
    PROVE  /\ ledger \in Nat /\ sampled \subseteq Nat
           /\ tip \in [Provider -> Nat]
           /\ buffer \in Seq(Records \cup {Garbage}) /\ buffer \in Seq(Failed(ledger))
           /\ jsonl \in File(Records \cup {Garbage})
           /\ From \in 0 .. Len(Chain)
           /\ half # << >> => pc = "write"
           /\ tears.jsonl \in Nat /\ tears.log \in Nat
<1>1. TypeOK /\ PhaseInv
  BY DEF TypeInv
<1>2. ledger \in Nat /\ sampled \subseteq Nat
  <2>1. Lo \in Nat /\ Hi \in Nat
    BY CensusAssumption
  <2>2. sampled \subseteq Lo .. Hi /\ ledger \in sampled \cup {0}
    BY <1>1 DEF TypeOK
  <2> QED
    BY <2>1, <2>2
<1>3. buffer \in Seq(Failed(ledger)) /\ jsonl \in File(Records \cup {Garbage})
  BY <1>1 DEF TypeOK
<1>4. buffer \in Seq(Records \cup {Garbage})
  BY <1>3, FailedFacts
<1>5. From \in 0 .. Len(Chain)
  BY <1>1, <1>2, BeforeFacts DEF TypeOK, From
<1>6. half # << >> => pc = "write"
  BY <1>1 DEF TypeOK, PhaseInv
<1>7. tip \in [Provider -> Nat] /\ tears.jsonl \in Nat /\ tears.log \in Nat
  BY <1>1 DEF TypeOK
<1> QED
  BY <1>2, <1>3, <1>4, <1>5, <1>6, <1>7

LEMMA TypeInit == Init => TypeInv
<1> SUFFICES ASSUME Init PROVE TypeInv
  OBVIOUS
<1>1. AlreadyRead = {}
  BY EmptyFile, AlreadyReadIn DEF Init, ReadIn
<1>2. sampled \subseteq Lo .. Hi
  BY ChosenInWindow, CensusAssumption DEF Init
<1>3. /\ jsonl \in File(Records \cup {Garbage}) /\ log \in File(Line \cup {Garbage})
      /\ buffer \in Seq(Failed(ledger))
  BY EmptyFile DEF Init
<1>4. runs \in 0 .. MaxRuns /\ tears \in [jsonl : Nat, log : Nat] /\ tip \in [Provider -> Nat]
  BY CensusAssumption DEF Init
<1> QED
  BY <1>1, <1>2, <1>3, <1>4 DEF Init, TypeInv, TypeOK, PhaseInv, OrderInv

\* The ledgers chosen do not change, and only one being read may be added to
\* those logged or those ended early.
LEMMA LedgersStay ==
    ASSUME TypeInv, [Next]_vars
    PROVE  /\ sampled' = sampled
           /\ AlreadyRead' \cup short' \subseteq sampled
           /\ done' \subseteq sampled
<1>1. /\ AlreadyRead \cup done \cup short \subseteq sampled
      /\ pc \in {"page", "log"} => ledger \in sampled
  BY DEF TypeInv, TypeOK, OrderInv
<1>2. AlreadyRead' \subseteq AlreadyRead \cup (IF pc = "log" THEN {ledger} ELSE {})
  BY LogStep
<1>3. AlreadyRead' \subseteq sampled
  BY <1>1, <1>2
<1>4. short' \subseteq short \cup (IF pc = "page" THEN {ledger} ELSE {})
  BY DEF Next, Work, Start, NextLedger, ReadPage, CallFails, LogUnreadable, Write, Flush,
         LogRead, Spill, Stop, Ingest, vars
<1>5. done' \subseteq done \cup AlreadyRead
  BY DEF Next, Work, Start, NextLedger, ReadPage, CallFails, LogUnreadable, Write, Flush,
         LogRead, Spill, Stop, Ingest, vars
<1>6. sampled' = sampled
  BY DEF Next, Work, Start, NextLedger, ReadPage, CallFails, LogUnreadable, Write, Flush,
         LogRead, Spill, Stop, Ingest, vars, place
<1> QED
  BY <1>1, <1>3, <1>4, <1>5, <1>6

LEMMA StartTypes == TypeInv /\ Start => TypeInv'
<1> SUFFICES ASSUME TypeInv, Start PROVE TypeInv'
  OBVIOUS
<1>1. /\ sampled' = sampled /\ AlreadyRead' \cup short' \subseteq sampled
      /\ done' = AlreadyRead /\ done' \subseteq sampled
  BY LedgersStay DEF Next, Work, Start
<1>2. log' = log /\ AlreadyRead' = AlreadyRead
  BY AlreadyReadIn DEF Start
<1>3. jsonl' \in File(Records \cup {Garbage})
  BY Basics, EmptyFile DEF Start
<1>4. buffer = << >> /\ half = << >> /\ read = {} /\ pc = "start"
  BY DEF TypeInv, TypeOK, PhaseInv, Start
<1>5. buffer' \in Seq(Failed(ledger'))
  BY <1>4 DEF Start
<1>6. runs' \in 0 .. MaxRuns
  BY CensusAssumption DEF TypeInv, TypeOK, Start
<1> QED
  BY <1>1, <1>2, <1>3, <1>4, <1>5, <1>6 DEF TypeInv, TypeOK, PhaseInv, OrderInv, Start, place

LEMMA NextLedgerTypes == TypeInv /\ NextLedger => TypeInv'
<1> SUFFICES ASSUME TypeInv, NextLedger PROVE TypeInv'
  OBVIOUS
<1>1. /\ sampled' = sampled /\ AlreadyRead' \cup short' \subseteq sampled
      /\ done' = done /\ done' \subseteq sampled
  BY LedgersStay DEF Next, Work, NextLedger
<1>2. log' = log /\ AlreadyRead' = AlreadyRead /\ log' \in File(Line \cup {Garbage})
  BY AlreadyReadIn DEF NextLedger, TypeInv, TypeOK
<1>3. buffer = << >> /\ half = << >>
  BY DEF TypeInv, TypeOK, PhaseInv, NextLedger
<1>4. buffer' \in Seq(Failed(ledger'))
  BY <1>3 DEF NextLedger
<1>5. CASE Remaining = {}
  BY <1>1, <1>2, <1>3, <1>4, <1>5 DEF TypeInv, TypeOK, PhaseInv, OrderInv, NextLedger, place
<1>6. CASE Remaining # {}
  <2>1. Remaining \subseteq sampled \ done /\ \A l \in Remaining : l > ledger
    BY DEF Remaining
  <2>2. pc' = "page" /\ ledger' = Min(Remaining) /\ ledger' \in Remaining
    BY <1>6, <2>1, Basics, MinFacts DEF NextLedger
  <2>3. ledger' \in sampled \ AlreadyRead /\ ledger' > ledger
    <3>1. ledger' \notin done /\ ~(ledger' <= ledger)
      BY <2>1, <2>2, Basics
    <3> QED
      BY <2>1, <2>2, <3>1 DEF TypeInv, OrderInv, NextLedger
  <2>4. OrderInv'
    BY <1>1, <1>2, <2>2, <2>3, Basics DEF TypeInv, OrderInv, NextLedger
  <2> QED
    BY <1>1, <1>2, <1>3, <1>4, <2>2, <2>3, <2>4
       DEF TypeInv, TypeOK, PhaseInv, NextLedger, place
<1> QED
  BY <1>5, <1>6

LEMMA ReadPageTypes == TypeInv /\ ReadPage => TypeInv'
<1> SUFFICES ASSUME TypeInv, ReadPage PROVE TypeInv'
  OBVIOUS
<1>1. /\ sampled' = sampled /\ AlreadyRead' \cup short' \subseteq sampled /\ done' = done
  BY LedgersStay DEF Next, Work, ReadPage
<1>2. log' = log /\ AlreadyRead' = AlreadyRead /\ ledger' = ledger
  BY AlreadyReadIn DEF ReadPage
<1>3. PICK p \in Provider :
         /\ read' = read \cup {i \in Page(p) : Chain[i].ledger = ledger}
         /\ \E c \in {Until(p), None} :
               /\ cursor' = c
               /\ pc' = IF Reached(Page(p)) THEN "write"
                        ELSE IF c = None THEN "unreadable" ELSE "page"
  BY DEF ReadPage
<1>4. /\ From \in 0 .. Len(Chain) /\ Until(p) \in From .. Len(Chain)
      /\ Page(p) = From + 1 .. Until(p)
  BY Basics, PageFacts DEF TypeInv, TypeOK
<1>5. cursor' \in 0 .. Len(Chain) \cup {None} /\ pc' \in {"write", "unreadable", "page"}
  BY <1>3, <1>4, ChainFacts
<1>6. read' \subseteq {i \in DOMAIN Chain : Chain[i].ledger = ledger}
  BY <1>3, <1>4, ChainFacts DEF TypeInv, TypeOK
<1>7. pc = "page" /\ buffer = << >> /\ half = << >>
  BY DEF TypeInv, TypeOK, PhaseInv, ReadPage
<1>8. UNCHANGED <<jsonl, log, runs, done, ledger, buffer, half, tears, sampled, tip>>
  BY DEF ReadPage, place
<1>9. TypeOK'
  BY <1>1, <1>2, <1>5, <1>6, <1>7, <1>8 DEF TypeInv, TypeOK
<1> QED
  BY <1>1, <1>2, <1>5, <1>7, <1>8, <1>9 DEF TypeInv, PhaseInv, OrderInv

\* Steps that leave the JSONL and the ledger's records as they are.
LEMMA OtherTypes ==
    TypeInv /\ (CallFails \/ LogUnreadable \/ LogRead \/ Ingest) => TypeInv'
<1> SUFFICES ASSUME TypeInv, CallFails \/ LogUnreadable \/ LogRead \/ Ingest PROVE TypeInv'
  OBVIOUS
<1>1. /\ sampled' = sampled /\ AlreadyRead' \cup short' \subseteq sampled
      /\ log' \in File(Line \cup {Garbage})
      /\ AlreadyRead' \subseteq AlreadyRead \cup (IF pc = "log" THEN {ledger} ELSE {})
      /\ pc' = "unreadable" => log' = log
  BY LedgersStay, LogStep DEF Next, Work
<1>2. UNCHANGED <<jsonl, runs, done, ledger, cursor, read, buffer, half, tears, short>>
  BY DEF CallFails, LogUnreadable, LogRead, Ingest, place
<1>3. tip' \in [Provider -> Nat]
  BY Basics DEF CallFails, LogUnreadable, LogRead, Ingest, place
<1>4. \/ pc = "page" /\ pc' = "unreadable"
      \/ pc \in {"unreadable", "log"} /\ pc' = "next"
      \/ pc' = pc /\ log' = log
  BY DEF CallFails, LogUnreadable, LogRead, Ingest
<1>5. TypeOK'
  BY <1>1, <1>2, <1>3, <1>4 DEF TypeInv, TypeOK
<1>6. PhaseInv'
  BY <1>2, <1>4 DEF TypeInv, PhaseInv
<1>7. log' = log => AlreadyRead' = AlreadyRead
  BY AlreadyReadIn
<1>8. OrderInv'
  BY <1>1, <1>2, <1>4, <1>7, Basics DEF TypeInv, OrderInv
<1> QED
  BY <1>5, <1>6, <1>8 DEF TypeInv

LEMMA WriteFacts ==
    ASSUME TypeInv, Write
    PROVE  \E i \in read : /\ i \in 1 .. Len(Chain) /\ Chain[i].ledger = ledger
                           /\ read' = read \ {i}
                           /\ buffer' = IF Chain[i].failed THEN Append(buffer, Chain[i])
                                                           ELSE buffer
                           /\ Chain[i].failed => Chain[i] \in Failed(ledger)
<1>1. read \subseteq {i \in DOMAIN Chain : Chain[i].ledger = ledger} /\ read # {}
  BY DEF TypeInv, TypeOK, Write
<1>2. read \in SUBSET Nat
  BY <1>1, ChainFacts
<1>3. Min(read) \in read
  BY <1>1, <1>2, MinFacts
<1>4. Min(read) \in 1 .. Len(Chain) /\ Chain[Min(read)].ledger = ledger
  BY <1>1, <1>3, ChainFacts
<1>5. Chain[Min(read)].failed => Chain[Min(read)] \in Failed(ledger)
  BY <1>4, ChainFacts DEF Failed, Records
<1> QED
  BY <1>3, <1>4, <1>5 DEF Write

LEMMA WriteTypes == TypeInv /\ Write => TypeInv'
<1> SUFFICES ASSUME TypeInv, Write PROVE TypeInv'
  OBVIOUS
<1>1. /\ sampled' = sampled /\ AlreadyRead' \cup short' \subseteq sampled /\ done' = done
  BY LedgersStay DEF Next, Work, Write
<1>2. log' = log /\ AlreadyRead' = AlreadyRead /\ ledger' = ledger
  BY AlreadyReadIn DEF Write
<1>3. PICK i \in read : /\ i \in 1 .. Len(Chain) /\ Chain[i].ledger = ledger
                        /\ read' = read \ {i}
                        /\ buffer' = IF Chain[i].failed THEN Append(buffer, Chain[i])
                                                        ELSE buffer
                        /\ Chain[i].failed => Chain[i] \in Failed(ledger)
  BY WriteFacts
<1>4. buffer \in Seq(Failed(ledger)) /\ (half # << >> => buffer # << >> /\ half \in Cuts(buffer[1]))
  BY DEF TypeInv, TypeOK
<1>5. /\ buffer' \in Seq(Failed(ledger))
      /\ half # << >> => buffer' # << >> /\ half \in Cuts(buffer'[1])
  <2>1. CASE Chain[i].failed
    <3>1. buffer' = Append(buffer, Chain[i]) /\ Chain[i] \in Failed(ledger)
      BY <1>3, <2>1
    <3>2. buffer' \in Seq(Failed(ledger)) /\ Len(buffer') = Len(buffer) + 1
      BY <1>4, <3>1
    <3>3. buffer # << >> => buffer' # << >> /\ buffer'[1] = buffer[1]
      <4>1. buffer # << >> => Len(buffer) >= 1
        BY <1>4, EmptySeq
      <4>2. buffer # << >> => buffer'[1] = buffer[1]
        BY <1>4, <3>1, <4>1
      <4>3. buffer' # << >>
        BY <1>4, <3>2, EmptySeq
      <4> QED
        BY <4>2, <4>3
    <3> QED
      BY <1>4, <3>2, <3>3
  <2>2. CASE ~Chain[i].failed
    BY <1>3, <1>4, <2>2
  <2> QED
    BY <2>1, <2>2
<1>6. read' \subseteq {j \in DOMAIN Chain : Chain[j].ledger = ledger}
  BY <1>3 DEF TypeInv, TypeOK
<1>7. UNCHANGED <<jsonl, log, runs, pc, done, ledger, cursor, half, tears, sampled, tip>>
      /\ pc = "write"
  BY DEF Write, place
<1> QED
  BY <1>1, <1>2, <1>5, <1>6, <1>7 DEF TypeInv, TypeOK, PhaseInv, OrderInv

LEMMA SpillTypes == TypeInv /\ Spill => TypeInv'
<1> SUFFICES ASSUME TypeInv, Spill PROVE TypeInv'
  OBVIOUS
<1>1. /\ sampled' = sampled /\ AlreadyRead' \cup short' \subseteq sampled /\ done' = done
  BY LedgersStay DEF Next, Spill
<1>2. log' = log /\ AlreadyRead' = AlreadyRead /\ ledger' = ledger
  BY AlreadyReadIn DEF Spill
<1>3. PICK n \in 0 .. Len(buffer) :
         /\ jsonl' = Put(jsonl, SubSeq(buffer, 1, n))
         /\ buffer' = SubSeq(buffer, n + 1, Len(buffer))
         /\ half' \in IF n < Len(buffer) THEN Cuts(buffer[n + 1]) ELSE {<< >>}
  BY DEF Spill
<1>4. buffer' \in Seq(Failed(ledger))
  BY <1>3, Basics, RangeOfParts
<1>5. jsonl' \in File(Records \cup {Garbage})
  <2>1. SubSeq(buffer, 1, n) \in Seq(Records \cup {Garbage})
    BY Basics, RangeOfParts
  <2> QED
    BY <1>3, <2>1, Basics, PutType
<1>6. half' # << >> => buffer' # << >> /\ half' \in Cuts(buffer'[1])
  <2>1. CASE n < Len(buffer)
    BY <1>3, <2>1, Basics, RangeOfParts
  <2>2. CASE ~(n < Len(buffer))
    BY <1>3, <2>2
  <2> QED
    BY <2>1, <2>2
<1>7. UNCHANGED <<log, runs, pc, done, ledger, cursor, read, tears, sampled, tip>>
      /\ pc = "write"
  BY DEF Spill, place
<1> QED
  BY <1>1, <1>2, <1>4, <1>5, <1>6, <1>7 DEF TypeInv, TypeOK, PhaseInv, OrderInv

LEMMA FlushTypes == TypeInv /\ Flush => TypeInv'
<1> SUFFICES ASSUME TypeInv, Flush PROVE TypeInv'
  OBVIOUS
<1>1. /\ sampled' = sampled /\ AlreadyRead' \cup short' \subseteq sampled /\ done' = done
  BY LedgersStay DEF Next, Work, Flush
<1>2. log' = log /\ AlreadyRead' = AlreadyRead /\ ledger' = ledger
  BY AlreadyReadIn DEF Flush
<1>3. jsonl' \in File(Records \cup {Garbage})
  BY Basics, PutType DEF Flush
<1>4. buffer' \in Seq(Failed(ledger')) /\ buffer' = << >> /\ half' = << >>
  BY DEF Flush
<1>5. UNCHANGED <<log, runs, done, ledger, cursor, read, tears, sampled, tip>>
      /\ pc = "write" /\ pc' = "log" /\ read' = {}
  BY DEF Flush, place
<1> QED
  BY <1>1, <1>2, <1>3, <1>4, <1>5 DEF TypeInv, TypeOK, PhaseInv, OrderInv

\* What a stop does to the JSONL.
LEMMA StopFacts ==
    ASSUME TypeInv, Stop
    PROVE  /\ jsonl' \in File(Records \cup {Garbage})
           /\ tears' \in [jsonl : Nat, log : Nat] /\ tears'.log >= tears.log
           /\ half = << >> => jsonl' = jsonl /\ tears'.jsonl = tears.jsonl
           /\ half # << >> =>
                 /\ pc = "write" /\ log' = log
                 /\ tears'.jsonl = tears.jsonl + 1
                 /\ jsonl'.cut # << >>
                 /\ jsonl.cut = << >> => /\ Parsed(jsonl) \subseteq Parsed(jsonl')
                                         /\ Range(jsonl'.cut) \subseteq {Garbage} \cup Failed(ledger)
                 /\ jsonl.cut # << >> => /\ Range(jsonl'.cut) = {Garbage}
                                         /\ Parsed(jsonl') = Range(jsonl.lines) \ {Garbage}
           /\ log' # log => tears'.log > 0 /\ half = << >>
<1>1. PICK cut \in CASE pc = "log" -> Cuts(LogLine(ledger, "read"))
                     [] pc = "unreadable" -> Cuts(LogLine(ledger, "unreadable"))
                     [] OTHER -> {<< >>} :
         /\ log' = IF cut = << >> THEN log ELSE [log EXCEPT !.cut = Torso(log, cut)]
         /\ tears' = [jsonl |-> tears.jsonl + Len(half), log |-> tears.log + Len(cut)]
  BY DEF Stop
<1>2. cut # << >> => pc \in {"log", "unreadable"} /\ Len(cut) = 1
  BY <1>1, CutFacts
<1>3. cut = << >> => Len(cut) = 0
  OBVIOUS
<1>4. Len(cut) \in Nat /\ (log' # log => Len(cut) = 1)
  BY <1>1, <1>2, <1>3
<1>5. jsonl' = IF half = << >> THEN jsonl ELSE [jsonl EXCEPT !.cut = Torso(jsonl, half)]
  BY DEF Stop
<1>6. CASE half = << >>
  <2>1. Len(half) = 0
    BY <1>6
  <2>2. jsonl' = jsonl /\ jsonl \in File(Records \cup {Garbage})
    BY <1>5, <1>6, Basics
  <2>3. tears' = [jsonl |-> tears.jsonl + 0, log |-> tears.log + Len(cut)]
    BY <1>1, <2>1
  <2>4. tears'.jsonl = tears.jsonl /\ tears'.log = tears.log + Len(cut)
    BY <2>3, Basics
  <2>5. tears' \in [jsonl : Nat, log : Nat]
    BY <1>4, <2>3, Basics
  <2>6. tears'.log >= tears.log /\ (log' # log => tears'.log > 0)
    <3> DEFINE k == Len(cut)
               t == tears.log
    <3>1. k \in Nat /\ t \in Nat /\ tears'.log = t + k /\ (log' # log => k = 1)
      BY <1>4, <2>4, Basics
    <3> HIDE DEF k, t
    <3>2. tears'.log >= t /\ (k = 1 => tears'.log > 0)
      BY <3>1
    <3> QED
      BY <3>1, <3>2 DEF t
  <2> QED
    BY <1>6, <2>2, <2>4, <2>5, <2>6, Zenon
<1>7. CASE half # << >>
  <2>1. pc = "write" /\ cut = << >> /\ log' = log
    BY <1>1, <1>2, <1>7, Basics
  <2>2. buffer # << >> /\ half \in Cuts(buffer[1])
    BY <1>7 DEF TypeInv, TypeOK
  <2>3. buffer[1] \in Failed(ledger) /\ buffer[1] \in Records \cup {Garbage}
    BY <2>2, Basics, RangeOfTail
  <2>4. Len(half) = 1 /\ (half = <<Garbage>> \/ half = <<buffer[1]>>)
    BY <1>7, <2>2, CutFacts
  <2>5. Range(half) \subseteq {Garbage} \cup Failed(ledger)
    BY <2>3, <2>4, RangeOfOne
  <2>6. jsonl' = [jsonl EXCEPT !.cut = Torso(jsonl, half)]
    BY <1>5, <1>7
  <2>7. /\ jsonl' \in File(Records \cup {Garbage}) /\ jsonl'.cut # << >>
        /\ jsonl.cut = << >> => Parsed(jsonl) \subseteq Parsed(jsonl') /\ jsonl'.cut = half
        /\ jsonl.cut # << >> => Range(jsonl'.cut) = {Garbage}
                                /\ Parsed(jsonl') = Range(jsonl.lines) \ {Garbage}
    <3> DEFINE S == Records \cup {Garbage}
               line == buffer[1]
    <3>1. half \in Cuts(line) /\ line \in S /\ Garbage \in S /\ jsonl \in File(S)
      BY <2>2, <2>3, Basics
    <3> HIDE DEF S, line
    <3> DEFINE g == [jsonl EXCEPT !.cut = Torso(jsonl, half)]
    <3>2. /\ g \in File(S) /\ g.cut # << >>
          /\ jsonl.cut = << >> => Parsed(jsonl) \subseteq Parsed(g) /\ g.cut = half
          /\ jsonl.cut # << >> => Range(g.cut) = {Garbage}
                                  /\ Parsed(g) = Range(jsonl.lines) \ {Garbage}
      BY <1>7, <3>1, TornFacts
    <3>3. jsonl' = g
      BY <2>6
    <3> HIDE DEF g
    <3> QED
      BY <3>2, <3>3 DEF S
  <2>8. tears' = [jsonl |-> tears.jsonl + 1, log |-> tears.log + 0]
    BY <1>1, <1>3, <2>1, <2>4
  <2>9. tears'.jsonl = tears.jsonl + 1 /\ tears'.log >= tears.log
        /\ tears' \in [jsonl : Nat, log : Nat]
    BY <2>8, Basics
  <2>10. jsonl.cut = << >> => Range(jsonl'.cut) \subseteq {Garbage} \cup Failed(ledger)
    BY <2>5, <2>7
  <2> QED
    BY <1>7, <2>1, <2>7, <2>9, <2>10, Zenon
<1> QED
  BY <1>6, <1>7

LEMMA StopTypes == TypeInv /\ Stop => TypeInv'
<1> SUFFICES ASSUME TypeInv, Stop PROVE TypeInv'
  OBVIOUS
<1>1. /\ sampled' = sampled /\ AlreadyRead' \cup short' \subseteq sampled
      /\ log' \in File(Line \cup {Garbage})
  BY LedgersStay, LogStep DEF Next
<1>2. jsonl' \in File(Records \cup {Garbage}) /\ tears' \in [jsonl : Nat, log : Nat]
  BY StopFacts
<1>3. /\ pc' = "start" /\ buffer' = << >> /\ half' = << >> /\ read' = {}
      /\ cursor' = None /\ done' = {} /\ UNCHANGED <<runs, ledger, sampled, tip>>
  BY DEF Stop, place
<1>4. buffer' \in Seq(Failed(ledger'))
  BY <1>3
<1> QED
  BY <1>1, <1>2, <1>3, <1>4 DEF TypeInv, TypeOK, PhaseInv, OrderInv

LEMMA TypeNext == TypeInv /\ [Next]_vars => TypeInv'
<1>1. TypeInv /\ UNCHANGED vars => TypeInv'
  <2> SUFFICES ASSUME TypeInv, UNCHANGED vars PROVE TypeInv'
    OBVIOUS
  <2>1. AlreadyRead' = AlreadyRead
    BY AlreadyReadIn DEF vars
  <2> QED
    BY <2>1 DEF vars, TypeInv, TypeOK, PhaseInv, OrderInv
<1> QED
  BY <1>1, StartTypes, NextLedgerTypes, ReadPageTypes, OtherTypes, WriteTypes, SpillTypes,
     FlushTypes, StopTypes DEF Next, Work

\* Files, counters and the place in the census stay what they are said to be.
THEOREM CensusTypeCorrect == Spec => []TypeOK
<1>1. TypeInv => TypeOK
  BY DEF TypeInv
<1> QED
  BY <1>1, TypeInit, TypeNext, PTL DEF Spec

\* While the log says that a ledger was read, no run reads it again: a run goes
\* up through the ledgers, and those logged so far lie behind it or were logged
\* when it started.
THEOREM ReadOnce == Spec => NeverReadTwice
<1>1. TypeInv /\ [Next]_vars
         => [\A l \in AlreadyRead : ~(pc = "next" /\ pc' = "page" /\ ledger' = l)]_vars
  <2> SUFFICES ASSUME TypeInv, [Next]_vars, pc = "next", pc' = "page",
                      ledger' \in AlreadyRead
               PROVE  FALSE
    BY Zenon
  <2>1. NextLedger
    BY DEF Next, Work, Start, NextLedger, ReadPage, CallFails, LogUnreadable, Write, Flush,
           LogRead, Spill, Stop, Ingest, vars
  <2>2. TypeInv' /\ log' = log
    BY TypeNext, <2>1 DEF NextLedger
  <2>3. AlreadyRead' = AlreadyRead
    BY <2>2, AlreadyReadIn
  <2> QED
    BY <2>2, <2>3 DEF TypeInv, OrderInv
<1> QED
  BY <1>1, TypeInit, TypeNext, PTL DEF Spec, NeverReadTwice

-----------------------------------------------------------------------------
(***************************************************************************)
(* Pages: a ledger that counts as read was read to its end.                *)
(***************************************************************************)

\* After a page, all of the ledger up to the next cursor was read, and all of it
\* when the page ends it, unless its provider did not have the ledger.
LEMMA PageStep ==
    ASSUME TypeInv, PagesInv, ReadPage
    PROVE  /\ PagesInv'
           /\ pc' = "write" /\ ledger \notin short' => Failed(ledger) \subseteq Coming'
<1>1. PICK p \in Provider :
         /\ read' = read \cup {i \in Page(p) : Chain[i].ledger = ledger}
         /\ \E c \in {Until(p), None} :
               /\ cursor' = c
               /\ pc' = IF Reached(Page(p)) THEN "write"
                        ELSE IF c = None THEN "unreadable" ELSE "page"
         /\ short' = IF Reached(Page(p)) /\ tip[p] < ledger THEN short \cup {ledger}
                                                           ELSE short \ {ledger}
  BY DEF ReadPage
<1>2. pc = "page" /\ ledger' = ledger /\ ledger \in Nat /\ tip[p] \in Nat
  BY Basics DEF ReadPage
<1>3. /\ From \in 0 .. Len(Chain) /\ Until(p) \in From .. Len(Chain)
      /\ Page(p) = From + 1 .. Until(p)
      /\ Page(p) = {} => Before(tip[p] + 1) <= From
  BY <1>2, PageFacts DEF TypeInv, TypeOK
<1>4. ASSUME NEW i \in 1 .. Len(Chain), Chain[i].ledger = ledger, i <= Until(p)
      PROVE  i \in read'
  <2>1. CASE i <= From
    BY <1>1, <1>2, <1>4, <2>1, ChainFacts DEF PagesInv
  <2>2. CASE i > From
    <3>1. i \in Page(p)
      BY <1>3, <1>4, <2>2, ChainFacts
    <3> QED
      BY <1>1, <1>4, <3>1
  <2> QED
    BY <1>3, <2>1, <2>2, ChainFacts
<1>5. PagesInv'
  <2> SUFFICES ASSUME pc' = "page"
               PROVE  \A i \in DOMAIN Chain : Chain[i].ledger = ledger /\ i <= From' => i \in read'
    BY <1>2 DEF PagesInv
  <2>1. cursor' = Until(p) /\ cursor' # None
    BY <1>1
  <2>2. From' = Until(p)
    BY <2>1 DEF From
  <2> QED
    BY <1>4, <2>2, ChainFacts
<1>6. ASSUME pc' = "write", ledger \notin short', NEW i \in 1 .. Len(Chain),
             Chain[i].ledger = ledger
      PROVE  i \in read'
  <2>1. Reached(Page(p)) /\ ~(tip[p] < ledger)
    BY <1>1, <1>6
  <2>2. i <= Until(p)
    <3>1. CASE Page(p) = {}
      <4>1. tip[p] + 1 \in Nat /\ Chain[i].ledger < tip[p] + 1
        BY <1>2, <1>6, <2>1
      <4>2. i <= Before(tip[p] + 1) /\ Before(tip[p] + 1) \in Nat
        <5> DEFINE l == tip[p] + 1
        <5>1. l \in Nat /\ Chain[i].ledger < l
          BY <4>1
        <5> HIDE DEF l
        <5>2. Before(l) \in 0 .. Len(Chain) /\ i <= Before(l)
          BY <5>1, BeforeFacts
        <5> QED
          BY <5>2, ChainFacts DEF l
      <4> QED
        BY <1>3, <3>1, <4>2, ChainFacts
    <3>2. CASE \E j \in Page(p) : Chain[j].ledger > ledger
      <4>1. PICK j \in Page(p) : Chain[j].ledger > ledger
        BY <3>2
      <4>2. j \in 1 .. Len(Chain) /\ j <= Until(p)
        BY <1>3, <4>1, ChainFacts
      <4>3. i # j /\ ~(j < i)
        BY <1>2, <1>6, <4>1, <4>2, ChainFacts
      <4> QED
        BY <1>3, <4>2, <4>3, ChainFacts
    <3> QED
      BY <2>1, <3>1, <3>2 DEF Reached
  <2> QED
    BY <1>4, <1>6, <2>2
<1>7. ASSUME pc' = "write", ledger \notin short', NEW r \in Failed(ledger)
      PROVE  r \in Coming'
  <2>1. PICK i \in 1 .. Len(Chain) : r = Chain[i] /\ Chain[i].ledger = ledger
    BY ChainFacts DEF Failed, Records
  <2>2. i \in read'
    BY <1>6, <1>7, <2>1
  <2> QED
    BY <2>1, <2>2 DEF Coming
<1> QED
  BY <1>5, <1>7

LEMMA PagesInit == Init => PagesInv
BY DEF Init, PagesInv

LEMMA PagesNext == TypeInv /\ PagesInv /\ [Next]_vars => PagesInv'
<1>1. TypeInv /\ NextLedger => PagesInv'
  <2> SUFFICES ASSUME TypeInv, NextLedger, pc' = "page",
                      NEW i \in 1 .. Len(Chain), i <= From'
               PROVE  Chain[i].ledger # ledger'
    BY ChainFacts DEF PagesInv
  <2>1. From' = Before(ledger')
    BY DEF NextLedger, From
  <2>2. ledger' \in Nat
    <3>1. TypeInv' /\ sampled' = sampled
      BY TypeNext DEF Next, Work, NextLedger, place
    <3>2. ledger' \in sampled \cup {0}
      BY <3>1 DEF TypeInv, TypeOK
    <3> QED
      BY <3>2, Basics
  <2>3. i <= Before(ledger') => Chain[i].ledger < ledger'
    BY <2>2, BeforeFacts
  <2>4. Chain[i].ledger \in Nat
    BY ChainFacts
  <2> QED
    BY <2>1, <2>2, <2>3, <2>4
<1>2. TypeInv /\ PagesInv /\ ReadPage => PagesInv'
  BY PageStep
<1>3. PagesInv /\ UNCHANGED <<pc, ledger, cursor, read>> => PagesInv'
  BY DEF PagesInv, From
<1>4. [Next]_vars => \/ NextLedger \/ ReadPage \/ pc' # "page"
                     \/ UNCHANGED <<pc, ledger, cursor, read>>
  BY DEF Next, Work, Start, CallFails, LogUnreadable, Write, Flush, LogRead, Spill, Stop,
         Ingest, vars
<1> QED
  BY <1>1, <1>2, <1>3, <1>4 DEF PagesInv

-----------------------------------------------------------------------------
(***************************************************************************)
(* Records: what is missing, and what a cut line may yet cost.             *)
(***************************************************************************)

\* A step logs no ledger as read whole but the one just recorded.
LEMMA LoggedWhole ==
    ASSUME TypeInv, [Next]_vars
    PROVE  /\ AlreadyRead' \ short' \subseteq
                 (AlreadyRead \ short) \cup (IF pc = "log" /\ ledger \notin short THEN {ledger} ELSE {})
           /\ \A l \in AlreadyRead : l \in short' <=> l \in short
<1>1. AlreadyRead' \subseteq AlreadyRead \cup (IF pc = "log" THEN {ledger} ELSE {})
  BY LogStep
<1>2. \/ short' = short
      \/ pc = "page" /\ \A l \in AlreadyRead : l \in short' <=> l \in short
  <2>1. CASE ReadPage
    <3>1. pc = "page" /\ (short' = short \cup {ledger} \/ short' = short \ {ledger})
      BY <2>1 DEF ReadPage
    <3>2. ledger \notin AlreadyRead
      BY <3>1 DEF TypeInv, OrderInv
    <3> QED
      BY <3>1, <3>2
  <2>2. CASE ~ReadPage
    BY <2>2 DEF Next, Work, Start, NextLedger, CallFails, LogUnreadable, Write, Flush,
         LogRead, Spill, Stop, Ingest, vars
  <2> QED
    BY <2>1, <2>2
<1> QED
  BY <1>1, <1>2

\* At the end of a ledger nothing of it is still to come.
LEMMA NothingComing ==
    TypeInv /\ pc = "log" => Coming = {}
<1> SUFFICES ASSUME TypeInv, pc = "log" PROVE Coming = {}
  OBVIOUS
<1>1. buffer = << >> /\ read = {}
  BY DEF TypeInv, PhaseInv
<1> QED
  BY <1>1, RangeOfNone DEF Coming

\* Steps that do not write to the JSONL lose no record that was still to come.
LEMMA RecordingStep ==
    ASSUME TypeInv, PagesInv, [Next]_vars, ~Spill, ~Flush, Recording'
    PROVE  /\ ledger' = ledger
           /\ \/ Failed(ledger) \subseteq Coming'
              \/ Recording /\ Failed(ledger) \cap Coming \subseteq Coming'
<1>1. CASE ReadPage
  <2>1. pc' # "log"
    BY <1>1 DEF ReadPage
  <2> QED
    BY <1>1, <2>1, PageStep DEF Recording, ReadPage
<1>2. CASE Write
  <2>1. PICK i \in read :
           /\ read' = read \ {i}
           /\ buffer' = IF Chain[i].failed THEN Append(buffer, Chain[i]) ELSE buffer
           /\ Chain[i].failed => Chain[i] \in Failed(ledger)
    BY <1>2, WriteFacts
  <2>2. Recording /\ ledger' = ledger
    BY <1>2 DEF Recording, Write
  <2>3. /\ Chain[i].failed => Range(buffer') = Range(buffer) \cup {Chain[i]}
        /\ ~Chain[i].failed => buffer' = buffer
    <3>1. CASE Chain[i].failed
      <4> DEFINE one == <<Chain[i]>>
                 S == Failed(ledger)
      <4>1. buffer' = Append(buffer, Chain[i]) /\ Chain[i] \in S /\ buffer \in Seq(S)
        BY <2>1, <3>1, Basics
      <4>2. buffer' = buffer \o one
        BY <4>1, AppendIsConcat
      <4>3. one \in Seq(S) /\ Range(one) = {Chain[i]}
        BY <4>1, RangeOfOne
      <4> HIDE DEF one, S
      <4>4. Range(buffer \o one) = Range(buffer) \cup Range(one)
        BY <4>1, <4>3, RangeOfConcat
      <4> QED
        BY <3>1, <4>2, <4>3, <4>4
    <3>2. CASE ~Chain[i].failed
      BY <2>1, <3>2
    <3> QED
      BY <3>1, <3>2
  <2>4. ASSUME NEW r \in Failed(ledger) \cap Coming
        PROVE  r \in Coming'
    <3>1. CASE r \in Range(buffer)
      BY <2>3, <3>1 DEF Coming
    <3>2. CASE \E j \in read : r = Chain[j]
      <4>1. PICK j \in read : r = Chain[j]
        BY <3>2
      <4>2. CASE j = i
        <5>1. Chain[i].failed
          BY <2>4, <4>1, <4>2 DEF Failed, Records
        <5> QED
          BY <2>3, <4>1, <4>2, <5>1 DEF Coming
      <4>3. CASE j # i
        BY <2>1, <4>1, <4>3 DEF Coming
      <4> QED
        BY <4>2, <4>3
    <3> QED
      BY <2>4, <3>1, <3>2 DEF Coming
  <2> QED
    BY <2>2, <2>4
<1>3. CASE Ingest \/ UNCHANGED vars
  BY <1>3 DEF Ingest, vars, Recording, Coming
<1> QED
  BY <1>1, <1>2, <1>3
     DEF Next, Work, Recording, Start, NextLedger, CallFails, LogUnreadable, LogRead, Stop

LEMMA MissingFacts ==
    /\ Missing \subseteq Records /\ Missing' \subseteq Records
    /\ IsFiniteSet(Missing) /\ Cardinality(Missing) \in Nat
    /\ \A T, x : T \subseteq Missing \cup {x} => IsFiniteSet(T) /\ Cardinality(T) \in Nat
                                                 /\ Cardinality(T) <= Cardinality(Missing) + 1
    /\ \A T : T \subseteq Missing => IsFiniteSet(T) /\ Cardinality(T) \in Nat
                                     /\ Cardinality(T) <= Cardinality(Missing)
<1>1. Missing \subseteq Records /\ Missing' \subseteq Records
  BY DEF Missing, Records
<1>2. IsFiniteSet(Missing) /\ Cardinality(Missing) \in Nat
  BY <1>1, RecordsAreFinite, FS_Subset, FS_CardinalityType
<1>3. ASSUME NEW T, T \subseteq Missing
      PROVE  IsFiniteSet(T) /\ Cardinality(T) \in Nat /\ Cardinality(T) <= Cardinality(Missing)
  BY <1>2, <1>3, FS_Subset, FS_CardinalityType
<1>4. ASSUME NEW T, NEW x, T \subseteq Missing \cup {x}
      PROVE  IsFiniteSet(T) /\ Cardinality(T) \in Nat /\ Cardinality(T) <= Cardinality(Missing) + 1
  <2> DEFINE U == Missing \cup {x}
  <2>1. IsFiniteSet(U) /\ Cardinality(U) <= Cardinality(Missing) + 1 /\ Cardinality(U) \in Nat
    BY <1>2, FS_AddElement
  <2> HIDE DEF U
  <2>2. IsFiniteSet(T) /\ Cardinality(T) <= Cardinality(U) /\ Cardinality(T) \in Nat
    <3>1. T \in SUBSET U
      BY <1>4 DEF U
    <3> QED
      BY <2>1, <3>1, FS_Subset, FS_CardinalityType
  <2> QED
    BY <1>2, <2>1, <2>2
<1> QED
  BY <1>1, <1>2, <1>3, <1>4

FaultInv == PagesInv /\ CutInv /\ TearInv

\* A step that leaves the JSONL as it is loses nothing.
LEMMA KeepStep ==
    ASSUME TypeInv, FaultInv, [Next]_vars, ~Spill, ~Flush,
           jsonl' = jsonl, tears'.jsonl = tears.jsonl
    PROVE  CutInv' /\ TearInv'
<1>1. AlreadyRead' \ short' \subseteq
          (AlreadyRead \ short) \cup (IF pc = "log" /\ ledger \notin short THEN {ledger} ELSE {})
  BY LoggedWhole
<1>2. pc = "log" => Coming = {}
  BY NothingComing
<1>3. Recording' => /\ ledger' = ledger
                    /\ \/ Failed(ledger) \subseteq Coming'
                       \/ Recording /\ Failed(ledger) \cap Coming \subseteq Coming'
  BY RecordingStep DEF FaultInv
<1>4. ASSUME NEW r \in Missing'
      PROVE  r \in Missing
  <2>1. r \in Records \ Parsed(jsonl)
    BY <1>4 DEF Missing
  <2>2. CASE r.ledger \in AlreadyRead' \ short'
    BY <1>1, <1>2, <2>1, <2>2 DEF Missing, Recording
  <2>3. CASE Recording' /\ r.ledger = ledger' /\ r \notin Coming'
    <3>1. r \in Failed(ledger)
      BY <1>3, <2>1, <2>3 DEF Failed
    <3> QED
      BY <1>3, <2>1, <2>3, <3>1 DEF Missing, Failed
  <2> QED
    BY <1>4, <2>2, <2>3 DEF Missing
<1>5. CutInv'
  <2> SUFFICES ASSUME jsonl.cut # << >>
               PROVE  /\ \A r \in Range(jsonl.cut) \ {Garbage} : r.ledger \notin AlreadyRead' \ short'
                      /\ Recording' => Failed(ledger') \subseteq Coming'
    BY DEF CutInv
  <2>1. /\ \A r \in Range(jsonl.cut) \ {Garbage} : r.ledger \notin AlreadyRead \ short
        /\ Recording => Failed(ledger) \subseteq Coming
    BY DEF FaultInv, CutInv
  <2>2. Range(jsonl.cut) \ {Garbage} \subseteq Records
    BY Basics, ParsedFacts
  <2>3. ASSUME NEW r \in Range(jsonl.cut) \ {Garbage},
               pc = "log", ledger \notin short, r.ledger = ledger
        PROVE  FALSE
    <3>1. r \in Failed(ledger)
      BY <2>2, <2>3 DEF Failed
    <3> QED
      BY <1>2, <2>1, <2>3, <3>1 DEF Recording
  <2> QED
    BY <1>1, <1>3, <2>1, <2>3
<1>6. TearInv'
  <2>1. Cardinality(Missing') <= Cardinality(Missing) /\ Cardinality(Missing') \in Nat
    BY <1>4, MissingFacts
  <2> QED
    BY <2>1, MissingFacts, Basics DEF FaultInv, TearInv
<1> QED
  BY <1>5, <1>6

\* Records written to the JSONL: at most the first of them is lost, and then the
\* cut line that swallowed it is behind them.
LEMMA PutStep ==
    ASSUME TypeInv, FaultInv, pc = "write", pc' \in {"write", "log"},
           NEW n \in 0 .. Len(buffer),
           jsonl' = Put(jsonl, SubSeq(buffer, 1, n)),
           Range(buffer') = Range(SubSeq(buffer, n + 1, Len(buffer))),
           UNCHANGED <<log, ledger, read, short, tears>>
    PROVE  CutInv' /\ TearInv'
<1> DEFINE lines == SubSeq(buffer, 1, n)
           S == Records \cup {Garbage}
<1>1. /\ lines \in Seq(S) /\ Range(buffer) = Range(lines) \cup Range(buffer')
      /\ Range(lines) \subseteq Failed(ledger)
  <2>1. /\ lines \in Seq(S)
        /\ Range(buffer) = Range(lines) \cup Range(SubSeq(buffer, n + 1, Len(buffer)))
    BY Basics, RangeOfParts
  <2>2. Range(buffer) \subseteq Failed(ledger)
    BY Basics DEF Range
  <2> QED
    BY <2>1, <2>2
<1>2. AlreadyRead' = AlreadyRead /\ (Recording' <=> Recording)
  BY AlreadyReadIn DEF Recording
<1>3. jsonl \in File(S) /\ Garbage \in S /\ Garbage \notin Records /\ tears.jsonl \in Nat
  BY Basics, FailedFacts
<1>4. Coming = Coming' \cup Range(lines)
  BY <1>1 DEF Coming
<1>5. tears'.jsonl = tears.jsonl
  OBVIOUS
<1>6. jsonl' = Put(jsonl, lines)
  OBVIOUS
<1> HIDE DEF lines, S
<1>7. CASE lines = << >>
  <2>1. jsonl' = jsonl /\ Coming' = Coming
    BY <1>4, <1>6, <1>7, RangeOfNone DEF Put
  <2>2. Missing' = Missing
    BY <1>2, <2>1 DEF Missing
  <2> QED
    BY <1>2, <1>5, <2>1, <2>2 DEF FaultInv, CutInv, TearInv
<1>8. CASE lines # << >> /\ jsonl.cut = << >>
  <2>1. jsonl'.cut = << >> /\ Parsed(jsonl') = Parsed(jsonl) \cup (Range(lines) \ {Garbage})
    BY <1>1, <1>3, <1>6, <1>8, PutWhole
  <2>2. Missing' \subseteq Missing
    BY <1>2, <1>3, <1>4, <2>1 DEF Missing
  <2>3. Cardinality(Missing') <= Cardinality(Missing) /\ Cardinality(Missing') \in Nat
    BY <2>2, MissingFacts
  <2> QED
    BY <1>3, <1>5, <1>8, <2>1, <2>3, MissingFacts DEF FaultInv, CutInv, TearInv
<1>9. CASE lines # << >> /\ jsonl.cut # << >>
  <2>1. /\ jsonl'.cut = << >>
        /\ Parsed(jsonl') = (Range(jsonl.lines) \cup Range(Tail(lines))) \ {Garbage}
    BY <1>1, <1>3, <1>6, <1>9, PutAfterCut
  <2>2. Range(lines) = {lines[1]} \cup Range(Tail(lines))
    BY <1>1, <1>9, RangeOfTail
  <2>3. Parsed(jsonl) = (Range(jsonl.lines) \cup Range(jsonl.cut)) \ {Garbage}
    BY <1>3, ParsedFacts
  <2>4. /\ \A r \in Range(jsonl.cut) \ {Garbage} : r.ledger \notin AlreadyRead \ short
        /\ Recording => Failed(ledger) \subseteq Coming
    BY <1>9 DEF FaultInv, CutInv
  <2>5. ASSUME NEW r \in Missing', r # lines[1]
        PROVE  r \in Missing
    <3>1. /\ r \in Records /\ r # Garbage /\ r \notin Parsed(jsonl')
          /\ \/ r.ledger \in AlreadyRead \ short
             \/ Recording /\ r.ledger = ledger /\ r \notin Coming'
      BY <1>2, <1>3, <2>5 DEF Missing
    <3>2. r \notin Range(jsonl.lines) /\ r \notin Range(lines)
      BY <2>1, <2>2, <2>5, <3>1
    <3>3. CASE r.ledger \in AlreadyRead \ short
      BY <2>3, <2>4, <3>1, <3>2, <3>3 DEF Missing
    <3>4. CASE Recording /\ r.ledger = ledger /\ r \notin Coming'
      <4>1. r \in Failed(ledger) /\ r \notin Coming
        BY <1>4, <3>1, <3>2, <3>4 DEF Failed
      <4> QED
        BY <2>4, <3>4, <4>1
    <3> QED
      BY <3>1, <3>3, <3>4
  <2>6. Missing' \subseteq Missing \cup {lines[1]}
    BY <2>5
  <2>7. Cardinality(Missing') <= Cardinality(Missing) + 1 /\ Cardinality(Missing') \in Nat
    BY <2>6, MissingFacts
  <2> QED
    BY <1>3, <1>5, <1>9, <2>1, <2>7, MissingFacts DEF FaultInv, CutInv, TearInv
<1> QED
  BY <1>7, <1>8, <1>9

LEMMA SpillStep == TypeInv /\ FaultInv /\ (Spill \/ Flush) => CutInv' /\ TearInv'
<1> SUFFICES ASSUME TypeInv, FaultInv, Spill \/ Flush PROVE CutInv' /\ TearInv'
  OBVIOUS
<1>1. pc = "write" /\ pc' \in {"write", "log"} /\ UNCHANGED <<log, ledger, read, short, tears>>
  BY DEF Spill, Flush
<1>2. \E n \in 0 .. Len(buffer) :
         /\ jsonl' = Put(jsonl, SubSeq(buffer, 1, n))
         /\ Range(buffer') = Range(SubSeq(buffer, n + 1, Len(buffer)))
  <2>1. CASE Spill
    BY <2>1 DEF Spill
  <2>2. CASE Flush
    <3>1. Len(buffer) \in Nat /\ SubSeq(buffer, 1, Len(buffer)) = buffer
      BY Basics, SubSeqFull
    <3>2. SubSeq(buffer, Len(buffer) + 1, Len(buffer)) = << >>
      BY <3>1, SubSeqEmpty
    <3>3. jsonl' = Put(jsonl, buffer) /\ buffer' = << >>
      BY <2>2 DEF Flush
    <3>4. Len(buffer) \in 0 .. Len(buffer)
      BY <3>1
    <3> QED
      BY <3>1, <3>2, <3>3, <3>4
  <2> QED
    BY <2>1, <2>2
<1> QED
  BY <1>1, <1>2, PutStep

\* A census that starts its JSONL afresh has no ledger logged as read.
LEMMA StartStep == TypeInv /\ FaultInv /\ Start => CutInv' /\ TearInv'
<1> SUFFICES ASSUME TypeInv, FaultInv, Start PROVE CutInv' /\ TearInv'
  OBVIOUS
<1>1. pc' = "next" /\ tears' = tears /\ AlreadyRead' = AlreadyRead /\ short' = short
      /\ jsonl' = IF AlreadyRead = {} THEN Empty ELSE jsonl
  BY AlreadyReadIn DEF Start
<1>2. ~Spill /\ ~Flush
  BY DEF Start, Spill, Flush
<1>3. CASE AlreadyRead # {}
  BY <1>1, <1>2, <1>3, KeepStep DEF Next, Work
<1>4. CASE AlreadyRead = {}
  <2>1. jsonl'.cut = << >>
    BY <1>1, <1>4, EmptyFile
  <2>2. Missing' = {}
    BY <1>1, <1>4 DEF Missing, Recording
  <2> QED
    BY <1>1, <2>1, <2>2, Basics, FS_EmptySet DEF CutInv, TearInv
<1> QED
  BY <1>3, <1>4

\* A stop that cuts a record off pays for what that record may cost.
LEMMA TearStep ==
    ASSUME TypeInv, FaultInv, Stop, half # << >>
    PROVE  CutInv' /\ TearInv'
<1>1. /\ pc = "write" /\ log' = log /\ tears'.jsonl = tears.jsonl + 1 /\ jsonl'.cut # << >>
      /\ jsonl.cut = << >> => /\ Parsed(jsonl) \subseteq Parsed(jsonl')
                              /\ Range(jsonl'.cut) \subseteq {Garbage} \cup Failed(ledger)
      /\ jsonl.cut # << >> => /\ Range(jsonl'.cut) = {Garbage}
                              /\ Parsed(jsonl') = Range(jsonl.lines) \ {Garbage}
  BY StopFacts
<1>2. pc' = "start" /\ short' = short /\ AlreadyRead' = AlreadyRead
  BY <1>1, AlreadyReadIn DEF Stop
<1>3. ~Recording' /\ ledger \notin AlreadyRead
  BY <1>1, <1>2 DEF Recording, TypeInv, OrderInv
<1>4. CutInv'
  <2>1. \A r \in Range(jsonl'.cut) \ {Garbage} : r.ledger = ledger
    BY <1>1 DEF Failed
  <2> QED
    BY <1>2, <1>3, <2>1 DEF CutInv
<1>5. Missing' \subseteq Missing
  <2> SUFFICES ASSUME NEW r \in Missing' PROVE r \in Missing
    OBVIOUS
  <2>1. /\ r \in Records /\ r # Garbage /\ r \notin Parsed(jsonl')
        /\ r.ledger \in AlreadyRead \ short
    BY <1>2, <1>3, FailedFacts DEF Missing
  <2>2. CASE jsonl.cut = << >>
    BY <1>1, <2>1, <2>2 DEF Missing
  <2>3. CASE jsonl.cut # << >>
    <3>1. r \notin Range(jsonl.cut)
      BY <2>1, <2>3 DEF FaultInv, CutInv
    <3>2. Parsed(jsonl) = (Range(jsonl.lines) \cup Range(jsonl.cut)) \ {Garbage}
      BY Basics, ParsedFacts
    <3> QED
      BY <1>1, <2>1, <2>3, <3>1, <3>2 DEF Missing
  <2> QED
    BY <2>2, <2>3
<1>6. Cardinality(Missing') <= Cardinality(Missing) /\ Cardinality(Missing') \in Nat
  BY <1>5, MissingFacts
<1>7. TearInv'
  <2>1. Cardinality(Missing) <= tears.jsonl
    BY Basics, MissingFacts DEF FaultInv, TearInv
  <2> QED
    BY <1>1, <1>6, <2>1, Basics, MissingFacts DEF TearInv
<1> QED
  BY <1>4, <1>7

LEMMA FaultInit == Init => FaultInv
<1> SUFFICES ASSUME Init PROVE FaultInv
  OBVIOUS
<1>1. jsonl.cut = << >> /\ AlreadyRead = {} /\ ~Recording
  BY EmptyFile, AlreadyReadIn DEF Init, ReadIn, Recording
<1>2. Missing = {}
  BY <1>1 DEF Missing
<1>3. tears.jsonl = 0
  BY DEF Init
<1> QED
  BY <1>1, <1>2, <1>3, PagesInit, FS_EmptySet DEF FaultInv, CutInv, TearInv

LEMMA FaultNext == TypeInv /\ FaultInv /\ [Next]_vars => FaultInv'
<1> SUFFICES ASSUME TypeInv, FaultInv, [Next]_vars PROVE FaultInv'
  OBVIOUS
<1>1. PagesInv'
  BY PagesNext DEF FaultInv
<1>2. CASE Spill \/ Flush
  BY <1>1, <1>2, SpillStep DEF FaultInv
<1>3. CASE Start
  BY <1>1, <1>3, StartStep DEF FaultInv
<1>4. CASE Stop /\ half # << >>
  BY <1>1, <1>4, TearStep DEF FaultInv
<1>5. CASE Stop /\ half = << >>
  <2>1. jsonl' = jsonl /\ tears'.jsonl = tears.jsonl
    BY <1>5, StopFacts
  <2>2. ~Spill /\ ~Flush
    BY <1>5 DEF Stop, Spill, Flush
  <2> QED
    BY <1>1, <2>1, <2>2, KeepStep DEF FaultInv
<1>6. CASE ~Spill /\ ~Flush /\ ~Start /\ ~Stop
  <2>1. jsonl' = jsonl /\ tears' = tears
    BY <1>6 DEF Next, Work, NextLedger, ReadPage, CallFails, LogUnreadable, Write, LogRead,
                Ingest, vars
  <2> QED
    BY <1>1, <1>6, <2>1, KeepStep DEF FaultInv
<1> QED
  BY <1>2, <1>3, <1>4, <1>5, <1>6

\* As many records are lost, of ledgers their provider had, as stops left the
\* JSONL with a cut line, at most.  A cut line counts as a loss until the record
\* written after it is the one that is lost.
THEOREM TearsBoundTheLoss == Spec => []EachTearLosesAtMostOne
<1>1. TypeInv /\ FaultInv => EachTearLosesAtMostOne
  <2> SUFFICES ASSUME TypeInv, FaultInv PROVE EachTearLosesAtMostOne
    OBVIOUS
  <2> DEFINE T == {r \in LostRecords : r.ledger \notin short}
  <2>1. T \subseteq Missing
    <3> SUFFICES ASSUME NEW r \in LostRecords, r.ledger \notin short
                 PROVE  r \in Missing
      OBVIOUS
    <3>1. PICK l \in AlreadyRead : r \in Failed(l)
      BY DEF LostRecords
    <3>2. r \in Records /\ r.ledger \in AlreadyRead
      BY <3>1 DEF Failed
    <3>3. r \notin Published
      BY DEF LostRecords
    <3>4. r \notin Parsed(jsonl)
      BY <3>2, <3>3 DEF Published
    <3> QED
      BY <3>2, <3>4 DEF Missing
  <2> HIDE DEF T
  <2>2. Cardinality(T) <= Cardinality(Missing) /\ Cardinality(T) \in Nat
    BY <2>1, MissingFacts
  <2> QED
    BY <2>2, Basics, MissingFacts DEF FaultInv, TearInv, EachTearLosesAtMostOne, T
<1> QED
  BY <1>1, TypeInit, TypeNext, FaultInit, FaultNext, PTL DEF Spec

-----------------------------------------------------------------------------
(***************************************************************************)
(* The census keeps its promise.                                           *)
(***************************************************************************)

LEMMA LogInit == Init => LogInv
BY EmptyFile DEF Init, LogInv, Empty

LEMMA LogNext == TypeInv /\ LogInv /\ [Next]_vars => LogInv'
<1> SUFFICES ASSUME TypeInv, LogInv, [Next]_vars, tears'.log = 0 PROVE log'.cut = << >>
  BY DEF LogInv
<1>1. tears.log \in Nat /\ log \in File(Line \cup {Garbage}) /\ ledger \in Nat
  BY Basics DEF TypeInv, TypeOK
<1>2. CASE Stop
  <2>1. log' = log /\ tears'.log >= tears.log
    BY <1>2, StopFacts
  <2> QED
    BY <1>1, <2>1 DEF LogInv
<1>3. CASE LogRead \/ LogUnreadable
  <2>1. PICK status \in {"read", "unreadable"} : log' = Put(log, <<LogLine(ledger, status)>>)
    BY <1>3 DEF LogRead, LogUnreadable
  <2> QED
    BY <1>1, <2>1, ReadInPut
<1>4. CASE ~Stop /\ ~LogRead /\ ~LogUnreadable
  <2>1. log' = log /\ tears' = tears
    BY <1>4 DEF Next, Work, Start, NextLedger, ReadPage, CallFails, Write, Flush, Spill,
                Ingest, vars
  <2> QED
    BY <2>1 DEF LogInv
<1> QED
  BY <1>2, <1>3, <1>4

Intact == tears = [jsonl |-> 0, log |-> 0] /\ short \cap AlreadyRead = {}

CensusInv == TypeInv /\ FaultInv /\ LogInv

LEMMA IntactFacts ==
    ASSUME CensusInv, Intact
    PROVE  /\ jsonl.cut = << >> /\ log.cut = << >> /\ Missing = {}
<1>1. tears.jsonl = 0 /\ tears.log = 0
  BY DEF Intact
<1>2. Cardinality(Missing) = 0 /\ jsonl.cut = << >>
  BY <1>1, MissingFacts DEF CensusInv, FaultInv, TearInv
<1> QED
  BY <1>1, <1>2, MissingFacts, FS_EmptySet DEF CensusInv, LogInv

\* Files that are no longer intact stay so.
LEMMA DamageStays ==
    ASSUME CensusInv, [Next]_vars, Intact'
    PROVE  Intact /\ tears' = tears /\ short' \cap AlreadyRead = {}
<1>1. TypeInv
  BY DEF CensusInv
<1>2. tears'.jsonl >= tears.jsonl /\ tears'.log >= tears.log
  <2>1. CASE Stop
    BY <1>1, <2>1, StopFacts, Basics
  <2>2. CASE ~Stop
    <3>1. tears' = tears
      BY <2>2 DEF Next, Work, Start, NextLedger, ReadPage, CallFails, LogUnreadable, Write,
                  Flush, LogRead, Spill, Ingest, vars
    <3> QED
      BY <1>1, <3>1, Basics
  <2> QED
    BY <2>1, <2>2
<1>3. tears'.jsonl = 0 /\ tears'.log = 0
  BY DEF Intact
<1>4. tears \in [jsonl : Nat, log : Nat] /\ tears' = [jsonl |-> 0, log |-> 0]
  BY <1>1 DEF TypeInv, TypeOK, Intact
<1>5. tears = [jsonl |-> 0, log |-> 0]
  <2>1. tears.jsonl = 0 /\ tears.log = 0
    BY <1>2, <1>3, <1>4
  <2> QED
    BY <1>4, <2>1
<1>6. log.cut = << >> /\ log'.cut = << >>
  <2>1. LogInv'
    BY LogNext DEF CensusInv
  <2> QED
    BY <1>3, <1>5, <2>1 DEF CensusInv, LogInv
<1>7. AlreadyRead \subseteq AlreadyRead'
  BY <1>1, <1>6, LogStep
<1>8. \A l \in AlreadyRead : l \in short' <=> l \in short
  BY <1>1, LoggedWhole
<1> QED
  BY <1>4, <1>5, <1>7, <1>8 DEF Intact

\* A ledger logged as read enters the population with all its failed
\* transactions.
LEMMA LogReadSettles ==
    ASSUME CensusInv, LogRead, Intact, Intact'
    PROVE  /\ ledger \in sampled \ AlreadyRead
           /\ AlreadyRead' = AlreadyRead \cup {ledger}
           /\ Published' = Published \cup Failed(ledger)
<1>1. TypeInv /\ [Next]_vars /\ pc = "log" /\ jsonl' = jsonl /\ short' = short
  BY DEF CensusInv, Next, Work, LogRead
<1>2. jsonl.cut = << >> /\ log.cut = << >> /\ Missing = {}
  BY IntactFacts
<1>3. AlreadyRead' = AlreadyRead \cup {ledger}
  BY <1>1, <1>2, LogStep
<1>4. ledger \in sampled \ AlreadyRead
  BY <1>1 DEF TypeInv, OrderInv
<1>5. ledger \notin short
  BY <1>1, <1>3 DEF Intact
<1>6. Failed(ledger) \subseteq Parsed(jsonl)
  <2>1. Recording /\ Coming = {}
    BY <1>1, <1>5, NothingComing DEF Recording
  <2> QED
    BY <1>2, <2>1 DEF Missing, Failed
<1>7. \A r \in Parsed(jsonl) : r.ledger = ledger => r \in Failed(ledger)
  BY <1>1, Basics, ParsedFacts DEF Failed
<1>8. Published' = Published \cup Failed(ledger)
  BY <1>1, <1>3, <1>6, <1>7 DEF Published, Failed
<1> QED
  BY <1>3, <1>4, <1>8

\* No other step changes the population while the files are intact.
LEMMA OtherStepsKeep ==
    ASSUME CensusInv, [Next]_vars, ~LogRead, Intact, Intact'
    PROVE  AlreadyRead' = AlreadyRead /\ Published' = Published
<1>1. TypeInv
  BY DEF CensusInv
<1>2. jsonl.cut = << >> /\ log.cut = << >>
  BY IntactFacts
<1>3. tears' = tears /\ tears.log = 0 /\ tears.jsonl = 0
  BY DamageStays DEF Intact
<1>4. AlreadyRead' = AlreadyRead
  <2>1. CASE LogUnreadable
    <3>1. log'.cut = << >> /\ AlreadyRead' \subseteq AlreadyRead
      <4>1. log'.cut = << >>
        <5>1. LogInv'
          BY LogNext DEF CensusInv
        <5> QED
          BY <1>3, <5>1 DEF LogInv
      <4>2. pc # "log"
        BY <2>1 DEF LogUnreadable
      <4> QED
        BY <1>1, <4>1, <4>2, LogStep
    <3> QED
      BY <1>1, <1>2, <3>1, LogStep
  <2>2. CASE ~LogUnreadable
    <3>1. log' = log
      <4>1. CASE Stop
        BY <1>1, <1>3, <4>1, StopFacts
      <4>2. CASE ~Stop
        BY <2>2, <4>2 DEF Next, Work, Start, NextLedger, ReadPage, CallFails, Write, Flush,
                          Spill, Ingest, vars
      <4> QED
        BY <4>1, <4>2
    <3> QED
      BY <3>1, AlreadyReadIn
  <2> QED
    BY <2>1, <2>2
<1>5. Published' = Published
  <2>1. CASE Spill \/ Flush
    <3>1. pc = "write" /\ ledger \notin AlreadyRead
      BY <1>1, <2>1 DEF Spill, Flush, TypeInv, OrderInv
    <3>2. PICK lines \in Seq(Records \cup {Garbage}) :
             /\ jsonl' = Put(jsonl, lines) /\ Range(lines) \subseteq Failed(ledger)
      <4>1. Range(buffer) \subseteq Failed(ledger)
        BY <1>1, Basics DEF Range
      <4>2. CASE Spill
        <5>1. PICK n \in 0 .. Len(buffer) : jsonl' = Put(jsonl, SubSeq(buffer, 1, n))
          BY <4>2 DEF Spill
        <5>2. /\ SubSeq(buffer, 1, n) \in Seq(Records \cup {Garbage})
              /\ Range(SubSeq(buffer, 1, n)) \subseteq Range(buffer)
          <6>1. buffer \in Seq(Records \cup {Garbage})
            BY <1>1, Basics
          <6> QED
            BY <6>1, RangeOfParts
        <5> QED
          BY <4>1, <5>1, <5>2
      <4>3. CASE Flush
        BY <1>1, <4>1, <4>3, Basics DEF Flush
      <4> QED
        BY <2>1, <4>2, <4>3
    <3>3. Parsed(jsonl') = Parsed(jsonl) \cup (Range(lines) \ {Garbage})
      BY <1>1, <1>2, <3>2, Basics, PutWhole
    <3>4. \A r \in Range(lines) : r.ledger \notin AlreadyRead
      BY <3>1, <3>2 DEF Failed
    <3> QED
      BY <1>4, <3>3, <3>4 DEF Published
  <2>2. CASE Start
    <3>1. jsonl' = IF AlreadyRead = {} THEN Empty ELSE jsonl
      BY <1>4, <2>2 DEF Start
    <3> QED
      BY <1>4, <3>1 DEF Published
  <2>3. CASE ~Spill /\ ~Flush /\ ~Start
    <3>1. jsonl' = jsonl
      <4>1. CASE Stop
        BY <1>1, <1>3, <4>1, StopFacts
      <4>2. CASE ~Stop
        BY <2>3, <4>2 DEF Next, Work, NextLedger, ReadPage, CallFails, LogUnreadable, Write,
                          LogRead, Ingest, vars
      <4> QED
        BY <4>1, <4>2
    <3> QED
      BY <1>4, <3>1 DEF Published
  <2> QED
    BY <2>1, <2>2, <2>3
<1> QED
  BY <1>4, <1>5

\* A report over the files of a census sees ledgers enter the population one at
\* a time, each with all its failed transactions, and none leave, as long as no
\* stop cut a line in two and no ledger logged as read was ended by a provider
\* that did not have it.
THEOREM CensusIsWhole == Spec => PopulationIsWhole
<1>1. Init => CensusInv
  BY TypeInit, FaultInit, LogInit DEF CensusInv
<1>2. CensusInv /\ [Next]_vars => CensusInv'
  BY TypeNext, FaultNext, LogNext DEF CensusInv
<1>3. Init => Promise!Init
  <2> SUFFICES ASSUME Init PROVE Promise!Init
    OBVIOUS
  <2>1. AlreadyRead = {} /\ tears = [jsonl |-> 0, log |-> 0]
    BY EmptyFile, AlreadyReadIn DEF Init, ReadIn
  <2>2. Published = {}
    BY <2>1 DEF Published
  <2> QED
    BY <2>1, <2>2 DEF Promise!Init
<1>4. CensusInv /\ [Next]_vars
         => [Promise!Next]_<<sampled, AlreadyRead, Published,
                             tears = [jsonl |-> 0, log |-> 0] /\ short \cap AlreadyRead = {}>>
  <2> SUFFICES ASSUME CensusInv, [Next]_vars
               PROVE  \/ Promise!Next
                      \/ /\ sampled' = sampled /\ AlreadyRead' = AlreadyRead
                         /\ Published' = Published /\ (Intact' = Intact)
    BY DEF Intact
  <2>1. sampled' = sampled
    BY LedgersStay DEF CensusInv
  <2>2. CASE ~Intact'
    BY <2>1, <2>2 DEF Promise!Next, Promise!Damage, Intact
  <2>3. CASE Intact' /\ LogRead
    <3>1. Intact
      BY <2>3, DamageStays
    <3>2. /\ ledger \in sampled \ AlreadyRead
          /\ AlreadyRead' = AlreadyRead \cup {ledger}
          /\ Published' = Published \cup Failed(ledger)
      BY <2>3, <3>1, LogReadSettles
    <3>3. Promise!Settle(ledger)
      BY <2>3, <3>1, <3>2 DEF Promise!Settle, Intact
    <3> QED
      BY <2>1, <3>2, <3>3 DEF Promise!Next
  <2>4. CASE Intact' /\ ~LogRead
    BY <2>1, <2>4, DamageStays, OtherStepsKeep
  <2> QED
    BY <2>2, <2>3, <2>4
<1> QED
  BY <1>1, <1>2, <1>3, <1>4, PTL DEF Spec, PopulationIsWhole, Promise!Spec

=============================================================================
