----------------------- MODULE ContractErrors_proofs ------------------------
(***************************************************************************)
(* Lemmas about the operators of ContractErrors, for the proofs of the     *)
(* modules that use them.                                                  *)
(***************************************************************************)
EXTENDS ContractErrors, NatLemmas

-----------------------------------------------------------------------------
(***************************************************************************)
(* Codes, identification and resolution.                                   *)
(***************************************************************************)

LEMMA CodesAreListed ==
    ASSUME NEW errors, NEW terminal, NEW k \in Nat, DOMAIN errors = 1 .. k
    PROVE  \E n \in Nat : DOMAIN CodesInOrder(errors, terminal) = 1 .. n
<1> DEFINE code == [i \in DOMAIN errors |-> errors[i].error.code]
           t    == TerminalCode(terminal)
           S    == {i \in FirstAppearances(errors) : code[i] # t}
           rest == Only(code, S)
           T    == {code[i] : i \in S}
<1>1. S \in SUBSET (1 .. k)
  BY DEF FirstAppearances
<1>2. \A i \in S : code[i] \in T
  OBVIOUS
<1>3. CodesInOrder(errors, terminal) = IF t = None THEN rest ELSE <<t>> \o rest
  BY DEF CodesInOrder
<1>4. rest \in Seq(T)
  <2> HIDE DEF S, T, code
  <2> QED
    BY <1>1, <1>2, OnlyIsASequence
<1> HIDE DEF rest, T, t, S, code
<1>5. Len(rest) \in Nat /\ DOMAIN rest = 1 .. Len(rest)
  BY <1>4
<1>6. Len(<<t>> \o rest) \in Nat /\ DOMAIN (<<t>> \o rest) = 1 .. Len(<<t>> \o rest)
  <2>1. rest \in Seq(T \cup {t}) /\ <<t>> \in Seq(T \cup {t})
    BY <1>4
  <2>2. <<t>> \o rest \in Seq(T \cup {t})
    BY <2>1
  <2> QED
    BY <2>2
<1> QED
  BY <1>3, <1>5, <1>6

LEMMA TheEndingCodeIsFirst ==
    ASSUME NEW errors, NEW terminal, NEW k \in Nat, DOMAIN errors = 1 .. k,
           TerminalCode(terminal) # None
    PROVE  LET codes == CodesInOrder(errors, terminal) IN
           1 \in DOMAIN codes /\ codes[1] = TerminalCode(terminal)
<1> DEFINE code == [i \in DOMAIN errors |-> errors[i].error.code]
           t    == TerminalCode(terminal)
           S    == {i \in FirstAppearances(errors) : code[i] # t}
           rest == Only(code, S)
           T    == {code[i] : i \in S}
<1>1. S \in SUBSET (1 .. k)
  BY DEF FirstAppearances
<1>2. \A i \in S : code[i] \in T
  OBVIOUS
<1>3. CodesInOrder(errors, terminal) = <<t>> \o rest
  BY DEF CodesInOrder
<1>4. rest \in Seq(T)
  <2> HIDE DEF S, T, code
  <2> QED
    BY <1>1, <1>2, OnlyIsASequence
<1> HIDE DEF rest, T, t, S, code
<1>5. rest \in Seq(T \cup {t}) /\ <<t>> \in Seq(T \cup {t}) /\ Len(<<t>>) = 1 /\ <<t>>[1] = t
  BY <1>4
<1>6. 1 \in DOMAIN (<<t>> \o rest) /\ (<<t>> \o rest)[1] = t
  BY <1>5
<1> QED
  BY <1>3, <1>6 DEF t

LEMMA IdentifiedIsAContract ==
    ASSUME NEW errors, NEW code,
           \A i \in DOMAIN errors : errors[i].contract \in Contract \cup {None}
    PROVE  Identified(Identify(errors, code)) \in Contract \cup {None}
<1> DEFINE mine     == {i \in DOMAIN errors : Carries(errors[i], code)}
           emitters == {errors[i].contract : i \in mine}
           origins  == {errors[i].contract : i \in {j \in mine : errors[j].marker = "origin"}}
           who      == Identify(errors, code)
<1>1. emitters \subseteq Contract /\ origins \subseteq Contract
  BY DEF Carries
<1>2. \/ who \in {Unidentified, Ambiguous(emitters)}
      \/ emitters # {} /\ who = Unique(Sole(emitters))
      \/ Cardinality(origins) = 1 /\ who = Unique(Sole(origins))
  BY DEF Identify
<1> HIDE DEF mine, emitters, origins, who
<1>3. CASE who \in {Unidentified, Ambiguous(emitters)}
  BY <1>3 DEF Identified, Unidentified, Ambiguous, who
<1>4. ASSUME NEW S \in SUBSET Contract, S # {}, who = Unique(Sole(S))
      PROVE  Identified(who) \in Contract
  <2>1. Sole(S) \in Contract
    BY <1>4 DEF Sole
  <2>2. \A x : Sole({x}) = x
    BY DEF Sole
  <2>3. Identified(who) = Sole({Sole(S)})
    BY <1>4 DEF Identified, Unique
  <2> QED
    BY <2>1, <2>2, <2>3
<1>5. CASE emitters # {} /\ who = Unique(Sole(emitters))
  BY <1>1, <1>4, <1>5 DEF who
<1>6. CASE Cardinality(origins) = 1 /\ who = Unique(Sole(origins))
  <2>1. origins # {}
    BY <1>6, FS_EmptySet
  <2> QED
    BY <1>1, <1>4, <1>6, <2>1 DEF who
<1> QED
  BY <1>2, <1>3, <1>5, <1>6

\* A resolved error has a spec that was not refused, and its name is one the
\* spec declares for the code.
LEMMA ResolvedFacts ==
    ASSUME NEW who, NEW code, NEW specs, NEW loaded,
           Resolve(who, code, specs, loaded).tag = "Resolved"
    PROVE  LET spec     == specs[Identified(who)]
               checked  == spec.hash # None /\ loaded # {}
               resolved == Resolve(who, code, specs, loaded)
           IN /\ Identified(who) # None /\ spec # None
              /\ resolved.name \in spec.names[code]
              /\ resolved.verified = checked
              /\ checked => spec.hash \in loaded
<1> DEFINE spec    == specs[Identified(who)]
           checked == spec.hash # None /\ loaded # {}
           names   == spec.names[code]
<1>1. \A tag \in ErrorResolution \ {"Resolved"} : Unnamed(tag).tag # "Resolved"
  BY DEF Unnamed
<1>2. /\ Identified(who) # None /\ spec # None
      /\ checked => spec.hash \in loaded
      /\ Resolve(who, code, specs, loaded) = Lookup(names, checked)
  BY <1>1 DEF Resolve, ErrorResolution
<1> HIDE DEF names, checked
<1>3. names # {} /\ Lookup(names, checked) =
                       [tag |-> "Resolved", name |-> Sole(names), verified |-> checked]
  BY <1>1, <1>2 DEF Lookup, Unnamed, ErrorResolution
<1>4. Sole(names) \in names
  BY <1>3 DEF Sole
<1> QED
  BY <1>2, <1>3, <1>4 DEF names, checked

=============================================================================
