-------------------------- MODULE FieldComparison --------------------------
(***************************************************************************)
(* How a field of the Shipping Instruction is compared with the same field   *)
(* of the draft Bill of Lading (comparison/service.py, comparison/l1.py):     *)
(* values that are not comparable, equal values (L0), the rules of the        *)
(* field's kind (L1), and the semantic resolver for what is left (L2).        *)
(* Operators only.                                                           *)
(*                                                                         *)
(* A value is what its text holds once case and spaces are normalised:        *)
(*   NUMBER  [text, number]          a count or a weight, or NoNumber,        *)
(*   PORT    [name, code]            NoName, NoCode when absent,              *)
(*   ENTITY  [words, address, dots]  dots: how abbreviations are punctuated.  *)
(* A side is [resolved, value]: whether the extraction resolved the field.    *)
(***************************************************************************)
EXTENDS Integers, Sequences, SequencesExt, FiniteSets

CONSTANTS
  NoNumber, NoName, NoCode, NoPort,
  Approved,      \* PortAliasRegistry: the port of a name or code, or NoPort
  Similar,       \* pairs of names whose similarity ratio is at least 0.8
  LegalWords,    \* words of company forms
  LocalWords,    \* those of them that mark a local company: sdn, limited
  Shortens       \* pairs of words of which the first abbreviates the second

(* Kinds of the seven canonical fields, in their order. *)
CanonicalFields ==
  <<"ENTITY", "ENTITY", "ENTITY", "PORT", "PORT", "NUMBER", "NUMBER">>
----------------------------------------------------------------------------
Decided(same) == IF same THEN "EQUIVALENT" ELSE "DIFFERENT"

CompareNumber(si, bl) ==
  IF NoNumber \in {si.number, bl.number} THEN "NO_DECISION"
  ELSE Decided(si.number = bl.number)

PortOf(value) == IF Approved[value.name] # NoPort THEN Approved[value.name] ELSE Approved[value.code]

SameCode(si, bl)  == si.code # NoCode /\ si.code = bl.code
BothNamed(si, bl) == NoName \notin {si.name, bl.name}

(* Fault: a code both documents name decides before their port names do. *)
ComparePortByCode(si, bl) ==
  IF SameCode(si, bl) THEN "EQUIVALENT"
  ELSE IF NoPort \notin {PortOf(si), PortOf(bl)} THEN Decided(PortOf(si) = PortOf(bl))
  ELSE "NO_DECISION"

ComparePort(si, bl) ==
  IF NoPort \notin {Approved[si.name], Approved[bl.name]}
    THEN Decided(Approved[si.name] = Approved[bl.name])
  ELSE IF BothNamed(si, bl) /\ si.name = bl.name THEN "EQUIVALENT"
  ELSE IF SameCode(si, bl) THEN Decided(BothNamed(si, bl) => <<si.name, bl.name>> \in Similar)
  ELSE IF NoPort \notin {PortOf(si), PortOf(bl)} THEN Decided(PortOf(si) = PortOf(bl))
  ELSE IF BothNamed(si, bl) /\ <<si.name, bl.name>> \notin Similar THEN "DIFFERENT"
  ELSE "NO_DECISION"
----------------------------------------------------------------------------
(* Names of one company, perhaps: left to the semantic resolver. *)

Meaning(words) == SelectSeq(words, LAMBDA w : w \notin LegalWords)

Abbreviated(a, b) ==
  /\ DOMAIN a = DOMAIN b
  /\ LET apart == {i \in DOMAIN a : a[i] # b[i]}
     IN  Cardinality(apart) = 1 /\ \A i \in apart : {<<a[i], b[i]>>, <<b[i], a[i]>>} \cap Shortens # {}

Extended(a, b) == Len(b) = Len(a) + 1 /\ IsPrefix(a, b)

SharesHead(a, b) ==
  /\ {Len(a), Len(b)} \subseteq 2 .. 4 /\ Len(a) - Len(b) \in -1 .. 1
  /\ a[1] = b[1]
  /\ a[2] = b[2] \/ (Len(a) = 2 /\ Len(b) = 2)

Candidate(si, bl) ==
  LET a == Meaning(si.words)
      b == Meaning(bl.words)
  IN  \/ <<>> \in {a, b}
      \/ a = b
      \/ Abbreviated(a, b)
      \/ /\ Extended(a, b) \/ Extended(b, a)
         /\ ToSet(si.words \o bl.words) \cap LocalWords # {}
      \/ SharesHead(a, b)

CompareEntity(si, bl) ==
  IF si.words = bl.words /\ si.address = bl.address THEN "EQUIVALENT"
  ELSE IF Candidate(si, bl) THEN "NO_DECISION" ELSE "DIFFERENT"
----------------------------------------------------------------------------
L1(kind, si, bl) ==
  CASE kind = "NUMBER" -> CompareNumber(si, bl)
    [] kind = "PORT"   -> ComparePort(si, bl)
    [] kind = "ENTITY" -> CompareEntity(si, bl)

Status(decision) ==
  CASE decision = "EQUIVALENT"  -> "MATCH"
    [] decision = "DIFFERENT"   -> "MISMATCH"
    [] decision = "NO_DECISION" -> "UNRESOLVED"

(* opinion: the resolver's answer; NO_DECISION when it has none, times out,   *)
(* fails or is not configured.                                               *)
CompareField(kind, si, bl, opinion) ==
  IF ~si.resolved \/ ~bl.resolved THEN "UNRESOLVED"
  ELSE IF si.value = bl.value THEN "MATCH"
  ELSE Status(IF L1(kind, si.value, bl.value) = "NO_DECISION" THEN opinion
              ELSE L1(kind, si.value, bl.value))

(* The comparison of an e-mail, from the statuses of its fields. *)
Batch(statuses) ==
  [state    |-> IF "UNRESOLVED" \in statuses THEN "BLOCKED" ELSE "COMPLETED",
   mismatch |-> "MISMATCH" \in statuses]
=============================================================================
