--------------------------- MODULE Classification ---------------------------
(***************************************************************************)
(* How an e-mail is given its category (classification/): a cheap first     *)
(* stage that commits when its evidence is clear, a second stage that       *)
(* always decides, and the readiness of an e-mail that asks for a           *)
(* comparison.  Operators only.                                             *)
(*                                                                         *)
(* A mail is a record of three score functions: what the phrases of each    *)
(* category add up to in its subject, in its body and in the names of its   *)
(* attachments.  Weights are those of config.py times 10 (Stage 1) and 100  *)
(* (Stage 2); shares are compared exactly, where the code rounds them to    *)
(* four digits.                                                             *)
(***************************************************************************)
EXTENDS Naturals, FiniteSets, FiniteSetsExt, Functions, Sequences

CONSTANTS
  Categories,   \* EmailCategory
  Lexical       \* the categories sorted by name

Comparison == "document_comparison"
General    == "general_message"

ASSUME ClassificationAssumption ==
  /\ IsFiniteSet(Categories) /\ {Comparison, General} \subseteq Categories
  /\ Lexical \in [1 .. Cardinality(Categories) -> Categories]
  /\ Categories \subseteq {Lexical[i] : i \in DOMAIN Lexical}

(* A table lists the categories in the order of its keys. *)
Before(table, c, d) ==
  \E i, j \in DOMAIN table : i < j /\ table[i] = c /\ table[j] = d

Total(score) == FoldFunction(+, 0, score)

(* The highest score; the table's order decides between equal ones. *)
Top(score, table) ==
  CHOOSE c \in Categories :
    \A d \in Categories \ {c} :
      score[c] > score[d] \/ (score[c] = score[d] /\ Before(table, c, d))

Lead(score, top) == score[top] - Max({score[d] : d \in Categories \ {top}})

(* At least so many percent of the total; without any score nothing is. *)
Share(part, score, percent) == Total(score) > 0 /\ 100 * part >= percent * Total(score)

Positive(score) == {c \in Categories : score[c] > 0}
----------------------------------------------------------------------------
(* Stage 1 *)

Combined(mail) ==
  [c \in Categories |-> 7 * mail.subject[c] + 10 * mail.body[c] + 3 * mail.names[c]]

Conflict(mail, table) ==
  LET score == Combined(mail) IN
  \/ /\ Positive(mail.subject) # {} /\ Positive(mail.body) # {}
     /\ Top(mail.subject, table) # Top(mail.body, table)
  \/ Cardinality(Positive(mail.body)) >= 2
  \/ ~Share(Lead(score, Top(score, table)), score, 20)

(* Fault: a category the body says nothing about is enough. *)
ConfidentWithoutBody(mail, table) ==
  LET score == Combined(mail)
      top   == Top(score, table)
  IN  /\ ~Conflict(mail, table)
      /\ Share(score[top], score, 80) /\ Share(Lead(score, top), score, 25)

Confident(mail, table) ==
  LET score == Combined(mail)
      top   == Top(score, table)
  IN  /\ ~Conflict(mail, table)
      /\ Share(score[top], score, 80) /\ Share(Lead(score, top), score, 25)
      /\ mail.body[top] > 0
----------------------------------------------------------------------------
(* Stage 2 *)

Reweighted(mail) == [c \in Categories |-> 35 * mail.subject[c] + 150 * mail.body[c]]

(* Fault: equal shares are left in the order of the table. *)
BestInTable(mail, table) == Top(Reweighted(mail), table)

Best(mail, table) ==
  LET score == Reweighted(mail)
      Over(c, d) ==
        \/ score[c] > score[d]
        \/ score[c] = score[d] /\ mail.body[c] > mail.body[d]
        \/ /\ score[c] = score[d] /\ mail.body[c] = mail.body[d]
           /\ \/ mail.subject[c] > mail.subject[d]
              \/ mail.subject[c] = mail.subject[d] /\ Before(Lexical, c, d)
  IN  CHOOSE c \in Categories : \A d \in Categories \ {c} : Over(c, d)

Resolved(mail, table) ==
  LET score == Reweighted(mail)
      best  == Best(mail, table)
  IN  IF Positive(score) = {}
      THEN [category |-> General, reason |-> "ZERO_SIGNAL_GENERAL"]
      ELSE [category |-> best,
            reason   |-> IF Share(score[best], score, 65) /\ Share(Lead(score, best), score, 15)
                         THEN "STAGE2_RESOLVED" ELSE "STAGE2_LOW_CONFIDENCE"]

Classify(mail, table) ==
  IF Confident(mail, table)
  THEN [category |-> Top(Combined(mail), table), reason |-> "STAGE1_CONFIDENT"]
  ELSE Resolved(mail, table)
----------------------------------------------------------------------------
(* Readiness of a mail classified as a comparison: the number of its         *)
(* attachments, and what its text says.                                      *)
Sayings == {"SEND_THE_BL", "CHECK", "SI", "BL", "DENSE_SI"}

Readiness(attachments, says) ==
  IF attachments >= 2 THEN "READY_FOR_COMPARISON"
  ELSE IF {"SEND_THE_BL", "CHECK"} \subseteq says /\ "DENSE_SI" \notin says
    THEN "AWAITING_DOCUMENTS"
  ELSE IF {"CHECK", "SI", "BL"} \subseteq says THEN "READY_FOR_COMPARISON"
  ELSE "UNRESOLVED"
=============================================================================
