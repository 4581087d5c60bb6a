-------------------------- MODULE MCDocumentStages --------------------------
(* Two e-mails with the same scanned Shipping Instruction, each with a draft  *)
(* Bill of Lading of its own, one of them a scan too.                         *)
EXTENDS DocumentStages

Text(markers) ==
  [kind |-> "PLAIN_TEXT", empty |-> FALSE, native |-> "TEXT", markers |-> markers]
Scan(markers) ==
  [kind |-> "PDF", empty |-> FALSE, native |-> "NO_TEXT", markers |-> markers]

CONSTANTS e1, e2

MCFile == [si |-> Scan({"SI"}), typed |-> Text({"BL"}), scanned |-> Scan({"BL"})]
MCContents == DOMAIN MCFile
MCAttachments == [e \in Emails |-> IF e = e1 THEN <<"si", "typed">> ELSE <<"scanned", "si">>]
=============================================================================
