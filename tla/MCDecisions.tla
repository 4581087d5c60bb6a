---------------------------- MODULE MCDecisions ----------------------------
(* Three of the five categories; ports with approved and unknown names and    *)
(* codes; companies whose names differ in each way the rules tell apart.      *)
EXTENDS Decisions

MCTable    == <<Comparison, "new_si_request", General>>
MCLexical  == <<Comparison, General, "new_si_request">>
MCCategories == ToSet(MCTable)

Points  == [MCCategories -> {0, 1, 3}]
MCMails == [subject : Points, body : Points, names : Points]

File(kind, native, ocr, markers) ==
  [kind |-> kind, empty |-> FALSE, native |-> native, ocr |-> ocr, markers |-> markers]

MCFiles ==
  {File("DOCX", "TEXT", "NO_TEXT", {"SI"}), File("PDF", "NO_TEXT", "TEXT", {"BL"}),
   File("XLSX", "TEXT", "NO_TEXT", {"SI", "BL"}), File("PDF", "TEXT", "NO_TEXT", {"WRONG_TYPE"}),
   File("IMAGE", "NO_TEXT", "FAILED", {}), File("UNKNOWN", "TEXT", "NO_TEXT", {}),
   [File("PDF", "TEXT", "TEXT", {"BL"}) EXCEPT !.empty = TRUE]}

Extracted(values) ==
  [resolved : {TRUE}, value : values] \cup
  [resolved : {FALSE}, value : {CHOOSE v \in values : TRUE}]

MCApproved ==
  [n \in {"port klang", "klang", "singapore", "port klnag", "atlantis", "MYPKG", "XXABC", NoName, NoCode} |->
     CASE n \in {"port klang", "klang", "MYPKG"} -> "PORT KLANG"
       [] n = "singapore" -> "SINGAPORE"
       [] OTHER -> NoPort]
MCSimilar == {<<"port klang", "port klnag">>, <<"port klnag", "port klang">>}
PortValues ==
  [name : {"port klang", "klang", "singapore", "port klnag", "atlantis", NoName},
   code : {"MYPKG", "XXABC", NoCode}]

Names ==
  {<<"acme">>, <<"acme", "ltd">>, <<"acme", "limited">>, <<"acme", "intl">>,
   <<"acme", "international">>, <<"acme", "trading", "sdn">>, <<"acme", "trading", "export">>,
   <<"bolt", "trading">>, <<"ltd">>}
MCLegalWords == {"ltd", "limited", "sdn"}
MCLocalWords == {"limited", "sdn"}
MCShortens   == {<<"intl", "international">>, <<"inter", "international">>}
EntityValues == [words : Names, address : {"here", "there"}, dots : BOOLEAN]

NumberValues == [text : {"5"}, number : {5}] \cup [text : {"5 x 40HC"}, number : {5}]
                \cup [text : {"6"}, number : {6}] \cup [text : {"five"}, number : {NoNumber}]

MCSides ==
  [kind \in {"NUMBER", "PORT", "ENTITY"} |->
     CASE kind = "NUMBER" -> Extracted(NumberValues)
       [] kind = "PORT"   -> Extracted(PortValues)
       [] kind = "ENTITY" -> Extracted(EntityValues)]

MCDictionary ==
  [label \in {"consignee", "to the order of", "pol", "containers", "port"} |->
     CASE label \in {"consignee", "to the order of"} -> {"consignee"}
       [] label = "pol"        -> {"port_of_loading"}
       [] label = "containers" -> {"container_count"}
       [] label = "port"       -> {"port_of_loading", "port_of_discharge"}]
MCPlaceholders == {<<"tba">>}
MCReads == [text \in {<<"5">>, <<"5 x 40HC">>, <<"6">>} |-> IF text = <<"6">> THEN 6 ELSE 5]

Line(kind, label, text) == [kind |-> kind, label |-> label, text |-> text]
ShortLines ==
  {Line("PAIR", "containers", <<"5">>), Line("PAIR", "containers", <<"6">>),
   Line("PAIR", "containers", <<"5 x 40HC">>), Line("PAIR", "containers", <<"five">>),
   Line("PAIR", "pol", <<"tba">>), Line("ORDER", "to the order of", <<"bank">>)}
TextLines ==
  {Line("BLANK", "", <<>>), Line("ALONE", "consignee", <<>>), Line("PAIR", "consignee", <<>>),
   Line("PAIR", "consignee", <<"acme">>), Line("ALONE", "acme", <<>>),
   Line("PAIR", "tel", <<"1">>), Line("PAIR", "port", <<"klang">>),
   Line("ALONE", "pol", <<>>), Line("PAIR", "pol", <<"klang">>),
   Line("ALONE", "containers", <<>>),
   Line("ORDER", "to the order of (a)", <<"bank">>), Line("ALONE", "to the order of", <<>>)}
Rows ==
  {<<"consignee", "pol">>, <<"pol", "consignee", "containers">>, <<"acme", "klang">>,
   <<"klang", "acme", "5">>, <<"consignee", "acme">>, <<"consignee", "acme", "street">>,
   <<"containers", "6">>, <<"consignee">>, <<"acme">>, <<"net", "5">>}
Texts(pages) == [role : {"SI", "DRAFT_BL"}, tables : {<<>>}, pages : pages]
MCDocuments ==
  Texts({<<lines>> : lines \in [1 .. 4 -> TextLines]})
  \cup Texts([1 .. 2 -> [1 .. 2 -> ShortLines]])
  \cup {Sheet(role, table) : role \in {"SI", "DRAFT_BL"}, table \in [1 .. 3 -> Rows]}
=============================================================================
