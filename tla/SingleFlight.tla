---------------------------- MODULE SingleFlight ----------------------------
(***************************************************************************)
(* What a shared table of costly answers promises its callers: for each    *)
(* key one computation is started, its answer is written once and stays,   *)
(* until the table is lost as a whole.                                     *)
(***************************************************************************)
CONSTANTS Keys, Answers, None

VARIABLES
  started,  \* keys whose computation was started
  table     \* the answer of each key, or None

vars == <<started, table>>

TypeOK == started \subseteq Keys /\ table \in [Keys -> Answers \cup {None}]

Init == started = {} /\ table = [k \in Keys |-> None]

Start(k) == k \notin started /\ started' = started \cup {k} /\ UNCHANGED table

Write(k, a) ==
  /\ k \in started /\ table[k] = None
  /\ table' = [table EXCEPT ![k] = a]
  /\ UNCHANGED started

Lose == started' = {} /\ table' = [k \in Keys |-> None]

Next == (\E k \in Keys : Start(k) \/ \E a \in Answers : Write(k, a)) \/ Lose

Spec == Init /\ [][Next]_vars
=============================================================================
