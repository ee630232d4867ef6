----------------------------- MODULE MCFailsafe -----------------------------
(* An instance of Failsafe for TLC.                                        *)
EXTENDS Failsafe

(* One fabric that nothing guards is enough to see what it does to others, *)
(* while commissioned is counted from the table.                           *)
OneEscapes ==
  /\ Cardinality(unguarded) <= 1
  /\ ~(missed /\ unguarded # {})
=============================================================================
