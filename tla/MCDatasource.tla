------------------------------ MODULE MCDatasource ------------------------------
(* An instance of Datasource for TLC. *)
EXTENDS Datasource, TLC

Untouched(t) == working[t] = Nothing /\ resources[t] = {} /\ pc[t] = "actor"

Unused(d) == /\ version[d] = 0 /\ lockedBy[d] = NoTx
             /\ \A t \in Tx : working[t][d] = None /\ d \notin resources[t]

(* Two transactions contend for one datasource, or one transaction changes  *)
(* two of them, so that the changes of a commit cascade.                    *)
ContentionOrCascade == (\E t \in Tx : Untouched(t)) \/ (\E d \in Resource : Unused(d))

Symmetric == Permutations(Tx) \cup Permutations(Resource) \cup Permutations(Value)
=============================================================================
