-------------------------- MODULE MCMessageCounter --------------------------
(* Message counters of a few values. *)
EXTENDS MessageCounter

MCInitialCounters == {1, 3}
=============================================================================
