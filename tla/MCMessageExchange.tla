-------------------------- MODULE MCMessageExchange --------------------------
(* An exchange of a few messages. *)
EXTENDS MessageExchange, TLC

MCOneOne == Initiator :> 1 @@ Responder :> 1
MCTwoOne == Initiator :> 2 @@ Responder :> 1
=============================================================================
