-------------------------------- MODULE MCBtp --------------------------------
(* A few messages of one and two segments over a small window. *)
EXTENDS Btp, TLC

MCOutgoing == Central :> <<3, 6>> @@ Peripheral :> <<3>>
=============================================================================
