----------------------- MODULE MCMessageReceptionState -----------------------
(* The duplicate detection with a window of a few counters. *)
EXTENDS MessageReceptionState

AllModes == {EncryptedWithoutRollover, EncryptedWithRollover, UnencryptedWithRollover}
=============================================================================
