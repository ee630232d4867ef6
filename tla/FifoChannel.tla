----------------------------- MODULE FifoChannel -----------------------------
(***************************************************************************)
(* What a connection oriented Channel<ByteArray> promises for one          *)
(* direction (packages/matter.js/src/common/Channel.ts): the messages come *)
(* out whole, in the order in which send() took them, none twice and none  *)
(* invented.  Nothing is taken once the sender's end is closed and nothing *)
(* comes out once the receiver's end is closed; messages under way are     *)
(* lost then.                                                              *)
(***************************************************************************)
EXTENDS Naturals, Sequences

CONSTANT Message

VARIABLES
  accepted,      \* messages the sender's end has taken, in order
  delivered,     \* messages the receiver's end has handed over, in order
  senderOpen, receiverOpen

vars == <<accepted, delivered, senderOpen, receiverOpen>>

Init ==
  /\ accepted = <<>>
  /\ delivered = <<>>
  /\ senderOpen = TRUE
  /\ receiverOpen = TRUE

Send(m) ==
  /\ senderOpen
  /\ accepted' = Append(accepted, m)
  /\ UNCHANGED <<delivered, senderOpen, receiverOpen>>

Deliver ==
  /\ receiverOpen
  /\ Len(delivered) < Len(accepted)
  /\ delivered' = Append(delivered, accepted[Len(delivered) + 1])
  /\ UNCHANGED <<accepted, senderOpen, receiverOpen>>

CloseSender ==
  /\ senderOpen' = FALSE
  /\ UNCHANGED <<accepted, delivered, receiverOpen>>

CloseReceiver ==
  /\ receiverOpen' = FALSE
  /\ UNCHANGED <<accepted, delivered, senderOpen>>

Next ==
  \/ \E m \in Message : Send(m)
  \/ Deliver
  \/ CloseSender
  \/ CloseReceiver

Spec == Init /\ [][Next]_vars
=============================================================================
