--------------------------- MODULE MessageExchange ---------------------------
(***************************************************************************)
(* The two ends of one message exchange, with the message reliability      *)
(* protocol (packages/matter.js/src/protocol/MessageExchange.ts).          *)
(*                                                                         *)
(* Each end runs the same code.  Its application calls send() for one      *)
(* message after the other and close() at the end; the exchange manager    *)
(* may destroy() the exchange at any time.  The network is the set of all  *)
(* packets that were ever sent: a packet in it may be received at any      *)
(* time, again and again, or never, which covers loss, delay, duplication  *)
(* and reordering.                                                         *)
(*                                                                         *)
(* One step of the model is one run of JavaScript up to an await that      *)
(* waits for the outside; the message counter is awaited too, but it is    *)
(* incremented in memory.  A message is known by the end that sent it and  *)
(* its place among the messages of that end; standalone acks carry no      *)
(* number here, since an ack that is received twice has no effect the      *)
(* second time.  The session's duplicate detection is exact here; what it  *)
(* really does is the subject of MessageReceptionState.  All messages of   *)
(* the application require an ack: the one that does not, the close of a   *)
(* session, has an exchange of its own.                                    *)
(***************************************************************************)
EXTENDS Integers, Sequences

CONSTANTS
  Initiator, Responder,  \* the two ends
  NoMessage,             \* the value undefined of a message
  MaxMessages,           \* bound: messages each end sends
  MaxTransmissions       \* MRP_MAX_TRANSMISSIONS

End == {Initiator, Responder}

ASSUME ExchangeAssumption ==
  /\ Initiator # Responder
  /\ MaxMessages \in [End -> Nat]
  /\ MaxTransmissions \in Nat \ {0}
  /\ NoMessage \notin [from : End, id : Nat, acks : Nat]
  /\ NoMessage \notin [message : [from : End, id : Nat, acks : Nat], count : Nat]

VARIABLES
  \* fields of the MessageExchange at each end
  receivedMessageToAck,  \* number of the message that has to be acked, or None
  ackTimer,              \* receivedMessageAckTimer is running
  sentMessageToAck,      \* the message that waits for its ack, or NoMessage
  ackPromise,            \* sentMessageAckSuccess and ...Failure are defined
  retransmissionTimer,   \* the timer in the field of this name, or NoMessage
  closeTimer,            \* undefined, running or stopped
  closed,                \* closeInternal() was called: the manager has forgotten it
  \* what is under way at each end
  timers,                \* retransmission timers that run
  resending,             \* retransmissions that wait for channel.send()
  task,                  \* what the application's send() is doing
  outcome,               \* how the promise of that send() was settled
  \* the sessions and the network
  received,              \* numbers of the messages each end has received
  sent,                  \* numbers of the messages each end has sent
  network,               \* every packet that was ever sent
  \* history
  delivered,             \* messages written to the queue of each end
  acked,                 \* messages whose send() returned normally
  gaveUp                 \* a retransmission could not be sent

ackVars      == <<receivedMessageToAck, ackTimer>>
sendVars     == <<sentMessageToAck, ackPromise, outcome>>
timerVars    == <<retransmissionTimer, timers, resending>>
closeVars    == <<closeTimer, closed>>
historyVars  == <<delivered, acked, gaveUp>>
vars == <<ackVars, sendVars, timerVars, closeVars, task, received, sent, network, historyVars>>

None == 0
Other(e) == IF e = Initiator THEN Responder ELSE Initiator

Numbers(e) == 1 .. MaxMessages[e]

\* A message of the application, and a standalone ack (which has no number).
Messages(e) == [from : {e}, id : Numbers(e), acks : {None} \cup Numbers(Other(e))]
Acks(e)     == [from : {e}, id : {None}, acks : Numbers(Other(e))]

StandaloneAck(e, id) == [from |-> e, id |-> None, acks |-> id]

\* A retransmission timer knows its message and how often that was repeated.
Timers(e) == [message : Messages(e), count : 0 .. MaxTransmissions - 1]

\* Types of the fields; a retransmission timer never counts beyond its limit.
TypeOK ==
  /\ \A e \in End :
       /\ receivedMessageToAck[e] \in {None} \cup Numbers(Other(e))
       /\ sentMessageToAck[e] \in {NoMessage} \cup Messages(e)
       /\ retransmissionTimer[e] \in {NoMessage} \cup Timers(e)
       /\ timers[e] \subseteq Timers(e)
       /\ resending[e] \subseteq Timers(e)
       /\ received[e] \subseteq Numbers(Other(e))
       /\ sent[e] \in 0 .. MaxMessages[e]
       /\ delivered[e] \in Seq(Numbers(Other(e)))
       /\ acked[e] \subseteq Numbers(e)
  /\ ackTimer \in [End -> BOOLEAN]
  /\ gaveUp \in [End -> BOOLEAN]
  /\ ackPromise \in [End -> BOOLEAN]
  /\ closeTimer \in [End -> {"undefined", "running", "stopped"}]
  /\ closed \in [End -> BOOLEAN]
  /\ task \in [End -> {"idle", "sending", "waiting"}]
  /\ outcome \in [End -> {"pending", "resolved", "rejected"}]
  /\ network \subseteq UNION {Messages(e) \cup Acks(e) : e \in End}

Init ==
  /\ receivedMessageToAck = [e \in End |-> None]
  /\ ackTimer = [e \in End |-> FALSE]
  /\ sentMessageToAck = [e \in End |-> NoMessage]
  /\ ackPromise = [e \in End |-> FALSE]
  /\ retransmissionTimer = [e \in End |-> NoMessage]
  /\ closeTimer = [e \in End |-> "undefined"]
  /\ closed = [e \in End |-> FALSE]
  /\ timers = [e \in End |-> {}]
  /\ resending = [e \in End |-> {}]
  /\ task = [e \in End |-> "idle"]
  /\ outcome = [e \in End |-> "resolved"]
  /\ received = [e \in End |-> {}]
  /\ sent = [e \in End |-> 0]
  /\ network = {}
  /\ delivered = [e \in End |-> <<>>]
  /\ acked = [e \in End |-> {}]
  /\ gaveUp = [e \in End |-> FALSE]

-----------------------------------------------------------------------------
(* Parts that several operations share *)

\* channel.send() of a message of the application.
Transmit(m) == network' = network \cup {m}

\* The promise of send() is settled; a send() that awaits it ends at once.
Settle(e, how) ==
  /\ outcome' = [outcome EXCEPT ![e] = how]
  /\ task' = [task EXCEPT ![e] = IF @ = "waiting" THEN "idle" ELSE @]
  /\ acked' = IF task[e] = "waiting" /\ how = "resolved"
                THEN [acked EXCEPT ![e] = @ \cup {sent[e]}]
                ELSE acked

StopTimer(e) == [timers EXCEPT ![e] = @ \ {retransmissionTimer[e]}]

CloseInternal(e) ==
  /\ closed' = [closed EXCEPT ![e] = TRUE]
  /\ closeTimer' = [closeTimer EXCEPT ![e] = IF @ = "running" THEN "stopped" ELSE @]

-----------------------------------------------------------------------------
(* send() *)

\* The application of the responder starts with the first message; it sends one
\* message at a time, and none after close().
CanSend(e) ==
  /\ task[e] = "idle"
  /\ closeTimer[e] = "undefined"
  /\ sent[e] < MaxMessages[e]
  /\ e = Responder => delivered[e] # <<>>

\* The message takes along the ack that is due.
NextMessage(e) == [from |-> e, id |-> sent[e] + 1, acks |-> receivedMessageToAck[e]]

\* send() up to channel.send(): m becomes the message that has to be acked.
Prepare(e, m) ==
  /\ CanSend(e)
  /\ sentMessageToAck[e] = NoMessage
  /\ sent' = [sent EXCEPT ![e] = m.id]
  /\ receivedMessageToAck' = [receivedMessageToAck EXCEPT ![e] = None]
  /\ ackTimer' = [ackTimer EXCEPT ![e] = @ /\ m.acks = None]
  /\ sentMessageToAck' = [sentMessageToAck EXCEPT ![e] = m]
  /\ retransmissionTimer' = [retransmissionTimer EXCEPT ![e] = [message |-> m, count |-> 0]]
  /\ ackPromise' = [ackPromise EXCEPT ![e] = TRUE]
  /\ outcome' = [outcome EXCEPT ![e] = "pending"]
  /\ UNCHANGED <<timers, resending, closeVars, received, historyVars>>

Send(e) ==
  /\ Prepare(e, NextMessage(e))
  /\ Transmit(NextMessage(e))
  /\ task' = [task EXCEPT ![e] = "sending"]

\* channel.send() fails: send() throws and leaves a message to be acked that nobody
\* has received and no timer repeats.
SendFails(e) ==
  /\ Prepare(e, NextMessage(e))
  /\ UNCHANGED <<task, network>>

\* channel.send() has returned.  Whatever timer the field holds now is started,
\* also when the ack has arrived in the meantime.
ChannelSent(e) ==
  /\ task[e] = "sending"
  /\ timers' = [timers EXCEPT ![e] = @ \cup {retransmissionTimer[e]}]
  /\ task' = [task EXCEPT ![e] = IF outcome[e] = "pending" THEN "waiting" ELSE "idle"]
  /\ acked' = IF outcome[e] = "resolved" THEN [acked EXCEPT ![e] = @ \cup {sent[e]}] ELSE acked
  /\ UNCHANGED <<ackVars, sendVars, retransmissionTimer, resending, closeVars,
                 received, sent, network, delivered, gaveUp>>

-----------------------------------------------------------------------------
(* retransmitMessage() *)

Retransmit(e, t) ==
  /\ t \in timers[e]
  /\ t.count + 1 < MaxTransmissions
  /\ timers' = [timers EXCEPT ![e] = @ \ {t}]
  /\ resending' = [resending EXCEPT ![e] = @ \cup {[t EXCEPT !.count = @ + 1]}]
  /\ Transmit(t.message)
  /\ UNCHANGED <<ackVars, sendVars, retransmissionTimer, closeVars, task, received, sent, historyVars>>

\* Mutant: at the limit the promise of send() is not rejected.
RetransmissionLimit_Silent(e, t) ==
  /\ t \in timers[e]
  /\ t.count + 1 >= MaxTransmissions
  /\ timers' = [timers EXCEPT ![e] = @ \ {t}]
  /\ UNCHANGED <<ackVars, sendVars, retransmissionTimer, resending, closeVars, task,
                 received, sent, network, historyVars>>

\* The limit is reached: whichever send() is waiting now is rejected.
RetransmissionLimit(e, t) ==
  LET rejects == sentMessageToAck[e] # NoMessage /\ ackPromise[e]
  IN  /\ t \in timers[e]
      /\ t.count + 1 >= MaxTransmissions
      /\ IF rejects
           THEN /\ receivedMessageToAck' = [receivedMessageToAck EXCEPT ![e] = None]
                /\ ackPromise' = [ackPromise EXCEPT ![e] = FALSE]
                /\ Settle(e, "rejected")
           ELSE UNCHANGED <<receivedMessageToAck, ackPromise, outcome, task, acked>>
      /\ IF closeTimer[e] # "undefined"
           THEN /\ CloseInternal(e)
                /\ timers' = [timers EXCEPT ![e] = @ \ {t, retransmissionTimer[e]}]
           ELSE /\ timers' = [timers EXCEPT ![e] = @ \ {t}]
                /\ UNCHANGED closeVars
      /\ UNCHANGED <<ackTimer, sentMessageToAck, retransmissionTimer, resending,
                     received, sent, network, delivered, gaveUp>>

\* channel.send() of a retransmission has returned: the next timer is started.
Resent(e, t) ==
  /\ t \in resending[e]
  /\ resending' = [resending EXCEPT ![e] = @ \ {t}]
  /\ retransmissionTimer' = [retransmissionTimer EXCEPT ![e] = t]
  /\ timers' = [timers EXCEPT ![e] = @ \cup {t}]
  /\ UNCHANGED <<ackVars, sendVars, closeVars, task, received, sent, network, historyVars>>

\* It fails: nothing is tried again, and a lost connection closes the exchange.
RetransmitFails(e, t) ==
  /\ t \in timers[e]
  /\ t.count + 1 < MaxTransmissions
  /\ \/ timers' = [timers EXCEPT ![e] = @ \ {t}] /\ UNCHANGED closeVars
     \/ timers' = [timers EXCEPT ![e] = @ \ {t, retransmissionTimer[e]}] /\ CloseInternal(e)
  /\ gaveUp' = [gaveUp EXCEPT ![e] = TRUE]
  /\ UNCHANGED <<ackVars, sendVars, retransmissionTimer, resending, task, received, sent, network,
                 delivered, acked>>

-----------------------------------------------------------------------------
(* onMessageReceived() *)

Arrives(e, m) ==
  /\ m \in network
  /\ m.from = Other(e)
  /\ ~ closed[e]

\* Mutant: retransmissions are not recognised.
IsDuplicate_Never(e, m) == m.id = None /\ m.id \in received[e]

IsDuplicate(e, m) == m.id # None /\ m.id \in received[e]

NewMessage(e, m) == Arrives(e, m) /\ m.id # None /\ ~ IsDuplicate(e, m)

Register(e, m) == received' = [received EXCEPT ![e] = @ \cup {m.id}]

ReceiveDuplicate(e, m) ==
  /\ Arrives(e, m)
  /\ IsDuplicate(e, m)
  /\ network' = network \cup {StandaloneAck(e, m.id)}
  /\ UNCHANGED <<ackVars, sendVars, timerVars, closeVars, task, received, sent, historyVars>>

\* Mutant: any ack is taken for the ack of the last message.
AcksOurs_Any(e, m) == sentMessageToAck[e] # NoMessage /\ m.acks # None

AcksOurs(e, m) == sentMessageToAck[e] # NoMessage /\ m.acks = sentMessageToAck[e].id

\* The other end has received our message.
TakeAck(e, m) ==
  IF AcksOurs(e, m)
    THEN /\ timers' = StopTimer(e)
         /\ sentMessageToAck' = [sentMessageToAck EXCEPT ![e] = NoMessage]
         /\ ackPromise' = [ackPromise EXCEPT ![e] = FALSE]
         /\ IF ackPromise[e] THEN Settle(e, "resolved") ELSE UNCHANGED <<outcome, task, acked>>
    ELSE UNCHANGED <<timers, sentMessageToAck, ackPromise, outcome, task, acked>>

ReceiveAck(e, m) ==
  /\ Arrives(e, m)
  /\ m.id = None
  /\ TakeAck(e, m)
  /\ UNCHANGED <<ackVars, retransmissionTimer, resending, closeVars,
                 received, sent, network, delivered, gaveUp>>

\* A message that does not ack ours is refused with an error, but the session has
\* registered its number.
ReceiveUnacking(e, m) ==
  /\ NewMessage(e, m)
  /\ sentMessageToAck[e] # NoMessage
  /\ ~ AcksOurs(e, m)
  /\ Register(e, m)
  /\ UNCHANGED <<ackVars, sendVars, timerVars, closeVars, task, sent, network, historyVars>>

Accepts(e, m) == NewMessage(e, m) /\ (sentMessageToAck[e] = NoMessage \/ AcksOurs(e, m))

\* While an earlier message waits for its ack, that one is acked and the new one
\* is not put into the queue.
ReceiveBlocked(e, m) ==
  /\ Accepts(e, m)
  /\ receivedMessageToAck[e] # None
  /\ Register(e, m)
  /\ TakeAck(e, m)
  /\ ackTimer' = [ackTimer EXCEPT ![e] = FALSE]
  /\ network' = network \cup {StandaloneAck(e, receivedMessageToAck[e])}
  /\ UNCHANGED <<receivedMessageToAck, retransmissionTimer, resending, closeVars,
                 sent, delivered, gaveUp>>

ReceiveMessage(e, m) ==
  /\ Accepts(e, m)
  /\ receivedMessageToAck[e] = None
  /\ Register(e, m)
  /\ TakeAck(e, m)
  /\ receivedMessageToAck' = [receivedMessageToAck EXCEPT ![e] = m.id]
  /\ ackTimer' = [ackTimer EXCEPT ![e] = TRUE]
  /\ delivered' = [delivered EXCEPT ![e] = Append(@, m.id)]
  /\ UNCHANGED <<retransmissionTimer, resending, closeVars, sent, network, gaveUp>>

\* A message for an exchange that is gone is acked by a short-lived exchange of the
\* exchange manager.  A further new message of the initiator opens another exchange
\* of the protocol handler instead, of which only the ack is modelled here.
ReceiveUnsolicited(e, m) ==
  /\ m \in network
  /\ m.from = Other(e)
  /\ m.id # None
  /\ closed[e]
  /\ Register(e, m)
  /\ network' = network \cup {StandaloneAck(e, m.id)}
  /\ UNCHANGED <<ackVars, sendVars, timerVars, closeVars, task, sent, historyVars>>

-----------------------------------------------------------------------------
(* Timers and the end of the exchange *)

\* A standalone ack for what is still to be acked, if anything is.
Flush(e) ==
  /\ receivedMessageToAck' = [receivedMessageToAck EXCEPT ![e] = None]
  /\ network' = IF receivedMessageToAck[e] = None
                  THEN network
                  ELSE network \cup {StandaloneAck(e, receivedMessageToAck[e])}

AckTimerFires(e) ==
  /\ ackTimer[e]
  /\ ackTimer' = [ackTimer EXCEPT ![e] = FALSE]
  /\ Flush(e)
  /\ UNCHANGED <<sendVars, timerVars, closeVars, task, received, sent, historyVars>>

\* The application is done with the exchange.
Close(e) ==
  /\ task[e] = "idle"
  /\ e = Responder => delivered[e] # <<>>
  /\ closeTimer[e] = "undefined"
  /\ closeTimer' = [closeTimer EXCEPT ![e] = "running"]
  /\ Flush(e)
  /\ ackTimer' = [ackTimer EXCEPT ![e] = @ /\ receivedMessageToAck[e] = None]
  /\ UNCHANGED <<sendVars, timerVars, closed, task, received, sent, historyVars>>

CloseTimerFires(e) ==
  /\ closeTimer[e] = "running"
  /\ CloseInternal(e)
  /\ timers' = StopTimer(e)
  /\ UNCHANGED <<ackVars, sendVars, retransmissionTimer, resending, task, received, sent, network, historyVars>>

\* The session ends or the node shuts down.
Destroy(e) ==
  /\ ~ closed[e]
  /\ e = Responder => received[e] # {}
  /\ IF closeTimer[e] = "undefined"
       THEN /\ Flush(e)
            /\ ackTimer' = [ackTimer EXCEPT ![e] = @ /\ receivedMessageToAck[e] = None]
       ELSE UNCHANGED <<ackVars, network>>
  /\ CloseInternal(e)
  /\ timers' = StopTimer(e)
  /\ UNCHANGED <<sendVars, retransmissionTimer, resending, task, received, sent, historyVars>>

-----------------------------------------------------------------------------

Receive(e, m) ==
  \/ ReceiveDuplicate(e, m)
  \/ ReceiveAck(e, m)
  \/ ReceiveUnacking(e, m)
  \/ ReceiveBlocked(e, m)
  \/ ReceiveMessage(e, m)
  \/ ReceiveUnsolicited(e, m)

TimerFires(e, t) ==
  \/ Retransmit(e, t)
  \/ RetransmitFails(e, t)
  \/ RetransmissionLimit(e, t)

Next ==
  \E e \in End :
    \/ Send(e)
    \/ SendFails(e)
    \/ ChannelSent(e)
    \/ \E t \in timers[e] : TimerFires(e, t)
    \/ \E t \in resending[e] : Resent(e, t)
    \/ \E m \in network : Receive(e, m)
    \/ AckTimerFires(e)
    \/ Close(e)
    \/ CloseTimerFires(e)
    \/ Destroy(e)

Spec == Init /\ [][Next]_vars

\* Timers fire and channel.send() returns.  Nothing is assumed about the network.
Fairness ==
  \A e \in End :
    /\ WF_vars(ChannelSent(e))
    /\ WF_vars(\E t \in timers[e] : TimerFires(e, t))
    /\ WF_vars(\E t \in resending[e] : Resent(e, t))
    /\ WF_vars(AckTimerFires(e))
    /\ WF_vars(CloseTimerFires(e))

FairSpec == Spec /\ Fairness

-----------------------------------------------------------------------------
(* Properties *)

\* A send() that returns normally was really received by the other end, whatever
\* stale timers, late acks and earlier messages of the exchange are around.
AckedWasReceived == \A e \in End : acked[e] \subseteq received[Other(e)]

\* No message is put into a queue twice, and never out of the order it was sent in.
DeliveredInOrder ==
  \A e \in End : \A i, j \in DOMAIN delivered[e] : i < j => delivered[e][i] < delivered[e][j]

\* What the protocol is for: a message whose send() returned normally has reached
\* the application of the other end, unless that end has closed the exchange.
AckedIsDelivered ==
  \A e \in End : \A id \in acked[e] :
    \/ closed[Other(e)]
    \/ \E i \in DOMAIN delivered[Other(e)] : delivered[Other(e)][i] = id

\* Every send() ends as long as its exchange is neither closed under it nor fails
\* to send a retransmission.
SendSettlesUnlessStopped ==
  \A e \in End : task[e] # "idle" ~> (task[e] = "idle" \/ closed[e] \/ gaveUp[e])

=============================================================================
