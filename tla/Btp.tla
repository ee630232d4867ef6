--------------------------------- MODULE Btp ---------------------------------
(***************************************************************************)
(* The Bluetooth transport protocol between its two ends, each a           *)
(* BtpSessionHandler (packages/matter.js/src/ble/BtpSessionHandler.ts).    *)
(* sendMatterMessage() queues a message, processSendQueue() cuts it into   *)
(* segments and writes them one at a time while the window allows, and     *)
(* handleIncomingBleData() puts them together again.  Packets in one       *)
(* direction are numbered modulo MaxSequenceNumber + 1; acks travel on     *)
(* segments or, when a timer fires, on packets of their own.               *)
(*                                                                         *)
(* Bluetooth delivers the packets of a connection in order and without     *)
(* loss.  A packet is on its way as soon as writeBleCallback() is called;  *)
(* the promise it returns is settled later.  The peripheral keeps one      *)
(* resolver only (BlenoBleServer.ts), so a second write makes it forget    *)
(* the first.  One step is one run of JavaScript up to such an await.      *)
(*                                                                         *)
(* The handshake is over in the initial state.  A peripheral answers: its  *)
(* application sends nothing before it has received a message.             *)
(***************************************************************************)
EXTENDS Integers, Sequences, FiniteSets

CONSTANTS
  Central, Peripheral,
  MaxSequenceNumber,   \* MAXIMUM_SEQUENCE_NUMBER, 255 in the code
  WindowSize,          \* clientWindowSize, agreed on in the handshake
  FragmentSize,        \* fragmentSize, agreed on in the handshake
  Outgoing             \* bound: lengths of the messages each end sends, in order

End == {Central, Peripheral}

ASSUME BtpAssumption ==
  /\ Central # Peripheral
  /\ MaxSequenceNumber \in Nat /\ WindowSize \in 1 .. MaxSequenceNumber
  /\ FragmentSize \in Nat /\ FragmentSize > 5
  /\ Outgoing \in [End -> Seq(Nat \ {0})]

VARIABLES
  \* fields of the BtpSessionHandler at each end
  isActive,
  prevIncomingSequenceNumber,
  prevIncomingAckNumber,
  sequenceNumber,
  prevAckedSequenceNumber,
  ackReceiveTimer,             \* is running
  sendAckTimer,                \* is running
  queuedOutgoingMatterMessages,\* each with its data and how much of it was read
  sendInProgress,
  currentIncoming,             \* currentIncomingSegmentedPayload and ...MsgLength
  \* promises of writeBleCallback() that are awaited at each end
  segmentWrite,                \* by processSendQueue(): none, segment or ending
  ackWrite,                    \* by btpSendAckTimeoutTriggered()
  \* the connection
  link,                        \* packets on their way to each end
  \* history
  accepted,                    \* messages sendMatterMessage() has queued
  delivered,                   \* messages given to handleMatterMessagePayload()
  wrapped,                     \* a sequence number has returned to 0
  windowFilled,                \* an end has used up its window
  confirmationLost,            \* the end waits for a promise nobody will settle
  refused                      \* the end has closed because of a packet or a timeout

fieldVars == <<isActive, prevIncomingSequenceNumber, prevIncomingAckNumber>>
ackVars   == <<prevAckedSequenceNumber, sequenceNumber, wrapped, windowFilled>>
timerVars == <<ackReceiveTimer, sendAckTimer>>
sendVars  == <<queuedOutgoingMatterMessages, sendInProgress, segmentWrite, ackWrite>>
history   == <<accepted, delivered, confirmationLost, refused>>
vars == <<fieldVars, ackVars, timerVars, sendVars, currentIncoming, link, history>>

Other(e) == IF e = Central THEN Peripheral ELSE Central

\* The data of the n-th message of an end.  A byte is known by its message and its place.
MessageData(e, n) == [i \in 1 .. Outgoing[e][n] |-> <<n, i>>]
Messages(e) == {MessageData(e, n) : n \in DOMAIN Outgoing[e]}

NoNumber  == -1     \* the value undefined of an ackNumber or a messageLength
NoMessage == [length |-> NoNumber, payload |-> <<>>]

SequenceNumbers == 0 .. MaxSequenceNumber

Packets(e) ==
  [sequenceNumber : SequenceNumbers, ackNumber : {NoNumber} \cup SequenceNumbers,
   isBeginningSegment : BOOLEAN, isEndingSegment : BOOLEAN,
   messageLength : {NoNumber} \cup {Outgoing[e][n] : n \in DOMAIN Outgoing[e]},
   segmentPayload : Seq((DOMAIN Outgoing[e]) \X Nat)]

\* Types of the fields; what an end is putting together is part of a message of the peer.
TypeOK ==
  /\ \A f \in {isActive, ackReceiveTimer, sendAckTimer, sendInProgress, ackWrite,
               windowFilled, confirmationLost, refused} : f \in [End -> BOOLEAN]
  /\ \A e \in End :
       /\ prevIncomingSequenceNumber[e] \in SequenceNumbers
       /\ prevIncomingAckNumber[e] \in {-1} \cup SequenceNumbers
       /\ sequenceNumber[e] \in {-1} \cup SequenceNumbers
       /\ prevAckedSequenceNumber[e] \in {-1} \cup SequenceNumbers
       /\ \A i \in DOMAIN queuedOutgoingMatterMessages[e] :
            LET m == queuedOutgoingMatterMessages[e][i]
            IN  m.data \in Messages(e) /\ m.read \in 0 .. Len(m.data)
       /\ segmentWrite[e] \in {"none", "segment", "ending"}
       /\ \/ currentIncoming[e] = NoMessage
          \/ \E m \in Messages(Other(e)) :
               /\ currentIncoming[e].length = Len(m)
               /\ \E k \in 1 .. Len(m) : currentIncoming[e].payload = SubSeq(m, 1, k)
       /\ \A i \in DOMAIN link[e] : link[e][i] \in Packets(Other(e))
  /\ wrapped \in BOOLEAN

Init ==
  /\ isActive = [e \in End |-> TRUE]
  /\ prevIncomingSequenceNumber = [e \in End |-> IF e = Peripheral THEN MaxSequenceNumber ELSE 0]
  /\ prevIncomingAckNumber = [e \in End |-> -1]
  /\ sequenceNumber = [e \in End |-> IF e = Peripheral THEN 0 ELSE -1]
  /\ prevAckedSequenceNumber = [e \in End |-> -1]
  /\ ackReceiveTimer = [e \in End |-> e = Peripheral]
  /\ sendAckTimer = [e \in End |-> e = Central]
  /\ queuedOutgoingMatterMessages = [e \in End |-> <<>>]
  /\ sendInProgress = [e \in End |-> FALSE]
  /\ segmentWrite = [e \in End |-> "none"]
  /\ ackWrite = [e \in End |-> FALSE]
  /\ currentIncoming = [e \in End |-> NoMessage]
  /\ link = [e \in End |-> <<>>]
  /\ accepted = [e \in End |-> <<>>]
  /\ delivered = [e \in End |-> <<>>]
  /\ wrapped = FALSE
  /\ windowFilled = [e \in End |-> FALSE]
  /\ confirmationLost = [e \in End |-> FALSE]
  /\ refused = [e \in End |-> FALSE]

-----------------------------------------------------------------------------
(* Sequence numbers *)

\* The code's arithmetic, which is not that of a circle of MaxSequenceNumber + 1 numbers.
ExceedsWindowSize_OffByOne(prevIncomingAck, current) ==
  current - prevIncomingAck > WindowSize
ExceedsWindowSize(prevIncomingAck, current) ==
  LET prev == IF prevIncomingAck > current
                THEN (prevIncomingAck % MaxSequenceNumber) - 1
                ELSE prevIncomingAck
  IN  current - prev > WindowSize - 1

WindowFull(e) == ExceedsWindowSize(prevIncomingAckNumber[e], sequenceNumber[e])

NextSequenceNumber(e) ==
  IF sequenceNumber[e] + 1 > MaxSequenceNumber THEN 0 ELSE sequenceNumber[e] + 1

\* A packet with the next number; acks is what it acknowledges, or NoNumber.
Number(e, acks) ==
  /\ sequenceNumber' = [sequenceNumber EXCEPT ![e] = NextSequenceNumber(e)]
  /\ wrapped' = (wrapped \/ (sequenceNumber[e] = MaxSequenceNumber))
  /\ windowFilled' =
       [windowFilled EXCEPT ![e] = @ \/ ExceedsWindowSize(prevIncomingAckNumber[e], NextSequenceNumber(e))]
  /\ prevAckedSequenceNumber' =
       [prevAckedSequenceNumber EXCEPT ![e] = IF acks = NoNumber THEN @ ELSE acks]

\* writeBleCallback(): what is sent to a closed end goes nowhere.
Write(e, packet) ==
  link' = IF isActive[Other(e)]
            THEN [link EXCEPT ![Other(e)] = Append(@, packet)]
            ELSE link

-----------------------------------------------------------------------------
(* Sending *)

Begins(m) == m.read = 0

\* Bytes of a message that fit into a packet next to the header.
Capacity(m, hasAck) ==
  FragmentSize - (2 + (IF Begins(m) THEN 2 ELSE 0) + (IF hasAck THEN 1 ELSE 0))

\* The loop of processSendQueue() up to its await, for a queue that is not empty.
WriteSegment(e, queue) ==
  LET m       == Head(queue)
      hasAck  == prevIncomingSequenceNumber[e] # prevAckedSequenceNumber[e]
      acks    == IF hasAck THEN prevIncomingSequenceNumber[e] ELSE NoNumber
      room    == Capacity(m, hasAck)
      ending  == Len(m.data) - m.read <= room
      upTo    == IF ending THEN Len(m.data) ELSE m.read + room
  IN  /\ Write(e, [sequenceNumber     |-> NextSequenceNumber(e),
                   ackNumber          |-> acks,
                   isBeginningSegment |-> Begins(m),
                   isEndingSegment    |-> ending,
                   messageLength      |-> IF Begins(m) THEN Len(m.data) ELSE NoNumber,
                   segmentPayload     |-> SubSeq(m.data, m.read + 1, upTo)])
      /\ Number(e, acks)
      /\ sendAckTimer' = [sendAckTimer EXCEPT ![e] = @ /\ ~hasAck]
      /\ queuedOutgoingMatterMessages' =
           [queuedOutgoingMatterMessages EXCEPT ![e] = <<[m EXCEPT !.read = upTo]>> \o Tail(queue)]
      /\ sendInProgress' = [sendInProgress EXCEPT ![e] = TRUE]
      /\ segmentWrite' = [segmentWrite EXCEPT ![e] = IF ending THEN "ending" ELSE "segment"]
      /\ ackWrite' = IF e = Peripheral THEN [ackWrite EXCEPT ![e] = FALSE] ELSE ackWrite

\* processSendQueue() returns, or leaves its loop: the queue waits.
LeaveQueue_Busy(e, queue, inProgress) ==
  /\ queuedOutgoingMatterMessages' = [queuedOutgoingMatterMessages EXCEPT ![e] = queue]
  /\ UNCHANGED <<sendInProgress, ackVars, sendAckTimer, ackWrite, link>>
LeaveQueue(e, queue, inProgress) ==
  /\ queuedOutgoingMatterMessages' = [queuedOutgoingMatterMessages EXCEPT ![e] = queue]
  /\ sendInProgress' = [sendInProgress EXCEPT ![e] = inProgress]
  /\ UNCHANGED <<ackVars, sendAckTimer, ackWrite, link>>

CanSend(e) ==
  /\ isActive[e]
  /\ Len(accepted[e]) < Len(Outgoing[e])
  /\ e = Peripheral => delivered[e] # <<>>

SendMatterMessage(e) ==
  LET data  == MessageData(e, Len(accepted[e]) + 1)
      queue == Append(queuedOutgoingMatterMessages[e], [data |-> data, read |-> 0])
  IN  /\ CanSend(e)
      /\ accepted' = [accepted EXCEPT ![e] = Append(@, data)]
      /\ \/ /\ ~sendInProgress[e] /\ ~WindowFull(e)
            /\ WriteSegment(e, queue)
         \/ /\ sendInProgress[e] \/ WindowFull(e)
            /\ LeaveQueue(e, queue, sendInProgress[e])
            /\ UNCHANGED segmentWrite
      /\ UNCHANGED <<fieldVars, ackReceiveTimer, currentIncoming, delivered,
                     confirmationLost, refused>>

\* The condition of the loop and the break at its end.
GoesOn(e, queue) == queue # <<>> /\ ~WindowFull(e)

\* The promise of a segment is settled: the loop goes on, even if the end is closed by now.
SegmentWritten(e) ==
  LET queue == IF segmentWrite[e] = "ending"
                 THEN Tail(queuedOutgoingMatterMessages[e])
                 ELSE queuedOutgoingMatterMessages[e]
  IN  /\ segmentWrite[e] # "none"
      /\ ackReceiveTimer' = [ackReceiveTimer EXCEPT ![e] = TRUE]
      /\ \/ /\ GoesOn(e, queue)
            /\ WriteSegment(e, queue)
         \/ /\ ~GoesOn(e, queue)
            /\ LeaveQueue(e, queue, FALSE)
            /\ segmentWrite' = [segmentWrite EXCEPT ![e] = "none"]
      /\ UNCHANGED <<fieldVars, currentIncoming, accepted, delivered, confirmationLost, refused>>

-----------------------------------------------------------------------------
(* Closing *)

\* close(); the transport is disconnected with what was on its way to this end.
CloseEnd(e) ==
  /\ isActive' = [isActive EXCEPT ![e] = FALSE]
  /\ link' = [link EXCEPT ![e] = <<>>]

\* The transport is disconnected, by the peer or by itself, or the channel is closed.
Close(e) ==
  /\ isActive[e]
  /\ CloseEnd(e)
  /\ ackReceiveTimer' = [ackReceiveTimer EXCEPT ![e] = FALSE]
  /\ sendAckTimer' = [sendAckTimer EXCEPT ![e] = FALSE]
  /\ UNCHANGED <<prevIncomingSequenceNumber, prevIncomingAckNumber, ackVars, sendVars,
                 currentIncoming, history>>

-----------------------------------------------------------------------------
(* handleIncomingBleData *)

ValidSequence(e, p) ==
  p.sequenceNumber = (prevIncomingSequenceNumber[e] + 1) % (MaxSequenceNumber + 1)

ValidAck(e, p) ==
  \/ p.ackNumber = NoNumber
  \/ /\ p.ackNumber <= sequenceNumber[e]
     /\ ~ExceedsWindowSize(prevIncomingAckNumber[e], p.ackNumber)

IsSegment(p) == p.segmentPayload # <<>>

\* A packet is a segment or an ack.
HasContent(p) == IsSegment(p) \/ p.ackNumber # NoNumber

ValidSegment(e, p) ==
  IsSegment(p) => (p.isBeginningSegment <=> currentIncoming[e].payload = <<>>)

\* The message is handed over with its ending segment.
Completes_Early(p) == IsSegment(p)
Completes(p) == p.isEndingSegment

\* What the end has put together with the packet.
Assembled(e, p) ==
  IF p.isBeginningSegment
    THEN [length |-> p.messageLength, payload |-> p.segmentPayload]
    ELSE [currentIncoming[e] EXCEPT !.payload = @ \o p.segmentPayload]

ValidLength(e, p) ==
  p.isEndingSegment => Len(Assembled(e, p).payload) = Assembled(e, p).length

Valid(e, p) ==
  /\ HasContent(p)
  /\ ValidSequence(e, p)
  /\ ValidAck(e, p)
  /\ ValidSegment(e, p)
  /\ ValidLength(e, p)

HandleIncomingBleData(e) ==
  LET p == Head(link[e])
  IN  /\ isActive[e]
      /\ link[e] # <<>>
      /\ Valid(e, p)
      /\ link' = [link EXCEPT ![e] = Tail(@)]
      /\ prevIncomingSequenceNumber' = [prevIncomingSequenceNumber EXCEPT ![e] = p.sequenceNumber]
      /\ sendAckTimer' = [sendAckTimer EXCEPT ![e] = TRUE]
      /\ \/ /\ p.ackNumber = NoNumber
            /\ UNCHANGED <<prevIncomingAckNumber, ackReceiveTimer>>
         \/ /\ p.ackNumber # NoNumber
            /\ prevIncomingAckNumber' = [prevIncomingAckNumber EXCEPT ![e] = p.ackNumber]
            /\ ackReceiveTimer' = [ackReceiveTimer EXCEPT ![e] = p.ackNumber # sequenceNumber[e]]
      /\ \/ /\ Completes(p)
            /\ delivered' = [delivered EXCEPT ![e] = Append(@, Assembled(e, p).payload)]
            /\ currentIncoming' = [currentIncoming EXCEPT ![e] = NoMessage]
         \/ /\ ~Completes(p)
            /\ currentIncoming' = [currentIncoming EXCEPT ![e] = Assembled(e, p)]
            /\ UNCHANGED delivered
      /\ UNCHANGED <<isActive, ackVars, sendVars, accepted, confirmationLost, refused>>

\* A BtpProtocolError is thrown: the session is closed.  The fields that were set
\* before the error are not read any more.
RefusePacket(e) ==
  /\ isActive[e]
  /\ link[e] # <<>>
  /\ ~Valid(e, Head(link[e]))
  /\ CloseEnd(e)
  /\ ackReceiveTimer' = [ackReceiveTimer EXCEPT ![e] = FALSE]
  /\ sendAckTimer' = [sendAckTimer EXCEPT ![e] = FALSE]
  /\ refused' = [refused EXCEPT ![e] = TRUE]
  /\ UNCHANGED <<prevIncomingSequenceNumber, prevIncomingAckNumber, ackVars, sendVars,
                 currentIncoming, accepted, delivered, confirmationLost>>

-----------------------------------------------------------------------------
(* Timers *)

AckIsDue_OffByOne(e) == prevIncomingSequenceNumber[e] > prevAckedSequenceNumber[e] + 1
AckIsDue(e) == prevIncomingSequenceNumber[e] > prevAckedSequenceNumber[e]

\* btpSendAckTimeoutTriggered() writes a packet that holds only an ack.  It does not
\* look at the window.  At the peripheral its write replaces the resolver of a segment.
SendAck(e) ==
  LET acks == prevIncomingSequenceNumber[e]
  IN  /\ AckIsDue(e)
      /\ Number(e, acks)
      /\ Write(e, [sequenceNumber |-> NextSequenceNumber(e), ackNumber |-> acks,
                   isBeginningSegment |-> FALSE, isEndingSegment |-> FALSE,
                   messageLength |-> NoNumber, segmentPayload |-> <<>>])
      /\ ackWrite' = [ackWrite EXCEPT ![e] = TRUE]
      /\ IF e = Peripheral /\ segmentWrite[e] # "none"
           THEN /\ segmentWrite' = [segmentWrite EXCEPT ![e] = "none"]
                /\ confirmationLost' = [confirmationLost EXCEPT ![e] = TRUE]
           ELSE UNCHANGED <<segmentWrite, confirmationLost>>

SendAckTimeout(e) ==
  /\ sendAckTimer[e] /\ ~ackWrite[e]
  /\ sendAckTimer' = [sendAckTimer EXCEPT ![e] = FALSE]
  /\ \/ SendAck(e)
     \/ /\ ~AckIsDue(e)
        /\ UNCHANGED <<ackVars, link, ackWrite, segmentWrite, confirmationLost>>
  /\ UNCHANGED <<fieldVars, ackReceiveTimer, queuedOutgoingMatterMessages, sendInProgress,
                 currentIncoming, accepted, delivered, refused>>

AckWritten(e) ==
  /\ ackWrite[e]
  /\ ackWrite' = [ackWrite EXCEPT ![e] = FALSE]
  /\ ackReceiveTimer' = [ackReceiveTimer EXCEPT ![e] = TRUE]
  /\ UNCHANGED <<fieldVars, ackVars, sendAckTimer, queuedOutgoingMatterMessages,
                 sendInProgress, segmentWrite, currentIncoming, link, history>>

\* The ack timer runs three times as long as the peer's timer for sending one: it does
\* not fire while the connected peer still has to ack or the ack is on its way.
AckStillComing(e) ==
  /\ isActive[e] /\ isActive[Other(e)]
  /\ link[e] # <<>> \/ link[Other(e)] # <<>> \/ sendAckTimer[Other(e)]

\* btpAckTimeoutTriggered()
AckTimeout(e) ==
  /\ ackReceiveTimer[e]
  /\ ~AckStillComing(e)
  /\ LET fails == isActive[e] /\ prevIncomingAckNumber[e] # sequenceNumber[e]
     IN  /\ ackReceiveTimer' = [ackReceiveTimer EXCEPT ![e] = FALSE]
         /\ refused' = [refused EXCEPT ![e] = @ \/ (fails /\ isActive[Other(e)])]
         /\ IF fails
              THEN CloseEnd(e) /\ sendAckTimer' = [sendAckTimer EXCEPT ![e] = FALSE]
              ELSE UNCHANGED <<isActive, link, sendAckTimer>>
  /\ UNCHANGED <<prevIncomingSequenceNumber, prevIncomingAckNumber, ackVars, sendVars,
                 currentIncoming, accepted, delivered, confirmationLost>>

-----------------------------------------------------------------------------

Next ==
  \E e \in End :
    \/ SendMatterMessage(e)
    \/ SegmentWritten(e)
    \/ HandleIncomingBleData(e)
    \/ RefusePacket(e)
    \/ SendAckTimeout(e)
    \/ AckWritten(e)
    \/ AckTimeout(e)
    \/ Close(e)

Spec == Init /\ [][Next]_vars

\* Promises of a connected transport are settled and its packets arrive.  Nothing is
\* assumed of the applications, of the timers or of the connection's life.
Fairness ==
  \A e \in End :
    /\ WF_vars(SegmentWritten(e))
    /\ WF_vars(AckWritten(e))
    /\ WF_vars(HandleIncomingBleData(e))
    /\ WF_vars(RefusePacket(e))

FairSpec == Spec /\ Fairness

-----------------------------------------------------------------------------
(* Properties *)

ToPeripheral ==
  INSTANCE FifoChannel WITH
    Message <- Messages(Central), accepted <- accepted[Central], delivered <- delivered[Peripheral],
    senderOpen <- isActive[Central], receiverOpen <- isActive[Peripheral]

ToCentral ==
  INSTANCE FifoChannel WITH
    Message <- Messages(Peripheral), accepted <- accepted[Peripheral], delivered <- delivered[Central],
    senderOpen <- isActive[Peripheral], receiverOpen <- isActive[Central]

\* The protocol implements a fifo channel in each direction: however segments, acks, timers
\* and a disconnect interleave, only whole messages come out, in order, and none after close().
ImplementsFifo == ToPeripheral!Spec /\ ToCentral!Spec

\* Two ends that run this code close on each other only after a sequence number has
\* returned to 0 or a window was used up: the checks of handleIncomingBleData() are right
\* up to there, and the timers never close a connected session whose acks arrive.
RefusedOnlyAtLimits ==
  \A e \in End : refused[e] => wrapped \/ \E f \in End : windowFilled[f]

\* processSendQueue() never has more segments on their way than the window allows, until
\* a sequence number returns to 0 (standalone acks are not counted: they ignore the window).
WindowRespected ==
  ~wrapped => \A e \in End :
    Cardinality({i \in DOMAIN link[e] : IsSegment(link[e][i])}) <= WindowSize

\* A queued message that nobody is sending: the queue has stopped at a used up window.
Stalled(e) == queuedOutgoingMatterMessages[e] # <<>> /\ ~sendInProgress[e]

\* A message that was queued is delivered, unless an end is closed, the queue stalls on
\* the window, or the peripheral's send loop waits for a promise it has forgotten.
QueuedIsDelivered ==
  \A e \in End : \A n \in DOMAIN Outgoing[e] :
    Len(accepted[e]) >= n ~>
      \/ Len(delivered[Other(e)]) >= n
      \/ ~isActive[e] \/ ~isActive[Other(e)]
      \/ (Stalled(e) /\ (wrapped \/ windowFilled[e])) \/ confirmationLost[e]
=============================================================================
