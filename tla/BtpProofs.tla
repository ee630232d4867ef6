------------------------------ MODULE BtpProofs ------------------------------
(***************************************************************************)
(* Proofs about Btp, for every window, fragment size and sequence of       *)
(* messages.  The invariant has three layers.  Content: what was handed    *)
(* over, what is being put together, what is under way and what is queued  *)
(* make up the messages taken; the refinement of FifoChannel needs no      *)
(* more.  Numbers: until a number returns to 0, sequence numbers and acks  *)
(* are in the order of the packets under way.  Slack: until a window is    *)
(* used up, every packet under way is one the receiver calls valid.        *)
(***************************************************************************)
EXTENDS Btp, SequenceTheorems, FiniteSetTheorems, TLAPS

Byte == Nat \X Nat

AnyPacket ==
  [sequenceNumber : SequenceNumbers, ackNumber : {NoNumber} \cup SequenceNumbers,
   isBeginningSegment : BOOLEAN, isEndingSegment : BOOLEAN,
   messageLength : {NoNumber} \cup Nat, segmentPayload : Seq(Byte)]

Item == [data : Seq(Byte), read : Nat]

(* The domains of the fields, and how they relate to the messages of an end. *)
Shapes ==
  /\ isActive \in [End -> BOOLEAN]
  /\ ackReceiveTimer \in [End -> BOOLEAN]
  /\ sendAckTimer \in [End -> BOOLEAN]
  /\ sendInProgress \in [End -> BOOLEAN]
  /\ ackWrite \in [End -> BOOLEAN]
  /\ windowFilled \in [End -> BOOLEAN]
  /\ confirmationLost \in [End -> BOOLEAN]
  /\ refused \in [End -> BOOLEAN]
  /\ prevIncomingSequenceNumber \in [End -> SequenceNumbers]
  /\ prevIncomingAckNumber \in [End -> {-1} \cup SequenceNumbers]
  /\ sequenceNumber \in [End -> {-1} \cup SequenceNumbers]
  /\ prevAckedSequenceNumber \in [End -> {-1} \cup SequenceNumbers]
  /\ queuedOutgoingMatterMessages \in [End -> Seq(Item)]
  /\ segmentWrite \in [End -> {"none", "segment", "ending"}]
  /\ currentIncoming \in [End -> [length : {NoNumber} \cup Nat, payload : Seq(Byte)]]
  /\ link \in [End -> Seq(AnyPacket)]
  /\ accepted \in [End -> Seq(Seq(Byte))]
  /\ delivered \in [End -> Seq(Seq(Byte))]
  /\ wrapped \in BOOLEAN

-----------------------------------------------------------------------------
(* Content *)

(* A place in the stream of an end: a message, and how many of its bytes. *)
Position == [message : Nat, offset : Nat]

(* The place behind the first upTo bytes of a message. *)
After(e, n, upTo) ==
  IF upTo = Outgoing[e][n] THEN [message |-> n + 1, offset |-> 0]
                           ELSE [message |-> n, offset |-> upTo]

(* The packet takes the stream of e from a to b: it is an ack on its own, or *)
(* the next bytes of a message, marked as processSendQueue() marks them.     *)
Carries(e, p, a, b) ==
  \/ /\ p.segmentPayload = <<>> /\ ~p.isBeginningSegment /\ ~p.isEndingSegment
     /\ p.messageLength = NoNumber /\ p.ackNumber # NoNumber
     /\ b = a
  \/ /\ a.message \in DOMAIN Outgoing[e]
     /\ \E upTo \in (a.offset + 1) .. Outgoing[e][a.message] :
          /\ p.segmentPayload = SubSeq(MessageData(e, a.message), a.offset + 1, upTo)
          /\ p.isBeginningSegment <=> a.offset = 0
          /\ p.isEndingSegment <=> upTo = Outgoing[e][a.message]
          /\ p.messageLength = IF a.offset = 0 THEN Outgoing[e][a.message] ELSE NoNumber
          /\ b = After(e, a.message, upTo)

(* The packets one after the other take the stream from a to b. *)
Stream(e, s, a, b) ==
  \E pos \in [0 .. Len(s) -> Position] :
    /\ pos[0] = a
    /\ pos[Len(s)] = b
    /\ \A i \in 0 .. Len(s) : pos[i].message <= b.message
    /\ \A i \in 1 .. Len(s) : Carries(e, s[i], pos[i - 1], pos[i])

(* The queue q of an end that has taken n messages: the last ones, the first *)
(* of them perhaps read in part.                                             *)
Queued(e, n, q) ==
  /\ q \in Seq(Item)
  /\ Len(q) <= n /\ n <= Len(Outgoing[e])
  /\ \A i \in 1 .. Len(q) :
       /\ q[i].data = MessageData(e, n - Len(q) + i)
       /\ q[i].read \in 0 .. Outgoing[e][n - Len(q) + i]
       /\ i > 1 => q[i].read = 0

HeadRead(q) == q # <<>> /\ q[1].read = Len(q[1].data)

(* How far the sender has come. *)
Reached(e, n, q) ==
  IF q = <<>> THEN [message |-> n + 1, offset |-> 0]
              ELSE After(e, n - Len(q) + 1, q[1].read)

(* What processSendQueue() knows across its await. *)
Sender(e) ==
  /\ Queued(e, Len(accepted[e]), queuedOutgoingMatterMessages[e])
  /\ \A n \in 1 .. Len(accepted[e]) : accepted[e][n] = MessageData(e, n)
  /\ segmentWrite[e] # "none" =>
       queuedOutgoingMatterMessages[e] # <<>> /\ sendInProgress[e] /\ ~confirmationLost[e]
  /\ confirmationLost[e] => sendInProgress[e]
  /\ queuedOutgoingMatterMessages[e] # <<>> /\ ~confirmationLost[e] =>
       (HeadRead(queuedOutgoingMatterMessages[e]) <=> segmentWrite[e] = "ending")

(* How far the receiver has come, and the part of a message it keeps. *)
Place(f) == [message |-> Len(delivered[f]) + 1, offset |-> Len(currentIncoming[f].payload)]

Assembling(f) ==
  \/ currentIncoming[f] = NoMessage
  \/ LET e == Other(f)
         n == Len(delivered[f]) + 1
     IN  /\ n \in DOMAIN Outgoing[e]
         /\ \E o \in 1 .. Outgoing[e][n] - 1 :
              currentIncoming[f] = [length  |-> Outgoing[e][n],
                                    payload |-> SubSeq(MessageData(e, n), 1, o)]

Flow(e) ==
  LET f == Other(e)
  IN  IF isActive[f]
        THEN Stream(e, link[f], Place(f),
                    Reached(e, Len(accepted[e]), queuedOutgoingMatterMessages[e]))
        ELSE link[f] = <<>>

ContentInv ==
  /\ Shapes
  /\ \A e \in End : Sender(e) /\ Assembling(e) /\ Flow(e)

-----------------------------------------------------------------------------
(* Numbers *)

(* An end that has nothing to send. *)
Quiet(f) ==
  /\ delivered[f] = <<>> /\ queuedOutgoingMatterMessages[f] = <<>>
  /\ segmentWrite[f] = "none" /\ ~sendAckTimer[f]

(* The peripheral before its first packet: its fields are set so that 0 comes *)
(* next, and it must not ack.                                                 *)
Nothing(f) ==
  /\ f = Peripheral
  /\ prevIncomingSequenceNumber[f] = MaxSequenceNumber
  /\ prevAckedSequenceNumber[f] = -1
  /\ Quiet(f)
  /\ isActive[f] => sequenceNumber[Other(f)] = Len(link[f]) - 1

Got(f) ==
  /\ prevIncomingSequenceNumber[f] <= sequenceNumber[Other(f)]
  /\ prevAckedSequenceNumber[f] <= prevIncomingSequenceNumber[f]
  /\ isActive[f] =>
       /\ prevIncomingSequenceNumber[f] = sequenceNumber[Other(f)] - Len(link[f])
       /\ ~sendAckTimer[f] => prevAckedSequenceNumber[f] = prevIncomingSequenceNumber[f]

(* The packets on their way have consecutive numbers up to the last one given. *)
Numbered(f) ==
  \A i \in 1 .. Len(link[f]) :
    link[f][i].sequenceNumber = sequenceNumber[Other(f)] - Len(link[f]) + i

(* The acks on their way to e grow from the last it has received to the last *)
(* one the peer has sent, which is among them.                               *)
Acked(e) ==
  LET last == prevAckedSequenceNumber[Other(e)]
  IN  /\ prevIncomingAckNumber[e] <= last
      /\ \A i \in 1 .. Len(link[e]) :
           link[e][i].ackNumber # NoNumber =>
             /\ prevIncomingAckNumber[e] <= link[e][i].ackNumber
             /\ link[e][i].ackNumber <= last
      /\ \A i, j \in 1 .. Len(link[e]) :
           i < j /\ link[e][i].ackNumber # NoNumber /\ link[e][j].ackNumber # NoNumber =>
             link[e][i].ackNumber <= link[e][j].ackNumber
      /\ isActive[e] =>
           \/ prevIncomingAckNumber[e] = last
           \/ \E i \in 1 .. Len(link[e]) : link[e][i].ackNumber = last

(* A segment on its way to f was within the window its sender sees. *)
InWindow(f) ==
  \A i \in 1 .. Len(link[f]) :
    IsSegment(link[f][i]) =>
      link[f][i].sequenceNumber - prevIncomingAckNumber[Other(f)] <= WindowSize

Numbers(e) ==
  /\ Nothing(e) \/ Got(e)
  /\ Numbered(e)
  /\ Acked(e)
  /\ InWindow(e)

NumberInv == ~wrapped => \A e \in End : Numbers(e)

-----------------------------------------------------------------------------
(* Slack *)

Early == ~wrapped /\ \A e \in End : ~windowFilled[e]

(* Nothing was sent that would use up a window. *)
Slack(e) ==
  /\ WindowSize > 1 => sequenceNumber[e] - prevIncomingAckNumber[e] <= WindowSize - 1
  /\ WindowSize = 1 => link[e] = <<>>

SlackInv ==
  /\ Early => \A e \in End : Slack(e)
  /\ \A e \in End : refused[e] => ~Early

-----------------------------------------------------------------------------
(* Facts about the ends and the messages *)

(* There are two ends. *)
LEMMA Ends ==
  ASSUME NEW e \in End
  PROVE  Other(e) \in End /\ Other(e) # e /\ Other(Other(e)) = e /\ (\A g \in End : g = e \/ g = Other(e))
BY BtpAssumption DEF End, Other

(* A message is the sequence of its bytes, of which there is at least one. *)
LEMMA MessageFacts ==
  ASSUME NEW e \in End, NEW n \in DOMAIN Outgoing[e]
  PROVE  /\ Outgoing[e][n] \in Nat /\ Outgoing[e][n] >= 1
         /\ n \in Nat /\ n >= 1 /\ n <= Len(Outgoing[e])
         /\ MessageData(e, n) \in Seq(Byte)
         /\ MessageData(e, n) \in Seq((DOMAIN Outgoing[e]) \X Nat)
         /\ Len(MessageData(e, n)) = Outgoing[e][n]
<1>1. Outgoing[e] \in Seq(Nat \ {0})
  BY BtpAssumption
<1>2. DOMAIN Outgoing[e] = 1 .. Len(Outgoing[e]) /\ Len(Outgoing[e]) \in Nat
  BY <1>1
<1>3. n \in Nat /\ n >= 1 /\ n <= Len(Outgoing[e])
  BY <1>2
<1>4. Outgoing[e][n] \in Nat \ {0}
  BY <1>1, <1>2, <1>3
<1> DEFINE k == Outgoing[e][n]
<1>5. k \in Nat /\ k >= 1
  BY <1>4
<1> HIDE DEF k
<1>6. [i \in 1 .. k |-> <<n, i>>] \in [1 .. k -> (DOMAIN Outgoing[e]) \X Nat]
  BY <1>5
<1>7. (DOMAIN Outgoing[e]) \X Nat \subseteq Byte
  BY <1>2 DEF Byte
<1>8. [i \in 1 .. k |-> <<n, i>>] \in [1 .. k -> Byte]
  BY <1>6, <1>7
<1>9. /\ MessageData(e, n) = [i \in 1 .. k |-> <<n, i>>]
      /\ MessageData(e, n) \in Seq((DOMAIN Outgoing[e]) \X Nat)
      /\ MessageData(e, n) \in Seq(Byte)
  BY <1>5, <1>6, <1>8, SeqDef DEF MessageData, k
<1>10. Len(MessageData(e, n)) = k
  BY <1>9, <1>5, LenProperties
<1> QED
  BY <1>3, <1>5, <1>9, <1>10 DEF k

(* Part of a message. *)
LEMMA PartFacts ==
  ASSUME NEW e \in End, NEW n \in DOMAIN Outgoing[e],
         NEW a \in Nat, NEW b \in Nat, a >= 1, a <= b, b <= Outgoing[e][n]
  PROVE  /\ SubSeq(MessageData(e, n), a, b) \in Seq(Byte)
         /\ SubSeq(MessageData(e, n), a, b) \in Seq((DOMAIN Outgoing[e]) \X Nat)
         /\ Len(SubSeq(MessageData(e, n), a, b)) = b - a + 1
<1>1. MessageData(e, n) \in Seq(Byte) /\ MessageData(e, n) \in Seq((DOMAIN Outgoing[e]) \X Nat)
      /\ Len(MessageData(e, n)) = Outgoing[e][n] /\ Outgoing[e][n] \in Nat
  BY MessageFacts
<1> DEFINE m == MessageData(e, n)
<1> HIDE DEF m
<1>2. m \in Seq(Byte) /\ m \in Seq((DOMAIN Outgoing[e]) \X Nat) /\ Len(m) = Outgoing[e][n]
  BY <1>1 DEF m
<1>3. \A i \in a .. b : m[i] \in Byte /\ m[i] \in (DOMAIN Outgoing[e]) \X Nat
  BY <1>1, <1>2
<1>4. SubSeq(m, a, b) \in Seq(Byte) /\ SubSeq(m, a, b) \in Seq((DOMAIN Outgoing[e]) \X Nat)
  BY <1>1, <1>2, <1>3, SubSeqProperties
<1>5. Len(SubSeq(m, a, b)) = b - a + 1
  BY <1>1, <1>2, <1>3, SubSeqProperties
<1> QED
  BY <1>4, <1>5 DEF m

(* Two adjacent parts of a message make up one. *)
LEMMA PartsJoin ==
  ASSUME NEW e \in End, NEW n \in DOMAIN Outgoing[e],
         NEW a \in Nat, NEW b \in Nat, a >= 1, a < b, b <= Outgoing[e][n]
  PROVE  SubSeq(MessageData(e, n), 1, a) \o SubSeq(MessageData(e, n), a + 1, b)
           = SubSeq(MessageData(e, n), 1, b)
<1> DEFINE m == MessageData(e, n)
<1>1. m \in Seq(Byte) /\ Len(m) = Outgoing[e][n] /\ Outgoing[e][n] \in Nat
  BY MessageFacts
<1> HIDE DEF m
<1>2. 1 \in 1 .. a + 1 /\ a \in 1 - 1 .. Len(m) /\ b \in a .. Len(m)
  BY <1>1
<1>3. SubSeq(m, 1, a) \o SubSeq(m, a + 1, b) = SubSeq(m, 1, b)
  BY <1>1, <1>2, ConcatAdjacentSubSeq
<1> QED
  BY <1>3 DEF m

(* All of a message is the message. *)
LEMMA WholePart ==
  ASSUME NEW e \in End, NEW n \in DOMAIN Outgoing[e]
  PROVE  SubSeq(MessageData(e, n), 1, Outgoing[e][n]) = MessageData(e, n)
<1> DEFINE m == MessageData(e, n)
<1>1. m \in Seq(Byte) /\ Len(m) = Outgoing[e][n]
  BY MessageFacts
<1> HIDE DEF m
<1>2. SubSeq(m, 1, Len(m)) = m
  BY <1>1, SubSeqFull
<1> QED
  BY <1>1, <1>2 DEF m

-----------------------------------------------------------------------------
(* Facts about streams *)

(* A packet takes the stream forwards. *)
LEMMA CarriesForward ==
  ASSUME NEW e \in End, NEW p, NEW a \in Position, NEW b, Carries(e, p, a, b)
  PROVE  b \in Position /\ a.message <= b.message
<1>1. CASE b = a
  BY <1>1 DEF Position
<1>2. CASE b # a
  <2>1. /\ a.message \in DOMAIN Outgoing[e]
        /\ \E upTo \in (a.offset + 1) .. Outgoing[e][a.message] : b = After(e, a.message, upTo)
    BY <1>2 DEF Carries
  <2>2. a.message \in Nat /\ a.offset \in Nat /\ Outgoing[e][a.message] \in Nat
    BY <2>1, MessageFacts DEF Position
  <2>3. PICK upTo \in (a.offset + 1) .. Outgoing[e][a.message] : b = After(e, a.message, upTo)
    BY <2>1
  <2>4. upTo \in Nat
    BY <2>2, <2>3
  <2> QED
    BY <2>2, <2>3, <2>4 DEF After, Position
<1> QED
  BY <1>1, <1>2

(* Nothing on its way leaves the stream where it is. *)
LEMMA StreamEmpty ==
  ASSUME NEW e \in End, NEW a \in Position
  PROVE  Stream(e, <<>>, a, a)
<1> DEFINE pos == [i \in 0 .. 0 |-> a]
<1>1. pos \in [0 .. Len(<<>>) -> Position] /\ pos[0] = a /\ pos[Len(<<>>)] = a
  OBVIOUS
<1>2. \A i \in 0 .. Len(<<>>) : pos[i].message <= a.message
  BY DEF Position
<1>3. \A i \in 1 .. Len(<<>>) : Carries(e, <<>>[i], pos[i - 1], pos[i])
  OBVIOUS
<1> QED
  BY <1>1, <1>2, <1>3 DEF Stream

(* One more packet. *)
LEMMA StreamAppend ==
  ASSUME NEW e \in End, NEW s \in Seq(AnyPacket), NEW p \in AnyPacket,
         NEW a, NEW b, NEW c, Stream(e, s, a, b), Carries(e, p, b, c)
  PROVE  Stream(e, Append(s, p), a, c)
<1>1. PICK pos \in [0 .. Len(s) -> Position] :
        /\ pos[0] = a
        /\ pos[Len(s)] = b
        /\ \A i \in 0 .. Len(s) : pos[i].message <= b.message
        /\ \A i \in 1 .. Len(s) : Carries(e, s[i], pos[i - 1], pos[i])
  BY DEF Stream
<1> DEFINE t == Append(s, p)
           k == Len(s)
<1>2. k \in Nat /\ Len(t) = k + 1 /\ t[k + 1] = p /\ \A i \in 1 .. k : t[i] = s[i]
  BY AppendProperties
<1> DEFINE new == [i \in 0 .. k + 1 |-> IF i = k + 1 THEN c ELSE pos[i]]
<1>3. b \in Position
  BY <1>1, <1>2
<1>4. c \in Position /\ b.message <= c.message
  BY <1>3, CarriesForward
<1>5. \A i \in 0 .. k : pos[i] \in Position
  BY <1>1, <1>2
<1> HIDE DEF t, k
<1>6. new \in [0 .. k + 1 -> Position]
  BY <1>2, <1>4, <1>5
<1>7. new[0] = a /\ new[k + 1] = c /\ new[k] = b
  BY <1>1, <1>2 DEF k
<1>8. \A i \in 0 .. k + 1 : new[i].message <= c.message
  <2> SUFFICES ASSUME NEW i \in 0 .. k + 1
               PROVE  new[i].message <= c.message
    OBVIOUS
  <2>1. CASE i = k + 1
    BY <2>1, <1>2, <1>4 DEF Position
  <2>2. CASE i # k + 1
    <3>1. i \in 0 .. k /\ new[i] = pos[i]
      BY <2>2, <1>2
    <3>2. pos[i].message <= b.message
      BY <3>1, <1>1 DEF k
    <3> QED
      BY <3>1, <3>2, <1>3, <1>4, <1>5 DEF Position
  <2> QED
    BY <2>1, <2>2
<1>9. \A i \in 1 .. k + 1 : Carries(e, t[i], new[i - 1], new[i])
  <2> SUFFICES ASSUME NEW i \in 1 .. k + 1
               PROVE  Carries(e, t[i], new[i - 1], new[i])
    OBVIOUS
  <2>1. CASE i = k + 1
    <3>1. t[i] = p /\ new[i - 1] = b /\ new[i] = c
      BY <2>1, <1>2, <1>7
    <3> QED
      BY <3>1
  <2>2. CASE i # k + 1
    <3>1. i \in 1 .. k /\ i - 1 \in 0 .. k + 1 /\ i - 1 # k + 1 /\ i \in 0 .. k + 1
      BY <2>2, <1>2
    <3>2. t[i] = s[i] /\ new[i - 1] = pos[i - 1] /\ new[i] = pos[i]
      BY <2>2, <3>1, <1>2
    <3> QED
      BY <3>1, <3>2, <1>1 DEF k
  <2> QED
    BY <2>1, <2>2
<1> HIDE DEF new
<1>10. Stream(e, t, a, c)
  BY <1>2, <1>6, <1>7, <1>8, <1>9 DEF Stream
<1> QED
  BY <1>10 DEF t

(* The first packet arrives. *)
LEMMA StreamHead ==
  ASSUME NEW e \in End, NEW s \in Seq(AnyPacket), s # <<>>,
         NEW a, NEW b, Stream(e, s, a, b)
  PROVE  \E c : Carries(e, Head(s), a, c) /\ Stream(e, Tail(s), c, b)
<1>1. PICK pos \in [0 .. Len(s) -> Position] :
        /\ pos[0] = a
        /\ pos[Len(s)] = b
        /\ \A i \in 0 .. Len(s) : pos[i].message <= b.message
        /\ \A i \in 1 .. Len(s) : Carries(e, s[i], pos[i - 1], pos[i])
  BY DEF Stream
<1> DEFINE t == Tail(s)
           k == Len(t)
<1>2. k \in Nat /\ Len(s) = k + 1 /\ Head(s) = s[1] /\ \A i \in 1 .. k : t[i] = s[i + 1]
  BY HeadTailProperties, LenProperties
<1>3. Carries(e, Head(s), a, pos[1])
  BY <1>1, <1>2
<1> HIDE DEF t, k
<1> DEFINE new == [i \in 0 .. k |-> pos[i + 1]]
<1>4. new \in [0 .. k -> Position]
  BY <1>1, <1>2
<1>5. new[0] = pos[1] /\ new[k] = b
  BY <1>1, <1>2
<1>6. \A i \in 0 .. k : new[i].message <= b.message
  BY <1>1, <1>2
<1>7. \A i \in 1 .. k : Carries(e, t[i], new[i - 1], new[i])
  <2> SUFFICES ASSUME NEW i \in 1 .. k
               PROVE  Carries(e, t[i], new[i - 1], new[i])
    OBVIOUS
  <2>1. i + 1 \in 1 .. Len(s) /\ (i + 1) - 1 = i /\ i - 1 \in 0 .. k /\ i \in 0 .. k /\ (i - 1) + 1 = i
    BY <1>2
  <2>2. Carries(e, s[i + 1], pos[i], pos[i + 1])
    BY <2>1, <1>1
  <2>3. t[i] = s[i + 1] /\ new[i - 1] = pos[i] /\ new[i] = pos[i + 1]
    BY <2>1, <1>2
  <2> QED
    BY <2>2, <2>3
<1> HIDE DEF new
<1>8. Stream(e, t, pos[1], b)
  BY <1>4, <1>5, <1>6, <1>7 DEF Stream, k
<1> QED
  BY <1>3, <1>8 DEF t

(* A stream does not go back. *)
LEMMA StreamForward ==
  ASSUME NEW e \in End, NEW s \in Seq(AnyPacket), NEW a, NEW b, Stream(e, s, a, b)
  PROVE  a \in Position /\ b \in Position /\ a.message <= b.message
<1>1. Len(s) \in Nat
  OBVIOUS
<1> QED
  BY <1>1 DEF Stream

-----------------------------------------------------------------------------
(* Facts about the queue of an end *)

(* The message at the head of the queue. *)
LEMMA HeadFacts ==
  ASSUME NEW e \in End, NEW n \in Nat, NEW q, Queued(e, n, q), q # <<>>
  PROVE  /\ Len(q) \in Nat /\ Len(q) >= 1
         /\ n - Len(q) + 1 \in Nat /\ n - Len(q) + 1 \in DOMAIN Outgoing[e]
         /\ Head(q) = q[1] /\ q[1] \in Item
         /\ q[1].data = MessageData(e, n - Len(q) + 1)
         /\ Len(q[1].data) = Outgoing[e][n - Len(q) + 1]
         /\ q[1].read \in 0 .. Outgoing[e][n - Len(q) + 1]
<1>1. q \in Seq(Item) /\ Len(q) <= n /\ n <= Len(Outgoing[e])
  BY DEF Queued
<1>2. Len(q) \in Nat /\ Len(q) >= 1 /\ Head(q) = q[1] /\ q[1] \in Item
  BY <1>1, EmptySeq, ElementOfSeq
<1>3. DOMAIN Outgoing[e] = 1 .. Len(Outgoing[e]) /\ Len(Outgoing[e]) \in Nat
  BY BtpAssumption
<1>4. n - Len(q) + 1 \in Nat /\ n - Len(q) + 1 \in DOMAIN Outgoing[e]
  BY <1>1, <1>2, <1>3
<1>5. q[1].data = MessageData(e, n - Len(q) + 1) /\ q[1].read \in 0 .. Outgoing[e][n - Len(q) + 1]
  BY <1>2 DEF Queued
<1> QED
  BY <1>2, <1>4, <1>5, MessageFacts

(* The head counts as read when its message is. *)
LEMMA ReachedFacts ==
  ASSUME NEW e \in End, NEW n \in Nat, NEW q, Queued(e, n, q)
  PROVE  /\ Reached(e, n, q) \in Position
         /\ Reached(e, n, q).message <= n + 1
         /\ q # <<>> /\ ~HeadRead(q) =>
              Reached(e, n, q) = [message |-> n - Len(q) + 1, offset |-> q[1].read]
         /\ HeadRead(q) => Reached(e, n, q) = [message |-> n - Len(q) + 2, offset |-> 0]
<1>1. CASE q = <<>>
  BY <1>1 DEF Reached, HeadRead, Position
<1>2. CASE q # <<>>
  <2> DEFINE h == n - Len(q) + 1
  <2>1. /\ Len(q) \in Nat /\ Len(q) >= 1
        /\ h \in Nat /\ h \in DOMAIN Outgoing[e]
        /\ Len(q[1].data) = Outgoing[e][h]
        /\ q[1].read \in 0 .. Outgoing[e][h]
    BY <1>2, HeadFacts
  <2>2. Outgoing[e][h] \in Nat /\ h + 1 = n - Len(q) + 2 /\ h <= n
    BY <2>1, MessageFacts
  <2>3. Reached(e, n, q) = IF q[1].read = Outgoing[e][h] THEN [message |-> h + 1, offset |-> 0]
                                                         ELSE [message |-> h, offset |-> q[1].read]
    BY <1>2 DEF Reached, After
  <2> HIDE DEF h
  <2>4. q[1].read \in Nat
    BY <2>1, <2>2
  <2>5. HeadRead(q) <=> q[1].read = Outgoing[e][h]
    BY <1>2, <2>1 DEF HeadRead
  <2>6. CASE HeadRead(q)
    BY <1>2, <2>1, <2>2, <2>3, <2>5, <2>6 DEF Position, h
  <2>7. CASE ~HeadRead(q)
    BY <1>2, <2>1, <2>2, <2>3, <2>4, <2>5, <2>7 DEF Position, h
  <2> QED
    BY <2>6, <2>7
<1> QED
  BY <1>1, <1>2

(* sendMatterMessage() puts a message at the end of the queue. *)
LEMMA Push ==
  ASSUME NEW e \in End, NEW n \in Nat, NEW q, Queued(e, n, q), n + 1 <= Len(Outgoing[e]),
         NEW t, t = Append(q, [data |-> MessageData(e, n + 1), read |-> 0])
  PROVE  /\ Queued(e, n + 1, t) /\ t # <<>>
         /\ HeadRead(t) <=> HeadRead(q)
         /\ Reached(e, n + 1, t) = Reached(e, n, q)
<1> DEFINE item == [data |-> MessageData(e, n + 1), read |-> 0]
<1>1. q \in Seq(Item) /\ Len(q) <= n /\ n <= Len(Outgoing[e]) /\ Len(q) \in Nat
  BY DEF Queued
<1>2. n + 1 \in DOMAIN Outgoing[e]
  BY BtpAssumption
<1>3. /\ Outgoing[e][n + 1] \in Nat /\ Outgoing[e][n + 1] >= 1
      /\ MessageData(e, n + 1) \in Seq(Byte) /\ Len(MessageData(e, n + 1)) = Outgoing[e][n + 1]
  BY <1>2, MessageFacts
<1>4. item \in Item /\ item.data = MessageData(e, n + 1) /\ item.read = 0
  BY <1>3 DEF Item
<1> HIDE DEF item
<1>5. t = Append(q, item)
  BY DEF item
<1>6. t \in Seq(Item) /\ Len(t) = Len(q) + 1 /\ t # <<>>
      /\ t[Len(q) + 1] = item /\ \A i \in 1 .. Len(q) : t[i] = q[i]
  BY <1>1, <1>4, <1>5, AppendProperties
<1>7. ASSUME NEW i \in 1 .. Len(t)
      PROVE  /\ t[i].data = MessageData(e, (n + 1) - Len(t) + i)
             /\ t[i].read \in 0 .. Outgoing[e][(n + 1) - Len(t) + i]
             /\ i > 1 => t[i].read = 0
  <2>1. CASE i = Len(q) + 1
    <3>1. (n + 1) - Len(t) + i = n + 1 /\ t[i] = item
      BY <2>1, <1>1, <1>6
    <3> QED
      BY <3>1, <1>3, <1>4
  <2>2. CASE i # Len(q) + 1
    <3>1. i \in 1 .. Len(q) /\ t[i] = q[i] /\ (n + 1) - Len(t) + i = n - Len(q) + i
      BY <2>2, <1>1, <1>6
    <3> QED
      BY <3>1 DEF Queued
  <2> QED
    BY <2>1, <2>2
<1>8. Queued(e, n + 1, t)
  BY <1>1, <1>6, <1>7 DEF Queued
<1>9. CASE q = <<>>
  <2>1. Len(t) = 1 /\ t[1] = item /\ (n + 1) - Len(t) + 1 = n + 1
    BY <1>9, <1>6
  <2>2. ~HeadRead(t) /\ ~HeadRead(q)
    BY <1>9, <2>1, <1>3, <1>4 DEF HeadRead
  <2>3. n + 1 \in Nat
    OBVIOUS
  <2>4. Reached(e, n + 1, t) = [message |-> (n + 1) - Len(t) + 1, offset |-> t[1].read]
    BY <1>8, <2>2, <2>3, <1>6, ReachedFacts
  <2> QED
    BY <1>8, <1>6, <1>9, <1>4, <2>1, <2>2, <2>4 DEF Reached
<1>10. CASE q # <<>>
  <2>1. t[1] = q[1] /\ (n + 1) - Len(t) + 1 = n - Len(q) + 1
    BY <1>1, <1>6, <1>10, EmptySeq
  <2> QED
    BY <1>8, <1>6, <1>10, <2>1 DEF Reached, HeadRead
<1> QED
  BY <1>9, <1>10

(* processSendQueue() takes a message that was read to its end off the queue. *)
LEMMA Pop ==
  ASSUME NEW e \in End, NEW n \in Nat, NEW q, Queued(e, n, q), HeadRead(q)
  PROVE  /\ Queued(e, n, Tail(q)) /\ ~HeadRead(Tail(q))
         /\ Reached(e, n, Tail(q)) = Reached(e, n, q)
<1>1. q # <<>>
  BY DEF HeadRead
<1> DEFINE t == Tail(q)
<1>2. q \in Seq(Item) /\ Len(q) <= n /\ n <= Len(Outgoing[e]) /\ Len(q) \in Nat
  BY DEF Queued
<1>3. t \in Seq(Item) /\ Len(t) = Len(q) - 1 /\ \A i \in 1 .. Len(t) : t[i] = q[i + 1]
  BY <1>1, <1>2, HeadTailProperties
<1> HIDE DEF t
<1>4. Len(t) \in Nat
  BY <1>3
<1>5. ASSUME NEW i \in 1 .. Len(t)
      PROVE  /\ t[i].data = MessageData(e, n - Len(t) + i)
             /\ t[i].read = 0
             /\ n - Len(t) + i \in DOMAIN Outgoing[e]
  <2>1. i + 1 \in 1 .. Len(q) /\ t[i] = q[i + 1] /\ n - Len(q) + (i + 1) = n - Len(t) + i /\ i + 1 > 1
    BY <1>2, <1>3, <1>4
  <2>2. n - Len(t) + i \in DOMAIN Outgoing[e]
    BY <1>2, <1>3, <1>4, BtpAssumption
  <2> QED
    BY <2>1, <2>2 DEF Queued
<1>6. ASSUME NEW i \in 1 .. Len(t)
      PROVE  t[i].read \in 0 .. Outgoing[e][n - Len(t) + i] /\ Len(t[i].data) >= 1
  <2> DEFINE h == n - Len(t) + i
  <2>1. h \in DOMAIN Outgoing[e] /\ t[i].data = MessageData(e, h) /\ t[i].read = 0
    BY <1>5
  <2> HIDE DEF h
  <2>2. Outgoing[e][h] \in Nat /\ Outgoing[e][h] >= 1 /\ Len(MessageData(e, h)) = Outgoing[e][h]
    BY <2>1, MessageFacts
  <2> QED
    BY <2>1, <2>2 DEF h
<1>7. Queued(e, n, t)
  BY <1>2, <1>3, <1>5, <1>6 DEF Queued
<1>8. ~HeadRead(t)
  <2>1. CASE t = <<>>
    BY <2>1 DEF HeadRead
  <2>2. CASE t # <<>>
    <3>1. 1 \in 1 .. Len(t)
      BY <2>2, <1>3, <1>4, EmptySeq
    <3> QED
      BY <3>1, <1>5, <1>6 DEF HeadRead
  <2> QED
    BY <2>1, <2>2
<1>9. Reached(e, n, q) = [message |-> n - Len(q) + 2, offset |-> 0]
  BY ReachedFacts
<1>10. CASE t = <<>>
  <2>1. Len(t) = 0
    BY <1>10
  <2>2. Len(q) - 1 = 0 /\ Len(q) \in Nat
    BY <1>2, <1>3, <2>1
  <2>3. Len(q) = 1
    BY <2>2
  <2>4. n - Len(q) + 2 = n + 1
    BY <2>3
  <2> QED
    BY <1>7, <1>8, <1>9, <1>10, <2>4 DEF Reached, t
<1>11. CASE t # <<>>
  <2>1. Reached(e, n, t) = [message |-> n - Len(t) + 1, offset |-> t[1].read]
    BY <1>7, <1>8, <1>11, ReachedFacts
  <2>2. n - Len(t) + 1 = n - Len(q) + 2 /\ t[1].read = 0
    BY <1>2, <1>3, <1>4, <1>5, <1>11, EmptySeq
  <2> QED
    BY <1>7, <1>8, <1>9, <2>1, <2>2 DEF t
<1> QED
  BY <1>10, <1>11

(* A packet of processSendQueue() has room for a byte of the message. *)
LEMMA RoomFacts ==
  ASSUME NEW m \in Item, NEW hasAck \in BOOLEAN
  PROVE  Capacity(m, hasAck) \in Nat /\ Capacity(m, hasAck) >= 1
BY BtpAssumption DEF Capacity, Begins

(* Another head for a sequence. *)
LEMMA ReplaceHead ==
  ASSUME NEW q \in Seq(Item), q # <<>>, NEW x \in Item, NEW t, t = <<x>> \o Tail(q)
  PROVE  /\ t \in Seq(Item) /\ Len(t) = Len(q) /\ t[1] = x
         /\ \A i \in 1 .. Len(q) : i # 1 => t[i] = q[i]
<1> DEFINE u == Tail(q)
           v == <<x>>
<1>1. u \in Seq(Item) /\ Len(u) = Len(q) - 1 /\ \A i \in 1 .. Len(u) : u[i] = q[i + 1]
  BY HeadTailProperties
<1>2. v \in Seq(Item) /\ Len(v) = 1 /\ v[1] = x
  OBVIOUS
<1>3. Len(q) \in Nat /\ Len(q) >= 1
  BY EmptySeq
<1> HIDE DEF u, v
<1> u \in Seq(Item) /\ v \in Seq(Item)
  BY <1>1, <1>2
<1>4. /\ v \o u \in Seq(Item) /\ Len(v \o u) = Len(v) + Len(u)
      /\ \A i \in 1 .. Len(v) + Len(u) : (v \o u)[i] = IF i <= Len(v) THEN v[i] ELSE u[i - Len(v)]
  BY ConcatProperties, Zenon
<1>5. Len(v \o u) = Len(q) /\ (v \o u)[1] = x
  BY <1>1, <1>2, <1>3, <1>4
<1>6. ASSUME NEW i \in 1 .. Len(q), i # 1
      PROVE  (v \o u)[i] = q[i]
  <2>1. i - 1 \in 1 .. Len(u) /\ i \in 1 .. Len(v) + Len(u) /\ ~(i <= Len(v)) /\ (i - 1) + 1 = i
    BY <1>1, <1>2, <1>3, <1>6
  <2>2. (v \o u)[i] = u[i - Len(v)]
    BY <1>4, <2>1
  <2> QED
    BY <2>1, <2>2, <1>1, <1>2
<1>7. t = v \o u
  BY DEF u, v
<1> QED
  BY <1>4, <1>5, <1>6, <1>7

(* What is left of a message is more than fits. *)
LEMMA CutBound ==
  ASSUME NEW total \in Nat, NEW read \in Nat, NEW room \in Nat, room >= 1,
         ~(total - read <= room)
  PROVE  /\ read + room \in Nat /\ read + room >= read + 1
         /\ read + room <= total /\ read + room # total
OBVIOUS

(* The segment p of the message at the head of q, when there is room for so  *)
(* many bytes, and the queue t that it leaves.                               *)
IsCut(q, room, ending, upTo, p, t) ==
  LET m == Head(q)
  IN  /\ ending <=> Len(m.data) - m.read <= room
      /\ upTo = IF ending THEN Len(m.data) ELSE m.read + room
      /\ t = <<[m EXCEPT !.read = upTo]>> \o Tail(q)
      /\ p.isBeginningSegment <=> Begins(m)
      /\ p.isEndingSegment <=> ending
      /\ p.messageLength = IF Begins(m) THEN Len(m.data) ELSE NoNumber
      /\ p.segmentPayload = SubSeq(m.data, m.read + 1, upTo)

(* processSendQueue() cuts the next segment off the message at the head. *)
LEMMA Cut ==
  ASSUME NEW e \in End, NEW n \in Nat, NEW q, Queued(e, n, q), q # <<>>, ~HeadRead(q),
         NEW room \in Nat, room >= 1, NEW ending \in BOOLEAN, NEW upTo, NEW t,
         NEW p \in AnyPacket, IsCut(q, room, ending, upTo, p, t)
  PROVE  /\ Queued(e, n, t) /\ t # <<>>
         /\ HeadRead(t) <=> ending
         /\ Carries(e, p, Reached(e, n, q), Reached(e, n, t))
<1> DEFINE m == Head(q)
           h == n - Len(q) + 1
           total == Outgoing[e][h]
<1> ending <=> Len(m.data) - m.read <= room
  BY DEF IsCut
<1> upTo = IF ending THEN Len(m.data) ELSE m.read + room
  BY DEF IsCut
<1>30. t = <<[m EXCEPT !.read = upTo]>> \o Tail(q)
  BY DEF IsCut
<1>31. /\ p.isBeginningSegment <=> Begins(m)
       /\ p.isEndingSegment <=> ending
       /\ p.messageLength = IF Begins(m) THEN Len(m.data) ELSE NoNumber
       /\ p.segmentPayload = SubSeq(m.data, m.read + 1, upTo)
  BY DEF IsCut
<1> HIDE DEF m
<1>1. /\ Len(q) \in Nat /\ Len(q) >= 1
      /\ h \in Nat /\ h \in DOMAIN Outgoing[e]
      /\ m = q[1] /\ m \in Item
      /\ m.data = MessageData(e, h)
      /\ Len(m.data) = total
      /\ m.read \in 0 .. total
  BY HeadFacts DEF m
<1>2. total \in Nat /\ total >= 1
  BY <1>1, MessageFacts
<1>3. q \in Seq(Item) /\ Len(q) <= n /\ n <= Len(Outgoing[e])
  BY DEF Queued
<1>4. Reached(e, n, q) = [message |-> h, offset |-> m.read]
  BY <1>1, ReachedFacts
<1>5. m.read # total
  BY <1>1 DEF HeadRead
<1> HIDE DEF total
<1>6. m.read \in Nat /\ m.read < total
  BY <1>1, <1>2, <1>5
<1>7. upTo \in Nat /\ upTo >= m.read + 1 /\ upTo <= total /\ (upTo = total <=> ending)
  <2>1. CASE ending
    BY <2>1, <1>1, <1>2, <1>6
  <2>2. CASE ~ending
    <3>1. ~(total - m.read <= room) /\ upTo = m.read + room
      BY <2>2, <1>1
    <3>2. /\ m.read + room \in Nat /\ m.read + room >= m.read + 1
          /\ m.read + room <= total /\ m.read + room # total
      BY <3>1, <1>2, <1>6, CutBound
    <3> QED
      BY <2>2, <3>1, <3>2
  <2> QED
    BY <2>1, <2>2
<1> DEFINE first == [m EXCEPT !.read = upTo]
<1>8. first \in Item /\ first.data = m.data /\ first.read = upTo
  BY <1>1, <1>7 DEF Item
<1> HIDE DEF first, h
<1>11. t = <<first>> \o Tail(q)
  BY <1>30 DEF first
<1>12. t \in Seq(Item) /\ Len(t) = Len(q) /\ t[1] = first
       /\ \A i \in 1 .. Len(q) : i # 1 => t[i] = q[i]
  <2>1. q \in Seq(Item) /\ q # <<>> /\ first \in Item
    BY <1>3, <1>8
  <2> HIDE DEF first
  <2> QED
    BY <2>1, <1>11, ReplaceHead
<1>13. Len(t) = Len(q) /\ t[1] = first /\ t # <<>>
  BY <1>1, <1>12
<1>14. ASSUME NEW i \in 1 .. Len(q), i # 1
       PROVE  t[i] = q[i]
  BY <1>12, <1>14
<1>15. ASSUME NEW i \in 1 .. Len(t)
       PROVE  /\ t[i].data = MessageData(e, n - Len(t) + i)
              /\ t[i].read \in 0 .. Outgoing[e][n - Len(t) + i]
              /\ i > 1 => t[i].read = 0
  <2>1. CASE i = 1
    <3>1. n - Len(t) + i = h /\ t[i] = first
      BY <2>1, <1>13 DEF h
    <3>2. upTo \in 0 .. Outgoing[e][h]
      BY <1>7, <1>2 DEF total
    <3>3. t[i].data = MessageData(e, h) /\ t[i].read = upTo
      BY <3>1, <1>1, <1>8
    <3> QED
      BY <2>1, <3>1, <3>2, <3>3
  <2>2. CASE i # 1
    <3>1. i \in 1 .. Len(q) /\ t[i] = q[i]
      BY <2>2, <1>13, <1>14
    <3> QED
      BY <3>1, <1>13 DEF Queued
  <2> QED
    BY <2>1, <2>2
<1>16. Queued(e, n, t)
  BY <1>3, <1>12, <1>13, <1>15 DEF Queued
<1>17. HeadRead(t) <=> ending
  BY <1>1, <1>7, <1>8, <1>13 DEF HeadRead
<1>18. Reached(e, n, t) = After(e, h, upTo)
  BY <1>8, <1>13 DEF Reached, h
<1>19. upTo \in (m.read + 1) .. total
  BY <1>2, <1>6, <1>7
<1>20. Carries(e, p, [message |-> h, offset |-> m.read], After(e, h, upTo))
  <2>1. /\ p.segmentPayload = SubSeq(MessageData(e, h), m.read + 1, upTo)
        /\ p.isBeginningSegment <=> m.read = 0
        /\ p.isEndingSegment <=> upTo = total
        /\ p.messageLength = IF m.read = 0 THEN total ELSE NoNumber
    BY <1>1, <1>7, <1>31 DEF Begins
  <2> DEFINE a == [message |-> h, offset |-> m.read]
  <2>2. a.message = h /\ a.offset = m.read
    OBVIOUS
  <2> HIDE DEF a
  <2>3. Carries(e, p, a, After(e, h, upTo))
    BY <2>1, <2>2, <1>1, <1>19 DEF Carries, total
  <2> QED
    BY <2>3 DEF a
<1> QED
  BY <1>4, <1>13, <1>16, <1>17, <1>18, <1>20

(* The segment has bytes, all of the message. *)
LEMMA CutPayload ==
  ASSUME NEW e \in End, NEW n \in Nat, NEW q, Queued(e, n, q), q # <<>>, ~HeadRead(q),
         NEW m, m = Head(q), NEW room \in Nat, room >= 1,
         NEW ending \in BOOLEAN, ending <=> Len(m.data) - m.read <= room,
         NEW upTo, upTo = IF ending THEN Len(m.data) ELSE m.read + room
  PROVE  /\ SubSeq(m.data, m.read + 1, upTo) \in Seq(Byte)
         /\ SubSeq(m.data, m.read + 1, upTo) # <<>>
         /\ Len(m.data) \in Nat /\ m \in Item
<1> DEFINE h == n - Len(q) + 1
           total == Outgoing[e][h]
<1>1. /\ h \in Nat /\ h \in DOMAIN Outgoing[e]
      /\ m = q[1] /\ m \in Item
      /\ m.data = MessageData(e, h)
      /\ Len(m.data) = total
      /\ m.read \in 0 .. total
  <2>1. /\ Len(q) \in Nat /\ Len(q) >= 1
        /\ n - Len(q) + 1 \in Nat /\ n - Len(q) + 1 \in DOMAIN Outgoing[e]
        /\ Head(q) = q[1] /\ q[1] \in Item
        /\ q[1].data = MessageData(e, n - Len(q) + 1)
        /\ Len(q[1].data) = Outgoing[e][n - Len(q) + 1]
        /\ q[1].read \in 0 .. Outgoing[e][n - Len(q) + 1]
    BY HeadFacts
  <2>2. m = q[1]
    BY <2>1
  <2> QED
    BY <2>1, <2>2, Zenon
<1>2. total \in Nat /\ total >= 1
  BY <1>1, MessageFacts
<1>3. m.read # total
  BY <1>1 DEF HeadRead
<1> HIDE DEF total, h
<1>4. m.read \in Nat /\ m.read < total
  BY <1>1, <1>2, <1>3
<1>5. upTo \in Nat /\ upTo >= m.read + 1 /\ upTo <= total
  <2>1. CASE ending
    BY <2>1, <1>1, <1>2, <1>4
  <2>2. CASE ~ending
    <3>1. ~(total - m.read <= room) /\ upTo = m.read + room
      BY <2>2, <1>1
    <3> QED
      BY <2>2, <3>1, <1>2, <1>4, CutBound
  <2> QED
    BY <2>1, <2>2
<1>6. m.read + 1 \in Nat /\ m.read + 1 >= 1 /\ m.read + 1 <= upTo /\ upTo <= Outgoing[e][h]
  BY <1>4, <1>5 DEF total
<1>7. /\ SubSeq(MessageData(e, h), m.read + 1, upTo) \in Seq(Byte)
      /\ Len(SubSeq(MessageData(e, h), m.read + 1, upTo)) = upTo - (m.read + 1) + 1
  BY <1>1, <1>5, <1>6, PartFacts, ZenonT(40)
<1>8. upTo - (m.read + 1) + 1 > 0
  BY <1>4, <1>5
<1>9. SubSeq(MessageData(e, h), m.read + 1, upTo) # <<>>
  <2> DEFINE part == SubSeq(MessageData(e, h), m.read + 1, upTo)
  <2> HIDE DEF part
  <2>1. part \in Seq(Byte) /\ Len(part) > 0
    BY <1>7, <1>8 DEF part
  <2>2. part # <<>>
    BY <2>1
  <2> QED
    BY <2>2 DEF part
<1> QED
  BY <1>1, <1>2, <1>7, <1>9

-----------------------------------------------------------------------------
(* Content: the parts of the invariant that a step leaves alone *)

(* A sender whose own fields do not change. *)
LEMMA SenderFrame ==
  ASSUME NEW g \in End, Sender(g),
         accepted'[g] = accepted[g],
         queuedOutgoingMatterMessages'[g] = queuedOutgoingMatterMessages[g],
         segmentWrite'[g] = segmentWrite[g],
         sendInProgress'[g] = sendInProgress[g],
         confirmationLost'[g] = confirmationLost[g]
  PROVE  Sender(g)'
BY DEF Sender

(* A receiver whose own fields do not change. *)
LEMMA AssemblingFrame ==
  ASSUME NEW g \in End, Assembling(g),
         delivered'[g] = delivered[g], currentIncoming'[g] = currentIncoming[g]
  PROVE  Assembling(g)' /\ Place(g)' = Place(g)
BY DEF Assembling, Place

(* A direction in which nothing happens. *)
LEMMA FlowFrame ==
  ASSUME NEW e \in End, Flow(e),
         isActive'[Other(e)] = isActive[Other(e)],
         link'[Other(e)] = link[Other(e)],
         Place(Other(e))' = Place(Other(e)),
         Reached(e, Len(accepted[e]), queuedOutgoingMatterMessages[e])'
           = Reached(e, Len(accepted[e]), queuedOutgoingMatterMessages[e])
  PROVE  Flow(e)'
BY DEF Flow

(* A packet is written. *)
LEMMA FlowWrite ==
  ASSUME NEW e \in End, Shapes, Flow(e), NEW p \in AnyPacket, Write(e, p),
         isActive' = isActive, Place(Other(e))' = Place(Other(e)),
         NEW a, a = Reached(e, Len(accepted[e]), queuedOutgoingMatterMessages[e]),
         NEW b, b = Reached(e, Len(accepted[e]), queuedOutgoingMatterMessages[e])',
         Carries(e, p, a, b)
  PROVE  Flow(e)'
<1> DEFINE f == Other(e)
<1>1. f \in End
  BY Ends
<1>2. CASE isActive[f]
  <2>1. link'[f] = Append(link[f], p) /\ link[f] \in Seq(AnyPacket)
    BY <1>1, <1>2 DEF Write, Shapes
  <2>2. Stream(e, link[f], Place(f), a)
    BY <1>2 DEF Flow
  <2>3. Stream(e, Append(link[f], p), Place(f), b)
    BY <2>1, <2>2, StreamAppend
  <2>4. Stream(e, link'[f], Place(f)', b)
    BY <2>1, <2>3
  <2> QED
    BY <1>2, <2>4 DEF Flow
<1>3. CASE ~isActive[f]
  BY <1>1, <1>3 DEF Flow, Write
<1> QED
  BY <1>2, <1>3

-----------------------------------------------------------------------------
(* Sending *)

(* An end numbers a packet and writes it.  It acks all it has received. *)
Sends(e, p) ==
  /\ p \in AnyPacket
  /\ p.sequenceNumber = NextSequenceNumber(e)
  /\ p.ackNumber = prevIncomingSequenceNumber[e]
     \/ (p.ackNumber = NoNumber /\ prevAckedSequenceNumber[e] = prevIncomingSequenceNumber[e])
  /\ Write(e, p)
  /\ Number(e, p.ackNumber)

(* The packet is the next segment of q, which becomes t. *)
SendsSegment(e, n, q, p, t) ==
  /\ Sends(e, p)
  /\ IsSegment(p)
  /\ Queued(e, n, t) /\ t # <<>>
  /\ Carries(e, p, Reached(e, n, q), Reached(e, n, t))
  /\ queuedOutgoingMatterMessages' = [queuedOutgoingMatterMessages EXCEPT ![e] = t]
  /\ sendInProgress' = [sendInProgress EXCEPT ![e] = TRUE]
  /\ segmentWrite' \in [End -> {"none", "segment", "ending"}]
  /\ segmentWrite'[Other(e)] = segmentWrite[Other(e)]
  /\ segmentWrite'[e] # "none"
  /\ HeadRead(t) <=> segmentWrite'[e] = "ending"
  /\ ackWrite' \in [End -> BOOLEAN]
  /\ sendAckTimer' \in [End -> BOOLEAN]
  /\ sendAckTimer'[Other(e)] = sendAckTimer[Other(e)]

(* The numbers are numbers. *)
LEMMA NumberTypes ==
  /\ MaxSequenceNumber \in Nat /\ MaxSequenceNumber >= 1
  /\ WindowSize \in Nat /\ WindowSize >= 1
  /\ SequenceNumbers \subseteq Nat /\ NoNumber = -1 /\ NoNumber \notin SequenceNumbers
<1>1. MaxSequenceNumber \in Nat /\ MaxSequenceNumber >= 1 /\ WindowSize \in Nat /\ WindowSize >= 1
  BY BtpAssumption
<1> QED
  BY <1>1 DEF SequenceNumbers, NoNumber

LEMMA NextNumberType ==
  ASSUME Shapes, NEW e \in End
  PROVE  NextSequenceNumber(e) \in SequenceNumbers
<1>1. sequenceNumber[e] \in {-1} \cup SequenceNumbers
  BY DEF Shapes
<1> QED
  BY <1>1, NumberTypes DEF NextSequenceNumber, SequenceNumbers

(* exceedsWindowSize() is true or false. *)
LEMMA ExceedsType ==
  ASSUME NEW a, NEW b
  PROVE  ExceedsWindowSize(a, b) \in BOOLEAN
BY DEF ExceedsWindowSize

(* Sending keeps the types. *)
LEMMA SendsShapes ==
  ASSUME Shapes, NEW e \in End, NEW p, Sends(e, p)
  PROVE  /\ link' \in [End -> Seq(AnyPacket)]
         /\ link'[e] = link[e]
         /\ sequenceNumber' \in [End -> {-1} \cup SequenceNumbers]
         /\ prevAckedSequenceNumber' \in [End -> {-1} \cup SequenceNumbers]
         /\ wrapped' \in BOOLEAN
         /\ windowFilled' \in [End -> BOOLEAN]
<1> DEFINE f == Other(e)
<1>1. f \in End /\ f # e /\ e \in End
  BY Ends
<1>2. p \in AnyPacket /\ Write(e, p) /\ Number(e, p.ackNumber)
  BY DEF Sends
<1>3. link' \in [End -> Seq(AnyPacket)] /\ link'[e] = link[e]
  <2>1. link \in [End -> Seq(AnyPacket)]
    BY DEF Shapes
  <2>2. Append(link[f], p) \in Seq(AnyPacket)
    BY <1>1, <1>2, <2>1, AppendProperties
  <2>3. link' = link \/ link' = [link EXCEPT ![f] = Append(link[f], p)]
    BY <1>2 DEF Write
  <2> HIDE DEF f
  <2> QED
    BY <1>1, <2>1, <2>2, <2>3
<1>4. sequenceNumber' \in [End -> {-1} \cup SequenceNumbers]
  <2>1. sequenceNumber' = [sequenceNumber EXCEPT ![e] = NextSequenceNumber(e)]
    BY <1>2 DEF Number
  <2> QED
    BY <2>1, NextNumberType DEF Shapes
<1>5. prevAckedSequenceNumber' \in [End -> {-1} \cup SequenceNumbers]
  <2>1. p.ackNumber \in {-1} \cup SequenceNumbers
    BY <1>2 DEF AnyPacket, NoNumber
  <2>2. \/ prevAckedSequenceNumber' = [prevAckedSequenceNumber EXCEPT ![e] = p.ackNumber]
        \/ prevAckedSequenceNumber' = [prevAckedSequenceNumber EXCEPT ![e] = prevAckedSequenceNumber[e]]
    BY <1>2 DEF Number
  <2>3. prevAckedSequenceNumber \in [End -> {-1} \cup SequenceNumbers]
    BY DEF Shapes
  <2> QED
    BY <2>1, <2>2, <2>3
<1>6. wrapped' \in BOOLEAN
  BY <1>2 DEF Number
<1>7. windowFilled' \in [End -> BOOLEAN]
  <2> DEFINE full == windowFilled[e] \/ ExceedsWindowSize(prevIncomingAckNumber[e], NextSequenceNumber(e))
  <2>1. full \in BOOLEAN
    OBVIOUS
  <2>2. windowFilled' = [windowFilled EXCEPT ![e] = full]
    BY <1>2 DEF Number
  <2>3. windowFilled \in [End -> BOOLEAN]
    BY DEF Shapes
  <2> HIDE DEF full
  <2> QED
    BY <2>1, <2>2, <2>3
<1> QED
  BY <1>3, <1>4, <1>5, <1>6, <1>7

(* processSendQueue() up to its await. *)
LEMMA WriteSegmentSends ==
  ASSUME Shapes, NEW e \in End, NEW n \in Nat, NEW q,
         Queued(e, n, q), q # <<>>, ~HeadRead(q), WriteSegment(e, q)
  PROVE  \E p, t : SendsSegment(e, n, q, p, t)
<1> DEFINE m       == Head(q)
           hasAck  == prevIncomingSequenceNumber[e] # prevAckedSequenceNumber[e]
           acks    == IF hasAck THEN prevIncomingSequenceNumber[e] ELSE NoNumber
           room    == Capacity(m, hasAck)
           ending  == Len(m.data) - m.read <= room
           upTo    == IF ending THEN Len(m.data) ELSE m.read + room
           t       == <<[m EXCEPT !.read = upTo]>> \o Tail(q)
           p       == [sequenceNumber     |-> NextSequenceNumber(e),
                       ackNumber          |-> acks,
                       isBeginningSegment |-> Begins(m),
                       isEndingSegment    |-> ending,
                       messageLength      |-> IF Begins(m) THEN Len(m.data) ELSE NoNumber,
                       segmentPayload     |-> SubSeq(m.data, m.read + 1, upTo)]
<1>1. /\ Write(e, p) /\ Number(e, acks)
      /\ sendAckTimer' = [sendAckTimer EXCEPT ![e] = @ /\ ~hasAck]
      /\ queuedOutgoingMatterMessages' = [queuedOutgoingMatterMessages EXCEPT ![e] = t]
      /\ sendInProgress' = [sendInProgress EXCEPT ![e] = TRUE]
      /\ segmentWrite' = [segmentWrite EXCEPT ![e] = IF ending THEN "ending" ELSE "segment"]
      /\ ackWrite' = IF e = Peripheral THEN [ackWrite EXCEPT ![e] = FALSE] ELSE ackWrite
  BY DEF WriteSegment
<1>2. hasAck \in BOOLEAN /\ ending \in BOOLEAN /\ Begins(m) \in BOOLEAN
  BY DEF Begins
<1>3. m \in Item
  BY HeadFacts
<1>4. room \in Nat /\ room >= 1
  BY <1>2, <1>3, RoomFacts
<1>5. ending <=> Len(m.data) - m.read <= room
  OBVIOUS
<1>6. acks \in {NoNumber} \cup SequenceNumbers
  BY DEF Shapes
<1>7. /\ acks = prevIncomingSequenceNumber[e]
         \/ (acks = NoNumber /\ prevAckedSequenceNumber[e] = prevIncomingSequenceNumber[e])
  OBVIOUS
<1> HIDE DEF room, hasAck, acks
<1> DEFINE end == ending
<1> HIDE DEF end
<1>8. end \in BOOLEAN /\ (end <=> Len(m.data) - m.read <= room) /\ end = ending
  BY DEF end
<1>9. upTo = IF end THEN Len(m.data) ELSE m.read + room
  BY DEF end
<1> HIDE DEF ending, m
<1>10. m = Head(q)
  BY DEF m
<1> HIDE DEF upTo
<1>11. /\ SubSeq(m.data, m.read + 1, upTo) \in Seq(Byte)
       /\ SubSeq(m.data, m.read + 1, upTo) # <<>>
       /\ Len(m.data) \in Nat
  BY <1>4, <1>8, <1>9, <1>10, CutPayload
<1>12. p \in AnyPacket
  <2>1. NextSequenceNumber(e) \in SequenceNumbers
    BY NextNumberType
  <2>2. (IF Begins(m) THEN Len(m.data) ELSE NoNumber) \in {NoNumber} \cup Nat
    BY <1>11
  <2> QED
    BY <2>1, <2>2, <1>2, <1>6, <1>11 DEF AnyPacket
<1>13. /\ p.sequenceNumber = NextSequenceNumber(e) /\ p.ackNumber = acks
       /\ p.isBeginningSegment = Begins(m) /\ p.isEndingSegment = ending
       /\ p.messageLength = (IF Begins(m) THEN Len(m.data) ELSE NoNumber)
       /\ p.segmentPayload = SubSeq(m.data, m.read + 1, upTo)
  OBVIOUS
<1>30. t = <<[m EXCEPT !.read = upTo]>> \o Tail(q)
  OBVIOUS
<1> HIDE DEF p, t
<1>14. /\ Queued(e, n, t) /\ t # <<>>
       /\ HeadRead(t) <=> end
       /\ Carries(e, p, Reached(e, n, q), Reached(e, n, t))
  <2>1. /\ p.isBeginningSegment <=> Begins(m)
        /\ p.isEndingSegment <=> end
        /\ p.messageLength = IF Begins(m) THEN Len(m.data) ELSE NoNumber
    BY <1>8, <1>13
  <2>2. p.segmentPayload = SubSeq(m.data, m.read + 1, upTo)
    BY <1>13
  <2>3. IsCut(q, room, end, upTo, p, t)
    BY <2>1, <2>2, <1>8, <1>9, <1>10, <1>30 DEF IsCut
  <2> QED
    BY <1>4, <1>8, <1>12, <2>3, Cut
<1>15. Sends(e, p)
  BY <1>1, <1>7, <1>12, <1>13 DEF Sends
<1>16. IsSegment(p)
  BY <1>11, <1>13 DEF IsSegment
<1>17. /\ segmentWrite' \in [End -> {"none", "segment", "ending"}]
       /\ segmentWrite'[Other(e)] = segmentWrite[Other(e)]
       /\ segmentWrite'[e] = IF end THEN "ending" ELSE "segment"
  <2>1. segmentWrite' = [segmentWrite EXCEPT ![e] = IF end THEN "ending" ELSE "segment"]
    BY <1>1, <1>8
  <2> QED
    BY <2>1, Ends DEF Shapes
<1>18. ackWrite' \in [End -> BOOLEAN]
  BY <1>1 DEF Shapes
<1>19. sendAckTimer' \in [End -> BOOLEAN] /\ sendAckTimer'[Other(e)] = sendAckTimer[Other(e)]
  <2> DEFINE runs == sendAckTimer[e] /\ ~hasAck
  <2>1. runs \in BOOLEAN
    OBVIOUS
  <2>2. sendAckTimer' = [sendAckTimer EXCEPT ![e] = runs]
    BY <1>1
  <2>3. sendAckTimer \in [End -> BOOLEAN]
    BY DEF Shapes
  <2> HIDE DEF runs
  <2> QED
    BY <2>1, <2>2, <2>3, Ends
<1>20. segmentWrite'[e] # "none" /\ (HeadRead(t) <=> segmentWrite'[e] = "ending")
  BY <1>14, <1>17
<1>21. SendsSegment(e, n, q, p, t)
  BY <1>1, <1>14, <1>15, <1>16, <1>17, <1>18, <1>19, <1>20 DEF SendsSegment
<1> QED
  BY <1>21

-----------------------------------------------------------------------------
(* Content: the steps *)

LEMMA ContentInit ==
  Init => ContentInv
<1> SUFFICES ASSUME Init PROVE ContentInv
  OBVIOUS
<1>1. Shapes
  <2>1. /\ isActive \in [End -> BOOLEAN] /\ sendInProgress \in [End -> BOOLEAN]
        /\ ackWrite \in [End -> BOOLEAN] /\ windowFilled \in [End -> BOOLEAN]
        /\ confirmationLost \in [End -> BOOLEAN] /\ refused \in [End -> BOOLEAN]
        /\ wrapped \in BOOLEAN
    BY DEF Init
  <2>2. ackReceiveTimer \in [End -> BOOLEAN] /\ sendAckTimer \in [End -> BOOLEAN]
    BY DEF Init
  <2>3. /\ prevIncomingSequenceNumber \in [End -> SequenceNumbers]
        /\ prevIncomingAckNumber \in [End -> {-1} \cup SequenceNumbers]
        /\ sequenceNumber \in [End -> {-1} \cup SequenceNumbers]
        /\ prevAckedSequenceNumber \in [End -> {-1} \cup SequenceNumbers]
    BY NumberTypes DEF Init, SequenceNumbers
  <2>4. /\ queuedOutgoingMatterMessages \in [End -> Seq(Item)]
        /\ segmentWrite \in [End -> {"none", "segment", "ending"}]
        /\ link \in [End -> Seq(AnyPacket)]
        /\ accepted \in [End -> Seq(Seq(Byte))]
        /\ delivered \in [End -> Seq(Seq(Byte))]
    BY DEF Init
  <2>5. currentIncoming \in [End -> [length : {NoNumber} \cup Nat, payload : Seq(Byte)]]
    BY DEF Init, NoMessage
  <2> QED
    BY <2>1, <2>2, <2>3, <2>4, <2>5 DEF Shapes
<1>2. ASSUME NEW e \in End
      PROVE  Sender(e) /\ Assembling(e) /\ Flow(e)
  <2>1. Other(e) \in End
    BY Ends
  <2>2. /\ queuedOutgoingMatterMessages[e] = <<>> /\ accepted[e] = <<>>
        /\ segmentWrite[e] = "none" /\ confirmationLost[e] = FALSE
        /\ currentIncoming[e] = NoMessage
        /\ isActive[Other(e)] /\ link[Other(e)] = <<>> /\ delivered[Other(e)] = <<>>
        /\ currentIncoming[Other(e)] = NoMessage
    BY <2>1 DEF Init
  <2>3. Queued(e, 0, <<>>)
    <3>1. <<>> \in Seq(Item) /\ Len(<<>>) = 0
      BY EmptySeq
    <3>2. 0 <= Len(Outgoing[e])
      BY BtpAssumption
    <3> QED
      BY <3>1, <3>2 DEF Queued
  <2>4. Sender(e)
    BY <2>2, <2>3 DEF Sender
  <2>5. Flow(e)
    <3> DEFINE a == [message |-> 1, offset |-> 0]
    <3>1. a \in Position
      BY DEF Position
    <3>2. Place(Other(e)) = a
      BY <2>2 DEF Place, NoMessage
    <3>3. Reached(e, Len(accepted[e]), queuedOutgoingMatterMessages[e]) = a
      BY <2>2 DEF Reached
    <3> HIDE DEF a
    <3>4. Stream(e, <<>>, a, a)
      BY <3>1, StreamEmpty
    <3> QED
      BY <2>2, <3>2, <3>3, <3>4 DEF Flow
  <2> QED
    BY <2>2, <2>4, <2>5 DEF Assembling
<1> QED
  BY <1>1, <1>2 DEF ContentInv

(* A step of e that concerns its queue only. *)
LEMMA ContentQueue ==
  ASSUME ContentInv, Shapes', NEW e \in End, Sender(e)',
         UNCHANGED <<isActive, link, delivered, currentIncoming>>,
         accepted'[Other(e)] = accepted[Other(e)],
         queuedOutgoingMatterMessages'[Other(e)] = queuedOutgoingMatterMessages[Other(e)],
         segmentWrite'[Other(e)] = segmentWrite[Other(e)],
         sendInProgress'[Other(e)] = sendInProgress[Other(e)],
         confirmationLost'[Other(e)] = confirmationLost[Other(e)],
         Reached(e, Len(accepted[e]), queuedOutgoingMatterMessages[e])'
           = Reached(e, Len(accepted[e]), queuedOutgoingMatterMessages[e])
  PROVE  ContentInv'
<1> DEFINE f == Other(e)
<1>1. f \in End /\ Other(f) = e /\ \A g \in End : g = e \/ g = f
  BY Ends
<1>2. Sender(f)'
  BY <1>1, SenderFrame DEF ContentInv
<1>3. \A g \in End : Assembling(g)' /\ Place(g)' = Place(g)
  BY AssemblingFrame DEF ContentInv
<1>4. Flow(e)'
  BY <1>1, <1>3, FlowFrame DEF ContentInv
<1>5. Reached(f, Len(accepted[f]), queuedOutgoingMatterMessages[f])'
        = Reached(f, Len(accepted[f]), queuedOutgoingMatterMessages[f])
  BY <1>1 DEF Reached
<1>6. Flow(f)'
  BY <1>1, <1>3, <1>5, FlowFrame DEF ContentInv
<1> QED
  BY <1>1, <1>2, <1>3, <1>4, <1>6 DEF ContentInv

(* A step of e that writes a packet. *)
LEMMA ContentSends ==
  ASSUME ContentInv, Shapes', NEW e \in End, Sender(e)', NEW p, Sends(e, p),
         UNCHANGED <<isActive, delivered, currentIncoming>>,
         accepted'[Other(e)] = accepted[Other(e)],
         queuedOutgoingMatterMessages'[Other(e)] = queuedOutgoingMatterMessages[Other(e)],
         segmentWrite'[Other(e)] = segmentWrite[Other(e)],
         sendInProgress'[Other(e)] = sendInProgress[Other(e)],
         confirmationLost'[Other(e)] = confirmationLost[Other(e)],
         NEW a, a = Reached(e, Len(accepted[e]), queuedOutgoingMatterMessages[e]),
         NEW b, b = Reached(e, Len(accepted[e]), queuedOutgoingMatterMessages[e])',
         Carries(e, p, a, b)
  PROVE  ContentInv'
<1> DEFINE f == Other(e)
<1>1. f \in End /\ Other(f) = e /\ \A g \in End : g = e \/ g = f
  BY Ends
<1>2. Sender(f)'
  BY <1>1, SenderFrame DEF ContentInv
<1>3. \A g \in End : Assembling(g)' /\ Place(g)' = Place(g)
  BY AssemblingFrame DEF ContentInv
<1>4. Flow(e)'
  <2>1. p \in AnyPacket /\ Write(e, p)
    BY DEF Sends
  <2>2. Shapes /\ Flow(e)
    BY DEF ContentInv
  <2> QED
    BY <2>1, <2>2, <1>1, <1>3, FlowWrite
<1>5. Reached(f, Len(accepted[f]), queuedOutgoingMatterMessages[f])'
        = Reached(f, Len(accepted[f]), queuedOutgoingMatterMessages[f])
  BY <1>1 DEF Reached
<1>6. Flow(f)'
  <2>1. link'[e] = link[e]
    BY SendsShapes DEF ContentInv
  <2> QED
    BY <2>1, <1>1, <1>3, <1>5, FlowFrame DEF ContentInv
<1> QED
  BY <1>1, <1>2, <1>3, <1>4, <1>6 DEF ContentInv

(* A step of e that writes a segment. *)
LEMMA ContentSegment ==
  ASSUME ContentInv, NEW e \in End, NEW n \in Nat, NEW q, NEW p, NEW t,
         SendsSegment(e, n, q, p, t),
         UNCHANGED <<fieldVars, currentIncoming, delivered, confirmationLost, refused>>,
         ackReceiveTimer' \in [End -> BOOLEAN],
         accepted' \in [End -> Seq(Seq(Byte))],
         accepted'[Other(e)] = accepted[Other(e)],
         Len(accepted'[e]) = n,
         \A i \in 1 .. n : accepted'[e][i] = MessageData(e, i),
         ~confirmationLost[e],
         Reached(e, n, q) = Reached(e, Len(accepted[e]), queuedOutgoingMatterMessages[e])
  PROVE  ContentInv'
<1> DEFINE f == Other(e)
<1>1. f \in End /\ f # e
  BY Ends
<1>2. Shapes /\ Sends(e, p)
  BY DEF ContentInv, SendsSegment
<1>3. /\ Queued(e, n, t) /\ t # <<>>
      /\ Carries(e, p, Reached(e, n, q), Reached(e, n, t))
      /\ queuedOutgoingMatterMessages' = [queuedOutgoingMatterMessages EXCEPT ![e] = t]
      /\ sendInProgress' = [sendInProgress EXCEPT ![e] = TRUE]
      /\ segmentWrite' \in [End -> {"none", "segment", "ending"}]
      /\ segmentWrite'[f] = segmentWrite[f]
      /\ segmentWrite'[e] # "none"
      /\ HeadRead(t) <=> segmentWrite'[e] = "ending"
      /\ ackWrite' \in [End -> BOOLEAN]
      /\ sendAckTimer' \in [End -> BOOLEAN]
  BY DEF SendsSegment
<1> HIDE DEF f
<1>4. t \in Seq(Item)
  BY <1>3 DEF Queued
<1>5. /\ queuedOutgoingMatterMessages'[e] = t
      /\ queuedOutgoingMatterMessages'[f] = queuedOutgoingMatterMessages[f]
      /\ queuedOutgoingMatterMessages' \in [End -> Seq(Item)]
      /\ sendInProgress'[e] = TRUE
      /\ sendInProgress'[f] = sendInProgress[f]
      /\ sendInProgress' \in [End -> BOOLEAN]
  BY <1>1, <1>2, <1>3, <1>4 DEF Shapes
<1>6. Shapes'
  <2>1. /\ link' \in [End -> Seq(AnyPacket)]
        /\ sequenceNumber' \in [End -> {-1} \cup SequenceNumbers]
        /\ prevAckedSequenceNumber' \in [End -> {-1} \cup SequenceNumbers]
        /\ wrapped' \in BOOLEAN
        /\ windowFilled' \in [End -> BOOLEAN]
    BY <1>2, SendsShapes
  <2>2. /\ isActive' = isActive /\ prevIncomingSequenceNumber' = prevIncomingSequenceNumber
        /\ prevIncomingAckNumber' = prevIncomingAckNumber
        /\ currentIncoming' = currentIncoming /\ delivered' = delivered
        /\ confirmationLost' = confirmationLost /\ refused' = refused
    BY DEF fieldVars
  <2> QED
    BY <1>2, <1>3, <1>5, <2>1, <2>2 DEF Shapes
<1>7. Sender(e)'
  <2>1. confirmationLost'[e] = confirmationLost[e]
    OBVIOUS
  <2> QED
    BY <2>1, <1>3, <1>5 DEF Sender
<1>8. Reached(e, n, t) = Reached(e, Len(accepted[e]), queuedOutgoingMatterMessages[e])'
  BY <1>5
<1>9. isActive' = isActive /\ confirmationLost'[f] = confirmationLost[f]
  BY DEF fieldVars
<1>10. Sends(e, p)
  BY <1>2
<1> QED
  BY <1>3, <1>5, <1>6, <1>7, <1>8, <1>9, <1>10, ContentSends DEF f

(* sendMatterMessage() *)
LEMMA ContentSendMatterMessage ==
  ASSUME ContentInv, NEW e \in End, SendMatterMessage(e)
  PROVE  ContentInv'
<1> DEFINE f == Other(e)
           n == Len(accepted[e])
           q == queuedOutgoingMatterMessages[e]
           data == MessageData(e, n + 1)
           t == Append(q, [data |-> data, read |-> 0])
<1>1. f \in End /\ f # e /\ Other(f) = e
  BY Ends
<1>2. Shapes /\ Sender(e)
  BY DEF ContentInv
<1>3. n \in Nat /\ accepted[e] \in Seq(Seq(Byte)) /\ accepted \in [End -> Seq(Seq(Byte))]
  BY <1>2 DEF Shapes
<1>4. n < Len(Outgoing[e]) /\ Len(Outgoing[e]) \in Nat
  BY BtpAssumption DEF SendMatterMessage, CanSend
<1>5. n + 1 \in Nat /\ n + 1 <= Len(Outgoing[e]) /\ n + 1 \in DOMAIN Outgoing[e]
  BY <1>3, <1>4, BtpAssumption
<1>6. data \in Seq(Byte)
  BY <1>5, MessageFacts
<1>7. Queued(e, n, q)
  BY <1>2 DEF Sender
<1>8. /\ Queued(e, n + 1, t) /\ t # <<>>
      /\ HeadRead(t) <=> HeadRead(q)
      /\ Reached(e, n + 1, t) = Reached(e, n, q)
  BY <1>3, <1>5, <1>7, Push, ZenonT(40)
<1>9. /\ accepted' = [accepted EXCEPT ![e] = Append(accepted[e], data)]
      /\ \/ ~sendInProgress[e] /\ WriteSegment(e, t)
         \/ LeaveQueue(e, t, sendInProgress[e]) /\ UNCHANGED segmentWrite
      /\ UNCHANGED <<fieldVars, ackReceiveTimer, currentIncoming, delivered, confirmationLost, refused>>
  BY DEF SendMatterMessage
<1> HIDE DEF data, t, f
<1>10. /\ accepted' \in [End -> Seq(Seq(Byte))]
       /\ accepted'[f] = accepted[f]
       /\ Len(accepted'[e]) = n + 1
       /\ \A i \in 1 .. n + 1 : accepted'[e][i] = MessageData(e, i)
  <2>1. /\ Append(accepted[e], data) \in Seq(Seq(Byte))
        /\ Len(Append(accepted[e], data)) = n + 1
        /\ Append(accepted[e], data)[n + 1] = data
        /\ \A i \in 1 .. n : Append(accepted[e], data)[i] = accepted[e][i]
    BY <1>3, <1>6, AppendProperties
  <2>2. accepted'[e] = Append(accepted[e], data) /\ accepted'[f] = accepted[f]
        /\ accepted' \in [End -> Seq(Seq(Byte))]
    BY <1>1, <1>3, <1>9, <2>1
  <2>3. \A i \in 1 .. n : accepted[e][i] = MessageData(e, i)
    BY <1>2 DEF Sender
  <2>4. ASSUME NEW i \in 1 .. n + 1
        PROVE  accepted'[e][i] = MessageData(e, i)
    <3>1. CASE i = n + 1
      BY <3>1, <2>1, <2>2 DEF data
    <3>2. CASE i # n + 1
      <4>1. i \in 1 .. n
        BY <3>2, <1>3
      <4> QED
        BY <4>1, <2>1, <2>2, <2>3
    <3> QED
      BY <3>1, <3>2
  <2> QED
    BY <2>1, <2>2, <2>4
<1>11. CASE ~sendInProgress[e] /\ WriteSegment(e, t)
  <2>1. segmentWrite[e] = "none" /\ ~confirmationLost[e] /\ sendInProgress[e] = FALSE
    BY <1>2, <1>11 DEF Sender, Shapes
  <2>2. ~HeadRead(q)
    BY <1>2, <2>1 DEF Sender, HeadRead
  <2>3. PICK p, u : SendsSegment(e, n + 1, t, p, u)
    BY <1>2, <1>5, <1>8, <1>11, <2>2, WriteSegmentSends
  <2>4. ackReceiveTimer' \in [End -> BOOLEAN]
    BY <1>2, <1>9 DEF Shapes
  <2>5. UNCHANGED <<fieldVars, currentIncoming, delivered, confirmationLost, refused>>
    BY <1>9
  <2> QED
    BY <2>1, <2>3, <2>4, <2>5, <1>5, <1>8, <1>10, ContentSegment DEF f
<1>12. CASE LeaveQueue(e, t, sendInProgress[e]) /\ UNCHANGED segmentWrite
  <2>1. /\ queuedOutgoingMatterMessages' = [queuedOutgoingMatterMessages EXCEPT ![e] = t]
        /\ sendInProgress' = [sendInProgress EXCEPT ![e] = sendInProgress[e]]
        /\ UNCHANGED <<ackVars, sendAckTimer, ackWrite, link, segmentWrite>>
    BY <1>12 DEF LeaveQueue
  <2>2. t \in Seq(Item)
    BY <1>8 DEF Queued
  <2>3. /\ queuedOutgoingMatterMessages'[e] = t
        /\ queuedOutgoingMatterMessages'[f] = queuedOutgoingMatterMessages[f]
        /\ queuedOutgoingMatterMessages' \in [End -> Seq(Item)]
        /\ sendInProgress' = sendInProgress
    BY <1>1, <1>2, <2>1, <2>2 DEF Shapes
  <2>4. Shapes'
    BY <1>2, <1>9, <1>10, <2>1, <2>3 DEF Shapes, fieldVars, ackVars
  <2>5. Sender(e)'
    <3>1. t # <<>> /\ (HeadRead(t) <=> HeadRead(q)) /\ (HeadRead(q) => q # <<>>)
      BY <1>8 DEF HeadRead
    <3>2. segmentWrite'[e] = segmentWrite[e] /\ confirmationLost'[e] = confirmationLost[e]
      BY <1>9, <2>1
    <3>3. ~confirmationLost[e] => (HeadRead(t) <=> segmentWrite[e] = "ending")
      BY <1>2, <3>1 DEF Sender
    <3>4. Queued(e, n + 1, t)
      BY <1>8
    <3> QED
      BY <1>2, <1>10, <2>3, <3>1, <3>2, <3>3, <3>4 DEF Sender
  <2>6. Reached(e, Len(accepted[e]), queuedOutgoingMatterMessages[e])'
          = Reached(e, Len(accepted[e]), queuedOutgoingMatterMessages[e])
    BY <1>8, <1>10, <2>3
  <2>7. UNCHANGED <<isActive, link, delivered, currentIncoming, segmentWrite, sendInProgress, confirmationLost>>
    BY <1>9, <2>1, <2>3 DEF fieldVars
  <2> QED
    BY <1>10, <2>3, <2>4, <2>5, <2>6, <2>7, ContentQueue DEF f
<1> QED
  BY <1>9, <1>11, <1>12

(* The promise of a segment is settled *)
LEMMA ContentSegmentWritten ==
  ASSUME ContentInv, NEW e \in End, SegmentWritten(e)
  PROVE  ContentInv'
<1> DEFINE f == Other(e)
           n == Len(accepted[e])
           q == queuedOutgoingMatterMessages[e]
           t == IF segmentWrite[e] = "ending" THEN Tail(q) ELSE q
<1>1. f \in End /\ f # e /\ Other(f) = e
  BY Ends
<1>2. Shapes /\ Sender(e)
  BY DEF ContentInv
<1>3. n \in Nat /\ accepted \in [End -> Seq(Seq(Byte))]
  BY <1>2 DEF Shapes
<1>4. Queued(e, n, q)
  BY <1>2 DEF Sender
<1>5. /\ segmentWrite[e] # "none"
      /\ ackReceiveTimer' = [ackReceiveTimer EXCEPT ![e] = TRUE]
      /\ \/ GoesOn(e, t) /\ WriteSegment(e, t)
         \/ /\ LeaveQueue(e, t, FALSE)
            /\ segmentWrite' = [segmentWrite EXCEPT ![e] = "none"]
      /\ UNCHANGED <<fieldVars, currentIncoming, accepted, delivered, confirmationLost, refused>>
  BY DEF SegmentWritten
<1>6. q # <<>> /\ ~confirmationLost[e] /\ (HeadRead(q) <=> segmentWrite[e] = "ending")
  BY <1>2, <1>5 DEF Sender
<1>7. Queued(e, n, t) /\ ~HeadRead(t) /\ Reached(e, n, t) = Reached(e, n, q)
  <2>1. CASE segmentWrite[e] = "ending"
    BY <2>1, <1>3, <1>4, <1>6, Pop
  <2>2. CASE segmentWrite[e] # "ending"
    BY <2>2, <1>4, <1>6
  <2> QED
    BY <2>1, <2>2
<1> HIDE DEF t, f
<1>8. ackReceiveTimer' \in [End -> BOOLEAN] /\ accepted' = accepted
  BY <1>2, <1>5 DEF Shapes
<1>9. CASE GoesOn(e, t) /\ WriteSegment(e, t)
  <2>1. t # <<>>
    BY <1>9 DEF GoesOn
  <2>2. PICK p, u : SendsSegment(e, n, t, p, u)
    BY <1>2, <1>3, <1>7, <1>9, <2>1, WriteSegmentSends
  <2>3. /\ accepted' \in [End -> Seq(Seq(Byte))]
        /\ accepted'[Other(e)] = accepted[Other(e)]
        /\ Len(accepted'[e]) = n
        /\ \A i \in 1 .. n : accepted'[e][i] = MessageData(e, i)
    BY <1>2, <1>3, <1>8 DEF Sender
  <2>4. UNCHANGED <<fieldVars, currentIncoming, delivered, confirmationLost, refused>>
    BY <1>5
  <2> QED
    BY <1>3, <1>6, <1>7, <1>8, <2>2, <2>3, <2>4, ContentSegment
<1>10. CASE LeaveQueue(e, t, FALSE) /\ segmentWrite' = [segmentWrite EXCEPT ![e] = "none"]
  <2>1. /\ queuedOutgoingMatterMessages' = [queuedOutgoingMatterMessages EXCEPT ![e] = t]
        /\ sendInProgress' = [sendInProgress EXCEPT ![e] = FALSE]
        /\ segmentWrite' = [segmentWrite EXCEPT ![e] = "none"]
        /\ UNCHANGED <<ackVars, sendAckTimer, ackWrite, link>>
    BY <1>10 DEF LeaveQueue
  <2>2. t \in Seq(Item)
    BY <1>7 DEF Queued
  <2>3. /\ queuedOutgoingMatterMessages'[e] = t
        /\ queuedOutgoingMatterMessages'[f] = queuedOutgoingMatterMessages[f]
        /\ queuedOutgoingMatterMessages' \in [End -> Seq(Item)]
        /\ sendInProgress'[f] = sendInProgress[f]
        /\ sendInProgress' \in [End -> BOOLEAN]
        /\ segmentWrite'[e] = "none" /\ segmentWrite'[f] = segmentWrite[f]
        /\ segmentWrite' \in [End -> {"none", "segment", "ending"}]
    BY <1>1, <1>2, <2>1, <2>2 DEF Shapes
  <2>4. Shapes'
    BY <1>2, <1>5, <1>8, <2>1, <2>3 DEF Shapes, fieldVars, ackVars
  <2>5. Sender(e)'
    <3>1. confirmationLost'[e] = confirmationLost[e]
      BY <1>5
    <3> QED
      BY <1>2, <1>6, <1>7, <1>8, <2>3, <3>1 DEF Sender
  <2>6. Reached(e, Len(accepted[e]), queuedOutgoingMatterMessages[e])'
          = Reached(e, Len(accepted[e]), queuedOutgoingMatterMessages[e])
    BY <1>7, <1>8, <2>3
  <2>7. UNCHANGED <<isActive, link, delivered, currentIncoming, accepted, confirmationLost>>
    BY <1>5, <2>1 DEF fieldVars
  <2> QED
    BY <2>3, <2>4, <2>5, <2>6, <2>7, ContentQueue DEF f
<1> QED
  BY <1>5, <1>9, <1>10

(* What a receiver does with the next packet of the stream: it is valid as a  *)
(* segment, and it completes the message or leaves a part of it.              *)
LEMMA Receive ==
  ASSUME Shapes, NEW e \in End, NEW g, g = Other(e), Assembling(e),
         NEW p \in AnyPacket, NEW c, Carries(g, p, Place(e), c),
         NEW n, n = Len(delivered[e]) + 1
  PROVE  /\ HasContent(p) /\ ValidSegment(e, p) /\ ValidLength(e, p)
         /\ p.isEndingSegment =>
              /\ n \in DOMAIN Outgoing[g]
              /\ Assembled(e, p).payload = MessageData(g, n)
              /\ c = [message |-> n + 1, offset |-> 0]
         /\ ~p.isEndingSegment =>
              /\ c = [message |-> n, offset |-> Len(Assembled(e, p).payload)]
              /\ \/ Assembled(e, p) = NoMessage
                 \/ /\ n \in DOMAIN Outgoing[g]
                    /\ \E o \in 1 .. Outgoing[g][n] - 1 :
                         Assembled(e, p) = [length  |-> Outgoing[g][n],
                                            payload |-> SubSeq(MessageData(g, n), 1, o)]
<1> DEFINE cur == currentIncoming[e]
           a == Place(e)
<1>1. g \in End
  BY Ends
<1>2. a = [message |-> n, offset |-> Len(cur.payload)] /\ a.message = n /\ a.offset = Len(cur.payload)
  BY DEF Place
<1>3. cur \in [length : {NoNumber} \cup Nat, payload : Seq(Byte)] /\ cur.payload \in Seq(Byte)
  BY DEF Shapes
<1>4. n \in Nat /\ Len(cur.payload) \in Nat
  BY <1>3 DEF Shapes
<1>5. \/ cur = NoMessage
      \/ /\ n \in DOMAIN Outgoing[g]
         /\ \E o \in 1 .. Outgoing[g][n] - 1 :
              cur = [length |-> Outgoing[g][n], payload |-> SubSeq(MessageData(g, n), 1, o)]
  BY DEF Assembling
<1> HIDE DEF a
<1>6. Carries(g, p, a, c)
  BY DEF a
<1>7. CASE /\ p.segmentPayload = <<>> /\ ~p.isBeginningSegment /\ ~p.isEndingSegment
           /\ p.ackNumber # NoNumber /\ c = a
  <2>1. cur.payload \o <<>> = cur.payload
    BY <1>3
  <2>2. Assembled(e, p) = [cur EXCEPT !.payload = cur.payload \o p.segmentPayload]
    BY <1>7 DEF Assembled
  <2>3. Assembled(e, p) = cur
    BY <1>3, <1>7, <2>1, <2>2
  <2> QED
    BY <1>2, <1>5, <1>7, <2>3 DEF HasContent, ValidSegment, ValidLength, IsSegment
<1>8. CASE /\ a.message \in DOMAIN Outgoing[g]
           /\ \E upTo \in (a.offset + 1) .. Outgoing[g][a.message] :
                /\ p.segmentPayload = SubSeq(MessageData(g, a.message), a.offset + 1, upTo)
                /\ p.isBeginningSegment <=> a.offset = 0
                /\ p.isEndingSegment <=> upTo = Outgoing[g][a.message]
                /\ p.messageLength = IF a.offset = 0 THEN Outgoing[g][a.message] ELSE NoNumber
                /\ c = After(g, a.message, upTo)
  <2> DEFINE total == Outgoing[g][n]
             data == MessageData(g, n)
             k == Len(cur.payload)
  <2>1. n \in DOMAIN Outgoing[g]
    BY <1>2, <1>8
  <2>2. PICK upTo \in (k + 1) .. total :
          /\ p.segmentPayload = SubSeq(data, k + 1, upTo)
          /\ p.isBeginningSegment <=> k = 0
          /\ p.isEndingSegment <=> upTo = total
          /\ k = 0 => p.messageLength = total
          /\ c = After(g, n, upTo)
    BY <1>2, <1>8
  <2>3. total \in Nat /\ total >= 1 /\ Len(data) = total /\ k \in Nat
    BY <1>1, <1>4, <2>1, MessageFacts
  <2>4. upTo \in Nat /\ upTo >= k + 1 /\ upTo <= total /\ upTo >= 1
    BY <2>2, <2>3
  <2>5. SubSeq(data, 1, upTo) \in Seq(Byte) /\ Len(SubSeq(data, 1, upTo)) = upTo
    <3>1. 1 \in Nat /\ upTo - 1 + 1 = upTo
      BY <2>4
    <3> QED
      BY <3>1, <1>1, <2>1, <2>4, PartFacts
  <2> HIDE DEF total, data
  <2>6. Assembled(e, p) = [length |-> total, payload |-> SubSeq(data, 1, upTo)]
        /\ (k = 0 <=> cur.payload = <<>>)
    <3>1. CASE cur = NoMessage
      <4>1. cur.payload = <<>> /\ k = 0
        BY <3>1 DEF NoMessage
      <4>2. p.isBeginningSegment /\ p.messageLength = total /\ p.segmentPayload = SubSeq(data, 1, upTo)
        BY <4>1, <2>2
      <4> QED
        BY <4>1, <4>2 DEF Assembled
    <3>2. CASE cur # NoMessage
      <4>1. PICK o \in 1 .. total - 1 : cur = [length |-> total, payload |-> SubSeq(data, 1, o)]
        BY <3>2, <1>5 DEF total, data
      <4>2. o \in Nat /\ o >= 1 /\ o < total /\ 1 \in Nat /\ o - 1 + 1 = o
        BY <4>1, <2>3
      <4>3. Len(SubSeq(data, 1, o)) = o
        BY <4>2, <1>1, <2>1, PartFacts DEF total, data
      <4>4. k = o /\ cur.payload = SubSeq(data, 1, o) /\ cur.length = total
        BY <4>1, <4>3
      <4>5. cur.payload # <<>> /\ k # 0
        <5>1. k # 0
          BY <4>2, <4>4
        <5>2. cur.payload = <<>> => k = 0
          OBVIOUS
        <5> QED
          BY <5>1, <5>2
      <4>6. ~p.isBeginningSegment /\ p.segmentPayload = SubSeq(data, o + 1, upTo)
        BY <2>2, <4>4, <4>5
      <4>7. SubSeq(data, 1, o) \o SubSeq(data, o + 1, upTo) = SubSeq(data, 1, upTo)
        BY <4>2, <4>4, <1>1, <2>1, <2>4, PartsJoin DEF total, data
      <4>8. Assembled(e, p) = [cur EXCEPT !.payload = cur.payload \o p.segmentPayload]
        BY <4>6 DEF Assembled
      <4>9. cur.payload \o p.segmentPayload = SubSeq(data, 1, upTo)
        BY <4>4, <4>6, <4>7
      <4>10. [cur EXCEPT !.payload = SubSeq(data, 1, upTo)] = [length |-> total, payload |-> SubSeq(data, 1, upTo)]
        <5> DEFINE x == SubSeq(data, 1, upTo)
                   y == SubSeq(data, 1, o)
        <5> HIDE DEF x, y
        <5>1. cur = [length |-> total, payload |-> y]
          BY <4>1 DEF y
        <5>2. [cur EXCEPT !.payload = x] = [length |-> total, payload |-> x]
          BY <5>1
        <5> QED
          BY <5>2 DEF x
      <4> QED
        BY <4>5, <4>8, <4>9, <4>10
    <3> QED
      BY <3>1, <3>2
  <2>7. HasContent(p) /\ ValidSegment(e, p)
    <3>1. SubSeq(data, k + 1, upTo) \in Seq(Byte) /\ Len(SubSeq(data, k + 1, upTo)) = upTo - (k + 1) + 1
      <4>1. k + 1 \in Nat /\ k + 1 >= 1 /\ k + 1 <= upTo /\ upTo <= Outgoing[g][n]
        BY <2>3, <2>4 DEF total
      <4> QED
        BY <4>1, <1>1, <2>1, <2>4, PartFacts DEF data
    <3>2. upTo - (k + 1) + 1 > 0
      BY <2>3, <2>4
    <3>3. p.segmentPayload # <<>>
      <4>1. Len(p.segmentPayload) > 0
        BY <2>2, <3>1, <3>2
      <4>2. p.segmentPayload = <<>> => Len(p.segmentPayload) = 0
        OBVIOUS
      <4> QED
        BY <4>1, <4>2
    <3> QED
      BY <3>3, <2>2, <2>6 DEF HasContent, ValidSegment, IsSegment
  <2>8. CASE upTo = total
    <3>1. p.isEndingSegment /\ c = [message |-> n + 1, offset |-> 0]
      BY <2>2, <2>8 DEF After, total
    <3>2. Assembled(e, p).payload = data
      BY <1>1, <2>1, <2>6, <2>8, WholePart DEF total, data
    <3>3. ValidLength(e, p)
      BY <2>3, <2>6, <3>2 DEF ValidLength
    <3> QED
      BY <2>1, <2>7, <3>1, <3>2, <3>3 DEF data
  <2>9. CASE upTo # total
    <3>1. ~p.isEndingSegment /\ c = [message |-> n, offset |-> upTo]
      BY <2>2, <2>9 DEF After, total
    <3>2. upTo \in 1 .. total - 1
      BY <2>3, <2>4, <2>9
    <3>3. ValidLength(e, p)
      BY <3>1 DEF ValidLength
    <3>4. Len(Assembled(e, p).payload) = upTo
      BY <2>5, <2>6
    <3> QED
      BY <2>1, <2>6, <2>7, <3>1, <3>2, <3>3, <3>4 DEF total, data
  <2> QED
    BY <2>8, <2>9
<1> QED
  BY <1>6, <1>7, <1>8 DEF Carries

(* The packet at the head of the link is the next one of the stream. *)
LEMMA NextPacket ==
  ASSUME ContentInv, NEW e \in End, NEW g, g = Other(e), isActive[e], link[e] # <<>>
  PROVE  /\ Head(link[e]) \in AnyPacket
         /\ \E c : /\ Carries(g, Head(link[e]), Place(e), c)
                   /\ Stream(g, Tail(link[e]), c,
                             Reached(g, Len(accepted[g]), queuedOutgoingMatterMessages[g]))
<1>1. g \in End /\ Other(g) = e
  BY Ends
<1>2. link[e] \in Seq(AnyPacket)
  BY DEF ContentInv, Shapes
<1>3. Stream(g, link[e], Place(e), Reached(g, Len(accepted[g]), queuedOutgoingMatterMessages[g]))
  BY <1>1 DEF ContentInv, Flow
<1>4. Head(link[e]) \in AnyPacket
  BY <1>2, HeadTailProperties
<1> QED
  BY <1>1, <1>2, <1>3, <1>4, StreamHead

(* What is handed over was taken, and is the next one. *)
LEMMA CompletedWasAccepted ==
  ASSUME ContentInv, NEW g \in End, NEW s \in Seq(AnyPacket), NEW n \in Nat,
         Stream(g, s, [message |-> n + 1, offset |-> 0],
                Reached(g, Len(accepted[g]), queuedOutgoingMatterMessages[g]))
  PROVE  n <= Len(accepted[g])
<1>1. Len(accepted[g]) \in Nat /\ Queued(g, Len(accepted[g]), queuedOutgoingMatterMessages[g])
  BY DEF ContentInv, Shapes, Sender
<1> DEFINE a == [message |-> n + 1, offset |-> 0]
           b == Reached(g, Len(accepted[g]), queuedOutgoingMatterMessages[g])
<1>2. a.message = n + 1
  OBVIOUS
<1> HIDE DEF a, b
<1>3. a.message <= b.message
  BY StreamForward DEF a, b
<1>4. b \in Position /\ b.message <= Len(accepted[g]) + 1
  BY <1>1, ReachedFacts DEF b
<1>5. b.message \in Nat
  BY <1>4 DEF Position
<1> QED
  BY <1>1, <1>2, <1>3, <1>4, <1>5

(* handleIncomingBleData() *)
LEMMA ContentHandleIncoming ==
  ASSUME ContentInv, NEW e \in End, HandleIncomingBleData(e)
  PROVE  ContentInv'
<1> DEFINE g == Other(e)
           p == Head(link[e])
           n == Len(delivered[e]) + 1
<1>1. g \in End /\ g # e /\ Other(g) = e /\ \A x \in End : x = e \/ x = g
  BY Ends
<1>2. Shapes /\ Assembling(e)
  BY DEF ContentInv
<1>3. /\ isActive[e] /\ link[e] # <<>>
      /\ link' = [link EXCEPT ![e] = Tail(link[e])]
      /\ prevIncomingSequenceNumber' = [prevIncomingSequenceNumber EXCEPT ![e] = p.sequenceNumber]
      /\ sendAckTimer' = [sendAckTimer EXCEPT ![e] = TRUE]
      /\ \/ /\ p.ackNumber = NoNumber
            /\ UNCHANGED <<prevIncomingAckNumber, ackReceiveTimer>>
         \/ /\ prevIncomingAckNumber' = [prevIncomingAckNumber EXCEPT ![e] = p.ackNumber]
            /\ ackReceiveTimer' = [ackReceiveTimer EXCEPT ![e] = p.ackNumber # sequenceNumber[e]]
      /\ UNCHANGED <<isActive, ackVars, sendVars, accepted, confirmationLost, refused>>
  BY DEF HandleIncomingBleData
<1>4. \/ /\ p.isEndingSegment
         /\ delivered' = [delivered EXCEPT ![e] = Append(delivered[e], Assembled(e, p).payload)]
         /\ currentIncoming' = [currentIncoming EXCEPT ![e] = NoMessage]
      \/ /\ ~p.isEndingSegment
         /\ currentIncoming' = [currentIncoming EXCEPT ![e] = Assembled(e, p)]
         /\ UNCHANGED delivered
  BY DEF HandleIncomingBleData, Completes
<1>5. p \in AnyPacket
  BY <1>3, NextPacket
<1>6. PICK c : /\ Carries(g, p, Place(e), c)
               /\ Stream(g, Tail(link[e]), c,
                         Reached(g, Len(accepted[g]), queuedOutgoingMatterMessages[g]))
  BY <1>3, NextPacket
<1>30. g = Other(e) /\ n = Len(delivered[e]) + 1
  OBVIOUS
<1> HIDE DEF p, g, n
<1>7. /\ p.isEndingSegment =>
              /\ n \in DOMAIN Outgoing[g]
              /\ Assembled(e, p).payload = MessageData(g, n)
              /\ c = [message |-> n + 1, offset |-> 0]
      /\ ~p.isEndingSegment =>
              /\ c = [message |-> n, offset |-> Len(Assembled(e, p).payload)]
              /\ \/ Assembled(e, p) = NoMessage
                 \/ /\ n \in DOMAIN Outgoing[g]
                    /\ \E o \in 1 .. Outgoing[g][n] - 1 :
                         Assembled(e, p) = [length  |-> Outgoing[g][n],
                                            payload |-> SubSeq(MessageData(g, n), 1, o)]
  BY <1>2, <1>5, <1>6, <1>30, Receive
<1>8. n \in Nat /\ delivered[e] \in Seq(Seq(Byte)) /\ Len(delivered[e]) \in Nat
  BY <1>2, <1>30 DEF Shapes
<1>9. /\ delivered' \in [End -> Seq(Seq(Byte))] /\ delivered'[g] = delivered[g]
      /\ currentIncoming' \in [End -> [length : {NoNumber} \cup Nat, payload : Seq(Byte)]]
      /\ currentIncoming'[g] = currentIncoming[g]
      /\ Assembling(e)' /\ Place(e)' = c
  <2> DEFINE Record == [length : {NoNumber} \cup Nat, payload : Seq(Byte)]
  <2>1. delivered \in [End -> Seq(Seq(Byte))] /\ currentIncoming \in [End -> Record]
    BY <1>2 DEF Shapes
  <2>2. NoMessage \in Record /\ NoMessage.payload = <<>> /\ Len(<<>>) = 0
    BY DEF NoMessage
  <2>3. CASE p.isEndingSegment
    <3>1. n \in DOMAIN Outgoing[g] /\ Assembled(e, p).payload = MessageData(g, n)
          /\ c = [message |-> n + 1, offset |-> 0]
      BY <1>7, <2>3
    <3>2. MessageData(g, n) \in Seq(Byte)
      BY <1>1, <3>1, MessageFacts
    <3>3. /\ delivered' = [delivered EXCEPT ![e] = Append(delivered[e], MessageData(g, n))]
          /\ currentIncoming' = [currentIncoming EXCEPT ![e] = NoMessage]
      BY <1>4, <2>3, <3>1
    <3>4. /\ Append(delivered[e], MessageData(g, n)) \in Seq(Seq(Byte))
          /\ Len(Append(delivered[e], MessageData(g, n))) = n
      BY <1>8, <1>30, <3>2, AppendProperties
    <3>5. /\ delivered' \in [End -> Seq(Seq(Byte))] /\ delivered'[g] = delivered[g]
          /\ Len(delivered'[e]) = n
      BY <1>1, <2>1, <3>3, <3>4
    <3> HIDE DEF Record
    <3>6. /\ currentIncoming' \in [End -> Record] /\ currentIncoming'[g] = currentIncoming[g]
          /\ currentIncoming'[e] = NoMessage
      BY <1>1, <2>1, <2>2, <3>3
    <3>7. Place(e)' = c
      BY <2>2, <3>1, <3>5, <3>6 DEF Place
    <3> QED
      BY <3>5, <3>6, <3>7 DEF Assembling, Record
  <2>4. CASE ~p.isEndingSegment
    <3>1. /\ delivered' = delivered
          /\ currentIncoming' = [currentIncoming EXCEPT ![e] = Assembled(e, p)]
      BY <1>4, <2>4
    <3>2. /\ c = [message |-> n, offset |-> Len(Assembled(e, p).payload)]
          /\ \/ Assembled(e, p) = NoMessage
             \/ /\ n \in DOMAIN Outgoing[g]
                /\ \E o \in 1 .. Outgoing[g][n] - 1 :
                     Assembled(e, p) = [length  |-> Outgoing[g][n],
                                        payload |-> SubSeq(MessageData(g, n), 1, o)]
      BY <1>7, <2>4
    <3>3. Assembled(e, p) \in Record
      <4>1. CASE Assembled(e, p) = NoMessage
        BY <4>1, <2>2
      <4>2. CASE Assembled(e, p) # NoMessage
        <5>1. PICK o \in 1 .. Outgoing[g][n] - 1 :
                Assembled(e, p) = [length  |-> Outgoing[g][n],
                                   payload |-> SubSeq(MessageData(g, n), 1, o)]
          BY <4>2, <3>2
        <5>2. n \in DOMAIN Outgoing[g] /\ Outgoing[g][n] \in Nat
          BY <1>1, <3>2, <4>2, MessageFacts
        <5>3. o \in Nat /\ 1 \in Nat /\ 1 >= 1 /\ 1 <= o /\ o <= Outgoing[g][n]
          BY <5>1, <5>2
        <5>4. SubSeq(MessageData(g, n), 1, o) \in Seq(Byte)
          BY <1>1, <5>2, <5>3, PartFacts
        <5> QED
          BY <5>1, <5>2, <5>4
      <4> QED
        BY <4>1, <4>2
    <3> HIDE DEF Record
    <3>4. /\ currentIncoming' \in [End -> Record] /\ currentIncoming'[g] = currentIncoming[g]
          /\ currentIncoming'[e] = Assembled(e, p)
      BY <1>1, <2>1, <3>1, <3>3
    <3>5. Place(e)' = c
      BY <3>1, <3>2, <3>4, <1>30 DEF Place
    <3>6. Assembling(e)'
      BY <3>1, <3>2, <3>4, <1>30 DEF Assembling, g
    <3> QED
      BY <2>1, <3>1, <3>4, <3>5, <3>6 DEF Record
  <2> QED
    BY <2>3, <2>4
<1>10. /\ link'[e] = Tail(link[e]) /\ link'[g] = link[g]
       /\ link' \in [End -> Seq(AnyPacket)]
  <2>1. link \in [End -> Seq(AnyPacket)]
    BY <1>2 DEF Shapes
  <2>2. Tail(link[e]) \in Seq(AnyPacket)
    BY <1>3, <2>1, HeadTailProperties
  <2> QED
    BY <1>1, <1>3, <2>1, <2>2
<1>11. Shapes'
  <2>1. p.sequenceNumber \in SequenceNumbers /\ p.ackNumber \in {-1} \cup SequenceNumbers
    BY <1>5 DEF AnyPacket, NoNumber
  <2>2. prevIncomingSequenceNumber' \in [End -> SequenceNumbers] /\ sendAckTimer' \in [End -> BOOLEAN]
    BY <1>2, <1>3, <2>1 DEF Shapes
  <2>3. prevIncomingAckNumber' \in [End -> {-1} \cup SequenceNumbers]
    BY <1>2, <1>3, <2>1 DEF Shapes
  <2>4. ackReceiveTimer' \in [End -> BOOLEAN]
    <3> DEFINE again == p.ackNumber # sequenceNumber[e]
    <3>1. again \in BOOLEAN /\ ackReceiveTimer \in [End -> BOOLEAN]
      BY <1>2 DEF Shapes
    <3>2. ackReceiveTimer' = ackReceiveTimer \/ ackReceiveTimer' = [ackReceiveTimer EXCEPT ![e] = again]
      BY <1>3
    <3> HIDE DEF again
    <3> QED
      BY <3>1, <3>2
  <2> QED
    BY <1>2, <1>3, <1>9, <1>10, <2>2, <2>3, <2>4 DEF Shapes, ackVars, sendVars
<1>12. ASSUME NEW x \in End
       PROVE  /\ Sender(x)'
              /\ Reached(x, Len(accepted[x]), queuedOutgoingMatterMessages[x])'
                   = Reached(x, Len(accepted[x]), queuedOutgoingMatterMessages[x])
  <2>1. /\ accepted' = accepted /\ queuedOutgoingMatterMessages' = queuedOutgoingMatterMessages
        /\ segmentWrite' = segmentWrite /\ sendInProgress' = sendInProgress
        /\ confirmationLost' = confirmationLost
    BY <1>3 DEF sendVars
  <2>2. Sender(x)
    BY DEF ContentInv
  <2> QED
    BY <2>1, <2>2, SenderFrame
<1>13. Assembling(g)' /\ Place(g)' = Place(g)
  BY <1>1, <1>9, AssemblingFrame DEF ContentInv
<1>14. Flow(e)'
  <2>1. isActive'[g] = isActive[g] /\ Flow(e)
    BY <1>3 DEF ContentInv
  <2> QED
    BY <2>1, <1>10, <1>12, <1>13, FlowFrame DEF g
<1>15. Flow(g)'
  <2>1. isActive'[e] /\ Other(g) = e
    BY <1>1, <1>3
  <2>2. Stream(g, link'[e], Place(e)', Reached(g, Len(accepted[g]), queuedOutgoingMatterMessages[g])')
    BY <1>1, <1>6, <1>9, <1>10, <1>12
  <2> QED
    BY <2>1, <2>2 DEF Flow
<1> QED
  BY <1>1, <1>9, <1>11, <1>12, <1>13, <1>14, <1>15 DEF ContentInv

(* An end is closed. *)
LEMMA ContentClosed ==
  ASSUME ContentInv, Shapes', NEW e \in End, CloseEnd(e),
         UNCHANGED <<accepted, queuedOutgoingMatterMessages, segmentWrite, sendInProgress,
                     confirmationLost, delivered, currentIncoming>>
  PROVE  ContentInv'
<1> DEFINE f == Other(e)
<1>1. f \in End /\ f # e /\ Other(f) = e /\ \A g \in End : g = e \/ g = f
  BY Ends
<1>2. /\ ~isActive'[e] /\ isActive'[f] = isActive[f]
      /\ link'[e] = <<>> /\ link'[f] = link[f]
  <2> HIDE DEF f
  <2> QED
    BY <1>1 DEF ContentInv, Shapes, CloseEnd
<1>3. ASSUME NEW g \in End
      PROVE  /\ Sender(g)' /\ Assembling(g)' /\ Place(g)' = Place(g)
             /\ Reached(g, Len(accepted[g]), queuedOutgoingMatterMessages[g])'
                  = Reached(g, Len(accepted[g]), queuedOutgoingMatterMessages[g])
  <2>1. Sender(g) /\ Assembling(g)
    BY DEF ContentInv
  <2> QED
    BY <2>1, SenderFrame, AssemblingFrame
<1>4. Flow(e)'
  BY <1>1, <1>2, <1>3, FlowFrame DEF ContentInv
<1>5. Flow(f)'
  BY <1>1, <1>2 DEF Flow
<1> QED
  BY <1>1, <1>3, <1>4, <1>5 DEF ContentInv

(* A step that only concerns timers, numbers and the promise of an ack. *)
LEMMA ContentRest ==
  ASSUME ContentInv, Shapes',
         UNCHANGED <<accepted, queuedOutgoingMatterMessages, segmentWrite, sendInProgress,
                     confirmationLost, delivered, currentIncoming, isActive, link>>
  PROVE  ContentInv'
<1>1. ASSUME NEW g \in End
      PROVE  Sender(g)' /\ Assembling(g)' /\ Flow(g)'
  <2>1. Sender(g) /\ Assembling(g) /\ Assembling(Other(g)) /\ Flow(g) /\ Other(g) \in End
    BY Ends DEF ContentInv
  <2>2. Sender(g)' /\ Assembling(g)' /\ Place(Other(g))' = Place(Other(g))
    BY <2>1, SenderFrame, AssemblingFrame
  <2>3. Reached(g, Len(accepted[g]), queuedOutgoingMatterMessages[g])'
          = Reached(g, Len(accepted[g]), queuedOutgoingMatterMessages[g])
    OBVIOUS
  <2> QED
    BY <2>1, <2>2, <2>3, FlowFrame
<1> QED
  BY <1>1 DEF ContentInv

LEMMA ContentClose ==
  ASSUME ContentInv, NEW e \in End, Close(e)
  PROVE  ContentInv'
<1>1. Shapes
  BY DEF ContentInv
<1>2. Shapes'
  <2>1. isActive' \in [End -> BOOLEAN] /\ link' \in [End -> Seq(AnyPacket)]
    BY <1>1 DEF Close, CloseEnd, Shapes
  <2>2. ackReceiveTimer' \in [End -> BOOLEAN] /\ sendAckTimer' \in [End -> BOOLEAN]
    BY <1>1 DEF Close, Shapes
  <2> QED
    BY <1>1, <2>1, <2>2 DEF Close, Shapes, ackVars, sendVars, history
<1>3. CloseEnd(e) /\ UNCHANGED <<accepted, queuedOutgoingMatterMessages, segmentWrite, sendInProgress,
                                 confirmationLost, delivered, currentIncoming>>
  BY DEF Close, sendVars, history
<1> QED
  BY <1>2, <1>3, ContentClosed

LEMMA ContentRefusePacket ==
  ASSUME ContentInv, NEW e \in End, RefusePacket(e)
  PROVE  ContentInv'
<1>1. Shapes
  BY DEF ContentInv
<1>2. Shapes'
  <2>1. isActive' \in [End -> BOOLEAN] /\ link' \in [End -> Seq(AnyPacket)]
    BY <1>1 DEF RefusePacket, CloseEnd, Shapes
  <2>2. /\ ackReceiveTimer' \in [End -> BOOLEAN] /\ sendAckTimer' \in [End -> BOOLEAN]
        /\ refused' \in [End -> BOOLEAN]
    BY <1>1 DEF RefusePacket, Shapes
  <2> QED
    BY <1>1, <2>1, <2>2 DEF RefusePacket, Shapes, ackVars, sendVars
<1>3. CloseEnd(e) /\ UNCHANGED <<accepted, queuedOutgoingMatterMessages, segmentWrite, sendInProgress,
                                 confirmationLost, delivered, currentIncoming>>
  BY DEF RefusePacket, sendVars
<1> QED
  BY <1>2, <1>3, ContentClosed

LEMMA ContentAckTimeout ==
  ASSUME ContentInv, NEW e \in End, AckTimeout(e)
  PROVE  ContentInv'
<1>1. Shapes
  BY DEF ContentInv
<1>2. /\ ackReceiveTimer' = [ackReceiveTimer EXCEPT ![e] = FALSE]
      /\ \/ CloseEnd(e) /\ sendAckTimer' = [sendAckTimer EXCEPT ![e] = FALSE]
         \/ UNCHANGED <<isActive, link, sendAckTimer>>
      /\ UNCHANGED <<prevIncomingSequenceNumber, prevIncomingAckNumber, ackVars, sendVars,
                     currentIncoming, accepted, delivered, confirmationLost>>
  BY DEF AckTimeout
<1>3. refused' \in [End -> BOOLEAN]
  <2> DEFINE b == refused[e] \/ ((isActive[e] /\ prevIncomingAckNumber[e] # sequenceNumber[e])
                                  /\ isActive[Other(e)])
  <2>1. b \in BOOLEAN
    OBVIOUS
  <2>2. refused' = [refused EXCEPT ![e] = b]
    BY DEF AckTimeout
  <2>3. refused \in [End -> BOOLEAN]
    BY <1>1 DEF Shapes
  <2> HIDE DEF b
  <2> QED
    BY <2>1, <2>2, <2>3
<1>4. isActive' \in [End -> BOOLEAN] /\ link' \in [End -> Seq(AnyPacket)]
      /\ sendAckTimer' \in [End -> BOOLEAN] /\ ackReceiveTimer' \in [End -> BOOLEAN]
  <2>1. CASE CloseEnd(e) /\ sendAckTimer' = [sendAckTimer EXCEPT ![e] = FALSE]
    BY <1>1, <1>2, <2>1 DEF CloseEnd, Shapes
  <2>2. CASE UNCHANGED <<isActive, link, sendAckTimer>>
    BY <1>1, <1>2, <2>2 DEF Shapes
  <2> QED
    BY <1>2, <2>1, <2>2
<1>5. Shapes'
  BY <1>1, <1>2, <1>3, <1>4 DEF Shapes, ackVars, sendVars
<1>6. UNCHANGED <<accepted, queuedOutgoingMatterMessages, segmentWrite, sendInProgress,
                  confirmationLost, delivered, currentIncoming>>
  BY <1>2 DEF sendVars
<1>7. CASE CloseEnd(e)
  BY <1>5, <1>6, <1>7, ContentClosed
<1>8. CASE UNCHANGED <<isActive, link, sendAckTimer>>
  BY <1>5, <1>6, <1>8, ContentRest
<1> QED
  BY <1>2, <1>7, <1>8

LEMMA ContentAckWritten ==
  ASSUME ContentInv, NEW e \in End, AckWritten(e)
  PROVE  ContentInv'
<1>1. Shapes
  BY DEF ContentInv
<1>2. Shapes'
  <2>1. ackWrite' \in [End -> BOOLEAN] /\ ackReceiveTimer' \in [End -> BOOLEAN]
    BY <1>1 DEF AckWritten, Shapes
  <2> QED
    BY <1>1, <2>1 DEF AckWritten, Shapes, fieldVars, ackVars, history
<1>3. UNCHANGED <<accepted, queuedOutgoingMatterMessages, segmentWrite, sendInProgress,
                  confirmationLost, delivered, currentIncoming, isActive, link>>
  BY DEF AckWritten, fieldVars, history
<1> QED
  BY <1>2, <1>3, ContentRest

LEMMA ContentStutter ==
  ASSUME ContentInv, UNCHANGED vars
  PROVE  ContentInv'
<1>1. Shapes'
  BY DEF ContentInv, Shapes, vars, fieldVars, ackVars, timerVars, sendVars, history
<1>2. UNCHANGED <<accepted, queuedOutgoingMatterMessages, segmentWrite, sendInProgress,
                  confirmationLost, delivered, currentIncoming, isActive, link>>
  BY DEF vars, fieldVars, sendVars, history
<1> QED
  BY <1>1, <1>2, ContentRest

(* btpSendAckTimeoutTriggered() writes a packet that is only an ack. *)
LEMMA SendAckSends ==
  ASSUME Shapes, NEW e \in End, SendAck(e)
  PROVE  \E p : /\ Sends(e, p)
                /\ p.segmentPayload = <<>> /\ ~p.isBeginningSegment /\ ~p.isEndingSegment
                /\ p.messageLength = NoNumber
                /\ p.ackNumber = prevIncomingSequenceNumber[e]
<1> DEFINE p == [sequenceNumber |-> NextSequenceNumber(e), ackNumber |-> prevIncomingSequenceNumber[e],
                 isBeginningSegment |-> FALSE, isEndingSegment |-> FALSE,
                 messageLength |-> NoNumber, segmentPayload |-> <<>>]
<1>1. Write(e, p) /\ Number(e, prevIncomingSequenceNumber[e])
  BY DEF SendAck
<1>2. NextSequenceNumber(e) \in SequenceNumbers
  BY NextNumberType
<1>3. prevIncomingSequenceNumber[e] \in SequenceNumbers
  BY DEF Shapes
<1>4. FALSE \in BOOLEAN /\ <<>> \in Seq(Byte)
  OBVIOUS
<1>5. p \in AnyPacket
  BY <1>2, <1>3, <1>4 DEF AnyPacket
<1>6. /\ p.segmentPayload = <<>> /\ ~p.isBeginningSegment /\ ~p.isEndingSegment
      /\ p.messageLength = NoNumber
      /\ p.sequenceNumber = NextSequenceNumber(e)
      /\ p.ackNumber = prevIncomingSequenceNumber[e]
  OBVIOUS
<1> HIDE DEF p
<1>7. Sends(e, p)
  BY <1>1, <1>5, <1>6 DEF Sends
<1> QED
  BY <1>6, <1>7

LEMMA ContentSendAckTimeout ==
  ASSUME ContentInv, NEW e \in End, SendAckTimeout(e)
  PROVE  ContentInv'
<1> DEFINE f == Other(e)
<1>1. f \in End /\ f # e
  BY Ends
<1>2. Shapes /\ Sender(e)
  BY DEF ContentInv
<1>3. /\ sendAckTimer' = [sendAckTimer EXCEPT ![e] = FALSE]
      /\ \/ SendAck(e)
         \/ UNCHANGED <<ackVars, link, ackWrite, segmentWrite, confirmationLost>>
      /\ UNCHANGED <<fieldVars, ackReceiveTimer, queuedOutgoingMatterMessages, sendInProgress,
                     currentIncoming, accepted, delivered, refused>>
  BY DEF SendAckTimeout
<1>4. sendAckTimer' \in [End -> BOOLEAN]
  BY <1>2, <1>3 DEF Shapes
<1>5. CASE UNCHANGED <<ackVars, link, ackWrite, segmentWrite, confirmationLost>>
  <2>1. Shapes'
    BY <1>2, <1>3, <1>4, <1>5 DEF Shapes, fieldVars, ackVars
  <2>2. UNCHANGED <<accepted, queuedOutgoingMatterMessages, segmentWrite, sendInProgress,
                    confirmationLost, delivered, currentIncoming, isActive, link>>
    BY <1>3, <1>5 DEF fieldVars
  <2> QED
    BY <2>1, <2>2, ContentRest
<1>6. CASE SendAck(e)
  <2>1. PICK p : /\ Sends(e, p)
                 /\ p.segmentPayload = <<>> /\ ~p.isBeginningSegment /\ ~p.isEndingSegment
                 /\ p.messageLength = NoNumber
                 /\ p.ackNumber = prevIncomingSequenceNumber[e]
    BY <1>2, <1>6, SendAckSends
  <2>2. /\ ackWrite' = [ackWrite EXCEPT ![e] = TRUE]
        /\ \/ /\ segmentWrite[e] # "none"
              /\ segmentWrite' = [segmentWrite EXCEPT ![e] = "none"]
              /\ confirmationLost' = [confirmationLost EXCEPT ![e] = TRUE]
           \/ UNCHANGED <<segmentWrite, confirmationLost>>
    BY <1>6 DEF SendAck
  <2> HIDE DEF f
  <2>3. /\ ackWrite' \in [End -> BOOLEAN]
        /\ segmentWrite' \in [End -> {"none", "segment", "ending"}]
        /\ confirmationLost' \in [End -> BOOLEAN]
        /\ segmentWrite'[f] = segmentWrite[f] /\ confirmationLost'[f] = confirmationLost[f]
        /\ \/ segmentWrite[e] # "none" /\ segmentWrite'[e] = "none" /\ confirmationLost'[e] = TRUE
           \/ segmentWrite'[e] = segmentWrite[e] /\ confirmationLost'[e] = confirmationLost[e]
    <3>1. CASE UNCHANGED <<segmentWrite, confirmationLost>>
      BY <1>1, <1>2, <2>2, <3>1 DEF Shapes
    <3>2. CASE /\ segmentWrite[e] # "none"
               /\ segmentWrite' = [segmentWrite EXCEPT ![e] = "none"]
               /\ confirmationLost' = [confirmationLost EXCEPT ![e] = TRUE]
      BY <1>1, <1>2, <2>2, <3>2 DEF Shapes
    <3> QED
      BY <2>2, <3>1, <3>2
  <2>4. Shapes'
    <3>1. /\ link' \in [End -> Seq(AnyPacket)]
          /\ sequenceNumber' \in [End -> {-1} \cup SequenceNumbers]
          /\ prevAckedSequenceNumber' \in [End -> {-1} \cup SequenceNumbers]
          /\ wrapped' \in BOOLEAN
          /\ windowFilled' \in [End -> BOOLEAN]
      BY <1>2, <2>1, SendsShapes
    <3> QED
      BY <1>2, <1>3, <1>4, <2>3, <3>1 DEF Shapes, fieldVars
  <2>5. Sender(e)'
    <3>1. /\ accepted'[e] = accepted[e]
          /\ queuedOutgoingMatterMessages'[e] = queuedOutgoingMatterMessages[e]
          /\ sendInProgress'[e] = sendInProgress[e]
      BY <1>3
    <3>2. CASE segmentWrite'[e] = segmentWrite[e] /\ confirmationLost'[e] = confirmationLost[e]
      BY <1>2, <3>1, <3>2, SenderFrame
    <3>3. CASE segmentWrite[e] # "none" /\ segmentWrite'[e] = "none" /\ confirmationLost'[e] = TRUE
      BY <1>2, <3>1, <3>3 DEF Sender
    <3> QED
      BY <2>3, <3>2, <3>3
  <2> DEFINE a == Reached(e, Len(accepted[e]), queuedOutgoingMatterMessages[e])
  <2>6. a = a'
    BY <1>3
  <2>7. Carries(e, p, a, a)
    <3>1. p.ackNumber # NoNumber
      BY <1>2, <2>1, NumberTypes DEF Shapes
    <3> QED
      BY <2>1, <3>1 DEF Carries
  <2>8. /\ UNCHANGED <<isActive, delivered, currentIncoming>>
        /\ accepted'[f] = accepted[f]
        /\ queuedOutgoingMatterMessages'[f] = queuedOutgoingMatterMessages[f]
        /\ sendInProgress'[f] = sendInProgress[f]
    BY <1>3 DEF fieldVars
  <2> QED
    BY <2>1, <2>3, <2>4, <2>5, <2>6, <2>7, <2>8, ContentSends DEF f
<1> QED
  BY <1>3, <1>5, <1>6

LEMMA ContentNext ==
  ContentInv /\ [Next]_vars => ContentInv'
<1> SUFFICES ASSUME ContentInv, [Next]_vars PROVE ContentInv'
  OBVIOUS
<1>1. CASE UNCHANGED vars
  BY <1>1, ContentStutter
<1>2. CASE Next
  <2>1. PICK e \in End :
          \/ SendMatterMessage(e) \/ SegmentWritten(e) \/ HandleIncomingBleData(e)
          \/ RefusePacket(e) \/ SendAckTimeout(e) \/ AckWritten(e) \/ AckTimeout(e) \/ Close(e)
    BY <1>2 DEF Next
  <2> QED
    BY <2>1, ContentSendMatterMessage, ContentSegmentWritten, ContentHandleIncoming,
       ContentRefusePacket, ContentSendAckTimeout, ContentAckWritten, ContentAckTimeout, ContentClose
<1> QED
  BY <1>1, <1>2

(* What was handed over, is kept, is under way and is queued make up what was taken. *)
LEMMA ContentHolds ==
  Spec => []ContentInv
BY ContentInit, ContentNext, PTL DEF Spec

-----------------------------------------------------------------------------
(* Refinement *)

(* What a step is for the channel from s to its peer: nothing, or a step of it. *)
FifoStep(s) ==
  LET r == Other(s)
  IN  \/ /\ accepted'[s] = accepted[s] /\ delivered'[r] = delivered[r]
         /\ isActive'[s] = isActive[s] /\ isActive'[r] = isActive[r]
      \/ /\ isActive[s]
         /\ \E m \in Messages(s) : accepted'[s] = Append(accepted[s], m)
         /\ delivered'[r] = delivered[r]
         /\ isActive'[s] = isActive[s] /\ isActive'[r] = isActive[r]
      \/ /\ isActive[r]
         /\ Len(delivered[r]) < Len(accepted[s])
         /\ delivered'[r] = Append(delivered[r], accepted[s][Len(delivered[r]) + 1])
         /\ accepted'[s] = accepted[s]
         /\ isActive'[s] = isActive[s] /\ isActive'[r] = isActive[r]
      \/ /\ isActive'[s] = FALSE /\ isActive'[r] = isActive[r]
         /\ accepted'[s] = accepted[s] /\ delivered'[r] = delivered[r]
      \/ /\ isActive'[r] = FALSE /\ isActive'[s] = isActive[s]
         /\ accepted'[s] = accepted[s] /\ delivered'[r] = delivered[r]

(* sendMatterMessage() is Send in one direction. *)
LEMMA FifoSend ==
  ASSUME ContentInv, NEW e \in End, SendMatterMessage(e)
  PROVE  \A s \in End : FifoStep(s)
<1> DEFINE f == Other(e)
           data == MessageData(e, Len(accepted[e]) + 1)
<1>1. f \in End /\ f # e /\ Other(f) = e /\ \A s \in End : s = e \/ s = f
  BY Ends
<1>2. accepted \in [End -> Seq(Seq(Byte))]
  BY DEF ContentInv, Shapes
<1>3. /\ isActive[e] /\ Len(accepted[e]) < Len(Outgoing[e])
      /\ accepted' = [accepted EXCEPT ![e] = Append(accepted[e], data)]
      /\ isActive' = isActive /\ delivered' = delivered
  BY DEF SendMatterMessage, CanSend, fieldVars
<1>4. Len(accepted[e]) \in Nat /\ Len(Outgoing[e]) \in Nat /\ DOMAIN Outgoing[e] = 1 .. Len(Outgoing[e])
  BY <1>2, BtpAssumption
<1>5. Len(accepted[e]) + 1 \in DOMAIN Outgoing[e]
  BY <1>3, <1>4
<1>6. data \in Messages(e)
  BY <1>5 DEF Messages
<1> HIDE DEF data, f
<1>7. accepted'[e] = Append(accepted[e], data) /\ accepted'[f] = accepted[f]
  BY <1>1, <1>2, <1>3
<1>8. FifoStep(e)
  BY <1>3, <1>6, <1>7 DEF FifoStep
<1>9. FifoStep(f)
  BY <1>1, <1>3, <1>7 DEF FifoStep
<1> QED
  BY <1>1, <1>8, <1>9

(* handleIncomingBleData() is Deliver in one direction, when a message is complete. *)
LEMMA FifoDeliver ==
  ASSUME ContentInv, NEW e \in End, HandleIncomingBleData(e)
  PROVE  \A s \in End : FifoStep(s)
<1> DEFINE g == Other(e)
           p == Head(link[e])
           n == Len(delivered[e]) + 1
<1>1. g \in End /\ g # e /\ Other(g) = e /\ \A s \in End : s = e \/ s = g
  BY Ends
<1>2. Shapes /\ Assembling(e) /\ Sender(g)
  BY <1>1 DEF ContentInv
<1>3. /\ isActive[e] /\ link[e] # <<>>
      /\ isActive' = isActive /\ accepted' = accepted
      /\ \/ /\ p.isEndingSegment
            /\ delivered' = [delivered EXCEPT ![e] = Append(delivered[e], Assembled(e, p).payload)]
         \/ UNCHANGED delivered
  BY DEF HandleIncomingBleData, Completes
<1>4. n = Len(delivered[e]) + 1 /\ g = Other(e)
  OBVIOUS
<1>5. p \in AnyPacket
  BY <1>3, NextPacket
<1>6. PICK c : /\ Carries(g, p, Place(e), c)
               /\ Stream(g, Tail(link[e]), c,
                         Reached(g, Len(accepted[g]), queuedOutgoingMatterMessages[g]))
  BY <1>3, NextPacket
<1> HIDE DEF p, g, n
<1>7. CASE UNCHANGED delivered
  BY <1>3, <1>7 DEF FifoStep
<1>8. CASE /\ p.isEndingSegment
           /\ delivered' = [delivered EXCEPT ![e] = Append(delivered[e], Assembled(e, p).payload)]
  <2>1. Assembled(e, p).payload = MessageData(g, n) /\ c = [message |-> n + 1, offset |-> 0]
    BY <1>2, <1>4, <1>5, <1>6, <1>8, Receive
  <2>2. Len(delivered[e]) \in Nat /\ n \in Nat /\ delivered \in [End -> Seq(Seq(Byte))]
    BY <1>2, <1>4 DEF Shapes
  <2>3. Tail(link[e]) \in Seq(AnyPacket)
    BY <1>2, <1>3, HeadTailProperties DEF Shapes
  <2>4. n <= Len(accepted[g])
    BY <1>1, <1>6, <2>1, <2>2, <2>3, CompletedWasAccepted
  <2>5. n \in 1 .. Len(accepted[g]) /\ Len(delivered[e]) < Len(accepted[g])
    BY <1>1, <1>2, <1>4, <2>2, <2>4 DEF Shapes
  <2>6. accepted[g][n] = MessageData(g, n)
    BY <1>2, <2>5 DEF Sender
  <2>7. delivered'[e] = Append(delivered[e], accepted[g][n]) /\ delivered'[g] = delivered[g]
    BY <1>1, <1>8, <2>1, <2>2, <2>6
  <2>8. FifoStep(g)
    BY <1>1, <1>3, <1>4, <2>5, <2>7 DEF FifoStep
  <2>9. FifoStep(e)
    BY <1>3, <2>7 DEF FifoStep, g
  <2> QED
    BY <1>1, <2>8, <2>9
<1> QED
  BY <1>3, <1>7, <1>8

(* Closing an end closes it in both directions, for each a step of its own. *)
LEMMA FifoClosed ==
  ASSUME ContentInv, NEW e \in End, CloseEnd(e), UNCHANGED <<accepted, delivered>>
  PROVE  \A s \in End : FifoStep(s)
<1> DEFINE f == Other(e)
<1>1. f \in End /\ f # e /\ Other(f) = e /\ \A s \in End : s = e \/ s = f
  BY Ends
<1> HIDE DEF f
<1>2. isActive'[e] = FALSE /\ isActive'[f] = isActive[f]
  BY <1>1 DEF ContentInv, Shapes, CloseEnd
<1>3. FifoStep(e)
  BY <1>2 DEF FifoStep, f
<1>4. FifoStep(f)
  BY <1>1, <1>2 DEF FifoStep
<1> QED
  BY <1>1, <1>3, <1>4

(* Every step of the two ends is a step of each channel, or leaves it alone. *)
LEMMA FifoNext ==
  ASSUME ContentInv, [Next]_vars
  PROVE  \A s \in End : FifoStep(s)
<1>1. CASE UNCHANGED <<accepted, delivered, isActive>>
  BY <1>1 DEF FifoStep
<1>2. CASE UNCHANGED vars
  BY <1>1, <1>2 DEF vars, fieldVars, history
<1>3. CASE Next
  <2>1. PICK e \in End :
          \/ SendMatterMessage(e) \/ SegmentWritten(e) \/ HandleIncomingBleData(e)
          \/ RefusePacket(e) \/ SendAckTimeout(e) \/ AckWritten(e) \/ AckTimeout(e) \/ Close(e)
    BY <1>3 DEF Next
  <2>2. CASE SendMatterMessage(e)
    BY <2>2, FifoSend
  <2>3. CASE HandleIncomingBleData(e)
    BY <2>3, FifoDeliver
  <2>4. CASE SegmentWritten(e)
    BY <1>1, <2>4 DEF SegmentWritten, fieldVars
  <2>5. CASE SendAckTimeout(e)
    BY <1>1, <2>5 DEF SendAckTimeout, fieldVars
  <2>6. CASE AckWritten(e)
    BY <1>1, <2>6 DEF AckWritten, fieldVars, history
  <2>7. CASE RefusePacket(e)
    <3>1. CloseEnd(e) /\ UNCHANGED <<accepted, delivered>>
      BY <2>7 DEF RefusePacket
    <3> QED
      BY <3>1, FifoClosed
  <2>8. CASE Close(e)
    <3>1. CloseEnd(e) /\ UNCHANGED <<accepted, delivered>>
      BY <2>8 DEF Close, history
    <3> QED
      BY <3>1, FifoClosed
  <2>9. CASE AckTimeout(e)
    <3>1. UNCHANGED <<accepted, delivered>> /\ (CloseEnd(e) \/ UNCHANGED isActive)
      BY <2>9 DEF AckTimeout
    <3>2. CASE CloseEnd(e)
      BY <3>1, <3>2, FifoClosed
    <3>3. CASE UNCHANGED isActive
      BY <1>1, <3>1, <3>3
    <3> QED
      BY <3>1, <3>2, <3>3
  <2> QED
    BY <2>1, <2>2, <2>3, <2>4, <2>5, <2>6, <2>7, <2>8, <2>9
<1> QED
  BY <1>2, <1>3

LEMMA FifoInit ==
  Init => ToPeripheral!Init /\ ToCentral!Init
BY Ends DEF Init, ToPeripheral!Init, ToCentral!Init, End

(* The protocol implements a fifo channel in each direction: whatever order    *)
(* segments, acks, timers, promises and close() come in, messages of any       *)
(* length come out whole, in order and once, and none after the end is closed. *)
THEOREM Refinement == Spec => ImplementsFifo
<1>1. Central \in End /\ Peripheral \in End /\ Other(Central) = Peripheral /\ Other(Peripheral) = Central
  BY BtpAssumption DEF End, Other
<1>2. ContentInv /\ [Next]_vars => [ToPeripheral!Next]_(ToPeripheral!vars)
  <2> SUFFICES ASSUME ContentInv, [Next]_vars
               PROVE  [ToPeripheral!Next]_(ToPeripheral!vars)
    OBVIOUS
  <2>1. FifoStep(Central)
    BY <1>1, FifoNext
  <2> QED
    BY <1>1, <2>1 DEF FifoStep, ToPeripheral!Next, ToPeripheral!vars, ToPeripheral!Send,
       ToPeripheral!Deliver, ToPeripheral!CloseSender, ToPeripheral!CloseReceiver
<1>3. ContentInv /\ [Next]_vars => [ToCentral!Next]_(ToCentral!vars)
  <2> SUFFICES ASSUME ContentInv, [Next]_vars
               PROVE  [ToCentral!Next]_(ToCentral!vars)
    OBVIOUS
  <2>1. FifoStep(Peripheral)
    BY <1>1, FifoNext
  <2> QED
    BY <1>1, <2>1 DEF FifoStep, ToCentral!Next, ToCentral!vars, ToCentral!Send,
       ToCentral!Deliver, ToCentral!CloseSender, ToCentral!CloseReceiver
<1> QED
  BY <1>2, <1>3, FifoInit, ContentHolds, PTL DEF Spec, ImplementsFifo, ToPeripheral!Spec, ToCentral!Spec

-----------------------------------------------------------------------------
(* Types *)

(* A packet of the stream is one that processSendQueue() or the ack timer makes. *)
LEMMA CarriesType ==
  ASSUME NEW e \in End, NEW p \in AnyPacket, NEW a \in Position, NEW b, Carries(e, p, a, b)
  PROVE  p \in Packets(e)
<1>1. p.segmentPayload \in Seq((DOMAIN Outgoing[e]) \X Nat)
      /\ p.messageLength \in {NoNumber} \cup {Outgoing[e][n] : n \in DOMAIN Outgoing[e]}
  <2>1. CASE p.segmentPayload = <<>> /\ p.messageLength = NoNumber
    BY <2>1
  <2>2. CASE /\ a.message \in DOMAIN Outgoing[e]
             /\ \E upTo \in (a.offset + 1) .. Outgoing[e][a.message] :
                  /\ p.segmentPayload = SubSeq(MessageData(e, a.message), a.offset + 1, upTo)
                  /\ p.messageLength = IF a.offset = 0 THEN Outgoing[e][a.message] ELSE NoNumber
    <3>1. PICK upTo \in (a.offset + 1) .. Outgoing[e][a.message] :
            /\ p.segmentPayload = SubSeq(MessageData(e, a.message), a.offset + 1, upTo)
            /\ p.messageLength = IF a.offset = 0 THEN Outgoing[e][a.message] ELSE NoNumber
      BY <2>2
    <3>2. a.offset \in Nat /\ Outgoing[e][a.message] \in Nat
      BY <2>2, MessageFacts DEF Position
    <3>3. /\ a.offset + 1 \in Nat /\ upTo \in Nat /\ a.offset + 1 >= 1
          /\ a.offset + 1 <= upTo /\ upTo <= Outgoing[e][a.message]
      BY <3>1, <3>2
    <3>4. p.segmentPayload \in Seq((DOMAIN Outgoing[e]) \X Nat)
      <4> DEFINE n == a.message
                 k == a.offset + 1
      <4> HIDE DEF n, k
      <4>1. n \in DOMAIN Outgoing[e] /\ k \in Nat /\ k >= 1 /\ k <= upTo /\ upTo <= Outgoing[e][n]
        BY <2>2, <3>3 DEF n, k
      <4>2. SubSeq(MessageData(e, n), k, upTo) \in Seq((DOMAIN Outgoing[e]) \X Nat)
        BY <3>3, <4>1, PartFacts
      <4> QED
        BY <3>1, <4>2 DEF n, k
    <3> QED
      BY <2>2, <3>1, <3>4
  <2> QED
    BY <2>1, <2>2 DEF Carries
<1> QED
  BY <1>1 DEF AnyPacket, Packets

LEMMA ContentTypes ==
  ContentInv => TypeOK
<1> SUFFICES ASSUME ContentInv PROVE TypeOK
  OBVIOUS
<1>1. Shapes
  BY DEF ContentInv
<1>2. \A f \in {isActive, ackReceiveTimer, sendAckTimer, sendInProgress, ackWrite,
                windowFilled, confirmationLost, refused} : f \in [End -> BOOLEAN]
  BY <1>1 DEF Shapes
<1>3. ASSUME NEW e \in End
      PROVE  /\ prevIncomingSequenceNumber[e] \in SequenceNumbers
             /\ prevIncomingAckNumber[e] \in {-1} \cup SequenceNumbers
             /\ sequenceNumber[e] \in {-1} \cup SequenceNumbers
             /\ prevAckedSequenceNumber[e] \in {-1} \cup SequenceNumbers
             /\ segmentWrite[e] \in {"none", "segment", "ending"}
  BY <1>1 DEF Shapes
<1>4. ASSUME NEW e \in End, NEW i \in DOMAIN queuedOutgoingMatterMessages[e]
      PROVE  LET m == queuedOutgoingMatterMessages[e][i]
             IN  m.data \in Messages(e) /\ m.read \in 0 .. Len(m.data)
  <2> DEFINE q == queuedOutgoingMatterMessages[e]
             n == Len(accepted[e])
             k == n - Len(q) + i
  <2>1. n \in Nat /\ q \in Seq(Item) /\ Queued(e, n, q)
    BY <1>1 DEF ContentInv, Sender, Shapes
  <2> HIDE DEF q, n
  <2>2. i \in 1 .. Len(q) /\ Len(q) \in Nat
    BY <2>1 DEF q
  <2>3. q[i].data = MessageData(e, k) /\ q[i].read \in 0 .. Outgoing[e][k]
    BY <2>1, <2>2 DEF Queued
  <2>4. k \in DOMAIN Outgoing[e]
    BY <2>1, <2>2, BtpAssumption DEF Queued
  <2> HIDE DEF k
  <2>5. Len(MessageData(e, k)) = Outgoing[e][k]
    BY <2>4, MessageFacts
  <2> QED
    BY <2>3, <2>4, <2>5 DEF q, Messages
<1>5. ASSUME NEW e \in End
      PROVE  \/ currentIncoming[e] = NoMessage
             \/ \E m \in Messages(Other(e)) :
                  /\ currentIncoming[e].length = Len(m)
                  /\ \E k \in 1 .. Len(m) : currentIncoming[e].payload = SubSeq(m, 1, k)
  <2> DEFINE g == Other(e)
             n == Len(delivered[e]) + 1
  <2>1. g \in End
    BY Ends
  <2>2. Assembling(e)
    BY DEF ContentInv
  <2>3. CASE currentIncoming[e] # NoMessage
    <3>1. /\ n \in DOMAIN Outgoing[g]
          /\ \E o \in 1 .. Outgoing[g][n] - 1 :
               currentIncoming[e] = [length  |-> Outgoing[g][n],
                                     payload |-> SubSeq(MessageData(g, n), 1, o)]
      BY <2>2, <2>3 DEF Assembling
    <3> HIDE DEF g, n
    <3>2. Len(MessageData(g, n)) = Outgoing[g][n] /\ Outgoing[g][n] \in Nat
      BY <2>1, <3>1, MessageFacts
    <3>3. PICK o \in 1 .. Outgoing[g][n] - 1 :
            currentIncoming[e] = [length  |-> Outgoing[g][n],
                                  payload |-> SubSeq(MessageData(g, n), 1, o)]
      BY <3>1
    <3>4. o \in 1 .. Len(MessageData(g, n)) /\ MessageData(g, n) \in Messages(g)
      BY <3>1, <3>2, <3>3 DEF Messages
    <3>5. /\ currentIncoming[e].length = Len(MessageData(g, n))
          /\ currentIncoming[e].payload = SubSeq(MessageData(g, n), 1, o)
      BY <3>2, <3>3
    <3> QED
      BY <3>4, <3>5 DEF g
  <2> QED
    BY <2>3
<1>6. ASSUME NEW e \in End, NEW i \in DOMAIN link[e]
      PROVE  link[e][i] \in Packets(Other(e))
  <2> DEFINE g == Other(e)
             b == Reached(g, Len(accepted[g]), queuedOutgoingMatterMessages[g])
  <2>1. g \in End /\ Other(g) = e
    BY Ends
  <2>2. link[e] \in Seq(AnyPacket)
    BY <1>1 DEF Shapes
  <2>3. i \in 1 .. Len(link[e]) /\ Len(link[e]) \in Nat /\ link[e][i] \in AnyPacket
    BY <2>2
  <2>4. link[e] # <<>>
    BY <2>3
  <2>5. Stream(g, link[e], Place(e), b)
    BY <2>1, <2>4 DEF ContentInv, Flow
  <2> HIDE DEF b, g
  <2>6. PICK pos \in [0 .. Len(link[e]) -> Position] :
          \A j \in 1 .. Len(link[e]) : Carries(g, link[e][j], pos[j - 1], pos[j])
    BY <2>5 DEF Stream
  <2>7. i - 1 \in 0 .. Len(link[e]) /\ pos[i - 1] \in Position
    BY <2>3, <2>6
  <2>8. Carries(g, link[e][i], pos[i - 1], pos[i])
    BY <2>3, <2>6
  <2>9. link[e][i] \in Packets(g)
    BY <2>1, <2>3, <2>7, <2>8, CarriesType
  <2> QED
    BY <2>9 DEF g
<1>7. wrapped \in BOOLEAN
  BY <1>1 DEF Shapes
<1> QED
  BY <1>2, <1>3, <1>4, <1>5, <1>6, <1>7 DEF TypeOK

(* The fields of both ends and the packets keep their types; what an end is    *)
(* putting together is a part of a message of its peer.                        *)
THEOREM TypeCorrect == Spec => []TypeOK
BY ContentHolds, ContentTypes, PTL

-----------------------------------------------------------------------------
(* Numbers: the steps *)

(* The types of the numbers of an end, for arithmetic. *)
LEMMA NumberShapes ==
  ASSUME Shapes, NEW e \in End
  PROVE  /\ sequenceNumber[e] \in Int /\ sequenceNumber[e] >= -1 /\ sequenceNumber[e] <= MaxSequenceNumber
         /\ prevIncomingAckNumber[e] \in Int /\ prevIncomingAckNumber[e] >= -1
         /\ prevIncomingSequenceNumber[e] \in Nat
         /\ prevAckedSequenceNumber[e] \in Int /\ prevAckedSequenceNumber[e] >= -1
         /\ link[e] \in Seq(AnyPacket) /\ Len(link[e]) \in Nat
         /\ isActive[e] \in BOOLEAN
<1>1. /\ sequenceNumber[e] \in {-1} \cup SequenceNumbers
      /\ prevIncomingAckNumber[e] \in {-1} \cup SequenceNumbers
      /\ prevIncomingSequenceNumber[e] \in SequenceNumbers
      /\ prevAckedSequenceNumber[e] \in {-1} \cup SequenceNumbers
      /\ link[e] \in Seq(AnyPacket) /\ isActive[e] \in BOOLEAN
  BY DEF Shapes
<1> QED
  BY <1>1, NumberTypes DEF SequenceNumbers

(* The numbers of a packet. *)
LEMMA PacketNumbers ==
  ASSUME NEW p \in AnyPacket
  PROVE  /\ p.sequenceNumber \in Nat /\ p.sequenceNumber <= MaxSequenceNumber
         /\ p.ackNumber \in Int /\ p.ackNumber >= -1
<1>1. p.sequenceNumber \in SequenceNumbers /\ p.ackNumber \in {NoNumber} \cup SequenceNumbers
  BY DEF AnyPacket
<1> QED
  BY <1>1, NumberTypes DEF SequenceNumbers

(* No ack is of a packet that was not sent. *)
LEMMA AckIsBehind ==
  ASSUME Shapes, NEW e \in End, Acked(e), Nothing(Other(e)) \/ Got(Other(e))
  PROVE  prevIncomingAckNumber[e] <= sequenceNumber[e] /\ prevAckedSequenceNumber[Other(e)] <= sequenceNumber[e]
<1> DEFINE f == Other(e)
<1>1. f \in End /\ Other(f) = e
  BY Ends
<1>2. /\ sequenceNumber[e] \in Int /\ sequenceNumber[e] >= -1
      /\ prevIncomingAckNumber[e] \in Int
      /\ prevIncomingSequenceNumber[f] \in Int /\ prevAckedSequenceNumber[f] \in Int
  BY <1>1, NumberShapes
<1>3. prevIncomingAckNumber[e] <= prevAckedSequenceNumber[f]
  BY DEF Acked
<1>4. prevAckedSequenceNumber[f] <= sequenceNumber[e]
  <2>1. CASE Nothing(f)
    <3>1. prevAckedSequenceNumber[f] = -1
      BY <2>1 DEF Nothing
    <3> QED
      BY <3>1, <1>2
  <2>2. CASE Got(f)
    <3>1. /\ prevIncomingSequenceNumber[f] <= sequenceNumber[e]
          /\ prevAckedSequenceNumber[f] <= prevIncomingSequenceNumber[f]
      BY <2>2, <1>1 DEF Got
    <3> QED
      BY <3>1, <1>2
  <2> QED
    BY <2>1, <2>2
<1> HIDE DEF f
<1>5. prevIncomingAckNumber[e] <= sequenceNumber[e]
  BY <1>2, <1>3, <1>4
<1> QED
  BY <1>4, <1>5 DEF f

(* What exceedsWindowSize() computes while numbers do not return to 0. *)
LEMMA ExceedsFacts ==
  ASSUME NEW a \in Int, NEW b \in Int, a <= b
  PROVE  ExceedsWindowSize(a, b) <=> b - a > WindowSize - 1
BY NumberTypes DEF ExceedsWindowSize

(* Sending while numbers do not return to 0. *)
LEMMA SendsNumber ==
  ASSUME Shapes, NEW e \in End, NEW p, Sends(e, p), ~wrapped'
  PROVE  /\ ~wrapped /\ p \in AnyPacket
         /\ sequenceNumber'[e] = sequenceNumber[e] + 1
         /\ sequenceNumber'[Other(e)] = sequenceNumber[Other(e)]
         /\ p.sequenceNumber = sequenceNumber[e] + 1
         /\ prevAckedSequenceNumber'[e] = prevIncomingSequenceNumber[e]
         /\ prevAckedSequenceNumber'[Other(e)] = prevAckedSequenceNumber[Other(e)]
         /\ link'[e] = link[e]
         /\ link'[Other(e)] = IF isActive[Other(e)] THEN Append(link[Other(e)], p) ELSE link[Other(e)]
         /\ windowFilled'[Other(e)] = windowFilled[Other(e)]
         /\ windowFilled'[e] <=> windowFilled[e] \/ ExceedsWindowSize(prevIncomingAckNumber[e], sequenceNumber[e] + 1)
<1> DEFINE f == Other(e)
<1>1. f \in End /\ f # e
  BY Ends
<1>2. /\ p \in AnyPacket /\ p.sequenceNumber = NextSequenceNumber(e)
      /\ p.ackNumber = prevIncomingSequenceNumber[e]
         \/ (p.ackNumber = NoNumber /\ prevAckedSequenceNumber[e] = prevIncomingSequenceNumber[e])
      /\ Write(e, p) /\ Number(e, p.ackNumber)
  BY DEF Sends
<1>3. ~wrapped /\ sequenceNumber[e] # MaxSequenceNumber
  BY <1>2 DEF Number
<1>4. NextSequenceNumber(e) = sequenceNumber[e] + 1
  <2>1. sequenceNumber[e] \in Int /\ sequenceNumber[e] <= MaxSequenceNumber
    BY NumberShapes
  <2> QED
    BY <1>3, <2>1, NumberTypes DEF NextSequenceNumber
<1> HIDE DEF f
<1>5. sequenceNumber'[e] = sequenceNumber[e] + 1 /\ sequenceNumber'[f] = sequenceNumber[f]
  <2>1. sequenceNumber' = [sequenceNumber EXCEPT ![e] = sequenceNumber[e] + 1]
    BY <1>2, <1>4 DEF Number
  <2>2. sequenceNumber \in [End -> {-1} \cup SequenceNumbers]
    BY DEF Shapes
  <2> QED
    BY <1>1, <2>1, <2>2
<1>6. /\ prevAckedSequenceNumber'[e] = prevIncomingSequenceNumber[e]
      /\ prevAckedSequenceNumber'[f] = prevAckedSequenceNumber[f]
  <2>1. prevAckedSequenceNumber' =
          [prevAckedSequenceNumber EXCEPT ![e] =
             IF p.ackNumber = NoNumber THEN prevAckedSequenceNumber[e] ELSE p.ackNumber]
    BY <1>2 DEF Number
  <2>2. prevAckedSequenceNumber \in [End -> {-1} \cup SequenceNumbers]
    BY DEF Shapes
  <2>3. prevIncomingSequenceNumber[e] # NoNumber
    BY NumberTypes DEF Shapes
  <2> QED
    BY <1>1, <1>2, <2>1, <2>2, <2>3
<1>7. /\ link'[e] = link[e]
      /\ link'[f] = IF isActive[f] THEN Append(link[f], p) ELSE link[f]
  <2>1. link \in [End -> Seq(AnyPacket)]
    BY DEF Shapes
  <2>2. link' = IF isActive[f] THEN [link EXCEPT ![f] = Append(link[f], p)] ELSE link
    BY <1>2 DEF Write, f
  <2> QED
    BY <1>1, <2>1, <2>2
<1>8. /\ windowFilled'[f] = windowFilled[f]
      /\ windowFilled'[e] <=> windowFilled[e] \/ ExceedsWindowSize(prevIncomingAckNumber[e], sequenceNumber[e] + 1)
  <2> DEFINE full == windowFilled[e] \/ ExceedsWindowSize(prevIncomingAckNumber[e], sequenceNumber[e] + 1)
  <2>1. windowFilled' = [windowFilled EXCEPT ![e] = full]
    BY <1>2, <1>4 DEF Number
  <2>2. windowFilled \in [End -> BOOLEAN] /\ full \in BOOLEAN
    BY DEF Shapes
  <2> HIDE DEF full
  <2>3. windowFilled'[e] = full /\ windowFilled'[f] = windowFilled[f]
    BY <1>1, <2>1, <2>2
  <2> QED
    BY <2>3 DEF full
<1> QED
  BY <1>2, <1>3, <1>4, <1>5, <1>6, <1>7, <1>8 DEF f

(* A packet that e sends, for what e has received. *)
LEMMA NumbersOfSender ==
  ASSUME Shapes, NEW e \in End, Numbers(e), Got(e), NEW p, Sends(e, p), ~wrapped',
         UNCHANGED fieldVars
  PROVE  Numbers(e)'
<1> DEFINE f == Other(e)
<1>1. /\ sequenceNumber'[f] = sequenceNumber[f]
      /\ prevAckedSequenceNumber'[e] = prevIncomingSequenceNumber[e]
      /\ prevAckedSequenceNumber'[f] = prevAckedSequenceNumber[f]
      /\ link'[e] = link[e]
  BY SendsNumber
<1>2. isActive' = isActive /\ prevIncomingSequenceNumber' = prevIncomingSequenceNumber
      /\ prevIncomingAckNumber' = prevIncomingAckNumber
  BY DEF fieldVars
<1>3. prevIncomingSequenceNumber[e] \in Nat
  BY NumberShapes
<1>4. Got(e)'
  BY <1>1, <1>2, <1>3 DEF Got
<1>5. Numbered(e)'
  BY <1>1 DEF Numbers, Numbered
<1>6. Acked(e)'
  BY <1>1, <1>2 DEF Numbers, Acked
<1>7. InWindow(e)'
  BY <1>1, <1>2 DEF Numbers, InWindow
<1> QED
  BY <1>4, <1>5, <1>6, <1>7 DEF Numbers

(* A packet that e sends, for what its peer will receive. *)
LEMMA NumbersOfReceiver ==
  ASSUME Shapes, NEW e \in End, NEW f, f = Other(e), Numbers(e), Got(e), Numbers(f),
         isActive[f] \/ link[f] = <<>>,
         NEW p, Sends(e, p), ~wrapped', IsSegment(p) => ~WindowFull(e),
         UNCHANGED fieldVars, Quiet(f) => Quiet(f)', sendAckTimer'[f] = sendAckTimer[f]
  PROVE  Numbers(f)'
<1> DEFINE s == sequenceNumber[e]
           k == Len(link[f])
<1>1. f \in End /\ f # e /\ Other(f) = e
  BY Ends
<1>2. /\ p \in AnyPacket
      /\ sequenceNumber'[e] = s + 1
      /\ sequenceNumber'[f] = sequenceNumber[f]
      /\ p.sequenceNumber = s + 1
      /\ prevAckedSequenceNumber'[e] = prevIncomingSequenceNumber[e]
      /\ prevAckedSequenceNumber'[f] = prevAckedSequenceNumber[f]
      /\ link'[f] = IF isActive[f] THEN Append(link[f], p) ELSE link[f]
  BY SendsNumber
<1>3. isActive' = isActive /\ prevIncomingSequenceNumber' = prevIncomingSequenceNumber
      /\ prevIncomingAckNumber' = prevIncomingAckNumber
  BY DEF fieldVars
<1>4. /\ s \in Int /\ s >= -1 /\ k \in Nat /\ link[f] \in Seq(AnyPacket)
      /\ prevIncomingSequenceNumber[f] \in Int /\ prevIncomingSequenceNumber[e] \in Int
      /\ prevAckedSequenceNumber[f] \in Int /\ prevAckedSequenceNumber[e] \in Int
      /\ prevIncomingAckNumber[f] \in Int /\ prevIncomingAckNumber[e] \in Int
      /\ isActive[f] \in BOOLEAN
  BY <1>1, NumberShapes
<1>5. isActive[f] => /\ Len(link'[f]) = k + 1
                     /\ link'[f][k + 1] = p
                     /\ \A i \in 1 .. k : link'[f][i] = link[f][i]
  BY <1>2, <1>4, AppendProperties
<1>6. ~isActive[f] => k = 0 /\ link'[f] = link[f]
  BY <1>2
<1>7. Nothing(f)' \/ Got(f)'
  <2>1. CASE Got(f)
    <3>1. /\ prevIncomingSequenceNumber[f] <= s
          /\ prevAckedSequenceNumber[f] <= prevIncomingSequenceNumber[f]
          /\ isActive[f] =>
               /\ prevIncomingSequenceNumber[f] = s - k
               /\ ~sendAckTimer[f] => prevAckedSequenceNumber[f] = prevIncomingSequenceNumber[f]
      BY <2>1, <1>1 DEF Got
    <3>2. prevIncomingSequenceNumber[f] <= s + 1
      BY <3>1, <1>4
    <3>3. ASSUME isActive[f]
          PROVE  prevIncomingSequenceNumber[f] = (s + 1) - (k + 1)
      <4>1. prevIncomingSequenceNumber[f] = s - k
        BY <3>1, <3>3
      <4> HIDE DEF s, k
      <4> QED
        BY <4>1, <1>4
    <3> QED
      BY <1>1, <1>2, <1>3, <1>5, <3>1, <3>2, <3>3 DEF Got
  <2>2. CASE Nothing(f)
    <3>1. isActive[f] => s = k - 1
      BY <2>2, <1>1 DEF Nothing
    <3>2. ASSUME isActive[f]
          PROVE  s + 1 = (k + 1) - 1
      <4>1. s = k - 1
        BY <3>1, <3>2
      <4> HIDE DEF s, k
      <4> QED
        BY <4>1, <1>4
    <3>3. Quiet(f)'
      BY <2>2 DEF Nothing
    <3> QED
      BY <1>1, <1>2, <1>3, <1>5, <2>2, <3>2, <3>3 DEF Nothing
  <2> QED
    BY <2>1, <2>2 DEF Numbers
<1>8. Numbered(f)'
  <2>1. \A i \in 1 .. k : link[f][i].sequenceNumber = s - k + i
    BY <1>1 DEF Numbers, Numbered
  <2>2. CASE isActive[f]
    <3>1. ASSUME NEW i \in 1 .. k + 1
          PROVE  link'[f][i].sequenceNumber = (s + 1) - (k + 1) + i
      <4>1. CASE i = k + 1
        BY <4>1, <2>2, <1>2, <1>4, <1>5
      <4>2. CASE i # k + 1
        <5>1. i \in 1 .. k /\ s - k + i = (s + 1) - (k + 1) + i
          BY <4>2, <1>4
        <5> QED
          BY <5>1, <2>1, <2>2, <1>5
      <4> QED
        BY <4>1, <4>2
    <3> QED
      BY <3>1, <2>2, <1>1, <1>2, <1>5 DEF Numbered
  <2>3. CASE ~isActive[f]
    BY <2>3, <1>6 DEF Numbered
  <2> QED
    BY <2>2, <2>3
<1>9. Acked(f)'
  <2> DEFINE last == prevAckedSequenceNumber[e]
             new == prevIncomingSequenceNumber[e]
             back == prevIncomingAckNumber[f]
  <2>1. /\ back <= last
        /\ \A i \in 1 .. k : link[f][i].ackNumber # NoNumber =>
             back <= link[f][i].ackNumber /\ link[f][i].ackNumber <= last
        /\ \A i, j \in 1 .. k :
             i < j /\ link[f][i].ackNumber # NoNumber /\ link[f][j].ackNumber # NoNumber =>
               link[f][i].ackNumber <= link[f][j].ackNumber
        /\ isActive[f] => back = last \/ \E i \in 1 .. k : link[f][i].ackNumber = last
    BY <1>1 DEF Numbers, Acked
  <2>2. last <= new /\ last \in Int /\ new \in Int /\ back \in Int
    BY <1>4 DEF Got
  <2>3. p.ackNumber = new \/ (p.ackNumber = NoNumber /\ last = new)
    BY DEF Sends
  <2>4. CASE ~isActive[f]
    <3>1. back <= new
      BY <2>1, <2>2
    <3> QED
      BY <2>4, <3>1, <1>1, <1>2, <1>3, <1>6 DEF Acked
  <2>5. CASE isActive[f]
    <3> DEFINE l == link'[f]
    <3>1. Len(l) = k + 1 /\ l[k + 1] = p /\ \A i \in 1 .. k : l[i] = link[f][i]
      BY <2>5, <1>5
    <3> HIDE DEF last, new, back, l
    <3>2. ASSUME NEW i \in 1 .. k
          PROVE  l[i].ackNumber \in Int
      <4>1. link[f][i] \in AnyPacket /\ l[i] = link[f][i]
        BY <1>4, <3>1
      <4> QED
        BY <4>1, PacketNumbers
    <3>3. ASSUME NEW i \in 1 .. k + 1, l[i].ackNumber # NoNumber
          PROVE  back <= l[i].ackNumber /\ l[i].ackNumber <= new
      <4>1. CASE i = k + 1
        BY <4>1, <3>1, <3>3, <2>1, <2>2, <2>3
      <4>2. CASE i # k + 1
        <5>1. i \in 1 .. k
          BY <4>2, <1>4
        <5>2. back <= l[i].ackNumber /\ l[i].ackNumber <= last
          BY <5>1, <3>1, <3>3, <2>1
        <5> QED
          BY <5>1, <5>2, <3>2, <2>2
      <4> QED
        BY <4>1, <4>2
    <3>4. ASSUME NEW i \in 1 .. k + 1, NEW j \in 1 .. k + 1, i < j,
                 l[i].ackNumber # NoNumber, l[j].ackNumber # NoNumber
          PROVE  l[i].ackNumber <= l[j].ackNumber
      <4>1. i \in 1 .. k
        BY <1>4, <3>4
      <4>2. CASE j = k + 1
        <5>1. l[j].ackNumber = new
          BY <4>2, <3>1, <3>4, <2>3
        <5> QED
          BY <5>1, <3>3, <3>4
      <4>3. CASE j # k + 1
        <5>1. j \in 1 .. k
          BY <4>3, <1>4
        <5> QED
          BY <4>1, <5>1, <3>1, <3>4, <2>1
      <4> QED
        BY <4>2, <4>3
    <3>5. back = new \/ \E i \in 1 .. k + 1 : l[i].ackNumber = new
      <4>1. CASE p.ackNumber = new
        <5>1. k + 1 \in 1 .. k + 1
          BY <1>4
        <5> QED
          BY <4>1, <5>1, <3>1
      <4>2. CASE last = new
        <5>1. back = last \/ \E i \in 1 .. k : l[i].ackNumber = last
          BY <2>1, <2>5, <3>1
        <5>2. \A i \in 1 .. k : i \in 1 .. k + 1
          BY <1>4
        <5> QED
          BY <4>2, <5>1, <5>2
      <4> QED
        BY <4>1, <4>2, <2>3
    <3>6. back <= new
      BY <2>1, <2>2
    <3> QED
      BY <3>1, <3>3, <3>4, <3>5, <3>6, <1>1, <1>2, <1>3 DEF Acked, last, new, back, l
  <2> QED
    BY <2>4, <2>5
<1>10. InWindow(f)'
  <2> DEFINE back == prevIncomingAckNumber[e]
  <2>1. \A i \in 1 .. k : IsSegment(link[f][i]) => link[f][i].sequenceNumber - back <= WindowSize
    BY <1>1 DEF Numbers, InWindow
  <2>2. IsSegment(p) => p.sequenceNumber - back <= WindowSize
    <3>1. back <= s
      BY AckIsBehind DEF Numbers
    <3>2. IsSegment(p) => ~(s - back > WindowSize - 1)
      BY <3>1, <1>4, ExceedsFacts DEF WindowFull
    <3> QED
      BY <3>1, <3>2, <1>2, <1>4, NumberTypes
  <2>3. CASE ~isActive[f]
    BY <2>3, <1>6 DEF InWindow
  <2>4. CASE isActive[f]
    <3>1. ASSUME NEW i \in 1 .. k + 1, IsSegment(link'[f][i])
          PROVE  link'[f][i].sequenceNumber - back <= WindowSize
      <4>1. CASE i = k + 1
        BY <4>1, <3>1, <2>2, <2>4, <1>5
      <4>2. CASE i # k + 1
        <5>1. i \in 1 .. k
          BY <4>2, <1>4
        <5> QED
          BY <5>1, <3>1, <2>1, <2>4, <1>5
      <4> QED
        BY <4>1, <4>2
    <3>2. \A i \in 1 .. k + 1 : IsSegment(link'[f][i]) => link'[f][i].sequenceNumber - back <= WindowSize
      BY <3>1
    <3>3. Len(link'[f]) = k + 1 /\ prevIncomingAckNumber'[Other(f)] = back
      BY <1>1, <1>3, <1>5, <2>4
    <3> HIDE DEF back, k
    <3> QED
      BY <3>2, <3>3 DEF InWindow, IsSegment
  <2> QED
    BY <2>3, <2>4
<1> QED
  BY <1>7, <1>8, <1>9, <1>10 DEF Numbers

(* The numbers of the packet that arrives next. *)
LEMMA NextNumber ==
  ASSUME Shapes, NEW e \in End, Numbers(e), isActive[e], link[e] # <<>>,
         NEW p, p = Head(link[e])
  PROVE  /\ p \in AnyPacket /\ p = link[e][1] /\ Len(link[e]) >= 1
         /\ p.sequenceNumber = sequenceNumber[Other(e)] - Len(link[e]) + 1
         /\ prevAckedSequenceNumber[e] <= p.sequenceNumber
         /\ p.ackNumber # NoNumber =>
              /\ prevIncomingAckNumber[e] <= p.ackNumber
              /\ p.ackNumber <= prevAckedSequenceNumber[Other(e)]
<1> DEFINE g == Other(e)
           k == Len(link[e])
<1>1. g \in End
  BY Ends
<1>2. /\ sequenceNumber[g] \in Int /\ k \in Nat /\ link[e] \in Seq(AnyPacket)
      /\ prevIncomingSequenceNumber[e] \in Int /\ prevAckedSequenceNumber[e] \in Int
  BY <1>1, NumberShapes
<1>3. p = link[e][1] /\ k >= 1 /\ p \in AnyPacket
  BY <1>2, EmptySeq, HeadTailProperties
<1>4. 1 \in 1 .. k
  BY <1>2, <1>3
<1>5. p.sequenceNumber = sequenceNumber[g] - k + 1
  BY <1>3, <1>4 DEF Numbers, Numbered
<1>6. /\ p.ackNumber # NoNumber =>
              /\ prevIncomingAckNumber[e] <= p.ackNumber
              /\ p.ackNumber <= prevAckedSequenceNumber[g]
  BY <1>3, <1>4 DEF Numbers, Acked
<1>7. prevAckedSequenceNumber[e] <= p.sequenceNumber
  <2>1. CASE Nothing(e)
    <3>1. prevAckedSequenceNumber[e] = -1 /\ p.sequenceNumber \in Nat
      BY <2>1, <1>3, PacketNumbers DEF Nothing
    <3> QED
      BY <3>1
  <2>2. CASE Got(e)
    <3>1. /\ prevAckedSequenceNumber[e] <= prevIncomingSequenceNumber[e]
          /\ prevIncomingSequenceNumber[e] = sequenceNumber[g] - k
      BY <2>2 DEF Got
    <3> HIDE DEF k, g
    <3> QED
      BY <3>1, <1>2, <1>5
  <2> QED
    BY <2>1, <2>2 DEF Numbers
<1> QED
  BY <1>3, <1>5, <1>6, <1>7

(* A packet arrives. *)
LEMMA NumbersReceived ==
  ASSUME Shapes, Shapes', NEW e \in End, NEW g, g = Other(e), Numbers(e), Numbers(g),
         HandleIncomingBleData(e)
  PROVE  Numbers(e)' /\ Numbers(g)'
<1> DEFINE p == Head(link[e])
           k == Len(link[e])
           s == sequenceNumber[g]
<1>1. g \in End /\ g # e /\ Other(g) = e
  BY Ends
<1>2. /\ isActive[e] /\ link[e] # <<>>
      /\ link' = [link EXCEPT ![e] = Tail(link[e])]
      /\ prevIncomingSequenceNumber' = [prevIncomingSequenceNumber EXCEPT ![e] = p.sequenceNumber]
      /\ sendAckTimer' = [sendAckTimer EXCEPT ![e] = TRUE]
      /\ \/ /\ p.ackNumber = NoNumber
            /\ UNCHANGED prevIncomingAckNumber
         \/ /\ p.ackNumber # NoNumber
            /\ prevIncomingAckNumber' = [prevIncomingAckNumber EXCEPT ![e] = p.ackNumber]
      /\ isActive' = isActive /\ sequenceNumber' = sequenceNumber
      /\ prevAckedSequenceNumber' = prevAckedSequenceNumber
      /\ queuedOutgoingMatterMessages' = queuedOutgoingMatterMessages
      /\ segmentWrite' = segmentWrite
  BY DEF HandleIncomingBleData, ackVars, sendVars
<1>3. /\ p \in AnyPacket /\ p = link[e][1] /\ k >= 1
      /\ p.sequenceNumber = s - k + 1
      /\ prevAckedSequenceNumber[e] <= p.sequenceNumber
      /\ p.ackNumber # NoNumber =>
           prevIncomingAckNumber[e] <= p.ackNumber /\ p.ackNumber <= prevAckedSequenceNumber[g]
  BY <1>2, NextNumber
<1>4. /\ s \in Int /\ k \in Nat /\ link[e] \in Seq(AnyPacket)
      /\ prevIncomingAckNumber[e] \in Int /\ prevAckedSequenceNumber[g] \in Int
  BY <1>1, NumberShapes
<1>5. /\ Len(Tail(link[e])) = k - 1 /\ \A i \in 1 .. k - 1 : Tail(link[e])[i] = link[e][i + 1]
  BY <1>2, <1>4, HeadTailProperties
<1> DEFINE l == Tail(link[e])
           back == prevIncomingAckNumber[e]
<1> HIDE DEF p, s, k
<1>6. /\ link'[e] = l /\ link'[g] = link[g]
      /\ prevIncomingSequenceNumber'[e] = p.sequenceNumber
      /\ prevIncomingSequenceNumber'[g] = prevIncomingSequenceNumber[g]
      /\ sendAckTimer'[e] = TRUE /\ sendAckTimer'[g] = sendAckTimer[g]
      /\ prevIncomingAckNumber'[g] = prevIncomingAckNumber[g]
      /\ prevIncomingAckNumber'[e] = IF p.ackNumber = NoNumber THEN back ELSE p.ackNumber
  <2>1. link'[e] = l /\ link'[g] = link[g]
    BY <1>1, <1>2 DEF Shapes
  <2>2. /\ prevIncomingSequenceNumber'[e] = p.sequenceNumber
        /\ prevIncomingSequenceNumber'[g] = prevIncomingSequenceNumber[g]
        /\ sendAckTimer'[e] = TRUE /\ sendAckTimer'[g] = sendAckTimer[g]
    BY <1>1, <1>2 DEF Shapes
  <2>3. /\ prevIncomingAckNumber'[g] = prevIncomingAckNumber[g]
        /\ prevIncomingAckNumber'[e] = IF p.ackNumber = NoNumber THEN back ELSE p.ackNumber
    BY <1>1, <1>2, SMTT(30) DEF Shapes
  <2> QED
    BY <2>1, <2>2, <2>3
<1>7. Len(l) = k - 1 /\ \A i \in 1 .. k - 1 : i + 1 \in 1 .. k /\ l[i] = link[e][i + 1]
  BY <1>4, <1>5
<1> HIDE DEF l, back
<1>8. back <= prevIncomingAckNumber'[e] /\ prevIncomingAckNumber'[e] \in Int
  <2>1. p.ackNumber \in Int
    BY <1>3, PacketNumbers
  <2> QED
    BY <1>3, <1>4, <1>6, <2>1 DEF back
<1>9. Got(e)'
  <2>1. p.sequenceNumber <= s /\ p.sequenceNumber = s - (k - 1)
    BY <1>3, <1>4
  <2> QED
    BY <1>2, <1>3, <1>6, <1>7, <2>1 DEF Got, s
<1>10. Numbered(e)'
  <2>1. \A i \in 1 .. k : link[e][i].sequenceNumber = s - k + i
    BY DEF Numbers, Numbered, s, k
  <2>2. ASSUME NEW i \in 1 .. k - 1
        PROVE  l[i].sequenceNumber = s - (k - 1) + i
    <3>1. i + 1 \in 1 .. k /\ l[i] = link[e][i + 1] /\ s - k + (i + 1) = s - (k - 1) + i
      BY <1>4, <1>7
    <3> QED
      BY <2>1, <3>1
  <2>3. \A i \in 1 .. k - 1 : l[i].sequenceNumber = s - (k - 1) + i
    BY <2>2
  <2> QED
    BY <1>2, <1>6, <1>7, <2>3 DEF Numbered, s
<1>11. Acked(e)'
  <2> DEFINE last == prevAckedSequenceNumber[g]
             new == prevIncomingAckNumber'[e]
  <2>1. /\ back <= last
        /\ \A i \in 1 .. k : link[e][i].ackNumber # NoNumber =>
             back <= link[e][i].ackNumber /\ link[e][i].ackNumber <= last
        /\ \A i, j \in 1 .. k :
             i < j /\ link[e][i].ackNumber # NoNumber /\ link[e][j].ackNumber # NoNumber =>
               link[e][i].ackNumber <= link[e][j].ackNumber
        /\ back = last \/ \E i \in 1 .. k : link[e][i].ackNumber = last
    BY <1>2 DEF Numbers, Acked, back, k
  <2>2. new = IF p.ackNumber = NoNumber THEN back ELSE p.ackNumber
    BY <1>6
  <2>3. last \in Int /\ back \in Int /\ new \in Int /\ back <= new
    BY <1>4, <1>8 DEF back
  <2>4. p = link[e][1] /\ 1 \in 1 .. k
    BY <1>3, <1>4
  <2> HIDE DEF last, new
  <2>5. new <= last
    BY <2>1, <2>2, <2>4
  <2>6. ASSUME NEW i \in 1 .. k - 1, l[i].ackNumber # NoNumber
        PROVE  new <= l[i].ackNumber /\ l[i].ackNumber <= last
    <3>1. i + 1 \in 1 .. k /\ l[i] = link[e][i + 1] /\ 1 < i + 1
      BY <1>4, <1>7
    <3>2. link[e][i + 1].ackNumber # NoNumber
      BY <2>6, <3>1
    <3>3. back <= l[i].ackNumber /\ l[i].ackNumber <= last
      BY <2>1, <3>1, <3>2
    <3>4. CASE p.ackNumber = NoNumber
      BY <3>3, <3>4, <2>2
    <3>5. CASE p.ackNumber # NoNumber
      <4>1. link[e][1].ackNumber <= link[e][i + 1].ackNumber
        BY <2>1, <2>4, <3>1, <3>2, <3>5
      <4> QED
        BY <4>1, <2>2, <2>4, <3>1, <3>3, <3>5
    <3> QED
      BY <3>4, <3>5
  <2>7. ASSUME NEW i \in 1 .. k - 1, NEW j \in 1 .. k - 1, i < j,
               l[i].ackNumber # NoNumber, l[j].ackNumber # NoNumber
        PROVE  l[i].ackNumber <= l[j].ackNumber
    <3>1. /\ i + 1 \in 1 .. k /\ l[i] = link[e][i + 1]
          /\ j + 1 \in 1 .. k /\ l[j] = link[e][j + 1]
      BY <1>7
    <3>2. i + 1 < j + 1
      BY <1>4, <2>7
    <3> QED
      BY <2>1, <2>7, <3>1, <3>2
  <2>8. new = last \/ \E i \in 1 .. k - 1 : l[i].ackNumber = last
    <3>1. CASE back = last
      BY <3>1, <2>3, <2>5
    <3>2. CASE \E i \in 1 .. k : link[e][i].ackNumber = last
      <4>1. PICK i \in 1 .. k : link[e][i].ackNumber = last
        BY <3>2
      <4>2. CASE i = 1
        <5>1. p.ackNumber = last
          BY <4>1, <4>2, <2>4
        <5>2. CASE p.ackNumber = NoNumber
          <6>1. last = -1 /\ new = back
            BY <5>1, <5>2, <2>2 DEF NoNumber
          <6>2. back >= -1
            BY NumberShapes DEF back
          <6> QED
            BY <6>1, <6>2, <2>1, <2>3
        <5>3. CASE p.ackNumber # NoNumber
          BY <5>1, <5>3, <2>2
        <5> QED
          BY <5>2, <5>3
      <4>3. CASE i # 1
        <5>1. i - 1 \in 1 .. k - 1 /\ (i - 1) + 1 = i
          BY <4>1, <4>3, <1>4
        <5>2. l[i - 1] = link[e][i]
          BY <5>1, <1>7
        <5> QED
          BY <4>1, <5>1, <5>2
      <4> QED
        BY <4>2, <4>3
    <3> QED
      BY <2>1, <3>1, <3>2
  <2> QED
    BY <1>2, <1>6, <1>7, <2>5, <2>6, <2>7, <2>8, ZenonT(40) DEF Acked, last, new
<1>12. InWindow(e)'
  <2>1. \A i \in 1 .. k : IsSegment(link[e][i]) =>
          link[e][i].sequenceNumber - prevIncomingAckNumber[g] <= WindowSize
    BY DEF Numbers, InWindow, k
  <2>2. ASSUME NEW i \in 1 .. k - 1, IsSegment(l[i])
        PROVE  l[i].sequenceNumber - prevIncomingAckNumber[g] <= WindowSize
    <3>1. i + 1 \in 1 .. k /\ l[i] = link[e][i + 1]
      BY <1>7
    <3>2. IsSegment(link[e][i + 1])
      BY <2>2, <3>1
    <3> QED
      BY <2>1, <3>1, <3>2
  <2> QED
    BY <1>6, <1>7, <2>2 DEF InWindow, IsSegment
<1>13. Numbers(g)'
  <2>1. Nothing(g)' \/ Got(g)'
    <3>1. Quiet(g) => Quiet(g)'
      <4>1. delivered'[g] = delivered[g]
        BY <1>1, SMTT(30) DEF HandleIncomingBleData, Shapes
      <4> QED
        BY <4>1, <1>2, <1>6 DEF Quiet
    <3>2. Nothing(g) => Nothing(g)'
      BY <3>1, <1>1, <1>2, <1>6 DEF Nothing
    <3>3. Got(g) => Got(g)'
      BY <1>1, <1>2, <1>6 DEF Got
    <3> QED
      BY <3>2, <3>3 DEF Numbers
  <2>2. Numbered(g)'
    BY <1>1, <1>2, <1>6 DEF Numbers, Numbered
  <2>3. Acked(g)'
    BY <1>1, <1>2, <1>6 DEF Numbers, Acked
  <2>4. InWindow(g)'
    <3> DEFINE new == prevIncomingAckNumber'[e]
    <3>1. back <= new /\ new \in Int /\ back \in Int
      BY <1>4, <1>8 DEF back
    <3>2. \A i \in 1 .. Len(link[g]) : IsSegment(link[g][i]) =>
            link[g][i].sequenceNumber - back <= WindowSize
      BY <1>1 DEF Numbers, InWindow, back
    <3> HIDE DEF new
    <3>3. ASSUME NEW i \in 1 .. Len(link[g]), IsSegment(link[g][i])
          PROVE  link[g][i].sequenceNumber - new <= WindowSize
      <4>1. link[g] \in Seq(AnyPacket)
        BY <1>1, NumberShapes
      <4>2. link[g][i].sequenceNumber \in Int
        <5>1. link[g][i] \in AnyPacket
          BY <4>1
        <5> QED
          BY <5>1, PacketNumbers
      <4>3. link[g][i].sequenceNumber - back <= WindowSize
        BY <3>2, <3>3
      <4> QED
        BY <3>1, <4>2, <4>3, NumberTypes
    <3> QED
      BY <1>1, <1>6, <3>3 DEF InWindow, IsSegment, new
  <2> QED
    BY <2>1, <2>2, <2>3, <2>4 DEF Numbers
<1> QED
  BY <1>9, <1>10, <1>11, <1>12, <1>13 DEF Numbers

-----------------------------------------------------------------------------
(* The kinds of steps, for numbers *)

(* An end sends a packet.  The peripheral does not send first. *)
SendStep(e) ==
  /\ \E p : Sends(e, p) /\ (IsSegment(p) => ~WindowFull(e))
  /\ UNCHANGED <<fieldVars, refused>>
  /\ sendAckTimer'[Other(e)] = sendAckTimer[Other(e)]
  /\ Quiet(Other(e)) => Quiet(Other(e))'
  /\ e = Peripheral => ~Quiet(e)

(* The two reasons for which an end closes although its peer is connected. *)
Refuses(e) ==
  isActive[e] /\ link[e] # <<>> /\ ~Valid(e, Head(link[e]))

TimesOut(e) ==
  /\ isActive[e] /\ isActive[Other(e)]
  /\ ~AckStillComing(e)
  /\ prevIncomingAckNumber[e] # sequenceNumber[e]

(* An end is closed. *)
CloseStep(e) ==
  /\ CloseEnd(e)
  /\ sendAckTimer' = [sendAckTimer EXCEPT ![e] = FALSE]
  /\ UNCHANGED <<prevIncomingSequenceNumber, prevIncomingAckNumber, ackVars,
                 queuedOutgoingMatterMessages, segmentWrite, delivered>>
  /\ \A g \in End : refused'[g] => refused[g] \/ Refuses(e) \/ TimesOut(e)

(* Numbers and packets stay.  An ack timer stops only when no ack is due. *)
RestStep ==
  /\ UNCHANGED <<fieldVars, ackVars, link>>
  /\ \A g \in End : refused'[g] => refused[g]
  /\ Quiet(Peripheral) => Quiet(Peripheral)'
  /\ \A g \in End : sendAckTimer[g] => sendAckTimer'[g] \/ ~AckIsDue(g)

(* A segment is sent. *)
LEMMA SegmentStep ==
  ASSUME Shapes, NEW e \in End, NEW n, NEW q, NEW p, NEW t, SendsSegment(e, n, q, p, t),
         ~WindowFull(e), UNCHANGED <<fieldVars, delivered, refused>>, e = Peripheral => ~Quiet(e)
  PROVE  SendStep(e)
<1>1. Other(e) \in End /\ Other(e) # e
  BY Ends
<1>2. /\ Sends(e, p)
      /\ queuedOutgoingMatterMessages' = [queuedOutgoingMatterMessages EXCEPT ![e] = t]
      /\ segmentWrite'[Other(e)] = segmentWrite[Other(e)]
      /\ sendAckTimer'[Other(e)] = sendAckTimer[Other(e)]
  BY DEF SendsSegment
<1>3. queuedOutgoingMatterMessages'[Other(e)] = queuedOutgoingMatterMessages[Other(e)]
  BY <1>1, <1>2 DEF Shapes
<1>4. Quiet(Other(e)) => Quiet(Other(e))'
  BY <1>2, <1>3 DEF Quiet
<1> QED
  BY <1>2, <1>4 DEF SendStep

(* A queue that waits. *)
LEMMA LeaveStep ==
  ASSUME Shapes, NEW e \in End, NEW t,
         queuedOutgoingMatterMessages' = [queuedOutgoingMatterMessages EXCEPT ![e] = t],
         UNCHANGED <<fieldVars, ackVars, link, sendAckTimer, delivered, refused>>,
         \A g \in End : g # e => segmentWrite'[g] = segmentWrite[g],
         e = Peripheral => ~Quiet(e)
  PROVE  RestStep
<1>1. Quiet(Peripheral) => Quiet(Peripheral)'
  <2>1. CASE e = Peripheral
    BY <2>1
  <2>2. CASE e # Peripheral
    <3>1. Peripheral \in End
      BY DEF End
    <3>2. /\ queuedOutgoingMatterMessages'[Peripheral] = queuedOutgoingMatterMessages[Peripheral]
          /\ segmentWrite'[Peripheral] = segmentWrite[Peripheral]
      BY <2>2, <3>1 DEF Shapes
    <3> QED
      BY <3>2 DEF Quiet
  <2> QED
    BY <2>1, <2>2
<1>2. \A g \in End : sendAckTimer[g] => sendAckTimer'[g]
  OBVIOUS
<1>3. \A g \in End : refused'[g] => refused[g]
  OBVIOUS
<1> QED
  BY <1>1, <1>2, <1>3 DEF RestStep

LEMMA KindSendMatterMessage ==
  ASSUME ContentInv, NEW e \in End, SendMatterMessage(e)
  PROVE  SendStep(e) \/ RestStep
<1> DEFINE n == Len(accepted[e])
           q == queuedOutgoingMatterMessages[e]
           t == Append(q, [data |-> MessageData(e, n + 1), read |-> 0])
<1>1. Shapes /\ Sender(e) /\ Queued(e, n, q)
  BY DEF ContentInv, Sender
<1>2. n \in Nat /\ n + 1 \in Nat /\ n + 1 <= Len(Outgoing[e])
  <2>1. n \in Nat /\ n < Len(Outgoing[e]) /\ Len(Outgoing[e]) \in Nat
    BY <1>1, BtpAssumption DEF SendMatterMessage, CanSend, Shapes
  <2> QED
    BY <2>1
<1>3. /\ Queued(e, n + 1, t) /\ t # <<>>
      /\ HeadRead(t) <=> HeadRead(q)
      /\ Reached(e, n + 1, t) = Reached(e, n, q)
  BY <1>1, <1>2, Push, ZenonT(40)
<1>4. /\ e = Peripheral => delivered[e] # <<>>
      /\ \/ ~sendInProgress[e] /\ ~WindowFull(e) /\ WriteSegment(e, t)
         \/ LeaveQueue(e, t, sendInProgress[e]) /\ UNCHANGED segmentWrite
      /\ UNCHANGED <<fieldVars, delivered, refused>>
  BY DEF SendMatterMessage, CanSend
<1>5. e = Peripheral => ~Quiet(e)
  BY <1>4 DEF Quiet
<1> HIDE DEF t
<1>6. CASE ~sendInProgress[e] /\ ~WindowFull(e) /\ WriteSegment(e, t)
  <2>1. ~HeadRead(t)
    BY <1>1, <1>3, <1>6 DEF Sender, HeadRead
  <2>2. PICK p, u : SendsSegment(e, n + 1, t, p, u)
    BY <1>1, <1>2, <1>3, <1>6, <2>1, WriteSegmentSends
  <2>3. SendStep(e)
    BY <1>1, <1>4, <1>5, <1>6, <2>2, SegmentStep
  <2> QED
    BY <2>3
<1>7. CASE LeaveQueue(e, t, sendInProgress[e]) /\ UNCHANGED segmentWrite
  <2>1. RestStep
    BY <1>1, <1>4, <1>5, <1>7, LeaveStep DEF LeaveQueue
  <2> QED
    BY <2>1
<1> QED
  BY <1>4, <1>6, <1>7

LEMMA KindSegmentWritten ==
  ASSUME ContentInv, NEW e \in End, SegmentWritten(e)
  PROVE  SendStep(e) \/ RestStep
<1> DEFINE n == Len(accepted[e])
           q == queuedOutgoingMatterMessages[e]
           t == IF segmentWrite[e] = "ending" THEN Tail(q) ELSE q
<1>1. Shapes /\ Sender(e) /\ Queued(e, n, q) /\ n \in Nat
  BY DEF ContentInv, Sender, Shapes
<1>2. /\ segmentWrite[e] # "none"
      /\ \/ GoesOn(e, t) /\ WriteSegment(e, t)
         \/ LeaveQueue(e, t, FALSE) /\ segmentWrite' = [segmentWrite EXCEPT ![e] = "none"]
      /\ UNCHANGED <<fieldVars, delivered, refused>>
  BY DEF SegmentWritten
<1>3. q # <<>> /\ ~confirmationLost[e] /\ (HeadRead(q) <=> segmentWrite[e] = "ending")
  BY <1>1, <1>2 DEF Sender
<1>4. Queued(e, n, t) /\ ~HeadRead(t)
  <2>1. CASE segmentWrite[e] = "ending"
    BY <2>1, <1>1, <1>3, Pop
  <2>2. CASE segmentWrite[e] # "ending"
    BY <2>2, <1>1, <1>3
  <2> QED
    BY <2>1, <2>2
<1>5. ~Quiet(e)
  BY <1>2 DEF Quiet
<1> HIDE DEF t
<1>6. CASE GoesOn(e, t) /\ WriteSegment(e, t)
  <2>1. t # <<>> /\ ~WindowFull(e)
    BY <1>6 DEF GoesOn
  <2>2. PICK p, u : SendsSegment(e, n, t, p, u)
    BY <1>1, <1>4, <1>6, <2>1, WriteSegmentSends
  <2>3. SendStep(e)
    BY <1>1, <1>2, <1>5, <2>1, <2>2, SegmentStep
  <2> QED
    BY <2>3
<1>7. CASE LeaveQueue(e, t, FALSE) /\ segmentWrite' = [segmentWrite EXCEPT ![e] = "none"]
  <2>1. \A g \in End : g # e => segmentWrite'[g] = segmentWrite[g]
    BY <1>1, <1>7 DEF Shapes
  <2>2. RestStep
    BY <1>1, <1>2, <1>5, <1>7, <2>1, LeaveStep DEF LeaveQueue
  <2> QED
    BY <2>2
<1> QED
  BY <1>2, <1>6, <1>7

LEMMA KindSendAckTimeout ==
  ASSUME ContentInv, NEW e \in End, SendAckTimeout(e)
  PROVE  SendStep(e) \/ RestStep
<1> DEFINE f == Other(e)
<1>1. f \in End /\ f # e /\ \A g \in End : g = e \/ g = f
  BY Ends
<1>2. Shapes
  BY DEF ContentInv
<1>3. /\ sendAckTimer[e]
      /\ sendAckTimer' = [sendAckTimer EXCEPT ![e] = FALSE]
      /\ \/ SendAck(e)
         \/ ~AckIsDue(e) /\ UNCHANGED <<ackVars, link, segmentWrite>>
      /\ UNCHANGED <<fieldVars, queuedOutgoingMatterMessages, delivered, refused>>
  BY DEF SendAckTimeout
<1>4. ~Quiet(e)
  BY <1>3 DEF Quiet
<1>5. sendAckTimer'[f] = sendAckTimer[f]
  <2> HIDE DEF f
  <2> QED
    BY <1>1, <1>2, <1>3 DEF Shapes
<1>6. CASE SendAck(e)
  <2>1. PICK p : Sends(e, p) /\ p.segmentPayload = <<>>
    BY <1>2, <1>6, SendAckSends
  <2>2. segmentWrite'[f] = segmentWrite[f]
    <3>1. segmentWrite' = segmentWrite \/ segmentWrite' = [segmentWrite EXCEPT ![e] = "none"]
      BY <1>6 DEF SendAck
    <3> HIDE DEF f
    <3> QED
      BY <1>1, <1>2, <3>1 DEF Shapes
  <2>3. Quiet(f) => Quiet(f)'
    BY <1>3, <1>5, <2>2 DEF Quiet
  <2>4. IsSegment(p) => ~WindowFull(e)
    BY <2>1 DEF IsSegment
  <2>5. SendStep(e)
    BY <1>3, <1>4, <1>5, <2>1, <2>3, <2>4 DEF SendStep
  <2> QED
    BY <2>5
<1>7. CASE ~AckIsDue(e) /\ UNCHANGED <<ackVars, link, segmentWrite>>
  <2>1. Quiet(Peripheral) => Quiet(Peripheral)'
    <3>1. Peripheral \in End
      BY DEF End
    <3>2. CASE e = Peripheral
      BY <1>4, <3>2
    <3>3. CASE e # Peripheral
      <4>1. Peripheral = f
        BY <1>1, <3>1, <3>3
      <4>2. Quiet(f) => Quiet(f)'
        BY <1>3, <1>5, <1>7 DEF Quiet
      <4> QED
        BY <4>1, <4>2
    <3> QED
      BY <3>2, <3>3
  <2>2. \A g \in End : sendAckTimer[g] => sendAckTimer'[g] \/ ~AckIsDue(g)
    BY <1>1, <1>5, <1>7
  <2>3. \A g \in End : refused'[g] => refused[g]
    BY <1>3
  <2>4. RestStep
    BY <1>3, <1>7, <2>1, <2>2, <2>3 DEF RestStep
  <2> QED
    BY <2>4
<1> QED
  BY <1>3, <1>6, <1>7

(* A step that leaves all but promises and timers for acks alone. *)
LEMMA KindRest ==
  ASSUME UNCHANGED <<fieldVars, ackVars, link, sendAckTimer, queuedOutgoingMatterMessages,
                     segmentWrite, delivered>>,
         \A g \in End : refused'[g] => refused[g]
  PROVE  RestStep
<1>1. Quiet(Peripheral) => Quiet(Peripheral)'
  BY DEF Quiet
<1>2. \A g \in End : sendAckTimer[g] => sendAckTimer'[g]
  OBVIOUS
<1> QED
  BY <1>1, <1>2 DEF RestStep

LEMMA KindAckTimeout ==
  ASSUME ContentInv, NEW e \in End, AckTimeout(e)
  PROVE  CloseStep(e) \/ RestStep
<1> DEFINE fails == isActive[e] /\ prevIncomingAckNumber[e] # sequenceNumber[e]
           bad == refused[e] \/ (fails /\ isActive[Other(e)])
<1>1. Shapes
  BY DEF ContentInv
<1>2. /\ ~AckStillComing(e)
      /\ refused' = [refused EXCEPT ![e] = bad]
      /\ fails => CloseEnd(e) /\ sendAckTimer' = [sendAckTimer EXCEPT ![e] = FALSE]
      /\ ~fails => UNCHANGED <<isActive, link, sendAckTimer>>
      /\ UNCHANGED <<prevIncomingSequenceNumber, prevIncomingAckNumber, ackVars,
                     queuedOutgoingMatterMessages, segmentWrite, delivered>>
  BY DEF AckTimeout, sendVars
<1>3. \A g \in End : refused'[g] => refused[g] \/ (fails /\ isActive[Other(e)])
  <2> HIDE DEF bad, fails
  <2>1. ASSUME NEW g \in End
        PROVE  refused'[g] = IF g = e THEN bad ELSE refused[g]
    BY <1>1, <1>2 DEF Shapes
  <2> QED
    BY <2>1 DEF bad
<1>4. fails /\ isActive[Other(e)] => TimesOut(e)
  BY <1>2 DEF TimesOut
<1>5. CASE fails
  <2>1. \A g \in End : refused'[g] => refused[g] \/ Refuses(e) \/ TimesOut(e)
    BY <1>3, <1>4
  <2> QED
    BY <1>2, <1>5, <2>1 DEF CloseStep
<1>6. CASE ~fails
  <2>1. \A g \in End : refused'[g] => refused[g]
    BY <1>3, <1>6
  <2>2. UNCHANGED <<fieldVars, ackVars, link, sendAckTimer, queuedOutgoingMatterMessages,
                    segmentWrite, delivered>>
    BY <1>2, <1>6 DEF fieldVars
  <2>3. RestStep
    BY <2>1, <2>2, KindRest
  <2> QED
    BY <2>3
<1> QED
  BY <1>5, <1>6

LEMMA KindRefusePacket ==
  ASSUME ContentInv, NEW e \in End, RefusePacket(e)
  PROVE  CloseStep(e)
<1>1. Refuses(e)
  BY DEF RefusePacket, Refuses
<1> QED
  BY <1>1 DEF RefusePacket, CloseStep, sendVars

LEMMA KindClose ==
  ASSUME NEW e \in End, Close(e)
  PROVE  CloseStep(e)
BY DEF Close, CloseStep, sendVars, history

(* Every step is of one of four kinds. *)
LEMMA StepKinds ==
  ASSUME ContentInv, [Next]_vars
  PROVE  RestStep \/ \E e \in End : SendStep(e) \/ CloseStep(e) \/ HandleIncomingBleData(e)
<1>1. CASE UNCHANGED vars
  <2>1. UNCHANGED <<fieldVars, ackVars, link, sendAckTimer, queuedOutgoingMatterMessages,
                    segmentWrite, delivered, refused>>
    BY <1>1 DEF vars, timerVars, sendVars, history
  <2> QED
    BY <2>1, KindRest
<1>2. CASE Next
  <2>1. PICK e \in End :
          \/ SendMatterMessage(e) \/ SegmentWritten(e) \/ HandleIncomingBleData(e)
          \/ RefusePacket(e) \/ SendAckTimeout(e) \/ AckWritten(e) \/ AckTimeout(e) \/ Close(e)
    BY <1>2 DEF Next
  <2>2. CASE AckWritten(e)
    <3>1. UNCHANGED <<fieldVars, ackVars, link, sendAckTimer, queuedOutgoingMatterMessages,
                      segmentWrite, delivered, refused>>
      BY <2>2 DEF AckWritten, history
    <3> QED
      BY <3>1, KindRest
  <2> QED
    BY <2>1, <2>2, KindSendMatterMessage, KindSegmentWritten, KindRefusePacket,
       KindSendAckTimeout, KindAckTimeout, KindClose
<1> QED
  BY <1>1, <1>2

-----------------------------------------------------------------------------
(* Numbers: the steps of the other kinds, and the invariant *)

(* An end is closed. *)
LEMMA NumbersClosed ==
  ASSUME Shapes, NEW e \in End, \A x \in End : Numbers(x), CloseStep(e), NEW x \in End
  PROVE  Numbers(x)'
<1> DEFINE y == Other(x)
<1>1. y \in End /\ Numbers(x)
  BY Ends
<1>2. /\ isActive' = [isActive EXCEPT ![e] = FALSE]
      /\ link' = [link EXCEPT ![e] = <<>>]
      /\ sendAckTimer' = [sendAckTimer EXCEPT ![e] = FALSE]
      /\ UNCHANGED <<prevIncomingSequenceNumber, prevIncomingAckNumber, prevAckedSequenceNumber,
                     sequenceNumber, queuedOutgoingMatterMessages, segmentWrite, delivered>>
  BY DEF CloseStep, CloseEnd, ackVars
<1>3. CASE x = e
  <2>1. isActive'[x] = FALSE /\ link'[x] = <<>> /\ sendAckTimer'[x] = FALSE
    BY <1>2, <1>3 DEF Shapes
  <2>2. Nothing(x) => Nothing(x)'
    BY <1>2, <2>1 DEF Nothing, Quiet
  <2>3. Got(x) => Got(x)'
    BY <1>2, <2>1 DEF Got
  <2>4. Numbered(x)'
    BY <2>1 DEF Numbered
  <2>5. InWindow(x)'
    BY <2>1 DEF InWindow
  <2>6. Acked(x)'
    <3>1. prevIncomingAckNumber[x] <= prevAckedSequenceNumber[y]
      BY <1>1 DEF Numbers, Acked
    <3> QED
      BY <1>2, <2>1, <3>1 DEF Acked
  <2> QED
    BY <1>1, <2>2, <2>3, <2>4, <2>5, <2>6 DEF Numbers
<1>4. CASE x # e
  <2>1. isActive'[x] = isActive[x] /\ link'[x] = link[x] /\ sendAckTimer'[x] = sendAckTimer[x]
    BY <1>2, <1>4 DEF Shapes
  <2>2. Nothing(x) => Nothing(x)'
    BY <1>2, <2>1 DEF Nothing, Quiet
  <2>3. Got(x) => Got(x)'
    BY <1>2, <2>1 DEF Got
  <2>4. Numbered(x)' /\ Acked(x)' /\ InWindow(x)'
    <3>1. Numbered(x)'
      BY <1>1, <1>2, <2>1 DEF Numbers, Numbered
    <3>2. Acked(x)'
      BY <1>1, <1>2, <2>1 DEF Numbers, Acked
    <3>3. InWindow(x)'
      BY <1>1, <1>2, <2>1 DEF Numbers, InWindow
    <3> QED
      BY <3>1, <3>2, <3>3
  <2> QED
    BY <1>1, <2>2, <2>3, <2>4 DEF Numbers
<1> QED
  BY <1>3, <1>4

(* Numbers and packets stay. *)
LEMMA NumbersRest ==
  ASSUME Shapes, NEW x \in End, Numbers(x), RestStep
  PROVE  Numbers(x)'
<1>1. /\ UNCHANGED <<isActive, prevIncomingSequenceNumber, prevIncomingAckNumber,
                     prevAckedSequenceNumber, sequenceNumber, link>>
      /\ Quiet(Peripheral) => Quiet(Peripheral)'
      /\ sendAckTimer[x] => sendAckTimer'[x] \/ ~AckIsDue(x)
  BY DEF RestStep, fieldVars, ackVars
<1>2. Nothing(x) => Nothing(x)'
  BY <1>1 DEF Nothing
<1>3. Got(x) => Got(x)'
  <2>1. ASSUME Got(x), isActive[x], ~sendAckTimer'[x]
        PROVE  prevAckedSequenceNumber[x] = prevIncomingSequenceNumber[x]
    <3>1. CASE ~sendAckTimer[x]
      BY <2>1, <3>1 DEF Got
    <3>2. CASE sendAckTimer[x]
      <4>1. ~(prevIncomingSequenceNumber[x] > prevAckedSequenceNumber[x])
        BY <1>1, <2>1, <3>2 DEF AckIsDue
      <4>2. prevAckedSequenceNumber[x] <= prevIncomingSequenceNumber[x]
        BY <2>1 DEF Got
      <4> QED
        BY <4>1, <4>2, NumberShapes
    <3> QED
      BY <3>1, <3>2
  <2> QED
    BY <1>1, <2>1 DEF Got
<1>4. Numbered(x)'
  BY <1>1 DEF Numbers, Numbered
<1>5. Acked(x)'
  BY <1>1 DEF Numbers, Acked
<1>6. InWindow(x)'
  BY <1>1 DEF Numbers, InWindow
<1> QED
  BY <1>2, <1>3, <1>4, <1>5, <1>6 DEF Numbers

(* A packet is sent. *)
LEMMA NumbersSent ==
  ASSUME ContentInv, NEW e \in End, \A x \in End : Numbers(x), SendStep(e), ~wrapped'
  PROVE  ~wrapped /\ \A x \in End : Numbers(x)'
<1> DEFINE f == Other(e)
<1>1. f \in End /\ Other(f) = e /\ \A x \in End : x = e \/ x = f
  BY Ends
<1>2. Shapes /\ (isActive[f] \/ link[f] = <<>>)
  BY DEF ContentInv, Flow
<1>3. PICK p : Sends(e, p) /\ (IsSegment(p) => ~WindowFull(e))
  BY DEF SendStep
<1>4. /\ UNCHANGED fieldVars
      /\ sendAckTimer'[f] = sendAckTimer[f]
      /\ Quiet(f) => Quiet(f)'
      /\ e = Peripheral => ~Quiet(e)
  BY DEF SendStep
<1>5. Numbers(e) /\ Numbers(f) /\ Got(e)
  <2>1. Numbers(e) /\ Numbers(f)
    BY <1>1
  <2> QED
    BY <1>4, <2>1 DEF Numbers, Nothing
<1>6. Numbers(e)'
  BY <1>2, <1>3, <1>4, <1>5, NumbersOfSender
<1>7. Numbers(f)'
  BY <1>1, <1>2, <1>3, <1>4, <1>5, NumbersOfReceiver
<1>8. ~wrapped
  BY <1>2, <1>3, SendsNumber
<1> QED
  BY <1>1, <1>6, <1>7, <1>8

(* The handshake's response has number 0 and was not acked; nothing else was sent. *)
LEMMA NumbersInit ==
  Init => NumberInv
<1> SUFFICES ASSUME Init, NEW x \in End PROVE Numbers(x)
  BY DEF NumberInv
<1>1. MaxSequenceNumber \in Nat /\ Central # Peripheral /\ x \in {Central, Peripheral}
  BY BtpAssumption DEF End
<1>2. /\ link[x] = <<>> /\ prevIncomingAckNumber[x] = -1 /\ isActive[x] = TRUE
      /\ prevAckedSequenceNumber[x] = -1 /\ prevAckedSequenceNumber[Other(x)] = -1
      /\ delivered[x] = <<>> /\ queuedOutgoingMatterMessages[x] = <<>> /\ segmentWrite[x] = "none"
  BY Ends DEF Init
<1>3. Numbered(x) /\ InWindow(x)
  BY <1>2 DEF Numbered, InWindow
<1>4. Acked(x)
  BY <1>2 DEF Acked
<1>5. CASE x = Peripheral
  <2>1. Other(x) = Central /\ Central \in End
    BY <1>1, <1>5 DEF Other, End
  <2>2. /\ prevIncomingSequenceNumber[x] = MaxSequenceNumber
        /\ sequenceNumber[Other(x)] = -1
    BY <1>1, <1>5, <2>1 DEF Init
  <2>3. ~sendAckTimer[x]
    BY <1>1, <1>5 DEF Init
  <2>4. Len(link[x]) - 1 = -1
    BY <1>2
  <2> QED
    BY <1>2, <1>3, <1>4, <1>5, <2>2, <2>3, <2>4 DEF Numbers, Nothing, Quiet
<1>6. CASE x = Central
  <2>1. Other(x) = Peripheral /\ Peripheral \in End
    BY <1>1, <1>6 DEF Other, End
  <2>2. prevIncomingSequenceNumber[x] = 0 /\ sequenceNumber[Other(x)] = 0
    BY <1>1, <1>6, <2>1 DEF Init
  <2>3. sendAckTimer[x]
    BY <1>1, <1>6 DEF Init
  <2>4. Len(link[x]) = 0
    BY <1>2
  <2>5. 0 <= 0 /\ -1 <= 0 /\ 0 = 0 - 0
    OBVIOUS
  <2>6. Got(x)
    BY <1>2, <2>2, <2>3, <2>4, <2>5 DEF Got
  <2> QED
    BY <1>3, <1>4, <2>6 DEF Numbers
<1> QED
  BY <1>1, <1>5, <1>6

LEMMA NumbersNext ==
  ContentInv /\ ContentInv' /\ NumberInv /\ [Next]_vars => NumberInv'
<1> SUFFICES ASSUME ContentInv, ContentInv', NumberInv, [Next]_vars, ~wrapped'
             PROVE  \A x \in End : Numbers(x)'
  BY DEF NumberInv
<1>1. Shapes /\ Shapes'
  BY DEF ContentInv
<1>2. ASSUME NEW e \in End, SendStep(e)
      PROVE  \A x \in End : Numbers(x)'
  <2>1. ~wrapped
    BY <1>1, <1>2, SendsNumber DEF SendStep
  <2>2. \A x \in End : Numbers(x)
    BY <2>1 DEF NumberInv
  <2> QED
    BY <1>2, <2>2, NumbersSent
<1>3. ASSUME NEW e \in End, CloseStep(e)
      PROVE  \A x \in End : Numbers(x)'
  <2>1. \A x \in End : Numbers(x)
    BY <1>3 DEF NumberInv, CloseStep, ackVars
  <2> QED
    BY <1>1, <1>3, <2>1, NumbersClosed
<1>4. ASSUME RestStep
      PROVE  \A x \in End : Numbers(x)'
  <2>1. \A x \in End : Numbers(x)
    BY <1>4 DEF NumberInv, RestStep, ackVars
  <2> QED
    BY <1>1, <1>4, <2>1, NumbersRest
<1>5. ASSUME NEW e \in End, HandleIncomingBleData(e)
      PROVE  \A x \in End : Numbers(x)'
  <2>1. \A x \in End : Numbers(x)
    BY <1>5 DEF NumberInv, HandleIncomingBleData, ackVars
  <2>2. Numbers(e)' /\ Numbers(Other(e))'
    BY <1>1, <1>5, <2>1, Ends, NumbersReceived
  <2> QED
    BY <2>2, Ends
<1> QED
  BY <1>2, <1>3, <1>4, <1>5, StepKinds

(* Until a number returns to 0, numbers and acks are in the order of the packets. *)
LEMMA NumbersHold ==
  Spec => []NumberInv
BY ContentInit, ContentNext, NumbersInit, NumbersNext, PTL DEF Spec

-----------------------------------------------------------------------------
(* The window *)

(* A segment is not further back on the link than the window is wide. *)
LEMMA SegmentPlace ==
  ASSUME ContentInv, NEW e \in End, Numbers(e), Numbers(Other(e)),
         NEW i \in 1 .. Len(link[e]), IsSegment(link[e][i])
  PROVE  i <= WindowSize
<1> DEFINE g == Other(e)
           s == sequenceNumber[g]
           k == Len(link[e])
           back == prevIncomingAckNumber[g]
           last == prevAckedSequenceNumber[e]
<1>1. g \in End /\ Other(g) = e
  BY Ends
<1>2. Shapes /\ Flow(g)
  BY <1>1 DEF ContentInv
<1>3. /\ s \in Int /\ k \in Nat /\ back \in Int /\ last \in Int
      /\ prevIncomingSequenceNumber[e] \in Int
  BY <1>1, <1>2, NumberShapes
<1>4. link[e][i].sequenceNumber = s - k + i
  BY DEF Numbers, Numbered
<1>5. link[e][i].sequenceNumber - back <= WindowSize
  BY DEF Numbers, InWindow
<1>6. back <= last
  BY <1>1 DEF Numbers, Acked
<1>7. isActive[e]
  <2>1. CASE ~isActive[e]
    <3>1. link[e] = <<>>
      BY <1>1, <1>2, <2>1 DEF Flow
    <3>2. Len(link[e]) = 0
      BY <3>1
    <3> QED
      BY <3>2
  <2> QED
    BY <2>1
<1>8. last <= s - k
  <2>1. CASE Got(e)
    <3>1. last <= prevIncomingSequenceNumber[e] /\ prevIncomingSequenceNumber[e] = s - k
      BY <1>7, <2>1 DEF Got
    <3> QED
      BY <3>1
  <2>2. CASE Nothing(e)
    <3>1. last = -1 /\ s = k - 1
      BY <1>7, <2>2 DEF Nothing
    <3> HIDE DEF s, k, last
    <3> QED
      BY <1>3, <3>1
  <2> QED
    BY <2>1, <2>2 DEF Numbers
<1> HIDE DEF s, k, back, last
<1>9. i \in Nat /\ WindowSize \in Nat
  BY <1>3, NumberTypes DEF k
<1> QED
  BY <1>3, <1>4, <1>5, <1>6, <1>8, <1>9

LEMMA WindowHolds ==
  ContentInv /\ NumberInv => WindowRespected
<1> SUFFICES ASSUME ContentInv, NumberInv, ~wrapped, NEW e \in End
             PROVE  Cardinality({i \in DOMAIN link[e] : IsSegment(link[e][i])}) <= WindowSize
  BY DEF WindowRespected
<1> DEFINE S == {i \in DOMAIN link[e] : IsSegment(link[e][i])}
<1>1. Numbers(e) /\ Numbers(Other(e))
  BY Ends DEF NumberInv
<1>2. link[e] \in Seq(AnyPacket) /\ Len(link[e]) \in Nat
  BY DEF ContentInv, Shapes
<1>3. ASSUME NEW i \in S
      PROVE  i \in 1 .. WindowSize
  <2>1. i \in 1 .. Len(link[e]) /\ IsSegment(link[e][i])
    BY <1>2
  <2>2. i <= WindowSize
    BY <1>1, <2>1, SegmentPlace
  <2> QED
    BY <1>2, <2>1, <2>2, NumberTypes
<1>4. S \in SUBSET (1 .. WindowSize)
  BY <1>3
<1>5. 1 \in Int /\ WindowSize \in Int /\ WindowSize >= 1 /\ WindowSize - 1 + 1 = WindowSize
  BY NumberTypes
<1>6. IsFiniteSet(1 .. WindowSize) /\ Cardinality(1 .. WindowSize) = WindowSize
  BY <1>5, FS_Interval
<1> HIDE DEF S
<1>7. Cardinality(S) <= Cardinality(1 .. WindowSize)
  BY <1>4, <1>6, FS_Subset
<1> QED
  BY <1>6, <1>7 DEF S

(* processSendQueue() never has more segments on their way than the window   *)
(* allows, whatever acks the other end sends and when its timer sends them,  *)
(* until a sequence number returns to 0.                                     *)
THEOREM WindowIsRespected == Spec => []WindowRespected
BY ContentHolds, NumbersHold, WindowHolds, PTL

-----------------------------------------------------------------------------
(* Slack *)

(* The packet at the head of a link is one the receiver calls valid. *)
LEMMA HeadIsValid ==
  ASSUME ContentInv, NEW e \in End, Numbers(e), Numbers(Other(e)), Slack(e),
         isActive[e], link[e] # <<>>
  PROVE  Valid(e, Head(link[e]))
<1> DEFINE g == Other(e)
           p == Head(link[e])
           s == sequenceNumber[g]
           k == Len(link[e])
           prev == prevIncomingSequenceNumber[e]
           back == prevIncomingAckNumber[e]
<1>1. g \in End /\ Other(g) = e
  BY Ends
<1>2. Shapes /\ Assembling(e)
  BY DEF ContentInv
<1>3. /\ p \in AnyPacket /\ k >= 1
      /\ p.sequenceNumber = s - k + 1
      /\ p.ackNumber # NoNumber => back <= p.ackNumber /\ p.ackNumber <= prevAckedSequenceNumber[g]
  BY <1>2, NextNumber
<1>4. /\ s \in Int /\ k \in Nat /\ prev \in Int /\ back \in Int /\ sequenceNumber[e] \in Int
      /\ prevAckedSequenceNumber[g] \in Int
  BY <1>1, <1>2, NumberShapes
<1>5. /\ p.sequenceNumber \in Nat /\ p.sequenceNumber <= MaxSequenceNumber
      /\ p.ackNumber \in Int
  BY <1>3, PacketNumbers
<1>6. MaxSequenceNumber \in Nat /\ WindowSize \in Nat /\ WindowSize >= 1
  BY NumberTypes
<1>7. ValidSequence(e, p)
  <2>1. CASE Got(e)
    <3>1. prev = s - k
      BY <2>1 DEF Got
    <3> HIDE DEF prev, s, k, p
    <3>2. prev + 1 = p.sequenceNumber
      BY <1>3, <1>4, <1>5, <3>1
    <3>3. p.sequenceNumber = p.sequenceNumber % (MaxSequenceNumber + 1)
      BY <1>5, <1>6
    <3> QED
      BY <3>2, <3>3 DEF ValidSequence, prev
  <2>2. CASE Nothing(e)
    <3>1. prev = MaxSequenceNumber /\ s = k - 1
      BY <2>2 DEF Nothing
    <3> HIDE DEF prev, s, k, p
    <3>2. p.sequenceNumber = 0
      BY <1>3, <1>4, <1>5, <3>1
    <3>3. (MaxSequenceNumber + 1) % (MaxSequenceNumber + 1) = 0
      BY <1>6
    <3> QED
      BY <3>1, <3>2, <3>3 DEF ValidSequence, prev
  <2> QED
    BY <2>1, <2>2 DEF Numbers
<1>8. ValidAck(e, p)
  <2>1. CASE p.ackNumber = NoNumber
    BY <2>1 DEF ValidAck
  <2>2. CASE p.ackNumber # NoNumber
    <3>1. prevAckedSequenceNumber[g] <= sequenceNumber[e]
      BY <1>2, AckIsBehind DEF Numbers
    <3>2. WindowSize > 1
      <4>1. WindowSize # 1
        BY DEF Slack
      <4> QED
        BY <1>6, <4>1
    <3>3. sequenceNumber[e] - back <= WindowSize - 1
      BY <3>2 DEF Slack
    <3>4. back <= p.ackNumber /\ p.ackNumber <= prevAckedSequenceNumber[g]
      BY <1>3, <2>2
    <3> HIDE DEF back, p, g
    <3>5. p.ackNumber <= sequenceNumber[e] /\ ~(p.ackNumber - back > WindowSize - 1)
      BY <1>4, <1>5, <1>6, <3>1, <3>3, <3>4, SMTT(30)
    <3>6. ~ExceedsWindowSize(back, p.ackNumber)
      BY <1>4, <1>5, <3>4, <3>5, ExceedsFacts
    <3> QED
      BY <3>5, <3>6 DEF ValidAck, back
  <2> QED
    BY <2>1, <2>2
<1>9. HasContent(p) /\ ValidSegment(e, p) /\ ValidLength(e, p)
  <2>1. PICK c : Carries(g, p, Place(e), c)
    BY NextPacket
  <2> DEFINE n == Len(delivered[e]) + 1
  <2> HIDE DEF p, g, n
  <2>2. g = Other(e)
    BY DEF g
  <2> QED
    BY <1>2, <1>3, <2>1, <2>2, Receive
<1> QED
  BY <1>7, <1>8, <1>9 DEF Valid

(* An ack that nobody will send and that is not on its way is not missing. *)
LEMMA NoTimeOut ==
  ASSUME Shapes, NEW e \in End, Numbers(e), Numbers(Other(e))
  PROVE  ~TimesOut(e)
<1> SUFFICES ASSUME TimesOut(e) PROVE FALSE
  OBVIOUS
<1> DEFINE f == Other(e)
<1>1. f \in End /\ Other(f) = e
  BY Ends
<1>2. /\ isActive[e] /\ isActive[f] /\ link[e] = <<>> /\ link[f] = <<>> /\ ~sendAckTimer[f]
      /\ prevIncomingAckNumber[e] # sequenceNumber[e]
  BY DEF TimesOut, AckStillComing
<1>3. Len(link[e]) = 0 /\ Len(link[f]) = 0
  BY <1>2
<1>4. prevIncomingAckNumber[e] = prevAckedSequenceNumber[f]
  <2>1. \/ prevIncomingAckNumber[e] = prevAckedSequenceNumber[f]
        \/ \E i \in 1 .. Len(link[e]) : link[e][i].ackNumber = prevAckedSequenceNumber[f]
    BY <1>2 DEF Numbers, Acked
  <2> QED
    BY <1>3, <2>1
<1>5. sequenceNumber[e] \in Int
  BY NumberShapes
<1>6. CASE Got(f)
  <2>1. /\ prevIncomingSequenceNumber[f] = sequenceNumber[e] - Len(link[f])
        /\ prevAckedSequenceNumber[f] = prevIncomingSequenceNumber[f]
    BY <1>1, <1>2, <1>6 DEF Got
  <2> QED
    BY <1>2, <1>3, <1>4, <1>5, <2>1
<1>7. CASE Nothing(f)
  <2>1. prevAckedSequenceNumber[f] = -1 /\ sequenceNumber[e] = Len(link[f]) - 1
    BY <1>1, <1>2, <1>7 DEF Nothing
  <2> QED
    BY <1>2, <1>3, <1>4, <1>5, <2>1
<1> QED
  BY <1>6, <1>7 DEF Numbers

LEMMA SlackInit ==
  Init => SlackInv
<1> SUFFICES ASSUME Init PROVE SlackInv
  OBVIOUS
<1>1. ASSUME NEW x \in End
      PROVE  Slack(x) /\ ~refused[x]
  <2>1. /\ sequenceNumber[x] = (IF x = Peripheral THEN 0 ELSE -1) /\ prevIncomingAckNumber[x] = -1
        /\ link[x] = <<>> /\ refused[x] = FALSE
    BY DEF Init
  <2>2. WindowSize > 1 => sequenceNumber[x] - prevIncomingAckNumber[x] <= WindowSize - 1
    BY <2>1, NumberTypes
  <2> QED
    BY <2>1, <2>2 DEF Slack
<1> QED
  BY <1>1 DEF SlackInv

(* A packet that is sent and does not use up the window. *)
LEMMA SlackSent ==
  ASSUME ContentInv, NEW e \in End, \A x \in End : Numbers(x), \A x \in End : Slack(x),
         SendStep(e), Early'
  PROVE  \A x \in End : Slack(x)'
<1> DEFINE f == Other(e)
           s == sequenceNumber[e]
           back == prevIncomingAckNumber[e]
<1>1. f \in End /\ f # e /\ Other(f) = e /\ \A x \in End : x = e \/ x = f
  BY Ends
<1>2. Shapes
  BY DEF ContentInv
<1>3. PICK p : Sends(e, p)
  BY DEF SendStep
<1>4. ~wrapped' /\ ~windowFilled'[e]
  BY DEF Early
<1>5. /\ sequenceNumber'[e] = s + 1
      /\ sequenceNumber'[f] = sequenceNumber[f]
      /\ windowFilled'[e] <=> windowFilled[e] \/ ExceedsWindowSize(back, s + 1)
  BY <1>2, <1>3, <1>4, SendsNumber
<1>6. back <= s
  BY <1>1, <1>2, AckIsBehind DEF Numbers
<1>7. s \in Int /\ back \in Int /\ WindowSize \in Nat
  BY <1>2, NumberShapes, NumberTypes
<1>8. prevIncomingAckNumber' = prevIncomingAckNumber
  BY DEF SendStep, fieldVars
<1> HIDE DEF s, back
<1>9. back <= s + 1 /\ s + 1 \in Int
  BY <1>6, <1>7
<1>10. ~ExceedsWindowSize(back, s + 1)
  BY <1>4, <1>5
<1>11. ~((s + 1) - back > WindowSize - 1)
  BY <1>7, <1>9, <1>10, ExceedsFacts
<1>12. (s + 1) - back <= WindowSize - 1 /\ WindowSize # 1
  BY <1>6, <1>7, <1>11
<1>13. Slack(e)'
  BY <1>5, <1>8, <1>12 DEF Slack, back
<1>14. Slack(f)'
  <2>1. Slack(f)
    BY <1>1
  <2> QED
    BY <1>5, <1>8, <1>12, <2>1 DEF Slack
<1> QED
  BY <1>1, <1>13, <1>14

(* A packet that arrives. *)
LEMMA SlackReceived ==
  ASSUME ContentInv, NEW e \in End, \A x \in End : Numbers(x), \A x \in End : Slack(x),
         HandleIncomingBleData(e)
  PROVE  \A x \in End : Slack(x)'
<1> DEFINE p == Head(link[e])
<1>1. Shapes
  BY DEF ContentInv
<1>2. /\ isActive[e] /\ link[e] # <<>> /\ sequenceNumber' = sequenceNumber
      /\ \/ UNCHANGED prevIncomingAckNumber
         \/ /\ p.ackNumber # NoNumber
            /\ prevIncomingAckNumber' = [prevIncomingAckNumber EXCEPT ![e] = p.ackNumber]
  BY DEF HandleIncomingBleData, ackVars
<1>3. p.ackNumber # NoNumber => prevIncomingAckNumber[e] <= p.ackNumber
  BY <1>1, <1>2, NextNumber
<1>4. p.ackNumber \in Int
  <2>1. p \in AnyPacket
    BY <1>1, <1>2, NextNumber
  <2> QED
    BY <2>1, PacketNumbers
<1>5. WindowSize # 1
  BY <1>2 DEF Slack
<1> HIDE DEF p
<1>6. ASSUME NEW x \in End
      PROVE  Slack(x)'
  <2>1. Slack(x)
    OBVIOUS
  <2>2. /\ prevIncomingAckNumber[x] \in Int /\ sequenceNumber[x] \in Int /\ WindowSize \in Nat
        /\ prevIncomingAckNumber'[x] \in Int
        /\ prevIncomingAckNumber[x] <= prevIncomingAckNumber'[x]
    <3>1. prevIncomingAckNumber[x] \in Int /\ sequenceNumber[x] \in Int /\ WindowSize \in Nat
      BY <1>1, NumberShapes, NumberTypes
    <3>2. prevIncomingAckNumber'[x] = prevIncomingAckNumber[x]
          \/ (x = e /\ p.ackNumber # NoNumber /\ prevIncomingAckNumber'[x] = p.ackNumber)
      BY <1>1, <1>2 DEF Shapes
    <3> QED
      BY <1>3, <1>4, <3>1, <3>2
  <2>3. WindowSize > 1 => sequenceNumber[x] - prevIncomingAckNumber'[x] <= WindowSize - 1
    BY <2>1, <2>2 DEF Slack
  <2> QED
    BY <1>2, <1>5, <2>3 DEF Slack
<1> QED
  BY <1>6

LEMMA SlackNext ==
  ContentInv /\ NumberInv /\ SlackInv /\ [Next]_vars => SlackInv'
<1> SUFFICES ASSUME ContentInv, NumberInv, SlackInv, [Next]_vars, Early'
             PROVE  (\A x \in End : Slack(x)') /\ (\A x \in End : ~refused'[x])
  BY DEF SlackInv
<1>1. Shapes
  BY DEF ContentInv
<1>2. ASSUME Early
      PROVE  /\ \A x \in End : Numbers(x)
             /\ \A x \in End : Slack(x)
             /\ \A x \in End : ~refused[x]
  BY <1>2 DEF NumberInv, SlackInv, Early
<1>3. ASSUME NEW e \in End, SendStep(e)
      PROVE  (\A x \in End : Slack(x)') /\ (\A x \in End : ~refused'[x])
  <2>1. Early
    <3>1. PICK p : Sends(e, p)
      BY <1>3 DEF SendStep
    <3>2. ~wrapped' /\ \A x \in End : ~windowFilled'[x]
      BY DEF Early
    <3>3. /\ ~wrapped
          /\ windowFilled'[Other(e)] = windowFilled[Other(e)]
          /\ windowFilled'[e] <=> windowFilled[e] \/ ExceedsWindowSize(prevIncomingAckNumber[e], sequenceNumber[e] + 1)
      BY <1>1, <3>1, <3>2, SendsNumber
    <3>4. ~windowFilled[e] /\ ~windowFilled[Other(e)]
      BY <3>2, <3>3, Ends
    <3> QED
      BY <3>3, <3>4, Ends DEF Early
  <2>2. \A x \in End : Slack(x)'
    BY <1>2, <1>3, <2>1, SlackSent
  <2> QED
    BY <1>2, <1>3, <2>1, <2>2 DEF SendStep
<1>4. ASSUME NEW e \in End, CloseStep(e)
      PROVE  (\A x \in End : Slack(x)') /\ (\A x \in End : ~refused'[x])
  <2>1. Early
    BY <1>4 DEF Early, CloseStep, ackVars
  <2>2. /\ \A x \in End : Numbers(x) /\ Numbers(Other(x))
        /\ \A x \in End : Slack(x) /\ ~refused[x]
    BY <1>2, <2>1, Ends
  <2>3. ~Refuses(e)
    BY <2>2, HeadIsValid DEF Refuses
  <2>4. ~TimesOut(e)
    BY <1>1, <2>2, NoTimeOut
  <2>5. \A x \in End : ~refused'[x]
    BY <1>4, <2>2, <2>3, <2>4 DEF CloseStep
  <2>6. ASSUME NEW x \in End
        PROVE  Slack(x)'
    <3>1. link'[x] = link[x] \/ link'[x] = <<>>
      BY <1>1, <1>4 DEF CloseStep, CloseEnd, Shapes
    <3>2. UNCHANGED <<sequenceNumber, prevIncomingAckNumber>>
      BY <1>4 DEF CloseStep, ackVars
    <3> QED
      BY <2>2, <3>1, <3>2 DEF Slack
  <2> QED
    BY <2>5, <2>6
<1>5. ASSUME RestStep
      PROVE  (\A x \in End : Slack(x)') /\ (\A x \in End : ~refused'[x])
  <2>1. Early
    BY <1>5 DEF Early, RestStep, ackVars
  <2>2. UNCHANGED <<sequenceNumber, prevIncomingAckNumber, link>>
    BY <1>5 DEF RestStep, ackVars, fieldVars
  <2>3. \A x \in End : Slack(x)'
    BY <1>2, <2>1, <2>2 DEF Slack
  <2> QED
    BY <1>2, <1>5, <2>1, <2>3 DEF RestStep
<1>6. ASSUME NEW e \in End, HandleIncomingBleData(e)
      PROVE  (\A x \in End : Slack(x)') /\ (\A x \in End : ~refused'[x])
  <2>1. Early
    BY <1>6 DEF Early, HandleIncomingBleData, ackVars
  <2>2. \A x \in End : Slack(x)'
    BY <1>2, <1>6, <2>1, SlackReceived
  <2> QED
    BY <1>2, <1>6, <2>1, <2>2 DEF HandleIncomingBleData
<1> QED
  BY <1>3, <1>4, <1>5, <1>6, StepKinds

LEMMA SlackHolds ==
  Spec => []SlackInv
BY ContentInit, ContentNext, NumbersInit, NumbersNext, SlackInit, SlackNext, PTL DEF Spec

(* Two ends that run this code never refuse a packet of each other, and the   *)
(* ack timer closes no connected session whose acks arrive, before a sequence *)
(* number has returned to 0 or a window was used up.                          *)
THEOREM RefusesOnlyAtLimits == Spec => []RefusedOnlyAtLimits
<1>1. SlackInv => RefusedOnlyAtLimits
  BY DEF SlackInv, RefusedOnlyAtLimits, Early
<1> QED
  BY <1>1, SlackHolds, PTL

=============================================================================
