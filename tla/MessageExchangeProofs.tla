------------------------- MODULE MessageExchangeProofs -------------------------
(***************************************************************************)
(* Proofs about MessageExchange, for any number of messages and            *)
(* retransmissions and for a network that loses, delays, repeats and       *)
(* reorders.  Stale timers, late acks and overtaken retransmissions may    *)
(* settle a send() in the wrong way, but they cannot forge an ack: every   *)
(* ack that exists anywhere is of a message that was received.             *)
(***************************************************************************)
EXTENDS MessageExchange, SequenceTheorems, TLAPS

AnyMessage == [from : End, id : Nat, acks : Nat]
AnyTimer   == [message : AnyMessage, count : 0 .. MaxTransmissions - 1]

(* The variables, without what depends on the end. *)
Shapes ==
  /\ receivedMessageToAck \in [End -> Nat]
  /\ ackTimer \in [End -> BOOLEAN]
  /\ sentMessageToAck \in [End -> {NoMessage} \cup AnyMessage]
  /\ ackPromise \in [End -> BOOLEAN]
  /\ retransmissionTimer \in [End -> {NoMessage} \cup AnyTimer]
  /\ closeTimer \in [End -> {"undefined", "running", "stopped"}]
  /\ closed \in [End -> BOOLEAN]
  /\ timers \in [End -> SUBSET AnyTimer]
  /\ resending \in [End -> SUBSET AnyTimer]
  /\ task \in [End -> {"idle", "sending", "waiting"}]
  /\ outcome \in [End -> {"pending", "resolved", "rejected"}]
  /\ received \in [End -> SUBSET Nat]
  /\ sent \in [End -> Nat]
  /\ network \in SUBSET AnyMessage
  /\ delivered \in [End -> Seq(Nat)]
  /\ acked \in [End -> SUBSET Nat]
  /\ gaveUp \in [End -> BOOLEAN]

(* An ack is of a message its sender has received. *)
AckIsTrue(m) == m.acks # None => m.acks \in received[m.from]

(* A message that e has sent or will send again. *)
Sound(e, m) == m.from = e /\ m.id \in 1 .. sent[e] /\ AckIsTrue(m)

NetworkSound ==
  \A m \in network : /\ m.id \in 0 .. sent[m.from]
                     /\ m.id = None => m.acks # None
                     /\ AckIsTrue(m)

(* Every timer of an end, running or not, and the messages it may send again. *)
AllTimers(e) == timers[e] \cup resending[e] \cup ({retransmissionTimer[e]} \ {NoMessage})

Held(e) == ({sentMessageToAck[e]} \ {NoMessage}) \cup {t.message : t \in AllTimers(e)}

(* What an end may still put into the network is sound. *)
Holds(e) ==
  /\ receivedMessageToAck[e] # None => receivedMessageToAck[e] \in received[e]
  /\ sentMessageToAck[e] # NoMessage => sentMessageToAck[e].id = sent[e]
  /\ \A m \in Held(e) : Sound(e, m)

(* The next message is sent only when the last one was acked, hence received. *)
Progress(e) ==
  /\ sent[e] <= MaxMessages[e]
  /\ received[Other(e)] \subseteq 1 .. sent[e]
  /\ 1 .. (sent[e] - 1) \subseteq received[Other(e)]
  /\ sentMessageToAck[e] = NoMessage => 1 .. sent[e] \subseteq received[Other(e)]

(* A send() that succeeds does so for a message that was received. *)
Succeeds(e) ==
  /\ acked[e] \subseteq received[Other(e)]
  /\ task[e] # "idle" => sent[e] # 0 /\ retransmissionTimer[e] # NoMessage
  /\ task[e] = "sending" /\ outcome[e] = "resolved" => sent[e] \in received[Other(e)]

(* Messages are handed over in order. *)
HandedOver(e) ==
  /\ \A i \in DOMAIN delivered[e] : delivered[e][i] \in received[e]
  /\ \A i, j \in DOMAIN delivered[e] : i < j => delivered[e][i] < delivered[e][j]

ExchangeInv ==
  /\ Shapes
  /\ NetworkSound
  /\ \A e \in End : Holds(e) /\ Progress(e) /\ Succeeds(e) /\ HandedOver(e)

-----------------------------------------------------------------------------
(* The two ends. *)
LEMMA Ends ==
  ASSUME NEW e \in End
  PROVE  Other(e) \in End /\ Other(e) # e /\ Other(Other(e)) = e /\ \A f \in End : f = e \/ f = Other(e)
BY ExchangeAssumption DEF End, Other

(* Messages are only ever added to what was sent and received. *)
Grows ==
  /\ Shapes'
  /\ \A e \in End : sent[e] <= sent'[e] /\ received[e] \subseteq received'[e]

LEMMA NothingNew ==
  ASSUME Shapes, Shapes', UNCHANGED <<sent, received>>
  PROVE  Grows
<1>1. ASSUME NEW e \in End PROVE sent[e] <= sent'[e]
  <2>1. sent[e] \in Nat
    BY DEF Shapes
  <2> QED BY <2>1
<1> QED BY <1>1 DEF Grows

(* So what was sound stays sound. *)
LEMMA SoundStays ==
  ASSUME Shapes, Grows, NEW e \in End, NEW m \in AnyMessage
  PROVE  /\ AckIsTrue(m) => AckIsTrue(m)'
         /\ Sound(e, m) => Sound(e, m)'
<1>1. /\ m.from \in End /\ received[m.from] \subseteq received'[m.from]
      /\ sent[e] \in Nat /\ sent'[e] \in Nat /\ sent[e] <= sent'[e]
      /\ m.id \in Nat
  BY DEF AnyMessage, Shapes, Grows
<1>2. AckIsTrue(m) => AckIsTrue(m)'
  BY <1>1 DEF AckIsTrue
<1>3. m.id \in 1 .. sent[e] => m.id \in 1 .. sent'[e]
  BY <1>1
<1> QED BY <1>2, <1>3 DEF Sound

(* The network stays sound if what is new in it is. *)
LEMMA NetworkStays ==
  ASSUME Shapes, Grows, NetworkSound, NEW m \in AnyMessage,
         network' \subseteq network \cup {m},
         m \in network' =>
           /\ m.id \in 0 .. sent'[m.from]
           /\ m.id = None => m.acks # None
           /\ AckIsTrue(m)'
  PROVE  NetworkSound'
<1> SUFFICES ASSUME NEW n \in network'
             PROVE  /\ n.id \in 0 .. sent'[n.from]
                    /\ n.id = None => n.acks # None
                    /\ AckIsTrue(n)'
  BY DEF NetworkSound
<1>1. CASE n \in network
  <2>1. n \in AnyMessage
    BY <1>1 DEF Shapes
  <2>2. /\ n.from \in End /\ n.id \in Nat /\ sent[n.from] \in Nat /\ sent'[n.from] \in Nat
        /\ sent[n.from] <= sent'[n.from]
    BY <2>1 DEF AnyMessage, Shapes, Grows
  <2>3. n.id \in 0 .. sent[n.from] /\ (n.id = None => n.acks # None) /\ AckIsTrue(n)
    BY <1>1 DEF NetworkSound
  <2>4. AckIsTrue(n)'
    BY <2>1, <2>2, <2>3, SoundStays
  <2> QED BY <2>2, <2>3, <2>4
<1>2. CASE n = m
  BY <1>2
<1> QED BY <1>1, <1>2

(* What an end holds stays sound if what is new in it is. *)
LEMMA HoldsStays ==
  ASSUME Shapes, Grows, NEW e \in End, Holds(e),
         \/ receivedMessageToAck'[e] \in {None, receivedMessageToAck[e]}
         \/ receivedMessageToAck'[e] \in received'[e],
         \/ sentMessageToAck'[e] = NoMessage
         \/ sentMessageToAck'[e] = sentMessageToAck[e] /\ sent'[e] = sent[e]
         \/ sentMessageToAck'[e].id = sent'[e],
         \A m \in Held(e)' : m \in Held(e) \/ Sound(e, m)'
  PROVE  Holds(e)'
<1>1. receivedMessageToAck'[e] # None => receivedMessageToAck'[e] \in received'[e]
  BY DEF Holds, Grows
<1>2. sentMessageToAck'[e] # NoMessage => sentMessageToAck'[e].id = sent'[e]
  BY DEF Holds
<1>3. ASSUME NEW m \in Held(e)' PROVE Sound(e, m)'
  <2>1. CASE m \in Held(e)
    <3>1. m \in AnyMessage
      BY <2>1 DEF Held, AllTimers, Shapes, AnyTimer
    <3>2. Sound(e, m)
      BY <2>1 DEF Holds
    <3> QED BY <3>1, <3>2, SoundStays
  <2> QED BY <1>3, <2>1
<1> QED BY <1>1, <1>2, <1>3 DEF Holds

(* Nothing is new when the timers are timers that were there. *)
LEMMA NothingNewHeld ==
  ASSUME NEW e \in End, AllTimers(e)' \subseteq AllTimers(e),
         sentMessageToAck'[e] \in {NoMessage, sentMessageToAck[e]}
  PROVE  Held(e)' \subseteq Held(e)
BY DEF Held

(* Order and progress of both directions depend on few variables. *)
LEMMA ProgressStays ==
  ASSUME NEW e \in End, Progress(e), UNCHANGED <<sent, received>>,
         sentMessageToAck'[e] = sentMessageToAck[e]
  PROVE  Progress(e)'
BY DEF Progress

LEMMA HandedOverStays ==
  ASSUME Grows, NEW e \in End, HandedOver(e), UNCHANGED delivered
  PROVE  HandedOver(e)'
BY DEF HandedOver, Grows

LEMMA SucceedsStays ==
  ASSUME Grows, NEW e \in End, Succeeds(e),
         UNCHANGED <<acked, sent>>,
         outcome'[e] \in {"rejected", outcome[e]},
         task'[e] \in {"idle", task[e]},
         retransmissionTimer'[e] = NoMessage => retransmissionTimer[e] = NoMessage
  PROVE  Succeeds(e)'
BY Ends DEF Succeeds, Grows

-----------------------------------------------------------------------------
(* A step at one end leaves the fields of the other end alone. *)
Untouched(f) ==
  /\ receivedMessageToAck'[f] = receivedMessageToAck[f]
  /\ sentMessageToAck'[f] = sentMessageToAck[f]
  /\ retransmissionTimer'[f] = retransmissionTimer[f]
  /\ timers'[f] = timers[f]
  /\ resending'[f] = resending[f]
  /\ task'[f] = task[f]
  /\ outcome'[f] = outcome[f]
  /\ received'[f] = received[f]
  /\ sent'[f] = sent[f]
  /\ delivered'[f] = delivered[f]
  /\ acked'[f] = acked[f]

(* So it is enough to look at the end that takes the step. *)
LEMMA OneEnd ==
  ASSUME ExchangeInv, NEW e \in End, Grows, Untouched(Other(e)),
         received'[e] \subseteq 1 .. sent[Other(e)],
         NetworkSound', Holds(e)', Progress(e)', Succeeds(e)', HandedOver(e)'
  PROVE  ExchangeInv'
<1> DEFINE f == Other(e)
<1>1. f \in End /\ Other(f) = e /\ \A g \in End : g = e \/ g = f
  BY Ends
<1>2. Shapes /\ Holds(f) /\ Progress(f) /\ Succeeds(f) /\ HandedOver(f)
  BY <1>1 DEF ExchangeInv
<1>3. received[e] \subseteq received'[e]
  BY DEF Grows
<1>4. Untouched(f)
  OBVIOUS
<1>5. received'[e] \subseteq 1 .. sent[f]
  OBVIOUS
<1> HIDE DEF f
<1>6. Holds(f)'
  <2>1. AllTimers(f)' \subseteq AllTimers(f)
    BY <1>4 DEF Untouched, AllTimers
  <2>2. Held(f)' \subseteq Held(f)
    BY <1>1, <2>1, <1>4, NothingNewHeld DEF Untouched
  <2> QED BY <1>1, <1>2, <1>4, <2>2, HoldsStays DEF Untouched
<1>7. Progress(f)'
  BY <1>1, <1>2, <1>3, <1>4, <1>5 DEF Progress, Untouched
<1>8. Succeeds(f)'
  BY <1>1, <1>2, <1>3, <1>4 DEF Succeeds, Untouched
<1>9. HandedOver(f)'
  BY <1>1, <1>2, <1>4 DEF HandedOver, Untouched
<1>10. Shapes'
  BY DEF Grows
<1>11. ASSUME NEW g \in End PROVE (Holds(g) /\ Progress(g) /\ Succeeds(g) /\ HandedOver(g))'
  <2>1. CASE g = e
    BY <2>1
  <2>2. CASE g = f
    BY <2>2, <1>6, <1>7, <1>8, <1>9
  <2> QED BY <1>1, <2>1, <2>2
<1> QED BY <1>10, <1>11 DEF ExchangeInv

(* What the invariant says of the end that takes a step. *)
LEMMA AtEnd ==
  ASSUME ExchangeInv, NEW e \in End
  PROVE  /\ Shapes /\ NetworkSound
         /\ Holds(e) /\ Progress(e) /\ Succeeds(e) /\ HandedOver(e)
         /\ Progress(Other(e))
         /\ Other(e) \in End /\ Other(e) # e /\ Other(Other(e)) = e
BY Ends DEF ExchangeInv

(* Steps that send, receive and hand over nothing new. *)
LEMMA QuietStep ==
  ASSUME ExchangeInv, NEW e \in End, Shapes', UNCHANGED <<sent, received, delivered, acked>>,
         Untouched(Other(e)), NetworkSound',
         receivedMessageToAck'[e] \in {None, receivedMessageToAck[e]},
         sentMessageToAck'[e] = sentMessageToAck[e],
         Held(e)' \subseteq Held(e),
         outcome'[e] \in {"rejected", outcome[e]},
         task'[e] \in {"idle", task[e]},
         retransmissionTimer'[e] = NoMessage => retransmissionTimer[e] = NoMessage
  PROVE  ExchangeInv'
<1>1. /\ Shapes /\ Holds(e) /\ Progress(e) /\ Succeeds(e) /\ HandedOver(e)
      /\ Progress(Other(e)) /\ Other(Other(e)) = e
  BY AtEnd
<1>2. Grows
  BY <1>1, NothingNew
<1>3. Holds(e)'
  BY <1>1, <1>2, HoldsStays
<1>4. Progress(e)' /\ Succeeds(e)' /\ HandedOver(e)'
  BY <1>1, <1>2, ProgressStays, SucceedsStays, HandedOverStays
<1>5. received'[e] \subseteq 1 .. sent[Other(e)]
  BY <1>1 DEF Progress
<1> QED BY <1>2, <1>3, <1>4, <1>5, OneEnd

-----------------------------------------------------------------------------
(* send(): the last message was acked, so all messages before this one were received. *)
LEMMA PrepareStep ==
  ASSUME ExchangeInv, NEW e \in End, NEW m, m = NextMessage(e), Prepare(e, m),
         task' = task \/ task' = [task EXCEPT ![e] = "sending"],
         network' = network \/ network' = network \cup {m}
  PROVE  ExchangeInv'
<1> DEFINE f == Other(e)
           timer == [message |-> m, count |-> 0]
<1>1. /\ Shapes /\ NetworkSound /\ Holds(e) /\ Progress(e) /\ Succeeds(e) /\ HandedOver(e)
      /\ Progress(f) /\ f \in End /\ f # e /\ Other(f) = e
  BY AtEnd
<1>2. sent[e] \in Nat /\ receivedMessageToAck[e] \in Nat /\ MaxMessages[e] \in Nat
  BY <1>1, ExchangeAssumption DEF Shapes
<1>3. m \in AnyMessage /\ m.from = e /\ m.id = sent[e] + 1 /\ m.acks = receivedMessageToAck[e]
  BY <1>2 DEF NextMessage, AnyMessage
<1>4. m # NoMessage
  BY <1>3, ExchangeAssumption DEF AnyMessage
<1>5. timer \in AnyTimer /\ timer.message = m
  BY <1>3, ExchangeAssumption DEF AnyTimer
<1>6. /\ sentMessageToAck[e] = NoMessage
      /\ sent[e] < MaxMessages[e]
      /\ sent' = [sent EXCEPT ![e] = sent[e] + 1]
      /\ receivedMessageToAck' = [receivedMessageToAck EXCEPT ![e] = None]
      /\ ackTimer' = [ackTimer EXCEPT ![e] = ackTimer[e] /\ m.acks = None]
      /\ sentMessageToAck' = [sentMessageToAck EXCEPT ![e] = m]
      /\ retransmissionTimer' = [retransmissionTimer EXCEPT ![e] = timer]
      /\ ackPromise' = [ackPromise EXCEPT ![e] = TRUE]
      /\ outcome' = [outcome EXCEPT ![e] = "pending"]
      /\ UNCHANGED <<timers, resending, closeTimer, closed, received, delivered, acked, gaveUp>>
  BY <1>3 DEF Prepare, CanSend, closeVars, historyVars
<1> HIDE DEF timer
<1>7. Shapes'
  <2> DEFINE running == ackTimer[e] /\ m.acks = None
  <2>1. running \in BOOLEAN
    BY Zenon
  <2>2. ackTimer' = [ackTimer EXCEPT ![e] = running]
    BY <1>6
  <2> HIDE DEF running
  <2>3. /\ receivedMessageToAck' \in [End -> Nat]
        /\ ackTimer' \in [End -> BOOLEAN]
        /\ sent' \in [End -> Nat]
    BY <1>1, <1>2, <1>6, <2>1, <2>2 DEF Shapes, None
  <2>4. /\ sentMessageToAck' \in [End -> {NoMessage} \cup AnyMessage]
        /\ retransmissionTimer' \in [End -> {NoMessage} \cup AnyTimer]
    BY <1>1, <1>3, <1>5, <1>6 DEF Shapes
  <2>5. /\ task' \in [End -> {"idle", "sending", "waiting"}]
        /\ outcome' \in [End -> {"pending", "resolved", "rejected"}]
        /\ network' \in SUBSET AnyMessage
    BY <1>1, <1>3, <1>6 DEF Shapes
  <2>6. ackPromise' \in [End -> BOOLEAN]
    BY <1>1, <1>6, Zenon DEF Shapes
  <2>7. /\ timers' \in [End -> SUBSET AnyTimer] /\ resending' \in [End -> SUBSET AnyTimer]
        /\ closeTimer' \in [End -> {"undefined", "running", "stopped"}]
        /\ closed' \in [End -> BOOLEAN]
        /\ received' \in [End -> SUBSET Nat]
        /\ delivered' \in [End -> Seq(Nat)]
        /\ acked' \in [End -> SUBSET Nat]
        /\ gaveUp' \in [End -> BOOLEAN]
    BY <1>1, <1>6 DEF Shapes
  <2> QED BY <2>3, <2>4, <2>5, <2>6, <2>7 DEF Shapes
<1>8. /\ sent'[e] = sent[e] + 1 /\ sentMessageToAck'[e] = m /\ outcome'[e] = "pending"
      /\ retransmissionTimer'[e] = timer /\ receivedMessageToAck'[e] = None
  BY <1>1, <1>6 DEF Shapes
<1>9. Untouched(f)
  BY <1>1, <1>6 DEF Shapes, Untouched
<1>10. Grows
  <2>1. ASSUME NEW g \in End PROVE sent[g] <= sent'[g]
    BY <1>1, <1>6 DEF Shapes
  <2> QED BY <1>6, <1>7, <2>1 DEF Grows
<1>11. Sound(e, m)' /\ AckIsTrue(m)'
  <2>1. AckIsTrue(m)'
    BY <1>1, <1>3, <1>6 DEF AckIsTrue, Holds
  <2> QED BY <1>2, <1>3, <1>8, <2>1 DEF Sound
<1>12. NetworkSound'
  <2>1. m.id \in 0 .. sent'[m.from] /\ m.id # None
    BY <1>2, <1>3, <1>8 DEF None
  <2> QED BY <1>1, <1>3, <1>10, <1>11, <2>1, NetworkStays
<1>13. Holds(e)'
  <2>1. ASSUME NEW n \in Held(e)' PROVE n \in Held(e) \/ n = m
    BY <1>5, <1>6, <1>8 DEF Held, AllTimers
  <2> QED BY <1>1, <1>3, <1>8, <1>10, <1>11, <2>1, HoldsStays
<1>14. Progress(e)'
  BY <1>1, <1>2, <1>4, <1>6, <1>8 DEF Progress
<1>15. Succeeds(e)'
  <2>1. timer # NoMessage
    BY <1>3, ExchangeAssumption DEF timer, AnyMessage
  <2> QED BY <1>1, <1>2, <1>6, <1>8, <2>1 DEF Succeeds
<1>16. HandedOver(e)'
  BY <1>1, <1>6, <1>10, HandedOverStays
<1>17. received'[e] \subseteq 1 .. sent[f]
  BY <1>1, <1>6 DEF Progress
<1> QED BY <1>9, <1>10, <1>12, <1>13, <1>14, <1>15, <1>16, <1>17, OneEnd

LEMMA ChannelSentPreserves ==
  ASSUME ExchangeInv, NEW e \in End, ChannelSent(e)
  PROVE  ExchangeInv'
<1> DEFINE f == Other(e)
<1>1. /\ Shapes /\ NetworkSound /\ Holds(e) /\ Progress(e) /\ Succeeds(e) /\ HandedOver(e)
      /\ Progress(f) /\ f \in End /\ f # e /\ Other(f) = e
  BY AtEnd
<1>2. /\ task[e] = "sending"
      /\ timers' = [timers EXCEPT ![e] = timers[e] \cup {retransmissionTimer[e]}]
      /\ task' = [task EXCEPT ![e] = IF outcome[e] = "pending" THEN "waiting" ELSE "idle"]
      /\ acked' = IF outcome[e] = "resolved"
                    THEN [acked EXCEPT ![e] = acked[e] \cup {sent[e]}] ELSE acked
      /\ UNCHANGED <<receivedMessageToAck, ackTimer, sentMessageToAck, ackPromise, outcome,
                     retransmissionTimer, resending, closeTimer, closed, received, sent, network,
                     delivered, gaveUp>>
  BY DEF ChannelSent, ackVars, sendVars, closeVars
<1>3. retransmissionTimer[e] # NoMessage /\ retransmissionTimer[e] \in AnyTimer
  BY <1>1, <1>2 DEF Succeeds, Shapes
<1>4. acked'[e] \subseteq received[f] /\ acked' \in [End -> SUBSET Nat] /\ acked'[f] = acked[f]
  BY <1>1, <1>2 DEF Succeeds, Shapes
<1>5. task' \in [End -> {"idle", "sending", "waiting"}] /\ task'[e] # "sending"
  BY <1>1, <1>2 DEF Shapes
<1>6. timers' \in [End -> SUBSET AnyTimer]
  BY <1>1, <1>2, <1>3 DEF Shapes
<1>7. Shapes'
  BY <1>1, <1>2, <1>4, <1>5, <1>6 DEF Shapes
<1>8. Grows
  BY <1>1, <1>2, <1>7, NothingNew
<1>9. Untouched(f)
  BY <1>1, <1>2, <1>4 DEF Shapes, Untouched
<1>10. NetworkSound'
  BY <1>1, <1>2 DEF NetworkSound, AckIsTrue
<1>11. Holds(e)'
  <2>1. AllTimers(e)' \subseteq AllTimers(e)
    BY <1>1, <1>2, <1>3 DEF AllTimers, Shapes
  <2>2. Held(e)' \subseteq Held(e)
    BY <1>2, <2>1, NothingNewHeld
  <2> QED BY <1>1, <1>2, <1>8, <2>2, HoldsStays
<1>12. Progress(e)' /\ HandedOver(e)'
  BY <1>1, <1>2, <1>8, ProgressStays, HandedOverStays
<1>13. Succeeds(e)'
  BY <1>1, <1>2, <1>4, <1>5 DEF Succeeds
<1>14. received'[e] \subseteq 1 .. sent[f]
  BY <1>1, <1>2 DEF Progress
<1> QED BY <1>8, <1>9, <1>10, <1>11, <1>12, <1>13, <1>14, OneEnd

(* Timers: what is sent again was sent before. *)
LEMMA TimerIsHeld ==
  ASSUME ExchangeInv, NEW e \in End, NEW t \in AllTimers(e)
  PROVE  /\ t \in AnyTimer /\ t.message \in AnyMessage /\ t.message \in Held(e)
         /\ Sound(e, t.message)
<1>1. Shapes /\ Holds(e)
  BY AtEnd
<1>2. t \in AnyTimer
  BY <1>1 DEF AllTimers, Shapes
<1> QED BY <1>1, <1>2 DEF AnyTimer, Held, Holds

LEMMA RetransmitPreserves ==
  ASSUME ExchangeInv, NEW e \in End, NEW t \in timers[e], Retransmit(e, t)
  PROVE  ExchangeInv'
<1> DEFINE f == Other(e)
           again == [t EXCEPT !.count = t.count + 1]
<1>1. Shapes /\ NetworkSound /\ f \in End /\ f # e
  BY AtEnd
<1>2. /\ t \in AnyTimer /\ t.message \in AnyMessage /\ t.message \in Held(e)
      /\ Sound(e, t.message)
  BY TimerIsHeld DEF AllTimers
<1>3. /\ t.count + 1 < MaxTransmissions
      /\ timers' = [timers EXCEPT ![e] = timers[e] \ {t}]
      /\ resending' = [resending EXCEPT ![e] = resending[e] \cup {again}]
      /\ network' = network \cup {t.message}
      /\ UNCHANGED <<receivedMessageToAck, ackTimer, sentMessageToAck, ackPromise, outcome,
                     retransmissionTimer, closeTimer, closed, task, received, sent, delivered,
                     acked, gaveUp>>
  BY DEF Retransmit, Transmit, ackVars, sendVars, closeVars, historyVars
<1>4. again \in AnyTimer /\ again.message = t.message
  BY <1>2, <1>3, ExchangeAssumption DEF AnyTimer
<1> HIDE DEF again
<1>5. timers' \in [End -> SUBSET AnyTimer] /\ resending' \in [End -> SUBSET AnyTimer]
  BY <1>1, <1>3, <1>4 DEF Shapes
<1>6. network' \in SUBSET AnyMessage
  BY <1>1, <1>2, <1>3 DEF Shapes
<1>7. Shapes'
  BY <1>1, <1>3, <1>5, <1>6 DEF Shapes
<1>8. Grows
  BY <1>1, <1>3, <1>7, NothingNew
<1>9. Untouched(f)
  BY <1>1, <1>3 DEF Shapes, Untouched
<1>10. NetworkSound'
  <2>1. Sound(e, t.message)'
    BY <1>1, <1>2, <1>8, SoundStays
  <2>2. /\ t.message.id \in 0 .. sent'[t.message.from] /\ t.message.id # None
        /\ AckIsTrue(t.message)'
    <3>1. sent'[e] \in Nat
      BY <1>7 DEF Shapes
    <3> QED BY <2>1, <3>1 DEF Sound, None
  <2> QED BY <1>1, <1>2, <1>3, <1>8, <2>2, NetworkStays
<1>11. Held(e)' \subseteq Held(e)
  <2>1. timers'[e] = timers[e] \ {t} /\ resending'[e] = resending[e] \cup {again}
    BY <1>1, <1>3 DEF Shapes
  <2>2. ASSUME NEW u \in AllTimers(e)' PROVE u \in AllTimers(e) \/ u = again
    BY <1>3, <2>1 DEF AllTimers
  <2> QED BY <1>2, <1>3, <1>4, <2>2 DEF Held
<1> QED BY <1>3, <1>7, <1>9, <1>10, <1>11, QuietStep

LEMMA ResentPreserves ==
  ASSUME ExchangeInv, NEW e \in End, NEW t \in resending[e], Resent(e, t)
  PROVE  ExchangeInv'
<1> DEFINE f == Other(e)
<1>1. Shapes /\ NetworkSound /\ f \in End /\ f # e
  BY AtEnd
<1>2. t \in AnyTimer /\ t.message \in AnyMessage
  BY TimerIsHeld DEF AllTimers
<1>3. /\ timers' = [timers EXCEPT ![e] = timers[e] \cup {t}]
      /\ resending' = [resending EXCEPT ![e] = resending[e] \ {t}]
      /\ retransmissionTimer' = [retransmissionTimer EXCEPT ![e] = t]
      /\ UNCHANGED <<receivedMessageToAck, ackTimer, sentMessageToAck, ackPromise, outcome,
                     closeTimer, closed, task, received, sent, network, delivered, acked, gaveUp>>
  BY DEF Resent, ackVars, sendVars, closeVars, historyVars
<1>4. /\ timers' \in [End -> SUBSET AnyTimer] /\ resending' \in [End -> SUBSET AnyTimer]
      /\ retransmissionTimer' \in [End -> {NoMessage} \cup AnyTimer]
  BY <1>1, <1>2, <1>3 DEF Shapes
<1>5. Shapes'
  BY <1>1, <1>3, <1>4 DEF Shapes
<1>6. Untouched(f)
  BY <1>1, <1>3 DEF Shapes, Untouched
<1>7. NetworkSound'
  BY <1>1, <1>3 DEF NetworkSound, AckIsTrue
<1>8. retransmissionTimer'[e] = t
  BY <1>1, <1>3 DEF Shapes
<1>9. t # NoMessage
  <2>1. t \in [message : [from : End, id : Nat, acks : Nat], count : Nat]
    BY <1>2, ExchangeAssumption DEF AnyTimer, AnyMessage
  <2> QED BY <2>1, ExchangeAssumption
<1>10. Held(e)' \subseteq Held(e)
  <2>1. AllTimers(e)' \subseteq AllTimers(e)
    BY <1>1, <1>3 DEF AllTimers, Shapes
  <2> QED BY <1>3, <2>1, NothingNewHeld
<1> QED BY <1>3, <1>5, <1>6, <1>7, <1>8, <1>9, <1>10, QuietStep

(* Timers that are stopped leave nothing new behind. *)
LEMMA TimersStop ==
  ASSUME Shapes, NEW e \in End, NEW stopped,
         timers' = [timers EXCEPT ![e] = timers[e] \ stopped],
         UNCHANGED <<retransmissionTimer, resending, sentMessageToAck>>
  PROVE  /\ timers' \in [End -> SUBSET AnyTimer]
         /\ Other(e) \in End => timers'[Other(e)] = timers[Other(e)]
         /\ Held(e)' \subseteq Held(e)
<1>1. timers' \in [End -> SUBSET AnyTimer] /\ timers'[e] = timers[e] \ stopped
  BY DEF Shapes
<1>2. AllTimers(e)' \subseteq AllTimers(e)
  BY <1>1 DEF AllTimers
<1>3. Held(e)' \subseteq Held(e)
  BY <1>2, NothingNewHeld
<1>4. Other(e) \in End => timers'[Other(e)] = timers[Other(e)]
  BY Ends DEF Shapes
<1> QED BY <1>1, <1>3, <1>4

LEMMA Closing ==
  ASSUME Shapes, NEW e \in End, UNCHANGED closeVars \/ CloseInternal(e)
  PROVE  closed' \in [End -> BOOLEAN] /\ closeTimer' \in [End -> {"undefined", "running", "stopped"}]
<1>1. CASE UNCHANGED closeVars
  BY <1>1 DEF closeVars, Shapes
<1>2. CASE CloseInternal(e)
  <2>1. closed' = [closed EXCEPT ![e] = TRUE]
    BY <1>2 DEF CloseInternal
  <2>2. closed' \in [End -> BOOLEAN]
    BY <2>1, Zenon DEF Shapes
  <2>3. closeTimer' \in [End -> {"undefined", "running", "stopped"}]
    BY <1>2 DEF CloseInternal, Shapes
  <2> QED BY <2>2, <2>3
<1> QED BY <1>1, <1>2

LEMMA RetransmitFailsPreserves ==
  ASSUME ExchangeInv, NEW e \in End, NEW t \in timers[e], RetransmitFails(e, t)
  PROVE  ExchangeInv'
<1> DEFINE f == Other(e)
<1>1. Shapes /\ NetworkSound /\ f \in End /\ f # e
  BY AtEnd
<1>2. /\ gaveUp' = [gaveUp EXCEPT ![e] = TRUE]
      /\ UNCHANGED <<receivedMessageToAck, ackTimer, sentMessageToAck, ackPromise, outcome,
                     retransmissionTimer, resending, task, received, sent, network, delivered, acked>>
      /\ UNCHANGED closeVars \/ CloseInternal(e)
  BY DEF RetransmitFails, ackVars, sendVars
<1>3. PICK stopped : timers' = [timers EXCEPT ![e] = timers[e] \ stopped]
  BY DEF RetransmitFails
<1>4. gaveUp' \in [End -> BOOLEAN]
  BY <1>1, <1>2, Zenon DEF Shapes
<1>5. timers' \in [End -> SUBSET AnyTimer] /\ timers'[f] = timers[f] /\ Held(e)' \subseteq Held(e)
  BY <1>1, <1>2, <1>3, TimersStop
<1>6. closed' \in [End -> BOOLEAN] /\ closeTimer' \in [End -> {"undefined", "running", "stopped"}]
  BY <1>1, <1>2, Closing
<1>7. Shapes'
  BY <1>1, <1>2, <1>4, <1>5, <1>6 DEF Shapes
<1>8. Untouched(f)
  BY <1>2, <1>5 DEF Untouched
<1>9. NetworkSound'
  BY <1>1, <1>2 DEF NetworkSound, AckIsTrue
<1> QED BY <1>2, <1>5, <1>7, <1>8, <1>9, QuietStep

LEMMA RetransmissionLimitPreserves ==
  ASSUME ExchangeInv, NEW e \in End, NEW t \in timers[e], RetransmissionLimit(e, t)
  PROVE  ExchangeInv'
<1> DEFINE f == Other(e)
<1>1. Shapes /\ NetworkSound /\ f \in End /\ f # e
  BY AtEnd
<1>2. /\ UNCHANGED <<ackTimer, sentMessageToAck, retransmissionTimer, resending, received, sent,
                     network, delivered, gaveUp>>
      /\ UNCHANGED closeVars \/ CloseInternal(e)
  BY DEF RetransmissionLimit
<1>3. PICK stopped : timers' = [timers EXCEPT ![e] = timers[e] \ stopped]
  BY DEF RetransmissionLimit
<1>4. \/ UNCHANGED <<receivedMessageToAck, ackPromise, outcome, task, acked>>
      \/ /\ receivedMessageToAck' = [receivedMessageToAck EXCEPT ![e] = None]
         /\ ackPromise' = [ackPromise EXCEPT ![e] = FALSE]
         /\ outcome' = [outcome EXCEPT ![e] = "rejected"]
         /\ task' = [task EXCEPT ![e] = IF task[e] = "waiting" THEN "idle" ELSE task[e]]
         /\ acked' = acked
  BY DEF RetransmissionLimit, Settle
<1>5. ackPromise' \in [End -> BOOLEAN]
  <2>1. ackPromise' = ackPromise \/ ackPromise' = [ackPromise EXCEPT ![e] = FALSE]
    BY <1>4
  <2> QED BY <1>1, <2>1, Zenon DEF Shapes
<1>6. /\ receivedMessageToAck' \in [End -> Nat]
      /\ outcome' \in [End -> {"pending", "resolved", "rejected"}]
      /\ task' \in [End -> {"idle", "sending", "waiting"}]
      /\ acked' = acked
      /\ receivedMessageToAck'[e] \in {None, receivedMessageToAck[e]}
      /\ outcome'[e] \in {"rejected", outcome[e]}
      /\ task'[e] \in {"idle", task[e]}
      /\ receivedMessageToAck'[f] = receivedMessageToAck[f]
      /\ outcome'[f] = outcome[f] /\ task'[f] = task[f]
  <2>1. CASE UNCHANGED <<receivedMessageToAck, ackPromise, outcome, task, acked>>
    BY <1>1, <2>1 DEF Shapes
  <2>2. CASE /\ receivedMessageToAck' = [receivedMessageToAck EXCEPT ![e] = None]
             /\ outcome' = [outcome EXCEPT ![e] = "rejected"]
             /\ task' = [task EXCEPT ![e] = IF task[e] = "waiting" THEN "idle" ELSE task[e]]
             /\ acked' = acked
    BY <1>1, <2>2 DEF Shapes, None
  <2> QED BY <1>4, <2>1, <2>2
<1>7. timers' \in [End -> SUBSET AnyTimer] /\ timers'[f] = timers[f] /\ Held(e)' \subseteq Held(e)
  BY <1>1, <1>2, <1>3, TimersStop
<1>8. closed' \in [End -> BOOLEAN] /\ closeTimer' \in [End -> {"undefined", "running", "stopped"}]
  BY <1>1, <1>2, Closing
<1>9. Shapes'
  BY <1>1, <1>2, <1>5, <1>6, <1>7, <1>8 DEF Shapes
<1>10. Untouched(f)
  BY <1>2, <1>6, <1>7 DEF Untouched
<1>11. NetworkSound'
  BY <1>1, <1>2 DEF NetworkSound, AckIsTrue
<1> QED BY <1>2, <1>6, <1>7, <1>9, <1>10, <1>11, QuietStep

-----------------------------------------------------------------------------
(* A standalone ack is of a message that was received. *)
LEMMA AckIsSound ==
  ASSUME Shapes, Grows, NetworkSound, NEW e \in End, NEW id \in Nat, id # None, id \in received'[e],
         network' \subseteq network \cup {StandaloneAck(e, id)}
  PROVE  NetworkSound'
<1> DEFINE m == StandaloneAck(e, id)
<1>1. m \in AnyMessage /\ m.from = e /\ m.id = None /\ m.acks = id
  BY DEF StandaloneAck, AnyMessage, None
<1>2. sent'[e] \in Nat
  BY DEF Grows, Shapes
<1>3. network' \subseteq network \cup {m}
  OBVIOUS
<1> HIDE DEF m
<1>4. m.id \in 0 .. sent'[m.from] /\ m.acks # None /\ AckIsTrue(m)'
  BY <1>1, <1>2 DEF AckIsTrue, None
<1> QED BY <1>1, <1>3, <1>4, NetworkStays

(* Steps that flush the ack that is due, stop timers or close the exchange. *)
LEMMA EndingStep ==
  ASSUME ExchangeInv, NEW e \in End, NEW stopped, Flush(e) \/ UNCHANGED <<receivedMessageToAck, network>>,
         ackTimer' \in [End -> BOOLEAN],
         closed' \in [End -> BOOLEAN],
         closeTimer' \in [End -> {"undefined", "running", "stopped"}],
         timers' = [timers EXCEPT ![e] = timers[e] \ stopped],
         UNCHANGED <<sentMessageToAck, ackPromise, outcome, retransmissionTimer, resending, task,
                     received, sent, delivered, acked, gaveUp>>
  PROVE  ExchangeInv'
<1> DEFINE f == Other(e)
           due == receivedMessageToAck[e]
<1>1. Shapes /\ NetworkSound /\ Holds(e) /\ f \in End /\ f # e
  BY AtEnd
<1>2. /\ UNCHANGED receivedMessageToAck \/ receivedMessageToAck' = [receivedMessageToAck EXCEPT ![e] = None]
      /\ network' = network \/ (due # None /\ network' = network \cup {StandaloneAck(e, due)})
  BY DEF Flush
<1>3. due \in Nat /\ (due # None => due \in received[e])
  BY <1>1 DEF Shapes, Holds
<1>4. /\ receivedMessageToAck' \in [End -> Nat]
      /\ receivedMessageToAck'[e] \in {None, receivedMessageToAck[e]}
      /\ receivedMessageToAck'[f] = receivedMessageToAck[f]
  <2>1. CASE UNCHANGED receivedMessageToAck
    BY <1>1, <2>1 DEF Shapes
  <2>2. CASE receivedMessageToAck' = [receivedMessageToAck EXCEPT ![e] = None]
    BY <1>1, <2>2 DEF Shapes, None
  <2> QED BY <1>2, <2>1, <2>2
<1>5. timers' \in [End -> SUBSET AnyTimer] /\ timers'[f] = timers[f] /\ Held(e)' \subseteq Held(e)
  BY <1>1, TimersStop
<1>6. network' \in SUBSET AnyMessage
  BY <1>1, <1>2, <1>3 DEF Shapes, StandaloneAck, AnyMessage, None
<1>7. Shapes'
  BY <1>1, <1>4, <1>5, <1>6 DEF Shapes
<1>8. Grows
  BY <1>1, <1>7, NothingNew
<1>9. Untouched(f)
  BY <1>4, <1>5 DEF Untouched
<1>10. NetworkSound'
  <2>1. CASE network' = network
    BY <1>1, <2>1 DEF NetworkSound, AckIsTrue
  <2>2. CASE due # None /\ network' = network \cup {StandaloneAck(e, due)}
    <3>1. PICK id \in Nat : id = due
      BY <1>3
    <3>2. id # None /\ id \in received'[e] /\ network' \subseteq network \cup {StandaloneAck(e, id)}
      BY <1>3, <2>2, <3>1
    <3> QED BY <1>1, <1>8, <3>2, AckIsSound
  <2> QED BY <1>2, <2>1, <2>2
<1> QED BY <1>4, <1>5, <1>7, <1>9, <1>10, QuietStep

LEMMA EndingPreserves ==
  ASSUME ExchangeInv, NEW e \in End,
         AckTimerFires(e) \/ Close(e) \/ CloseTimerFires(e) \/ Destroy(e)
  PROVE  ExchangeInv'
<1> DEFINE keeps == ackTimer[e] /\ receivedMessageToAck[e] = None
<1>1. Shapes
  BY AtEnd
<1>2. timers = [timers EXCEPT ![e] = timers[e] \ {}]
  BY <1>1 DEF Shapes
<1>3. keeps \in BOOLEAN
  BY Zenon
<1>4. [ackTimer EXCEPT ![e] = FALSE] \in [End -> BOOLEAN]
  BY <1>1, Zenon DEF Shapes
<1>5. [ackTimer EXCEPT ![e] = keeps] \in [End -> BOOLEAN]
  <2> HIDE DEF keeps
  <2> QED BY <1>1, <1>3 DEF Shapes
<1>6. CASE AckTimerFires(e)
  <2>1. /\ ackTimer' \in [End -> BOOLEAN]
        /\ Flush(e)
        /\ timers' = [timers EXCEPT ![e] = timers[e] \ {}]
        /\ UNCHANGED <<sentMessageToAck, ackPromise, outcome, retransmissionTimer, resending, task,
                       received, sent, delivered, acked, gaveUp, closed, closeTimer>>
    BY <1>2, <1>4, <1>6 DEF AckTimerFires, sendVars, timerVars, closeVars, historyVars
  <2>2. closed' \in [End -> BOOLEAN] /\ closeTimer' \in [End -> {"undefined", "running", "stopped"}]
    BY <1>1, <2>1 DEF Shapes
  <2> QED BY <2>1, <2>2, EndingStep
<1>7. CASE Close(e)
  <2>1. /\ ackTimer' \in [End -> BOOLEAN]
        /\ Flush(e)
        /\ closeTimer' = [closeTimer EXCEPT ![e] = "running"]
        /\ timers' = [timers EXCEPT ![e] = timers[e] \ {}]
        /\ UNCHANGED <<sentMessageToAck, ackPromise, outcome, retransmissionTimer, resending, task,
                       received, sent, delivered, acked, gaveUp, closed>>
    BY <1>2, <1>5, <1>7 DEF Close, sendVars, timerVars, historyVars
  <2>2. closed' \in [End -> BOOLEAN] /\ closeTimer' \in [End -> {"undefined", "running", "stopped"}]
    BY <1>1, <2>1 DEF Shapes
  <2> QED BY <2>1, <2>2, EndingStep
<1>8. CASE CloseTimerFires(e)
  <2>1. /\ UNCHANGED <<receivedMessageToAck, ackTimer, network>>
        /\ timers' = [timers EXCEPT ![e] = timers[e] \ {retransmissionTimer[e]}]
        /\ UNCHANGED <<sentMessageToAck, ackPromise, outcome, retransmissionTimer, resending, task,
                       received, sent, delivered, acked, gaveUp>>
        /\ CloseInternal(e)
    BY <1>8 DEF CloseTimerFires, StopTimer, ackVars, sendVars, historyVars
  <2>2. closed' \in [End -> BOOLEAN] /\ closeTimer' \in [End -> {"undefined", "running", "stopped"}]
    BY <1>1, <2>1, Closing
  <2>3. PICK stopped : timers' = [timers EXCEPT ![e] = timers[e] \ stopped]
    BY <2>1
  <2>4. ackTimer' \in [End -> BOOLEAN]
    BY <1>1, <2>1 DEF Shapes
  <2> QED BY <2>1, <2>2, <2>3, <2>4, EndingStep
<1>9. CASE Destroy(e)
  <2>1. /\ Flush(e) \/ UNCHANGED <<receivedMessageToAck, network>>
        /\ ackTimer' = [ackTimer EXCEPT ![e] = keeps] \/ ackTimer' = ackTimer
        /\ timers' = [timers EXCEPT ![e] = timers[e] \ {retransmissionTimer[e]}]
        /\ UNCHANGED <<sentMessageToAck, ackPromise, outcome, retransmissionTimer, resending, task,
                       received, sent, delivered, acked, gaveUp>>
        /\ CloseInternal(e)
    BY <1>9 DEF Destroy, StopTimer, ackVars, sendVars, historyVars
  <2>2. closed' \in [End -> BOOLEAN] /\ closeTimer' \in [End -> {"undefined", "running", "stopped"}]
    BY <1>1, <2>1, Closing
  <2>3. PICK stopped : timers' = [timers EXCEPT ![e] = timers[e] \ stopped]
    BY <2>1
  <2>4. ackTimer' \in [End -> BOOLEAN]
    <3> HIDE DEF keeps
    <3>1. CASE ackTimer' = ackTimer
      BY <1>1, <3>1 DEF Shapes
    <3>2. CASE ackTimer' = [ackTimer EXCEPT ![e] = keeps]
      BY <1>5, <3>2
    <3> QED BY <2>1, <3>1, <3>2
  <2> QED BY <2>1, <2>2, <2>3, <2>4, EndingStep
<1> QED BY <1>6, <1>7, <1>8, <1>9

-----------------------------------------------------------------------------
(* Of an ack that arrives, only what it does to the end that takes it is left:
   it is of the last message, which the other end has received. *)
LEMMA TakingAck ==
  ASSUME ExchangeInv, NEW e \in End, NEW m \in network, m.from = Other(e), TakeAck(e, m)
  PROVE  /\ timers' \in [End -> SUBSET AnyTimer]
         /\ sentMessageToAck' \in [End -> {NoMessage} \cup AnyMessage]
         /\ ackPromise' \in [End -> BOOLEAN]
         /\ task' \in [End -> {"idle", "sending", "waiting"}]
         /\ outcome' \in [End -> {"pending", "resolved", "rejected"}]
         /\ acked' \in [End -> SUBSET Nat]
         /\ \A f \in End : f # e => /\ timers'[f] = timers[f]
                                    /\ sentMessageToAck'[f] = sentMessageToAck[f]
                                    /\ task'[f] = task[f]
                                    /\ outcome'[f] = outcome[f]
                                    /\ acked'[f] = acked[f]
         /\ timers'[e] \subseteq timers[e]
         /\ sentMessageToAck'[e] \in {NoMessage, sentMessageToAck[e]}
         /\ sentMessageToAck'[e] # sentMessageToAck[e] => sent[e] \in received[Other(e)]
         /\ task'[e] \in {"idle", task[e]}
         /\ outcome'[e] # outcome[e] => sent[e] \in received[Other(e)]
         /\ acked'[e] \subseteq received[Other(e)]
<1>1. Shapes /\ NetworkSound /\ Holds(e) /\ Succeeds(e)
  BY AtEnd
<1>2. CASE ~ AcksOurs(e, m)
  <2>1. UNCHANGED <<timers, sentMessageToAck, ackPromise, outcome, task, acked>>
    BY <1>2 DEF TakeAck
  <2> QED BY <1>1, <2>1 DEF Shapes, Succeeds
<1>3. CASE AcksOurs(e, m)
  <2>1. sent[e] \in received[Other(e)]
    <3>1. sentMessageToAck[e] # NoMessage /\ m.acks = sentMessageToAck[e].id
      BY <1>3 DEF AcksOurs
    <3>2. sentMessageToAck[e].id = sent[e] /\ sentMessageToAck[e].id \in 1 .. sent[e]
      BY <1>1, <3>1 DEF Holds, Held, Sound
    <3>3. m.acks # None
      BY <3>1, <3>2 DEF None
    <3> QED BY <1>1, <3>1, <3>2, <3>3 DEF NetworkSound, AckIsTrue
  <2>2. /\ timers' = [timers EXCEPT ![e] = timers[e] \ {retransmissionTimer[e]}]
        /\ sentMessageToAck' = [sentMessageToAck EXCEPT ![e] = NoMessage]
        /\ ackPromise' = [ackPromise EXCEPT ![e] = FALSE]
    BY <1>3 DEF TakeAck, StopTimer
  <2>3. \/ UNCHANGED <<outcome, task, acked>>
        \/ /\ outcome' = [outcome EXCEPT ![e] = "resolved"]
           /\ task' = [task EXCEPT ![e] = IF task[e] = "waiting" THEN "idle" ELSE task[e]]
           /\ acked' = acked \/ acked' = [acked EXCEPT ![e] = acked[e] \cup {sent[e]}]
    BY <1>3 DEF TakeAck, Settle
  <2>4. ackPromise' \in [End -> BOOLEAN]
    BY <1>1, <2>2, Zenon DEF Shapes
  <2>5. /\ timers' \in [End -> SUBSET AnyTimer]
        /\ sentMessageToAck' \in [End -> {NoMessage} \cup AnyMessage]
        /\ \A f \in End : f # e => timers'[f] = timers[f] /\ sentMessageToAck'[f] = sentMessageToAck[f]
        /\ timers'[e] \subseteq timers[e]
        /\ sentMessageToAck'[e] = NoMessage
    BY <1>1, <2>2 DEF Shapes
  <2>6. /\ task' \in [End -> {"idle", "sending", "waiting"}]
        /\ outcome' \in [End -> {"pending", "resolved", "rejected"}]
        /\ \A f \in End : f # e => task'[f] = task[f] /\ outcome'[f] = outcome[f]
        /\ task'[e] \in {"idle", task[e]}
    <3>1. CASE UNCHANGED <<outcome, task>>
      BY <1>1, <3>1 DEF Shapes
    <3>2. CASE /\ outcome' = [outcome EXCEPT ![e] = "resolved"]
               /\ task' = [task EXCEPT ![e] = IF task[e] = "waiting" THEN "idle" ELSE task[e]]
      BY <1>1, <3>2 DEF Shapes
    <3> QED BY <2>3, <3>1, <3>2
  <2>7. /\ acked' \in [End -> SUBSET Nat]
        /\ \A f \in End : f # e => acked'[f] = acked[f]
        /\ acked'[e] \subseteq received[Other(e)]
    <3>1. CASE acked' = acked
      BY <1>1, <3>1 DEF Shapes, Succeeds
    <3>2. CASE acked' = [acked EXCEPT ![e] = acked[e] \cup {sent[e]}]
      BY <1>1, <2>1, <3>2 DEF Shapes, Succeeds
    <3> QED BY <2>3, <3>1, <3>2
  <2> QED BY <2>1, <2>4, <2>5, <2>6, <2>7
<1> QED BY <1>2, <1>3

(* The end takes the ack with a message or alone. *)
LEMMA AckTaken ==
  ASSUME ExchangeInv, NEW e \in End, NEW m \in network, m.from = Other(e), TakeAck(e, m), Grows,
         received'[Other(e)] = received[Other(e)],
         UNCHANGED <<sent, retransmissionTimer, resending>>
  PROVE  Held(e)' \subseteq Held(e) /\ Progress(e)' /\ Succeeds(e)'
<1>1. Progress(e) /\ Succeeds(e) /\ Shapes
  BY AtEnd
<1>2. /\ timers'[e] \subseteq timers[e]
      /\ sentMessageToAck'[e] \in {NoMessage, sentMessageToAck[e]}
      /\ sentMessageToAck'[e] # sentMessageToAck[e] => sent[e] \in received[Other(e)]
      /\ task'[e] \in {"idle", task[e]}
      /\ outcome'[e] # outcome[e] => sent[e] \in received[Other(e)]
      /\ acked'[e] \subseteq received[Other(e)]
  BY TakingAck
<1>3. Held(e)' \subseteq Held(e)
  <2>1. AllTimers(e)' \subseteq AllTimers(e)
    BY <1>2 DEF AllTimers
  <2> QED BY <1>2, <2>1, NothingNewHeld
<1>4. Progress(e)'
  <2>1. sent[e] \in Nat
    BY <1>1 DEF Shapes
  <2>2. sentMessageToAck'[e] = NoMessage => 1 .. sent[e] \subseteq received[Other(e)]
    <3>1. CASE sentMessageToAck'[e] = sentMessageToAck[e]
      BY <1>1, <3>1 DEF Progress
    <3>2. CASE sent[e] \in received[Other(e)]
      BY <1>1, <2>1, <3>2 DEF Progress
    <3> QED BY <1>2, <3>1, <3>2
  <2> QED BY <1>1, <2>2 DEF Progress
<1>5. Succeeds(e)'
  BY <1>1, <1>2 DEF Succeeds
<1> QED BY <1>3, <1>4, <1>5

-----------------------------------------------------------------------------
(* The number of a message that is registered was sent by the other end. *)
LEMMA Registering ==
  ASSUME ExchangeInv, NEW e \in End, NEW m \in network, m.from = Other(e), m.id # None,
         Register(e, m) \/ (m.id \in received[e] /\ UNCHANGED received)
  PROVE  /\ m \in AnyMessage /\ m.id \in 1 .. sent[Other(e)]
         /\ received' \in [End -> SUBSET Nat]
         /\ received'[Other(e)] = received[Other(e)]
         /\ received'[e] = received[e] \cup {m.id}
         /\ received'[e] \subseteq 1 .. sent[Other(e)]
         /\ \A f \in End : received[f] \subseteq received'[f]
<1>1. /\ Shapes /\ NetworkSound /\ Progress(Other(e))
      /\ Other(e) \in End /\ Other(e) # e /\ Other(Other(e)) = e
  BY AtEnd
<1>2. m \in AnyMessage /\ m.id \in Nat /\ m.id \in 0 .. sent[Other(e)] /\ sent[Other(e)] \in Nat
  BY <1>1 DEF Shapes, AnyMessage, NetworkSound
<1>3. m.id \in 1 .. sent[Other(e)]
  BY <1>2 DEF None
<1>4. received[e] \subseteq 1 .. sent[Other(e)]
  BY <1>1 DEF Progress
<1>5. /\ received' \in [End -> SUBSET Nat]
      /\ received'[Other(e)] = received[Other(e)]
      /\ received'[e] = received[e] \cup {m.id}
      /\ \A f \in End : received[f] \subseteq received'[f]
  <2>1. CASE Register(e, m)
    BY <1>1, <1>2, <2>1 DEF Register, Shapes
  <2>2. CASE m.id \in received[e] /\ UNCHANGED received
    BY <1>1, <1>2, <2>2 DEF Shapes
  <2> QED BY <2>1, <2>2
<1> QED BY <1>2, <1>3, <1>4, <1>5

(* Steps that register a message and at most ack it. *)
LEMMA RegisteringStep ==
  ASSUME ExchangeInv, NEW e \in End, NEW m \in network, m.from = Other(e), m.id # None,
         Register(e, m) \/ (m.id \in received[e] /\ UNCHANGED received),
         network' = network \/ network' = network \cup {StandaloneAck(e, m.id)},
         UNCHANGED <<ackVars, sendVars, timerVars, closeVars, task, sent, historyVars>>
  PROVE  ExchangeInv'
<1> DEFINE f == Other(e)
<1>1. /\ Shapes /\ NetworkSound /\ Holds(e) /\ Progress(e) /\ Succeeds(e) /\ HandedOver(e)
      /\ f \in End /\ f # e
  BY AtEnd
<1>2. /\ m \in AnyMessage /\ m.id \in Nat
      /\ received' \in [End -> SUBSET Nat]
      /\ received'[f] = received[f]
      /\ m.id \in received'[e]
      /\ received'[e] \subseteq 1 .. sent[f]
      /\ \A g \in End : received[g] \subseteq received'[g]
  BY Registering DEF AnyMessage
<1>3. UNCHANGED <<receivedMessageToAck, ackTimer, sentMessageToAck, ackPromise, outcome,
                  retransmissionTimer, timers, resending, closeTimer, closed, task, sent,
                  delivered, acked, gaveUp>>
  BY DEF ackVars, sendVars, timerVars, closeVars, historyVars
<1>4. network' \in SUBSET AnyMessage
  BY <1>1, <1>2 DEF Shapes, StandaloneAck, AnyMessage, None
<1>5. Shapes'
  BY <1>1, <1>2, <1>3, <1>4 DEF Shapes
<1>6. Grows
  <2>1. ASSUME NEW g \in End PROVE sent[g] <= sent'[g]
    <3>1. sent[g] \in Nat
      BY <1>1 DEF Shapes
    <3> QED BY <1>3, <3>1
  <2> QED BY <1>2, <1>5, <2>1 DEF Grows
<1>7. NetworkSound'
  BY <1>1, <1>2, <1>6, AckIsSound
<1>8. Untouched(f)
  BY <1>2, <1>3 DEF Untouched
<1>9. Holds(e)'
  <2>1. Held(e)' = Held(e)
    BY <1>3 DEF Held, AllTimers
  <2> QED BY <1>1, <1>3, <1>6, <2>1, HoldsStays
<1>10. Progress(e)'
  BY <1>1, <1>2, <1>3 DEF Progress
<1>11. Succeeds(e)' /\ HandedOver(e)'
  BY <1>1, <1>3, <1>6, SucceedsStays, HandedOverStays
<1> QED BY <1>2, <1>6, <1>7, <1>8, <1>9, <1>10, <1>11, OneEnd

(* Steps that take an ack. *)
LEMMA AckTakingStep ==
  ASSUME ExchangeInv, NEW e \in End, NEW m \in network, m.from = Other(e), TakeAck(e, m),
         receivedMessageToAck' \in [End -> Nat], ackTimer' \in [End -> BOOLEAN],
         received' \in [End -> SUBSET Nat], delivered' \in [End -> Seq(Nat)],
         network' \in SUBSET AnyMessage,
         receivedMessageToAck'[Other(e)] = receivedMessageToAck[Other(e)],
         received'[Other(e)] = received[Other(e)], delivered'[Other(e)] = delivered[Other(e)],
         receivedMessageToAck'[e] = receivedMessageToAck[e] \/ receivedMessageToAck'[e] \in received'[e],
         received[e] \subseteq received'[e], received'[e] \subseteq 1 .. sent[Other(e)],
         Grows => NetworkSound' /\ HandedOver(e)',
         UNCHANGED <<retransmissionTimer, resending, closeVars, sent, gaveUp>>
  PROVE  ExchangeInv'
<1> DEFINE f == Other(e)
<1>1. /\ Shapes /\ NetworkSound /\ Holds(e) /\ f \in End /\ f # e
      /\ \A g \in End : g = e \/ g = f
  BY AtEnd, Ends
<1>2. /\ timers' \in [End -> SUBSET AnyTimer]
      /\ sentMessageToAck' \in [End -> {NoMessage} \cup AnyMessage]
      /\ ackPromise' \in [End -> BOOLEAN]
      /\ task' \in [End -> {"idle", "sending", "waiting"}]
      /\ outcome' \in [End -> {"pending", "resolved", "rejected"}]
      /\ acked' \in [End -> SUBSET Nat]
      /\ timers'[f] = timers[f] /\ sentMessageToAck'[f] = sentMessageToAck[f]
      /\ task'[f] = task[f] /\ outcome'[f] = outcome[f] /\ acked'[f] = acked[f]
      /\ sentMessageToAck'[e] \in {NoMessage, sentMessageToAck[e]}
  BY <1>1, TakingAck
<1>3. Shapes'
  BY <1>1, <1>2 DEF Shapes, closeVars
<1>4. Grows
  <2>1. ASSUME NEW g \in End PROVE sent[g] <= sent'[g]
    <3>1. sent[g] \in Nat
      BY <1>1 DEF Shapes
    <3> QED BY <3>1
  <2>2. ASSUME NEW g \in End PROVE received[g] \subseteq received'[g]
    <3>1. received'[f] = received[f]
      OBVIOUS
    <3> QED BY <1>1, <3>1, Zenon
  <2> QED BY <1>3, <2>1, <2>2 DEF Grows
<1>5. Held(e)' \subseteq Held(e) /\ Progress(e)' /\ Succeeds(e)'
  BY <1>4, AckTaken
<1>6. Holds(e)'
  BY <1>1, <1>2, <1>4, <1>5, HoldsStays
<1>7. Untouched(f)
  BY <1>2 DEF Untouched
<1> QED BY <1>4, <1>5, <1>6, <1>7, OneEnd

LEMMA ReceiveAckPreserves ==
  ASSUME ExchangeInv, NEW e \in End, NEW m \in network, ReceiveAck(e, m)
  PROVE  ExchangeInv'
<1>1. /\ Shapes /\ NetworkSound /\ HandedOver(e) /\ Progress(Other(e))
      /\ Other(e) \in End /\ Other(Other(e)) = e
  BY AtEnd
<1>2. /\ m.from = Other(e) /\ TakeAck(e, m)
      /\ UNCHANGED <<receivedMessageToAck, ackTimer, received, network, delivered>>
      /\ UNCHANGED <<retransmissionTimer, resending, closeVars, sent, gaveUp>>
  BY DEF ReceiveAck, Arrives, ackVars
<1>3. /\ receivedMessageToAck' \in [End -> Nat] /\ ackTimer' \in [End -> BOOLEAN]
      /\ received' \in [End -> SUBSET Nat] /\ delivered' \in [End -> Seq(Nat)]
      /\ network' \in SUBSET AnyMessage
  BY <1>1, <1>2 DEF Shapes
<1>4. received'[e] \subseteq 1 .. sent[Other(e)]
  BY <1>1, <1>2 DEF Progress
<1>5. NetworkSound'
  BY <1>1, <1>2 DEF NetworkSound, AckIsTrue
<1>6. HandedOver(e)'
  BY <1>1, <1>2 DEF HandedOver
<1> QED BY <1>2, <1>3, <1>4, <1>5, <1>6, AckTakingStep

LEMMA ReceiveBlockedPreserves ==
  ASSUME ExchangeInv, NEW e \in End, NEW m \in network, ReceiveBlocked(e, m)
  PROVE  ExchangeInv'
<1> DEFINE due == receivedMessageToAck[e]
<1>1. /\ Shapes /\ NetworkSound /\ Holds(e) /\ HandedOver(e)
      /\ Other(e) \in End /\ Other(e) # e
  BY AtEnd
<1>2. /\ m.from = Other(e) /\ m.id # None /\ TakeAck(e, m) /\ Register(e, m)
      /\ due # None
      /\ ackTimer' = [ackTimer EXCEPT ![e] = FALSE]
      /\ network' = network \cup {StandaloneAck(e, due)}
      /\ UNCHANGED <<receivedMessageToAck, retransmissionTimer, resending, closeVars,
                     sent, delivered, gaveUp>>
  BY DEF ReceiveBlocked, Accepts, NewMessage, Arrives
<1>3. /\ received' \in [End -> SUBSET Nat]
      /\ received'[Other(e)] = received[Other(e)]
      /\ received'[e] \subseteq 1 .. sent[Other(e)]
      /\ received[e] \subseteq received'[e]
  BY <1>2, Registering
<1>4. due \in Nat /\ due \in received[e]
  BY <1>1, <1>2 DEF Shapes, Holds
<1>5. ackTimer' \in [End -> BOOLEAN]
  BY <1>1, <1>2, Zenon DEF Shapes
<1>6. network' \in SUBSET AnyMessage
  BY <1>1, <1>2, <1>4 DEF Shapes, StandaloneAck, AnyMessage, None
<1>7. receivedMessageToAck' \in [End -> Nat] /\ delivered' \in [End -> Seq(Nat)]
  BY <1>1, <1>2 DEF Shapes
<1>8. ASSUME Grows PROVE NetworkSound'
  <2>1. PICK id \in Nat : id = due
    BY <1>4
  <2>2. id # None /\ id \in received'[e] /\ network' \subseteq network \cup {StandaloneAck(e, id)}
    BY <1>2, <1>3, <1>4, <2>1
  <2> QED BY <1>1, <1>8, <2>2, AckIsSound
<1>9. ASSUME Grows PROVE HandedOver(e)'
  BY <1>1, <1>2, <1>9, HandedOverStays
<1> QED BY <1>2, <1>3, <1>5, <1>6, <1>7, <1>8, <1>9, AckTakingStep

(* A message that is new is the last one: those before it were all received. *)
LEMMA ReceiveMessagePreserves ==
  ASSUME ExchangeInv, NEW e \in End, NEW m \in network, ReceiveMessage(e, m)
  PROVE  ExchangeInv'
<1> DEFINE f == Other(e)
<1>1. /\ Shapes /\ NetworkSound /\ Holds(e) /\ HandedOver(e)
      /\ f \in End /\ f # e /\ Progress(f) /\ Other(f) = e
  BY AtEnd
<1>2. /\ m.from = f /\ m.id # None /\ m.id \notin received[e] /\ TakeAck(e, m) /\ Register(e, m)
      /\ receivedMessageToAck' = [receivedMessageToAck EXCEPT ![e] = m.id]
      /\ ackTimer' = [ackTimer EXCEPT ![e] = TRUE]
      /\ delivered' = [delivered EXCEPT ![e] = Append(delivered[e], m.id)]
      /\ UNCHANGED <<retransmissionTimer, resending, closeVars, sent, network, gaveUp>>
  BY DEF ReceiveMessage, Accepts, NewMessage, Arrives, IsDuplicate
<1>3. /\ m \in AnyMessage /\ m.id \in 1 .. sent[f]
      /\ received' \in [End -> SUBSET Nat]
      /\ received'[f] = received[f]
      /\ received'[e] = received[e] \cup {m.id}
      /\ received'[e] \subseteq 1 .. sent[f]
  BY <1>2, Registering
<1>4. m.id \in Nat /\ sent[f] \in Nat /\ delivered[e] \in Seq(Nat)
  BY <1>1, <1>3 DEF AnyMessage, Shapes
<1>5. /\ receivedMessageToAck' \in [End -> Nat]
      /\ receivedMessageToAck'[e] = m.id /\ receivedMessageToAck'[f] = receivedMessageToAck[f]
  BY <1>1, <1>2, <1>4 DEF Shapes
<1>6. ackTimer' \in [End -> BOOLEAN]
  BY <1>1, <1>2, Zenon DEF Shapes
<1>7. Append(delivered[e], m.id) \in Seq(Nat)
  BY <1>4
<1>8. /\ delivered' \in [End -> Seq(Nat)] /\ delivered'[f] = delivered[f]
      /\ delivered'[e] = Append(delivered[e], m.id)
  BY <1>1, <1>2, <1>7 DEF Shapes
<1>9. m.id = sent[f]
  <2>1. 1 .. (sent[f] - 1) \subseteq received[e]
    BY <1>1 DEF Progress
  <2> QED BY <1>2, <1>3, <1>4, <2>1
<1>10. \A id \in received[e] : id \in Nat /\ id < m.id
  <2>1. received[e] \subseteq 1 .. sent[f]
    BY <1>3
  <2> QED BY <1>2, <1>4, <1>9, <2>1
<1>11. HandedOver(e)'
  <2> DEFINE d == delivered[e]
             n == Len(d)
             a == Append(d, m.id)
  <2>1. /\ n \in Nat /\ DOMAIN d = 1 .. n /\ DOMAIN a = 1 .. (n + 1)
        /\ a[n + 1] = m.id /\ \A i \in 1 .. n : a[i] = d[i]
    BY <1>4
  <2>2. \A i \in 1 .. n : d[i] \in received[e]
    BY <1>1, <2>1 DEF HandedOver
  <2>3. \A i, j \in 1 .. n : i < j => d[i] < d[j]
    BY <1>1, <2>1 DEF HandedOver
  <2> HIDE DEF d, n, a
  <2>4. ASSUME NEW i \in 1 .. (n + 1) PROVE a[i] \in received'[e]
    <3>1. CASE i = n + 1
      BY <1>3, <2>1, <3>1
    <3>2. CASE i \in 1 .. n
      BY <1>3, <2>1, <2>2, <3>2
    <3> QED BY <2>1, <3>1, <3>2
  <2>5. ASSUME NEW i \in 1 .. (n + 1), NEW j \in 1 .. (n + 1), i < j PROVE a[i] < a[j]
    <3>1. i \in 1 .. n
      BY <2>1, <2>5
    <3>2. a[i] = d[i] /\ d[i] \in received[e]
      BY <2>1, <2>2, <3>1
    <3>3. CASE j = n + 1
      BY <1>10, <2>1, <3>2, <3>3
    <3>4. CASE j \in 1 .. n
      BY <2>1, <2>3, <2>5, <3>1, <3>4
    <3> QED BY <2>1, <3>3, <3>4
  <2>6. delivered'[e] = a
    BY <1>8 DEF a, d
  <2> QED BY <2>1, <2>4, <2>5, <2>6 DEF HandedOver
<1>12. network' \in SUBSET AnyMessage
  BY <1>1, <1>2 DEF Shapes
<1>13. ASSUME Grows PROVE NetworkSound'
  <2>1. m.id \in 0 .. sent'[m.from]
    BY <1>2, <1>3, <1>4
  <2>2. AckIsTrue(m)
    BY <1>1 DEF NetworkSound
  <2>3. AckIsTrue(m)'
    BY <1>1, <1>3, <1>13, <2>2, SoundStays
  <2>4. network' \subseteq network \cup {m}
    BY <1>2
  <2> QED BY <1>1, <1>2, <1>3, <1>13, <2>1, <2>3, <2>4, NetworkStays
<1>14. receivedMessageToAck'[e] \in received'[e] /\ received[e] \subseteq received'[e]
  BY <1>3, <1>5
<1> QED BY <1>2, <1>3, <1>5, <1>6, <1>8, <1>11, <1>12, <1>13, <1>14, AckTakingStep

LEMMA ReceivePreserves ==
  ASSUME ExchangeInv, NEW e \in End, NEW m \in network, Receive(e, m)
  PROVE  ExchangeInv'
<1>1. CASE ReceiveDuplicate(e, m)
  <2>1. /\ m.from = Other(e) /\ m.id # None /\ m.id \in received[e]
        /\ network' = network \cup {StandaloneAck(e, m.id)}
        /\ UNCHANGED <<ackVars, sendVars, timerVars, closeVars, task, received, sent, historyVars>>
    BY <1>1 DEF ReceiveDuplicate, Arrives, IsDuplicate
  <2> QED BY <2>1, RegisteringStep
<1>2. CASE ReceiveUnacking(e, m)
  <2>1. /\ m.from = Other(e) /\ m.id # None /\ Register(e, m) /\ network' = network
        /\ UNCHANGED <<ackVars, sendVars, timerVars, closeVars, task, sent, historyVars>>
    BY <1>2 DEF ReceiveUnacking, NewMessage, Arrives
  <2> QED BY <2>1, RegisteringStep
<1>3. CASE ReceiveUnsolicited(e, m)
  <2>1. /\ m.from = Other(e) /\ m.id # None /\ Register(e, m)
        /\ network' = network \cup {StandaloneAck(e, m.id)}
        /\ UNCHANGED <<ackVars, sendVars, timerVars, closeVars, task, sent, historyVars>>
    BY <1>3 DEF ReceiveUnsolicited
  <2> QED BY <2>1, RegisteringStep
<1> QED BY <1>1, <1>2, <1>3, ReceiveAckPreserves, ReceiveBlockedPreserves, ReceiveMessagePreserves
        DEF Receive

LEMMA InitExchange == Init => ExchangeInv
<1> SUFFICES ASSUME Init PROVE ExchangeInv
  OBVIOUS
<1>1. /\ ackTimer \in [End -> BOOLEAN] /\ ackPromise \in [End -> BOOLEAN]
      /\ closed \in [End -> BOOLEAN] /\ gaveUp \in [End -> BOOLEAN]
  BY Zenon DEF Init
<1>2. /\ receivedMessageToAck \in [End -> Nat]
      /\ sentMessageToAck \in [End -> {NoMessage} \cup AnyMessage]
      /\ retransmissionTimer \in [End -> {NoMessage} \cup AnyTimer]
      /\ closeTimer \in [End -> {"undefined", "running", "stopped"}]
      /\ timers \in [End -> SUBSET AnyTimer] /\ resending \in [End -> SUBSET AnyTimer]
      /\ task \in [End -> {"idle", "sending", "waiting"}]
      /\ outcome \in [End -> {"pending", "resolved", "rejected"}]
      /\ received \in [End -> SUBSET Nat] /\ sent \in [End -> Nat] /\ network \in SUBSET AnyMessage
      /\ acked \in [End -> SUBSET Nat]
  BY DEF Init, None
<1>3. delivered \in [End -> Seq(Nat)]
  <2>1. <<>> \in Seq(Nat)
    OBVIOUS
  <2> QED BY <2>1 DEF Init
<1>4. Shapes
  BY <1>1, <1>2, <1>3 DEF Shapes
<1>5. NetworkSound
  BY DEF Init, NetworkSound
<1>6. ASSUME NEW e \in End PROVE Holds(e) /\ Progress(e) /\ Succeeds(e) /\ HandedOver(e)
  <2>1. Other(e) \in End /\ MaxMessages[e] \in Nat
    BY Ends, ExchangeAssumption
  <2>2. /\ receivedMessageToAck[e] = None /\ sentMessageToAck[e] = NoMessage
        /\ retransmissionTimer[e] = NoMessage /\ timers[e] = {} /\ resending[e] = {}
        /\ task[e] = "idle" /\ sent[e] = 0 /\ received[Other(e)] = {} /\ acked[e] = {}
        /\ delivered[e] = <<>>
    BY <2>1 DEF Init
  <2>3. Held(e) = {}
    BY <2>2 DEF Held, AllTimers
  <2>4. Holds(e)
    BY <2>2, <2>3 DEF Holds
  <2>5. Progress(e)
    BY <2>1, <2>2 DEF Progress
  <2>6. Succeeds(e)
    BY <2>2 DEF Succeeds
  <2>7. HandedOver(e)
    BY <2>2 DEF HandedOver
  <2> QED BY <2>4, <2>5, <2>6, <2>7
<1> QED BY <1>4, <1>5, <1>6 DEF ExchangeInv

LEMMA NextPreserves ==
  ASSUME ExchangeInv, Next
  PROVE  ExchangeInv'
<1>1. PICK e \in End :
        \/ Send(e)
        \/ SendFails(e)
        \/ ChannelSent(e)
        \/ \E t \in timers[e] : TimerFires(e, t)
        \/ \E t \in resending[e] : Resent(e, t)
        \/ \E m \in network : Receive(e, m)
        \/ AckTimerFires(e) \/ Close(e) \/ CloseTimerFires(e) \/ Destroy(e)
  BY DEF Next
<1>2. CASE Send(e) \/ SendFails(e)
  <2>1. PICK m : m = NextMessage(e)
    OBVIOUS
  <2>2. /\ Prepare(e, m)
        /\ task' = task \/ task' = [task EXCEPT ![e] = "sending"]
        /\ network' = network \/ network' = network \cup {m}
    BY <1>2, <2>1 DEF Send, SendFails, Transmit
  <2> QED BY <2>1, <2>2, PrepareStep
<1>3. CASE ChannelSent(e)
  BY <1>3, ChannelSentPreserves
<1>4. CASE \E t \in timers[e] : TimerFires(e, t)
  BY <1>4, RetransmitPreserves, RetransmitFailsPreserves, RetransmissionLimitPreserves DEF TimerFires
<1>5. CASE \E t \in resending[e] : Resent(e, t)
  BY <1>5, ResentPreserves
<1>6. CASE \E m \in network : Receive(e, m)
  BY <1>6, ReceivePreserves
<1>7. CASE AckTimerFires(e) \/ Close(e) \/ CloseTimerFires(e) \/ Destroy(e)
  BY <1>7, EndingPreserves
<1> QED BY <1>1, <1>2, <1>3, <1>4, <1>5, <1>6, <1>7

LEMMA ExchangeStutter ==
  ASSUME ExchangeInv, UNCHANGED vars
  PROVE  ExchangeInv'
<1> USE DEF vars, ackVars, sendVars, timerVars, closeVars, historyVars
<1>1. Shapes'
  BY DEF ExchangeInv, Shapes
<1>2. NetworkSound'
  BY DEF ExchangeInv, NetworkSound, AckIsTrue
<1>3. ASSUME NEW e \in End PROVE (Holds(e) /\ Progress(e) /\ Succeeds(e) /\ HandedOver(e))'
  <2>1. Holds(e) /\ Progress(e) /\ Succeeds(e) /\ HandedOver(e)
    BY DEF ExchangeInv
  <2>2. Held(e)' = Held(e)
    BY DEF Held, AllTimers
  <2>3. Holds(e)'
    BY <2>1, <2>2 DEF Holds, Sound, AckIsTrue
  <2> QED BY <2>1, <2>3 DEF Progress, Succeeds, HandedOver
<1> QED BY <1>1, <1>2, <1>3 DEF ExchangeInv

(* The invariant holds of every exchange. *)
THEOREM ExchangeInvariant == Spec => []ExchangeInv
<1>1. Init => ExchangeInv
  BY InitExchange
<1>2. ExchangeInv /\ [Next]_vars => ExchangeInv'
  BY NextPreserves, ExchangeStutter
<1> QED BY <1>1, <1>2, PTL DEF Spec

(* The fields have their types at every end, and the bounds of the messages are kept. *)
THEOREM ExchangeTypeCorrect == Spec => []TypeOK
<1>1. ExchangeInv => TypeOK
  <2> SUFFICES ASSUME ExchangeInv PROVE TypeOK
    OBVIOUS
  <2>1. ASSUME NEW e \in End
        PROVE  /\ sent[e] \in 0 .. MaxMessages[e]
               /\ received[Other(e)] \subseteq Numbers(e)
               /\ \A m \in AnyMessage : AckIsTrue(m) /\ m.from = e =>
                    m.acks \in {None} \cup Numbers(Other(e))
    <3>1. Shapes /\ Progress(e) /\ Progress(Other(e)) /\ Other(e) \in End /\ Other(Other(e)) = e
      BY AtEnd
    <3>2. /\ sent[e] \in Nat /\ MaxMessages[e] \in Nat /\ sent[e] <= MaxMessages[e]
          /\ sent[Other(e)] \in Nat /\ MaxMessages[Other(e)] \in Nat
          /\ sent[Other(e)] <= MaxMessages[Other(e)]
      BY <3>1, ExchangeAssumption DEF Shapes, Progress
    <3>3. received[Other(e)] \subseteq 1 .. sent[e] /\ received[e] \subseteq 1 .. sent[Other(e)]
      BY <3>1 DEF Progress
    <3>4. received[Other(e)] \subseteq Numbers(e) /\ received[e] \subseteq Numbers(Other(e))
      BY <3>2, <3>3 DEF Numbers
    <3> QED BY <3>2, <3>4 DEF AckIsTrue
  <2>2. ASSUME NEW e \in End, NEW m \in AnyMessage, Sound(e, m)
        PROVE  m \in Messages(e)
    <3>1. m.id \in Numbers(e)
      <4>1. m.id \in 1 .. sent[e] /\ sent[e] \in 0 .. MaxMessages[e] /\ MaxMessages[e] \in Nat
        BY <2>1, <2>2, ExchangeAssumption DEF Sound
      <4> QED BY <4>1 DEF Numbers
    <3>2. m.from = e /\ m.acks \in {None} \cup Numbers(Other(e))
      BY <2>1, <2>2 DEF Sound
    <3> QED BY <3>1, <3>2 DEF AnyMessage, Messages
  <2>3. ASSUME NEW e \in End
        PROVE  /\ receivedMessageToAck[e] \in {None} \cup Numbers(Other(e))
               /\ sentMessageToAck[e] \in {NoMessage} \cup Messages(e)
               /\ retransmissionTimer[e] \in {NoMessage} \cup Timers(e)
               /\ timers[e] \subseteq Timers(e)
               /\ resending[e] \subseteq Timers(e)
               /\ received[e] \subseteq Numbers(Other(e))
               /\ sent[e] \in 0 .. MaxMessages[e]
               /\ delivered[e] \in Seq(Numbers(Other(e)))
               /\ acked[e] \subseteq Numbers(e)
    <3>1. /\ Shapes /\ Holds(e) /\ HandedOver(e) /\ Succeeds(e)
          /\ Other(e) \in End /\ Other(Other(e)) = e
      BY AtEnd
    <3>2. received[e] \subseteq Numbers(Other(e)) /\ received[Other(e)] \subseteq Numbers(e)
      BY <2>1, <3>1
    <3>3. receivedMessageToAck[e] \in {None} \cup Numbers(Other(e))
      BY <3>1, <3>2 DEF Holds
    <3>4. sentMessageToAck[e] \in {NoMessage} \cup Messages(e)
      BY <2>2, <3>1 DEF Shapes, Holds, Held
    <3>5. ASSUME NEW t \in AllTimers(e) PROVE t \in Timers(e)
      <4>1. t \in AnyTimer /\ t.message \in Messages(e)
        BY <2>2, TimerIsHeld
      <4> QED BY <4>1 DEF AnyTimer, Timers
    <3>6. /\ retransmissionTimer[e] \in {NoMessage} \cup Timers(e)
          /\ timers[e] \subseteq Timers(e) /\ resending[e] \subseteq Timers(e)
      BY <3>5 DEF AllTimers
    <3>7. delivered[e] \in Seq(Numbers(Other(e)))
      <4>1. delivered[e] \in Seq(Nat)
        BY <3>1 DEF Shapes
      <4>2. \A i \in 1 .. Len(delivered[e]) : delivered[e][i] \in Numbers(Other(e))
        BY <3>1, <3>2, <4>1 DEF HandedOver
      <4> QED BY <4>1, <4>2, SeqDef
    <3> QED BY <2>1, <3>1, <3>2, <3>3, <3>4, <3>6, <3>7 DEF Succeeds
  <2>4. ASSUME NEW m \in network PROVE m \in UNION {Messages(e) \cup Acks(e) : e \in End}
    <3>1. m \in AnyMessage /\ m.from \in End
      BY DEF ExchangeInv, Shapes, AnyMessage
    <3>2. PICK e \in End : e = m.from
      BY <3>1
    <3>3. m.acks \in {None} \cup Numbers(Other(e))
      BY <2>1, <3>1, <3>2 DEF ExchangeInv, NetworkSound
    <3>4. m.id \in 0 .. sent[e] /\ (m.id = None => m.acks # None) /\ sent[e] \in 0 .. MaxMessages[e]
      BY <2>1, <3>2 DEF ExchangeInv, NetworkSound
    <3>5. CASE m.id = None
      BY <3>1, <3>2, <3>3, <3>4, <3>5 DEF AnyMessage, Acks
    <3>6. CASE m.id # None
      <4>1. m.id \in Numbers(e)
        BY <3>4, <3>6, ExchangeAssumption DEF Numbers, None
      <4> QED BY <3>1, <3>2, <3>3, <4>1 DEF AnyMessage, Messages
    <3> QED BY <3>5, <3>6
  <2> QED BY <2>3, <2>4 DEF TypeOK, ExchangeInv, Shapes
<1> QED BY <1>1, ExchangeInvariant, PTL

(* No send() succeeds for a message the other end has not received: neither a stale
   retransmission timer nor an ack that arrives late is taken for the ack of another message. *)
THEOREM AcksAreNotForged == Spec => []AckedWasReceived
<1>1. ExchangeInv => AckedWasReceived
  BY DEF ExchangeInv, Succeeds, AckedWasReceived
<1> QED BY <1>1, ExchangeInvariant, PTL

(* The queue of an end never holds a message twice or out of order, although the
   network repeats and reorders. *)
THEOREM QueueIsInOrder == Spec => []DeliveredInOrder
<1>1. ExchangeInv => DeliveredInOrder
  BY DEF ExchangeInv, HandedOver, DeliveredInOrder
<1> QED BY <1>1, ExchangeInvariant, PTL

=============================================================================
