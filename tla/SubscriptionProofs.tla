------------------------- MODULE SubscriptionProofs -------------------------
(***************************************************************************)
(* Proofs about Subscription, for any set of subscriptions and any number  *)
(* of changes and events.  The invariant is about one handler at a time;   *)
(* the methods of the handler are shown to keep it, and the actions are    *)
(* reduced to the methods they call.                                       *)
(***************************************************************************)
EXTENDS Subscription, SequenceTheorems, FiniteSetTheorems, TLAPS

Phases == {"none", "priming", "responding", "done", "failed"}

\* A handler that was not established has neither timers nor updates under way.
Quiet(h) ==
  /\ ~h.sendUpdatesActivated
  /\ h.updateTimer = "stopped"
  /\ ~h.sendDelayTimer
  /\ ~h.sendingUpdateInProgress
  /\ ~h.sendNextUpdateImmediately

\* The handler h of a request in phase p: its timers fit each other, and one report is
\* under way at most, which sendingUpdateInProgress or the priming stands for.
Sound(h, p) ==
  /\ h \in Handlers
  /\ h.updateTimer = "floor" => ~h.sendDelayTimer
  /\ \A a, b \in h.reports : a = b
  /\ h.reports # {} => h.sendingUpdateInProgress \/ p = "priming"
  /\ p # "done" => Quiet(h)
  /\ p = "none" => ~h.listening /\ h.outstanding = NoData

\* The part of HeartbeatArmed of one handler.
Beats(h) == h.sendUpdatesActivated => h.updateTimer # "stopped"

\* What the subscriber has acknowledged (r), what is under way and what is waiting are
\* in the order of the versions, up to the version v of the attribute.
Ordered(h, r, v) ==
  /\ r.attribute <= v
  /\ h.outstanding.attribute <= v
  /\ \A x \in h.reports : x.attribute <= v
  /\ \A x \in h.reports : x.attribute # None => r.attribute <= x.attribute
  /\ h.outstanding.attribute # None =>
       /\ r.attribute <= h.outstanding.attribute
       /\ \A x \in h.reports : x.attribute <= h.outstanding.attribute

\* Covered, element by element and with the state it reads as parameters.
Covers(h, r, v, n) ==
  /\ \E x \in {r, h.outstanding} \cup h.reports : x.attribute = v
  /\ \A k \in 1 .. n : \E x \in {r, h.outstanding} \cup h.reports : k \in x.events

\* A handler of a request in phase p, whose subscriber has acknowledged r, at version v
\* and after n events; l says that a report of it has failed.
Good(h, p, r, v, n, l) ==
  /\ Sound(h, p)
  /\ Beats(h)
  /\ Ordered(h, r, v)
  /\ h.listening /\ ~l => Covers(h, r, v, n)

\* The lists: a handler of the session's list is in the map of the server, once, and an
\* active handler is in both unless clearSubscriptions() or the end of the session
\* missed it.
Listed ==
  /\ subscriptions \in Seq(Subscriptions)
  /\ \A i \in 1 .. Len(subscriptions) :
       subscriptions[i] \in subscriptionMap /\ phase[subscriptions[i]] = "done"
  /\ \A i, j \in 1 .. Len(subscriptions) : subscriptions[i] = subscriptions[j] => i = j
  /\ \A s \in subscriptionMap : phase[s] = "done"
  /\ \A s \in Subscriptions :
       handler[s].sendUpdatesActivated /\ s \notin skipped \cup late =>
         s \in subscriptionMap /\ \E i \in 1 .. Len(subscriptions) : subscriptions[i] = s

\* A request that was being handled when its session ended is remembered as late.
Remembered ==
  sessionEnded \/ isClosing => \A s \in Subscriptions : phase[s] \in {"priming", "responding"} => s \in late

State ==
  /\ handler \in [Subscriptions -> Handlers]
  /\ phase \in [Subscriptions -> Phases]
  /\ subscriptionMap \subseteq Subscriptions
  /\ sessionEnded \in BOOLEAN
  /\ isClosing \in BOOLEAN
  /\ version \in Versions
  /\ eventNumber \in 0 .. MaxEvents
  /\ reported \in [Subscriptions -> Reports]
  /\ lost \subseteq Subscriptions
  /\ skipped \subseteq Subscriptions
  /\ late \subseteq Subscriptions

\* The inductive invariant.
SubInv ==
  /\ State
  /\ \A s \in Subscriptions :
       Good(handler[s], phase[s], reported[s], version, eventNumber, s \in lost)
  /\ Listed
  /\ Remembered
  /\ ActiveAfterEnd

-----------------------------------------------------------------------------
(* The methods of a handler *)

LEMMA CoveredIsCovers ==
  ASSUME NEW s \in Subscriptions
  PROVE  Covered(s) <=> Covers(handler[s], reported[s], version, eventNumber)
BY DEF Covered, Covers

LEMMA NoDataIsData == NoData \in Reports /\ NoData.attribute = None /\ NoData.events = {}
BY DEF NoData, Reports

\* The fields of a handler.
LEMMA Fields ==
  ASSUME NEW h \in Handlers
  PROVE  /\ h.sendUpdatesActivated \in BOOLEAN
         /\ h.listening \in BOOLEAN
         /\ h.outstanding \in Reports
         /\ h.updateTimer \in {"stopped", "interval", "floor"}
         /\ h.sendDelayTimer \in BOOLEAN
         /\ h.floorPassed \in BOOLEAN
         /\ h.sendingUpdateInProgress \in BOOLEAN
         /\ h.sendNextUpdateImmediately \in BOOLEAN
         /\ h.sendUpdateErrorCounter \in 0 .. 3
         /\ h.reports \in SUBSET Reports
         /\ h.reportHangs \in BOOLEAN
BY DEF Handlers

\* sendUpdate() while a report is under way only asks for another one ...
LEMMA SendUpdateAgain ==
  ASSUME NEW h \in Handlers, h.sendingUpdateInProgress
  PROVE  /\ SendUpdate(h) \in Handlers
         /\ SendUpdate(h) = [h EXCEPT !.sendNextUpdateImmediately = TRUE]
BY DEF SendUpdate, Handlers

\* ... and otherwise sends what is waiting.
LEMMA SendUpdateNow ==
  ASSUME NEW h \in Handlers, ~h.sendingUpdateInProgress
  PROVE  /\ SendUpdate(h) \in Handlers
         /\ SendUpdate(h).outstanding = NoData
         /\ SendUpdate(h).reports = h.reports \cup {h.outstanding}
         /\ SendUpdate(h).sendingUpdateInProgress
         /\ SendUpdate(h).sendUpdatesActivated = h.sendUpdatesActivated
         /\ SendUpdate(h).listening = h.listening
         /\ SendUpdate(h).updateTimer = h.updateTimer
         /\ SendUpdate(h).sendDelayTimer = h.sendDelayTimer
<1>1. SendUpdate(h) = [h EXCEPT !.outstanding = NoData,
                                !.reports = h.reports \cup {h.outstanding},
                                !.sendingUpdateInProgress = TRUE,
                                !.floorPassed = FALSE]
  BY DEF SendUpdate
<1>2. SendUpdate(h) \in Handlers
  BY NoDataIsData DEF SendUpdate, Handlers
<1>3. QED
  BY <1>1, <1>2 DEF Handlers

\* The data of g is that of h, acknowledged, under way or waiting.
Carries(h, g) ==
  /\ \A r \in Reports, v \in Versions : Ordered(h, r, v) => Ordered(g, r, v)
  /\ \A r, v, n : Covers(h, r, v, n) => Covers(g, r, v, n)

LEMMA SameData ==
  ASSUME NEW h, NEW g, g.outstanding = h.outstanding, g.reports = h.reports
  PROVE  Carries(h, g)
BY DEF Carries, Ordered, Covers

LEMMA CarriesOn ==
  ASSUME NEW f, NEW g, NEW h, Carries(f, g), Carries(g, h)
  PROVE  Carries(f, h)
BY DEF Carries

LEMMA SendUpdateKeeps ==
  ASSUME NEW h, Sound(h, "done")
  PROVE  /\ Sound(SendUpdate(h), "done")
         /\ SendUpdate(h).sendUpdatesActivated = h.sendUpdatesActivated
         /\ SendUpdate(h).listening = h.listening
         /\ SendUpdate(h).updateTimer = h.updateTimer
         /\ Carries(h, SendUpdate(h))
<1>1. CASE h.sendingUpdateInProgress
  <2>1. h \in Handlers
    BY DEF Sound
  <2>2. /\ SendUpdate(h).outstanding = h.outstanding
        /\ SendUpdate(h).reports = h.reports
        /\ SendUpdate(h).sendUpdatesActivated = h.sendUpdatesActivated
        /\ SendUpdate(h).listening = h.listening
        /\ SendUpdate(h).updateTimer = h.updateTimer
        /\ SendUpdate(h).sendDelayTimer = h.sendDelayTimer
        /\ SendUpdate(h).sendingUpdateInProgress = h.sendingUpdateInProgress
    BY <1>1, <2>1, SendUpdateAgain, ZenonT(40) DEF Handlers
  <2>3. Sound(SendUpdate(h), "done")
    BY <1>1, <2>1, <2>2, SendUpdateAgain, Fields DEF Sound
  <2>4. QED
    BY <2>2, <2>3, SameData
<1>2. CASE ~h.sendingUpdateInProgress
  <2> DEFINE g == SendUpdate(h)
  <2>1. h \in Handlers /\ h.reports = {}
    BY <1>2 DEF Sound
  <2>2. /\ g \in Handlers
        /\ g.outstanding = NoData
        /\ g.reports = {h.outstanding}
        /\ g.sendingUpdateInProgress
        /\ g.sendUpdatesActivated = h.sendUpdatesActivated
        /\ g.listening = h.listening
        /\ g.updateTimer = h.updateTimer
        /\ g.sendDelayTimer = h.sendDelayTimer
    BY <1>2, <2>1, SendUpdateNow
  <2> HIDE DEF g
  <2>3. Sound(g, "done")
    BY <2>1, <2>2, Fields DEF Sound
  <2>4. ASSUME NEW r \in Reports, NEW v \in Versions, Ordered(h, r, v)
        PROVE  Ordered(g, r, v)
    BY <2>1, <2>2, <2>4, NoDataIsData, SubscriptionAssumption DEF Ordered, None, Versions
  <2>5. ASSUME NEW r, NEW v, NEW n, Covers(h, r, v, n)
        PROVE  Covers(g, r, v, n)
    BY <2>1, <2>2, <2>5 DEF Covers
  <2>6. QED
    BY <2>2, <2>3, <2>4, <2>5 DEF g, Carries
<1>3. QED
  BY <1>1, <1>2

LEMMA FlushKeeps ==
  ASSUME NEW h, Sound(h, "done")
  PROVE  /\ Sound(Flush(h), "done")
         /\ Flush(h).sendUpdatesActivated = h.sendUpdatesActivated
         /\ Flush(h).listening = h.listening
         /\ Flush(h).updateTimer = h.updateTimer
         /\ Carries(h, Flush(h))
BY SendUpdateKeeps, SameData DEF Flush

\* prepareDataUpdate() arms the update timer of an active handler.
LEMMA PrepareKeeps ==
  ASSUME NEW h, NEW p \in Phases, Sound(h, p), Beats(h) \/ ~h.sendDelayTimer
  PROVE  /\ Sound(PrepareDataUpdate(h), p)
         /\ Beats(PrepareDataUpdate(h))
         /\ PrepareDataUpdate(h).sendUpdatesActivated = h.sendUpdatesActivated
         /\ PrepareDataUpdate(h).listening = h.listening
         /\ PrepareDataUpdate(h).outstanding = h.outstanding
         /\ PrepareDataUpdate(h).reports = h.reports
<1>1. h \in Handlers
  BY DEF Sound
<1>2. CASE h.sendDelayTimer \/ ~h.sendUpdatesActivated
  BY <1>1, <1>2, Fields DEF PrepareDataUpdate, Beats
<1>3. CASE ~(h.sendDelayTimer \/ ~h.sendUpdatesActivated)
  <2> DEFINE g == PrepareDataUpdate(h)
  <2>1. g = [h EXCEPT !.updateTimer = IF h.floorPassed THEN "interval" ELSE "floor",
                      !.sendDelayTimer = h.floorPassed]
    BY <1>3 DEF PrepareDataUpdate
  <2>2. g \in Handlers
    BY <1>1, <2>1 DEF Handlers
  <2>3. /\ g.updateTimer = IF h.floorPassed THEN "interval" ELSE "floor"
        /\ g.sendDelayTimer = h.floorPassed
        /\ g.sendUpdatesActivated = h.sendUpdatesActivated
        /\ g.listening = h.listening
        /\ g.outstanding = h.outstanding
        /\ g.reports = h.reports
        /\ g.sendingUpdateInProgress = h.sendingUpdateInProgress
    BY <1>1, <2>1 DEF Handlers
  <2> HIDE DEF g
  <2>4. p = "done"
    BY <1>3 DEF Sound, Quiet
  <2>5. Sound(g, p) /\ Beats(g)
    BY <1>1, <2>2, <2>3, <2>4, Fields DEF Sound, Beats
  <2>6. QED
    BY <2>3, <2>5 DEF g
<1>4. QED
  BY <1>2, <1>3

\* activateSendingUpdates() of a handler whose subscription was answered.
LEMMA ActivateKeeps ==
  ASSUME NEW h, Sound(h, "responding")
  PROVE  /\ Sound(Activate(h), "done")
         /\ Beats(Activate(h))
         /\ Activate(h).listening = h.listening
         /\ Carries(h, Activate(h))
<1> DEFINE a == [h EXCEPT !.sendUpdatesActivated = TRUE]
           g == Activate(h)
<1>1. h \in Handlers /\ h.reports = {} /\ Quiet(h)
  BY DEF Sound, Quiet
<1>2. /\ a \in Handlers
      /\ a.updateTimer = h.updateTimer
      /\ a.sendDelayTimer = h.sendDelayTimer
      /\ a.listening = h.listening
      /\ a.outstanding = h.outstanding
      /\ a.reports = h.reports
      /\ a.sendingUpdateInProgress = h.sendingUpdateInProgress
  BY <1>1 DEF Handlers
<1>3. g = [Flush(a) EXCEPT !.updateTimer = "interval"]
  BY DEF Activate
<1> HIDE DEF a
<1>4. Sound(a, "done")
  BY <1>1, <1>2, Fields DEF Sound, Quiet
<1>5. /\ Sound(Flush(a), "done")
      /\ Flush(a).listening = h.listening
      /\ Carries(h, Flush(a))
  BY <1>2, <1>4, FlushKeeps, SameData, CarriesOn
<1>6. Flush(a).sendDelayTimer = h.sendDelayTimer
  <2>1. h.sendingUpdateInProgress = FALSE
    BY <1>1 DEF Quiet, Handlers
  <2>2. QED
    BY <1>2, <2>1, SendUpdateNow DEF Flush
<1>7. Flush(a) \in Handlers
  BY <1>5 DEF Sound
<1>8. /\ g \in Handlers
      /\ g.updateTimer = "interval"
      /\ g.sendDelayTimer = Flush(a).sendDelayTimer
      /\ g.listening = Flush(a).listening
      /\ g.outstanding = Flush(a).outstanding
      /\ g.reports = Flush(a).reports
      /\ g.sendingUpdateInProgress = Flush(a).sendingUpdateInProgress
  BY <1>3, <1>7 DEF Handlers
<1> HIDE DEF g
<1>9. Sound(g, "done") /\ Beats(g)
  BY <1>5, <1>7, <1>8, Fields DEF Sound, Beats
<1>10. Carries(h, g)
  BY <1>5, <1>8, SameData, CarriesOn
<1>11. QED
  BY <1>5, <1>8, <1>9, <1>10 DEF g

\* cancel() leaves a handler that neither listens nor sends by itself.
LEMMA CancelKeeps ==
  ASSUME NEW h, Sound(h, "done"), NEW flush \in BOOLEAN
  PROVE  /\ Sound(Cancel(h, flush), "done")
         /\ ~Cancel(h, flush).sendUpdatesActivated
         /\ ~Cancel(h, flush).listening
         /\ Carries(h, Cancel(h, flush))
<1> DEFINE a == [h EXCEPT !.sendUpdatesActivated = FALSE, !.updateTimer = "stopped",
                          !.sendDelayTimer = FALSE, !.listening = FALSE]
<1>1. h \in Handlers
  BY DEF Sound
<1>2. /\ a \in Handlers
      /\ ~a.sendUpdatesActivated
      /\ a.updateTimer = "stopped"
      /\ ~a.listening
      /\ a.outstanding = h.outstanding
      /\ a.reports = h.reports
      /\ a.sendingUpdateInProgress = h.sendingUpdateInProgress
  BY <1>1 DEF Handlers
<1>3. Cancel(h, flush) = IF flush THEN Flush(a) ELSE a
  BY DEF Cancel
<1> HIDE DEF a
<1>4. Sound(a, "done") /\ Carries(h, a)
  BY <1>1, <1>2, Fields, SameData DEF Sound
<1>5. /\ Sound(Flush(a), "done") /\ Carries(h, Flush(a))
      /\ ~Flush(a).sendUpdatesActivated /\ ~Flush(a).listening
  BY <1>2, <1>4, FlushKeeps, CarriesOn
<1>6. QED
  BY <1>2, <1>3, <1>4, <1>5

\* sendUpdate() after its try, for a handler whose report is gone.
LEMMA SendDoneKeeps ==
  ASSUME NEW h, Sound(h, "done"), h.reports = {}
  PROVE  /\ Sound(SendDone(h), "done")
         /\ SendDone(h).sendUpdatesActivated = h.sendUpdatesActivated
         /\ SendDone(h).listening = h.listening
         /\ SendDone(h).updateTimer = h.updateTimer
         /\ Carries(h, SendDone(h))
<1> DEFINE d == [h EXCEPT !.sendingUpdateInProgress = FALSE]
           n == [d EXCEPT !.sendNextUpdateImmediately = FALSE]
<1>1. h \in Handlers
  BY DEF Sound
<1>2. /\ d \in Handlers
      /\ d.sendUpdatesActivated = h.sendUpdatesActivated
      /\ d.updateTimer = h.updateTimer
      /\ d.sendDelayTimer = h.sendDelayTimer
      /\ d.listening = h.listening
      /\ d.outstanding = h.outstanding
      /\ d.reports = {}
  BY <1>1 DEF Handlers
<1>3. /\ n \in Handlers
      /\ n.sendUpdatesActivated = h.sendUpdatesActivated
      /\ n.updateTimer = h.updateTimer
      /\ n.sendDelayTimer = h.sendDelayTimer
      /\ n.listening = h.listening
      /\ n.outstanding = h.outstanding
      /\ n.reports = {}
  BY <1>1 DEF Handlers
<1>4. SendDone(h) = IF h.sendNextUpdateImmediately THEN SendUpdate(n) ELSE d
  BY DEF SendDone
<1> HIDE DEF d, n
<1>5. Sound(d, "done") /\ Carries(h, d)
  BY <1>1, <1>2, Fields, SameData DEF Sound
<1>6. Sound(n, "done") /\ Carries(h, n)
  BY <1>1, <1>3, Fields, SameData DEF Sound
<1>7. /\ Sound(SendUpdate(n), "done") /\ Carries(h, SendUpdate(n))
      /\ SendUpdate(n).sendUpdatesActivated = h.sendUpdatesActivated
      /\ SendUpdate(n).listening = h.listening
      /\ SendUpdate(n).updateTimer = h.updateTimer
  BY <1>3, <1>6, SendUpdateKeeps, CarriesOn
<1>8. QED
  BY <1>2, <1>4, <1>5, <1>7

-----------------------------------------------------------------------------
(* Methods that change the data *)

LEMMA GoodPrepare ==
  ASSUME NEW h, NEW p \in Phases, NEW r \in Reports, NEW v \in Versions, NEW n, NEW l \in BOOLEAN,
         Sound(h, p), Beats(h) \/ ~h.sendDelayTimer, Ordered(h, r, v),
         h.listening /\ ~l => Covers(h, r, v, n)
  PROVE  /\ Good(PrepareDataUpdate(h), p, r, v, n, l)
         /\ PrepareDataUpdate(h).sendUpdatesActivated = h.sendUpdatesActivated
<1> DEFINE g == PrepareDataUpdate(h)
<1>1. /\ Sound(g, p) /\ Beats(g) /\ g.listening = h.listening /\ Carries(h, g)
      /\ g.sendUpdatesActivated = h.sendUpdatesActivated
  BY PrepareKeeps, SameData
<1> HIDE DEF g
<1>2. h.listening \in BOOLEAN
  BY Fields DEF Sound
<1>3. Good(g, p, r, v, n, l)
  BY <1>1, <1>2 DEF Good, Carries
<1>4. QED
  BY <1>1, <1>3 DEF g

\* A handler with another version of the attribute waiting.
LEMMA WithAttribute ==
  ASSUME NEW h \in Handlers, NEW v \in Versions
  PROVE  LET g == [h EXCEPT !.outstanding.attribute = v]
         IN  /\ g \in Handlers
             /\ g.outstanding.attribute = v
             /\ g.outstanding.events = h.outstanding.events
             /\ g.reports = h.reports
             /\ g.sendUpdatesActivated = h.sendUpdatesActivated
             /\ g.listening = h.listening
             /\ g.updateTimer = h.updateTimer
             /\ g.sendDelayTimer = h.sendDelayTimer
             /\ g.sendingUpdateInProgress = h.sendingUpdateInProgress
             /\ g.sendNextUpdateImmediately = h.sendNextUpdateImmediately
BY DEF Handlers, Reports

\* A handler with another event waiting.
LEMMA WithEvent ==
  ASSUME NEW h \in Handlers, NEW n \in Events
  PROVE  LET g == [h EXCEPT !.outstanding.events = @ \cup {n}]
         IN  /\ g \in Handlers
             /\ g.outstanding.attribute = h.outstanding.attribute
             /\ g.outstanding.events = h.outstanding.events \cup {n}
             /\ g.reports = h.reports
             /\ g.sendUpdatesActivated = h.sendUpdatesActivated
             /\ g.listening = h.listening
             /\ g.updateTimer = h.updateTimer
             /\ g.sendDelayTimer = h.sendDelayTimer
             /\ g.sendingUpdateInProgress = h.sendingUpdateInProgress
             /\ g.sendNextUpdateImmediately = h.sendNextUpdateImmediately
BY DEF Handlers, Reports

\* The newest version waits, be it new (w is the version before) or not.
LEMMA GoodAttribute ==
  ASSUME NEW h, NEW p \in Phases, NEW r \in Reports, NEW w \in Versions, NEW v \in Versions, NEW n,
         NEW l \in BOOLEAN, Good(h, p, r, w, n, l), w <= v, p # "none",
         NEW g, g = PrepareDataUpdate([h EXCEPT !.outstanding.attribute = v])
  PROVE  Good(g, p, r, v, n, l) /\ g.sendUpdatesActivated = h.sendUpdatesActivated
<1> DEFINE a == [h EXCEPT !.outstanding.attribute = v]
<1>1. h \in Handlers /\ Sound(h, p) /\ Beats(h)
  BY DEF Good, Sound
<1>2. /\ a \in Handlers
      /\ a.outstanding.attribute = v
      /\ a.outstanding.events = h.outstanding.events
      /\ a.reports = h.reports
      /\ a.sendUpdatesActivated = h.sendUpdatesActivated
      /\ a.listening = h.listening
      /\ a.updateTimer = h.updateTimer
      /\ a.sendDelayTimer = h.sendDelayTimer
      /\ a.sendingUpdateInProgress = h.sendingUpdateInProgress
      /\ a.sendNextUpdateImmediately = h.sendNextUpdateImmediately
  BY <1>1, WithAttribute
<1> HIDE DEF a
<1>3. Sound(a, p) /\ Beats(a)
  BY <1>1, <1>2, Fields DEF Sound, Beats, Quiet
<1>4. Ordered(a, r, v)
  <2>1. Ordered(h, r, w) /\ h.reports \subseteq Reports
    BY <1>1, Fields DEF Good
  <2>2. QED
    BY <1>2, <2>1, SubscriptionAssumption DEF Ordered, Versions, Reports, None
<1>5. a.listening /\ ~l => Covers(a, r, v, n)
  BY <1>1, <1>2, Fields DEF Good, Covers
<1>6. QED
  BY <1>2, <1>3, <1>4, <1>5, GoodPrepare DEF a

\* attributeChangeListener()
LEMMA GoodChange ==
  ASSUME NEW h, NEW p \in Phases, NEW r \in Reports, NEW v \in Versions, v + 1 \in Versions, NEW n,
         NEW l \in BOOLEAN, Good(h, p, r, v, n, l)
  PROVE  /\ Good(AttributeChanged(h, v + 1), p, r, v + 1, n, l)
         /\ AttributeChanged(h, v + 1).sendUpdatesActivated = h.sendUpdatesActivated
<1>1. h \in Handlers /\ h.listening \in BOOLEAN /\ h.reports \subseteq Reports
  BY Fields DEF Good, Sound
<1>2. CASE h.listening
  <2> DEFINE u == v + 1
  <2>1. p # "none" /\ v <= u /\ u \in Versions
    BY <1>1, <1>2, SubscriptionAssumption DEF Good, Sound, Versions
  <2>2. AttributeChanged(h, u) = PrepareDataUpdate([h EXCEPT !.outstanding.attribute = u])
    BY <1>2 DEF AttributeChanged
  <2> HIDE DEF u
  <2> DEFINE g == AttributeChanged(h, u)
  <2> HIDE DEF g
  <2>3. g = PrepareDataUpdate([h EXCEPT !.outstanding.attribute = u])
    BY <2>2 DEF g
  <2>4. Good(g, p, r, u, n, l) /\ g.sendUpdatesActivated = h.sendUpdatesActivated
    BY <2>1, <2>3, GoodAttribute
  <2>5. QED
    BY <2>4 DEF g, u
<1>3. CASE ~h.listening
  <2>1. AttributeChanged(h, v + 1) = h
    BY <1>3 DEF AttributeChanged
  <2>2. Ordered(h, r, v + 1)
    <3>1. Ordered(h, r, v) /\ h.outstanding \in Reports
      BY <1>1, Fields DEF Good
    <3>2. QED
      BY <1>1, <3>1, SubscriptionAssumption DEF Ordered, Versions, Reports, None
  <2>3. QED
    BY <1>3, <2>1, <2>2 DEF Good
<1>4. QED
  BY <1>1, <1>2, <1>3

\* eventChangeListener()
LEMMA GoodEvent ==
  ASSUME NEW h, NEW p \in Phases, NEW r \in Reports, NEW v \in Versions, NEW n \in Nat, n + 1 \in Events,
         NEW l \in BOOLEAN, NEW urgent \in BOOLEAN, Good(h, p, r, v, n, l)
  PROVE  /\ Good(EventOccurred(h, n + 1, urgent), p, r, v, n + 1, l)
         /\ EventOccurred(h, n + 1, urgent).sendUpdatesActivated = h.sendUpdatesActivated
<1> DEFINE a == [h EXCEPT !.outstanding.events = @ \cup {n + 1}]
<1>1. h \in Handlers /\ h.listening \in BOOLEAN
  BY Fields DEF Good, Sound
<1>2. CASE h.listening
  <2>1. /\ a \in Handlers
        /\ a.outstanding.attribute = h.outstanding.attribute
        /\ a.outstanding.events = h.outstanding.events \cup {n + 1}
        /\ a.reports = h.reports
        /\ a.sendUpdatesActivated = h.sendUpdatesActivated
        /\ a.listening = h.listening
        /\ a.updateTimer = h.updateTimer
        /\ a.sendDelayTimer = h.sendDelayTimer
        /\ a.sendingUpdateInProgress = h.sendingUpdateInProgress
        /\ a.sendNextUpdateImmediately = h.sendNextUpdateImmediately
    BY <1>1, WithEvent
  <2>2. EventOccurred(h, n + 1, urgent) = IF urgent THEN PrepareDataUpdate(a) ELSE a
    BY <1>2 DEF EventOccurred
  <2> HIDE DEF a
  <2>3. p # "none"
    BY <1>2 DEF Good, Sound
  <2>4. Sound(a, p) /\ Beats(a)
    BY <1>1, <2>1, <2>3, Fields DEF Good, Sound, Beats, Quiet
  <2>5. Ordered(a, r, v)
    BY <2>1 DEF Good, Ordered
  <2>6. Covers(h, r, v, n) => Covers(a, r, v, n + 1)
    BY <2>1 DEF Covers
  <2>7. Good(a, p, r, v, n + 1, l)
    BY <1>2, <2>1, <2>4, <2>5, <2>6 DEF Good
  <2>8. /\ Good(PrepareDataUpdate(a), p, r, v, n + 1, l)
        /\ PrepareDataUpdate(a).sendUpdatesActivated = a.sendUpdatesActivated
    BY <2>7, GoodPrepare DEF Good
  <2>9. QED
    BY <2>1, <2>2, <2>7, <2>8
<1>3. CASE ~h.listening
  BY <1>3 DEF EventOccurred, Good
<1>4. QED
  BY <1>1, <1>2, <1>3

-----------------------------------------------------------------------------
(* Methods of a handler that is set up, sends, or is cancelled *)

LEMMA GoodActivate ==
  ASSUME NEW h, NEW r \in Reports, NEW v \in Versions, NEW n, NEW l \in BOOLEAN,
         Good(h, "responding", r, v, n, l)
  PROVE  Good(Activate(h), "done", r, v, n, l)
<1>1. /\ Sound(Activate(h), "done") /\ Beats(Activate(h))
      /\ Activate(h).listening = h.listening /\ Carries(h, Activate(h))
  BY ActivateKeeps DEF Good
<1>2. QED
  BY <1>1 DEF Good, Carries

LEMMA GoodCancel ==
  ASSUME NEW h, NEW r \in Reports, NEW v \in Versions, NEW n, NEW l \in BOOLEAN,
         NEW flush \in BOOLEAN, Good(h, "done", r, v, n, l)
  PROVE  /\ Good(Cancel(h, flush), "done", r, v, n, l)
         /\ Good(Cancel(h, flush), "done", r, v, n, TRUE)
         /\ ~Cancel(h, flush).sendUpdatesActivated
<1>1. /\ Sound(Cancel(h, flush), "done") /\ ~Cancel(h, flush).sendUpdatesActivated
      /\ ~Cancel(h, flush).listening /\ Carries(h, Cancel(h, flush))
  BY CancelKeeps DEF Good
<1>2. QED
  BY <1>1 DEF Good, Carries, Beats

\* cancel() without a flush.
LEMMA CancelFields ==
  ASSUME NEW h \in Handlers, NEW c, c = Cancel(h, FALSE)
  PROVE  /\ c \in Handlers
         /\ c.reports = h.reports
         /\ c.outstanding = h.outstanding
         /\ ~c.listening
         /\ ~c.sendUpdatesActivated
         /\ c.updateTimer = "stopped"
         /\ ~c.sendDelayTimer
         /\ c.sendingUpdateInProgress = h.sendingUpdateInProgress
         /\ c.sendNextUpdateImmediately = h.sendNextUpdateImmediately
<1> DEFINE a == [h EXCEPT !.sendUpdatesActivated = FALSE, !.updateTimer = "stopped",
                          !.sendDelayTimer = FALSE, !.listening = FALSE]
<1>1. /\ a \in Handlers
      /\ a.reports = h.reports
      /\ a.outstanding = h.outstanding
      /\ ~a.listening
      /\ ~a.sendUpdatesActivated
      /\ a.updateTimer = "stopped"
      /\ ~a.sendDelayTimer
      /\ a.sendingUpdateInProgress = h.sendingUpdateInProgress
      /\ a.sendNextUpdateImmediately = h.sendNextUpdateImmediately
  BY DEF Handlers
<1>2. c = a
  BY DEF Cancel
<1> HIDE DEF a
<1>3. QED
  BY <1>1, <1>2

LEMMA GoodSendDone ==
  ASSUME NEW h, NEW r \in Reports, NEW v \in Versions, NEW n, NEW l \in BOOLEAN,
         Good(h, "done", r, v, n, l), h.reports = {}
  PROVE  /\ Good(SendDone(h), "done", r, v, n, l)
         /\ SendDone(h).sendUpdatesActivated = h.sendUpdatesActivated
<1>1. /\ Sound(SendDone(h), "done")
      /\ SendDone(h).sendUpdatesActivated = h.sendUpdatesActivated
      /\ SendDone(h).listening = h.listening
      /\ SendDone(h).updateTimer = h.updateTimer
      /\ Carries(h, SendDone(h))
  BY SendDoneKeeps DEF Good
<1>2. QED
  BY <1>1 DEF Good, Carries, Beats

\* g is h with other reports under way, another count of errors or another
\* sendNextUpdateImmediately.
Like(g, h) ==
  /\ g \in Handlers
  /\ g.sendUpdatesActivated = h.sendUpdatesActivated
  /\ g.listening = h.listening
  /\ g.outstanding = h.outstanding
  /\ g.updateTimer = h.updateTimer
  /\ g.sendDelayTimer = h.sendDelayTimer
  /\ g.sendingUpdateInProgress = h.sendingUpdateInProgress

LEMMA AnsweredFields ==
  ASSUME NEW h \in Handlers, NEW x
  PROVE  Like(Answered(h, x), h) /\ Answered(h, x).reports = h.reports \ {x}
<1>1. h.reports \ {x} \in SUBSET Reports /\ 0 \in 0 .. 3
  BY Fields
<1>2. Answered(h, x) \in Handlers
  BY <1>1 DEF Answered, Handlers
<1>3. QED
  BY <1>1, <1>2 DEF Like, Answered, Handlers

\* A report that failed is gone, with what it carried.
LEMMA GoodDropped ==
  ASSUME NEW h, NEW g, NEW r, NEW v, NEW x \in h.reports,
         Sound(h, "done"), Beats(h), Ordered(h, r, v),
         Like(g, h), g.reports = h.reports \ {x}
  PROVE  g.reports = {} /\ Sound(g, "done") /\ Beats(g) /\ Ordered(g, r, v)
<1>1. g.reports = {}
  BY DEF Sound
<1>2. Sound(g, "done")
  BY <1>1 DEF Sound, Like
<1>3. QED
  BY <1>1, <1>2 DEF Beats, Ordered, Like

\* The subscriber's view after a report.
LEMMA TakeFields ==
  ASSUME NEW r \in Reports, NEW x \in Reports
  PROVE  /\ Take(r, x) \in Reports
         /\ Take(r, x).attribute = IF x.attribute = None THEN r.attribute ELSE x.attribute
         /\ Take(r, x).events = r.events \cup x.events
BY DEF Take, Reports

\* What was under way is acknowledged: nothing of it is lost, and the order stays.
LEMMA Acknowledge ==
  ASSUME NEW h, NEW g, NEW p, NEW r \in Reports, NEW v \in Versions, NEW n,
         Sound(h, p), Ordered(h, r, v), NEW x \in h.reports,
         g.reports = {}, g.outstanding = h.outstanding
  PROVE  /\ Ordered(g, Take(r, x), v)
         /\ Covers(h, r, v, n) => Covers(g, Take(r, x), v, n)
<1>1. h.reports = {x} /\ x \in Reports /\ h.outstanding \in Reports
  BY Fields DEF Sound
<1> DEFINE t == Take(r, x)
<1>2. /\ t \in Reports
      /\ t.attribute = IF x.attribute = None THEN r.attribute ELSE x.attribute
      /\ t.events = r.events \cup x.events
  BY <1>1, TakeFields
<1> HIDE DEF t
<1>3. Ordered(g, t, v)
  BY <1>1, <1>2 DEF Ordered, None
<1>4. ASSUME Covers(h, r, v, n)
      PROVE  Covers(g, t, v, n)
  <2>1. \E y \in {t, g.outstanding} \cup g.reports : y.attribute = v
    <3>1. CASE x.attribute = v
      BY <1>2, <3>1, SubscriptionAssumption DEF Versions, None
    <3>2. CASE h.outstanding.attribute = v
      BY <3>2
    <3>3. CASE r.attribute = v
      BY <1>1, <1>2, <3>3, SubscriptionAssumption DEF Ordered, Versions, Reports, None
    <3>4. QED
      BY <1>1, <1>4, <3>1, <3>2, <3>3 DEF Covers
  <2>2. \A k \in 1 .. n : \E y \in {t, g.outstanding} \cup g.reports : k \in y.events
    BY <1>1, <1>2, <1>4 DEF Covers
  <2>3. QED
    BY <2>1, <2>2 DEF Covers
<1>5. QED
  BY <1>3, <1>4 DEF t

\* sendInitialReport() changes these fields of a handler only.
LEMMA PrimeFields ==
  ASSUME NEW h \in Handlers, Current \in Reports
  PROVE  /\ Prime(h) \in Handlers
         /\ Prime(h).listening
         /\ Prime(h).reports = {Current}
         /\ Prime(h).outstanding = h.outstanding
         /\ Prime(h).sendUpdatesActivated = h.sendUpdatesActivated
         /\ Prime(h).updateTimer = h.updateTimer
         /\ Prime(h).sendDelayTimer = h.sendDelayTimer
         /\ Prime(h).sendingUpdateInProgress = h.sendingUpdateInProgress
         /\ Prime(h).sendNextUpdateImmediately = h.sendNextUpdateImmediately
<1> DEFINE x == {Current}
           g == Prime(h)
<1>1. x \in SUBSET Reports
  OBVIOUS
<1>2. g = [h EXCEPT !.listening = TRUE, !.floorPassed = FALSE, !.reports = x]
  BY DEF Prime
<1> HIDE DEF x, g
<1>3. /\ g \in Handlers
      /\ g.listening
      /\ g.reports = x
      /\ g.outstanding = h.outstanding
      /\ g.sendUpdatesActivated = h.sendUpdatesActivated
      /\ g.updateTimer = h.updateTimer
      /\ g.sendDelayTimer = h.sendDelayTimer
      /\ g.sendingUpdateInProgress = h.sendingUpdateInProgress
      /\ g.sendNextUpdateImmediately = h.sendNextUpdateImmediately
  BY <1>1, <1>2 DEF Handlers
<1>4. QED
  BY <1>3 DEF x, g

\* sendInitialReport() sends all there is.
LEMMA GoodPrime ==
  ASSUME State, NEW h, NEW r \in Reports, NEW l \in BOOLEAN,
         Good(h, "none", r, version, eventNumber, l)
  PROVE  /\ Good(Prime(h), "priming", r, version, eventNumber, l)
         /\ Prime(h).sendUpdatesActivated = h.sendUpdatesActivated
<1> DEFINE g == Prime(h)
<1>1. h \in Handlers /\ Quiet(h)
  BY DEF Good, Sound
<1>2. /\ Current \in Reports
      /\ Current.attribute = version
      /\ Current.events = 1 .. eventNumber
  BY SubscriptionAssumption DEF State, Current, Reports, Events
<1>3. /\ g \in Handlers
      /\ g.listening
      /\ g.reports = {Current}
      /\ g.outstanding = h.outstanding
      /\ g.sendUpdatesActivated = h.sendUpdatesActivated
      /\ g.updateTimer = h.updateTimer
      /\ g.sendDelayTimer = h.sendDelayTimer
      /\ g.sendingUpdateInProgress = h.sendingUpdateInProgress
      /\ g.sendNextUpdateImmediately = h.sendNextUpdateImmediately
  BY <1>1, <1>2, PrimeFields
<1> HIDE DEF g
<1>4. Sound(g, "priming")
  BY <1>1, <1>3, Fields DEF Sound, Quiet
<1>5. Ordered(g, r, version)
  BY <1>2, <1>3, NoDataIsData, SubscriptionAssumption DEF Good, Sound, Ordered, State, Versions
<1>6. Covers(g, r, version, eventNumber)
  BY <1>2, <1>3 DEF Covers
<1>7. Beats(g)
  BY <1>1, <1>3 DEF Beats, Quiet
<1>8. QED
  BY <1>3, <1>4, <1>5, <1>6, <1>7 DEF g, Good

\* The initial report is acknowledged.
LEMMA GoodPrimed ==
  ASSUME NEW h, NEW r \in Reports, NEW v \in Versions, NEW n, NEW l \in BOOLEAN,
         Good(h, "priming", r, v, n, l), NEW x \in h.reports,
         NEW g, Like(g, h), g.reports = {},
         g.sendNextUpdateImmediately = h.sendNextUpdateImmediately
  PROVE  Good(g, "responding", Take(r, x), v, n, l)
<1>1. h \in Handlers /\ Quiet(h) /\ Sound(h, "priming") /\ Ordered(h, r, v)
  BY DEF Good, Sound
<1>2. Sound(g, "responding") /\ Beats(g)
  BY <1>1, Fields DEF Sound, Quiet, Beats, Like
<1>3. Ordered(g, Take(r, x), v) /\ (Covers(h, r, v, n) => Covers(g, Take(r, x), v, n))
  BY <1>1, Acknowledge DEF Like
<1>4. QED
  BY <1>2, <1>3 DEF Good, Like

\* The initial report fails.
LEMMA GoodPrimingFails ==
  ASSUME NEW h, NEW r, NEW v, NEW n, NEW l, Good(h, "priming", r, v, n, l),
         NEW c, c = Cancel(h, FALSE), NEW g, g = [c EXCEPT !.reports = {}]
  PROVE  Good(g, "failed", r, v, n, l) /\ ~g.sendUpdatesActivated
<1>1. h \in Handlers /\ Quiet(h) /\ Ordered(h, r, v)
  BY DEF Good, Sound
<1>2. /\ c.outstanding = h.outstanding
      /\ ~c.listening
      /\ ~c.sendUpdatesActivated
      /\ c.updateTimer = "stopped"
      /\ ~c.sendDelayTimer
      /\ c.sendingUpdateInProgress = h.sendingUpdateInProgress
      /\ c.sendNextUpdateImmediately = h.sendNextUpdateImmediately
  BY <1>1, CancelFields
<1>3. c \in Handlers
  BY <1>1, CancelFields
<1>4. /\ g \in Handlers
      /\ g.reports = {}
      /\ g.outstanding = c.outstanding
      /\ g.listening = c.listening
      /\ g.sendUpdatesActivated = c.sendUpdatesActivated
      /\ g.updateTimer = c.updateTimer
      /\ g.sendDelayTimer = c.sendDelayTimer
      /\ g.sendingUpdateInProgress = c.sendingUpdateInProgress
      /\ g.sendNextUpdateImmediately = c.sendNextUpdateImmediately
  BY <1>3 DEF Handlers
<1>5. Sound(g, "failed") /\ Beats(g)
  BY <1>1, <1>2, <1>4, Fields DEF Sound, Quiet, Beats
<1>6. Ordered(g, r, v)
  BY <1>1, <1>2, <1>4 DEF Ordered
<1>7. QED
  BY <1>2, <1>4, <1>5, <1>6 DEF Good

\* A report is acknowledged.
LEMMA GoodSucceeds ==
  ASSUME NEW h, NEW r \in Reports, NEW v \in Versions, NEW n, NEW l \in BOOLEAN,
         Good(h, "done", r, v, n, l), NEW x \in h.reports,
         NEW a, Like(a, h), a.reports = h.reports \ {x}
  PROVE  /\ Good(SendDone(a), "done", Take(r, x), v, n, l)
         /\ SendDone(a).sendUpdatesActivated = h.sendUpdatesActivated
<1>1. h \in Handlers /\ Sound(h, "done") /\ Ordered(h, r, v) /\ x \in Reports /\ a.reports = {}
  BY Fields DEF Good, Sound
<1>2. Sound(a, "done") /\ Beats(a)
  BY <1>1, Fields DEF Good, Sound, Beats, Like
<1>3. Ordered(a, Take(r, x), v) /\ (Covers(h, r, v, n) => Covers(a, Take(r, x), v, n))
  BY <1>1, Acknowledge DEF Like
<1>4. Good(a, "done", Take(r, x), v, n, l) /\ Take(r, x) \in Reports
  BY <1>1, <1>2, <1>3, TakeFields DEF Good, Like
<1>5. QED
  BY <1>1, <1>4, GoodSendDone DEF Like

\* A report fails: these fields of the handler change only.
LEMMA FailedFields ==
  ASSUME NEW s \in Subscriptions, NEW x, handler[s] \in Handlers
  PROVE  /\ Failed(s, x) \in Handlers
         /\ Failed(s, x).reports = handler[s].reports \ {x}
         /\ Failed(s, x).outstanding = handler[s].outstanding
         /\ Failed(s, x).listening = handler[s].listening
         /\ Failed(s, x).sendUpdatesActivated = handler[s].sendUpdatesActivated
         /\ Failed(s, x).updateTimer = handler[s].updateTimer
         /\ Failed(s, x).sendDelayTimer = handler[s].sendDelayTimer
         /\ Failed(s, x).sendingUpdateInProgress = handler[s].sendingUpdateInProgress
<1> DEFINE h == handler[s]
           g == Failed(s, x)
           y == h.reports \ {x}
           c == IF h.sendUpdateErrorCounter = 3 THEN 3 ELSE h.sendUpdateErrorCounter + 1
<1>1. y \in SUBSET Reports /\ c \in 0 .. 3
  BY Fields
<1>2. h \in Handlers /\ g = [h EXCEPT !.reports = y, !.sendUpdateErrorCounter = c]
  BY DEF Failed
<1> HIDE DEF h, g, y, c
<1>3. /\ g \in Handlers
      /\ g.reports = y
      /\ g.outstanding = h.outstanding
      /\ g.listening = h.listening
      /\ g.sendUpdatesActivated = h.sendUpdatesActivated
      /\ g.updateTimer = h.updateTimer
      /\ g.sendDelayTimer = h.sendDelayTimer
      /\ g.sendingUpdateInProgress = h.sendingUpdateInProgress
  BY <1>1, <1>2 DEF Handlers
<1>4. QED
  BY <1>3 DEF h, g, y

\* A report fails: the handler after the error.
LEMMA GoodFailed ==
  ASSUME NEW s \in Subscriptions, NEW r \in Reports, NEW v \in Versions, NEW n, NEW l \in BOOLEAN,
         Good(handler[s], "done", r, v, n, l), NEW x \in handler[s].reports
  PROVE  Good(Failed(s, x), "done", r, v, n, TRUE) /\ Failed(s, x).reports = {}
<1> DEFINE h == handler[s]
           g == Failed(s, x)
<1>1. handler[s] \in Handlers
  BY DEF Good, Sound
<1>2. /\ g \in Handlers
      /\ g.reports = h.reports \ {x}
      /\ g.outstanding = h.outstanding
      /\ g.listening = h.listening
      /\ g.sendUpdatesActivated = h.sendUpdatesActivated
      /\ g.updateTimer = h.updateTimer
      /\ g.sendDelayTimer = h.sendDelayTimer
      /\ g.sendingUpdateInProgress = h.sendingUpdateInProgress
  BY <1>1, FailedFields
<1> HIDE DEF h, g
<1>3. g.reports = {} /\ Good(g, "done", r, v, n, TRUE)
  <2>1. Sound(h, "done") /\ Beats(h) /\ Ordered(h, r, v) /\ x \in h.reports
    BY DEF h, Good
  <2>2. g.reports = {} /\ Sound(g, "done") /\ Beats(g) /\ Ordered(g, r, v)
    BY <1>2, <2>1, GoodDropped DEF Like
  <2>3. QED
    BY <2>2 DEF Good
<1>4. QED
  BY <1>2, <1>3 DEF g, h

\* Nothing that a report decides depends on sendNextUpdateImmediately.
LEMMA GoodNoNext ==
  ASSUME NEW h, NEW r \in Reports, NEW v \in Versions, NEW n, NEW l \in BOOLEAN,
         Good(h, "done", r, v, n, l), NEW g, Like(g, h), g.reports = h.reports
  PROVE  Good(g, "done", r, v, n, l)
<1>1. h \in Handlers
  BY DEF Good, Sound
<1>2. Sound(g, "done") /\ Beats(g) /\ Carries(h, g)
  BY <1>1, Fields, SameData DEF Good, Sound, Beats, Like
<1>3. QED
  BY <1>2 DEF Good, Carries, Like

\* The subscriber does not know the subscription.
LEMMA GoodCancelled ==
  ASSUME NEW c, NEW r \in Reports, NEW v \in Versions, NEW n, Good(c, "done", r, v, n, TRUE),
         NEW x \in c.reports, NEW a, Like(a, c), a.reports = c.reports \ {x}
  PROVE  /\ Good(SendDone(a), "done", r, v, n, TRUE)
         /\ SendDone(a).sendUpdatesActivated = c.sendUpdatesActivated
<1>1. c \in Handlers /\ Sound(c, "done") /\ Beats(c) /\ Ordered(c, r, v)
  BY DEF Good, Sound
<1>2. a.reports = {} /\ Sound(a, "done") /\ Beats(a) /\ Ordered(a, r, v)
  BY <1>1, GoodDropped
<1>3. Good(a, "done", r, v, n, TRUE)
  BY <1>2 DEF Good
<1>4. /\ Good(SendDone(a), "done", r, v, n, TRUE)
      /\ SendDone(a).sendUpdatesActivated = a.sendUpdatesActivated
  BY <1>2, <1>3, GoodSendDone
<1>5. QED
  BY <1>4 DEF Like

\* The update timer fires, at the end of the interval or of the floor.
LEMMA GoodTimer ==
  ASSUME NEW h, NEW p \in Phases, NEW r \in Reports, NEW v \in Versions, NEW n, NEW l \in BOOLEAN,
         Good(h, p, r, v, n, l), NEW a \in Handlers,
         ~h.sendDelayTimer,
         a.updateTimer = "stopped",
         a.sendDelayTimer = h.sendDelayTimer,
         a.sendUpdatesActivated = h.sendUpdatesActivated,
         a.listening = h.listening,
         a.outstanding = h.outstanding,
         a.reports = h.reports,
         a.sendingUpdateInProgress = h.sendingUpdateInProgress,
         a.sendNextUpdateImmediately = h.sendNextUpdateImmediately
  PROVE  /\ Good(PrepareDataUpdate(a), p, r, v, n, l)
         /\ PrepareDataUpdate(a).sendUpdatesActivated = h.sendUpdatesActivated
<1>1. Sound(a, p)
  BY Fields DEF Good, Sound, Quiet
<1>2. Ordered(a, r, v) /\ (a.listening /\ ~l => Covers(a, r, v, n))
  BY DEF Good, Ordered, Covers
<1>3. QED
  BY <1>1, <1>2, GoodPrepare

\* The send delay timer fires.
LEMMA GoodSendDelay ==
  ASSUME NEW h, NEW p \in Phases, NEW r \in Reports, NEW v \in Versions, NEW n, NEW l \in BOOLEAN,
         Good(h, p, r, v, n, l), h.sendDelayTimer,
         NEW f, f = SendUpdate([h EXCEPT !.sendDelayTimer = FALSE])
  PROVE  /\ Good(f, p, r, v, n, l)
         /\ f.sendUpdatesActivated = h.sendUpdatesActivated
<1> DEFINE a == [h EXCEPT !.sendDelayTimer = FALSE]
<1>1. h \in Handlers /\ Sound(h, p) /\ p = "done"
  BY DEF Good, Sound, Quiet
<1>2. /\ a \in Handlers
      /\ a.updateTimer = h.updateTimer
      /\ a.sendDelayTimer = FALSE
      /\ a.sendUpdatesActivated = h.sendUpdatesActivated
      /\ a.listening = h.listening
      /\ a.outstanding = h.outstanding
      /\ a.reports = h.reports
      /\ a.sendingUpdateInProgress = h.sendingUpdateInProgress
  BY <1>1 DEF Handlers
<1> HIDE DEF a
<1>3. Sound(a, "done") /\ Carries(h, a)
  BY <1>1, <1>2, Fields, SameData DEF Sound
<1> DEFINE g == SendUpdate(a)
<1>4. /\ Sound(g, "done")
      /\ g.sendUpdatesActivated = a.sendUpdatesActivated
      /\ g.listening = a.listening
      /\ g.updateTimer = a.updateTimer
      /\ Carries(h, g)
  BY <1>3, SendUpdateKeeps, CarriesOn
<1> HIDE DEF g
<1>5. Good(g, p, r, v, n, l)
  BY <1>1, <1>2, <1>4 DEF Good, Beats, Carries
<1>6. QED
  BY <1>2, <1>4, <1>5 DEF g, a

\* The floor passes without a timer.
LEMMA GoodFloor ==
  ASSUME NEW h, NEW p \in Phases, NEW r \in Reports, NEW v \in Versions, NEW n, NEW l \in BOOLEAN,
         Good(h, p, r, v, n, l),
         NEW f, f = [h EXCEPT !.floorPassed = TRUE]
  PROVE  /\ Good(f, p, r, v, n, l)
         /\ f.sendUpdatesActivated = h.sendUpdatesActivated
<1> DEFINE g == [h EXCEPT !.floorPassed = TRUE]
<1>1. h \in Handlers
  BY DEF Good, Sound
<1>2. /\ g \in Handlers
      /\ g.updateTimer = h.updateTimer
      /\ g.sendDelayTimer = h.sendDelayTimer
      /\ g.sendUpdatesActivated = h.sendUpdatesActivated
      /\ g.listening = h.listening
      /\ g.outstanding = h.outstanding
      /\ g.reports = h.reports
      /\ g.sendingUpdateInProgress = h.sendingUpdateInProgress
      /\ g.sendNextUpdateImmediately = h.sendNextUpdateImmediately
  BY <1>1 DEF Handlers
<1> HIDE DEF g
<1>3. Sound(g, p) /\ Beats(g) /\ Carries(h, g)
  BY <1>1, <1>2, Fields, SameData DEF Good, Sound, Beats, Quiet
<1>4. QED
  BY <1>2, <1>3 DEF g, Good, Carries

\* A report hangs.
LEMMA GoodHangs ==
  ASSUME NEW h, NEW p \in Phases, NEW r \in Reports, NEW v \in Versions, NEW n, NEW l \in BOOLEAN,
         Good(h, p, r, v, n, l),
         NEW f, f = [h EXCEPT !.reportHangs = TRUE]
  PROVE  /\ Good(f, p, r, v, n, l)
         /\ f.sendUpdatesActivated = h.sendUpdatesActivated
<1> DEFINE g == [h EXCEPT !.reportHangs = TRUE]
<1>1. h \in Handlers
  BY DEF Good, Sound
<1>2. /\ g \in Handlers
      /\ g.updateTimer = h.updateTimer
      /\ g.sendDelayTimer = h.sendDelayTimer
      /\ g.sendUpdatesActivated = h.sendUpdatesActivated
      /\ g.listening = h.listening
      /\ g.outstanding = h.outstanding
      /\ g.reports = h.reports
      /\ g.sendingUpdateInProgress = h.sendingUpdateInProgress
      /\ g.sendNextUpdateImmediately = h.sendNextUpdateImmediately
  BY <1>1 DEF Handlers
<1> HIDE DEF g
<1>3. Sound(g, p) /\ Beats(g) /\ Carries(h, g)
  BY <1>1, <1>2, Fields, SameData DEF Good, Sound, Beats, Quiet
<1>4. QED
  BY <1>2, <1>3 DEF g, Good, Carries

-----------------------------------------------------------------------------
(* The actions: handlers *)

Goods ==
  \A s \in Subscriptions :
    Good(handler[s], phase[s], reported[s], version, eventNumber, s \in lost)

\* A step that changes one handler.
LEMMA OneHandler ==
  ASSUME State, Goods, NEW s \in Subscriptions, NEW g, NEW p \in Phases, NEW r \in Reports,
         Good(g, p, r, version, eventNumber, s \in lost'),
         handler' = [handler EXCEPT ![s] = g],
         phase' = [phase EXCEPT ![s] = p],
         reported' = [reported EXCEPT ![s] = r],
         lost' = lost \/ lost' = lost \cup {s},
         version' = version, eventNumber' = eventNumber
  PROVE  /\ handler' \in [Subscriptions -> Handlers]
         /\ phase' \in [Subscriptions -> Phases]
         /\ reported' \in [Subscriptions -> Reports]
         /\ lost' \subseteq Subscriptions
         /\ Goods'
         /\ handler'[s] = g
         /\ \A t \in Subscriptions \ {s} : handler'[t] = handler[t]
<1>1. g \in Handlers
  BY DEF Good, Sound
<1>2. /\ handler' \in [Subscriptions -> Handlers]
      /\ phase' \in [Subscriptions -> Phases]
      /\ reported' \in [Subscriptions -> Reports]
      /\ lost' \subseteq Subscriptions
      /\ handler'[s] = g /\ phase'[s] = p /\ reported'[s] = r
      /\ \A t \in Subscriptions \ {s} :
           /\ handler'[t] = handler[t] /\ phase'[t] = phase[t] /\ reported'[t] = reported[t]
           /\ t \in lost' <=> t \in lost
  BY <1>1 DEF State
<1>3. ASSUME NEW t \in Subscriptions
      PROVE  Good(handler[t], phase[t], reported[t], version, eventNumber, t \in lost)'
  <2>1. CASE t = s
    BY <1>2, <2>1
  <2>2. CASE t # s
    <3>1. Good(handler[t], phase[t], reported[t], version, eventNumber, t \in lost)
      BY DEF Goods
    <3>2. QED
      BY <1>2, <2>2, <3>1 DEF Good
  <2>3. QED
    BY <2>1, <2>2
<1>4. Goods'
  BY <1>3 DEF Goods
<1>5. QED
  BY <1>2, <1>4

\* No handler starts to send by itself.
NoneActivated ==
  \A t \in Subscriptions : handler'[t].sendUpdatesActivated => handler[t].sendUpdatesActivated

\* What is known of one handler.
LEMMA OneGood ==
  ASSUME State, Goods, NEW s \in Subscriptions
  PROVE  /\ handler[s] \in Handlers /\ phase[s] \in Phases /\ reported[s] \in Reports
         /\ version \in Versions
         /\ (s \in lost) \in BOOLEAN
         /\ Good(handler[s], phase[s], reported[s], version, eventNumber, s \in lost)
BY DEF State, Goods

LEMMA SubscribeHandlers ==
  ASSUME State, Goods, NEW s \in Subscriptions, Subscribe(s)
  PROVE  State' /\ Goods' /\ NoneActivated
<1> DEFINE g == Prime(handler[s])
<1>1. /\ Good(g, "priming", reported[s], version, eventNumber, s \in lost)
      /\ g.sendUpdatesActivated = handler[s].sendUpdatesActivated
  <2>1. phase[s] = "none"
    BY DEF Subscribe
  <2>2. QED
    BY <2>1, OneGood, GoodPrime
<1> HIDE DEF g
<1>2. /\ handler' = [handler EXCEPT ![s] = g]
      /\ phase' = [phase EXCEPT ![s] = "priming"]
      /\ reported' = [reported EXCEPT ![s] = reported[s]]
      /\ lost' = lost /\ version' = version /\ eventNumber' = eventNumber
      /\ "priming" \in Phases /\ reported[s] \in Reports
  BY DEF Subscribe, State, g, Phases
<1>3. /\ handler' \in [Subscriptions -> Handlers]
      /\ phase' \in [Subscriptions -> Phases]
      /\ reported' \in [Subscriptions -> Reports]
      /\ Goods'
      /\ handler'[s] = g
      /\ \A t \in Subscriptions \ {s} : handler'[t] = handler[t]
  BY <1>1, <1>2, OneHandler
<1>4. State'
  BY <1>3 DEF Subscribe, State
<1>5. QED
  BY <1>1, <1>3, <1>4 DEF NoneActivated

LEMMA PrimingFailsHandlers ==
  ASSUME State, Goods, NEW s \in Subscriptions, PrimingFails(s)
  PROVE  State' /\ Goods' /\ NoneActivated
<1> DEFINE g == [Cancel(handler[s], FALSE) EXCEPT !.reports = {}]
<1>1. /\ handler' = [handler EXCEPT ![s] = g]
      /\ phase' = [phase EXCEPT ![s] = "failed"]
      /\ reported' = [reported EXCEPT ![s] = reported[s]]
      /\ lost' = lost /\ version' = version /\ eventNumber' = eventNumber
      /\ "failed" \in Phases /\ reported[s] \in Reports
      /\ g = [Cancel(handler[s], FALSE) EXCEPT !.reports = {}]
  BY DEF PrimingFails, State, Phases
<1> HIDE DEF g
<1>2. /\ Good(g, "failed", reported[s], version, eventNumber, s \in lost)
      /\ ~g.sendUpdatesActivated
  <2> DEFINE h == handler[s]
             c == Cancel(h, FALSE)
             l == s \in lost
  <2>1. phase[s] = "priming"
    BY DEF PrimingFails
  <2>2. /\ Good(h, "priming", reported[s], version, eventNumber, l) /\ h \in Handlers
        /\ c = Cancel(h, FALSE) /\ g = [c EXCEPT !.reports = {}]
    BY <1>1, <2>1, OneGood
  <2> HIDE DEF h, c, l
  <2>3. Good(g, "failed", reported[s], version, eventNumber, l) /\ ~g.sendUpdatesActivated
    BY <2>2, GoodPrimingFails
  <2>4. QED
    BY <2>3 DEF l
<1>3. /\ handler' \in [Subscriptions -> Handlers]
      /\ phase' \in [Subscriptions -> Phases]
      /\ reported' \in [Subscriptions -> Reports]
      /\ Goods'
      /\ handler'[s] = g
      /\ \A t \in Subscriptions \ {s} : handler'[t] = handler[t]
  BY <1>1, <1>2, OneHandler
<1>4. State'
  BY <1>3 DEF PrimingFails, State
<1>5. QED
  BY <1>2, <1>3, <1>4 DEF NoneActivated

LEMMA EstablishHandlers ==
  ASSUME State, Goods, NEW s \in Subscriptions, Establish(s)
  PROVE  /\ State' /\ Goods'
         /\ \A t \in Subscriptions \ {s} : handler'[t] = handler[t]
<1> DEFINE g == Activate(handler[s])
<1>1. Good(g, "done", reported[s], version, eventNumber, s \in lost)
  <2>1. phase[s] = "responding"
    BY DEF Establish
  <2>2. QED
    BY <2>1, OneGood, GoodActivate
<1>2. /\ handler' = [handler EXCEPT ![s] = g]
      /\ phase' = [phase EXCEPT ![s] = "done"]
      /\ reported' = [reported EXCEPT ![s] = reported[s]]
      /\ lost' = lost /\ version' = version /\ eventNumber' = eventNumber
      /\ "done" \in Phases /\ reported[s] \in Reports
  BY DEF Establish, State, Phases
<1> HIDE DEF g
<1>3. /\ handler' \in [Subscriptions -> Handlers]
      /\ phase' \in [Subscriptions -> Phases]
      /\ reported' \in [Subscriptions -> Reports]
      /\ Goods'
      /\ \A t \in Subscriptions \ {s} : handler'[t] = handler[t]
  BY <1>1, <1>2, OneHandler
<1>4. State'
  BY <1>3 DEF Establish, State
<1>5. QED
  BY <1>3, <1>4

\* The handler stays as it is, and listens still.
LEMMA ResponseFailsHandlers ==
  ASSUME State, Goods, NEW s \in Subscriptions, ResponseFails(s)
  PROVE  State' /\ Goods' /\ NoneActivated
<1> DEFINE g == handler[s]
<1>1. Good(g, "failed", reported[s], version, eventNumber, s \in lost)
  <2>1. phase[s] = "responding"
    BY DEF ResponseFails
  <2>2. Good(g, "responding", reported[s], version, eventNumber, s \in lost)
    BY <2>1, OneGood
  <2>3. QED
    BY <2>2 DEF Good, Sound
<1>2. /\ handler' = [handler EXCEPT ![s] = g]
      /\ phase' = [phase EXCEPT ![s] = "failed"]
      /\ reported' = [reported EXCEPT ![s] = reported[s]]
      /\ lost' = lost /\ version' = version /\ eventNumber' = eventNumber
      /\ "failed" \in Phases /\ reported[s] \in Reports
  BY DEF ResponseFails, State, Phases
<1> HIDE DEF g
<1>3. /\ handler' \in [Subscriptions -> Handlers]
      /\ phase' \in [Subscriptions -> Phases]
      /\ reported' \in [Subscriptions -> Reports]
      /\ Goods'
  BY <1>1, <1>2, OneHandler
<1>4. State'
  BY <1>3 DEF ResponseFails, State
<1>5. QED
  BY <1>3, <1>4 DEF NoneActivated, ResponseFails

\* A step of SetHandler.
LEMMA SetHandlerHandlers ==
  ASSUME State, Goods, NEW s \in Subscriptions, NEW g, SetHandler(s, g),
         Good(g, phase[s], reported[s], version, eventNumber, s \in lost),
         g.sendUpdatesActivated = handler[s].sendUpdatesActivated
  PROVE  State' /\ Goods' /\ NoneActivated
<1>1. /\ handler' = [handler EXCEPT ![s] = g]
      /\ phase' = [phase EXCEPT ![s] = phase[s]]
      /\ reported' = [reported EXCEPT ![s] = reported[s]]
      /\ lost' = lost /\ version' = version /\ eventNumber' = eventNumber
      /\ phase[s] \in Phases /\ reported[s] \in Reports
  BY DEF SetHandler, State
<1>2. /\ handler' \in [Subscriptions -> Handlers]
      /\ Goods'
      /\ handler'[s] = g
      /\ \A t \in Subscriptions \ {s} : handler'[t] = handler[t]
  BY <1>1, OneHandler
<1>3. State'
  BY <1>2 DEF SetHandler, State
<1>4. QED
  BY <1>2, <1>3 DEF NoneActivated

LEMMA UpdateTimerHandlers ==
  ASSUME State, Goods, NEW s \in Subscriptions, UpdateTimerFires(s)
  PROVE  State' /\ Goods' /\ NoneActivated
<1> DEFINE h == handler[s]
           a == [h EXCEPT !.updateTimer = "stopped"]
           g == PrepareDataUpdate(a)
           l == s \in lost
<1>1. /\ h \in Handlers /\ phase[s] \in Phases /\ reported[s] \in Reports
      /\ Good(h, phase[s], reported[s], version, eventNumber, l)
      /\ version \in Versions /\ l \in BOOLEAN
      /\ ~h.sendDelayTimer
  BY OneGood DEF UpdateTimerFires
<1>2. SetHandler(s, g)
  BY DEF UpdateTimerFires
<1> HIDE DEF h
<1>3. /\ a \in Handlers
      /\ a.updateTimer = "stopped"
      /\ a.sendDelayTimer = h.sendDelayTimer
      /\ a.sendUpdatesActivated = h.sendUpdatesActivated
      /\ a.listening = h.listening
      /\ a.outstanding = h.outstanding
      /\ a.reports = h.reports
      /\ a.sendingUpdateInProgress = h.sendingUpdateInProgress
      /\ a.sendNextUpdateImmediately = h.sendNextUpdateImmediately
  BY <1>1 DEF Handlers
<1> HIDE DEF a, l
<1>4. /\ Good(g, phase[s], reported[s], version, eventNumber, l)
      /\ g.sendUpdatesActivated = h.sendUpdatesActivated
  BY <1>1, <1>3, GoodTimer
<1> HIDE DEF g
<1>5. QED
  BY <1>2, <1>4, SetHandlerHandlers DEF h, l

LEMMA FloorTimerHandlers ==
  ASSUME State, Goods, NEW s \in Subscriptions, FloorTimerFires(s)
  PROVE  State' /\ Goods' /\ NoneActivated
<1> DEFINE h == handler[s]
           a == [h EXCEPT !.updateTimer = "stopped", !.floorPassed = TRUE]
           g == PrepareDataUpdate(a)
           l == s \in lost
<1>1. /\ h \in Handlers /\ phase[s] \in Phases /\ reported[s] \in Reports
      /\ Good(h, phase[s], reported[s], version, eventNumber, l)
      /\ version \in Versions /\ l \in BOOLEAN
      /\ ~h.sendDelayTimer
  BY OneGood DEF FloorTimerFires, Good, Sound
<1>2. SetHandler(s, g)
  BY DEF FloorTimerFires
<1> HIDE DEF h
<1>3. /\ a \in Handlers
      /\ a.updateTimer = "stopped"
      /\ a.sendDelayTimer = h.sendDelayTimer
      /\ a.sendUpdatesActivated = h.sendUpdatesActivated
      /\ a.listening = h.listening
      /\ a.outstanding = h.outstanding
      /\ a.reports = h.reports
      /\ a.sendingUpdateInProgress = h.sendingUpdateInProgress
      /\ a.sendNextUpdateImmediately = h.sendNextUpdateImmediately
  BY <1>1 DEF Handlers
<1> HIDE DEF a, l
<1>4. /\ Good(g, phase[s], reported[s], version, eventNumber, l)
      /\ g.sendUpdatesActivated = h.sendUpdatesActivated
  BY <1>1, <1>3, GoodTimer
<1> HIDE DEF g
<1>5. QED
  BY <1>2, <1>4, SetHandlerHandlers DEF h, l

LEMMA FloorPassesHandlers ==
  ASSUME State, Goods, NEW s \in Subscriptions, FloorPasses(s)
  PROVE  State' /\ Goods' /\ NoneActivated
<1> DEFINE g == [handler[s] EXCEPT !.floorPassed = TRUE]
<1>1. SetHandler(s, g) /\ g = [handler[s] EXCEPT !.floorPassed = TRUE]
  BY DEF FloorPasses
<1> HIDE DEF g
<1>2. /\ Good(g, phase[s], reported[s], version, eventNumber, s \in lost)
      /\ g.sendUpdatesActivated = handler[s].sendUpdatesActivated
  <2> DEFINE h == handler[s]
             l == s \in lost
  <2>1. /\ Good(h, phase[s], reported[s], version, eventNumber, l)
        /\ phase[s] \in Phases /\ reported[s] \in Reports /\ version \in Versions
        /\ l \in BOOLEAN
        /\ g = [h EXCEPT !.floorPassed = TRUE]
    BY <1>1, OneGood
  <2> HIDE DEF h, l
  <2>2. /\ Good(g, phase[s], reported[s], version, eventNumber, l)
        /\ g.sendUpdatesActivated = h.sendUpdatesActivated
    BY <2>1, GoodFloor
  <2>3. QED
    BY <2>2 DEF h, l
<1>3. QED
  BY <1>1, <1>2, SetHandlerHandlers

LEMMA ReportHangsHandlers ==
  ASSUME State, Goods, NEW s \in Subscriptions, ReportHangs(s)
  PROVE  State' /\ Goods' /\ NoneActivated
<1> DEFINE g == [handler[s] EXCEPT !.reportHangs = TRUE]
<1>1. SetHandler(s, g) /\ g = [handler[s] EXCEPT !.reportHangs = TRUE]
  BY DEF ReportHangs
<1> HIDE DEF g
<1>2. /\ Good(g, phase[s], reported[s], version, eventNumber, s \in lost)
      /\ g.sendUpdatesActivated = handler[s].sendUpdatesActivated
  <2> DEFINE h == handler[s]
             l == s \in lost
  <2>1. /\ Good(h, phase[s], reported[s], version, eventNumber, l)
        /\ phase[s] \in Phases /\ reported[s] \in Reports /\ version \in Versions
        /\ l \in BOOLEAN
        /\ g = [h EXCEPT !.reportHangs = TRUE]
    BY <1>1, OneGood
  <2> HIDE DEF h, l
  <2>2. /\ Good(g, phase[s], reported[s], version, eventNumber, l)
        /\ g.sendUpdatesActivated = h.sendUpdatesActivated
    BY <2>1, GoodHangs
  <2>3. QED
    BY <2>2 DEF h, l
<1>3. QED
  BY <1>1, <1>2, SetHandlerHandlers

LEMMA SendDelayHandlers ==
  ASSUME State, Goods, NEW s \in Subscriptions, SendDelayFires(s)
  PROVE  State' /\ Goods' /\ NoneActivated
<1> DEFINE g == SendUpdate([handler[s] EXCEPT !.sendDelayTimer = FALSE])
<1>1. /\ SetHandler(s, g) /\ handler[s].sendDelayTimer
      /\ g = SendUpdate([handler[s] EXCEPT !.sendDelayTimer = FALSE])
  BY DEF SendDelayFires
<1> HIDE DEF g
<1>2. /\ Good(g, phase[s], reported[s], version, eventNumber, s \in lost)
      /\ g.sendUpdatesActivated = handler[s].sendUpdatesActivated
  <2> DEFINE h == handler[s]
             l == s \in lost
  <2>1. /\ Good(h, phase[s], reported[s], version, eventNumber, l)
        /\ phase[s] \in Phases /\ reported[s] \in Reports /\ version \in Versions
        /\ l \in BOOLEAN
        /\ h.sendDelayTimer
        /\ g = SendUpdate([h EXCEPT !.sendDelayTimer = FALSE])
    BY <1>1, OneGood
  <2> HIDE DEF h, l
  <2>2. /\ Good(g, phase[s], reported[s], version, eventNumber, l)
        /\ g.sendUpdatesActivated = h.sendUpdatesActivated
    BY <2>1, GoodSendDelay
  <2>3. QED
    BY <2>2 DEF h, l
<1>3. QED
  BY <1>1, <1>2, SetHandlerHandlers

\* Only an established handler sends, apart from the initial report.
LEMMA SendingIsDone ==
  ASSUME State, Goods, NEW s \in Subscriptions, Sending(s)
  PROVE  phase[s] = "done"
BY OneGood DEF Sending, Good, Sound, Quiet

\* A step that ends a report of s, with g the handler afterwards and r what the subscriber
\* has acknowledged then.
LEMMA ReportHandlers ==
  ASSUME State, Goods, NEW s \in Subscriptions, NEW g, NEW r \in Reports,
         Good(g, "done", r, version, eventNumber, s \in lost'),
         g.sendUpdatesActivated => handler[s].sendUpdatesActivated,
         phase[s] = "done",
         handler' = [handler EXCEPT ![s] = g],
         phase' = phase,
         reported' = [reported EXCEPT ![s] = r],
         lost' = lost \/ lost' = lost \cup {s},
         version' = version, eventNumber' = eventNumber,
         sessionEnded' = sessionEnded, isClosing' = isClosing, skipped' = skipped, late' = late,
         subscriptionMap' \subseteq subscriptionMap
  PROVE  State' /\ Goods' /\ NoneActivated /\ handler'[s] = g
<1>1. phase' = [phase EXCEPT ![s] = "done"] /\ "done" \in Phases
  BY DEF State, Phases
<1>2. /\ handler' \in [Subscriptions -> Handlers]
      /\ phase' \in [Subscriptions -> Phases]
      /\ reported' \in [Subscriptions -> Reports]
      /\ lost' \subseteq Subscriptions
      /\ Goods'
      /\ handler'[s] = g
      /\ \A t \in Subscriptions \ {s} : handler'[t] = handler[t]
  BY <1>1, OneHandler
<1>3. State'
  BY <1>2 DEF State
<1>4. QED
  BY <1>2, <1>3 DEF NoneActivated

LEMMA ReportSucceedsHandlers ==
  ASSUME State, Goods, NEW s \in Subscriptions, ReportSucceeds(s)
  PROVE  State' /\ Goods' /\ NoneActivated
<1>1. phase[s] = "done"
  BY SendingIsDone DEF ReportSucceeds
<1>2. PICK x \in handler[s].reports :
        /\ handler' = [handler EXCEPT ![s] = SendDone(Answered(handler[s], x))]
        /\ reported' = [reported EXCEPT ![s] = Take(reported[s], x)]
  BY DEF ReportSucceeds
<1> DEFINE h == handler[s]
           a == Answered(h, x)
           g == SendDone(a)
           l == s \in lost
<1>3. /\ h \in Handlers /\ reported[s] \in Reports /\ version \in Versions /\ l \in BOOLEAN
      /\ Good(h, "done", reported[s], version, eventNumber, l)
      /\ x \in h.reports
      /\ handler' = [handler EXCEPT ![s] = g]
  BY <1>1, <1>2, OneGood
<1> HIDE DEF h, l
<1>4. x \in Reports
  BY <1>3, Fields
<1>5. Like(a, h) /\ a.reports = h.reports \ {x}
  BY <1>3, <1>4, AnsweredFields
<1> HIDE DEF a
<1>6. /\ Good(g, "done", Take(reported[s], x), version, eventNumber, l)
      /\ g.sendUpdatesActivated = h.sendUpdatesActivated
  BY <1>3, <1>5, GoodSucceeds
<1>7. Take(reported[s], x) \in Reports
  BY <1>3, <1>4, TakeFields
<1> HIDE DEF g
<1>8. QED
  BY <1>1, <1>2, <1>3, <1>6, <1>7, ReportHandlers, ZenonT(40) DEF ReportSucceeds, h, l

LEMMA CancelledHandlers ==
  ASSUME State, Goods, NEW s \in Subscriptions, CancelledByPeer(s)
  PROVE  State' /\ Goods' /\ NoneActivated /\ ~handler'[s].sendUpdatesActivated
<1>1. phase[s] = "done"
  BY SendingIsDone DEF CancelledByPeer
<1>2. PICK x \in handler[s].reports :
        handler' = [handler EXCEPT ![s] = SendDone(Answered(Cancel(handler[s], FALSE), x))]
  BY DEF CancelledByPeer
<1> DEFINE h == handler[s]
           c == Cancel(h, FALSE)
           a == Answered(c, x)
           g == SendDone(a)
           l == s \in lost
<1>3. /\ h \in Handlers /\ reported[s] \in Reports /\ version \in Versions /\ l \in BOOLEAN
      /\ Good(h, "done", reported[s], version, eventNumber, l)
      /\ x \in h.reports
      /\ c = Cancel(h, FALSE)
      /\ handler' = [handler EXCEPT ![s] = g]
      /\ reported' = [reported EXCEPT ![s] = reported[s]]
  BY <1>1, <1>2, OneGood DEF CancelledByPeer, State
<1> HIDE DEF h, l, c
<1>4. /\ c \in Handlers /\ x \in c.reports
      /\ Good(c, "done", reported[s], version, eventNumber, TRUE) /\ ~c.sendUpdatesActivated
  BY <1>3, CancelFields, GoodCancel
<1>5. Like(a, c) /\ a.reports = c.reports \ {x}
  BY <1>4, AnsweredFields
<1> HIDE DEF a
<1>6. Good(g, "done", reported[s], version, eventNumber, TRUE) /\ ~g.sendUpdatesActivated
  BY <1>3, <1>4, <1>5, GoodCancelled, ZenonT(40)
<1> HIDE DEF g
<1>7. Good(g, "done", reported[s], version, eventNumber, s \in lost')
  BY <1>6 DEF CancelledByPeer
<1>8. State' /\ Goods' /\ NoneActivated /\ handler'[s] = g
  BY <1>1, <1>3, <1>6, <1>7, ReportHandlers DEF CancelledByPeer
<1>9. QED
  BY <1>6, <1>8

\* An error in sendUpdate(), and what it leaves.
LEMMA AfterError ==
  ASSUME NEW h, NEW r \in Reports, NEW v \in Versions, NEW n,
         Good(h, "done", r, v, n, TRUE), h.reports = {},
         NEW g, g = IF h.sendUpdateErrorCounter <= 2
                      THEN SendDone(h)
                      ELSE [h EXCEPT !.sendNextUpdateImmediately = FALSE]
  PROVE  /\ Good(g, "done", r, v, n, TRUE)
         /\ g.sendUpdatesActivated = h.sendUpdatesActivated
<1>1. h \in Handlers
  BY DEF Good, Sound
<1>2. CASE h.sendUpdateErrorCounter <= 2
  BY <1>2, GoodSendDone
<1>3. CASE ~(h.sendUpdateErrorCounter <= 2)
  <2>1. g = [h EXCEPT !.sendNextUpdateImmediately = FALSE]
    BY <1>3
  <2>2. Like(g, h) /\ g.reports = h.reports
    BY <1>1, <2>1 DEF Like, Handlers
  <2>3. QED
    BY <2>2, GoodNoNext DEF Like
<1>4. QED
  BY <1>2, <1>3

LEMMA RejectedHandlers ==
  ASSUME State, Goods, NEW s \in Subscriptions, ReportRejected(s)
  PROVE  State' /\ Goods' /\ NoneActivated /\ ~handler'[s].sendUpdatesActivated
<1>1. phase[s] = "done"
  BY SendingIsDone DEF ReportRejected
<1>2. PICK x \in handler[s].reports :
        LET h == Cancel(Failed(s, x), FALSE)
        IN  handler' = [handler EXCEPT ![s] =
              IF h.sendUpdateErrorCounter <= 2
                THEN SendDone(h)
                ELSE [h EXCEPT !.sendNextUpdateImmediately = FALSE]]
  BY DEF ReportRejected
<1> DEFINE e == Failed(s, x)
           h == Cancel(e, FALSE)
           g == IF h.sendUpdateErrorCounter <= 2
                  THEN SendDone(h)
                  ELSE [h EXCEPT !.sendNextUpdateImmediately = FALSE]
<1>3. /\ reported[s] \in Reports /\ version \in Versions
      /\ Good(handler[s], "done", reported[s], version, eventNumber, s \in lost)
      /\ h = Cancel(e, FALSE)
      /\ g = IF h.sendUpdateErrorCounter <= 2
               THEN SendDone(h)
               ELSE [h EXCEPT !.sendNextUpdateImmediately = FALSE]
      /\ handler' = [handler EXCEPT ![s] = g]
      /\ reported' = [reported EXCEPT ![s] = reported[s]]
  BY <1>1, <1>2, OneGood DEF ReportRejected, State
<1>4. Good(e, "done", reported[s], version, eventNumber, TRUE) /\ e.reports = {}
  BY <1>3, OneGood, GoodFailed
<1> HIDE DEF e, h, g
<1>5. Good(h, "done", reported[s], version, eventNumber, TRUE) /\ ~h.sendUpdatesActivated
  BY <1>3, <1>4, GoodCancel
<1>6. h.reports = {}
  BY <1>3, <1>4, CancelFields DEF Good, Sound
<1>7. /\ Good(g, "done", reported[s], version, eventNumber, TRUE)
      /\ g.sendUpdatesActivated = h.sendUpdatesActivated
  BY <1>3, <1>5, <1>6, AfterError
<1>8. Good(g, "done", reported[s], version, eventNumber, s \in lost')
  BY <1>7 DEF ReportRejected
<1>9. ~g.sendUpdatesActivated
  BY <1>5, <1>7
<1>10. /\ phase' = phase /\ lost' = lost \cup {s}
       /\ version' = version /\ eventNumber' = eventNumber
       /\ sessionEnded' = sessionEnded /\ isClosing' = isClosing
       /\ skipped' = skipped /\ late' = late
       /\ subscriptionMap' \subseteq subscriptionMap
  BY DEF ReportRejected
<1>11. State' /\ Goods' /\ NoneActivated /\ handler'[s] = g
  BY <1>1, <1>3, <1>8, <1>9, <1>10, ReportHandlers
<1>12. QED
  BY <1>9, <1>11

LEMMA ReportFailsHandlers ==
  ASSUME State, Goods, NEW s \in Subscriptions, ReportFails(s)
  PROVE  State' /\ Goods' /\ NoneActivated
<1>1. phase[s] = "done"
  BY SendingIsDone DEF ReportFails
<1>2. PICK x \in handler[s].reports :
        LET h == Failed(s, x)
        IN  handler' = [handler EXCEPT ![s] =
              IF h.sendUpdateErrorCounter <= 2
                THEN SendDone(h)
                ELSE [h EXCEPT !.sendNextUpdateImmediately = FALSE]]
  BY DEF ReportFails
<1> DEFINE h == Failed(s, x)
           g == IF h.sendUpdateErrorCounter <= 2
                  THEN SendDone(h)
                  ELSE [h EXCEPT !.sendNextUpdateImmediately = FALSE]
<1>3. /\ reported[s] \in Reports /\ version \in Versions
      /\ Good(handler[s], "done", reported[s], version, eventNumber, s \in lost)
      /\ g = IF h.sendUpdateErrorCounter <= 2
               THEN SendDone(h)
               ELSE [h EXCEPT !.sendNextUpdateImmediately = FALSE]
      /\ handler' = [handler EXCEPT ![s] = g]
      /\ reported' = [reported EXCEPT ![s] = reported[s]]
  BY <1>1, <1>2, OneGood DEF ReportFails, State
<1> HIDE DEF g
<1>4. /\ Good(h, "done", reported[s], version, eventNumber, TRUE) /\ h.reports = {}
      /\ h.sendUpdatesActivated = handler[s].sendUpdatesActivated
  <2>1. Good(h, "done", reported[s], version, eventNumber, TRUE) /\ h.reports = {}
    BY <1>3, OneGood, GoodFailed
  <2>2. h.sendUpdatesActivated = handler[s].sendUpdatesActivated
    BY OneGood DEF Failed, Handlers
  <2>3. QED
    BY <2>1, <2>2
<1> HIDE DEF h
<1>5. /\ Good(g, "done", reported[s], version, eventNumber, TRUE)
      /\ g.sendUpdatesActivated = h.sendUpdatesActivated
  BY <1>3, <1>4, AfterError
<1>6. Good(g, "done", reported[s], version, eventNumber, s \in lost')
  BY <1>5 DEF ReportFails
<1>7. g.sendUpdatesActivated => handler[s].sendUpdatesActivated
  BY <1>4, <1>5
<1>8. QED
  BY <1>1, <1>3, <1>6, <1>7, ReportHandlers DEF ReportFails

-----------------------------------------------------------------------------
(* The actions that change many handlers *)

LEMMA ChangeHandlers ==
  ASSUME State, Goods, Change
  PROVE  State' /\ Goods' /\ NoneActivated
<1>1. version + 1 \in Versions /\ version' = version + 1
  BY SubscriptionAssumption DEF Change, State, Versions
<1>2. ASSUME NEW s \in Subscriptions
      PROVE  /\ Good(handler'[s], phase[s], reported[s], version + 1, eventNumber, s \in lost)
             /\ handler'[s].sendUpdatesActivated = handler[s].sendUpdatesActivated
  <2> DEFINE l == s \in lost
  <2>1. /\ Good(handler[s], phase[s], reported[s], version, eventNumber, l)
        /\ phase[s] \in Phases /\ reported[s] \in Reports /\ version \in Versions /\ l \in BOOLEAN
    BY OneGood
  <2> HIDE DEF l
  <2>2. /\ Good(AttributeChanged(handler[s], version + 1), phase[s], reported[s], version + 1,
                eventNumber, l)
        /\ AttributeChanged(handler[s], version + 1).sendUpdatesActivated =
             handler[s].sendUpdatesActivated
    BY <1>1, <2>1, GoodChange
  <2>3. handler'[s] = AttributeChanged(handler[s], version + 1)
    BY DEF Change
  <2>4. QED
    BY <2>2, <2>3 DEF l
<1>3. handler' \in [Subscriptions -> Handlers]
  <2>1. handler' = [s \in Subscriptions |-> handler'[s]]
    BY DEF Change
  <2>2. \A s \in Subscriptions : handler'[s] \in Handlers
    BY <1>2 DEF Good, Sound
  <2>3. QED
    BY <2>1, <2>2
<1>4. State'
  BY <1>1, <1>3 DEF Change, State
<1>5. Goods'
  BY <1>1, <1>2 DEF Goods, Change
<1>6. QED
  BY <1>2, <1>4, <1>5 DEF NoneActivated

LEMMA EventHandlers ==
  ASSUME State, Goods, Event
  PROVE  State' /\ Goods' /\ NoneActivated
<1>1. /\ eventNumber \in Nat /\ eventNumber + 1 \in Events /\ eventNumber' = eventNumber + 1
      /\ eventNumber' \in 0 .. MaxEvents
  BY SubscriptionAssumption DEF Event, State, Events
<1>2. ASSUME NEW s \in Subscriptions
      PROVE  /\ Good(handler'[s], phase[s], reported[s], version, eventNumber + 1, s \in lost)
             /\ handler'[s].sendUpdatesActivated = handler[s].sendUpdatesActivated
  <2> DEFINE l == s \in lost
             u == s \in Urgent
  <2>1. /\ Good(handler[s], phase[s], reported[s], version, eventNumber, l)
        /\ phase[s] \in Phases /\ reported[s] \in Reports /\ version \in Versions
        /\ l \in BOOLEAN /\ u \in BOOLEAN
    BY OneGood
  <2>2. handler'[s] = EventOccurred(handler[s], eventNumber + 1, u)
    BY DEF Event
  <2> HIDE DEF l, u
  <2>3. /\ Good(EventOccurred(handler[s], eventNumber + 1, u), phase[s], reported[s], version,
                eventNumber + 1, l)
        /\ EventOccurred(handler[s], eventNumber + 1, u).sendUpdatesActivated =
             handler[s].sendUpdatesActivated
    BY <1>1, <2>1, GoodEvent
  <2>4. QED
    BY <2>2, <2>3 DEF l
<1>3. handler' \in [Subscriptions -> Handlers]
  <2>1. handler' = [s \in Subscriptions |-> handler'[s]]
    BY DEF Event
  <2>2. \A s \in Subscriptions : handler'[s] \in Handlers
    BY <1>2 DEF Good, Sound
  <2>3. QED
    BY <2>1, <2>2
<1>4. State'
  BY <1>1, <1>3 DEF Event, State
<1>5. Goods'
  BY <1>1, <1>2 DEF Goods, Event
<1>6. QED
  BY <1>2, <1>4, <1>5 DEF NoneActivated

LEMMA StructureHandlers ==
  ASSUME State, Goods, \A s \in subscriptionMap : phase[s] = "done", StructureChange
  PROVE  State' /\ Goods' /\ NoneActivated
<1>1. ASSUME NEW s \in Subscriptions
      PROVE  /\ Good(handler'[s], phase[s], reported[s], version, eventNumber, s \in lost)
             /\ handler'[s].sendUpdatesActivated = handler[s].sendUpdatesActivated
  <2>1. /\ Good(handler[s], phase[s], reported[s], version, eventNumber, s \in lost)
        /\ phase[s] \in Phases /\ reported[s] \in Reports /\ version \in Versions
        /\ (s \in lost) \in BOOLEAN
    BY OneGood
  <2>2. CASE s \notin subscriptionMap
    BY <2>1, <2>2 DEF StructureChange
  <2>3. CASE s \in subscriptionMap
    <3> DEFINE h == handler[s]
               l == s \in lost
               g == handler'[s]
    <3>1. g = PrepareDataUpdate([h EXCEPT !.outstanding.attribute = version]) /\ phase[s] # "none"
      BY <2>3 DEF StructureChange
    <3>2. version <= version
      BY <2>1, SubscriptionAssumption DEF Versions
    <3>3. Good(h, phase[s], reported[s], version, eventNumber, l) /\ l \in BOOLEAN
      BY <2>1
    <3> HIDE DEF h, l, g
    <3>4. Good(g, phase[s], reported[s], version, eventNumber, l) /\ g.sendUpdatesActivated = h.sendUpdatesActivated
      BY <2>1, <3>1, <3>2, <3>3, GoodAttribute
    <3>5. QED
      BY <3>4 DEF h, l, g
  <2>4. QED
    BY <2>2, <2>3
<1>2. handler' \in [Subscriptions -> Handlers]
  <2>1. handler' = [s \in Subscriptions |-> handler'[s]]
    BY DEF StructureChange
  <2>2. \A s \in Subscriptions : handler'[s] \in Handlers
    BY <1>1 DEF Good, Sound
  <2>3. QED
    BY <2>1, <2>2
<1>3. State'
  BY <1>2 DEF StructureChange, State
<1>4. Goods'
  BY <1>1 DEF Goods, StructureChange
<1>5. QED
  BY <1>1, <1>3, <1>4 DEF NoneActivated

\* Handlers that are cancelled.
LEMMA CancelAllGood ==
  ASSUME State, Goods, NEW gone \in SUBSET Subscriptions, NEW flush \in BOOLEAN,
         \A s \in gone : phase[s] = "done"
  PROVE  /\ CancelAll(gone, flush) \in [Subscriptions -> Handlers]
         /\ \A s \in Subscriptions :
              /\ Good(CancelAll(gone, flush)[s], phase[s], reported[s], version, eventNumber, s \in lost)
              /\ CancelAll(gone, flush)[s].sendUpdatesActivated =>
                   handler[s].sendUpdatesActivated /\ s \notin gone
              /\ s \notin gone => CancelAll(gone, flush)[s] = handler[s]
<1> DEFINE c == CancelAll(gone, flush)
<1>1. ASSUME NEW s \in Subscriptions
      PROVE  /\ Good(c[s], phase[s], reported[s], version, eventNumber, s \in lost)
             /\ c[s].sendUpdatesActivated => handler[s].sendUpdatesActivated /\ s \notin gone
             /\ s \notin gone => c[s] = handler[s]
  <2> DEFINE l == s \in lost
  <2>1. /\ Good(handler[s], phase[s], reported[s], version, eventNumber, l)
        /\ reported[s] \in Reports /\ version \in Versions /\ l \in BOOLEAN
    BY OneGood
  <2>2. CASE s \in gone
    <3> HIDE DEF l
    <3>1. /\ Good(Cancel(handler[s], flush), phase[s], reported[s], version, eventNumber, l)
          /\ ~Cancel(handler[s], flush).sendUpdatesActivated
      BY <2>1, <2>2, GoodCancel, ZenonT(40)
    <3>2. c[s] = Cancel(handler[s], flush)
      BY <2>2 DEF CancelAll
    <3>3. QED
      BY <2>2, <3>1, <3>2 DEF l
  <2>3. CASE s \notin gone
    <3>1. c[s] = handler[s]
      BY <2>3 DEF CancelAll
    <3>2. QED
      BY <2>1, <2>3, <3>1
  <2>4. QED
    BY <2>2, <2>3
<1>2. c = [s \in Subscriptions |-> c[s]]
  BY DEF CancelAll
<1>3. \A s \in Subscriptions : c[s] \in Handlers
  BY <1>1 DEF Good, Sound
<1> HIDE DEF c
<1>4. c \in [Subscriptions -> Handlers]
  BY <1>2, <1>3
<1>5. QED
  BY <1>1, <1>4 DEF c

\* clearSubscriptions() meets a handler of the list or passes over it.
LEMMA ClearedOrPassed ==
  ASSUME State, Listed
  PROVE  /\ Cleared \in SUBSET Subscriptions
         /\ Passed \in SUBSET Subscriptions
         /\ \A t \in Cleared : phase[t] = "done"
         /\ \A i \in 1 .. Len(subscriptions) :
              subscriptions[i] \in Cleared \/ subscriptions[i] \in Passed
<1>1. DOMAIN subscriptions = 1 .. Len(subscriptions) /\ Len(subscriptions) \in Nat
  BY DEF Listed
<1>2. \A i \in 1 .. Len(subscriptions) : subscriptions[i] \in Subscriptions /\ phase[subscriptions[i]] = "done"
  BY DEF Listed
<1>3. \A i \in 1 .. Len(subscriptions) : i % 2 = 0 \/ i % 2 = 1
  BY <1>1
<1>4. QED
  BY <1>1, <1>2, <1>3 DEF Cleared, Passed

LEMMA SessionEndsHandlers ==
  ASSUME State, Goods, Listed, NEW flush \in BOOLEAN, SessionEnds(flush)
  PROVE  /\ State' /\ Goods' /\ NoneActivated
         /\ \A t \in Cleared : ~handler'[t].sendUpdatesActivated
<1>1. /\ Cleared \in SUBSET Subscriptions /\ Passed \in SUBSET Subscriptions
      /\ \A t \in Cleared : phase[t] = "done"
  BY ClearedOrPassed
<1>2. /\ handler' \in [Subscriptions -> Handlers]
      /\ \A s \in Subscriptions :
           /\ Good(handler'[s], phase[s], reported[s], version, eventNumber, s \in lost)
           /\ handler'[s].sendUpdatesActivated => handler[s].sendUpdatesActivated /\ s \notin Cleared
  BY <1>1, CancelAllGood DEF SessionEnds
<1>3. Goods'
  BY <1>2 DEF Goods, SessionEnds
<1>4. State'
  BY <1>1, <1>2 DEF State, SessionEnds, EndSession, ClearLists, Settling
<1>5. QED
  BY <1>1, <1>2, <1>3, <1>4 DEF NoneActivated

LEMMA ServerClosesHandlers ==
  ASSUME State, Goods, Listed, ServerCloses
  PROVE  /\ State' /\ Goods' /\ NoneActivated
         /\ \A t \in subscriptionMap : ~handler'[t].sendUpdatesActivated
<1>1. subscriptionMap \in SUBSET Subscriptions /\ \A t \in subscriptionMap : phase[t] = "done"
  BY DEF State, Listed
<1>2. /\ handler' \in [Subscriptions -> Handlers]
      /\ \A s \in Subscriptions :
           /\ Good(handler'[s], phase[s], reported[s], version, eventNumber, s \in lost)
           /\ handler'[s].sendUpdatesActivated => handler[s].sendUpdatesActivated /\ s \notin subscriptionMap
  BY <1>1, CancelAllGood DEF ServerCloses
<1>3. Goods'
  BY <1>2 DEF Goods, ServerCloses
<1>4. State'
  BY <1>1, <1>2 DEF State, ServerCloses, Settling
<1>5. QED
  BY <1>1, <1>2, <1>3, <1>4 DEF NoneActivated

\* The other handlers are kept or cleared, and s has its initial report acknowledged.
LEMMA PrimedHandlers ==
  ASSUME State, Goods, Listed, NEW s \in Subscriptions, NEW keep \in BOOLEAN, Primed(s, keep)
  PROVE  /\ State' /\ Goods' /\ NoneActivated
         /\ ~keep => \A t \in Cleared : ~handler'[t].sendUpdatesActivated
<1> DEFINE gone == IF keep THEN {} ELSE Cleared
           c == IF keep THEN handler ELSE CancelAll(Cleared, TRUE)
<1>1. /\ Cleared \in SUBSET Subscriptions /\ Passed \in SUBSET Subscriptions
      /\ \A t \in Cleared : phase[t] = "done"
      /\ phase[s] = "priming" /\ s \notin Cleared
  BY ClearedOrPassed DEF Primed
<1>2. /\ c \in [Subscriptions -> Handlers]
      /\ \A t \in Subscriptions :
           /\ Good(c[t], phase[t], reported[t], version, eventNumber, t \in lost)
           /\ c[t].sendUpdatesActivated => handler[t].sendUpdatesActivated /\ t \notin gone
           /\ t \notin gone => c[t] = handler[t]
  <2>1. CASE keep
    BY <2>1, OneGood DEF State
  <2>2. CASE ~keep
    BY <1>1, <2>2, CancelAllGood
  <2>3. QED
    BY <2>1, <2>2
<1>3. handler' = [c EXCEPT ![s].reports = {}]
  BY DEF Primed
<1>4. PICK x \in handler[s].reports : reported' = [reported EXCEPT ![s] = Take(@, x)]
  BY DEF Primed
<1>5. c[s] = handler[s] /\ gone \in SUBSET Cleared /\ (~keep => gone = Cleared)
  BY <1>1, <1>2
<1> HIDE DEF c, gone
<1> DEFINE h == handler[s]
           g == handler'[s]
           l == s \in lost
           r == Take(reported[s], x)
<1>6. g = [h EXCEPT !.reports = {}]
  BY <1>2, <1>3, <1>5
<1>7. /\ Good(h, "priming", reported[s], version, eventNumber, l) /\ l \in BOOLEAN
      /\ reported[s] \in Reports /\ version \in Versions /\ h \in Handlers /\ x \in h.reports
  BY <1>1, <1>4, OneGood
<1>8. r \in Reports
  BY <1>7, TakeFields, Fields
<1> HIDE DEF h, g, l
<1>9. Like(g, h) /\ g.reports = {} /\ g.sendNextUpdateImmediately = h.sendNextUpdateImmediately
  BY <1>6, <1>7 DEF Like, Handlers
<1>10. Good(g, "responding", r, version, eventNumber, l)
  BY <1>7, <1>9, GoodPrimed
<1> HIDE DEF r
<1>11. /\ reported' = [reported EXCEPT ![s] = r]
       /\ phase' = [phase EXCEPT ![s] = "responding"]
  BY <1>4 DEF Primed, r
<1>12. /\ handler' \in [Subscriptions -> Handlers]
       /\ \A t \in Subscriptions \ {s} : handler'[t] = c[t]
  <2>1. g \in Handlers
    BY <1>9 DEF Like
  <2>2. handler' = [c EXCEPT ![s] = g]
    BY <1>2, <1>3, <1>5, <1>6 DEF h
  <2>3. QED
    BY <1>2, <2>1, <2>2
<1>13. /\ phase' \in [Subscriptions -> Phases] /\ reported' \in [Subscriptions -> Reports]
       /\ phase'[s] = "responding" /\ reported'[s] = r
       /\ \A t \in Subscriptions \ {s} : phase'[t] = phase[t] /\ reported'[t] = reported[t]
  BY <1>8, <1>11 DEF State, Phases
<1>14. UNCHANGED <<version, eventNumber, lost, late, sessionEnded, isClosing>>
  BY DEF Primed
<1>15. Goods'
  <2>1. ASSUME NEW t \in Subscriptions
        PROVE  Good(handler'[t], phase'[t], reported'[t], version, eventNumber, t \in lost)
    <3>1. CASE t = s
      BY <1>10, <1>13, <3>1 DEF g, l
    <3>2. CASE t # s
      BY <1>2, <1>12, <1>13, <3>2
    <3>3. QED
      BY <3>1, <3>2
  <2>2. QED
    BY <1>14, <2>1 DEF Goods
<1>16. State'
  <2>1. subscriptionMap' \subseteq Subscriptions /\ skipped' \subseteq Subscriptions
    BY <1>1 DEF State, Primed, ClearLists
  <2>2. QED
    BY <1>12, <1>13, <1>14, <2>1 DEF State
<1>17. h.sendUpdatesActivated = g.sendUpdatesActivated
  BY <1>9 DEF Like
<1>18. NoneActivated
  <2>1. ASSUME NEW t \in Subscriptions, handler'[t].sendUpdatesActivated
        PROVE  handler[t].sendUpdatesActivated
    <3>1. CASE t = s
      BY <1>17, <2>1, <3>1 DEF h, g
    <3>2. CASE t # s
      BY <1>2, <1>12, <2>1, <3>2
    <3>3. QED
      BY <3>1, <3>2
  <2>2. QED
    BY <2>1 DEF NoneActivated
<1>19. ASSUME ~keep, NEW t \in Cleared
       PROVE  ~handler'[t].sendUpdatesActivated
  BY <1>1, <1>2, <1>5, <1>12, <1>19
<1>20. QED
  BY <1>15, <1>16, <1>18, <1>19

LEMMA NetworkFailsHandlers ==
  ASSUME State, Goods, Listed, NEW s \in Subscriptions, NetworkFails(s)
  PROVE  /\ State' /\ Goods' /\ NoneActivated
         /\ \A t \in Cleared : ~handler'[t].sendUpdatesActivated
<1> DEFINE c == CancelAll(Cleared, FALSE)
<1>1. /\ Cleared \in SUBSET Subscriptions /\ Passed \in SUBSET Subscriptions
      /\ \A t \in Cleared : phase[t] = "done"
      /\ phase[s] = "done"
  BY ClearedOrPassed, SendingIsDone DEF NetworkFails
<1>2. /\ c \in [Subscriptions -> Handlers]
      /\ \A t \in Subscriptions :
           /\ Good(c[t], phase[t], reported[t], version, eventNumber, t \in lost)
           /\ c[t].sendUpdatesActivated => handler[t].sendUpdatesActivated /\ t \notin Cleared
  BY <1>1, CancelAllGood
<1>3. PICK x \in handler[s].reports :
        handler' = [c EXCEPT ![s] =
          SendDone([(IF s \in Cleared THEN Cancel(Failed(s, x), FALSE) ELSE Failed(s, x))
                     EXCEPT !.sendNextUpdateImmediately = FALSE])]
  BY DEF NetworkFails
<1> HIDE DEF c
<1> DEFINE e == Failed(s, x)
           f == IF s \in Cleared THEN Cancel(e, FALSE) ELSE e
           a == [f EXCEPT !.sendNextUpdateImmediately = FALSE]
           g == SendDone(a)
<1>4. handler' = [c EXCEPT ![s] = g]
  BY <1>3
<1>5. /\ reported[s] \in Reports /\ version \in Versions
      /\ Good(handler[s], "done", reported[s], version, eventNumber, s \in lost)
  BY <1>1, OneGood
<1>6. Good(e, "done", reported[s], version, eventNumber, TRUE) /\ e.reports = {}
  BY <1>5, OneGood, GoodFailed
<1>7. e.sendUpdatesActivated = handler[s].sendUpdatesActivated
  BY OneGood DEF Failed, Handlers
<1>8. e \in Handlers
  BY <1>6 DEF Good, Sound
<1> HIDE DEF e
<1>9. /\ Good(f, "done", reported[s], version, eventNumber, TRUE) /\ f.reports = {}
      /\ f.sendUpdatesActivated => handler[s].sendUpdatesActivated /\ s \notin Cleared
  <2>1. CASE s \in Cleared
    <3>1. f = Cancel(e, FALSE)
      BY <2>1
    <3> HIDE DEF f
    <3>2. Good(f, "done", reported[s], version, eventNumber, TRUE) /\ ~f.sendUpdatesActivated
      BY <1>5, <1>6, <3>1, GoodCancel
    <3>3. f.reports = {}
      BY <1>6, <1>8, <3>1, CancelFields
    <3>4. QED
      BY <3>2, <3>3
  <2>2. CASE s \notin Cleared
    BY <1>6, <1>7, <2>2
  <2>3. QED
    BY <2>1, <2>2
<1> HIDE DEF f
<1>10. f \in Handlers
  BY <1>9 DEF Good, Sound
<1>11. Like(a, f) /\ a.reports = f.reports
  BY <1>10 DEF Like, Handlers
<1> HIDE DEF a
<1>12. Good(a, "done", reported[s], version, eventNumber, TRUE)
  BY <1>5, <1>9, <1>11, GoodNoNext
<1>13. /\ Good(g, "done", reported[s], version, eventNumber, TRUE)
       /\ g.sendUpdatesActivated = a.sendUpdatesActivated
  BY <1>5, <1>9, <1>11, <1>12, GoodSendDone
<1> HIDE DEF g
<1>14. g.sendUpdatesActivated => handler[s].sendUpdatesActivated /\ s \notin Cleared
  BY <1>9, <1>11, <1>13 DEF Like
<1>15. /\ handler' \in [Subscriptions -> Handlers]
       /\ handler'[s] = g
       /\ \A t \in Subscriptions \ {s} : handler'[t] = c[t]
  <2>1. g \in Handlers
    BY <1>13 DEF Good, Sound
  <2>2. QED
    BY <1>2, <1>4, <2>1
<1>16. /\ UNCHANGED <<phase, reported, version, eventNumber, isClosing>>
       /\ lost' = lost \cup {s} /\ sessionEnded' = TRUE
       /\ subscriptionMap' = subscriptionMap \ Cleared /\ skipped' = skipped \cup Passed
       /\ late' = late \cup Settling
  BY DEF NetworkFails, EndSession, ClearLists
<1>17. Goods'
  <2>1. ASSUME NEW t \in Subscriptions
        PROVE  Good(handler'[t], phase[t], reported[t], version, eventNumber, t \in lost')
    <3>1. CASE t = s
      BY <1>1, <1>13, <1>15, <1>16, <3>1
    <3>2. CASE t # s
      <4>1. (t \in lost') <=> (t \in lost)
        BY <1>16, <3>2
      <4>2. Good(handler'[t], phase[t], reported[t], version, eventNumber, t \in lost)
        BY <1>2, <1>15, <3>2
      <4>3. QED
        BY <4>1, <4>2 DEF Good
    <3>3. QED
      BY <3>1, <3>2
  <2>2. QED
    BY <1>16, <2>1 DEF Goods
<1>18. State'
  BY <1>1, <1>15, <1>16 DEF State, Settling
<1>19. ASSUME NEW t \in Subscriptions, handler'[t].sendUpdatesActivated
       PROVE  handler[t].sendUpdatesActivated /\ t \notin Cleared
  <2>1. CASE t = s
    BY <1>14, <1>15, <1>19, <2>1
  <2>2. CASE t # s
    BY <1>2, <1>15, <1>19, <2>2
  <2>3. QED
    BY <2>1, <2>2
<1>20. QED
  BY <1>1, <1>17, <1>18, <1>19 DEF NoneActivated

-----------------------------------------------------------------------------
(* The lists *)

\* removeSubscription() takes out s and nothing else.
LEMMA Removed ==
  ASSUME NEW list \in Seq(Subscriptions), NEW s,
         \A i, j \in 1 .. Len(list) : list[i] = list[j] => i = j
  PROVE  LET new == RemoveSubscription(list, s)
         IN  /\ new \in Seq(Subscriptions)
             /\ \A i \in 1 .. Len(new) : new[i] # s /\ \E j \in 1 .. Len(list) : new[i] = list[j]
             /\ \A i, j \in 1 .. Len(new) : new[i] = new[j] => i = j
             /\ \A j \in 1 .. Len(list) : list[j] # s => \E i \in 1 .. Len(new) : new[i] = list[j]
<1> DEFINE new == RemoveSubscription(list, s)
<1>1. DOMAIN list = 1 .. Len(list) /\ Len(list) \in Nat /\ \A i \in 1 .. Len(list) : list[i] \in Subscriptions
  OBVIOUS
<1>2. CASE ~\E i \in DOMAIN list : list[i] = s
  <2>1. new = list
    BY <1>2 DEF RemoveSubscription
  <2>2. QED
    BY <1>1, <1>2, <2>1
<1>3. CASE \E i \in DOMAIN list : list[i] = s
  <2> DEFINE k == CHOOSE i \in DOMAIN list : list[i] = s
             m == Len(list) - 1
  <2>1. k \in 1 .. Len(list) /\ list[k] = s
    BY <1>1, <1>3
  <2>2. new = [j \in 1 .. m |-> IF j < k THEN list[j] ELSE list[j + 1]]
    BY <1>3 DEF RemoveSubscription
  <2> HIDE DEF k, new
  <2>3. m \in Nat
    BY <1>1, <2>1
  <2>4. ASSUME NEW j \in 1 .. m
        PROVE  /\ j \in 1 .. Len(list) /\ j + 1 \in 1 .. Len(list)
               /\ new[j] = IF j < k THEN list[j] ELSE list[j + 1]
               /\ new[j] \in Subscriptions
    BY <1>1, <2>1, <2>2, <2>3
  <2>5. Len(new) = m /\ new \in Seq(Subscriptions)
    <3>1. \A j \in 1 .. m : new[j] \in Subscriptions
      BY <2>4
    <3> HIDE DEF m
    <3>2. new \in [1 .. m -> Subscriptions]
      BY <2>2, <3>1
    <3>3. QED
      BY <2>3, <3>2, LenProperties, SeqDef
  <2>6. ASSUME NEW i \in 1 .. m
        PROVE  new[i] # s /\ \E j \in 1 .. Len(list) : new[i] = list[j]
    <3>1. PICK j \in 1 .. Len(list) : new[i] = list[j] /\ j # k
      <4>1. i \in Int /\ k \in Int
        BY <1>1, <2>1, <2>3
      <4>2. CASE i < k
        <5>1. i \in 1 .. Len(list) /\ new[i] = list[i]
          BY <2>4, <4>2
        <5>2. i # k
          BY <4>1, <4>2
        <5>3. QED
          BY <5>1, <5>2
      <4>3. CASE ~(i < k)
        <5>1. i + 1 \in 1 .. Len(list) /\ new[i] = list[i + 1]
          BY <2>4, <4>3
        <5>2. i + 1 # k
          BY <4>1, <4>3
        <5>3. QED
          BY <5>1, <5>2
      <4>4. QED
        BY <4>2, <4>3
    <3>2. QED
      BY <1>1, <2>1, <3>1
  <2>7. ASSUME NEW i \in 1 .. m, NEW j \in 1 .. m, new[i] = new[j]
        PROVE  i = j
    BY <1>1, <2>1, <2>4, <2>7
  <2>8. ASSUME NEW j \in 1 .. Len(list), list[j] # s
        PROVE  \E i \in 1 .. m : new[i] = list[j]
    <3>1. CASE j < k
      <4>1. j \in 1 .. m
        BY <1>1, <2>1, <3>1
      <4>2. QED
        BY <2>4, <3>1, <4>1
    <3>2. CASE ~(j < k)
      <4>1. j - 1 \in 1 .. m /\ ~(j - 1 < k) /\ (j - 1) + 1 = j
        BY <1>1, <2>1, <2>8, <3>2
      <4>2. QED
        BY <2>4, <4>1
    <3>3. QED
      BY <3>1, <3>2
  <2>9. QED
    BY <2>5, <2>6, <2>7, <2>8 DEF new
<1>4. QED
  BY <1>2, <1>3

\* Steps that leave the lists alone, and establish nothing.
LEMMA ListedKept ==
  ASSUME Listed, State', NoneActivated,
         subscriptions' = subscriptions, subscriptionMap' = subscriptionMap,
         skipped' = skipped, late' = late, State,
         \A t \in Subscriptions : phase[t] = "done" => phase'[t] = "done"
  PROVE  Listed'
<1>1. \A i \in 1 .. Len(subscriptions) : subscriptions[i] \in Subscriptions
  BY DEF Listed
<1>2. QED
  BY <1>1 DEF Listed, NoneActivated, State

\* The lists are cleared: a handler that is still active was passed over.
LEMMA ListedCleared ==
  ASSUME State, Listed, NoneActivated,
         subscriptions' = <<>>, subscriptionMap' \subseteq subscriptionMap,
         skipped' = skipped \cup Passed, late \subseteq late',
         \A t \in Subscriptions : phase[t] = "done" => phase'[t] = "done",
         \A t \in Cleared : ~handler'[t].sendUpdatesActivated
  PROVE  Listed'
<1>1. subscriptions' \in Seq(Subscriptions) /\ Len(subscriptions') = 0
  OBVIOUS
<1>2. \A t \in subscriptionMap' : phase'[t] = "done"
  BY DEF Listed, State
<1>3. ASSUME NEW t \in Subscriptions, handler'[t].sendUpdatesActivated, t \notin skipped' \cup late'
      PROVE  FALSE
  <2>1. handler[t].sendUpdatesActivated /\ t \notin skipped \cup late
    BY <1>3 DEF NoneActivated
  <2>2. PICK i \in 1 .. Len(subscriptions) : subscriptions[i] = t
    BY <2>1 DEF Listed
  <2>3. t \in Cleared \/ t \in Passed
    BY <2>2, ClearedOrPassed
  <2>4. QED
    BY <1>3, <2>3
<1>4. QED
  BY <1>1, <1>2, <1>3 DEF Listed

\* s is taken from the lists, and sends no more.
LEMMA ListedRemoved ==
  ASSUME State, Listed, NoneActivated, NEW s \in Subscriptions,
         subscriptions' = RemoveSubscription(subscriptions, s),
         subscriptionMap' = subscriptionMap \ {s},
         skipped' = skipped, late' = late, phase' = phase,
         ~handler'[s].sendUpdatesActivated
  PROVE  Listed'
<1> DEFINE new == subscriptions'
<1>1. /\ new \in Seq(Subscriptions)
      /\ \A i \in 1 .. Len(new) : new[i] # s /\ \E j \in 1 .. Len(subscriptions) : new[i] = subscriptions[j]
      /\ \A i, j \in 1 .. Len(new) : new[i] = new[j] => i = j
      /\ \A j \in 1 .. Len(subscriptions) :
           subscriptions[j] # s => \E i \in 1 .. Len(new) : new[i] = subscriptions[j]
  BY Removed, SMTT(30) DEF Listed
<1>2. \A i \in 1 .. Len(new) : new[i] \in subscriptionMap' /\ phase'[new[i]] = "done"
  BY <1>1 DEF Listed
<1>3. ASSUME NEW t \in Subscriptions, handler'[t].sendUpdatesActivated, t \notin skipped' \cup late'
      PROVE  t \in subscriptionMap' /\ \E i \in 1 .. Len(new) : new[i] = t
  <2>1. t # s /\ handler[t].sendUpdatesActivated /\ t \notin skipped \cup late
    BY <1>3 DEF NoneActivated
  <2>2. t \in subscriptionMap /\ \E j \in 1 .. Len(subscriptions) : subscriptions[j] = t
    BY <2>1 DEF Listed
  <2>3. QED
    BY <1>1, <2>1, <2>2, SMTT(30)
<1>4. \A t \in subscriptionMap' : phase'[t] = "done"
  BY DEF Listed
<1>5. QED
  BY <1>1, <1>2, <1>3, <1>4 DEF Listed

\* s enters the lists.
LEMMA ListedEstablish ==
  ASSUME State, Listed, NEW s \in Subscriptions, Establish(s), State',
         \A t \in Subscriptions \ {s} : handler'[t] = handler[t]
  PROVE  Listed'
<1> DEFINE n == Len(subscriptions)
           new == subscriptions'
<1>1. /\ subscriptions \in Seq(Subscriptions) /\ n \in Nat
      /\ new = Append(subscriptions, s)
      /\ subscriptionMap' = subscriptionMap \cup {s}
      /\ phase[s] = "responding" /\ phase'[s] = "done"
      /\ \A t \in Subscriptions \ {s} : phase'[t] = phase[t]
      /\ skipped' = skipped /\ late' = late
  BY DEF Establish, Listed, State
<1>2. /\ new \in Seq(Subscriptions) /\ Len(new) = n + 1 /\ new[n + 1] = s
      /\ \A i \in 1 .. n : new[i] = subscriptions[i]
  BY <1>1
<1>3. \A i \in 1 .. n :
        /\ subscriptions[i] \in Subscriptions /\ subscriptions[i] # s
        /\ subscriptions[i] \in subscriptionMap /\ phase[subscriptions[i]] = "done"
  BY <1>1 DEF Listed
<1> HIDE DEF new
<1>4. \A i \in 1 .. Len(new) : new[i] \in subscriptionMap' /\ phase'[new[i]] = "done"
  BY <1>1, <1>2, <1>3
<1>5. \A i, j \in 1 .. Len(new) : new[i] = new[j] => i = j
  BY <1>1, <1>2, <1>3 DEF Listed
<1>6. \A t \in subscriptionMap' : phase'[t] = "done"
  BY <1>1 DEF Listed, State
<1>7. ASSUME NEW t \in Subscriptions, handler'[t].sendUpdatesActivated, t \notin skipped' \cup late'
      PROVE  t \in subscriptionMap' /\ \E i \in 1 .. Len(new) : new[i] = t
  <2>1. CASE t = s
    <3>1. n + 1 \in 1 .. Len(new)
      BY <1>1, <1>2
    <3>2. QED
      BY <1>1, <1>2, <2>1, <3>1
  <2>2. CASE t # s
    <3>1. t \in subscriptionMap /\ \E i \in 1 .. n : subscriptions[i] = t
      BY <1>1, <1>7, <2>2 DEF Listed
    <3>2. QED
      BY <1>1, <1>2, <3>1
  <2>3. QED
    BY <2>1, <2>2
<1>8. QED
  BY <1>2, <1>4, <1>5, <1>6, <1>7 DEF new, Listed

-----------------------------------------------------------------------------
(* The steps *)

\* What a step that ends no session and establishes nothing does to the rest.
LEMMA EndKept ==
  ASSUME State, Remembered, ActiveAfterEnd, NoneActivated,
         sessionEnded' = sessionEnded, isClosing' = isClosing,
         skipped \subseteq skipped', late \subseteq late',
         sessionEnded \/ isClosing =>
           \A t \in Subscriptions : phase'[t] \in {"priming", "responding"} =>
                                      phase[t] \in {"priming", "responding"}
  PROVE  Remembered' /\ ActiveAfterEnd'
<1>1. Remembered'
  BY DEF Remembered
<1>2. ActiveAfterEnd'
  BY DEF ActiveAfterEnd, NoneActivated
<1>3. QED
  BY <1>1, <1>2

\* What the end of a session does to the rest: the list is empty then.
LEMMA EndReached ==
  ASSUME State, Listed', Len(subscriptions') = 0, phase' = phase, Settling \subseteq late'
  PROVE  Remembered' /\ ActiveAfterEnd'
<1>1. Remembered'
  BY DEF Remembered, Settling
<1>2. ActiveAfterEnd'
  BY DEF ActiveAfterEnd, Listed
<1>3. QED
  BY <1>1, <1>2

LEMMA InitSub == Init => SubInv
<1> SUFFICES ASSUME Init PROVE SubInv
  OBVIOUS
<1> DEFINE h == [sendUpdatesActivated |-> FALSE, listening |-> FALSE, outstanding |-> NoData,
                 updateTimer |-> "stopped", sendDelayTimer |-> FALSE, floorPassed |-> TRUE,
                 sendingUpdateInProgress |-> FALSE, sendNextUpdateImmediately |-> FALSE,
                 sendUpdateErrorCounter |-> 0, reports |-> {}, reportHangs |-> FALSE]
<1>1. /\ h \in Handlers
      /\ h.outstanding = NoData /\ h.updateTimer = "stopped" /\ h.reports = {}
      /\ ~h.sendUpdatesActivated /\ ~h.listening /\ ~h.sendDelayTimer
      /\ ~h.sendingUpdateInProgress /\ ~h.sendNextUpdateImmediately
  BY NoDataIsData DEF Handlers
<1>2. handler = [s \in Subscriptions |-> h]
  BY DEF Init
<1> HIDE DEF h
<1>3. State
  <2>1. sessionEnded \in BOOLEAN /\ isClosing \in BOOLEAN
    BY Zenon DEF Init
  <2>2. version \in Versions /\ eventNumber \in 0 .. MaxEvents
    BY SubscriptionAssumption DEF Init, Versions
  <2>3. QED
    BY <1>1, <1>2, <2>1, <2>2, NoDataIsData DEF Init, State, Phases
<1>4. Sound(h, "none") /\ Beats(h)
  BY <1>1 DEF Sound, Beats, Quiet
<1>5. Ordered(h, NoData, 1)
  BY <1>1, NoDataIsData DEF Ordered, None
<1>6. Goods
  BY <1>1, <1>2, <1>4, <1>5 DEF Goods, Good, Init
<1>7. Listed
  BY <1>1, <1>2 DEF Listed, Init
<1>8. Remembered /\ ActiveAfterEnd
  BY DEF Remembered, ActiveAfterEnd, Init
<1>9. QED
  BY <1>3, <1>6, <1>7, <1>8 DEF SubInv, Goods

\* The steps that leave the lists and the session alone.
LEMMA QuietStep ==
  ASSUME State, Listed, Remembered, ActiveAfterEnd, State', Goods', NoneActivated,
         subscriptions' = subscriptions, subscriptionMap' = subscriptionMap,
         skipped' = skipped, late' = late,
         sessionEnded' = sessionEnded, isClosing' = isClosing,
         \A t \in Subscriptions : phase[t] = "done" => phase'[t] = "done",
         sessionEnded \/ isClosing =>
           \A t \in Subscriptions : phase'[t] \in {"priming", "responding"} =>
                                      phase[t] \in {"priming", "responding"}
  PROVE  SubInv'
<1>1. Listed'
  BY ListedKept
<1>2. Remembered' /\ ActiveAfterEnd'
  BY EndKept
<1>3. QED
  BY <1>1, <1>2 DEF SubInv, Goods

LEMMA StepSub == SubInv /\ [Next]_vars => SubInv'
<1> SUFFICES ASSUME SubInv, [Next]_vars PROVE SubInv'
  OBVIOUS
<1>1. State /\ Goods /\ Listed /\ Remembered /\ ActiveAfterEnd
  BY DEF SubInv, Goods
<1>2. CASE UNCHANGED vars
  BY <1>1, <1>2 DEF vars, SubInv, State, Goods, Listed, Remembered, ActiveAfterEnd
<1>3. ASSUME NEW s \in Subscriptions, Subscribe(s) PROVE SubInv'
  <2>1. State' /\ Goods' /\ NoneActivated
    BY <1>1, <1>3, SubscribeHandlers
  <2>2. /\ UNCHANGED <<subscriptions, subscriptionMap, skipped, late, sessionEnded, isClosing>>
        /\ ~(sessionEnded \/ isClosing) /\ phase[s] # "done" /\ phase' = [phase EXCEPT ![s] = "priming"]
    BY <1>3 DEF Subscribe
  <2>3. \A t \in Subscriptions : phase[t] = "done" => phase'[t] = "done"
    BY <1>1, <2>2 DEF State
  <2>4. QED
    BY <1>1, <2>1, <2>2, <2>3, QuietStep
<1>4. ASSUME NEW s \in Subscriptions, NEW keep \in BOOLEAN, Primed(s, keep) PROVE SubInv'
  <2>1. /\ State' /\ Goods' /\ NoneActivated
        /\ ~keep => \A t \in Cleared : ~handler'[t].sendUpdatesActivated
    BY <1>1, <1>4, PrimedHandlers
  <2>2. /\ UNCHANGED <<late, sessionEnded, isClosing>>
        /\ phase[s] = "priming" /\ phase' = [phase EXCEPT ![s] = "responding"]
        /\ skipped \subseteq skipped'
    BY <1>4 DEF Primed, ClearLists
  <2>3. /\ \A t \in Subscriptions : phase[t] = "done" => phase'[t] = "done"
        /\ \A t \in Subscriptions : phase'[t] \in {"priming", "responding"} =>
                                      phase[t] \in {"priming", "responding"}
    BY <1>1, <2>2 DEF State
  <2>4. Listed'
    <3>1. CASE keep
      <4>1. UNCHANGED <<subscriptions, subscriptionMap, skipped>>
        BY <1>4, <3>1 DEF Primed
      <4>2. QED
        BY <1>1, <2>1, <2>2, <2>3, <4>1, ListedKept
    <3>2. CASE ~keep
      <4>1. ClearLists
        BY <1>4, <3>2 DEF Primed
      <4>2. /\ subscriptions' = <<>> /\ subscriptionMap' \subseteq subscriptionMap
            /\ skipped' = skipped \cup Passed
        BY <4>1 DEF ClearLists
      <4>3. QED
        BY <1>1, <2>1, <2>2, <2>3, <3>2, <4>2, ListedCleared
    <3>3. QED
      BY <3>1, <3>2
  <2>5. Remembered' /\ ActiveAfterEnd'
    BY <1>1, <2>1, <2>2, <2>3, EndKept
  <2>6. QED
    BY <2>1, <2>4, <2>5 DEF SubInv, Goods
<1>5. ASSUME NEW s \in Subscriptions, PrimingFails(s) PROVE SubInv'
  <2>1. State' /\ Goods' /\ NoneActivated
    BY <1>1, <1>5, PrimingFailsHandlers
  <2>2. /\ UNCHANGED <<subscriptions, subscriptionMap, skipped, late, sessionEnded, isClosing>>
        /\ phase[s] # "done" /\ phase' = [phase EXCEPT ![s] = "failed"]
    BY <1>5 DEF PrimingFails
  <2>3. /\ \A t \in Subscriptions : phase[t] = "done" => phase'[t] = "done"
        /\ \A t \in Subscriptions : phase'[t] \in {"priming", "responding"} =>
                                      phase[t] \in {"priming", "responding"}
    BY <1>1, <2>2 DEF State
  <2>4. QED
    BY <1>1, <2>1, <2>2, <2>3, QuietStep
<1>6. ASSUME NEW s \in Subscriptions, Establish(s) PROVE SubInv'
  <2>1. State' /\ Goods' /\ \A t \in Subscriptions \ {s} : handler'[t] = handler[t]
    BY <1>1, <1>6, EstablishHandlers
  <2>2. Listed'
    BY <1>1, <1>6, <2>1, ListedEstablish
  <2>3. /\ UNCHANGED <<skipped, late, sessionEnded, isClosing>>
        /\ phase[s] = "responding" /\ phase' = [phase EXCEPT ![s] = "done"]
    BY <1>6 DEF Establish
  <2>4. \A t \in Subscriptions : phase'[t] \in {"priming", "responding"} =>
                                      phase[t] \in {"priming", "responding"}
    BY <1>1, <2>3 DEF State
  <2>5. Remembered'
    BY <1>1, <2>3, <2>4 DEF Remembered
  <2>6. sessionEnded \/ isClosing => s \in late
    BY <1>1, <2>3 DEF Remembered
  <2>7. ActiveAfterEnd'
    BY <1>1, <2>1, <2>3, <2>6 DEF ActiveAfterEnd
  <2>8. QED
    BY <2>1, <2>2, <2>5, <2>7 DEF SubInv, Goods
<1>7. ASSUME NEW s \in Subscriptions, ResponseFails(s) PROVE SubInv'
  <2>1. State' /\ Goods' /\ NoneActivated
    BY <1>1, <1>7, ResponseFailsHandlers
  <2>2. /\ UNCHANGED <<subscriptions, subscriptionMap, skipped, late, sessionEnded, isClosing>>
        /\ phase[s] # "done" /\ phase' = [phase EXCEPT ![s] = "failed"]
    BY <1>7 DEF ResponseFails
  <2>3. /\ \A t \in Subscriptions : phase[t] = "done" => phase'[t] = "done"
        /\ \A t \in Subscriptions : phase'[t] \in {"priming", "responding"} =>
                                      phase[t] \in {"priming", "responding"}
    BY <1>1, <2>2 DEF State
  <2>4. QED
    BY <1>1, <2>1, <2>2, <2>3, QuietStep
<1>8. ASSUME NEW s \in Subscriptions,
             \/ UpdateTimerFires(s) \/ FloorTimerFires(s) \/ FloorPasses(s) \/ SendDelayFires(s)
             \/ ReportHangs(s)
      PROVE  SubInv'
  <2>1. State' /\ Goods' /\ NoneActivated
    BY <1>1, <1>8, UpdateTimerHandlers, FloorTimerHandlers, FloorPassesHandlers, SendDelayHandlers,
       ReportHangsHandlers
  <2>2. UNCHANGED <<phase, subscriptions, subscriptionMap, skipped, late, sessionEnded, isClosing>>
    BY <1>8 DEF UpdateTimerFires, FloorTimerFires, FloorPasses, SendDelayFires, ReportHangs,
               SetHandler
  <2>3. QED
    BY <1>1, <2>1, <2>2, QuietStep
<1>9. ASSUME NEW s \in Subscriptions, ReportSucceeds(s) \/ ReportFails(s) PROVE SubInv'
  <2>1. State' /\ Goods' /\ NoneActivated
    BY <1>1, <1>9, ReportSucceedsHandlers, ReportFailsHandlers
  <2>2. UNCHANGED <<phase, subscriptions, subscriptionMap, skipped, late, sessionEnded, isClosing>>
    BY <1>9 DEF ReportSucceeds, ReportFails
  <2>3. QED
    BY <1>1, <2>1, <2>2, QuietStep
<1>10. ASSUME NEW s \in Subscriptions, CancelledByPeer(s) \/ ReportRejected(s) PROVE SubInv'
  <2>1. State' /\ Goods' /\ NoneActivated /\ ~handler'[s].sendUpdatesActivated
    BY <1>1, <1>10, CancelledHandlers, RejectedHandlers
  <2>2. /\ UNCHANGED <<phase, skipped, late, sessionEnded, isClosing>>
        /\ subscriptions' = RemoveSubscription(subscriptions, s)
        /\ subscriptionMap' = subscriptionMap \ {s}
    BY <1>10 DEF CancelledByPeer, ReportRejected
  <2>3. Listed'
    BY <1>1, <2>1, <2>2, ListedRemoved
  <2>4. Remembered' /\ ActiveAfterEnd'
    BY <1>1, <2>1, <2>2, EndKept
  <2>5. QED
    BY <2>1, <2>3, <2>4 DEF SubInv, Goods
<1>11. ASSUME NEW s \in Subscriptions, NetworkFails(s) PROVE SubInv'
  <2>1. /\ State' /\ Goods' /\ NoneActivated
        /\ \A t \in Cleared : ~handler'[t].sendUpdatesActivated
    BY <1>1, <1>11, NetworkFailsHandlers
  <2>2. /\ phase' = phase /\ late' = late \cup Settling
        /\ subscriptions' = <<>> /\ subscriptionMap' \subseteq subscriptionMap
        /\ skipped' = skipped \cup Passed
    BY <1>11 DEF NetworkFails, EndSession, ClearLists
  <2>3. Listed'
    BY <1>1, <2>1, <2>2, ListedCleared
  <2>4. Remembered' /\ ActiveAfterEnd'
    BY <1>1, <2>2, <2>3, EndReached
  <2>5. QED
    BY <2>1, <2>3, <2>4 DEF SubInv, Goods
<1>12. ASSUME Change \/ Event \/ StructureChange PROVE SubInv'
  <2>1. State' /\ Goods' /\ NoneActivated
    <3>1. \A s \in subscriptionMap : phase[s] = "done"
      BY <1>1 DEF Listed
    <3>2. QED
      BY <1>1, <1>12, <3>1, ChangeHandlers, EventHandlers, StructureHandlers
  <2>2. UNCHANGED <<phase, subscriptions, subscriptionMap, skipped, late, sessionEnded, isClosing>>
    BY <1>12 DEF Change, Event, StructureChange
  <2>3. QED
    BY <1>1, <2>1, <2>2, QuietStep
<1>13. ASSUME NEW flush \in BOOLEAN, SessionEnds(flush) PROVE SubInv'
  <2>1. /\ State' /\ Goods' /\ NoneActivated
        /\ \A t \in Cleared : ~handler'[t].sendUpdatesActivated
    BY <1>1, <1>13, SessionEndsHandlers
  <2>2. /\ phase' = phase /\ late' = late \cup Settling
        /\ subscriptions' = <<>> /\ subscriptionMap' \subseteq subscriptionMap
        /\ skipped' = skipped \cup Passed
    BY <1>13 DEF SessionEnds, EndSession, ClearLists
  <2>3. Listed'
    BY <1>1, <2>1, <2>2, ListedCleared
  <2>4. Remembered' /\ ActiveAfterEnd'
    BY <1>1, <2>2, <2>3, EndReached
  <2>5. QED
    BY <2>1, <2>3, <2>4 DEF SubInv, Goods
<1>14. ASSUME ServerCloses PROVE SubInv'
  <2>1. /\ State' /\ Goods' /\ NoneActivated
        /\ \A t \in subscriptionMap : ~handler'[t].sendUpdatesActivated
    BY <1>1, <1>14, ServerClosesHandlers
  <2>2. /\ phase' = phase /\ late' = late \cup Settling /\ skipped' = skipped
        /\ subscriptions' = <<>> /\ subscriptionMap' = {}
    BY <1>14 DEF ServerCloses
  <2>3. Listed'
    BY <1>1, <2>1, <2>2 DEF Listed, NoneActivated
  <2>4. Remembered' /\ ActiveAfterEnd'
    BY <1>1, <2>2, <2>3, EndReached
  <2>5. QED
    BY <2>1, <2>3, <2>4 DEF SubInv, Goods
<1>15. QED
  BY <1>2, <1>3, <1>4, <1>5, <1>6, <1>7, <1>8, <1>9, <1>10, <1>11, <1>12, <1>13, <1>14
  DEF Next, Reported

-----------------------------------------------------------------------------
(* The theorems *)

\* The inductive invariant of the subscriptions.
THEOREM SubInvariant == Spec => []SubInv
BY InitSub, StepSub, PTL DEF Spec

\* Types of the fields; a handler never has two reports under way (sendUpdate() and its
\* sendingUpdateInProgress).
THEOREM TypeCorrect == Spec => []TypeOK
<1>1. SubInv => TypeOK
  <2> SUFFICES ASSUME SubInv PROVE TypeOK
    OBVIOUS
  <2>1. State /\ Listed
    BY DEF SubInv
  <2>2. ASSUME NEW s \in Subscriptions
        PROVE  Cardinality(handler[s].reports) <= 1
    <3>1. \A a, b \in handler[s].reports : a = b
      BY DEF SubInv, Good, Sound
    <3>2. CASE handler[s].reports = {}
      <4>1. Cardinality({}) = 0
        BY FS_EmptySet
      <4>2. QED
        BY <3>2, <4>1
    <3>3. CASE handler[s].reports # {}
      <4>1. PICK x : handler[s].reports = {x}
        BY <3>1, <3>3
      <4>2. Cardinality({x}) = 1
        BY FS_Singleton
      <4>3. QED
        BY <4>1, <4>2
    <3>4. QED
      BY <3>2, <3>3
  <2>3. QED
    BY <2>1, <2>2 DEF TypeOK, State, Listed, Phases
<1>2. QED
  BY <1>1, SubInvariant, PTL

\* A handler that listens misses no change and no event, however priming, the response, the
\* timers and the reports under way interleave with them.
THEOREM NothingIsMissed == Spec => []NothingMissed
<1>1. SubInv => NothingMissed
  <2> SUFFICES ASSUME SubInv, NEW s \in Subscriptions, handler[s].listening, s \notin lost
               PROVE  Covered(s)
    BY DEF NothingMissed
  <2>1. Covers(handler[s], reported[s], version, eventNumber)
    BY DEF SubInv, Good
  <2>2. QED
    BY <2>1, CoveredIsCovers
<1>2. QED
  BY <1>1, SubInvariant, PTL

\* An active handler always has its update timer running.
THEOREM HeartbeatIsArmed == Spec => []HeartbeatArmed
<1>1. SubInv => HeartbeatArmed
  BY DEF SubInv, HeartbeatArmed, Good, Beats
<1>2. QED
  BY <1>1, SubInvariant, PTL

\* After the end of its session, or of the server, a handler is active only if
\* clearSubscriptions() passed over it or it was still being set up then.
THEOREM OnlyMissedStayActive == Spec => []ActiveAfterEnd
<1>1. SubInv => ActiveAfterEnd
  BY DEF SubInv
<1>2. QED
  BY <1>1, SubInvariant, PTL

\* A report brings the subscriber forward.
LEMMA TakeForward ==
  ASSUME NEW h, NEW p, NEW r \in Reports, NEW v \in Versions, NEW n, NEW l,
         Good(h, p, r, v, n, l), NEW x \in h.reports
  PROVE  Take(r, x).attribute >= r.attribute /\ r.events \subseteq Take(r, x).events
<1>1. x \in Reports
  BY Fields DEF Good, Sound
<1>2. x.attribute # None => r.attribute <= x.attribute
  BY DEF Good, Ordered
<1>3. r.attribute \in Int /\ x.attribute \in Int
  BY <1>1, SubscriptionAssumption DEF Reports, Versions, None
<1>4. QED
  BY <1>1, <1>2, <1>3, TakeFields

\* The subscriber is never told an older value, or fewer events, after a newer one: reports
\* end in the order in which they were sent, because there is one at a time.
THEOREM ReportsAreInOrder == Spec => ReportsInOrder
<1> DEFINE Forward ==
             \A s \in Subscriptions :
               /\ reported'[s].attribute >= reported[s].attribute
               /\ reported[s].events \subseteq reported'[s].events
<1>1. SubInv /\ [Next]_vars => [Forward]_vars
  <2> SUFFICES ASSUME SubInv, Next, NEW s \in Subscriptions
               PROVE  /\ reported'[s].attribute >= reported[s].attribute
                      /\ reported[s].events \subseteq reported'[s].events
    OBVIOUS
  <2>1. State /\ Goods
    BY DEF SubInv, Goods
  <2>2. /\ Good(handler[s], phase[s], reported[s], version, eventNumber, s \in lost)
        /\ reported[s] \in Reports /\ version \in Versions
    BY <2>1, OneGood
  <2>3. \/ reported' = reported
        \/ \E t \in Subscriptions : \E x \in handler[t].reports :
             reported' = [reported EXCEPT ![t] = Take(reported[t], x)]
    <3>1. ASSUME NEW t \in Subscriptions, ReportSucceeds(t) \/ \E keep \in BOOLEAN : Primed(t, keep)
          PROVE  \E x \in handler[t].reports : reported' = [reported EXCEPT ![t] = Take(reported[t], x)]
      BY <3>1 DEF ReportSucceeds, Primed
    <3>2. ASSUME NEW t \in Subscriptions,
                 \/ Subscribe(t) \/ PrimingFails(t) \/ Establish(t) \/ ResponseFails(t)
                 \/ CancelledByPeer(t) \/ ReportRejected(t) \/ ReportFails(t) \/ NetworkFails(t)
          PROVE  reported' = reported
      BY <3>2 DEF Subscribe, PrimingFails, Establish, ResponseFails, CancelledByPeer,
                  ReportRejected, ReportFails, NetworkFails
    <3>3. ASSUME NEW t \in Subscriptions,
                 \/ UpdateTimerFires(t) \/ FloorTimerFires(t) \/ FloorPasses(t)
                 \/ SendDelayFires(t) \/ ReportHangs(t)
          PROVE  reported' = reported
      BY <3>3 DEF UpdateTimerFires, FloorTimerFires, FloorPasses, SendDelayFires, ReportHangs,
                  SetHandler
    <3>4. ASSUME \/ Change \/ Event \/ StructureChange \/ ServerCloses
                 \/ \E flush \in BOOLEAN : SessionEnds(flush)
          PROVE  reported' = reported
      BY <3>4 DEF Change, Event, StructureChange, ServerCloses, SessionEnds
    <3>5. QED
      BY <3>1, <3>2, <3>3, <3>4 DEF Next, Reported
  <2>4. \/ reported'[s] = reported[s]
        \/ \E x \in handler[s].reports : reported'[s] = Take(reported[s], x)
    BY <2>1, <2>3 DEF State
  <2>5. CASE reported'[s] = reported[s]
    <3>1. reported[s].attribute \in Int
      BY <2>2, SubscriptionAssumption DEF Reports, Versions, None
    <3>2. QED
      BY <2>5, <3>1
  <2>6. CASE \E x \in handler[s].reports : reported'[s] = Take(reported[s], x)
    BY <2>2, <2>6, TakeForward
  <2>7. QED
    BY <2>4, <2>5, <2>6
<1>2. QED
  BY <1>1, SubInvariant, PTL DEF Spec, ReportsInOrder

=============================================================================
