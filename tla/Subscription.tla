---------------------------- MODULE Subscription ----------------------------
(***************************************************************************)
(* The subscriptions of one session of a device:                           *)
(* packages/matter.js/src/protocol/interaction/SubscriptionHandler.ts,     *)
(* the subscribe request and close() of InteractionServer.ts, and the list *)
(* of subscriptions of session/SecureSession.ts.                           *)
(*                                                                         *)
(* All subscriptions are to one attribute, known by the version of its     *)
(* value, and to one source of events, known by their numbers.  A report   *)
(* is sent over an exchange of its own and ends later, with an answer or   *)
(* with an error.  One step is one run of JavaScript up to an await for    *)
(* the outside; awaits of code that does not wait, such as cancel(), end   *)
(* within the step.                                                        *)
(*                                                                         *)
(* A handler is a record, and its methods are operators from handlers to   *)
(* handlers.                                                               *)
(***************************************************************************)
EXTENDS Integers, Sequences, FiniteSets

CONSTANTS
  Subscriptions,    \* the subscribe requests the session receives
  Urgent,           \* those that ask for urgent events
  MaxVersion,       \* bound: changes of the attribute
  MaxEvents         \* bound: events

ASSUME SubscriptionAssumption ==
  /\ Urgent \subseteq Subscriptions
  /\ MaxVersion \in Nat
  /\ MaxEvents \in Nat

VARIABLES
  handler,          \* the SubscriptionHandler of each request
  phase,            \* how far handleSubscribeRequest() has come with it
  subscriptions,    \* #subscriptions of the session, in order
  subscriptionMap,  \* #subscriptionMap of the InteractionServer
  sessionEnded,     \* end() or destroy() was called
  isClosing,        \* close() of the InteractionServer was called
  version, eventNumber,  \* the attribute and the events of the device
  reported,         \* newest version and events each subscriber has acknowledged
  lost,             \* subscriptions that had a report fail
  skipped,          \* subscriptions clearSubscriptions() passed over
  late              \* subscriptions that were being set up when their session ended

vars == <<handler, phase, subscriptions, subscriptionMap, sessionEnded, isClosing,
          version, eventNumber, reported, lost, skipped, late>>

None == 0
Versions == 1 .. MaxVersion + 1
Events == 1 .. MaxEvents

Reports == [attribute : {None} \cup Versions, events : SUBSET Events]
NoData == [attribute |-> None, events |-> {}]

Handlers ==
  [sendUpdatesActivated : BOOLEAN,
   listening : BOOLEAN,                       \* attributeListeners and eventListeners
   outstanding : Reports,                     \* outstandingAttributeUpdates and ...EventUpdates
   updateTimer : {"stopped", "interval", "floor"},
   sendDelayTimer : BOOLEAN,
   floorPassed : BOOLEAN,                     \* minIntervalFloor has passed since lastUpdateTimeMs
   sendingUpdateInProgress : BOOLEAN,
   sendNextUpdateImmediately : BOOLEAN,
   sendUpdateErrorCounter : 0 .. 3,           \* 3 stands for every higher count
   reports : SUBSET Reports,                  \* reports being sent
   reportHangs : BOOLEAN]                     \* a send() of the report never settles

\* Types of the fields; a handler never has two reports under way.
TypeOK ==
  /\ handler \in [Subscriptions -> Handlers]
  /\ \A s \in Subscriptions : Cardinality(handler[s].reports) <= 1
  /\ phase \in [Subscriptions -> {"none", "priming", "responding", "done", "failed"}]
  /\ subscriptions \in Seq(Subscriptions)
  /\ subscriptionMap \subseteq Subscriptions
  /\ sessionEnded \in BOOLEAN /\ isClosing \in BOOLEAN
  /\ version \in Versions /\ eventNumber \in 0 .. MaxEvents
  /\ reported \in [Subscriptions -> Reports]
  /\ lost \subseteq Subscriptions /\ skipped \subseteq Subscriptions /\ late \subseteq Subscriptions

Init ==
  /\ handler = [s \in Subscriptions |->
       [sendUpdatesActivated |-> FALSE, listening |-> FALSE, outstanding |-> NoData,
        updateTimer |-> "stopped", sendDelayTimer |-> FALSE, floorPassed |-> TRUE,
        sendingUpdateInProgress |-> FALSE, sendNextUpdateImmediately |-> FALSE,
        sendUpdateErrorCounter |-> 0, reports |-> {}, reportHangs |-> FALSE]]
  /\ phase = [s \in Subscriptions |-> "none"]
  /\ subscriptions = <<>>
  /\ subscriptionMap = {}
  /\ sessionEnded = FALSE
  /\ isClosing = FALSE
  /\ version = 1
  /\ eventNumber = 0
  /\ reported = [s \in Subscriptions |-> NoData]
  /\ lost = {}
  /\ skipped = {}
  /\ late = {}

-----------------------------------------------------------------------------
(* Methods of the handler *)

SendUpdate_NotGuarded(h) ==
  [h EXCEPT !.outstanding = NoData, !.reports = @ \cup {h.outstanding},
            !.sendingUpdateInProgress = TRUE, !.floorPassed = FALSE]
\* sendUpdate() up to its await: only one report at a time.
SendUpdate(h) ==
  IF h.sendingUpdateInProgress
    THEN [h EXCEPT !.sendNextUpdateImmediately = TRUE]
    ELSE [h EXCEPT !.outstanding = NoData,
                   !.reports = @ \cup {h.outstanding},
                   !.sendingUpdateInProgress = TRUE,
                   !.floorPassed = FALSE]

PrepareDataUpdate_NotRestarted(h) ==
  CASE h.sendDelayTimer \/ ~h.sendUpdatesActivated -> h
    [] OTHER -> [h EXCEPT !.updateTimer = IF h.floorPassed THEN "stopped" ELSE "floor",
                          !.sendDelayTimer = h.floorPassed]
\* prepareDataUpdate(): sending is delayed, by the floor of the interval if need be.
PrepareDataUpdate(h) ==
  CASE h.sendDelayTimer \/ ~h.sendUpdatesActivated -> h
    [] OTHER -> [h EXCEPT !.updateTimer = IF h.floorPassed THEN "interval" ELSE "floor",
                          !.sendDelayTimer = h.floorPassed]

Flush(h) == IF h.outstanding = NoData THEN h ELSE SendUpdate(h)

Activate_Discards(h) ==
  [h EXCEPT !.sendUpdatesActivated = TRUE, !.outstanding = NoData, !.updateTimer = "interval"]
\* activateSendingUpdates()
Activate(h) ==
  [Flush([h EXCEPT !.sendUpdatesActivated = TRUE]) EXCEPT !.updateTimer = "interval"]

Cancel_StaysActive(h, flush) ==
  LET stopped == [h EXCEPT !.sendDelayTimer = FALSE, !.listening = FALSE]
  IN  IF flush THEN Flush(stopped) ELSE stopped
\* cancel(); the lists that hold the handler are the caller's matter.
Cancel(h, flush) ==
  LET stopped == [h EXCEPT !.sendUpdatesActivated = FALSE, !.updateTimer = "stopped",
                           !.sendDelayTimer = FALSE, !.listening = FALSE]
  IN  IF flush THEN Flush(stopped) ELSE stopped

\* attributeChangeListener() and eventChangeListener()
AttributeChanged(h, v) ==
  IF h.listening THEN PrepareDataUpdate([h EXCEPT !.outstanding.attribute = v]) ELSE h

EventOccurred(h, n, urgent) ==
  LET added == [h EXCEPT !.outstanding.events = @ \cup {n}]
  IN  IF ~h.listening THEN h
      ELSE IF urgent THEN PrepareDataUpdate(added) ELSE added

-----------------------------------------------------------------------------
(* Cancelling *)

\* removeSubscription(): the list without s, which it holds at most once.
RemoveSubscription(list, s) ==
  LET index == CHOOSE i \in DOMAIN list : list[i] = s
  IN  IF \E i \in DOMAIN list : list[i] = s
        THEN [j \in 1 .. Len(list) - 1 |-> IF j < index THEN list[j] ELSE list[j + 1]]
        ELSE list

CancelAll(gone, flush) ==
  [s \in Subscriptions |-> IF s \in gone THEN Cancel(handler[s], flush) ELSE handler[s]]

\* clearSubscriptions() walks through the list from which cancel() removes each handler,
\* so it meets every other one only, and then empties the list.
Cleared == {subscriptions[i] : i \in {j \in DOMAIN subscriptions : j % 2 = 1}}
Passed  == {subscriptions[i] : i \in {j \in DOMAIN subscriptions : j % 2 = 0}}

ClearLists ==
  /\ subscriptions' = <<>>
  /\ subscriptionMap' = subscriptionMap \ Cleared
  /\ skipped' = skipped \cup Passed

Settling == {s \in Subscriptions : phase[s] \in {"priming", "responding"}}

EndSession ==
  /\ ClearLists
  /\ sessionEnded' = TRUE
  /\ late' = late \cup Settling

-----------------------------------------------------------------------------
(* handleSubscribeRequest *)

Current == [attribute |-> version, events |-> 1 .. eventNumber]

\* sendInitialReport(): the listeners are registered before the values are read.
Prime(h) == [h EXCEPT !.listening = TRUE, !.floorPassed = FALSE, !.reports = {Current}]

Subscribe(s) ==
  /\ phase[s] = "none"
  /\ ~sessionEnded /\ ~isClosing
  /\ phase' = [phase EXCEPT ![s] = "priming"]
  /\ handler' = [handler EXCEPT ![s] = Prime(@)]
  /\ UNCHANGED <<subscriptions, subscriptionMap, sessionEnded, isClosing, version, eventNumber,
                 reported, lost, skipped, late>>

\* The subscriber's view after it has acknowledged a report.
Take(old, r) ==
  [attribute |-> IF r.attribute = None THEN old.attribute ELSE r.attribute,
   events |-> old.events \cup r.events]

\* The initial report is answered; without keepSubscriptions the others are cleared.
Primed(s, keepSubscriptions) ==
  /\ phase[s] = "priming"
  /\ phase' = [phase EXCEPT ![s] = "responding"]
  /\ \E r \in handler[s].reports :
       reported' = [reported EXCEPT ![s] = Take(@, r)]
  /\ handler' = [(IF keepSubscriptions THEN handler ELSE CancelAll(Cleared, TRUE))
                   EXCEPT ![s].reports = {}]
  /\ IF keepSubscriptions
       THEN UNCHANGED <<subscriptions, subscriptionMap, skipped>>
       ELSE ClearLists
  /\ UNCHANGED <<sessionEnded, isClosing, version, eventNumber, lost, late>>

PrimingFails(s) ==
  /\ phase[s] = "priming"
  /\ phase' = [phase EXCEPT ![s] = "failed"]
  /\ handler' = [handler EXCEPT ![s] = [Cancel(@, FALSE) EXCEPT !.reports = {}]]
  /\ UNCHANGED <<subscriptions, subscriptionMap, sessionEnded, isClosing, version, eventNumber,
                 reported, lost, skipped, late>>

\* The subscribe response is sent: the handler enters the lists and starts to send.
Establish(s) ==
  /\ phase[s] = "responding"
  /\ phase' = [phase EXCEPT ![s] = "done"]
  /\ handler' = [handler EXCEPT ![s] = Activate(@)]
  /\ subscriptions' = Append(subscriptions, s)
  /\ subscriptionMap' = subscriptionMap \cup {s}
  /\ UNCHANGED <<sessionEnded, isClosing, version, eventNumber, reported, lost, skipped, late>>

\* The response cannot be sent: nothing is cleaned up.
ResponseFails(s) ==
  /\ phase[s] = "responding"
  /\ phase' = [phase EXCEPT ![s] = "failed"]
  /\ UNCHANGED <<handler, subscriptions, subscriptionMap, sessionEnded, isClosing, version,
                 eventNumber, reported, lost, skipped, late>>

-----------------------------------------------------------------------------
(* The device *)

Change ==
  /\ version < MaxVersion + 1
  /\ version' = version + 1
  /\ handler' = [s \in Subscriptions |-> AttributeChanged(handler[s], version + 1)]
  /\ UNCHANGED <<phase, subscriptions, subscriptionMap, sessionEnded, isClosing, eventNumber,
                 reported, lost, skipped, late>>

Event ==
  /\ eventNumber < MaxEvents
  /\ eventNumber' = eventNumber + 1
  /\ handler' = [s \in Subscriptions |-> EventOccurred(handler[s], eventNumber + 1, s \in Urgent)]
  /\ UNCHANGED <<phase, subscriptions, subscriptionMap, sessionEnded, isClosing, version,
                 reported, lost, skipped, late>>

\* The structure of endpoints changes and the attribute is another object now:
\* updateSubscription() of every handler in the map treats it as changed.
StructureChange ==
  /\ subscriptionMap # {}
  /\ handler' = [s \in Subscriptions |->
       IF s \in subscriptionMap
         THEN PrepareDataUpdate([handler[s] EXCEPT !.outstanding.attribute = version])
         ELSE handler[s]]
  /\ UNCHANGED <<phase, subscriptions, subscriptionMap, sessionEnded, isClosing, version,
                 eventNumber, reported, lost, skipped, late>>

-----------------------------------------------------------------------------
(* Timers *)

SetHandler(s, h) ==
  /\ handler' = [handler EXCEPT ![s] = h]
  /\ UNCHANGED <<phase, subscriptions, subscriptionMap, sessionEnded, isClosing, version,
                 eventNumber, reported, lost, skipped, late>>

\* The interval is at least two seconds, so its timer does not fire within the 50 ms of the
\* send delay timer that was started with it.
UpdateTimerFires(s) ==
  /\ handler[s].updateTimer = "interval" /\ ~handler[s].sendDelayTimer
  /\ SetHandler(s, PrepareDataUpdate([handler[s] EXCEPT !.updateTimer = "stopped"]))

FloorTimerFires(s) ==
  /\ handler[s].updateTimer = "floor"
  /\ SetHandler(s, PrepareDataUpdate([handler[s] EXCEPT !.updateTimer = "stopped",
                                                        !.floorPassed = TRUE]))

\* Only prepareDataUpdate() of an active handler looks at the clock.
FloorPasses(s) ==
  /\ ~handler[s].floorPassed /\ handler[s].sendUpdatesActivated
  /\ handler[s].updateTimer # "floor"
  /\ SetHandler(s, [handler[s] EXCEPT !.floorPassed = TRUE])

SendDelayFires(s) ==
  /\ handler[s].sendDelayTimer
  /\ SetHandler(s, SendUpdate([handler[s] EXCEPT !.sendDelayTimer = FALSE]))

-----------------------------------------------------------------------------
(* The end of a report: the rest of sendUpdate() *)

Sending(s) == phase[s] # "priming" /\ handler[s].reports # {} /\ ~handler[s].reportHangs

\* A retransmission cannot be sent, or the exchange is closed under the send(): nobody
\* settles its promise any more, and sendUpdate() waits for ever.
ReportHangs(s) ==
  /\ Sending(s)
  /\ SetHandler(s, [handler[s] EXCEPT !.reportHangs = TRUE])

\* sendUpdate() after its try: the next report follows at once if one was asked for.
SendDone(h) ==
  LET done == [h EXCEPT !.sendingUpdateInProgress = FALSE]
  IN  IF h.sendNextUpdateImmediately
        THEN SendUpdate([done EXCEPT !.sendNextUpdateImmediately = FALSE])
        ELSE done

\* The report r was answered: it is gone, and so are the errors in a row.
Answered(h, r) == [h EXCEPT !.reports = @ \ {r}, !.sendUpdateErrorCounter = 0]

ReportSucceeds(s) ==
  /\ Sending(s)
  /\ \E r \in handler[s].reports :
       /\ handler' = [handler EXCEPT ![s] = SendDone(Answered(@, r))]
       /\ reported' = [reported EXCEPT ![s] = Take(@, r)]
  /\ UNCHANGED <<phase, subscriptions, subscriptionMap, sessionEnded, isClosing, version,
                 eventNumber, lost, skipped, late>>

\* The subscriber answers that it does not know the subscription.
CancelledByPeer(s) ==
  /\ Sending(s)
  /\ \E r \in handler[s].reports :
       handler' = [handler EXCEPT ![s] = SendDone(Answered(Cancel(@, FALSE), r))]
  /\ subscriptions' = RemoveSubscription(subscriptions, s)
  /\ subscriptionMap' = subscriptionMap \ {s}
  /\ lost' = lost \cup {s}
  /\ UNCHANGED <<phase, sessionEnded, isClosing, version, eventNumber, reported, skipped, late>>

\* The handler after an error: its report is gone, and it counts the errors in a row.
Failed(s, r) ==
  LET h == handler[s]
  IN  [h EXCEPT !.reports = @ \ {r},
                !.sendUpdateErrorCounter = IF @ = 3 THEN 3 ELSE @ + 1]

\* Another status in the answer: cancel(), and the error goes on to sendUpdate().
\* The third error is thrown again: sendingUpdateInProgress stays set.
ReportRejected(s) ==
  /\ Sending(s)
  /\ \E r \in handler[s].reports :
       LET h == Cancel(Failed(s, r), FALSE)
       IN  handler' = [handler EXCEPT ![s] =
             IF h.sendUpdateErrorCounter <= 2
               THEN SendDone(h)
               ELSE [h EXCEPT !.sendNextUpdateImmediately = FALSE]]
  /\ subscriptions' = RemoveSubscription(subscriptions, s)
  /\ subscriptionMap' = subscriptionMap \ {s}
  /\ lost' = lost \cup {s}
  /\ UNCHANGED <<phase, sessionEnded, isClosing, version, eventNumber, reported, skipped, late>>

\* Any error without an answer, up to the second in a row, and the third if it is not the
\* network's (no channel, a closed exchange): that one is thrown again.
ReportFails(s) ==
  /\ Sending(s)
  /\ \E r \in handler[s].reports :
       LET h == Failed(s, r)
       IN  handler' = [handler EXCEPT ![s] =
             IF h.sendUpdateErrorCounter <= 2
               THEN SendDone(h)
               ELSE [h EXCEPT !.sendNextUpdateImmediately = FALSE]]
  /\ lost' = lost \cup {s}
  /\ UNCHANGED <<phase, subscriptions, subscriptionMap, sessionEnded, isClosing, version,
                 eventNumber, reported, skipped, late>>

\* The third error of the network in a row: the session is destroyed.
NetworkFails(s) ==
  /\ Sending(s)
  /\ handler[s].sendUpdateErrorCounter >= 2
  /\ \E r \in handler[s].reports :
       handler' = [CancelAll(Cleared, FALSE) EXCEPT ![s] =
         SendDone([(IF s \in Cleared THEN Cancel(Failed(s, r), FALSE) ELSE Failed(s, r))
                     EXCEPT !.sendNextUpdateImmediately = FALSE])]
  /\ EndSession
  /\ lost' = lost \cup {s}
  /\ UNCHANGED <<phase, isClosing, version, eventNumber, reported>>

-----------------------------------------------------------------------------
(* The end of the session, and of the server *)

\* end() flushes, destroy() does not.
SessionEnds(flush) ==
  /\ ~sessionEnded
  /\ EndSession
  /\ handler' = CancelAll(Cleared, flush)
  /\ UNCHANGED <<phase, isClosing, version, eventNumber, reported, lost>>

\* close() of the InteractionServer: cancel(true) of every handler in its map, which
\* holds every handler of the list.
ServerCloses ==
  /\ ~isClosing
  /\ isClosing' = TRUE
  /\ handler' = CancelAll(subscriptionMap, TRUE)
  /\ subscriptions' = <<>>
  /\ subscriptionMap' = {}
  /\ late' = late \cup Settling
  /\ UNCHANGED <<phase, sessionEnded, version, eventNumber, reported, lost, skipped>>

-----------------------------------------------------------------------------

Reported(s) ==
  \/ ReportSucceeds(s)
  \/ CancelledByPeer(s)
  \/ ReportRejected(s)
  \/ ReportFails(s)
  \/ NetworkFails(s)

Next ==
  \/ \E s \in Subscriptions :
       \/ Subscribe(s)
       \/ \E keep \in BOOLEAN : Primed(s, keep)
       \/ PrimingFails(s)
       \/ Establish(s)
       \/ ResponseFails(s)
       \/ UpdateTimerFires(s)
       \/ FloorTimerFires(s)
       \/ FloorPasses(s)
       \/ SendDelayFires(s)
       \/ Reported(s)
       \/ ReportHangs(s)
  \/ Change
  \/ Event
  \/ StructureChange
  \/ \E flush \in BOOLEAN : SessionEnds(flush)
  \/ ServerCloses

Spec == Init /\ [][Next]_vars

\* Timers fire, and a report that does not hang ends: it is answered, its retransmissions
\* run out, or the wait for the answer does.
Fairness ==
  \A s \in Subscriptions :
    /\ WF_vars(UpdateTimerFires(s))
    /\ WF_vars(FloorTimerFires(s))
    /\ WF_vars(SendDelayFires(s))
    /\ WF_vars(Reported(s))

FairSpec == Spec /\ Fairness

-----------------------------------------------------------------------------
(* Properties *)

\* What the subscriber has, or will have from a report under way or data waiting.
Covered(s) ==
  LET h == handler[s]
      coming == {reported[s], h.outstanding} \cup h.reports
  IN  /\ \E r \in coming : r.attribute = version
      /\ 1 .. eventNumber \subseteq UNION {r.events : r \in coming}

\* A handler that listens misses no change and no event, whenever they happen relative to
\* priming, the response, the timers and reports under way: the newest value and every event
\* are acknowledged, in a report that has not ended or waiting.  Only data of a report that
\* failed is lost; whether what waits is ever sent is OutstandingIsSent.
NothingMissed ==
  \A s \in Subscriptions : handler[s].listening /\ s \notin lost => Covered(s)

\* An active handler always has its update timer running, so that it asks for a report within
\* the interval, whatever mix of changes, floors, errors and restarts came before.
HeartbeatArmed ==
  \A s \in Subscriptions : handler[s].sendUpdatesActivated => handler[s].updateTimer # "stopped"

\* After the end of its session, or of the server, a handler is active only if it was passed
\* over, or was still being set up then.
ActiveAfterEnd ==
  \A s \in Subscriptions :
    (sessionEnded \/ isClosing) /\ handler[s].sendUpdatesActivated => s \in skipped \cup late

\* The subscriber is never told an older value, or fewer events, after a newer one.
ReportsInOrder ==
  [][\A s \in Subscriptions :
       /\ reported'[s].attribute >= reported[s].attribute
       /\ reported[s].events \subseteq reported'[s].events]_vars

\* Nothing waits for ever: data of an active handler is sent, unless the handler is cancelled
\* or sendingUpdateInProgress stays set: it has died of its third error, or its report hangs.
Stuck(s) ==
  /\ handler[s].sendingUpdateInProgress
  /\ handler[s].reports = {} \/ handler[s].reportHangs
OutstandingIsSent ==
  \A s \in Subscriptions :
    handler[s].sendUpdatesActivated /\ handler[s].outstanding # NoData ~>
      \/ handler[s].outstanding = NoData
      \/ ~handler[s].sendUpdatesActivated
      \/ Stuck(s)
=============================================================================
