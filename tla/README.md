# Verification of matter.js

TLA+ models of the parts of matter.js that are hard to test: the transactions
behind the state of a device, the layers that carry messages (reliable exchanges,
the Bluetooth transport), subscriptions, and commissioning (pairing, the fail-safe
and the table of fabrics). The models are checked on small instances with TLC and, where it matters most,
proved for all instances with TLAPS. Paths below are relative to
`packages/matter.js/src/` of the repository. `PROJECT.json` maps every
definition to the lines it models.

## 1. Inventory

matter.js is a TypeScript implementation of the Matter smart-home protocol.
It runs on one JavaScript thread, so interleaving happens at every `await`
that really waits: for the network, a timer, a lock, the storage or user code.

### Transactions (`behavior/state/transaction/`)

* State: per transaction a status, its resources, participants and roles, and
  the transactions it waits for; per resource the transaction that locks it.
* Operations: `act`, `addResources(Sync)`, `begin(Sync)`, `addParticipants`,
  `commit` (pre-commit cycles, two phases, post-commit), `rollback`, `close`.
* Interactions: every change of behavior state runs in a transaction. The
  participants are datasources and storage; pre- and post-commit run observers,
  which use the same transaction again.
* Hard: locks taken one set at a time with deadlock detection, waiters that look
  again after a wake-up, errors at each stage of a commit, commits that cascade.
* Correct when: writers are isolated, waiting never becomes circular, a release
  reaches its waiters, and every `act` ends with its locks released.

### Datasources and their store (`behavior/state/managed/Datasource.ts`, `endpoint/storage/DatasourceStore.ts`, `node/server/storage/ServerPartStore.ts`)

* State: the canonical values and version of a behavior; per session a copy, the
  values announced in pre-commit, the changes to apply; the persisted values.
* Operations: read, change, pre-commit events, commit in two phases, changed
  events, rollback, expiry.
* Hard: sessions that overlap, observers that change what is being committed,
  a store that fails after memory has moved on, several commits per transaction.
* Correct when: no update is lost, observers saw what is committed, only committed
  values are stored, and committed values are stored.

### Message counters and duplicate detection (`protocol/MessageCounter.ts`, `protocol/MessageReceptionState.ts`)

* State: the outgoing counter, in storage too if persisted; the highest counter
  received and a 32 bit bitmap of the counters below it.
* Hard: crashes between increment and write, rollover, any order of delivery, a
  window at the edges of the word and of the counter range.
* Correct when: no number is used twice under one key, no message is processed
  twice, and no new message is refused.

### Message exchange (`protocol/MessageExchange.ts`, `protocol/ExchangeManager.ts`)

* State: the message to be acked, the message that waits for its ack, the ack,
  retransmission and close timers, the promise of `send`, the queue of the
  application; the manager's exchanges by id.
* Operations: `send`, `onMessageReceived`, `retransmitMessage`, the timers,
  `close`, `destroy`; `onMessage`, `initiateExchange`, `closeSession`.
* Hard: loss, repetition and reordering; acks that race with the end of
  `channel.send`; an exchange closed under a waiting `send`.
* Correct when: what `send` reports is true, messages are delivered once and in
  order, and every `send` ends.

### Bluetooth transport (`ble/BtpSessionHandler.ts`)

* State at each end: the last numbers sent, received and acked, the ack timers, the
  queue of outgoing messages, the message being put together.
* Operations: `sendMatterMessage`, `processSendQueue` (one segment per await),
  `handleIncomingBleData`, the two timers, `close`, the loss of the connection.
* Hard: two ends with crossing acks and a small window, an await per packet, numbers
  that start again at 0, a window that is used up.
* Correct when: it is a fifo channel in each direction, an end never takes a correct
  packet for an error, and what is queued arrives.

### Subscriptions (`protocol/interaction/SubscriptionHandler.ts`, `InteractionServer.ts`, `session/SecureSession.ts`)

* State: per subscription the outstanding updates, two timers, what is being sent,
  the errors in a row; the lists of the session and of the server.
* Operations: subscribe request (listeners, initial report, response, activation),
  change, event, structure change, timers, end of a report, cancel, flush, end of the
  session, close of the server.
* Hard: changes during every await of the set-up and of a report, errors of a report,
  sessions that end under a handler.
* Correct when: no change is missed, reports are in order, an active handler always has
  a timer to keep it alive, and nothing is active after the end.

### Fail-safe and fabrics (`common/Failsafe*.ts`, `fabric/`, the commissioning clusters)

* State: the fail-safe context with timer, fabric index, root certificate and CSR; the
  table of fabrics and its stored copy; the window; the PASE session; the breadcrumb.
* Operations: ArmFailSafe, CSRRequest, AddTrustedRootCertificate, AddNOC, RemoveFabric,
  UpdateFabricLabel, CommissioningComplete, opening and revoking the window, expiry,
  rollback, factory reset.
* Hard: expiry and revocation during the awaits of AddNOC, of CommissioningComplete and
  of the rollback itself; a crash; a write of the table for another reason.
* Correct when: an unfinished commissioning leaves nothing behind and a finished one is
  never taken back, the node knows whether it is commissioned, and a fail-safe ends.

### Pairing (`session/pase/PaseServer.ts`, `protocol/securechannel/SecureChannelProtocol.ts`, `MatterDevice.ts`)

* State: the PASE server of the window with its timer and error count, the attempts
  under way, the open PASE sessions, the mode of the window.
* Operations: request, messages, failure, timer, session creation, error limit, windows.
* Hard: several commissioners, errors of one that touch the state of another, windows
  that change under an attempt.
* Correct when: one commissioner at a time, attempts end, errors close the window.

### Parts that are modelled in part or not at all

| Part | State and operations | Why it is left out |
|---|---|---|
| Exchange manager (`protocol/ExchangeManager.ts`) | exchanges by id; `closeSession` | only its effect on one exchange is modelled |
| Session ids and resumption (`session/SessionManager.ts`) | the next free id | the interesting case needs 65535 open sessions; with all ids taken, `getNextAvailableSessionId` may return 65536, and two concurrent calls the same id |
| Interaction model (`protocol/interaction/`) | reads, writes, invokes, timed requests | request and response over one exchange; the content is TLV |
| CASE (`session/case`) | a handshake without state between messages | cryptography |
| Queues, locks, observables (`util/`) | pending reads, tasks | part of the actions that use them |
| Nodes, endpoints, behaviors | life cycle | asynchronous construction and wiring; the window, fabric changes and factory reset are in `Failsafe` and `PaseServer` |
| Discovery, storage backends, platform packages, PrivacyHub | caches, I/O | input and output, wall clock |
| Clusters, schemas, TLV, model, certificates, cryptography | generated or pure | no protocol in them |

The repository has about 215,000 lines, most of them the specification as data
(`models/`), the generated cluster definitions and model elements, encodings and
adapters. They have no state and no steps; the map can only ever cover a few percent
of the whole.

## 2. Modules

| Module | Models | Extends |
|---|---|---|
| `Transaction` | `act`, `Tx`, `ResourceSet` | |
| `Datasource` | datasources and their store on top of transactions | `Transaction` |
| `TransactionProofs` | theorems about both | `Datasource` |
| `MessageReceptionState` | the three duplicate detections | |
| `MessageReceptionProofs` | theorems about them | `MessageReceptionState` |
| `MessageCounter` | plain and persisted counters, crashes | |
| `MessageCounterProofs` | theorems about them | `MessageCounter` |
| `MessageExchange` | both ends of an exchange and the network | |
| `MessageExchangeProofs` | theorems about it | `MessageExchange` |
| `FifoChannel` | abstract: what a connection oriented `Channel` promises for one direction | |
| `Btp` | both ends of a Bluetooth session; implements `FifoChannel` twice | |
| `BtpProofs` | theorems about it | `Btp` |
| `Subscription` | the subscriptions of a session, the server's and the session's lists | |
| `SubscriptionProofs` | theorems about them | `Subscription` |
| `Failsafe` | fail-safe, commissioning commands, table of fabrics and its storage | |
| `FailsafeProofs` | theorems about it | `Failsafe` |
| `PaseServer` | pairing attempts, their timer, error limit and windows | |
| `PaseServerProofs` | theorems about it | `PaseServer` |
| `MC...` | instances for TLC | the module of the name |

An operator `X_Suffix` just before an operator `X` is a faulty form of it, used only to
see that a property would notice (the mutants of `PROJECT.json`); no specification uses it.

**Transaction.** `status`, `resources`, `participants`, `lockedBy` and `waitingOn`
are the fields of the code; `pc` says where `act` and `commit` stand, `acquiring`
what a suspended `acquireLocks` wants, `cycles`, `mayHaveMutated`, `pending` and
`commits` are local variables of the code that live across awaits. There is one
action per operation and, for the asynchronous ones, one per stretch between two
awaits. User code, that is the actor and the handlers of participants, is free to
do anything the interface allows, and to throw. `aborted` is a history variable:
the last commit ended without the cleanup of `#finalize`.
`Examined` is what the depth-first search of `#detectDeadlock` visits.

**Datasource** conjoins the steps of `Transaction` with what the participants do in
them: `Change` is `startWrite` plus the mutation, `Announce` and `PreCommitReturns`
are `preCommit`, `CommitsPhaseOne` and `CommitsPhaseTwo` are `commit1` and
`commit2`, `StoreWrites` is one write of `ServerPartStore.set`. A struct with its
fields is one value, all of it persistent and observed. `base` and `version` in a
session's copy, and `lost` (the last change did not reach the store: a write failed, or
`participantFor` found the participant of an earlier commit), are history.

**MessageReceptionState.** The bitmap is the set of the positions of its one bits.
`ShiftLeft` takes the shift count modulo the word width, as the language does.
The four actions are the ways `updateMessageCounter` ends.

**MessageCounter.** A call of the persisted counter increments at once and is
delivered after its write; a crash loses the calls that are under way.

**MessageExchange.** The network is the set of all packets ever sent, so a packet
may be received late, again or never. `retransmissionTimer` is the field, `timers`
are the timers that really run: the two differ when a timer is replaced without
being stopped, which is the point of several properties. `resending` are
retransmissions whose `channel.send` has not returned. `Send` takes everything up to
`channel.send`, `ChannelSent` what follows it. A retransmission that cannot be sent
fails at once. Abstracted: timed interactions
(lines 423-459), messages without ack (only the close of a session), `expectAckOnly`
(it changes what `send` returns, not the state), `minimumResponseTimeoutMs` (it
lengthens the retries), a message of another protocol on the exchange, and the
reader of the queue. Lines 201-206 are unreachable: the message they look for is a
duplicate for the session, and duplicates are handled before. When the exchange of
the responder is gone, a new message of the initiator opens a new exchange, of which
only the ack is modelled.

**Btp.** Packets are records on a sequence per direction; a byte of a message is known by
its place, so a message that is cut and put together wrongly differs. `segmentWrite` and
`ackWrite` are the promises of `writeBleCallback` that are awaited. Central and peripheral
differ: Bleno keeps a single resolver, so an ack written during a segment makes the
peripheral's loop wait for ever (`confirmationLost`). The handshake fixes `WindowSize` and
`FragmentSize`. The refinement mapping to `FifoChannel` gives it the messages taken by
`sendMatterMessage`, the messages handed over, and `isActive` of both ends.

**Subscription.** A handler is a record and its methods are operators on it, so that an
action reads like the code: `UpdateTimerFires` is a composition of `PrepareDataUpdate` and
`SendUpdate`. The attribute is its version, events are their numbers. `phase` says how far
`handleSubscribeRequest` is; `reports` what is being sent. `ReportHangs` is a report whose
`send` will never settle; `reportHangs` remembers it, since nothing else of the handler
shows it. `lost`, `skipped` and `late` are
history and name the three known gaps: data of a failed report, a handler that
`clearSubscriptions` passed over, one that was being set up when its session ended.

**Failsafe.** `context` is the `FailsafeContext` with the local variables of its
`rollback` that live across awaits; `noc` and `completion` are the commands that await.
They keep going when their context has gone (`current` is FALSE), as the code does.
Storage writes take effect when issued and may fail where the code has a path for it.
There are two stores: the table of fabrics (`stored`), and the attribute `fabrics` of
`OperationalCredentials` in the datastore (`Attribute`), which `#updateFabrics` commits on every
event of the table, so at AddNOC already. A restart reads the table from the first and
`commissioned` from the second (`Restart`); `CrashInRemoval` is a crash between the writes
of the two. Reactions to the "added" and "deleted" events run one after another, in the order of
the events; that the asynchronous ones may overlap is not modelled.
`committed`, `unguarded`, `storageFailed` and `missed` are history: what was
promised, and which exception has happened. `updateNoc` is no action: lines 287 and 301 of
`OperationalCredentialsServer.ts` throw in all cases, one or the other. Two ArmFailSafe
commands do not interleave: the construction of a context awaits nothing that waits.

**PaseServer.** Each window has a server of its own; an attempt keeps the one that admitted
it. `attempt` is where `handlePairingRequest` awaits. Servers are numbers that are used
again once no attempt refers to them. The content of messages is the choice between
`Proceed` and `Fail`. A stage that sends and a stage that reads are kept apart, because
only the latter has a time limit: a `send` is answered, is not acked (`SendFails`,
`ReportLost`), or never settles (`Hang`). When the error report of the `catch` of
`onNewExchange` is rejected, the check of the error limit behind it does not happen
(`SkipCheck`). Whether the node has fabrics is chosen at the start and does not
change here; `Failsafe` is about that. `exposed` and `unreported` are history: commissioners
whose attempt goes on although its server would let another one in, and servers with an error
at the limit whose check was skipped.

`Failsafe` and `PaseServer` overlap in the window and the PASE session: `Failsafe` takes
one PASE session as given, which is what `OnePaseSession` is about.

## 3. Runs

| Run | Instance | Shows |
|---|---|---|
| `transaction_act` | 2 transactions, 2 resources, 1 participant, 1 pre-commit cycle, 2 chained commits | isolation (`ExclusiveHoldsLocks`), locks change hands only by release (`LocksNeverStolen`), no circular waiting (`WaitGraphAcyclic`), no lost wake-up (`WaitsOnlyOnHolders`), a lock outlives its transaction only after an abort without cleanup (`OrphanOnlyAfterAbort`), every `act` ends unless such a lock is in its way (`ActTerminates`) |
| `datasource` | 2 sessions and 1 datasource, or 1 session and 2 datasources; 2 values, 2 commits, 3 pre-commit cycles | `NoLostUpdate`, `SettledBeforeCommit`, `OnlyCommittedStored`, and that a committed change is stored when the lock is free unless it was `lost` (`CommittedIsPersisted`) |
| `reception` | 9 counters, window 3, all classes | `NoReplay`, `RepeatOnlyAfterRollover`, `FalseDuplicateOnlyAfterFullShift` |
| `counter` | 9 values, 3 calls under way | `NeverReused`, `AnnouncedBeforeRollover` |
| `exchange_safety` | 2 messages one way, 1 the other, 2 transmissions | `AckedWasReceived`, `DeliveredInOrder` |
| `exchange_settles` | 1 message each way, 3 transmissions | `SendSettlesUnlessStopped` |
| `exchange_lost` | 1 message each way | violated: a `send` succeeds whose message the peer dropped |
| `btp` | numbers 0 to 3, window 2, messages of 1 and 2 segments one way, 1 the other | each direction implements `FifoChannel` (`ImplementsFifo`); an end closes on a packet or timeout only after a wrap-around or a used up window (`RefusedOnlyAtLimits`), `WindowRespected`; what is queued arrives or one of the named stalls has happened (`QueuedIsDelivered`) |
| `subscription` | 2 subscriptions, 1 change, 1 event | `NothingMissed`, `HeartbeatArmed`, `ActiveAfterEnd`, `ReportsInOrder`, `OutstandingIsSent` |
| `failsafe` | 2 fabric indices, any number of commands, failures, crashes and resets | `UncommittedIsGuarded`, `CommittedSurvives`, `ContextIsTimed`, `CommissionedAgrees`, `FailsafeEnds` |
| `failsafe_rollback` | the same | violated: a rollback that begins with an exception skips the rest |
| `pase` | 2 commissioners, 2 servers alive at a time, limit of 3 errors, any number of windows and attempts | `OnePaseSession`, `TimerWatchesItsAttempt`, `ErrorsEndTheWindow`, `AttemptEnds` |

Where a run lists no type invariant, the one of the module is there for the reader and for
proofs; the runs are kept for properties that could fail for a deeper reason.

**Bounds.** Two transactions and two resources make every pair conflict in both
orders; longer cycles of waits are the matter of the proof. One participant is
enough for an error at every stage. With one pre-commit cycle the limit is hit by
the first mutation; further cycles are exercised by the datasource runs. Two
datasources are needed for one observer to undo what another has seen. A
window of three has a first, a middle and a last bit, and nine counters let the
window leave a counter behind, pass the limit and come back. Two messages in a row
are needed for a stale ack or timer to meet a later message, and two or three
transmissions for a retransmission to race with an ack. With four sequence numbers and a
window of two, four packets wrap around and two use up a window; a message of two
segments is enough for an ack to fall between them. In `subscription` one handler meets
everything, and two meet everything but changes and events, one of them at a time with
data waiting or errors (`Small`): the second is there for the lists that are walked while
they shrink. Two fabric indices let the index wrap onto a taken one and leave one fabric
while the other is added; every variable of `Failsafe` is finite by itself, and `OneEscapes` stops
where a second fabric has outlived its context. Two commissioners are enough for one to disturb the other; the third of the story below only
takes the place of the second. In `datasource`, `ContentionOrCascade` lets either two
transactions or two datasources be used; both at once is the matter of `transaction_act`.
`MaxVersion`,
`MaxMessages`, `MaxCalls`, `Outgoing`, `MaxEvents` and `MaxServers` are bounds of the models only; all other numbers are
parameters of the code with smaller values.

**Fairness.** `Transaction`: steps of the runtime are continuations of settled
promises, which JavaScript runs (weak fairness); user code ends each time it is
given the chance (strong fairness, because a handler may alternate between waiting
for locks and running). `MessageExchange`: started timers fire and `channel.send`
settles (weak fairness); of the network nothing is assumed. `Btp`: promises of a connected
transport settle and its packets arrive, which Bluetooth guarantees while it is connected;
nothing is assumed of the timers. `Subscription`: timers fire, and a report ends unless it hangs:
that is what `SendSettlesUnlessStopped` and the timeout of the read provide. Of changes and
requests nothing is assumed, and of `ReportHangs` neither that it happens nor that it does
not. `Failsafe`: timers fire and awaited operations
end. `PaseServer`: timers fire, keys are derived, a read times out after 60 seconds, and a
`send` that does not hang settles; of the commissioners nothing is assumed. The exceptions
of `SendSettlesUnlessStopped` are thus in both models that rest on it: a `send` may hang in every
stage, and no fairness takes it further. Liveness of `subscription` and `failsafe` is checked within
`Small` and `OneEscapes`.
Deadlock checking is off in models whose instances end by themselves, when all
transactions are closed or all messages sent.

**Findings.** `PROJECT.json` describes the two disagreements the violated runs
show. Where a passing property names exceptions, each of them is a place where the code
does less than its comments say, reached by TLC when the exception is taken out:

* `OrphanOnlyAfterAbort`: a failure in pre-commit, or one chained commit too many, skips
  the cleanup of `#finalize`, and the locks stay with a destroyed transaction, although
  `Tx.ts:63` says "we've already logged and cleaned up";
* `CommittedIsPersisted`: `#finalize` clears the participants and not the roles, so the
  second commit of a transaction hands its values to a storage participant whose `commit2`
  is never called (`DatasourceStore.ts:47`): no error, and the stored value is behind;
* `RepeatOnlyAfterRollover`: after a rollover the unencrypted class computes a distance that
  is one too small (`MessageReceptionState.ts:201`) and finds a counter in the window new
  twice;
* `RefusedOnlyAtLimits`: numbers that have returned to 0 are compared as integers
  (`BtpSessionHandler.ts:229`, `421`), and one ack for a whole window is taken for invalid;
* `QueuedIsDelivered`: a queue stopped by the window is not resumed by the ack that opens it;
  the peripheral forgets a confirmation;
* `ActiveAfterEnd`: `clearSubscriptions` (`SecureSession.ts:277`) walks through an array from
  which each `cancel` removes an element and passes over every second handler;
* `NothingMissed`, `OutstandingIsSent`: the data of a failed report is gone, and after
  the third error that is not the network's the handler stays active and never sends again;
  so does one whose report hangs (`SubscriptionHandler.ts:466`): its update timer goes on
  running, and all it does is to ask for the next report;
* `UncommittedIsGuarded`: an AddNOC that outlives its context adds a fabric that nothing
  will revoke; a table written for another reason during the fail-safe holds the
  uncommitted fabric, which is back after a crash;
* `CommissionedAgrees`: `handleFabricChange` throws when a fabric other than the new one is
  removed during a fail-safe, and a node that lost its last fabric does not reset. After
  AddNOC, a crash and a restart the node believes to be commissioned with an empty table
  (`CommissioningBehavior.ts:243`, `OperationalCredentialsServer.ts:87`): its next
  commissioning is no change for it, so `commissioned` is not announced, and if that one
  fails the rollback takes the only fabric of a "commissioned" node, which resets itself;
* `ErrorsEndTheWindow`: the report of an error is awaited before the limit is checked
  (`PaseServer.ts:68`, `70`). When the commissioner does not ack it, or an earlier message is
  still not acked, the check is skipped, and the window outlives its 20th error until one
  more error is reported;
* `AttemptEnds`: an attempt whose `send` hangs stays for ever, but keeps nobody out: its timer
  fires;
* `OnePaseSession`: a refused request takes the error path, which stops the timer of the
  attempt that is under way (`PaseServer.ts:159`); the next request is then admitted beside
  it and both create sessions, although the comment at line 82 says that no more requests
  are accepted. The fail-safe closes only one of them.

Further observations, not backed by a run of their own:

* a retransmission whose `channel.send` ends after the ack starts a timer again, which
  later rejects a `send` of another message (`MessageExchange.ts:395`);
* ArmFailSafe during a rollback is answered with success although nothing is armed, and a
  CommissioningComplete that a revocation has overtaken is answered with success;
* the error limit of a PASE server whose window is closed ends the window that is open now;
* `allowBasicCommissioning` replaces the PASE server before it finds a window open;
* `bitmap << 32` shifts by nothing, so after an advance by exactly 32 stale bits
  refuse new messages (`FalseDuplicateOnlyAfterFullShift` carves this out);
* `closeInternal` and a failed retransmission leave the promise of `send` pending
  for ever (carved out of `SendSettlesUnlessStopped`), and with it whoever awaits it;
* the pairing timer calls `cancelPairing` without a `catch`: when its report is not acked,
  the rejection is unhandled;
* a CommissioningComplete that awaits while the rollback of its context throws does not
  reset the breadcrumb, because closing the context once more throws too;
* a message that arrives while another waits to be acked is dropped, and the other
  one is acked, although the comment in line 240 of `MessageExchange.ts` says that
  this one is (a second way to `exchange_lost`);
* a `MessageCounter` with a rollover callback rolls over and one without throws,
  the reverse of its constructor's comment;
* values announced in a commit that was rolled back are not announced again when
  the same transaction commits them after all.

## 4. Proofs

Every safety property of a passing run, and the refinement of `FifoChannel` by `Btp`, is a
theorem: it holds for every value of the constants. Each component has an inductive
invariant that TLC has checked on the instance of the run, a lemma per action (or per method, where actions share it)
that keeps it, and theorems that draw the properties from it.

| Module | Theorems | For any |
|---|---|---|
| `TransactionProofs` (transactions) | `TypeCorrect`, `Isolation`, `NoDeadlock`, `NoLostWakeUp`, `OrphansExplained`, `NoStealing` | transactions, resources, participants, limits |
| `TransactionProofs` (datasources) | `DatasourceTypeCorrect`, `UpdatesAreNotLost`, `CommitsAreSettled`, `CommitsArePersisted`, `StoreIsCommitted` | the same, values, versions |
| `MessageReceptionProofs` | `TypeCorrect`, `ProcessedOnce`, `RepeatsExplained`, `FalseDuplicatesExplained` | window, counter range |
| `MessageCounterProofs` | `TypeCorrect`, `ValuesAreFresh`, `RolloverIsAnnounced` | counter range, calls under way |
| `MessageExchangeProofs` | `ExchangeTypeCorrect`, `AcksAreNotForged`, `QueueIsInOrder` | messages of each end, transmissions |
| `BtpProofs` | `TypeCorrect`, `Refinement`, `WindowIsRespected`, `RefusesOnlyAtLimits` | range of numbers, window, fragment size, messages of each end and their lengths |
| `SubscriptionProofs` | `TypeCorrect`, `NothingIsMissed`, `HeartbeatIsArmed`, `OnlyMissedStayActive`, `ReportsAreInOrder` | subscriptions, changes, events |
| `FailsafeProofs` | `TypeCorrect`, `NoFabricIsLeftBehind`, `CommittedStays`, `SomethingEndsTheFailsafe`, `BeliefAgreesWithTable` | fabric indices, supported fabrics |
| `PaseServerProofs` | `TypeCorrect`, `TimersAreTheirs`, `ErrorsAreFinal`, `OneSession` | commissioners, servers, limit of errors |

**Transactions.** `IInv` adds to the properties how
`status`, `pc`, `acquiring` and `waitingOn` belong together: only a transaction with
a suspended request waits for anybody, and a closed one holds locks only if aborted.
The heart is `NewWaitsStayAcyclic`: if a transaction that
nobody can be led to from its blockers starts to wait for them, the graph stays
acyclic. The detection computes a least closed set; the complement of
what the proof needs is such a closed set. `CleanupPreserves` shows that
`#finalize` takes the transaction out of every waiter's set when it releases the
locks, which is the no-lost-wake-up argument.

**Datasources.** `DatasourceInv` is `IInv`, what each session knows (`Session`) and
`Persisted`. A session's parts follow its transaction through a commit: its changes are
of locked datasources and start from the canonical value (`Owned`), observers have seen
them once a pass ends quietly (`Settled`), the storage participant has exactly the changed
values between the phases (`Prepared`), and what it has yet to write is canonical and
locked (`Writing`). `CommittedIsPersisted` needs the last one: a value that is not in the
store is on its way there. The frame argument is made once: a step of one transaction changes neither the
fields of another nor what that one has locked, so the other sessions stay as good as
they were. For the steps of the transaction itself the lemmas about `IInv` are used again.

**Duplicate detection.** `NoReplay` alone is not inductive; `Complete` says that every
processed counter is the maximum, is behind the window, or has its bit set. The
delicate case is a move of the window: a counter still inside after a move by `d`
had its bit at a position below `WindowSize - d`, so `d` is smaller than the word
and the shift really moves it. `Exact` is the converse, for false duplicates: until a
shift by the full width, every bit stands for a processed counter or belongs to the
unbroken rest of the bits the bitmap was filled with. `Remembered` and `Recalled` say the
first on the circle of the counters, for the classes with rollover, as long as
`calculateDiff` is right (`DiffIsRight`). `HalfRangeAssumption`, that the window
fits into either half of the circle, holds in the code by far: 32 of 2^32.

**Counters.** `Ahead` orders what was handed out before the calls that wait for their
write, those before the counter, and the stored value in between, so that a crash forgets only
numbers nobody has. `NeverReused` says nothing about the calls that wait and
is not inductive without it.

**Message exchange.** `AckedWasReceived` depends on everything that may still become a
packet: `NetworkSound` and `Holds` say of every packet, of the message to be acked and of
the message of every timer, running, replaced or resending, that its ack is of a message its sender has
received. `Progress` says that all messages but the last were received, since the next
`send` waits until the last was acked; so a message that is new to the session is
the last one, later than all in the queue, which gives `DeliveredInOrder`. That
`task` is not idle only with a timer in the field is needed for `ChannelSent`, which starts it.

**Bluetooth transport.** The invariant has three layers; each needs those before it.

* `ContentInv`: a place in the stream of an end is a message and a number of its bytes.
  `Carries` says from which place to which a packet takes the stream, and `Stream` that the
  packets under way lead, one after the other, from the place of the receiver (`Place`:
  the messages handed over and the part kept) to that of the sender (`Reached`: the queue
  and how much of its head was read). There is no induction over the segments of a message:
  the witness of `Stream` is the sequence of places, to which `Write` adds one at the end
  and `handleIncomingBleData` takes one off the front. `Sender` is what
  `processSendQueue` may rely on after its await: the head of the queue has been read to its
  end exactly when the segment awaited is an ending one. It needs the exception
  `confirmationLost`, because the peripheral then no longer waits. The layer holds after
  a wrap-around and with a used up window, and so does the refinement:
  `FifoNext` maps `SendMatterMessage`, `HandleIncomingBleData` and the closing steps to
  `Send`, `Deliver` and the closing steps of the channel, all else to stuttering.
* `NumberInv`, until a number returns to 0: the packets under way have consecutive numbers
  up to the sender's last; what the receiver has got (`Got`) is the one before them; acks
  under way grow from the last one received to the last one sent, which is among them
  (`Acked`); a segment was within the window its sender saw (`InWindow`). The peripheral
  before its first packet is a case of its own (`Nothing`): its last number is set to the
  maximum so that 0 is next, and it would ack that number if it had anything to send or a
  running timer. `WindowRespected` follows: the segment at place `i`
  of a link is at least `i` numbers ahead of every ack its sender has received.
  Acks on their own are sent without a look at the window, so they are not bounded by it.
* `SlackInv`, until a window is used up as well: fewer packets than the window are
  not acked, so no ack can differ from the one before by more than `exceedsWindowSize` allows;
  with the two other layers the packet at the head of a link passes every check
  (`HeadIsValid`). With a window of 1 the first packet uses it up, and nothing is under way.
  `NoTimeOut` is about the other way to close: when both links are empty and the peer's
  ack timer is not running, everything is acked.

For the last two layers every action is one of four kinds (`StepKinds`): it sends, receives,
closes, or leaves numbers and packets alone. The instance of the run is the smallest on
which all cases happen; TLC has also checked the layers with windows of 1 and 3.

**Subscriptions.** `SubInv` is about one handler at a time (`Good`): its timers and
reports fit each other and the phase of its request, what was acknowledged, is being
sent and is waiting are in the order of versions and together cover all there is. The methods
of the handler are shown to keep it, then the actions that call them. `Listed` says that
an active handler is in both lists unless it was skipped or late, which is what
`ActiveAfterEnd` needs when the lists are emptied. A report that hangs changes nothing of this: it
is still under way, as far as the handler knows.

**Fail-safe.** `FailsafeInv` ties the table to the context and to the commands that await:
an AddNOC under way has an index that is still free and is its context's as long as that
exists (`Nocs`); the fabric of a completion is stored (`Completions`); a context that may
still revoke never has a committed fabric, and one past its fail-safe has accounted for
its own (`Contexts`). `CommissionedAgrees` holds outside of a fail-safe only;
`Known` extends it to the contexts nobody listens to. A crash sets `missed` exactly when it
finds the two stores different, so after all other crashes the belief is proved right.

**Pairing.** `OnePaseSession` follows from `Guarded`: an
attempt that may create a session and is not exposed is at the server of the window, its
timer is that server's, and the sessions open beside it are those of exposed attempts. This is about each
commissioner by itself, so it holds again for the attempts that follow an exposed one.
`ErrorsEndTheWindow` is inductive because an error report that is answered checks the limit
and one that is rejected at the limit sets `unreported`, which only a later check or
a new window resets.

**Assumptions**, all next to the constants and evaluated by the runs: the values that
stand for `undefined` differ from those they are told apart from (`NoTxAssumption`,
`ParticipantAssumption`, `ContextAssumption`, `ExchangeAssumption`, `PaseAssumption`);
the two ends differ, messages are not empty, a fragment has room for the largest header and
a byte of data, and the window is at least 1 and not larger than the largest number
(`BtpAssumption`); limits are numbers and positive where the code has a positive constant; initial
counters are below the announcement of a rollover (they have 28 random bits of 32);
`HalfRangeAssumption`.

**Only model-checked.** Liveness (`ActTerminates`, `SendSettlesUnlessStopped`,
`QueuedIsDelivered`, `OutstandingIsSent`, `FailsafeEnds`, `AttemptEnds`), which needs
fairness and `ENABLED`, out of the prover's reach. The two violated properties are refuted
by TLC.

## 5. Plan

The plan is done for the components above: each has its runs, and its safety properties are
theorems. What would come next, in this order:

1. The handshake of the Bluetooth transport, in which the two ends agree on the window and
   the fragment size that `Btp` takes as given.
2. The exchange manager with several exchanges per session and the ids it hands out; now
   only its effect on one exchange is modelled.
3. A crash between the fields of one commit (`ServerPartStore.ts:144`), which needs values
   with several fields in `Datasource`.
4. The composition of `Failsafe` and `PaseServer`, which now overlap in the window and the
   PASE session.
