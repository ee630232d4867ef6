------------------------------ MODULE Failsafe ------------------------------
(***************************************************************************)
(* Commissioning of a device under the fail-safe timer: the general        *)
(* commissioning, operational credentials and administrator commissioning  *)
(* servers, FailsafeContext with its FailsafeTimer, and the FabricManager  *)
(* table with its storage.                                                 *)
(*                                                                         *)
(* A handler that awaits (the key derivation of AddNOC, the storage write  *)
(* of CommissioningComplete, each await of rollback()) is split there, and *)
(* other handlers and the timer run in between.  A storage write that is   *)
(* awaited takes effect when it is issued; a crash before it does is the   *)
(* crash one step earlier.  Fabrics are persisted twice: the table of the  *)
(* FabricManager when a command says so, and the attribute `fabrics` of    *)
(* the operational credentials, a copy of the table in memory, on each of  *)
(* its events.                                                             *)
(***************************************************************************)
EXTENDS Naturals, FiniteSets

CONSTANTS
  MaxFabricIndex,    \* 254 in FabricManager.getNextFabricIndex
  SupportedFabrics,  \* the attribute that limits AddNOC
  NoContext          \* MatterDevice.#failsafeContext is undefined

ASSUME FabricAssumption ==
  /\ MaxFabricIndex \in Nat \ {0}
  /\ SupportedFabrics \in 1 .. MaxFabricIndex

VARIABLES
  fabrics,          \* indices of FabricManager.#fabrics
  nextFabricIndex,  \* FabricManager.#nextFabricIndex
  stored,           \* the two values of the fabric storage
  commissioned,     \* CommissioningBehavior.state.commissioned
  resetting,        \* factoryReset() has taken the node offline
  context,          \* MatterDevice.#failsafeContext
  noc,              \* AddNOC commands awaiting the key derivation
  completion,       \* CommissioningComplete commands awaiting
  pase,             \* open PASE sessions, each named by the fabric it carries
  window,           \* state.windowStatus of administrator commissioning
  responder,        \* SecureChannelProtocol.paseCommissioner is set
  breadcrumb,       \* state.breadcrumb is not zero
  \* History: what was promised and which exceptions have occurred.
  committed,        \* fabrics whose CommissioningComplete went through
  unguarded,        \* fabrics added by an AddNOC its context no longer guards
  storageFailed,    \* a write of CommissioningComplete has failed
  missed            \* commissioned was not counted from the table: a removal was
                    \* refused, or a crash had left the two stores different

node == <<commissioned, resetting, missed>>
commissioning == <<window, responder>>
table == <<fabrics, nextFabricIndex, stored, node>>
history == <<committed, unguarded, storageFailed>>
vars == <<table, context, noc, completion, pase, commissioning, breadcrumb, history>>

Index == 1 .. MaxFabricIndex

NoFabric == 0

(* Session ids matter only for csrSessionId: a CASE session is named by    *)
(* its fabric, the PASE session by PaseId; NoId is an id no open session   *)
(* has.                                                                    *)
PaseId == MaxFabricIndex + 1

NoId == 0

Context ==
  [failsafe : BOOLEAN,                       \* #failsafe is defined
   timer : BOOLEAN,                          \* its timers are running
   associated : {NoFabric} \cup Index,       \* #associatedFabric
   index : {NoFabric} \cup Index,            \* #fabricBuilder.fabricIndex
   rootCert : BOOLEAN,                       \* hasRootCert
   csr : {NoId, PaseId} \cup Index,          \* #csrSessionId
   forUpdateNoc : BOOLEAN,                   \* #forUpdateNoc
   rollback : {"no", "sessions", "restore"}, \* the await rollback() is at
   found : BOOLEAN,                          \* its local variable fabric
   monitored : BOOLEAN]                      \* #monitorFailsafe listens

ASSUME ContextAssumption == NoContext \notin Context

-----------------------------------------------------------------------------
Init ==
  /\ fabrics = {}
  /\ nextFabricIndex = 1
  /\ stored = [fabrics |-> {}, next |-> 1]
  /\ commissioned = FALSE
  /\ resetting = FALSE
  /\ context = NoContext
  /\ noc = {}
  /\ completion = {}
  /\ pase = {}
  /\ window = FALSE
  /\ responder = TRUE
  /\ breadcrumb = FALSE
  /\ committed = {}
  /\ unguarded = {}
  /\ storageFailed = FALSE
  /\ missed = FALSE

Armed == context # NoContext

(* The sessions a command may arrive on: none once the node goes offline.  *)
Sessions ==
  IF resetting THEN {}
  ELSE [pase : {TRUE}, fabric : pase] \cup [pase : {FALSE}, fabric : fabrics]

SessionId(s) == IF s.pase THEN PaseId ELSE s.fabric

(* persistFabrics() of a table.                                            *)
Persisted(table_) == [fabrics |-> table_, next |-> nextFabricIndex]

(* The order in which getNextFabricIndex tries the indices: onwards from   *)
(* the next one, from MaxFabricIndex on to 1, taken ones skipped.          *)
Tried(i) == IF i >= nextFabricIndex THEN i - nextFabricIndex
                                    ELSE i - nextFabricIndex + MaxFabricIndex

FreeIndex ==
  CHOOSE i \in Index \ fabrics : \A j \in Index \ fabrics : Tried(i) <= Tried(j)

After_NoWrap(i) == i + 1

After(i) == IF i = MaxFabricIndex THEN 1 ELSE i + 1

(* OperationalCredentials.state.fabrics, in memory and in the datastore:   *)
(* #updateFabrics copies the table and commits it on every event.          *)
Attribute == fabrics

(* Everything is lost but the two stores: a restart reads the table from   *)
(* one, and whether the node is commissioned from the attribute in the     *)
(* other, which #nodeOnline then makes a copy of the table again.          *)
Restart(storage, attribute) ==
  /\ fabrics' = storage.fabrics
  /\ nextFabricIndex' = storage.next
  /\ stored' = storage
  /\ commissioned' = (attribute # {})
  /\ resetting' = FALSE
  /\ context' = NoContext
  /\ noc' = {}
  /\ completion' = {}
  /\ pase' = {}
  /\ window' = FALSE
  /\ responder' = (storage.fabrics = {})
  /\ breadcrumb' = FALSE
  /\ storageFailed' = FALSE
  /\ missed' = (attribute # storage.fabrics)

(* handleFabricChange refuses the removal of a fabric that is not the one  *)
(* the context in charge has added.                                        *)
Refused(f) == Armed /\ context.index # f

(* handleFabricChange records whether fabrics are left; a commissioned     *)
(* node without any is reset.                                              *)
Notice(fabs) ==
  /\ commissioned' = (fabs # {})
  /\ resetting' = (resetting \/ (commissioned /\ fabs = {}))
  /\ missed' = FALSE

Overlook == missed' = TRUE /\ UNCHANGED <<commissioned, resetting>>

(* fabric.remove(): table, storage, then the "deleted" event; the sessions *)
(* of the fabric end.                                                      *)
Remove(f) ==
  /\ fabrics' = fabrics \ {f}
  /\ stored' = Persisted(fabrics')
  /\ IF Refused(f) THEN Overlook ELSE Notice(fabrics')
  /\ unguarded' = unguarded \ {f}
  /\ UNCHANGED nextFabricIndex

-----------------------------------------------------------------------------
(* The commissioning window, and PASE sessions through it.  A node without *)
(* fabrics announces itself and accepts PASE sessions without a window.    *)

OpenWindow ==
  /\ Sessions # {}
  /\ fabrics # {}
  /\ ~window /\ ~Armed
  /\ window' = TRUE
  /\ responder' = TRUE
  /\ UNCHANGED <<table, context, noc, completion, pase, breadcrumb, history>>

(* endCommissioning(): the responder is kept by a node without fabrics.    *)
EndCommissioning ==
  /\ window' = FALSE
  /\ responder' = (responder /\ fabrics = {})

WindowTimeout ==
  /\ window
  /\ EndCommissioning
  /\ UNCHANGED <<table, context, noc, completion, pase, breadcrumb, history>>

PaseOpens ==
  /\ ~resetting
  /\ responder \/ fabrics = {}
  /\ pase = {}
  /\ pase' = {NoFabric}
  /\ UNCHANGED <<table, context, noc, completion, commissioning, breadcrumb, history>>

(* The commissioner leaves; the id of its session is free again.           *)
PaseCloses ==
  /\ pase # {}
  /\ pase' = {}
  /\ context' = IF Armed /\ context.csr = PaseId
                THEN [context EXCEPT !.csr = NoId] ELSE context
  /\ UNCHANGED <<table, noc, completion, commissioning, breadcrumb, history>>

-----------------------------------------------------------------------------
(* armFailSafe without a context.                                          *)
Arm(s) ==
  /\ ~Armed
  /\ s.pase \/ ~window
  /\ context' = [failsafe |-> TRUE, timer |-> TRUE, associated |-> s.fabric,
                 index |-> NoFabric, rootCert |-> FALSE, csr |-> NoId,
                 forUpdateNoc |-> FALSE, rollback |-> "no", found |-> FALSE,
                 monitored |-> FALSE]
  /\ breadcrumb' = TRUE
  /\ storageFailed' = FALSE
  /\ UNCHANGED <<table, noc, completion, pase, commissioning, committed, unguarded>>

(* armFailSafe with a context extends it.  A context that is completing    *)
(* answers success without a timer; one that is rolling back makes the     *)
(* command wait until it is gone, which then answers success as well.      *)
Extend_NotRestarted(s) ==
  /\ Armed
  /\ context.rollback = "no"
  /\ context.failsafe => context.timer /\ context.associated = s.fabric
  /\ context' = [context EXCEPT !.timer = FALSE]
  /\ breadcrumb' = TRUE
  /\ UNCHANGED <<table, noc, completion, pase, commissioning, history>>

Extend(s) ==
  /\ Armed
  /\ context.rollback = "no"
  /\ context.failsafe => context.timer /\ context.associated = s.fabric
  /\ breadcrumb' = TRUE
  /\ UNCHANGED <<table, context, noc, completion, pase, commissioning, history>>

-----------------------------------------------------------------------------
Orphaned(commands) == {[c EXCEPT !.current = FALSE] : c \in commands}

(* When the rollback has thrown, closing the context once more throws too. *)
Rejected(completions) ==
  {[c EXCEPT !.current = FALSE, !.closes = FALSE] : c \in completions}

(* The context leaves the device: its listener tells the commissioning     *)
(* behavior, and commands still under way work on a context that is gone.  *)
Destroyed_Unheard(fabs) ==
  /\ context' = NoContext
  /\ noc' = Orphaned(noc)
  /\ UNCHANGED node

Destroyed(fabs) ==
  /\ context' = NoContext
  /\ noc' = Orphaned(noc)
  /\ IF context.monitored THEN Notice(fabs) ELSE UNCHANGED node

RevokesFirst == context.index # NoFabric /\ ~context.forUpdateNoc

(* close() of a context whose timer is defined: the first part of          *)
(* rollback() up to its first await.  An AddNOC that has not reached the   *)
(* table yet, or a fabric removed since, makes revokeFabric throw, and the *)
(* rest of the rollback is skipped.  Closing a context that is closing     *)
(* already does nothing.                                                   *)
Close ==
  LET rolling == [context EXCEPT !.failsafe = FALSE, !.timer = FALSE,
                                 !.rollback = "sessions"]
  IN \/ /\ context.rollback # "no"
        /\ UNCHANGED <<table, context, noc, completion, history>>
     \/ /\ context.rollback = "no" /\ context.failsafe
        /\ RevokesFirst /\ context.index \notin fabrics
        /\ Destroyed(fabrics)
        /\ completion' = Rejected(completion)
        /\ UNCHANGED <<fabrics, nextFabricIndex, stored, committed, unguarded,
                       storageFailed>>
     \/ /\ context.rollback = "no" /\ context.failsafe
        /\ RevokesFirst /\ context.index \in fabrics
        /\ Remove(context.index)
        /\ context' = rolling
        /\ UNCHANGED <<noc, completion, committed, storageFailed>>
     \/ /\ context.rollback = "no" /\ context.failsafe
        /\ ~RevokesFirst
        /\ context' = rolling
        /\ UNCHANGED <<table, noc, completion, history>>

(* A timer fires, or armFailSafe with an expiry of 0 stops it.             *)
Expire_NotHandled ==
  /\ Armed
  /\ context.timer
  /\ context' = [context EXCEPT !.timer = FALSE]
  /\ UNCHANGED <<table, noc, completion, pase, commissioning, breadcrumb, history>>

Expire ==
  /\ Armed
  /\ context.timer
  /\ Close
  /\ UNCHANGED <<pase, commissioning, breadcrumb>>

(* revokeCommissioning closes the window and the context.                  *)
RevokeCommissioning ==
  /\ Sessions # {}
  /\ window
  /\ EndCommissioning
  /\ \/ Armed /\ Close
     \/ ~Armed /\ UNCHANGED <<table, context, noc, completion, history>>
  /\ UNCHANGED <<pase, breadcrumb>>

(* rollback(), after the fabric: the PASE session is marked for closure,   *)
(* and a fabric that has reached the table meanwhile is looked up.         *)
RollbackSessions ==
  /\ Armed
  /\ context.rollback = "sessions"
  /\ pase' = {}
  /\ context' = [context EXCEPT !.rollback = "restore",
                                !.csr = IF @ = PaseId THEN NoId ELSE @,
                                !.found = context.index \in fabrics]
  /\ UNCHANGED <<table, noc, completion, commissioning, breadcrumb, history>>

Restores == context.forUpdateNoc /\ context.associated # NoFabric

Revokes == ~context.forUpdateNoc /\ context.found /\ context.index \in fabrics

RestoreBreadcrumb == breadcrumb' = FALSE

(* rollback() reaches its end: networks, fabric and breadcrumb.            *)
RollbackEnds ==
  /\ Armed
  /\ context.rollback = "restore"
  /\ Restores => context.associated \in fabrics
  /\ fabrics' = IF Revokes THEN fabrics \ {context.index} ELSE fabrics
  /\ stored' = IF Revokes \/ Restores THEN Persisted(fabrics') ELSE stored
  /\ unguarded' = unguarded \cap fabrics'
  /\ Destroyed(fabrics')
  /\ completion' = Orphaned(completion)
  /\ RestoreBreadcrumb
  /\ UNCHANGED <<nextFabricIndex, pase, commissioning, committed, storageFailed>>

(* restoreFabric throws: the fabric is gone, or it has no resumption       *)
(* record.  The breadcrumb is not reset.                                   *)
RollbackThrows ==
  /\ Armed
  /\ context.rollback = "restore"
  /\ Restores
  /\ stored' = IF context.associated \in fabrics THEN Persisted(fabrics) ELSE stored
  /\ Destroyed(fabrics)
  /\ completion' = Rejected(completion)
  /\ UNCHANGED <<fabrics, nextFabricIndex, pase, commissioning, breadcrumb,
                 committed, unguarded, storageFailed>>

-----------------------------------------------------------------------------
(* csrRequest                                                              *)
CsrRequest(s, isForUpdateNoc) ==
  /\ Armed
  /\ ~(isForUpdateNoc /\ s.pase)
  /\ context.index = NoFabric
  /\ context' = [context EXCEPT !.csr = SessionId(s),
                                !.forUpdateNoc = isForUpdateNoc]
  /\ UNCHANGED <<table, noc, completion, pase, commissioning, breadcrumb, history>>

(* addTrustedRootCertificate                                               *)
AddTrustedRootCertificate ==
  /\ Armed
  /\ Sessions # {}
  /\ ~context.rootCert
  /\ context.index = NoFabric
  /\ context' = [context EXCEPT !.rootCert = TRUE]
  /\ UNCHANGED <<table, noc, completion, pase, commissioning, breadcrumb, history>>

(* addNoc up to the key derivation: the index is taken.  At most one       *)
(* command awaits the derivation at a time.                                *)
AddNoc_IndexForgotten(s) ==
  /\ Armed
  /\ noc = {}
  /\ context.rootCert
  /\ context.csr = SessionId(s)
  /\ ~context.forUpdateNoc
  /\ Cardinality(fabrics) < SupportedFabrics
  /\ nextFabricIndex' = After(FreeIndex)
  /\ noc' = {[index |-> FreeIndex, pase |-> s.pase, current |-> TRUE]}
  /\ UNCHANGED <<fabrics, stored, node, context, completion, pase, commissioning,
                 breadcrumb, history>>

AddNoc(s) ==
  /\ Armed
  /\ noc = {}
  /\ context.index = NoFabric
  /\ context.rootCert
  /\ context.csr = SessionId(s)
  /\ ~context.forUpdateNoc
  /\ Cardinality(fabrics) < SupportedFabrics
  /\ context' = [context EXCEPT !.index = FreeIndex]
  /\ nextFabricIndex' = After(FreeIndex)
  /\ noc' = {[index |-> FreeIndex, pase |-> s.pase, current |-> TRUE]}
  /\ UNCHANGED <<fabrics, stored, node, completion, pase,
                 commissioning, breadcrumb, history>>

(* The fabric reaches the table under the context that asked for it.       *)
Guarded(n) ==
  n.current /\ context.failsafe /\ completion = {}

(* addFabric, the "added" event, and the fabric of the PASE session.       *)
FabricBuilt(n) ==
  /\ n.pase => pase \subseteq {NoFabric}
  /\ fabrics' = fabrics \cup {n.index}
  /\ context' = IF n.current
                THEN [context EXCEPT !.monitored = TRUE,
                        !.associated = IF context.failsafe THEN n.index ELSE @]
                ELSE context
  /\ IF Armed THEN UNCHANGED node ELSE Notice(fabrics')
  /\ noc' = noc \ {n}
  /\ pase' = IF n.pase /\ pase # {} THEN {n.index} ELSE pase
  /\ unguarded' = IF Guarded(n) THEN unguarded ELSE unguarded \cup {n.index}
  /\ UNCHANGED <<nextFabricIndex, stored, completion, commissioning, breadcrumb,
                 committed, storageFailed>>

(* addAssociatedFabric throws when the PASE session has a fabric already:  *)
(* the fabric just added is removed again.  Both events are handled after  *)
(* an await: when the first sees the fabric and the second does not, the   *)
(* node was commissioned for a moment, and resets.                         *)
NoticedInBetween ==
  /\ ~Armed /\ fabrics = {}
  /\ commissioned' = FALSE
  /\ resetting' = TRUE
  /\ missed' = FALSE

FabricRefused(n) ==
  /\ n.pase /\ ~(pase \subseteq {NoFabric})
  /\ context' = IF n.current
                THEN [context EXCEPT !.monitored = TRUE,
                        !.associated = IF context.failsafe THEN n.index ELSE @]
                ELSE context
  /\ stored' = Persisted(fabrics)
  /\ noc' = noc \ {n}
  /\ IF Armed /\ ~n.current
     THEN Overlook ELSE Notice(fabrics) \/ NoticedInBetween
  /\ UNCHANGED <<fabrics, nextFabricIndex, completion, pase, commissioning, breadcrumb,
                 committed, unguarded, storageFailed>>

(* The index is still free: it was, and nobody else adds a fabric.         *)
AddNocEnds == \E n \in noc : FabricBuilt(n) \/ FabricRefused(n)

-----------------------------------------------------------------------------
(* removeFabric by any administrator.  A session of the fabric is gone.    *)
RemoveFabric(f) ==
  /\ Sessions # {}
  /\ Remove(f)
  /\ committed' = committed \ {f}
  /\ context' = IF Armed /\ context.csr = f THEN [context EXCEPT !.csr = NoId] ELSE context
  /\ UNCHANGED <<noc, completion, pase, commissioning, breadcrumb, storageFailed>>

(* updateFabricLabel: setLabel() persists the whole table.                 *)
UpdateFabricLabel ==
  /\ \E s \in Sessions : s.fabric \in fabrics
  /\ stored' = Persisted(fabrics)
  /\ IF Armed THEN UNCHANGED node ELSE Notice(fabrics)
  /\ UNCHANGED <<fabrics, nextFabricIndex, context, noc, completion, pase, commissioning,
                 breadcrumb, history>>

-----------------------------------------------------------------------------
(* commissioningComplete is accepted from the fabric of the context.  At   *)
(* most one command awaits at a time.                                      *)
MayComplete(s) ==
  /\ Armed
  /\ completion = {}
  /\ ~s.pase
  /\ s.fabric = context.associated
  /\ context.failsafe

(* ... up to the storage write, which is only made after an AddNOC.        *)
CommissioningComplete_NotStored(s) ==
  /\ MayComplete(s)
  /\ context.index # NoFabric
  /\ context' = [context EXCEPT !.timer = FALSE]
  /\ completion' = {[fabric |-> s.fabric, current |-> TRUE, closes |-> TRUE,
                     stage |-> "persisting"]}
  /\ UNCHANGED <<table, noc, pase, commissioning, breadcrumb, history>>

CommissioningComplete(s) ==
  /\ MayComplete(s)
  /\ context.index # NoFabric
  /\ context' = [context EXCEPT !.timer = FALSE]
  /\ stored' = Persisted(fabrics)
  /\ completion' = {[fabric |-> s.fabric, current |-> TRUE, closes |-> TRUE,
                     stage |-> "persisting"]}
  /\ UNCHANGED <<fabrics, nextFabricIndex, node, noc, pase, commissioning,
                 breadcrumb, history>>

(* The storage write fails: the timers are stopped, the context stays.     *)
CompletionFails(s) ==
  /\ MayComplete(s)
  /\ context.index # NoFabric
  /\ context' = [context EXCEPT !.timer = FALSE]
  /\ storageFailed' = TRUE
  /\ UNCHANGED <<table, noc, completion, pase, commissioning, breadcrumb,
                 committed, unguarded>>

CompleteWithoutNoc(s) ==
  /\ MayComplete(s)
  /\ context.index = NoFabric
  /\ context' = [context EXCEPT !.timer = FALSE, !.failsafe = FALSE]
  /\ completion' = {[fabric |-> s.fabric, current |-> TRUE, closes |-> TRUE, stage |-> "closing"]}
  /\ committed' = committed \cup {s.fabric}
  /\ EndCommissioning
  /\ UNCHANGED <<table, noc, pase, breadcrumb, unguarded, storageFailed>>

(* The write is done: #failsafe = undefined is the point of no return.     *)
(* The window is closed, which awaits the broadcasters.  A completion that *)
(* a revocation has overtaken is answered all the same, but commits        *)
(* nothing.                                                                *)
CompletionPersisted ==
  \E c \in completion :
    /\ c.stage = "persisting"
    /\ completion' = {[c EXCEPT !.stage = "closing"]}
    /\ context' = IF c.current THEN [context EXCEPT !.failsafe = FALSE] ELSE context
    /\ committed' = IF c.current /\ context.rollback = "no"
                    THEN committed \cup ({c.fabric} \cap fabrics) ELSE committed
    /\ EndCommissioning
    /\ UNCHANGED <<table, noc, pase, breadcrumb, unguarded, storageFailed>>

(* The PASE session is marked for closure and the context closed, which    *)
(* waits for a rollback under way.  The breadcrumb is reset, unless that   *)
(* rollback has thrown, and the close with it.                             *)
CompletionEnds ==
  \E c \in completion :
    /\ c.stage = "closing"
    /\ c.current => context.rollback = "no"
    /\ IF c.current
       THEN Destroyed(fabrics)
       ELSE UNCHANGED <<context, noc, node>>
    /\ completion' = {}
    /\ pase' = {}
    /\ breadcrumb' = (breadcrumb /\ ~c.closes)
    /\ UNCHANGED <<fabrics, nextFabricIndex, stored, commissioning, history>>

-----------------------------------------------------------------------------
(* factoryReset() clears the storage and starts the node anew.             *)
FactoryReset ==
  /\ resetting
  /\ Restart([fabrics |-> {}, next |-> 1], {})
  /\ committed' = {}
  /\ unguarded' = {}

(* The process dies: fabrics another write has stored come back, whether   *)
(* their commissioning was completed or not.                               *)
CrashWith(storage, attribute, removed) ==
  /\ Restart(storage, attribute)
  /\ unguarded' = (unguarded \cup (storage.fabrics \ committed)) \cap storage.fabrics
  /\ committed' = committed \ (removed \cup (unguarded \ storage.fabrics))

Crash == CrashWith(stored, Attribute, {})

(* ... between the two writes of a removal: the table is stored, its event *)
(* not yet handled.  The fabric of a refused AddNOC has reached the        *)
(* attribute before the table is stored without it.                        *)
CrashInRemoval ==
  \/ /\ Sessions # {}
     /\ \E f \in fabrics : CrashWith(Persisted(fabrics \ {f}), Attribute, {f})
  \/ \E n \in noc, storage \in {stored, Persisted(fabrics)} :
       /\ n.pase /\ ~(pase \subseteq {NoFabric})
       /\ CrashWith(storage, Attribute \cup {n.index}, {})

Command ==
  \/ OpenWindow \/ PaseOpens \/ PaseCloses
  \/ \E s \in Sessions :
       \/ Arm(s) \/ Extend(s) \/ AddNoc(s)
       \/ CommissioningComplete(s) \/ CompletionFails(s) \/ CompleteWithoutNoc(s)
       \/ \E update \in BOOLEAN : CsrRequest(s, update)
  \/ AddTrustedRootCertificate
  \/ RevokeCommissioning
  \/ UpdateFabricLabel
  \/ \E f \in fabrics : RemoveFabric(f)

Continuation ==
  \/ WindowTimeout \/ Expire
  \/ RollbackSessions \/ RollbackEnds \/ RollbackThrows
  \/ AddNocEnds
  \/ CompletionPersisted \/ CompletionEnds

Next == Command \/ Continuation \/ FactoryReset \/ Crash \/ CrashInRemoval

(* Timers fire, awaited operations end.                                    *)
Fairness ==
  /\ WF_vars(Expire)
  /\ WF_vars(RollbackSessions)
  /\ WF_vars(RollbackEnds \/ RollbackThrows)
  /\ WF_vars(CompletionPersisted)
  /\ WF_vars(CompletionEnds)
  /\ WF_vars(FactoryReset)

Spec == Init /\ [][Next]_vars /\ Fairness

-----------------------------------------------------------------------------
(* Every variable has its type: indices stay in their range, and commands   *)
(* that wait are at an await of theirs.                                    *)
TypeOK ==
  /\ fabrics \subseteq Index
  /\ nextFabricIndex \in Index
  /\ stored \in [fabrics : SUBSET Index, next : Index]
  /\ commissioned \in BOOLEAN
  /\ resetting \in BOOLEAN
  /\ context \in {NoContext} \cup Context
  /\ noc \subseteq [index : Index, pase : BOOLEAN, current : BOOLEAN]
  /\ completion \subseteq [fabric : Index, current : BOOLEAN, closes : BOOLEAN,
                           stage : {"persisting", "closing"}]
  /\ pase \subseteq {NoFabric} \cup Index
  /\ window \in BOOLEAN
  /\ responder \in BOOLEAN
  /\ breadcrumb \in BOOLEAN
  /\ committed \subseteq Index
  /\ unguarded \subseteq Index
  /\ storageFailed \in BOOLEAN
  /\ missed \in BOOLEAN

(* A fabric whose commissioning was not completed is still under the       *)
(* context that will revoke it: expiry, revocation and restart leave no    *)
(* half-commissioned fabric behind.  The exceptions are exactly the        *)
(* fabrics whose AddNOC outlived its context and those that the write of   *)
(* another command had stored before a crash.                              *)
UncommittedIsGuarded ==
  \A f \in fabrics \ committed : f \in unguarded \/ (Armed /\ context.index = f)

(* Once CommissioningComplete is past the point of no return, no expiry,   *)
(* no rollback and no crash takes the fabric away: it is in the table and  *)
(* in the storage until a RemoveFabric.                                    *)
CommittedSurvives ==
  /\ committed \subseteq fabrics
  /\ committed \ unguarded \subseteq stored.fabrics

(* A context with a fail-safe has a running timer, or a completion under   *)
(* way that decides about it: the node is never left armed with nothing    *)
(* to end it, except after a failed write of CommissioningComplete.        *)
ContextIsTimed ==
  Armed /\ context.failsafe =>
    \/ context.timer
    \/ \E c \in completion : c.current /\ c.stage = "persisting"
    \/ storageFailed

(* Outside of commissioning the node believes to be commissioned exactly   *)
(* when it has fabrics (a commissioned node without fabrics resets         *)
(* itself), unless handleFabricChange refused a removal, a fabric outlived *)
(* its context, or a crash has left the attribute and the table different. *)
CommissionedAgrees ==
  ~Armed /\ ~missed /\ ~resetting /\ unguarded = {} => (commissioned <=> fabrics # {})

(* However often it is extended, a fail-safe ends: the cumulative timer    *)
(* fires, and rollback and completion run to their end.                    *)
FailsafeEnds == Armed ~> (~Armed \/ storageFailed)

(* What the comment in rollback() promises: on expiry all of its steps are *)
(* performed.                                                              *)
RollbackIsComplete == ~Armed => ~breadcrumb

=============================================================================
