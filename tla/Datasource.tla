------------------------------- MODULE Datasource -------------------------------
(***************************************************************************)
(* Transactional state of behaviors: behavior/state/managed/Datasource.ts, *)
(* with the persistence behind it (endpoint/storage/DatasourceStore.ts,    *)
(* node/server/storage/ServerPartStore.ts), on top of Transaction.         *)
(*                                                                         *)
(* A datasource is a lockable resource and, for each transaction that      *)
(* writes it, a participant of the same name.  Its value stands for the    *)
(* struct of its fields, all of them persistent and observed.  The         *)
(* datasources share one part store, which joins a transaction as the      *)
(* participant Store when a value has to be persisted.                     *)
(***************************************************************************)
EXTENDS Transaction

CONSTANTS
    Value,       \* the values a datasource may have
    None,        \* no value: undefined in the code
    Store,       \* the participant of the part store
    MaxVersion   \* bound: commits that change a datasource

ASSUME ParticipantAssumption == /\ Participant = Resource \cup {Store}
                                /\ Store \notin Resource
                                /\ None \notin Value \cup Resource

ASSUME VersionAssumption == MaxVersion \in Nat

VARIABLES
    canonical,   \* internals.values
    version,     \* internals.version
    working,     \* values of a session that differ from internals.values in identity
    precommit,   \* precommitValues of a session
    changed,     \* the datasources whose session has changes to apply
    handling,    \* the datasource whose event observers a commit is running
    inRoles,     \* Tx.#roles holds a storage participant
    mutations,   \* mutations of that storage participant
    unwritten,   \* datasources ServerPartStore.set() has yet to write
    stored,      \* the persisted values
    lost         \* history: the last change of the datasource did not reach the store

sessionVars == <<working, precommit, changed, handling>>
storeVars == <<inRoles, mutations, unwritten, stored, lost>>
dsVars == <<canonical, version, sessionVars, storeVars>>
allVars == <<vars, dsVars>>

(* A session's copy, with the value and version it was cloned from. *)
Copy == [value : Value, base : Value, version : 0..MaxVersion]

(* Types of the transactions and of the state of the datasources' sessions. *)
DatasourceTypeOK ==
    /\ TypeOK
    /\ canonical \in [Resource -> Value]
    /\ version \in [Resource -> 0..MaxVersion]
    /\ working \in [Tx -> [Resource -> Copy \cup {None}]]
    /\ precommit \in [Tx -> [Resource -> Value \cup {None}]]
    /\ changed \in [Tx -> SUBSET Resource]
    /\ handling \in [Tx -> Resource \cup {None}]
    /\ inRoles \in [Tx -> BOOLEAN]
    /\ mutations \in [Tx -> [Resource -> Value \cup {None}]]
    /\ unwritten \in [Tx -> SUBSET Resource]
    /\ stored \in [Resource -> Value]
    /\ lost \in [Resource -> BOOLEAN]

Nothing == [d \in Resource |-> None]

DatasourceInit ==
    /\ Init
    /\ \E v \in Value : canonical = [d \in Resource |-> v]
    /\ version = [d \in Resource |-> 0]
    /\ working = [t \in Tx |-> Nothing]
    /\ precommit = [t \in Tx |-> Nothing]
    /\ changed = [t \in Tx |-> {}]
    /\ handling = [t \in Tx |-> None]
    /\ inRoles = [t \in Tx |-> FALSE]
    /\ mutations = [t \in Tx |-> Nothing]
    /\ unwritten = [t \in Tx |-> {}]
    /\ stored = canonical
    /\ lost = [d \in Resource |-> FALSE]

-----------------------------------------------------------------------------
(* Reading and writing in a session *)

(* What the session of t reads. *)
View(t, d) == IF working[t][d] = None THEN canonical[d] ELSE working[t][d].value

(* The actor, or an observer of an event of the commit, is running. *)
InSession(t) == InUserCode(t) /\ (pc[t] = "actor" \/ handling[t] # None)

(* change(): the value is cloned unless it has been, then mutated. *)
Mutate(t, d, v) ==
    LET copy == working[t][d] IN
    working' = [working EXCEPT ![t][d] =
        IF copy = None THEN [value |-> v, base |-> canonical[d], version |-> version[d]]
                       ELSE [copy EXCEPT !.value = v]]

Join(t, d) ==
    /\ resources' = [resources EXCEPT ![t] = @ \cup {d}]
    /\ participants' = [participants EXCEPT ![t] = @ \cup {d}]
    /\ pending' = [pending EXCEPT
           ![t] = IF pc[t] = "preCommit" /\ d \notin participants[t] THEN @ \cup {d} ELSE @]

(* Mutant: writes without joining the transaction. *)
Change_NoLock(t, d, v) ==
    /\ InSession(t)
    /\ v # View(t, d)
    /\ Mutate(t, d, v)
    /\ UNCHANGED <<vars, canonical, version, precommit, changed, handling, storeVars>>

(* change() of a reference: startWrite() joins the transaction as resource   *)
(* and participant and makes it exclusive, then the value is changed.        *)
Change(t, d, v) ==
    /\ InSession(t)
    /\ v # View(t, d)
    /\ \/ status[t] = "Exclusive" /\ AcquireLocksSync(t, {d})
       \/ status[t] = "Shared" /\ AcquireLocksSync(t, resources[t] \cup {d})
    /\ status' = [status EXCEPT ![t] = "Exclusive"]
    /\ Join(t, d)
    /\ Mutate(t, d, v)
    /\ UNCHANGED <<pc, acquiring, waitingOn, cycles, mayHaveMutated, aborted, actVars>>
    /\ UNCHANGED <<canonical, version, precommit, changed, handling, storeVars>>

(* The locks of a shared transaction conflict: startWrite() throws when it   *)
(* has joined the transaction already.                                       *)
ChangeConflicts(t, d) ==
    /\ InSession(t)
    /\ status[t] = "Shared"
    /\ BlockedBy(t, resources[t] \cup {d}) # {}
    /\ Join(t, d)
    /\ UNCHANGED <<status, pc, lockVars, cycles, mayHaveMutated, aborted, actVars, dsVars>>

(* A reactor, or the actor, locks before it writes. *)
Lock(t) ==
    /\ InSession(t)
    /\ (\E d \in Resource : AddResources(t, {d})) \/ Begin(t)
    /\ UNCHANGED dsVars

-----------------------------------------------------------------------------
(* Rollback *)

(* The variable changes, which each commit computes anew. *)
EndCommit(t) == changed' = [changed EXCEPT ![t] = {}]

(* rollback() of the participants: datasources return to the canonical       *)
(* value.  commit1() of a datasource and of the store cannot fail, so no     *)
(* rollback meets a storage participant, which joins in phase one.           *)
RollbackParticipants(t) ==
    /\ working' = [working EXCEPT ![t] =
           [d \in Resource |-> IF d \in participants[t] THEN None ELSE working[t][d]]]
    /\ handling' = [handling EXCEPT ![t] = None]
    /\ EndCommit(t)

(* The listener on the shared event drops what a session may still hold. *)
Refresh(t) == working' = [working EXCEPT ![t] = Nothing]

RollsBack(t) ==
    /\ \/ Rollback(t)
       \/ ActorThrows(t)
       \/ PreCommitFails(t) /\ handling[t] # None
    /\ RollbackParticipants(t)
    /\ UNCHANGED <<canonical, version, precommit, storeVars>>

RollbackEnds(t) ==
    /\ RolledBack(t)
    /\ Refresh(t)
    /\ UNCHANGED <<canonical, version, precommit, changed, handling, storeVars>>

AbortEnds(t) == PreCommitAborted(t) /\ UNCHANGED dsVars

-----------------------------------------------------------------------------
(* Pre-commit *)

(* Mutant: settled or not, the pass just made is the last. *)
PreCommitReturns_NoSettling(t, d) ==
    /\ \/ handling[t] = d /\ PreCommit(t, d, FALSE)
       \/ handling[t] = None /\ PreCommit(t, d, FALSE)
    /\ handling' = [handling EXCEPT ![t] = None]
    /\ UNCHANGED <<canonical, version, working, precommit, changed, storeVars>>

(* commit() by the actor, or by act() once or again; a shared transaction    *)
(* is rolled back.                                                           *)
StartsCommit(t) ==
    /\ Commit(t) \/ ActorReturns(t) \/ AfterCommit(t)
    /\ \/ /\ pc'[t] = "rollback"
          /\ RollbackParticipants(t)
       \/ /\ pc'[t] \in {"preCommit", "actor", "close"}
          /\ EndCommit(t)
          /\ UNCHANGED <<working, handling>>
    /\ UNCHANGED <<canonical, version, precommit, storeVars>>

(* computePreCommitChange(): the value differs from what was announced last  *)
(* or, if nothing was, from the canonical value.                             *)
PreCommitChange(t, d) ==
    View(t, d) # IF precommit[t][d] # None THEN precommit[t][d] ELSE canonical[d]

(* preCommit() of d emits the changing event. *)
Announce(t, d) ==
    /\ pc[t] = "preCommit" /\ acquiring[t] = {} /\ handling[t] = None
    /\ d \in pending[t]
    /\ PreCommitChange(t, d)
    /\ precommit' = [precommit EXCEPT ![t][d] = View(t, d)]
    /\ handling' = [handling EXCEPT ![t] = d]
    /\ UNCHANGED <<vars, canonical, version, working, changed, storeVars>>

(* preCommit() of d ends, having emitted or with nothing to emit. *)
PreCommitReturns(t, d) ==
    /\ \/ handling[t] = d /\ PreCommit(t, d, TRUE)
       \/ handling[t] = None /\ ~PreCommitChange(t, d) /\ PreCommit(t, d, FALSE)
    /\ handling' = [handling EXCEPT ![t] = None]
    /\ UNCHANGED <<canonical, version, working, precommit, changed, storeVars>>

(* The next pre-commit cycle, or the rollback after the last one. *)
Cycles(t) ==
    /\ NextCycle(t)
    /\ \/ pc'[t] = "preCommit" /\ UNCHANGED sessionVars
       \/ pc'[t] = "abort" /\ RollbackParticipants(t) /\ UNCHANGED precommit
    /\ UNCHANGED <<canonical, version, storeVars>>

-----------------------------------------------------------------------------
(* Commit *)

(* The participants whose value differs from the canonical one. *)
Changes(t) ==
    {d \in Resource \cap participants[t] :
        working[t][d] # None /\ working[t][d].value # canonical[d]}

(* Mutant: the part store is written in phase one. *)
CommitsPhaseOne_Persists(t) ==
    /\ CommitPhaseOne(t, {})
    /\ changed' = [changed EXCEPT ![t] = Changes(t)]
    /\ stored' = [d \in Resource |-> IF d \in Changes(t) THEN working[t][d].value ELSE stored[d]]
    /\ UNCHANGED <<canonical, version, working, precommit, handling>>
    /\ UNCHANGED <<inRoles, mutations, unwritten, lost>>

(* commit1() of every datasource: the changes are computed, the version      *)
(* moves on, and DatasourceStore.set() hands the new values to the storage   *)
(* participant in the transaction's roles or else to a new one, which joins. *)
(* The roles outlive the commit, the participants do not: values handed to   *)
(* the participant of an earlier commit reach nobody.                        *)
CommitsPhaseOne(t) ==
    LET C == Changes(t) IN
    /\ \A d \in C : version[d] < MaxVersion
    /\ CommitPhaseOne(t, IF C # {} /\ ~inRoles[t] THEN {Store} ELSE {})
    /\ changed' = [changed EXCEPT ![t] = C]
    /\ version' = [d \in Resource |-> IF d \in C THEN version[d] + 1 ELSE version[d]]
    /\ inRoles' = [inRoles EXCEPT ![t] = @ \/ C # {}]
    /\ mutations' = [mutations EXCEPT ![t] =
           [d \in Resource |-> IF d \in C /\ ~inRoles[t] THEN working[t][d].value ELSE None]]
    /\ UNCHANGED <<canonical, working, precommit, handling, unwritten, stored, lost>>

(* commit2() of every participant: the values of the session become          *)
(* canonical at once; the storage participant starts to write its mutations. *)
CommitsPhaseTwo(t) ==
    /\ CommitPhaseTwo(t)
    /\ canonical' = [d \in Resource |->
           IF d \in changed[t] THEN working[t][d].value ELSE canonical[d]]
    /\ working' = [working EXCEPT ![t] =
           [d \in Resource |-> IF d \in changed[t] THEN None ELSE working[t][d]]]
    /\ unwritten' = [unwritten EXCEPT ![t] =
           IF Store \in participants[t] THEN {d \in Resource : mutations[t][d] # None} ELSE {}]
    /\ lost' = [d \in Resource |-> lost[d] \/ (d \in changed[t] /\ Store \notin participants[t])]
    /\ UNCHANGED <<version, precommit, changed, handling, inRoles, mutations, stored>>

(* ServerPartStore.set() writes one behavior after the other. *)
StoreWrites(t, d) ==
    /\ pc[t] = "commit2"
    /\ d \in unwritten[t]
    /\ stored' = [stored EXCEPT ![d] = mutations[t][d]]
    /\ unwritten' = [unwritten EXCEPT ![t] = @ \ {d}]
    /\ lost' = [lost EXCEPT ![d] = FALSE]
    /\ UNCHANGED <<vars, canonical, version, sessionVars, inRoles, mutations>>

(* Mutant: does not wait for the writes. *)
CommitEnds_Early(t) ==
    /\ Committed(t)
    /\ Refresh(t)
    /\ mutations' = [mutations EXCEPT ![t] = Nothing]
    /\ UNCHANGED <<canonical, version, precommit, changed, handling>>
    /\ UNCHANGED <<inRoles, unwritten, stored, lost>>

CommitEnds(t) ==
    /\ unwritten[t] = {}
    /\ Committed(t)
    /\ Refresh(t)
    /\ mutations' = [mutations EXCEPT ![t] = Nothing]
    /\ UNCHANGED <<canonical, version, precommit, changed, handling>>
    /\ UNCHANGED <<inRoles, unwritten, stored, lost>>

(* A write to the store fails: the rest is not written. *)
StoreFails(t) ==
    /\ unwritten[t] # {}
    /\ CommitPhaseTwoFails(t)
    /\ Refresh(t)
    /\ lost' = [d \in Resource |-> lost[d] \/ d \in unwritten[t]]
    /\ unwritten' = [unwritten EXCEPT ![t] = {}]
    /\ mutations' = [mutations EXCEPT ![t] = Nothing]
    /\ EndCommit(t)
    /\ UNCHANGED <<canonical, version, precommit, handling, inRoles, stored>>

(* postCommit() of d emits the changed event. *)
EmitChanged(t, d) ==
    /\ pc[t] = "postCommit" /\ acquiring[t] = {} /\ handling[t] = None
    /\ d \in pending[t] \cap changed[t]
    /\ handling' = [handling EXCEPT ![t] = d]
    /\ UNCHANGED <<vars, canonical, version, working, precommit, changed, storeVars>>

PostCommitReturns(t, d) ==
    /\ \/ handling[t] = d /\ \E failed \in BOOLEAN : PostCommit(t, d, failed)
       \/ handling[t] = None /\ d \notin changed[t] /\ PostCommit(t, d, FALSE)
    /\ handling' = [handling EXCEPT ![t] = None]
    /\ UNCHANGED <<canonical, version, working, precommit, changed, storeVars>>

(* The references of the closed transaction expire. *)
Expire(t) ==
    /\ Close(t)
    /\ working' = [working EXCEPT ![t] = Nothing]
    /\ precommit' = [precommit EXCEPT ![t] = Nothing]
    /\ EndCommit(t)
    /\ inRoles' = [inRoles EXCEPT ![t] = FALSE]
    /\ mutations' = [mutations EXCEPT ![t] = Nothing]
    /\ UNCHANGED <<canonical, version, handling, unwritten, stored, lost>>

LockGranted(t) == Resume(t) /\ UNCHANGED dsVars

DatasourceStep(t) ==
    \/ \E d \in Resource :
          \/ \E v \in Value : Change(t, d, v)
          \/ ChangeConflicts(t, d)
          \/ Announce(t, d)
          \/ PreCommitReturns(t, d)
          \/ StoreWrites(t, d)
          \/ EmitChanged(t, d)
          \/ PostCommitReturns(t, d)
    \/ Lock(t)
    \/ LockGranted(t)
    \/ RollsBack(t)
    \/ RollbackEnds(t)
    \/ AbortEnds(t)
    \/ StartsCommit(t)
    \/ Cycles(t)
    \/ CommitsPhaseOne(t)
    \/ CommitsPhaseTwo(t)
    \/ CommitEnds(t)
    \/ StoreFails(t)
    \/ Expire(t)

DatasourceNext == \E t \in Tx : DatasourceStep(t)

DatasourceSpec == DatasourceInit /\ [][DatasourceNext]_allVars

-----------------------------------------------------------------------------
(* Properties *)

(* No lost update and no dirty write: while a session has changes of its own *)
(* it holds the lock, and the canonical value is still the one it cloned.    *)
NoLostUpdate ==
    \A t \in Tx, d \in Resource :
        working[t][d] # None => lockedBy[d] = t /\ working[t][d].base = canonical[d]

(* Pre-commit ran until every observer saw the value that is committed.      *)
SettledBeforeCommit ==
    \A t \in Tx : status[t] = "CommittingPhaseOne" =>
        \A d \in changed[t] : precommit[t][d] = working[t][d].value

(* The store only ever receives a value that is canonical: nothing that a    *)
(* rollback could still take back, nothing that was overwritten since.       *)
OnlyCommittedStored ==
    [][\A d \in Resource : stored'[d] # stored[d] => stored'[d] = canonical[d]]_allVars

(* A change that was committed is persisted by the time the lock is free     *)
(* (Datasource: "they compute changes and persist values as necessary"),     *)
(* unless a write failed or the change was handed to the storage participant *)
(* of an earlier commit of the transaction.                                  *)
CommittedIsPersisted ==
    \A d \in Resource : lockedBy[d] = NoTx /\ ~lost[d] => stored[d] = canonical[d]
=============================================================================
