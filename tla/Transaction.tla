------------------------------ MODULE Transaction ------------------------------
(***************************************************************************)
(* Transactions of the behavior state layer: behavior/state/transaction/   *)
(* Tx.ts and ResourceSet.ts.                                               *)
(*                                                                         *)
(* A transaction is opened by act(), which runs an actor, commits what the *)
(* actor changed and closes the transaction.  Writing needs exclusive      *)
(* locks on every resource that joined the transaction; locks are taken    *)
(* synchronously (and conflict) or by waiting for the holders (with        *)
(* deadlock detection).  A commit runs pre-commit handlers until they      *)
(* settle, two commit phases and post-commit handlers; each of these may   *)
(* be asynchronous, so the steps of different transactions interleave.     *)
(*                                                                         *)
(* One step of the model is one run of JavaScript up to the next await.    *)
(* The continuation that follows a granted lock request (status becomes    *)
(* exclusive, the resources join) is part of the step that grants it: no   *)
(* other transaction reads the fields it sets.  An actor, and a handler,   *)
(* awaits each asynchronous operation of its transaction before the next.  *)
(***************************************************************************)
EXTENDS Naturals

CONSTANTS
    Tx,                  \* transactions, one per call of act()
    NoTx,                \* the value of lockedBy on an unlocked resource
    Resource,            \* lockable resources
    Participant,         \* participants, by their (unique) identity
    MaxPreCommitCycles,  \* MAX_PRECOMMIT_CYCLES
    MaxChainedCommits    \* MAX_CHAINED_COMMITS

ASSUME NoTxAssumption == NoTx \notin Tx
ASSUME LimitsAssumption == /\ MaxPreCommitCycles \in Nat \ {0}
                           /\ MaxChainedCommits \in Nat \ {0}

VARIABLES
    status,        \* Tx.#status
    pc,            \* what act() and commit() of the transaction are doing
    resources,     \* Tx.#resources
    participants,  \* Tx.#participants
    lockedBy,      \* Resource.lockedBy
    acquiring,     \* the resources a suspended acquireLocks() is waiting for
    waitingOn,     \* Tx.#waitingOn
    commits,       \* the variable of this name in act()
    finishing,     \* act() has left the actor: it closes the transaction next
    cycles,        \* the variable of this name in #executePreCommit()
    mayHaveMutated,\* the variable of this name in #executePreCommit()
    pending,       \* participants the current pre- or post-commit pass has to call
    aborted        \* history: the last commit ended without the cleanup of #finalize

lockVars == <<lockedBy, acquiring, waitingOn>>
memberVars == <<resources, participants>>
commitVars == <<cycles, mayHaveMutated, pending, aborted>>
actVars == <<commits, finishing>>
vars == <<status, pc, memberVars, lockVars, commitVars, actVars>>

Status == {"Shared", "Waiting", "Exclusive", "CommittingPhaseOne",
           "CommittingPhaseTwo", "RollingBack", "Destroyed"}

Location == {"actor", "preCommit", "commit1", "commit2", "postCommit",
             "rollback", "abort", "close", "closed"}

(* The states in which a transaction promises isolation. *)
Locking == {"Exclusive", "CommittingPhaseOne", "CommittingPhaseTwo"}

(* Types of the fields; pre-commit cycles and commits stay within their limits. *)
TypeOK ==
    /\ status \in [Tx -> Status]
    /\ pc \in [Tx -> Location]
    /\ resources \in [Tx -> SUBSET Resource]
    /\ participants \in [Tx -> SUBSET Participant]
    /\ lockedBy \in [Resource -> Tx \cup {NoTx}]
    /\ acquiring \in [Tx -> SUBSET Resource]
    /\ waitingOn \in [Tx -> SUBSET Tx]
    /\ commits \in [Tx -> 0..(MaxChainedCommits + 1)]
    /\ finishing \in [Tx -> BOOLEAN]
    /\ cycles \in [Tx -> 1..MaxPreCommitCycles]
    /\ mayHaveMutated \in [Tx -> BOOLEAN]
    /\ pending \in [Tx -> SUBSET Participant]
    /\ aborted \in [Tx -> BOOLEAN]

(* Every transaction starts in its actor, new and without resources. *)
Init ==
    /\ status = [t \in Tx |-> "Shared"]
    /\ pc = [t \in Tx |-> "actor"]
    /\ resources = [t \in Tx |-> {}]
    /\ participants = [t \in Tx |-> {}]
    /\ lockedBy = [r \in Resource |-> NoTx]
    /\ acquiring = [t \in Tx |-> {}]
    /\ waitingOn = [t \in Tx |-> {}]
    /\ commits = [t \in Tx |-> 0]
    /\ finishing = [t \in Tx |-> FALSE]
    /\ cycles = [t \in Tx |-> 1]
    /\ mayHaveMutated = [t \in Tx |-> FALSE]
    /\ pending = [t \in Tx |-> {}]
    /\ aborted = [t \in Tx |-> FALSE]

-----------------------------------------------------------------------------
(* Locks: ResourceSet *)

(* The transactions that hold a resource of R against t. *)
BlockedBy(t, R) == {lockedBy[r] : r \in R} \ {t, NoTx}

(* A set that follows every edge of the wait graph that leaves it. *)
ClosedUnderWait(S) == \A u \in S : waitingOn[u] \subseteq S

(* The transactions the depth-first search of #detectDeadlock examines from *)
(* the blockers B: the least set that contains B and follows waitingOn.     *)
Examined(B) ==
    {u \in Tx : \A S \in SUBSET Tx : B \subseteq S /\ ClosedUnderWait(S) => u \in S}

(* Mutant: looks only at blockers whose begin() waits, not at exclusive ones *)
(* whose addResources() does.                                                *)
DetectDeadlock_OnlyBegin(t, B) == t \in Examined({u \in B : status[u] = "Waiting"})

DetectDeadlock(t, B) == t \in Examined(B)

(* Mutant: does not look whether another transaction holds a lock. *)
AcquireLocksSync_Unchecked(t, R) ==
    lockedBy' = [r \in Resource |-> IF r \in R THEN t ELSE lockedBy[r]]

(* acquireLocksSync(): all of R or nothing. *)
AcquireLocksSync(t, R) ==
    /\ BlockedBy(t, R) = {}
    /\ lockedBy' = [r \in Resource |-> IF r \in R THEN t ELSE lockedBy[r]]

(* releaseLocks() on the resources of t *)
ReleaseLocks(t) ==
    lockedBy' = [r \in Resource |->
        IF r \in resources[t] /\ lockedBy[r] = t THEN NoTx ELSE lockedBy[r]]

(* One round of acquireLocks() for R by t, entered with status s: lock R and *)
(* let its resources join, fail on a deadlock, or wait for the blockers.     *)
(* begin() enters it Waiting and falls back to Shared when it fails;         *)
(* addResources() enters it Exclusive and stays so.                          *)
AcquireLocks(t, R, s) ==
    \/ /\ AcquireLocksSync(t, R)
       /\ status' = [status EXCEPT ![t] = "Exclusive"]
       /\ resources' = [resources EXCEPT ![t] = @ \cup R]
       /\ acquiring' = [acquiring EXCEPT ![t] = {}]
       /\ UNCHANGED waitingOn
    \/ /\ BlockedBy(t, R) # {}
       /\ DetectDeadlock(t, BlockedBy(t, R))
       /\ status' = [status EXCEPT ![t] = IF s = "Waiting" THEN "Shared" ELSE s]
       /\ acquiring' = [acquiring EXCEPT ![t] = {}]
       /\ UNCHANGED <<resources, lockedBy, waitingOn>>
    \/ /\ BlockedBy(t, R) # {}
       /\ ~DetectDeadlock(t, BlockedBy(t, R))
       /\ status' = [status EXCEPT ![t] = s]
       /\ acquiring' = [acquiring EXCEPT ![t] = R]
       /\ waitingOn' = [waitingOn EXCEPT ![t] = BlockedBy(t, R)]
       /\ UNCHANGED <<resources, lockedBy>>

(* The last blocker has gone: the loop of acquireLocks() looks again. *)
Resume(t) ==
    /\ acquiring[t] # {}
    /\ waitingOn[t] = {}
    /\ AcquireLocks(t, acquiring[t], status[t])
    /\ UNCHANGED <<pc, participants, commitVars, actVars>>

-----------------------------------------------------------------------------
(* What the actor and the commit handlers do with their transaction.  A     *)
(* handler runs on behalf of a participant of the current pass.             *)

InUserCode(t) ==
    /\ acquiring[t] = {}
    /\ \/ pc[t] = "actor"
       \/ pc[t] \in {"preCommit", "postCommit"} /\ pending[t] # {}

AddResources(t, R) ==
    /\ InUserCode(t)
    /\ \/ /\ status[t] = "Exclusive"
          /\ AcquireLocks(t, R, "Exclusive")
       \/ /\ status[t] = "Shared"
          /\ resources' = [resources EXCEPT ![t] = @ \cup R]
          /\ UNCHANGED <<status, lockVars>>
    /\ UNCHANGED <<pc, participants, commitVars, actVars>>

(* A conflict throws before anything changes. *)
AddResourcesSync(t, R) ==
    /\ InUserCode(t)
    /\ \/ /\ status[t] = "Exclusive"
          /\ AcquireLocksSync(t, R)
       \/ /\ status[t] = "Shared"
          /\ UNCHANGED lockedBy
    /\ resources' = [resources EXCEPT ![t] = @ \cup R]
    /\ UNCHANGED <<status, pc, participants, acquiring, waitingOn, commitVars, actVars>>

Begin(t) ==
    /\ InUserCode(t)
    /\ status[t] = "Shared"
    /\ AcquireLocks(t, resources[t], "Waiting")
    /\ UNCHANGED <<pc, participants, commitVars, actVars>>

(* Mutant: becomes exclusive without the locks. *)
BeginSync_NoLock(t) ==
    /\ InUserCode(t)
    /\ status[t] = "Shared"
    /\ status' = [status EXCEPT ![t] = "Exclusive"]
    /\ UNCHANGED <<pc, memberVars, lockVars, commitVars, actVars>>

(* A conflict throws and leaves the transaction shared. *)
BeginSync(t) ==
    /\ InUserCode(t)
    /\ status[t] = "Shared"
    /\ AcquireLocksSync(t, resources[t])
    /\ status' = [status EXCEPT ![t] = "Exclusive"]
    /\ UNCHANGED <<pc, memberVars, acquiring, waitingOn, commitVars, actVars>>

(* The pre-commit pass iterates over the live set, so a participant that    *)
(* joins during the pass is called in the same pass.                        *)
AddParticipants(t, p) ==
    /\ InUserCode(t)
    /\ p \notin participants[t]
    /\ participants' = [participants EXCEPT ![t] = @ \cup {p}]
    /\ pending' = [pending EXCEPT ![t] = IF pc[t] = "preCommit" THEN @ \cup {p} ELSE @]
    /\ UNCHANGED <<status, pc, resources, lockVars, cycles, mayHaveMutated, aborted, actVars>>

-----------------------------------------------------------------------------
(* Commit and rollback: Tx *)

(* Where control goes when a commit or rollback ends, by return or by throw. *)
Caller(t) == IF finishing[t] THEN "close" ELSE "actor"

(* Mutant: does not emit the shared event. *)
Cleanup_Silent(t) ==
    /\ ReleaseLocks(t)
    /\ participants' = [participants EXCEPT ![t] = {}]
    /\ status' = [status EXCEPT ![t] = "Shared"]
    /\ aborted' = [aborted EXCEPT ![t] = FALSE]
    /\ UNCHANGED waitingOn

(* cleanup() of #finalize: release the locks, drop the participants and tell *)
(* the waiters, each of which deletes t from the set it waits on.            *)
Cleanup(t) ==
    /\ ReleaseLocks(t)
    /\ participants' = [participants EXCEPT ![t] = {}]
    /\ status' = [status EXCEPT ![t] = "Shared"]
    /\ aborted' = [aborted EXCEPT ![t] = FALSE]
    /\ waitingOn' = [u \in Tx |-> waitingOn[u] \ {t}]

(* #executeRollback() has called rollback() of every participant and awaits *)
(* them; loc tells whether #finalize or #executePreCommit called it.         *)
ExecuteRollback(t, loc) ==
    /\ status' = [status EXCEPT ![t] = "RollingBack"]
    /\ pc' = [pc EXCEPT ![t] = loc]

(* The variables of a pass over the participants when it starts (over rest)  *)
(* or, as they go out of scope, when it ends (rest is empty).                *)
Pass(t, cycle, rest) ==
    /\ cycles' = [cycles EXCEPT ![t] = cycle]
    /\ mayHaveMutated' = [mayHaveMutated EXCEPT ![t] = FALSE]
    /\ pending' = [pending EXCEPT ![t] = rest]

(* commit(): a shared transaction is rolled back to reset it, an exclusive  *)
(* one enters the first pre-commit cycle.                                    *)
StartCommit(t) ==
    \/ /\ status[t] = "Shared"
       /\ ExecuteRollback(t, "rollback")
       /\ UNCHANGED <<cycles, mayHaveMutated, pending>>
    \/ /\ status[t] = "Exclusive"
       /\ pc' = [pc EXCEPT ![t] = "preCommit"]
       /\ Pass(t, 1, participants[t])
       /\ UNCHANGED status

InActor(t) == pc[t] = "actor" /\ acquiring[t] = {}

(* The actor commits or rolls back in the middle of its work. *)
Commit(t) ==
    /\ InActor(t)
    /\ StartCommit(t)
    /\ UNCHANGED <<memberVars, lockVars, aborted, actVars>>

Rollback(t) ==
    /\ InActor(t)
    /\ ExecuteRollback(t, "rollback")
    /\ UNCHANGED <<memberVars, lockVars, commitVars, actVars>>

(* A participant's pre-commit handler completes and reports whether it may   *)
(* have changed state.                                                       *)
PreCommit(t, p, mutated) ==
    /\ pc[t] = "preCommit"
    /\ acquiring[t] = {}
    /\ p \in pending[t]
    /\ pending' = [pending EXCEPT ![t] = @ \ {p}]
    /\ mayHaveMutated' = [mayHaveMutated EXCEPT ![t] = @ \/ mutated]
    /\ UNCHANGED <<status, pc, memberVars, lockVars, cycles, aborted, actVars>>

(* A handler fails: roll the participants back, outside #finalize. *)
PreCommitFails(t) ==
    /\ pc[t] = "preCommit"
    /\ acquiring[t] = {}
    /\ pending[t] # {}
    /\ ExecuteRollback(t, "abort")
    /\ Pass(t, 1, {})
    /\ UNCHANGED <<memberVars, lockVars, aborted, actVars>>

(* Mutant: the limit is not enforced. *)
NextCycle_Unlimited(t) ==
    /\ pc[t] = "preCommit" /\ acquiring[t] = {}
    /\ pending[t] = {}
    /\ mayHaveMutated[t]
    /\ Pass(t, cycles[t] + 1, participants[t])
    /\ UNCHANGED <<status, pc, memberVars, lockVars, aborted, actVars>>

(* The pass is over but state may have changed: run another one, up to the  *)
(* limit, then give up as on an error.                                       *)
NextCycle(t) ==
    /\ pc[t] = "preCommit" /\ acquiring[t] = {}
    /\ pending[t] = {}
    /\ mayHaveMutated[t]
    /\ \/ /\ cycles[t] < MaxPreCommitCycles
          /\ Pass(t, cycles[t] + 1, participants[t])
          /\ UNCHANGED <<status, pc>>
       \/ /\ cycles[t] = MaxPreCommitCycles
          /\ ExecuteRollback(t, "abort")
          /\ Pass(t, 1, {})
    /\ UNCHANGED <<memberVars, lockVars, aborted, actVars>>

(* The rollback of a failed pre-commit is over.  There is no cleanup here:  *)
(* the locks, the participants and the waiters stay.                         *)
PreCommitAborted(t) ==
    /\ pc[t] = "abort"
    /\ status' = [status EXCEPT ![t] = "Shared"]
    /\ pc' = [pc EXCEPT ![t] = Caller(t)]
    /\ aborted' = [aborted EXCEPT ![t] = TRUE]
    /\ UNCHANGED <<memberVars, lockVars, cycles, mayHaveMutated, pending, actVars>>

(* Pre-commit settled: commit1() of every participant is called.  joined    *)
(* are the participants that commit1() of others adds (the stores).  The     *)
(* post-commit pass will be over the participants known before that.         *)
CommitPhaseOne(t, joined) ==
    /\ pc[t] = "preCommit" /\ acquiring[t] = {}
    /\ pending[t] = {}
    /\ ~mayHaveMutated[t]
    /\ status' = [status EXCEPT ![t] = "CommittingPhaseOne"]
    /\ pc' = [pc EXCEPT ![t] = "commit1"]
    /\ participants' = [participants EXCEPT ![t] = @ \cup joined]
    /\ Pass(t, 1, participants[t])
    /\ UNCHANGED <<resources, lockVars, aborted, actVars>>

(* A participant failed phase one: all are rolled back, inside #finalize. *)
CommitPhaseOneFails(t) ==
    /\ pc[t] = "commit1"
    /\ participants[t] # {}
    /\ ExecuteRollback(t, "rollback")
    /\ Pass(t, 1, {})
    /\ UNCHANGED <<memberVars, lockVars, aborted, actVars>>

(* Phase one is over: commit2() of every participant is called. *)
CommitPhaseTwo(t) ==
    /\ pc[t] = "commit1"
    /\ status' = [status EXCEPT ![t] = "CommittingPhaseTwo"]
    /\ pc' = [pc EXCEPT ![t] = "commit2"]
    /\ UNCHANGED <<memberVars, lockVars, commitVars, actVars>>

(* Every participant finished phase two. *)
Committed(t) ==
    /\ pc[t] = "commit2"
    /\ Cleanup(t)
    /\ pc' = [pc EXCEPT ![t] = "postCommit"]
    /\ UNCHANGED <<resources, acquiring, cycles, mayHaveMutated, pending, actVars>>

(* Mutant: an error in phase two skips the cleanup. *)
CommitPhaseTwoFails_NoCleanup(t) ==
    /\ pc[t] = "commit2"
    /\ participants[t] # {}
    /\ status' = [status EXCEPT ![t] = "Shared"]
    /\ Pass(t, 1, {})
    /\ pc' = [pc EXCEPT ![t] = Caller(t)]
    /\ UNCHANGED <<memberVars, lockVars, aborted, actVars>>

(* Some participant failed phase two: the others stay committed and commit() *)
(* throws, so there is no post-commit.                                       *)
CommitPhaseTwoFails(t) ==
    /\ pc[t] = "commit2"
    /\ participants[t] # {}
    /\ Cleanup(t)
    /\ Pass(t, 1, {})
    /\ pc' = [pc EXCEPT ![t] = Caller(t)]
    /\ UNCHANGED <<resources, acquiring, actVars>>

(* The rollback called by #finalize is over. *)
RolledBack(t) ==
    /\ pc[t] = "rollback"
    /\ Cleanup(t)
    /\ pc' = [pc EXCEPT ![t] = Caller(t)]
    /\ UNCHANGED <<resources, acquiring, cycles, mayHaveMutated, pending, actVars>>

(* A participant's post-commit handler completes; a failure is logged and   *)
(* skips the handlers that follow.                                           *)
PostCommit(t, p, failed) ==
    /\ pc[t] = "postCommit"
    /\ acquiring[t] = {}
    /\ p \in pending[t]
    /\ pending' = [pending EXCEPT ![t] = IF failed THEN {} ELSE @ \ {p}]
    /\ UNCHANGED <<status, pc, memberVars, lockVars, cycles, mayHaveMutated, aborted, actVars>>

-----------------------------------------------------------------------------
(* act() *)

(* The actor returns: the first commit of act(). *)
ActorReturns(t) ==
    /\ InActor(t)
    /\ finishing' = [finishing EXCEPT ![t] = TRUE]
    /\ commits' = [commits EXCEPT ![t] = 1]
    /\ StartCommit(t)
    /\ UNCHANGED <<memberVars, lockVars, aborted>>

(* The actor throws: handleTransactionError() rolls back. *)
ActorThrows(t) ==
    /\ InActor(t)
    /\ finishing' = [finishing EXCEPT ![t] = TRUE]
    /\ ExecuteRollback(t, "rollback")
    /\ UNCHANGED <<memberVars, lockVars, commitVars, commits>>

(* commit() returned.  If a post-commit handler made the transaction         *)
(* exclusive again, act() commits again, up to the limit, then it throws:    *)
(* handleTransactionError() only rethrows once there was a commit.           *)
AfterCommit(t) ==
    /\ pc[t] = "postCommit" /\ acquiring[t] = {}
    /\ pending[t] = {}
    /\ \/ /\ ~(finishing[t] /\ status[t] = "Exclusive")
          /\ pc' = [pc EXCEPT ![t] = Caller(t)]
          /\ UNCHANGED <<status, commitVars, commits>>
       \/ /\ finishing[t] /\ status[t] = "Exclusive"
          /\ commits' = [commits EXCEPT ![t] = @ + 1]
          /\ \/ /\ commits[t] < MaxChainedCommits
                /\ StartCommit(t)
                /\ UNCHANGED aborted
             \/ /\ commits[t] = MaxChainedCommits
                /\ pc' = [pc EXCEPT ![t] = "close"]
                /\ aborted' = [aborted EXCEPT ![t] = TRUE]
                /\ UNCHANGED <<status, cycles, mayHaveMutated, pending>>
    /\ UNCHANGED <<memberVars, lockVars, finishing>>

(* close() forgets the resources; it neither unlocks them nor tells waiters. *)
Close(t) ==
    /\ pc[t] = "close"
    /\ pc' = [pc EXCEPT ![t] = "closed"]
    /\ status' = [status EXCEPT ![t] = "Destroyed"]
    /\ resources' = [resources EXCEPT ![t] = {}]
    /\ participants' = [participants EXCEPT ![t] = {}]
    /\ UNCHANGED <<lockVars, commitVars, actVars>>

-----------------------------------------------------------------------------
(* Specification *)

UserStep(t) ==
    \/ \E R \in SUBSET Resource : AddResources(t, R) \/ AddResourcesSync(t, R)
    \/ Begin(t)
    \/ BeginSync(t)
    \/ \E p \in Participant : AddParticipants(t, p)
    \/ Commit(t)
    \/ Rollback(t)

(* The actor, and a handler of a pre- or post-commit pass, comes to its end. *)
ActorEnds(t) == ActorReturns(t) \/ ActorThrows(t)

HandlerEnds(t) ==
    \/ \E p \in Participant, b \in BOOLEAN : PreCommit(t, p, b) \/ PostCommit(t, p, b)
    \/ PreCommitFails(t)

(* What the runtime does by itself. *)
SystemStep(t) ==
    \/ Resume(t)
    \/ NextCycle(t)
    \/ PreCommitAborted(t)
    \/ \E J \in SUBSET Participant : CommitPhaseOne(t, J)
    \/ CommitPhaseOneFails(t)
    \/ CommitPhaseTwo(t)
    \/ Committed(t)
    \/ CommitPhaseTwoFails(t)
    \/ RolledBack(t)
    \/ AfterCommit(t)
    \/ Close(t)

Next == \E t \in Tx : UserStep(t) \/ ActorEnds(t) \/ HandlerEnds(t) \/ SystemStep(t)

Spec == Init /\ [][Next]_vars

(* Promises settle and continuations run; user code terminates, however     *)
(* often it has to wait for locks on its way.                                *)
Fairness ==
    \A t \in Tx : /\ WF_vars(SystemStep(t))
                 /\ SF_vars(ActorEnds(t))
                 /\ SF_vars(HandlerEnds(t))

FairSpec == Spec /\ Fairness

-----------------------------------------------------------------------------
(* Properties *)

(* A transaction that promises isolation holds the lock of every resource   *)
(* that joined it (assertResourcesAreLocked, and the check of the reactors). *)
ExclusiveHoldsLocks ==
    \A t \in Tx : status[t] \in Locking =>
        \A r \in resources[t] : lockedBy[r] = t

(* Deadlock detection keeps the wait graph free of cycles: in every set of  *)
(* transactions some member waits for no member.                             *)
Acyclic(w) == \A S \in SUBSET Tx : S # {} => \E t \in S : w[t] \cap S = {}

WaitGraphAcyclic == Acyclic(waitingOn)

(* No lost wake-up: a transaction only waits for one that still holds a      *)
(* resource it wants, because a release reaches every waiter.                *)
WaitsOnlyOnHolders ==
    \A t \in Tx : \A u \in waitingOn[t] : \E r \in acquiring[t] : lockedBy[r] = u

(* A destroyed transaction leaves a lock behind only if its last commit      *)
(* ended without the cleanup of #finalize.                                   *)
OrphanOnlyAfterAbort ==
    \A r \in Resource : \A t \in Tx :
        lockedBy[r] = t /\ status[t] = "Destroyed" => aborted[t]

(* No step takes a lock from its holder: it is released first. *)
LocksNeverStolen ==
    [][\A r \in Resource : lockedBy[r] # NoTx => lockedBy'[r] \in {lockedBy[r], NoTx}]_vars

(* The inductive invariant: the properties above and how the fields of a     *)
(* transaction go together.                                                  *)

(* The status agrees with what act() and commit() are doing. *)
StatusMatchesPc ==
    \A t \in Tx :
        /\ pc[t] \in {"actor", "postCommit"} => status[t] \in {"Shared", "Waiting", "Exclusive"}
        /\ pc[t] = "preCommit" => status[t] = "Exclusive"
        /\ pc[t] = "commit1" => status[t] = "CommittingPhaseOne"
        /\ pc[t] = "commit2" => status[t] = "CommittingPhaseTwo"
        /\ pc[t] \in {"rollback", "abort"} => status[t] = "RollingBack"
        /\ pc[t] = "close" => status[t] \in {"Shared", "Exclusive"}
        /\ pc[t] = "closed" => status[t] = "Destroyed"

(* Only user code waits: with begin() for all its resources, or with        *)
(* addResources() in a transaction that is exclusive already.                *)
WaitingForm ==
    \A t \in Tx :
        /\ acquiring[t] # {} => /\ pc[t] \in {"actor", "preCommit", "postCommit"}
                               /\ \/ status[t] = "Waiting" /\ acquiring[t] = resources[t]
                                  \/ status[t] = "Exclusive"
        /\ status[t] = "Waiting" => acquiring[t] # {}

(* A held lock belongs to a resource that joined its holder, so that the     *)
(* cleanup, which goes through the resources, misses none.                   *)
LocksAreResources ==
    \A r \in Resource : \A t \in Tx :
        lockedBy[r] = t /\ status[t] # "Destroyed" => r \in resources[t]

(* After its cleanup a transaction holds no lock until it is exclusive again. *)
UnlockedAfterCleanup ==
    \A r \in Resource : \A t \in Tx :
        lockedBy[r] = t =>
            /\ pc[t] \in {"close", "closed"} => aborted[t]
            /\ pc[t] = "postCommit" => status[t] = "Exclusive"

IInv ==
    /\ TypeOK
    /\ StatusMatchesPc
    /\ WaitingForm
    /\ LocksAreResources
    /\ ExclusiveHoldsLocks
    /\ UnlockedAfterCleanup
    /\ WaitsOnlyOnHolders
    /\ WaitGraphAcyclic

(* A destroyed transaction holds no lock.                                    *)
NoOrphanLocks ==
    \A r \in Resource : lockedBy[r] # NoTx => status[lockedBy[r]] # "Destroyed"

(* Every act() closes its transaction: nobody waits for a lock for ever,     *)
(* unless a destroyed transaction left one behind.                           *)
ActTerminates == \A t \in Tx : <>(pc[t] = "closed" \/ ~NoOrphanLocks)
=============================================================================
