--------------------------- MODULE TransactionProofs ---------------------------
(***************************************************************************)
(* Proofs about Transaction and Datasource, for every set of transactions, *)
(* resources, participants and values and for every limit.                 *)
(*                                                                         *)
(* Transactions: the central argument is that the deadlock detection keeps *)
(* the wait graph acyclic (NewWaitsStayAcyclic); the rest of the invariant *)
(* IInv ties locks, status and control together.                           *)
(*                                                                         *)
(* Datasources: the proofs rest on IInv.  What a session relies on is      *)
(* locked by its transaction, and no other transaction changes what it has *)
(* not locked.                                                             *)
(***************************************************************************)
EXTENDS Datasource, TLAPS

(* Transactions *)

(* Deadlock detection is sufficient: if t waits for nobody and cannot be     *)
(* reached from B, then t may wait for B and the graph stays acyclic.        *)
LEMMA NewWaitsStayAcyclic ==
    ASSUME waitingOn \in [Tx -> SUBSET Tx], Acyclic(waitingOn),
           NEW t \in Tx, NEW B \in SUBSET Tx, t \notin Examined(B)
    PROVE  Acyclic([waitingOn EXCEPT ![t] = B])
<1>1. PICK S \in SUBSET Tx : B \subseteq S /\ ClosedUnderWait(S) /\ t \notin S
  BY DEF Examined
<1> DEFINE w == [waitingOn EXCEPT ![t] = B]
<1>2. SUFFICES ASSUME NEW U \in SUBSET Tx, U # {}
               PROVE  \E v \in U : w[v] \cap U = {}
  BY DEF Acyclic
<1>3. CASE U \cap S # {}
  <2>1. U \cap S \in SUBSET Tx
    OBVIOUS
  <2>2. PICK v \in U \cap S : waitingOn[v] \cap (U \cap S) = {}
    BY <1>3, <2>1 DEF Acyclic
  <2>3. waitingOn[v] \subseteq S
    BY <1>1, <2>2 DEF ClosedUnderWait
  <2>4. w[v] = waitingOn[v]
    BY <1>1, <2>2
  <2> QED BY <2>2, <2>3, <2>4
<1>4. CASE U \cap S = {} /\ t \in U
  <2>1. w[t] = B
    OBVIOUS
  <2> QED BY <1>1, <1>4, <2>1
<1>5. CASE U \cap S = {} /\ t \notin U
  <2>1. PICK v \in U : waitingOn[v] \cap U = {}
    BY <1>2 DEF Acyclic
  <2>2. w[v] = waitingOn[v]
    BY <1>5, <2>1
  <2> QED BY <2>1, <2>2
<1> QED BY <1>3, <1>4, <1>5

(* Taking edges away keeps a graph acyclic. *)
LEMMA FewerWaitsStayAcyclic ==
    ASSUME NEW w, NEW w2, Acyclic(w), \A t \in Tx : w2[t] \subseteq w[t]
    PROVE  Acyclic(w2)
<1> SUFFICES ASSUME NEW S \in SUBSET Tx, S # {}
             PROVE  \E t \in S : w2[t] \cap S = {}
  BY DEF Acyclic
<1>1. PICK t \in S : w[t] \cap S = {}
  BY DEF Acyclic
<1> QED BY <1>1

(* The blockers of a transaction are other transactions that hold a lock. *)
LEMMA BlockersHold ==
    ASSUME TypeOK, NEW t \in Tx, NEW R \in SUBSET Resource
    PROVE  /\ BlockedBy(t, R) \in SUBSET Tx
           /\ \A u \in BlockedBy(t, R) : \E r \in R : lockedBy[r] = u
BY DEF TypeOK, BlockedBy

-----------------------------------------------------------------------------
(* Locking R preserves the invariant when it covers all resources of the     *)
(* transaction or the transaction has locked the others already; participants *)
(* may join in the same step.                                                *)
LEMMA LockingPreserves ==
    ASSUME IInv, NEW t \in Tx, NEW R \in SUBSET Resource,
           AcquireLocksSync(t, R),
           resources[t] \subseteq R \/ status[t] = "Exclusive",
           pc[t] \in {"actor", "preCommit", "postCommit"},
           waitingOn[t] = {},
           status' = [status EXCEPT ![t] = "Exclusive"],
           resources' = [resources EXCEPT ![t] = @ \cup R],
           acquiring' = [acquiring EXCEPT ![t] = {}],
           participants' \in [Tx -> SUBSET Participant],
           pending' \in [Tx -> SUBSET Participant],
           UNCHANGED <<pc, waitingOn, cycles, mayHaveMutated, aborted, actVars>>
    PROVE  IInv'
<1> USE NoTxAssumption DEF Status, Location, actVars
<1>1. TypeOK
  BY DEF IInv
<1>2. /\ lockedBy' = [r \in Resource |-> IF r \in R THEN t ELSE lockedBy[r]]
      /\ \A r \in R : lockedBy[r] \in {t, NoTx}
  BY DEF AcquireLocksSync, BlockedBy
<1>3. TypeOK'
  BY <1>1, <1>2 DEF TypeOK
<1>4. StatusMatchesPc' /\ WaitingForm'
  BY <1>1 DEF IInv, TypeOK, StatusMatchesPc, WaitingForm
<1>5. LocksAreResources'
  BY <1>1, <1>2 DEF IInv, TypeOK, LocksAreResources, StatusMatchesPc
<1>6. ExclusiveHoldsLocks'
  BY <1>1, <1>2 DEF IInv, TypeOK, ExclusiveHoldsLocks, Locking
<1>7. UnlockedAfterCleanup'
  BY <1>1, <1>2 DEF IInv, TypeOK, UnlockedAfterCleanup
<1>8. WaitsOnlyOnHolders'
  <2> SUFFICES ASSUME NEW v \in Tx, NEW u \in waitingOn[v]
               PROVE  \E r \in acquiring'[v] : lockedBy'[r] = u
    BY DEF WaitsOnlyOnHolders
  <2>1. v # t
    OBVIOUS
  <2>2. PICK r \in acquiring[v] : lockedBy[r] = u
    BY DEF IInv, WaitsOnlyOnHolders
  <2>3. lockedBy'[r] = u
    BY <1>1, <1>2, <2>2 DEF TypeOK
  <2> QED BY <1>1, <2>1, <2>2, <2>3 DEF TypeOK
<1>9. WaitGraphAcyclic'
  BY DEF IInv, WaitGraphAcyclic, Acyclic
<1> QED BY <1>3, <1>4, <1>5, <1>6, <1>7, <1>8, <1>9 DEF IInv

(* Resources and participants that join a shared transaction preserve it. *)
LEMMA JoiningPreserves ==
    ASSUME IInv, NEW t \in Tx, NEW R \in SUBSET Resource,
           status[t] = "Shared", acquiring[t] = {},
           resources' = [resources EXCEPT ![t] = @ \cup R],
           participants' \in [Tx -> SUBSET Participant],
           pending' \in [Tx -> SUBSET Participant],
           UNCHANGED <<status, pc, lockVars, cycles, mayHaveMutated, aborted, actVars>>
    PROVE  IInv'
<1> USE DEF lockVars, actVars
<1>1. TypeOK
  BY DEF IInv
<1>2. TypeOK'
  BY <1>1 DEF TypeOK
<1>3. StatusMatchesPc' /\ WaitingForm' /\ LocksAreResources' /\ ExclusiveHoldsLocks'
  BY <1>1
  DEF IInv, TypeOK, StatusMatchesPc, WaitingForm, LocksAreResources, ExclusiveHoldsLocks, Locking
<1>4. UnlockedAfterCleanup' /\ WaitsOnlyOnHolders' /\ WaitGraphAcyclic'
  BY DEF IInv, UnlockedAfterCleanup, WaitsOnlyOnHolders, WaitGraphAcyclic, Acyclic
<1> QED BY <1>2, <1>3, <1>4 DEF IInv

(* One round of acquireLocks() preserves the invariant, entered by begin()   *)
(* (status Waiting, for all resources) or by addResources() (Exclusive).     *)
LEMMA AcquireLocksPreserves ==
    ASSUME IInv, NEW t \in Tx, NEW R \in SUBSET Resource, NEW s,
           AcquireLocks(t, R, s),
           UNCHANGED <<pc, participants, commitVars, actVars>>,
           pc[t] \in {"actor", "preCommit", "postCommit"},
           waitingOn[t] = {},
           \/ s = "Waiting" /\ R = resources[t] /\ status[t] \in {"Shared", "Waiting"}
           \/ s = "Exclusive" /\ status[t] = "Exclusive"
    PROVE  IInv'
<1> USE NoTxAssumption DEF Status, Location, commitVars, actVars
<1> DEFINE B == BlockedBy(t, R)
<1>1. TypeOK /\ B \in SUBSET Tx /\ (\A u \in B : \E r \in R : lockedBy[r] = u)
  BY BlockersHold DEF IInv
<1>2. CASE /\ AcquireLocksSync(t, R)
           /\ status' = [status EXCEPT ![t] = "Exclusive"]
           /\ resources' = [resources EXCEPT ![t] = @ \cup R]
           /\ acquiring' = [acquiring EXCEPT ![t] = {}]
           /\ UNCHANGED waitingOn
  <2>1. /\ participants' \in [Tx -> SUBSET Participant]
        /\ pending' \in [Tx -> SUBSET Participant]
    BY <1>1 DEF TypeOK
  <2> QED BY <1>2, <2>1, LockingPreserves
<1>3. CASE /\ B # {}
           /\ DetectDeadlock(t, B)
           /\ status' = [status EXCEPT ![t] = IF s = "Waiting" THEN "Shared" ELSE s]
           /\ acquiring' = [acquiring EXCEPT ![t] = {}]
           /\ UNCHANGED <<resources, lockedBy, waitingOn>>
  <2>1. TypeOK' /\ StatusMatchesPc' /\ WaitingForm'
    BY <1>1, <1>3 DEF IInv, TypeOK, StatusMatchesPc, WaitingForm
  <2>2. LocksAreResources' /\ UnlockedAfterCleanup' /\ ExclusiveHoldsLocks'
    BY <1>1, <1>3
    DEF IInv, TypeOK, LocksAreResources, UnlockedAfterCleanup, ExclusiveHoldsLocks, Locking,
        StatusMatchesPc
  <2>3. WaitsOnlyOnHolders'
    BY <1>1, <1>3 DEF IInv, TypeOK, WaitsOnlyOnHolders
  <2>4. WaitGraphAcyclic'
    BY <1>3 DEF IInv, WaitGraphAcyclic, Acyclic
  <2> QED BY <2>1, <2>2, <2>3, <2>4 DEF IInv
<1>4. CASE /\ B # {}
           /\ ~DetectDeadlock(t, B)
           /\ status' = [status EXCEPT ![t] = s]
           /\ acquiring' = [acquiring EXCEPT ![t] = R]
           /\ waitingOn' = [waitingOn EXCEPT ![t] = B]
           /\ UNCHANGED <<resources, lockedBy>>
  <2>1. R # {}
    BY <1>1, <1>4
  <2>2. TypeOK' /\ StatusMatchesPc' /\ WaitingForm'
    BY <1>1, <1>4, <2>1 DEF IInv, TypeOK, StatusMatchesPc, WaitingForm
  <2>3. LocksAreResources' /\ UnlockedAfterCleanup' /\ ExclusiveHoldsLocks'
    BY <1>1, <1>4
    DEF IInv, TypeOK, LocksAreResources, UnlockedAfterCleanup, ExclusiveHoldsLocks, Locking,
        StatusMatchesPc
  <2>4. WaitsOnlyOnHolders'
    BY <1>1, <1>4 DEF IInv, TypeOK, WaitsOnlyOnHolders
  <2>5. WaitGraphAcyclic'
    <3>1. waitingOn \in [Tx -> SUBSET Tx] /\ Acyclic(waitingOn)
      BY <1>1 DEF IInv, TypeOK, WaitGraphAcyclic
    <3>2. t \notin Examined(B) /\ B \in SUBSET Tx
      BY <1>1, <1>4 DEF DetectDeadlock
    <3>3. Acyclic([waitingOn EXCEPT ![t] = B])
      BY <3>1, <3>2, NewWaitsStayAcyclic, Zenon
    <3> QED BY <1>4, <3>3 DEF WaitGraphAcyclic
  <2> QED BY <2>2, <2>3, <2>4, <2>5 DEF IInv
<1> QED BY <1>2, <1>3, <1>4 DEF AcquireLocks

(* The cleanup of #finalize preserves the invariant: it releases all locks   *)
(* of the transaction and takes it out of every waiter's set.                *)
LEMMA CleanupPreserves ==
    ASSUME IInv, NEW t \in Tx, NEW loc \in {"postCommit", "close", "actor"},
           Cleanup(t), TypeOK',
           pc[t] \in {"commit2", "rollback"},
           pc' = [pc EXCEPT ![t] = loc],
           UNCHANGED <<resources, acquiring, actVars>>
    PROVE  IInv'
<1> USE NoTxAssumption DEF Status, Location
<1>1. TypeOK /\ status[t] # "Destroyed" /\ acquiring[t] = {}
  BY DEF IInv, TypeOK, StatusMatchesPc, WaitingForm
<1>2. /\ status' = [status EXCEPT ![t] = "Shared"]
      /\ waitingOn' = [u \in Tx |-> waitingOn[u] \ {t}]
      /\ aborted' = [aborted EXCEPT ![t] = FALSE]
  BY DEF Cleanup
<1>3. \A r \in Resource : lockedBy'[r] = IF lockedBy[r] = t THEN NoTx ELSE lockedBy[r]
  BY <1>1 DEF Cleanup, ReleaseLocks, IInv, LocksAreResources
<1>4. StatusMatchesPc'
  BY <1>1, <1>2 DEF IInv, TypeOK, StatusMatchesPc
<1>5. WaitingForm'
  BY <1>1, <1>2 DEF IInv, TypeOK, WaitingForm
<1>6. LocksAreResources' /\ ExclusiveHoldsLocks' /\ UnlockedAfterCleanup'
  BY <1>1, <1>2, <1>3, SMTT(30)
  DEF IInv, TypeOK, LocksAreResources, ExclusiveHoldsLocks, UnlockedAfterCleanup, Locking
<1>7. WaitsOnlyOnHolders'
  BY <1>1, <1>2, <1>3 DEF IInv, TypeOK, WaitsOnlyOnHolders
<1>8. WaitGraphAcyclic'
  <2>1. \A u \in Tx : waitingOn'[u] \subseteq waitingOn[u]
    BY <1>2
  <2>2. Acyclic(waitingOn)
    BY DEF IInv, WaitGraphAcyclic
  <2>3. Acyclic(waitingOn')
    BY <2>1, <2>2, FewerWaitsStayAcyclic
  <2> QED BY <2>3 DEF WaitGraphAcyclic, Acyclic
<1> QED BY <1>4, <1>5, <1>6, <1>7, <1>8 DEF IInv

-----------------------------------------------------------------------------
(* A step that leaves the locks and the waits alone preserves the invariant  *)
(* if it moves one transaction from a place where nobody waits to another    *)
(* and keeps status and place in agreement.                                  *)
LEMMA ControlPreserves ==
    ASSUME IInv, NEW t \in Tx, NEW st, NEW loc, TypeOK',
           acquiring[t] = {},
           status' = [status EXCEPT ![t] = st],
           pc' = [pc EXCEPT ![t] = loc],
           UNCHANGED <<resources, lockVars>>,
           \/ loc = "actor" /\ st \in {"Shared", "Exclusive"}
           \/ loc = "preCommit" /\ st = "Exclusive"
           \/ loc = "commit1" /\ st = "CommittingPhaseOne"
           \/ loc = "commit2" /\ st = "CommittingPhaseTwo"
           \/ loc \in {"rollback", "abort"} /\ st = "RollingBack"
           \/ loc = "close" /\ st \in {"Shared", "Exclusive"},
           st \in Locking => status[t] \in Locking,
           status[t] # "Destroyed",
           \A u \in Tx : u # t => aborted'[u] = aborted[u],
           loc = "close" => aborted'[t] \/ \A r \in Resource : lockedBy[r] # t
    PROVE  IInv'
<1> USE DEF Status, Location, lockVars
<1>1. TypeOK
  BY DEF IInv
<1>2. StatusMatchesPc'
  BY <1>1 DEF IInv, TypeOK, StatusMatchesPc
<1>3. WaitingForm'
  BY <1>1 DEF IInv, TypeOK, WaitingForm
<1>4. LocksAreResources'
  BY <1>1 DEF IInv, TypeOK, LocksAreResources
<1>5. ExclusiveHoldsLocks'
  BY <1>1 DEF IInv, TypeOK, ExclusiveHoldsLocks
<1>6. UnlockedAfterCleanup'
  BY <1>1 DEF IInv, TypeOK, UnlockedAfterCleanup
<1>7. WaitsOnlyOnHolders' /\ WaitGraphAcyclic'
  BY DEF IInv, WaitsOnlyOnHolders, WaitGraphAcyclic, Acyclic
<1> QED BY <1>2, <1>3, <1>4, <1>5, <1>6, <1>7 DEF IInv

(* commit() of the actor or of act() starts: it enters pre-commit or, when   *)
(* there is nothing to commit, a rollback.                                   *)
LEMMA StartCommitPreserves ==
    ASSUME IInv, NEW t \in Tx, StartCommit(t),
           pc[t] \in {"actor", "postCommit"}, acquiring[t] = {},
           commits' \in [Tx -> 0..(MaxChainedCommits + 1)],
           finishing' \in [Tx -> BOOLEAN],
           UNCHANGED <<memberVars, lockVars, aborted>>
    PROVE  IInv'
<1> USE DEF lockVars, memberVars
<1>1. TypeOK
  BY DEF IInv
<1>2. CASE /\ status[t] = "Shared"
           /\ ExecuteRollback(t, "rollback")
           /\ UNCHANGED <<cycles, mayHaveMutated, pending>>
  <2>1. TypeOK'
    BY <1>1, <1>2 DEF TypeOK, ExecuteRollback, Status, Location
  <2> QED BY <1>2, <2>1, ControlPreserves DEF ExecuteRollback, Locking
<1>3. CASE /\ status[t] = "Exclusive"
           /\ pc' = [pc EXCEPT ![t] = "preCommit"]
           /\ Pass(t, 1, participants[t])
           /\ UNCHANGED status
  <2>1. TypeOK'
    BY <1>1, <1>3, LimitsAssumption DEF TypeOK, Pass, Location
  <2>2. status' = [status EXCEPT ![t] = "Exclusive"]
    BY <1>1, <1>3 DEF TypeOK
  <2> QED BY <1>3, <2>1, <2>2, ControlPreserves DEF Locking
<1> QED BY <1>2, <1>3 DEF StartCommit

-----------------------------------------------------------------------------
(* The transactions that act() has yet to start satisfy the invariant. *)
LEMMA InitEstablishes == Init => IInv
<1> SUFFICES ASSUME Init PROVE IInv
  OBVIOUS
<1> USE NoTxAssumption, LimitsAssumption
<1>1. TypeOK
  BY DEF Init, TypeOK, Status, Location
<1>2. StatusMatchesPc /\ WaitingForm /\ LocksAreResources /\ ExclusiveHoldsLocks
  BY DEF Init, StatusMatchesPc, WaitingForm, LocksAreResources, ExclusiveHoldsLocks, Locking
<1>3. UnlockedAfterCleanup /\ WaitsOnlyOnHolders
  BY DEF Init, UnlockedAfterCleanup, WaitsOnlyOnHolders
<1>4. WaitGraphAcyclic
  BY DEF Init, WaitGraphAcyclic, Acyclic
<1> QED BY <1>1, <1>2, <1>3, <1>4 DEF IInv

(* The steps of the actor and of the handlers. *)
LEMMA UserStepPreserves ==
    ASSUME IInv, NEW t \in Tx, UserStep(t)
    PROVE  IInv'
<1> USE DEF lockVars, memberVars, commitVars, actVars
<1>1. TypeOK
  BY DEF IInv
<1>2. ASSUME NEW R \in SUBSET Resource, AddResources(t, R) PROVE IInv'
  <2>1. /\ pc[t] \in {"actor", "preCommit", "postCommit"}
        /\ acquiring[t] = {} /\ waitingOn[t] = {}
        /\ UNCHANGED <<pc, participants, commitVars, actVars>>
    BY <1>1, <1>2 DEF IInv, TypeOK, AddResources, InUserCode, WaitsOnlyOnHolders
  <2>2. CASE status[t] = "Exclusive" /\ AcquireLocks(t, R, "Exclusive")
    BY <2>1, <2>2, AcquireLocksPreserves
  <2>3. CASE /\ status[t] = "Shared"
             /\ resources' = [resources EXCEPT ![t] = @ \cup R]
             /\ UNCHANGED <<status, lockVars>>
    <3>1. /\ participants' \in [Tx -> SUBSET Participant]
          /\ pending' \in [Tx -> SUBSET Participant]
      BY <1>1, <2>1 DEF TypeOK
    <3> QED BY <2>1, <2>3, <3>1, JoiningPreserves
  <2> QED BY <1>2, <2>2, <2>3 DEF AddResources
<1>3. ASSUME NEW R \in SUBSET Resource, AddResourcesSync(t, R) PROVE IInv'
  <2>1. CASE status[t] = "Exclusive"
    <3>1. AcquireLocks(t, R, "Exclusive")
      BY <1>1, <1>3, <2>1 DEF AddResourcesSync, AcquireLocks, InUserCode, TypeOK
    <3>2. /\ pc[t] \in {"actor", "preCommit", "postCommit"}
          /\ waitingOn[t] = {}
          /\ UNCHANGED <<pc, participants, commitVars, actVars>>
      BY <1>1, <1>3 DEF IInv, TypeOK, AddResourcesSync, InUserCode, WaitsOnlyOnHolders
    <3> QED BY <2>1, <3>1, <3>2, AcquireLocksPreserves
  <2>2. CASE status[t] = "Shared"
    <3>1. AddResources(t, R)
      BY <1>3, <2>2 DEF AddResourcesSync, AddResources
    <3> QED BY <1>2, <3>1
  <2> QED BY <1>3, <2>1, <2>2 DEF AddResourcesSync
<1>4. ASSUME Begin(t) PROVE IInv'
  <2>1. /\ pc[t] \in {"actor", "preCommit", "postCommit"}
        /\ waitingOn[t] = {}
        /\ resources[t] \in SUBSET Resource
        /\ UNCHANGED <<pc, participants, commitVars, actVars>>
    BY <1>1, <1>4 DEF IInv, TypeOK, Begin, InUserCode, WaitsOnlyOnHolders
  <2> QED BY <1>4, <2>1, AcquireLocksPreserves DEF Begin
<1>5. ASSUME BeginSync(t) PROVE IInv'
  <2>1. AcquireLocks(t, resources[t], "Waiting")
    BY <1>1, <1>5 DEF BeginSync, AcquireLocks, InUserCode, TypeOK
  <2>2. Begin(t)
    BY <1>5, <2>1 DEF BeginSync, Begin
  <2> QED BY <1>4, <2>2
<1>6. ASSUME NEW p \in Participant, AddParticipants(t, p) PROVE IInv'
  <2>1. TypeOK'
    BY <1>1, <1>6 DEF TypeOK, AddParticipants
  <2>2. UNCHANGED <<status, pc, resources, lockedBy, acquiring, waitingOn, aborted>>
    BY <1>6 DEF AddParticipants
  <2> QED
    BY <2>1, <2>2
    DEF IInv, StatusMatchesPc, WaitingForm, LocksAreResources, ExclusiveHoldsLocks,
        UnlockedAfterCleanup, WaitsOnlyOnHolders, WaitGraphAcyclic, Acyclic
<1>7. ASSUME Commit(t) PROVE IInv'
  <2>1. /\ pc[t] = "actor" /\ acquiring[t] = {}
        /\ StartCommit(t)
        /\ UNCHANGED <<memberVars, lockVars, aborted, actVars>>
    BY <1>7 DEF Commit, InActor
  <2> QED BY <1>1, <2>1, StartCommitPreserves DEF TypeOK
<1>8. ASSUME Rollback(t) PROVE IInv'
  <2>1. TypeOK'
    BY <1>1, <1>8 DEF TypeOK, Rollback, ExecuteRollback, Status, Location
  <2>2. /\ status' = [status EXCEPT ![t] = "RollingBack"]
        /\ pc' = [pc EXCEPT ![t] = "rollback"]
        /\ acquiring[t] = {} /\ status[t] # "Destroyed"
        /\ UNCHANGED <<resources, lockVars, aborted>>
    BY <1>1, <1>8 DEF Rollback, ExecuteRollback, InActor, IInv, StatusMatchesPc
  <2> QED BY <2>1, <2>2, ControlPreserves DEF Locking
<1> QED BY <1>2, <1>3, <1>4, <1>5, <1>6, <1>7, <1>8 DEF UserStep

(* The actor returns or throws, or a handler ends. *)
LEMMA UserCodeEndPreserves ==
    ASSUME IInv, NEW t \in Tx, ActorEnds(t) \/ HandlerEnds(t)
    PROVE  IInv'
<1> USE DEF lockVars, memberVars, commitVars, actVars
<1>1. TypeOK
  BY DEF IInv
<1>2. ASSUME ActorReturns(t) PROVE IInv'
  <2>1. /\ pc[t] = "actor" /\ acquiring[t] = {}
        /\ StartCommit(t)
        /\ UNCHANGED <<memberVars, lockVars, aborted>>
    BY <1>2 DEF ActorReturns, InActor
  <2>2. /\ commits' \in [Tx -> 0..(MaxChainedCommits + 1)]
        /\ finishing' \in [Tx -> BOOLEAN]
    BY <1>1, <1>2, LimitsAssumption DEF TypeOK, ActorReturns
  <2> QED BY <2>1, <2>2, StartCommitPreserves
<1>3. ASSUME ActorThrows(t) PROVE IInv'
  <2>1. TypeOK'
    BY <1>1, <1>3 DEF TypeOK, ActorThrows, ExecuteRollback, Status, Location
  <2>2. /\ status' = [status EXCEPT ![t] = "RollingBack"]
        /\ pc' = [pc EXCEPT ![t] = "rollback"]
        /\ acquiring[t] = {} /\ status[t] # "Destroyed"
        /\ UNCHANGED <<resources, lockVars, aborted>>
    BY <1>3 DEF ActorThrows, ExecuteRollback, InActor, IInv, StatusMatchesPc
  <2> QED BY <2>1, <2>2, ControlPreserves DEF Locking
<1>4. ASSUME NEW p \in Participant, NEW b \in BOOLEAN, PreCommit(t, p, b) \/ PostCommit(t, p, b)
      PROVE  IInv'
  <2>1. /\ UNCHANGED <<status, pc, resources, participants, lockedBy, acquiring, waitingOn>>
        /\ UNCHANGED <<cycles, aborted, commits, finishing>>
    BY <1>4 DEF PreCommit, PostCommit
  <2>2. pending' \in [Tx -> SUBSET Participant]
    BY <1>1, <1>4 DEF TypeOK, PreCommit, PostCommit
  <2>3. mayHaveMutated' \in [Tx -> BOOLEAN]
    BY <1>1, <1>4 DEF TypeOK, PreCommit, PostCommit
  <2>4. TypeOK'
    BY <1>1, <2>1, <2>2, <2>3 DEF TypeOK
  <2> QED
    BY <2>1, <2>4
    DEF IInv, StatusMatchesPc, WaitingForm, LocksAreResources, ExclusiveHoldsLocks,
        UnlockedAfterCleanup, WaitsOnlyOnHolders, WaitGraphAcyclic, Acyclic
<1>5. ASSUME PreCommitFails(t) PROVE IInv'
  <2>1. TypeOK'
    BY <1>1, <1>5, LimitsAssumption
    DEF TypeOK, PreCommitFails, ExecuteRollback, Pass, Status, Location
  <2>2. /\ status' = [status EXCEPT ![t] = "RollingBack"]
        /\ pc' = [pc EXCEPT ![t] = "abort"]
        /\ acquiring[t] = {} /\ status[t] # "Destroyed"
        /\ UNCHANGED <<resources, lockVars, aborted>>
    BY <1>5 DEF PreCommitFails, ExecuteRollback, IInv, StatusMatchesPc
  <2> QED BY <2>1, <2>2, ControlPreserves DEF Locking
<1> QED BY <1>2, <1>3, <1>4, <1>5 DEF ActorEnds, HandlerEnds

(* The steps of the runtime. *)
LEMMA SystemStepPreserves ==
    ASSUME IInv, NEW t \in Tx, SystemStep(t)
    PROVE  IInv'
<1> USE LimitsAssumption DEF lockVars, memberVars, commitVars, actVars
<1>1. TypeOK
  BY DEF IInv
<1>2. ASSUME Resume(t) PROVE IInv'
  <2>1. /\ acquiring[t] # {} /\ waitingOn[t] = {} /\ acquiring[t] \in SUBSET Resource
        /\ AcquireLocks(t, acquiring[t], status[t])
        /\ UNCHANGED <<pc, participants, commitVars, actVars>>
    BY <1>1, <1>2 DEF Resume, TypeOK
  <2>2. /\ pc[t] \in {"actor", "preCommit", "postCommit"}
        /\ \/ status[t] = "Waiting" /\ acquiring[t] = resources[t]
           \/ status[t] = "Exclusive"
    BY <2>1 DEF IInv, WaitingForm
  <2> QED BY <2>1, <2>2, AcquireLocksPreserves
<1>3. ASSUME NextCycle(t) PROVE IInv'
  <2>1. CASE /\ cycles[t] < MaxPreCommitCycles
             /\ Pass(t, cycles[t] + 1, participants[t])
             /\ UNCHANGED <<status, pc>>
    <3>1. UNCHANGED <<resources, participants, lockedBy, acquiring, waitingOn, aborted, commits, finishing>>
      BY <1>3 DEF NextCycle
    <3>2. cycles[t] + 1 \in 1..MaxPreCommitCycles
      BY <1>1, <2>1 DEF TypeOK
    <3>3. TypeOK'
      BY <1>1, <2>1, <3>1, <3>2 DEF TypeOK, Pass
    <3> QED
      BY <2>1, <3>1, <3>3
      DEF IInv, StatusMatchesPc, WaitingForm, LocksAreResources, ExclusiveHoldsLocks,
          UnlockedAfterCleanup, WaitsOnlyOnHolders, WaitGraphAcyclic, Acyclic
  <2>2. CASE ExecuteRollback(t, "abort") /\ Pass(t, 1, {})
    <3>1. /\ status' = [status EXCEPT ![t] = "RollingBack"]
          /\ pc' = [pc EXCEPT ![t] = "abort"]
          /\ acquiring[t] = {} /\ status[t] # "Destroyed"
          /\ UNCHANGED <<memberVars, lockVars, aborted, actVars>>
      BY <1>3, <2>2 DEF NextCycle, ExecuteRollback, IInv, StatusMatchesPc
    <3>2. TypeOK'
      BY <1>1, <2>2, <3>1 DEF TypeOK, Pass, Status, Location
    <3> QED BY <3>1, <3>2, ControlPreserves DEF Locking
  <2> QED BY <1>3, <2>1, <2>2 DEF NextCycle
<1>4. ASSUME PreCommitAborted(t) PROVE IInv'
  <2>1. TypeOK'
    BY <1>1, <1>4 DEF TypeOK, PreCommitAborted, Caller, Status, Location
  <2>2. /\ status' = [status EXCEPT ![t] = "Shared"]
        /\ pc' = [pc EXCEPT ![t] = Caller(t)]
        /\ Caller(t) \in {"actor", "close"}
        /\ UNCHANGED <<resources, lockVars>>
        /\ acquiring[t] = {} /\ status[t] # "Destroyed"
    BY <1>4 DEF PreCommitAborted, Caller, IInv, StatusMatchesPc, WaitingForm
  <2>3. aborted'[t] /\ \A u \in Tx : u # t => aborted'[u] = aborted[u]
    BY <1>1, <1>4 DEF TypeOK, PreCommitAborted
  <2> QED BY <2>1, <2>2, <2>3, ControlPreserves DEF Locking
<1>5. ASSUME NEW J \in SUBSET Participant, CommitPhaseOne(t, J) PROVE IInv'
  <2>1. TypeOK'
    BY <1>1, <1>5 DEF TypeOK, CommitPhaseOne, Pass, Status, Location
  <2>2. /\ status' = [status EXCEPT ![t] = "CommittingPhaseOne"]
        /\ pc' = [pc EXCEPT ![t] = "commit1"]
        /\ acquiring[t] = {} /\ status[t] = "Exclusive"
        /\ UNCHANGED <<resources, lockVars, aborted>>
    BY <1>5 DEF CommitPhaseOne, IInv, StatusMatchesPc
  <2> QED BY <2>1, <2>2, ControlPreserves DEF Locking
<1>6. ASSUME CommitPhaseOneFails(t) PROVE IInv'
  <2>1. TypeOK'
    BY <1>1, <1>6 DEF TypeOK, CommitPhaseOneFails, ExecuteRollback, Pass, Status, Location
  <2>2. /\ status' = [status EXCEPT ![t] = "RollingBack"]
        /\ pc' = [pc EXCEPT ![t] = "rollback"]
        /\ acquiring[t] = {} /\ status[t] # "Destroyed"
        /\ UNCHANGED <<resources, lockVars, aborted>>
    BY <1>6 DEF CommitPhaseOneFails, ExecuteRollback, IInv, StatusMatchesPc, WaitingForm
  <2> QED BY <2>1, <2>2, ControlPreserves DEF Locking
<1>7. ASSUME CommitPhaseTwo(t) PROVE IInv'
  <2>1. TypeOK'
    BY <1>1, <1>7 DEF TypeOK, CommitPhaseTwo, Status, Location
  <2>2. /\ status' = [status EXCEPT ![t] = "CommittingPhaseTwo"]
        /\ pc' = [pc EXCEPT ![t] = "commit2"]
        /\ acquiring[t] = {} /\ status[t] = "CommittingPhaseOne"
        /\ UNCHANGED <<resources, lockVars, aborted>>
    BY <1>7 DEF CommitPhaseTwo, IInv, StatusMatchesPc, WaitingForm
  <2> QED BY <2>1, <2>2, ControlPreserves DEF Locking
<1>8. ASSUME Committed(t) \/ CommitPhaseTwoFails(t) \/ RolledBack(t) PROVE IInv'
  <2>1. /\ Cleanup(t)
        /\ pc[t] \in {"commit2", "rollback"}
        /\ UNCHANGED <<resources, acquiring, actVars>>
    BY <1>8 DEF Committed, CommitPhaseTwoFails, RolledBack
  <2>2. PICK loc \in {"postCommit", "close", "actor"} : pc' = [pc EXCEPT ![t] = loc]
    BY <1>8 DEF Committed, CommitPhaseTwoFails, RolledBack, Caller
  <2>3. /\ cycles' \in [Tx -> 1..MaxPreCommitCycles]
        /\ mayHaveMutated' \in [Tx -> BOOLEAN]
        /\ pending' \in [Tx -> SUBSET Participant]
    <3>1. CASE Committed(t) \/ RolledBack(t)
      BY <1>1, <3>1 DEF TypeOK, Committed, RolledBack
    <3>2. CASE CommitPhaseTwoFails(t)
      <4>1. Pass(t, 1, {})
        BY <3>2 DEF CommitPhaseTwoFails
      <4>2. 1 \in 1..MaxPreCommitCycles
        OBVIOUS
      <4> QED BY <1>1, <4>1, <4>2 DEF TypeOK, Pass
    <3> QED BY <1>8, <3>1, <3>2
  <2>4. TypeOK'
    BY <1>1, <2>1, <2>2, <2>3 DEF TypeOK, Cleanup, ReleaseLocks, Status, Location
  <2> QED BY <2>1, <2>2, <2>4, CleanupPreserves
<1>9. ASSUME AfterCommit(t) PROVE IInv'
  <2>1. /\ acquiring[t] = {} /\ pc[t] = "postCommit"
        /\ status[t] \in {"Shared", "Exclusive"}
        /\ UNCHANGED <<memberVars, lockVars, finishing>>
    BY <1>9 DEF AfterCommit, IInv, StatusMatchesPc, WaitingForm
  <2>2. CASE /\ ~(finishing[t] /\ status[t] = "Exclusive")
             /\ pc' = [pc EXCEPT ![t] = Caller(t)]
             /\ UNCHANGED <<status, commitVars, commits>>
    <3>1. TypeOK'
      BY <1>1, <2>1, <2>2 DEF TypeOK, Caller, Location
    <3>2. /\ Caller(t) \in {"actor", "close"}
          /\ status' = [status EXCEPT ![t] = status[t]]
      BY <1>1, <2>2 DEF Caller, TypeOK
    <3>3. Caller(t) = "close" => \A r \in Resource : lockedBy[r] # t
      BY <2>1, <2>2 DEF Caller, IInv, UnlockedAfterCleanup
    <3> QED BY <2>1, <2>2, <3>1, <3>2, <3>3, ControlPreserves
  <2>3. CASE /\ commits' = [commits EXCEPT ![t] = @ + 1]
             /\ commits[t] < MaxChainedCommits
             /\ StartCommit(t)
             /\ UNCHANGED aborted
    <3>1. commits' \in [Tx -> 0..(MaxChainedCommits + 1)]
      BY <1>1, <2>3 DEF TypeOK
    <3> QED BY <1>1, <2>1, <2>3, <3>1, StartCommitPreserves DEF TypeOK
  <2>4. CASE /\ status[t] = "Exclusive"
             /\ commits' = [commits EXCEPT ![t] = @ + 1]
             /\ commits[t] = MaxChainedCommits
             /\ pc' = [pc EXCEPT ![t] = "close"]
             /\ aborted' = [aborted EXCEPT ![t] = TRUE]
             /\ UNCHANGED <<status, cycles, mayHaveMutated, pending>>
    <3>1. TypeOK'
      BY <1>1, <2>1, <2>4 DEF TypeOK, Location
    <3>2. /\ status' = [status EXCEPT ![t] = "Exclusive"]
          /\ aborted'[t] /\ \A u \in Tx : u # t => aborted'[u] = aborted[u]
      BY <1>1, <2>4 DEF TypeOK
    <3> QED BY <2>1, <2>4, <3>1, <3>2, ControlPreserves DEF Locking
  <2> QED BY <1>9, <2>2, <2>3, <2>4 DEF AfterCommit
<1>10. ASSUME Close(t) PROVE IInv'
  <2>1. TypeOK'
    BY <1>1, <1>10 DEF TypeOK, Close, Status, Location
  <2>2. StatusMatchesPc' /\ WaitingForm'
    BY <1>1, <1>10 DEF IInv, TypeOK, Close, StatusMatchesPc, WaitingForm
  <2>3. LocksAreResources' /\ ExclusiveHoldsLocks' /\ UnlockedAfterCleanup'
    BY <1>1, <1>10
    DEF IInv, TypeOK, Close, LocksAreResources, ExclusiveHoldsLocks, UnlockedAfterCleanup, Locking
  <2>4. WaitsOnlyOnHolders' /\ WaitGraphAcyclic'
    BY <1>10 DEF IInv, Close, WaitsOnlyOnHolders, WaitGraphAcyclic, Acyclic
  <2> QED BY <2>1, <2>2, <2>3, <2>4 DEF IInv
<1> QED BY <1>2, <1>3, <1>4, <1>5, <1>6, <1>7, <1>8, <1>9, <1>10 DEF SystemStep

-----------------------------------------------------------------------------
(* Every step of act(), of the transactions and of their locks preserves the *)
(* invariant.                                                                *)
LEMMA Inductive == IInv /\ [Next]_vars => IInv'
<1>1. CASE Next
  BY <1>1, UserStepPreserves, UserCodeEndPreserves, SystemStepPreserves DEF Next
<1>2. CASE UNCHANGED vars
  BY <1>2
  DEF vars, lockVars, memberVars, commitVars, actVars, IInv, TypeOK, StatusMatchesPc, WaitingForm,
      LocksAreResources, ExclusiveHoldsLocks, UnlockedAfterCleanup, WaitsOnlyOnHolders,
      WaitGraphAcyclic, Acyclic
<1> QED BY <1>1, <1>2

(* The inductive invariant holds in every state that act() and the           *)
(* transactions it runs can reach.                                           *)
THEOREM InvariantHolds == Spec => []IInv
<1> QED BY InitEstablishes, Inductive, PTL DEF Spec

(* Every variable of a transaction stays within its type. *)
THEOREM TypeCorrect == Spec => []TypeOK
<1>1. IInv => TypeOK
  BY DEF IInv
<1> QED BY <1>1, InvariantHolds, PTL

(* The wait graph that acquireLocks() and waitFor() build never has a cycle. *)
THEOREM NoDeadlock == Spec => []WaitGraphAcyclic
<1>1. IInv => WaitGraphAcyclic
  BY DEF IInv
<1> QED BY <1>1, InvariantHolds, PTL

(* An exclusive or committing transaction has all its resources locked. *)
THEOREM Isolation == Spec => []ExclusiveHoldsLocks
<1>1. IInv => ExclusiveHoldsLocks
  BY DEF IInv
<1> QED BY <1>1, InvariantHolds, PTL

(* No waiter misses the release of the lock it waits for. *)
THEOREM NoLostWakeUp == Spec => []WaitsOnlyOnHolders
<1>1. IInv => WaitsOnlyOnHolders
  BY DEF IInv
<1> QED BY <1>1, InvariantHolds, PTL

(* Only a commit that ended without cleanup leaves a lock on a destroyed    *)
(* transaction.                                                              *)
THEOREM OrphansExplained == Spec => []OrphanOnlyAfterAbort
<1>1. IInv => OrphanOnlyAfterAbort
  BY DEF IInv, TypeOK, Location, OrphanOnlyAfterAbort, StatusMatchesPc, UnlockedAfterCleanup
<1> QED BY <1>1, InvariantHolds, PTL

(* A lock never passes from one holder to another without being released.    *)
THEOREM NoStealing == Spec => LocksNeverStolen
<1> DEFINE Kept == \A r \in Resource : lockedBy[r] # NoTx => lockedBy'[r] \in {lockedBy[r], NoTx}
<1>1. ASSUME TypeOK, [Next]_vars PROVE [Kept]_vars
  <2> USE DEF lockVars, memberVars, commitVars, actVars
  <2>1. ASSUME NEW t \in Tx, NEW R \in SUBSET Resource, AcquireLocksSync(t, R) PROVE Kept
    <3>1. \A r \in R : lockedBy[r] \in {t, NoTx}
      BY <2>1 DEF AcquireLocksSync, BlockedBy
    <3> QED BY <2>1, <3>1 DEF AcquireLocksSync
  <2>2. ASSUME NEW t \in Tx, NEW R \in SUBSET Resource, NEW s, AcquireLocks(t, R, s) PROVE Kept
    <3>1. AcquireLocksSync(t, R) \/ UNCHANGED lockedBy
      BY <2>2 DEF AcquireLocks
    <3> QED BY <2>1, <3>1
  <2>3. ASSUME NEW t \in Tx, Cleanup(t) PROVE Kept
    BY <1>1, <2>3 DEF Cleanup, ReleaseLocks, TypeOK
  <2>4. ASSUME NEW t \in Tx, UserStep(t) PROVE Kept
    <3>1. ASSUME NEW R \in SUBSET Resource, AddResources(t, R) PROVE Kept
      BY <1>1, <2>2, <3>1 DEF AddResources, TypeOK
    <3>2. ASSUME NEW R \in SUBSET Resource, AddResourcesSync(t, R) PROVE Kept
      BY <2>1, <3>2 DEF AddResourcesSync
    <3>3. CASE Begin(t)
      BY <1>1, <2>2, <3>3 DEF Begin, TypeOK
    <3>4. CASE BeginSync(t)
      BY <1>1, <2>1, <3>4 DEF BeginSync, TypeOK
    <3>5. CASE (\E p \in Participant : AddParticipants(t, p)) \/ Commit(t) \/ Rollback(t)
      BY <1>1, <3>5 DEF AddParticipants, Commit, Rollback, TypeOK
    <3> QED BY <2>4, <3>1, <3>2, <3>3, <3>4, <3>5 DEF UserStep
  <2>5. ASSUME NEW t \in Tx, ActorEnds(t) \/ HandlerEnds(t) PROVE Kept
    <3>1. CASE ActorEnds(t)
      BY <3>1 DEF ActorEnds, ActorReturns, ActorThrows
    <3>2. CASE \E p \in Participant, b \in BOOLEAN : PreCommit(t, p, b) \/ PostCommit(t, p, b)
      BY <3>2 DEF PreCommit, PostCommit
    <3>3. CASE PreCommitFails(t)
      BY <3>3 DEF PreCommitFails
    <3> QED BY <2>5, <3>1, <3>2, <3>3 DEF HandlerEnds
  <2>6. ASSUME NEW t \in Tx, SystemStep(t) PROVE Kept
    <3>1. CASE Resume(t)
      BY <1>1, <2>2, <3>1 DEF Resume, TypeOK
    <3>2. CASE Committed(t) \/ CommitPhaseTwoFails(t) \/ RolledBack(t)
      BY <2>3, <3>2 DEF Committed, CommitPhaseTwoFails, RolledBack
    <3>3. CASE \/ NextCycle(t) \/ PreCommitAborted(t) \/ CommitPhaseOneFails(t)
               \/ CommitPhaseTwo(t) \/ AfterCommit(t) \/ Close(t)
               \/ \E J \in SUBSET Participant : CommitPhaseOne(t, J)
      BY <1>1, <3>3
      DEF NextCycle, PreCommitAborted, CommitPhaseOneFails, CommitPhaseTwo, AfterCommit, Close,
          CommitPhaseOne, TypeOK
    <3> QED BY <2>6, <3>1, <3>2, <3>3 DEF SystemStep
  <2> QED BY <1>1, <2>4, <2>5, <2>6 DEF Next
<1> QED BY <1>1, TypeCorrect, PTL DEF Spec, LocksNeverStolen

-----------------------------------------------------------------------------
(* Datasources *)

(* A session has changes of its own only as a participant of a transaction   *)
(* that is exclusive or committing; nobody has changed the value it cloned.  *)
Owned(t) ==
    \A d \in Resource :
        working[t][d] # None =>
            /\ status[t] \in Locking
            /\ d \in participants[t]
            /\ lockedBy[d] = t
            /\ working[t][d].base = canonical[d]

(* A participant is a resource as well, or the store in a commit. *)
Joined(t) ==
    /\ participants[t] \cap Resource \subseteq resources[t]
    /\ Store \in participants[t] => pc[t] \in {"commit1", "commit2"}

(* As long as no observer of this pass may have changed anything, the        *)
(* datasources it has done with have announced the values they have.         *)
Settled(t) ==
    pc[t] = "preCommit" /\ handling[t] = None /\ ~mayHaveMutated[t] =>
        \A d \in (participants[t] \cap Resource) \ pending[t] : ~PreCommitChange(t, d)

(* Observers run for a datasource that the pass has not done with. *)
Observed(t) ==
    handling[t] # None => pc[t] \in {"preCommit", "postCommit"} /\ handling[t] \in pending[t]

(* Between the phases: the changes are announced, and the storage            *)
(* participant, if it joined, has exactly the changed values.                *)
Prepared(t) ==
    pc[t] = "commit1" =>
        \A d \in Resource :
            /\ d \in changed[t] => /\ working[t][d] # None
                                   /\ precommit[t][d] = working[t][d].value
            /\ mutations[t][d] # None => /\ d \in changed[t]
                                         /\ mutations[t][d] = working[t][d].value
            /\ d \in changed[t] /\ Store \in participants[t] => mutations[t][d] # None

(* What is yet to be written is canonical and locked. *)
Writing(t) ==
    pc[t] = "commit2" =>
        \A d \in unwritten[t] : lockedBy[d] = t /\ mutations[t][d] = canonical[d]

Session(t) == Owned(t) /\ Joined(t) /\ Observed(t) /\ Settled(t) /\ Prepared(t) /\ Writing(t)

(* A canonical value is in the store, on its way there, or known as lost. *)
Persisted ==
    \A d \in Resource :
        \/ lost[d]
        \/ stored[d] = canonical[d]
        \/ \E t \in Tx : pc[t] = "commit2" /\ d \in unwritten[t]

DatasourceInv ==
    /\ IInv
    /\ DatasourceTypeOK
    /\ \A t \in Tx : Session(t)
    /\ Persisted

-----------------------------------------------------------------------------
(* A step of t leaves the other transactions and their sessions alone, and   *)
(* neither unlocks nor changes what they have locked.                        *)
Frame(t) ==
    /\ \A u \in Tx \ {t} :
          /\ status'[u] = status[u] /\ pc'[u] = pc[u]
          /\ resources'[u] = resources[u] /\ participants'[u] = participants[u]
          /\ pending'[u] = pending[u] /\ mayHaveMutated'[u] = mayHaveMutated[u]
          /\ working'[u] = working[u] /\ precommit'[u] = precommit[u]
          /\ changed'[u] = changed[u] /\ handling'[u] = handling[u]
          /\ mutations'[u] = mutations[u] /\ unwritten'[u] = unwritten[u]
    /\ \A d \in Resource :
          lockedBy[d] \in Tx \ {t} => lockedBy'[d] = lockedBy[d] /\ canonical'[d] = canonical[d]

(* Then the sessions of the others are as good as before. *)
LEMMA OthersKeep ==
    ASSUME DatasourceInv, NEW t \in Tx, Frame(t), NEW u \in Tx \ {t}
    PROVE  Session(u)'
<1>1. Session(u) /\ IInv /\ DatasourceTypeOK
  BY DEF DatasourceInv
<1>2. /\ status'[u] = status[u] /\ pc'[u] = pc[u]
      /\ resources'[u] = resources[u] /\ participants'[u] = participants[u]
      /\ pending'[u] = pending[u] /\ mayHaveMutated'[u] = mayHaveMutated[u]
      /\ working'[u] = working[u] /\ precommit'[u] = precommit[u]
      /\ changed'[u] = changed[u] /\ handling'[u] = handling[u]
      /\ mutations'[u] = mutations[u] /\ unwritten'[u] = unwritten[u]
  BY DEF Frame
<1>3. \A d \in Resource :
          lockedBy[d] = u => lockedBy'[d] = u /\ canonical'[d] = canonical[d]
  BY DEF Frame
<1>4. Owned(u)'
  BY <1>1, <1>2, <1>3 DEF Session, Owned
<1>5. Joined(u)' /\ Observed(u)'
  BY <1>1, <1>2 DEF Session, Joined, Observed
<1>6. Settled(u)'
  <2> SUFFICES ASSUME pc[u] = "preCommit", handling[u] = None, ~mayHaveMutated[u],
                      NEW d \in (participants[u] \cap Resource) \ pending[u]
               PROVE  ~PreCommitChange(u, d)'
    BY <1>2 DEF Settled
  <2>1. lockedBy[d] = u
    BY <1>1
    DEF Session, Joined, IInv, StatusMatchesPc, ExclusiveHoldsLocks, Locking
  <2>2. ~PreCommitChange(u, d)
    BY <1>1 DEF Session, Settled
  <2> QED BY <1>2, <1>3, <2>1, <2>2 DEF PreCommitChange, View
<1>7. Prepared(u)'
  BY <1>1, <1>2 DEF Session, Prepared
<1>8. Writing(u)'
  BY <1>1, <1>2, <1>3 DEF Session, Writing, DatasourceTypeOK
<1> QED BY <1>4, <1>5, <1>6, <1>7, <1>8 DEF Session

(* What remains to be shown of a step of t. *)
Preserved(t) == /\ IInv'
                /\ DatasourceTypeOK'
                /\ Frame(t)
                /\ Session(t)'
                /\ Persisted'

LEMMA PreservedSuffices ==
    ASSUME DatasourceInv, NEW t \in Tx, Preserved(t)
    PROVE  DatasourceInv'
<1>1. \A u \in Tx : Session(u)'
  BY OthersKeep DEF Preserved
<1> QED BY <1>1 DEF Preserved, DatasourceInv

(* Most steps touch neither the store nor the canonical values. *)
LEMMA StoreUntouched ==
    ASSUME DatasourceInv,
           UNCHANGED <<stored, canonical, lost, unwritten>>,
           \A u \in Tx : pc[u] = "commit2" => pc'[u] = "commit2"
    PROVE  Persisted'
BY DEF DatasourceInv, Persisted

(* An exclusive acquisition does not touch the locks of others. *)
LEMMA AcquireKeepsOthers ==
    ASSUME TypeOK, NEW t \in Tx, NEW R \in SUBSET Resource, AcquireLocksSync(t, R)
    PROVE  /\ \A d \in Resource : lockedBy[d] \in Tx \ {t} => lockedBy'[d] = lockedBy[d]
           /\ \A d \in Resource : lockedBy[d] = t => lockedBy'[d] = t
           /\ \A d \in R : lockedBy'[d] = t
<1>1. /\ lockedBy' = [r \in Resource |-> IF r \in R THEN t ELSE lockedBy[r]]
      /\ \A r \in R : lockedBy[r] \in {t, NoTx}
  BY DEF AcquireLocksSync, BlockedBy
<1> QED BY <1>1, NoTxAssumption DEF TypeOK

-----------------------------------------------------------------------------
(* Reading and writing in a session *)

LEMMA ChangePreserves ==
    ASSUME DatasourceInv, NEW t \in Tx, NEW d \in Resource, NEW v \in Value, Change(t, d, v)
    PROVE  Preserved(t)
<1> USE DEF lockVars, commitVars, actVars, storeVars
<1>1. TypeOK /\ IInv /\ DatasourceTypeOK /\ Session(t)
  BY DEF DatasourceInv, IInv
<1>2. PICK R \in SUBSET Resource :
         /\ AcquireLocksSync(t, R)
         /\ d \in R
         /\ resources[t] \cup {d} = resources[t] \cup R
         /\ \/ status[t] = "Exclusive"
            \/ status[t] = "Shared" /\ resources[t] \subseteq R
  <2>1. {d} \in SUBSET Resource /\ resources[t] \cup {d} \in SUBSET Resource
    BY <1>1 DEF TypeOK
  <2> QED BY <2>1 DEF Change
<1>3. /\ InUserCode(t)
      /\ acquiring[t] = {}
      /\ pc[t] \in {"actor", "preCommit", "postCommit"}
      /\ pc[t] = "preCommit" => handling[t] # None
      /\ waitingOn[t] = {}
  BY <1>1 DEF Change, InSession, InUserCode, IInv, WaitsOnlyOnHolders, TypeOK
<1>4. /\ status' = [status EXCEPT ![t] = "Exclusive"]
      /\ resources' = [resources EXCEPT ![t] = @ \cup R]
      /\ participants' = [participants EXCEPT ![t] = @ \cup {d}]
      /\ pending' = [pending EXCEPT
             ![t] = IF pc[t] = "preCommit" /\ d \notin participants[t] THEN @ \cup {d} ELSE @]
      /\ UNCHANGED <<pc, acquiring, waitingOn, cycles, mayHaveMutated, aborted, actVars>>
      /\ UNCHANGED <<canonical, version, precommit, changed, handling, storeVars>>
  BY <1>1, <1>2 DEF Change, Join, TypeOK
<1>5. d \in Participant
  BY ParticipantAssumption
<1>6. IInv'
  <2>1. /\ participants' \in [Tx -> SUBSET Participant]
        /\ pending' \in [Tx -> SUBSET Participant]
        /\ acquiring' = [acquiring EXCEPT ![t] = {}]
        /\ resources[t] \subseteq R \/ status[t] = "Exclusive"
    BY <1>1, <1>2, <1>3, <1>4, <1>5 DEF TypeOK
  <2> QED BY <1>1, <1>2, <1>3, <1>4, <2>1, LockingPreserves
<1>7. /\ working' \in [Tx -> [Resource -> Copy \cup {None}]]
      /\ \A u \in Tx \ {t} : working'[u] = working[u]
      /\ \A e \in Resource \ {d} : working'[t][e] = working[t][e]
      /\ working'[t][d] # None =>
            working'[t][d].base =
                IF working[t][d] = None THEN canonical[d] ELSE working[t][d].base
  <2> DEFINE w == IF working[t][d] = None
                    THEN [value |-> v, base |-> canonical[d], version |-> version[d]]
                    ELSE [working[t][d] EXCEPT !.value = v]
  <2>1. w \in Copy /\ w.base = IF working[t][d] = None THEN canonical[d] ELSE working[t][d].base
    <3>1. working[t][d] \in Copy \cup {None} /\ canonical[d] \in Value /\ version[d] \in 0..MaxVersion
      BY <1>1 DEF DatasourceTypeOK
    <3> QED BY <3>1 DEF Copy
  <2>2. working' = [working EXCEPT ![t][d] = w]
    BY DEF Change, Mutate
  <2>3. working \in [Tx -> [Resource -> Copy \cup {None}]]
    BY <1>1 DEF DatasourceTypeOK
  <2> HIDE DEF w
  <2> QED BY <2>1, <2>2, <2>3
<1>8. DatasourceTypeOK'
  BY <1>1, <1>4, <1>6, <1>7 DEF DatasourceTypeOK, IInv
<1>9. Frame(t)
  BY <1>1, <1>2, <1>4, <1>7, AcquireKeepsOthers DEF Frame, TypeOK
<1>10. Session(t)'
  <2>1. Owned(t)'
    <3> SUFFICES ASSUME NEW e \in Resource, working'[t][e] # None
                 PROVE  /\ status'[t] \in Locking
                        /\ e \in participants'[t]
                        /\ lockedBy'[e] = t
                        /\ working'[t][e].base = canonical'[e]
      BY DEF Owned
    <3>1. status'[t] \in Locking
      BY <1>1, <1>4 DEF TypeOK, Locking
    <3>2. CASE e = d
      <4>1. lockedBy'[d] = t
        BY <1>1, <1>2, AcquireKeepsOthers
      <4>2. d \in participants'[t]
        BY <1>1, <1>4 DEF TypeOK
      <4>3. working'[t][d].base = canonical[d]
        BY <1>1, <1>7, <3>2 DEF Session, Owned
      <4> QED BY <1>4, <3>1, <3>2, <4>1, <4>2, <4>3
    <3>3. CASE e # d
      <4>1. /\ working'[t][e] = working[t][e]
            /\ e \in participants[t] /\ lockedBy[e] = t
            /\ working[t][e].base = canonical[e]
        BY <1>1, <1>7, <3>3 DEF Session, Owned
      <4>2. lockedBy'[e] = t
        BY <1>1, <1>2, <4>1, AcquireKeepsOthers
      <4> QED BY <1>1, <1>4, <3>1, <4>1, <4>2 DEF TypeOK
    <3> QED BY <3>2, <3>3
  <2>2. Joined(t)'
    BY <1>1, <1>2, <1>4, ParticipantAssumption DEF Session, Joined, TypeOK
  <2>3. Observed(t)'
    BY <1>1, <1>4 DEF Session, Observed, TypeOK
  <2>4. Settled(t)' /\ Prepared(t)' /\ Writing(t)'
    BY <1>3, <1>4 DEF Settled, Prepared, Writing
  <2> QED BY <2>1, <2>2, <2>3, <2>4 DEF Session
<1>11. Persisted'
  BY <1>4, StoreUntouched
<1> QED BY <1>6, <1>8, <1>9, <1>10, <1>11 DEF Preserved

LEMMA ChangeConflictsPreserves ==
    ASSUME DatasourceInv, NEW t \in Tx, NEW d \in Resource, ChangeConflicts(t, d)
    PROVE  Preserved(t)
<1> USE DEF lockVars, commitVars, actVars, storeVars, sessionVars, dsVars
<1>1. TypeOK /\ IInv /\ DatasourceTypeOK /\ Session(t)
  BY DEF DatasourceInv, IInv
<1>2. /\ status[t] = "Shared"
      /\ acquiring[t] = {}
      /\ pc[t] \in {"actor", "postCommit"}
  BY <1>1 DEF ChangeConflicts, InSession, InUserCode, IInv, StatusMatchesPc
<1>3. /\ resources' = [resources EXCEPT ![t] = @ \cup {d}]
      /\ participants' = [participants EXCEPT ![t] = @ \cup {d}]
      /\ UNCHANGED <<status, pc, pending, lockVars, cycles, mayHaveMutated, aborted, actVars, dsVars>>
  BY <1>1, <1>2 DEF ChangeConflicts, Join, TypeOK
<1>4. d \in Participant
  BY ParticipantAssumption
<1>5. IInv'
  <2>1. /\ participants' \in [Tx -> SUBSET Participant]
        /\ pending' \in [Tx -> SUBSET Participant]
        /\ {d} \in SUBSET Resource
    BY <1>1, <1>3, <1>4 DEF TypeOK
  <2> QED BY <1>1, <1>2, <1>3, <2>1, JoiningPreserves
<1>6. DatasourceTypeOK'
  BY <1>1, <1>3, <1>5 DEF DatasourceTypeOK, IInv
<1>7. Frame(t)
  BY <1>1, <1>3 DEF Frame, TypeOK
<1>8. Session(t)'
  <2>1. Owned(t)'
    BY <1>1, <1>2, <1>3 DEF Session, Owned, TypeOK, Locking
  <2>2. Joined(t)'
    BY <1>1, <1>3, ParticipantAssumption DEF Session, Joined, TypeOK
  <2>3. Observed(t)'
    BY <1>1, <1>3 DEF Session, Observed
  <2>4. Settled(t)' /\ Prepared(t)' /\ Writing(t)'
    BY <1>2, <1>3 DEF Settled, Prepared, Writing
  <2> QED BY <2>1, <2>2, <2>3, <2>4 DEF Session
<1>9. Persisted'
  BY <1>3, StoreUntouched
<1> QED BY <1>5, <1>6, <1>7, <1>8, <1>9 DEF Preserved

(* Waiting for locks concerns nobody's session. *)
LEMMA AcquirePreserves ==
    ASSUME DatasourceInv, NEW t \in Tx, NEW R \in SUBSET Resource, NEW s,
           AcquireLocks(t, R, s), IInv',
           pc[t] \in {"actor", "preCommit", "postCommit"},
           status[t] = "Exclusive" => s = "Exclusive",
           status[t] \in {"Shared", "Waiting", "Exclusive"},
           UNCHANGED <<pc, participants, commitVars, actVars, dsVars>>
    PROVE  Preserved(t)
<1> USE DEF commitVars, dsVars, storeVars, sessionVars
<1>1. TypeOK /\ IInv /\ DatasourceTypeOK /\ Session(t)
  BY DEF DatasourceInv, IInv
<1>2. /\ \A d \in Resource : lockedBy[d] \in Tx \ {t} => lockedBy'[d] = lockedBy[d]
      /\ \A d \in Resource : lockedBy[d] = t => lockedBy'[d] = t
  <2>1. AcquireLocksSync(t, R) \/ UNCHANGED lockedBy
    BY DEF AcquireLocks
  <2> QED BY <1>1, <2>1, AcquireKeepsOthers
<1>3. /\ \A u \in Tx \ {t} : status'[u] = status[u] /\ resources'[u] = resources[u]
      /\ resources[t] \subseteq resources'[t]
      /\ status[t] = "Exclusive" => status'[t] = "Exclusive"
  BY <1>1 DEF AcquireLocks, TypeOK
<1>4. DatasourceTypeOK'
  BY <1>1 DEF DatasourceTypeOK, IInv
<1>5. Frame(t)
  BY <1>1, <1>2, <1>3 DEF Frame
<1>6. Session(t)'
  <2>1. Owned(t)'
    BY <1>1, <1>2, <1>3 DEF Session, Owned, Locking
  <2>2. Joined(t)'
    BY <1>1, <1>3 DEF Session, Joined
  <2>3. Observed(t)' /\ Settled(t)'
    BY <1>1 DEF Session, Observed, Settled, PreCommitChange, View
  <2>4. Prepared(t)' /\ Writing(t)'
    BY DEF Prepared, Writing
  <2> QED BY <2>1, <2>2, <2>3, <2>4 DEF Session
<1>7. Persisted'
  BY StoreUntouched
<1> QED BY <1>4, <1>5, <1>6, <1>7 DEF Preserved

LEMMA LockPreserves ==
    ASSUME DatasourceInv, NEW t \in Tx, Lock(t) \/ LockGranted(t)
    PROVE  Preserved(t)
<1> USE DEF lockVars, commitVars, actVars, dsVars, storeVars, sessionVars
<1>1. TypeOK /\ IInv /\ DatasourceTypeOK /\ Session(t)
  BY DEF DatasourceInv, IInv
<1>2. ASSUME NEW d \in Resource, AddResources(t, {d}), UNCHANGED dsVars PROVE Preserved(t)
  <2>1. IInv' /\ {d} \in SUBSET Resource
    BY <1>1, <1>2, UserStepPreserves DEF UserStep
  <2>2. /\ pc[t] \in {"actor", "preCommit", "postCommit"}
        /\ status[t] \in {"Shared", "Waiting", "Exclusive"}
        /\ UNCHANGED <<pc, participants, commitVars, actVars>>
    BY <1>1, <1>2 DEF AddResources, InUserCode
  <2>3. CASE status[t] = "Exclusive" /\ AcquireLocks(t, {d}, "Exclusive")
    BY <1>2, <2>1, <2>2, <2>3, AcquirePreserves
  <2>4. CASE /\ status[t] = "Shared"
             /\ resources' = [resources EXCEPT ![t] = @ \cup {d}]
             /\ UNCHANGED <<status, lockVars>>
    <3>1. Frame(t)
      BY <1>1, <1>2, <2>2, <2>4 DEF Frame, TypeOK
    <3>2. DatasourceTypeOK'
      BY <1>1, <1>2, <2>1 DEF DatasourceTypeOK, IInv
    <3>3. Owned(t)'
      BY <1>1, <1>2, <2>2, <2>4 DEF Session, Owned
    <3>4. Joined(t)'
      BY <1>1, <2>2, <2>4 DEF Session, Joined, TypeOK
    <3>5. Observed(t)' /\ Settled(t)'
      BY <1>1, <1>2, <2>2, <2>4 DEF Session, Observed, Settled, PreCommitChange, View
    <3>6. Prepared(t)' /\ Writing(t)'
      BY <2>2 DEF Prepared, Writing
    <3>7. Persisted'
      BY <1>2, <2>2, StoreUntouched
    <3> QED BY <2>1, <3>1, <3>2, <3>3, <3>4, <3>5, <3>6, <3>7 DEF Preserved, Session
  <2> QED BY <1>2, <2>3, <2>4 DEF AddResources
<1>3. ASSUME Begin(t), UNCHANGED dsVars PROVE Preserved(t)
  <2>1. IInv'
    BY <1>1, <1>3, UserStepPreserves DEF UserStep
  <2>2. /\ pc[t] \in {"actor", "preCommit", "postCommit"}
        /\ status[t] = "Shared"
        /\ resources[t] \in SUBSET Resource
        /\ AcquireLocks(t, resources[t], "Waiting")
        /\ UNCHANGED <<pc, participants, commitVars, actVars>>
    BY <1>1, <1>3 DEF Begin, InUserCode, TypeOK
  <2> QED BY <1>3, <2>1, <2>2, AcquirePreserves
<1>4. ASSUME LockGranted(t) PROVE Preserved(t)
  <2>1. IInv'
    BY <1>1, <1>4, SystemStepPreserves DEF SystemStep, LockGranted
  <2>2. /\ acquiring[t] \in SUBSET Resource
        /\ AcquireLocks(t, acquiring[t], status[t])
        /\ acquiring[t] # {}
        /\ UNCHANGED <<pc, participants, commitVars, actVars, dsVars>>
    BY <1>1, <1>4 DEF LockGranted, Resume, TypeOK
  <2>3. /\ pc[t] \in {"actor", "preCommit", "postCommit"}
        /\ status[t] \in {"Waiting", "Exclusive"}
    BY <1>1, <2>2 DEF IInv, WaitingForm
  <2> QED BY <2>1, <2>2, <2>3, AcquirePreserves
<1> QED BY <1>2, <1>3, <1>4 DEF Lock

-----------------------------------------------------------------------------
(* Rollback *)

(* As every session with changes is a participant, a rollback drops them all. *)
LEMMA RollbackDropsAll ==
    ASSUME DatasourceInv, NEW t \in Tx, RollbackParticipants(t)
    PROVE  /\ working' \in [Tx -> [Resource -> Copy \cup {None}]]
           /\ \A d \in Resource : working'[t][d] = None
           /\ \A u \in Tx \ {t} : working'[u] = working[u]
           /\ handling' = [handling EXCEPT ![t] = None]
           /\ changed' = [changed EXCEPT ![t] = {}]
<1>1. Session(t) /\ DatasourceTypeOK
  BY DEF DatasourceInv
<1> DEFINE w == [d \in Resource |-> IF d \in participants[t] THEN None ELSE working[t][d]]
<1>2. \A d \in Resource : w[d] = None
  BY <1>1 DEF Session, Owned
<1>3. w \in [Resource -> Copy \cup {None}]
  BY <1>2
<1>4. working' = [working EXCEPT ![t] = w]
  BY DEF RollbackParticipants
<1>5. working \in [Tx -> [Resource -> Copy \cup {None}]]
  BY <1>1 DEF DatasourceTypeOK
<1> HIDE DEF w
<1>6. /\ working' \in [Tx -> [Resource -> Copy \cup {None}]]
      /\ working'[t] = w
      /\ \A u \in Tx \ {t} : working'[u] = working[u]
  BY <1>3, <1>4, <1>5
<1> QED BY <1>2, <1>6 DEF RollbackParticipants, EndCommit

(* A commit or an error that rolls the participants back. *)
LEMMA RollbackPreserves ==
    ASSUME DatasourceInv, NEW t \in Tx, RollbackParticipants(t), IInv',
           NEW loc \in {"rollback", "abort"},
           pc[t] \notin {"commit1", "commit2"},
           pc' = [pc EXCEPT ![t] = loc],
           status' = [status EXCEPT ![t] = "RollingBack"],
           \A u \in Tx \ {t} : pending'[u] = pending[u] /\ mayHaveMutated'[u] = mayHaveMutated[u],
           UNCHANGED <<memberVars, lockVars, canonical, version, precommit, storeVars>>
    PROVE  Preserved(t)
<1> USE DEF lockVars, memberVars, storeVars
<1>1. TypeOK /\ IInv /\ DatasourceTypeOK /\ Session(t)
  BY DEF DatasourceInv, IInv
<1>2. /\ working' \in [Tx -> [Resource -> Copy \cup {None}]]
      /\ \A d \in Resource : working'[t][d] = None
      /\ \A u \in Tx \ {t} : working'[u] = working[u]
      /\ handling' = [handling EXCEPT ![t] = None]
      /\ changed' = [changed EXCEPT ![t] = {}]
  BY RollbackDropsAll
<1>3. DatasourceTypeOK'
  BY <1>1, <1>2 DEF DatasourceTypeOK, IInv
<1>4. Frame(t)
  BY <1>1, <1>2 DEF Frame, TypeOK, DatasourceTypeOK
<1>5. Owned(t)'
  BY <1>2 DEF Owned
<1>6. Joined(t)'
  BY <1>1 DEF Session, Joined
<1>7. Observed(t)' /\ Settled(t)' /\ Prepared(t)' /\ Writing(t)'
  BY <1>1, <1>2 DEF Observed, Settled, Prepared, Writing, TypeOK, DatasourceTypeOK
<1>8. Persisted'
  BY <1>1, StoreUntouched DEF TypeOK
<1> QED BY <1>3, <1>4, <1>5, <1>6, <1>7, <1>8 DEF Preserved, Session

LEMMA RollsBackPreserves ==
    ASSUME DatasourceInv, NEW t \in Tx, RollsBack(t)
    PROVE  Preserved(t)
<1> USE DEF commitVars
<1>1. TypeOK /\ IInv
  BY DEF DatasourceInv, IInv
<1>2. /\ RollbackParticipants(t)
      /\ UNCHANGED <<canonical, version, precommit, storeVars>>
  BY DEF RollsBack
<1>3. CASE Rollback(t)
  <2>1. IInv'
    BY <1>1, <1>3, UserStepPreserves DEF UserStep
  <2> QED BY <1>2, <1>3, <2>1, RollbackPreserves DEF Rollback, InActor, ExecuteRollback
<1>4. CASE ActorThrows(t)
  <2>1. IInv'
    BY <1>1, <1>4, UserCodeEndPreserves DEF ActorEnds
  <2> QED BY <1>2, <1>4, <2>1, RollbackPreserves DEF ActorThrows, InActor, ExecuteRollback
<1>5. CASE PreCommitFails(t)
  <2>1. IInv'
    BY <1>1, <1>5, UserCodeEndPreserves DEF HandlerEnds
  <2>2. \A u \in Tx \ {t} : pending'[u] = pending[u] /\ mayHaveMutated'[u] = mayHaveMutated[u]
    BY <1>1, <1>5 DEF PreCommitFails, Pass, TypeOK
  <2> QED BY <1>2, <1>5, <2>1, <2>2, RollbackPreserves DEF PreCommitFails, ExecuteRollback
<1> QED BY <1>3, <1>4, <1>5 DEF RollsBack

(* The rollback of a pre-commit that failed is over. *)
LEMMA AbortEndsPreserves ==
    ASSUME DatasourceInv, NEW t \in Tx, AbortEnds(t)
    PROVE  Preserved(t)
<1> USE DEF lockVars, memberVars, dsVars, storeVars, sessionVars
<1>1. TypeOK /\ IInv /\ DatasourceTypeOK /\ Session(t)
  BY DEF DatasourceInv, IInv
<1>2. IInv'
  BY <1>1, SystemStepPreserves DEF SystemStep, AbortEnds
<1>3. /\ pc[t] = "abort"
      /\ pc' = [pc EXCEPT ![t] = Caller(t)]
      /\ Caller(t) \in {"actor", "close"}
      /\ status' = [status EXCEPT ![t] = "Shared"]
      /\ UNCHANGED <<memberVars, lockVars, mayHaveMutated, pending, dsVars>>
  BY DEF AbortEnds, PreCommitAborted, Caller
<1>4. DatasourceTypeOK'
  BY <1>1, <1>2, <1>3 DEF DatasourceTypeOK, IInv
<1>5. Frame(t)
  BY <1>1, <1>3 DEF Frame, TypeOK
<1>6. Owned(t)'
  BY <1>1, <1>3 DEF Session, Owned, Locking, IInv, StatusMatchesPc
<1>7. Joined(t)'
  BY <1>1, <1>3 DEF Session, Joined, TypeOK
<1>8. Observed(t)' /\ Settled(t)' /\ Prepared(t)' /\ Writing(t)'
  BY <1>1, <1>3 DEF Session, Observed, Settled, Prepared, Writing, TypeOK
<1>9. Persisted'
  BY <1>1, <1>3, StoreUntouched DEF TypeOK
<1> QED BY <1>2, <1>4, <1>5, <1>6, <1>7, <1>8, <1>9 DEF Preserved, Session

-----------------------------------------------------------------------------
(* Pre-commit *)

(* commit() goes on to a rollback, to a first pass or, when act() is done,   *)
(* to its end.                                                               *)
LEMMA CommitStarts ==
    ASSUME IInv, NEW t \in Tx, Commit(t) \/ ActorReturns(t) \/ AfterCommit(t)
    PROVE  /\ IInv'
           /\ pc[t] = "actor" \/ (pc[t] = "postCommit" /\ pending[t] = {})
           /\ UNCHANGED <<memberVars, lockVars>>
           /\ \A u \in Tx \ {t} : pending'[u] = pending[u] /\ mayHaveMutated'[u] = mayHaveMutated[u]
           /\ \/ /\ pc' = [pc EXCEPT ![t] = "rollback"]
                 /\ status' = [status EXCEPT ![t] = "RollingBack"]
              \/ /\ UNCHANGED status
                 /\ \E loc \in {"preCommit", "actor", "close"} :
                       /\ pc' = [pc EXCEPT ![t] = loc]
                       /\ loc = "preCommit" => pending'[t] = participants[t]
<1> USE DEF commitVars
<1>1. TypeOK
  BY DEF IInv
<1>2. IInv'
  BY UserStepPreserves, UserCodeEndPreserves, SystemStepPreserves
  DEF UserStep, ActorEnds, SystemStep
<1>3. /\ pc[t] = "actor" \/ (pc[t] = "postCommit" /\ pending[t] = {})
      /\ UNCHANGED <<memberVars, lockVars>>
  <2>1. CASE Commit(t) \/ ActorReturns(t)
    BY <2>1 DEF Commit, ActorReturns, InActor
  <2>2. CASE AfterCommit(t)
    BY <2>2 DEF AfterCommit
  <2> QED BY <2>1, <2>2
<1>4. ASSUME StartCommit(t)
      PROVE  /\ \A u \in Tx \ {t} : pending'[u] = pending[u] /\ mayHaveMutated'[u] = mayHaveMutated[u]
             /\ \/ /\ pc' = [pc EXCEPT ![t] = "rollback"]
                   /\ status' = [status EXCEPT ![t] = "RollingBack"]
                \/ /\ UNCHANGED status
                   /\ pc' = [pc EXCEPT ![t] = "preCommit"]
                   /\ pending'[t] = participants[t]
  BY <1>1, <1>4 DEF StartCommit, ExecuteRollback, Pass, TypeOK
<1>5. CASE Commit(t) \/ ActorReturns(t)
  BY <1>2, <1>3, <1>4, <1>5 DEF Commit, ActorReturns
<1>6. CASE AfterCommit(t)
  <2>1. CASE StartCommit(t)
    BY <1>2, <1>3, <1>4, <2>1
  <2>2. CASE /\ pc' = [pc EXCEPT ![t] = Caller(t)]
             /\ UNCHANGED <<status, commitVars, commits>>
    BY <1>2, <1>3, <2>2 DEF Caller
  <2>3. CASE /\ pc' = [pc EXCEPT ![t] = "close"]
             /\ UNCHANGED <<status, cycles, mayHaveMutated, pending>>
    BY <1>2, <1>3, <2>3
  <2> QED BY <1>6, <2>1, <2>2, <2>3 DEF AfterCommit
<1> QED BY <1>5, <1>6

LEMMA StartsCommitPreserves ==
    ASSUME DatasourceInv, NEW t \in Tx, StartsCommit(t)
    PROVE  Preserved(t)
<1>1. TypeOK /\ IInv /\ DatasourceTypeOK /\ Session(t)
  BY DEF DatasourceInv, IInv
<1>2. /\ Commit(t) \/ ActorReturns(t) \/ AfterCommit(t)
      /\ UNCHANGED <<canonical, version, precommit, storeVars>>
  BY DEF StartsCommit
<1>3. /\ IInv'
      /\ pc[t] = "actor" \/ (pc[t] = "postCommit" /\ pending[t] = {})
      /\ UNCHANGED <<memberVars, lockVars>>
      /\ \A u \in Tx \ {t} : pending'[u] = pending[u] /\ mayHaveMutated'[u] = mayHaveMutated[u]
  BY <1>1, <1>2, CommitStarts
<1>4. CASE /\ pc' = [pc EXCEPT ![t] = "rollback"]
           /\ status' = [status EXCEPT ![t] = "RollingBack"]
  <2>1. RollbackParticipants(t)
    BY <1>1, <1>4 DEF StartsCommit, TypeOK
  <2> QED BY <1>2, <1>3, <1>4, <2>1, RollbackPreserves
<1>5. ASSUME NEW loc \in {"preCommit", "actor", "close"},
             UNCHANGED status,
             pc' = [pc EXCEPT ![t] = loc],
             loc = "preCommit" => pending'[t] = participants[t]
      PROVE  Preserved(t)
  <2> USE DEF lockVars, memberVars, storeVars
  <2>1. changed' = [changed EXCEPT ![t] = {}] /\ UNCHANGED <<working, handling>>
    BY <1>1, <1>5 DEF StartsCommit, TypeOK, EndCommit
  <2>2. DatasourceTypeOK'
    BY <1>1, <1>2, <1>3, <2>1 DEF DatasourceTypeOK, IInv
  <2>3. Frame(t)
    BY <1>1, <1>2, <1>3, <1>5, <2>1 DEF Frame, TypeOK, DatasourceTypeOK
  <2>4. Owned(t)'
    BY <1>1, <1>2, <1>3, <1>5, <2>1 DEF Session, Owned
  <2>5. Joined(t)'
    BY <1>1, <1>3 DEF Session, Joined
  <2>6. Observed(t)'
    BY <1>1, <1>3, <2>1 DEF Session, Observed
  <2>7. Settled(t)' /\ Prepared(t)' /\ Writing(t)'
    BY <1>1, <1>3, <1>5 DEF Settled, Prepared, Writing, TypeOK
  <2>8. Persisted'
    BY <1>1, <1>2, <1>3, <1>5, StoreUntouched DEF TypeOK
  <2> QED BY <1>3, <2>2, <2>3, <2>4, <2>5, <2>6, <2>7, <2>8 DEF Preserved, Session
<1> QED BY <1>1, <1>2, <1>4, <1>5, CommitStarts

(* preCommit() or postCommit() of a datasource emits its event. *)
LEMMA EmitPreserves ==
    ASSUME DatasourceInv, NEW t \in Tx, NEW d \in Resource, Announce(t, d) \/ EmitChanged(t, d)
    PROVE  Preserved(t)
<1> USE DEF vars, lockVars, memberVars, commitVars, storeVars
<1>1. TypeOK /\ IInv /\ DatasourceTypeOK /\ Session(t)
  BY DEF DatasourceInv, IInv
<1>2. /\ pc[t] \in {"preCommit", "postCommit"}
      /\ d \in pending[t]
      /\ handling' = [handling EXCEPT ![t] = d]
      /\ UNCHANGED <<vars, canonical, version, working, changed, storeVars>>
  BY DEF Announce, EmitChanged
<1>3. \/ precommit' = [precommit EXCEPT ![t][d] = View(t, d)]
      \/ UNCHANGED precommit
  BY DEF Announce, EmitChanged
<1>4. /\ precommit' \in [Tx -> [Resource -> Value \cup {None}]]
      /\ \A u \in Tx \ {t} : precommit'[u] = precommit[u]
  <2>1. /\ View(t, d) \in Value
        /\ precommit \in [Tx -> [Resource -> Value \cup {None}]]
    BY <1>1 DEF View, DatasourceTypeOK, Copy
  <2> QED BY <1>3, <2>1
<1>5. IInv'
  BY <1>1, <1>2, Inductive
<1>6. DatasourceTypeOK'
  BY <1>1, <1>2, <1>4, <1>5 DEF DatasourceTypeOK, IInv
<1>7. Frame(t)
  BY <1>1, <1>2, <1>4 DEF Frame, DatasourceTypeOK
<1>8. Owned(t)' /\ Joined(t)'
  BY <1>1, <1>2 DEF Session, Owned, Joined
<1>9. Observed(t)' /\ Settled(t)'
  BY <1>1, <1>2, ParticipantAssumption DEF Observed, Settled, DatasourceTypeOK
<1>10. Prepared(t)' /\ Writing(t)'
  BY <1>2 DEF Prepared, Writing
<1>11. Persisted'
  BY <1>2, StoreUntouched
<1> QED BY <1>5, <1>6, <1>7, <1>8, <1>9, <1>10, <1>11 DEF Preserved, Session

(* preCommit() or postCommit() of a datasource ends. *)
LEMMA HandlerReturnsPreserves ==
    ASSUME DatasourceInv, NEW t \in Tx, NEW d \in Resource,
           PreCommitReturns(t, d) \/ PostCommitReturns(t, d)
    PROVE  Preserved(t)
<1> USE DEF lockVars, memberVars, storeVars
<1>1. TypeOK /\ IInv /\ DatasourceTypeOK /\ Session(t)
  BY DEF DatasourceInv, IInv
<1>2. PICK b \in BOOLEAN : PreCommit(t, d, b) \/ PostCommit(t, d, b)
  BY DEF PreCommitReturns, PostCommitReturns
<1>3. IInv'
  <2>1. d \in Participant
    BY ParticipantAssumption
  <2> QED BY <1>1, <1>2, <2>1, UserCodeEndPreserves DEF HandlerEnds
<1>4. /\ handling' = [handling EXCEPT ![t] = None]
      /\ UNCHANGED <<canonical, version, working, precommit, changed, storeVars>>
  BY DEF PreCommitReturns, PostCommitReturns
<1>5. /\ pc[t] \in {"preCommit", "postCommit"}
      /\ UNCHANGED <<status, pc, memberVars, lockVars>>
      /\ \A u \in Tx \ {t} : pending'[u] = pending[u] /\ mayHaveMutated'[u] = mayHaveMutated[u]
  BY <1>1, <1>2 DEF PreCommit, PostCommit, TypeOK
<1>6. DatasourceTypeOK'
  BY <1>1, <1>3, <1>4 DEF DatasourceTypeOK, IInv
<1>7. Frame(t)
  BY <1>1, <1>4, <1>5 DEF Frame, TypeOK, DatasourceTypeOK
<1>8. Owned(t)' /\ Joined(t)' /\ Observed(t)'
  BY <1>1, <1>4, <1>5 DEF Session, Owned, Joined, Observed, DatasourceTypeOK
<1>9. Settled(t)'
  <2> SUFFICES ASSUME pc[t] = "preCommit", ~mayHaveMutated'[t],
                      NEW e \in (participants[t] \cap Resource) \ pending'[t]
               PROVE  ~PreCommitChange(t, e)'
    BY <1>5 DEF Settled
  <2>1. PreCommitReturns(t, d)
    BY DEF PostCommitReturns, PostCommit
  <2>2. ~PreCommit(t, d, TRUE)
    BY <1>1 DEF PreCommit, TypeOK
  <2>3. handling[t] = None /\ ~PreCommitChange(t, d) /\ PreCommit(t, d, FALSE)
    BY <2>1, <2>2 DEF PreCommitReturns
  <2>4. /\ pending' = [pending EXCEPT ![t] = @ \ {d}]
        /\ mayHaveMutated' = [mayHaveMutated EXCEPT ![t] = @ \/ FALSE]
    BY <2>3 DEF PreCommit
  <2>5. ~mayHaveMutated[t]
    BY <1>1, <2>4 DEF TypeOK
  <2>6. ~PreCommitChange(t, e)
    BY <1>1, <2>3, <2>4, <2>5 DEF Session, Settled, TypeOK
  <2> QED BY <1>4, <2>6 DEF PreCommitChange, View
<1>10. Prepared(t)' /\ Writing(t)'
  BY <1>5 DEF Prepared, Writing
<1>11. Persisted'
  BY <1>4, <1>5, StoreUntouched
<1> QED BY <1>3, <1>6, <1>7, <1>8, <1>9, <1>10, <1>11 DEF Preserved, Session

LEMMA CyclesPreserves ==
    ASSUME DatasourceInv, NEW t \in Tx, Cycles(t)
    PROVE  Preserved(t)
<1>1. TypeOK /\ IInv /\ DatasourceTypeOK /\ Session(t)
  BY DEF DatasourceInv, IInv
<1>2. /\ NextCycle(t) /\ pc[t] = "preCommit" /\ pending[t] = {}
      /\ UNCHANGED <<memberVars, lockVars, canonical, version, storeVars>>
  BY DEF Cycles, NextCycle
<1>3. IInv'
  BY <1>1, <1>2, SystemStepPreserves DEF SystemStep
<1>4. \A u \in Tx \ {t} : pending'[u] = pending[u] /\ mayHaveMutated'[u] = mayHaveMutated[u]
  BY <1>1, <1>2 DEF NextCycle, Pass, TypeOK
<1>5. CASE ExecuteRollback(t, "abort")
  <2>1. RollbackParticipants(t) /\ UNCHANGED precommit
    BY <1>1, <1>5 DEF Cycles, ExecuteRollback, TypeOK
  <2> QED BY <1>2, <1>3, <1>4, <1>5, <2>1, RollbackPreserves DEF ExecuteRollback
<1>6. CASE Pass(t, cycles[t] + 1, participants[t]) /\ UNCHANGED <<status, pc>>
  <2> USE DEF lockVars, memberVars, storeVars, sessionVars
  <2>1. UNCHANGED sessionVars
    BY <1>2, <1>6 DEF Cycles
  <2>2. DatasourceTypeOK'
    BY <1>1, <1>2, <1>3, <2>1 DEF DatasourceTypeOK, IInv
  <2>3. Frame(t)
    BY <1>1, <1>2, <1>4, <1>6, <2>1 DEF Frame
  <2>4. Owned(t)' /\ Joined(t)' /\ Observed(t)'
    BY <1>1, <1>2, <1>6, <2>1 DEF Session, Owned, Joined, Observed
  <2>5. Settled(t)' /\ Prepared(t)' /\ Writing(t)'
    BY <1>1, <1>2, <1>6 DEF Settled, Prepared, Writing, Pass, TypeOK
  <2>6. Persisted'
    BY <1>2, <1>6, StoreUntouched
  <2> QED BY <1>3, <2>2, <2>3, <2>4, <2>5, <2>6 DEF Preserved, Session
<1> QED BY <1>2, <1>5, <1>6 DEF NextCycle

-----------------------------------------------------------------------------
(* Commit *)

(* A change with nothing left to announce has been announced. *)
LEMMA Announced ==
    ASSUME NEW t \in Tx, NEW d \in Resource, ~PreCommitChange(t, d),
           working[t][d] # None, working[t][d].value # canonical[d]
    PROVE  precommit[t][d] = working[t][d].value
<1>1. View(t, d) = working[t][d].value
  BY DEF View
<1> QED BY <1>1 DEF PreCommitChange

(* When pre-commit has settled, every change has been announced. *)
LEMMA CommitsPhaseOnePreserves ==
    ASSUME DatasourceInv, NEW t \in Tx, CommitsPhaseOne(t)
    PROVE  Preserved(t)
<1> USE DEF lockVars
<1> DEFINE C == Changes(t)
           J == IF C # {} /\ ~inRoles[t] THEN {Store} ELSE {}
           m == [d \in Resource |-> IF d \in C /\ ~inRoles[t] THEN working[t][d].value ELSE None]
<1>1. TypeOK /\ IInv /\ DatasourceTypeOK /\ Session(t)
  BY DEF DatasourceInv, IInv
<1>2. /\ CommitPhaseOne(t, J)
      /\ \A d \in C : version[d] < MaxVersion
      /\ changed' = [changed EXCEPT ![t] = C]
      /\ version' = [d \in Resource |-> IF d \in C THEN version[d] + 1 ELSE version[d]]
      /\ inRoles' = [inRoles EXCEPT ![t] = @ \/ C # {}]
      /\ mutations' = [mutations EXCEPT ![t] = m]
      /\ UNCHANGED <<canonical, working, precommit, handling, unwritten, stored, lost>>
  BY DEF CommitsPhaseOne
<1>3. IInv'
  <2>1. J \in SUBSET Participant
    BY ParticipantAssumption
  <2> QED BY <1>1, <1>2, <2>1, SystemStepPreserves DEF SystemStep
<1>4. /\ pc[t] = "preCommit" /\ pending[t] = {} /\ ~mayHaveMutated[t]
      /\ status' = [status EXCEPT ![t] = "CommittingPhaseOne"]
      /\ pc' = [pc EXCEPT ![t] = "commit1"]
      /\ participants' = [participants EXCEPT ![t] = @ \cup J]
      /\ \A u \in Tx \ {t} : pending'[u] = pending[u] /\ mayHaveMutated'[u] = mayHaveMutated[u]
      /\ UNCHANGED <<resources, lockVars>>
  BY <1>1, <1>2 DEF CommitPhaseOne, Pass, TypeOK
<1>5. /\ C \subseteq Resource
      /\ \A d \in C : /\ working[t][d] # None
                      /\ working[t][d].value \in Value
                      /\ working[t][d].value # canonical[d]
                      /\ d \in participants[t]
  BY <1>1 DEF Changes, DatasourceTypeOK, Copy
<1> HIDE DEF C
<1>6. DatasourceTypeOK'
  <2>1. m \in [Resource -> Value \cup {None}]
    BY <1>5
  <2>2. mutations' \in [Tx -> [Resource -> Value \cup {None}]]
    BY <1>1, <1>2, <2>1 DEF DatasourceTypeOK
  <2>3. version' \in [Resource -> 0..MaxVersion]
    BY <1>1, <1>2, VersionAssumption DEF DatasourceTypeOK
  <2>4. inRoles' \in [Tx -> BOOLEAN]
    <3> DEFINE b == inRoles[t] \/ C # {}
    <3>1. b \in BOOLEAN
      OBVIOUS
    <3>2. inRoles' = [inRoles EXCEPT ![t] = b]
      BY <1>2
    <3> HIDE DEF b
    <3> QED BY <1>1, <3>1, <3>2 DEF DatasourceTypeOK
  <2>5. changed' \in [Tx -> SUBSET Resource]
    BY <1>1, <1>2, <1>5 DEF DatasourceTypeOK
  <2> QED BY <1>1, <1>2, <1>3, <2>2, <2>3, <2>4, <2>5 DEF DatasourceTypeOK, IInv
<1>7. Frame(t)
  BY <1>1, <1>2, <1>4 DEF Frame, TypeOK, DatasourceTypeOK
<1>8. Owned(t)'
  BY <1>1, <1>2, <1>4 DEF Session, Owned, TypeOK, Locking
<1>9. Joined(t)'
  BY <1>1, <1>4, ParticipantAssumption DEF Session, Joined, TypeOK
<1>10. handling[t] = None
  BY <1>1, <1>4 DEF Session, Observed
<1>11. Prepared(t)'
  <2>1. /\ changed'[t] = C /\ mutations'[t] = m
        /\ participants'[t] = participants[t] \cup J
        /\ Store \notin participants[t]
    BY <1>1, <1>2, <1>4 DEF TypeOK, DatasourceTypeOK, Session, Joined
  <2>2. ASSUME NEW d \in C PROVE precommit[t][d] = working[t][d].value
    <3>1. d \in (participants[t] \cap Resource) \ pending[t]
      BY <1>4, <1>5
    <3>2. ~PreCommitChange(t, d)
      BY <1>1, <1>4, <1>10, <3>1 DEF Session, Settled
    <3>3. d \in Resource /\ working[t][d] # None /\ working[t][d].value # canonical[d]
      BY <1>5
    <3> QED BY <3>2, <3>3, Announced
  <2>3. UNCHANGED <<working, precommit>>
    BY <1>2
  <2>4. ASSUME NEW d \in Resource
        PROVE  /\ m[d] # None => d \in C /\ m[d] = working[t][d].value
               /\ d \in C /\ Store \in participants[t] \cup J => m[d] # None
    <3>1. m[d] = IF d \in C /\ ~inRoles[t] THEN working[t][d].value ELSE None
      OBVIOUS
    <3>2. Store \in J => ~inRoles[t]
      OBVIOUS
    <3>3. d \in C => working[t][d].value # None
      BY <1>5, ParticipantAssumption
    <3> QED BY <2>1, <3>1, <3>2, <3>3
  <2> HIDE DEF m, J
  <2> QED BY <1>5, <2>1, <2>2, <2>3, <2>4 DEF Prepared
<1>12. Observed(t)' /\ Settled(t)' /\ Writing(t)'
  BY <1>1, <1>2, <1>4, <1>10 DEF Observed, Settled, Writing, TypeOK
<1>13. Persisted'
  BY <1>1, <1>2, <1>4, StoreUntouched DEF TypeOK
<1> QED BY <1>3, <1>6, <1>7, <1>8, <1>9, <1>11, <1>12, <1>13 DEF Preserved, Session

(* What was prepared becomes canonical, and what is to be written is that. *)
LEMMA CommitsPhaseTwoPreserves ==
    ASSUME DatasourceInv, NEW t \in Tx, CommitsPhaseTwo(t)
    PROVE  Preserved(t)
<1> USE DEF lockVars, memberVars, commitVars
<1> DEFINE w == [d \in Resource |-> IF d \in changed[t] THEN None ELSE working[t][d]]
           W == IF Store \in participants[t] THEN {d \in Resource : mutations[t][d] # None} ELSE {}
<1>1. TypeOK /\ IInv /\ DatasourceTypeOK /\ Session(t)
  BY DEF DatasourceInv, IInv
<1>2. /\ CommitPhaseTwo(t)
      /\ canonical' = [d \in Resource |->
             IF d \in changed[t] THEN working[t][d].value ELSE canonical[d]]
      /\ working' = [working EXCEPT ![t] = w]
      /\ unwritten' = [unwritten EXCEPT ![t] = W]
      /\ lost' = [d \in Resource |-> lost[d] \/ (d \in changed[t] /\ Store \notin participants[t])]
      /\ UNCHANGED <<version, precommit, changed, handling, inRoles, mutations, stored>>
  BY DEF CommitsPhaseTwo
<1>3. IInv'
  BY <1>1, <1>2, SystemStepPreserves DEF SystemStep
<1>4. /\ pc[t] = "commit1"
      /\ status' = [status EXCEPT ![t] = "CommittingPhaseTwo"]
      /\ pc' = [pc EXCEPT ![t] = "commit2"]
      /\ UNCHANGED <<memberVars, lockVars, mayHaveMutated, pending>>
  BY <1>2 DEF CommitPhaseTwo
<1>5. ASSUME NEW d \in changed[t]
      PROVE  /\ d \in Resource
             /\ working[t][d].value \in Value
             /\ lockedBy[d] = t
             /\ Store \in participants[t] => mutations[t][d] # None
  <2>1. d \in Resource
    BY <1>1 DEF DatasourceTypeOK
  <2>2. working[t][d] # None /\ (Store \in participants[t] => mutations[t][d] # None)
    BY <1>1, <1>4, <2>1 DEF Session, Prepared
  <2>3. working[t][d] \in Copy
    BY <1>1, <2>1, <2>2 DEF DatasourceTypeOK
  <2>4. lockedBy[d] = t
    BY <1>1, <2>1, <2>2 DEF Session, Owned
  <2> QED BY <2>1, <2>2, <2>3, <2>4 DEF Copy
<1>6. /\ w \in [Resource -> Copy \cup {None}] /\ W \in SUBSET Resource
      /\ working \in [Tx -> [Resource -> Copy \cup {None}]]
      /\ unwritten \in [Tx -> SUBSET Resource]
  BY <1>1 DEF DatasourceTypeOK
<1>7. ASSUME NEW d \in W
      PROVE  d \in changed[t] /\ mutations[t][d] = working[t][d].value
  BY <1>1, <1>4 DEF Session, Prepared
<1>8. /\ working' \in [Tx -> [Resource -> Copy \cup {None}]]
      /\ working'[t] = w /\ \A u \in Tx \ {t} : working'[u] = working[u]
      /\ unwritten' \in [Tx -> SUBSET Resource]
      /\ unwritten'[t] = W /\ \A u \in Tx \ {t} : unwritten'[u] = unwritten[u]
  <2> HIDE DEF w, W
  <2> QED BY <1>2, <1>6
<1>9. \A d \in Resource : canonical'[d] = IF d \in changed[t] THEN working[t][d].value ELSE canonical[d]
  BY <1>2
<1>10. DatasourceTypeOK'
  <2>1. canonical' \in [Resource -> Value]
    BY <1>1, <1>2, <1>5 DEF DatasourceTypeOK
  <2>2. lost' \in [Resource -> BOOLEAN]
    <3> DEFINE b(d) == lost[d] \/ (d \in changed[t] /\ Store \notin participants[t])
    <3>1. \A d \in Resource : b(d) \in BOOLEAN
      OBVIOUS
    <3>2. lost' = [d \in Resource |-> b(d)]
      BY <1>2
    <3> HIDE DEF b
    <3> QED BY <3>1, <3>2
  <2> QED BY <1>1, <1>2, <1>3, <1>8, <2>1, <2>2 DEF DatasourceTypeOK, IInv
<1>11. Frame(t)
  <2>1. \A d \in Resource : lockedBy[d] \in Tx \ {t} => canonical'[d] = canonical[d]
    BY <1>5, <1>9
  <2> QED BY <1>1, <1>2, <1>4, <1>8, <2>1 DEF Frame, TypeOK
<1>12. Owned(t)'
  <2> SUFFICES ASSUME NEW d \in Resource, w[d] # None
               PROVE  /\ status'[t] \in Locking /\ d \in participants[t] /\ lockedBy[d] = t
                      /\ w[d].base = canonical'[d]
    BY <1>4, <1>8 DEF Owned
  <2>1. d \notin changed[t] /\ w[d] = working[t][d]
    OBVIOUS
  <2>2. canonical'[d] = canonical[d]
    BY <1>9, <2>1
  <2>3. status'[t] \in Locking
    BY <1>1, <1>4 DEF TypeOK, Locking
  <2> QED BY <1>1, <2>1, <2>2, <2>3 DEF Session, Owned
<1>13. Joined(t)' /\ Observed(t)' /\ Settled(t)' /\ Prepared(t)'
  BY <1>1, <1>2, <1>4 DEF Session, Joined, Observed, Settled, Prepared, TypeOK
<1>14. Writing(t)'
  <2> SUFFICES ASSUME NEW d \in W
               PROVE  lockedBy[d] = t /\ mutations[t][d] = canonical'[d]
    BY <1>2, <1>4, <1>8 DEF Writing
  <2> QED BY <1>5, <1>7, <1>9
<1>15. Persisted'
  <2> SUFFICES ASSUME NEW d \in Resource
               PROVE  \/ lost'[d]
                      \/ stored[d] = canonical'[d]
                      \/ \E u \in Tx : pc'[u] = "commit2" /\ d \in unwritten'[u]
    BY <1>2 DEF Persisted
  <2>1. pc'[t] = "commit2" /\ \A u \in Tx \ {t} : pc'[u] = pc[u]
    BY <1>1, <1>4 DEF TypeOK
  <2>2. lost'[d] <=> lost[d] \/ (d \in changed[t] /\ Store \notin participants[t])
    BY <1>2
  <2>3. CASE d \in changed[t]
    BY <1>5, <1>8, <2>1, <2>2, <2>3
  <2>4. CASE d \notin changed[t]
    <3>1. canonical'[d] = canonical[d]
      BY <1>9, <2>4
    <3>2. \/ lost[d]
          \/ stored[d] = canonical[d]
          \/ \E u \in Tx : pc[u] = "commit2" /\ d \in unwritten[u]
      BY DEF DatasourceInv, Persisted
    <3> HIDE DEF W
    <3> QED BY <1>4, <1>8, <2>1, <2>2, <3>1, <3>2
  <2> QED BY <2>3, <2>4
<1> QED BY <1>3, <1>10, <1>11, <1>12, <1>13, <1>14, <1>15 DEF Preserved, Session

LEMMA StoreWritesPreserves ==
    ASSUME DatasourceInv, NEW t \in Tx, NEW d \in Resource, StoreWrites(t, d)
    PROVE  Preserved(t) /\ stored' = [stored EXCEPT ![d] = canonical[d]]
<1> USE DEF vars, lockVars, memberVars, commitVars, sessionVars
<1>1. TypeOK /\ IInv /\ DatasourceTypeOK /\ Session(t)
  BY DEF DatasourceInv, IInv
<1>2. /\ pc[t] = "commit2" /\ d \in unwritten[t]
      /\ stored' = [stored EXCEPT ![d] = mutations[t][d]]
      /\ unwritten' = [unwritten EXCEPT ![t] = @ \ {d}]
      /\ lost' = [lost EXCEPT ![d] = FALSE]
      /\ UNCHANGED <<vars, canonical, version, sessionVars, inRoles, mutations>>
  BY DEF StoreWrites
<1>3. mutations[t][d] = canonical[d] /\ canonical[d] \in Value
  BY <1>1, <1>2 DEF Session, Writing, DatasourceTypeOK
<1>4. IInv'
  BY <1>1, <1>2, Inductive
<1>5. DatasourceTypeOK'
  <2>1. stored' \in [Resource -> Value] /\ unwritten' \in [Tx -> SUBSET Resource]
    BY <1>1, <1>2, <1>3 DEF DatasourceTypeOK
  <2>2. lost' \in [Resource -> BOOLEAN]
    BY <1>1, <1>2 DEF DatasourceTypeOK
  <2> QED BY <1>1, <1>2, <1>4, <2>1, <2>2 DEF DatasourceTypeOK, IInv
<1>6. Frame(t)
  BY <1>1, <1>2 DEF Frame, DatasourceTypeOK
<1>7. Owned(t)' /\ Joined(t)' /\ Observed(t)' /\ Settled(t)' /\ Prepared(t)'
  BY <1>1, <1>2 DEF Session, Owned, Joined, Observed, Settled, Prepared
<1>8. Writing(t)'
  BY <1>1, <1>2 DEF Session, Writing, DatasourceTypeOK
<1>9. Persisted'
  <2> SUFFICES ASSUME NEW e \in Resource
               PROVE  \/ lost'[e]
                      \/ stored'[e] = canonical[e]
                      \/ \E u \in Tx : pc[u] = "commit2" /\ e \in unwritten'[u]
    BY <1>2 DEF Persisted
  <2>1. CASE e = d
    BY <1>1, <1>2, <1>3, <2>1 DEF DatasourceTypeOK
  <2>2. CASE e # d
    <3>1. /\ lost'[e] = lost[e] /\ stored'[e] = stored[e]
          /\ \A u \in Tx : e \in unwritten[u] => e \in unwritten'[u]
      BY <1>1, <1>2, <2>2 DEF DatasourceTypeOK
    <3>2. \/ lost[e]
          \/ stored[e] = canonical[e]
          \/ \E u \in Tx : pc[u] = "commit2" /\ e \in unwritten[u]
      BY DEF DatasourceInv, Persisted
    <3> QED BY <3>1, <3>2
  <2> QED BY <2>1, <2>2
<1> QED BY <1>2, <1>3, <1>4, <1>5, <1>6, <1>7, <1>8, <1>9 DEF Preserved, Session

(* A cleanup of #finalize leaves the session empty. *)
LEMMA CleanupEmpties ==
    ASSUME DatasourceInv, NEW t \in Tx, Cleanup(t), Refresh(t), IInv',
           pc[t] \in {"commit2", "rollback"},
           NEW loc \in {"postCommit", "actor", "close"},
           pc' = [pc EXCEPT ![t] = loc],
           UNCHANGED <<resources, canonical, version, precommit, handling, inRoles, stored>>,
           changed' \in [Tx -> SUBSET Resource],
           mutations' \in [Tx -> [Resource -> Value \cup {None}]],
           unwritten' \in [Tx -> SUBSET Resource],
           lost' \in [Resource -> BOOLEAN],
           \A u \in Tx \ {t} :
              /\ pending'[u] = pending[u] /\ mayHaveMutated'[u] = mayHaveMutated[u]
              /\ changed'[u] = changed[u] /\ mutations'[u] = mutations[u]
              /\ unwritten'[u] = unwritten[u]
    PROVE  DatasourceTypeOK' /\ Frame(t) /\ Session(t)'
<1>1. TypeOK /\ IInv /\ DatasourceTypeOK /\ Session(t)
  BY DEF DatasourceInv, IInv
<1>2. /\ Nothing \in [Resource -> Copy \cup {None}]
      /\ \A d \in Resource : Nothing[d] = None
  BY DEF Nothing
<1>3. /\ working' \in [Tx -> [Resource -> Copy \cup {None}]]
      /\ working'[t] = Nothing
      /\ \A u \in Tx \ {t} : working'[u] = working[u]
  BY <1>1, <1>2 DEF Refresh, DatasourceTypeOK
<1>4. /\ \A d \in Resource : lockedBy[d] \in Tx \ {t} => lockedBy'[d] = lockedBy[d]
      /\ participants' = [participants EXCEPT ![t] = {}]
      /\ status' = [status EXCEPT ![t] = "Shared"]
  BY DEF Cleanup, ReleaseLocks
<1>5. DatasourceTypeOK'
  BY <1>1, <1>3 DEF DatasourceTypeOK, IInv
<1>6. Frame(t)
  BY <1>1, <1>3, <1>4 DEF Frame, TypeOK
<1>7. Owned(t)'
  BY <1>2, <1>3 DEF Owned
<1>8. Joined(t)' /\ Observed(t)'
  BY <1>1, <1>4 DEF Session, Joined, Observed, TypeOK
<1>9. Settled(t)' /\ Prepared(t)' /\ Writing(t)'
  BY <1>1 DEF Settled, Prepared, Writing, TypeOK
<1> QED BY <1>5, <1>6, <1>7, <1>8, <1>9 DEF Session

LEMMA CleanupStepsPreserve ==
    ASSUME DatasourceInv, NEW t \in Tx, RollbackEnds(t) \/ CommitEnds(t) \/ StoreFails(t)
    PROVE  Preserved(t)
<1> USE DEF storeVars
<1>1. TypeOK /\ IInv /\ DatasourceTypeOK /\ Session(t)
  BY DEF DatasourceInv, IInv
<1>2. Nothing \in [Resource -> Value \cup {None}]
  BY DEF Nothing
<1>3. Persisted
  BY DEF DatasourceInv
<1>4. CASE RollbackEnds(t)
  <2>1. IInv'
    BY <1>1, <1>4, SystemStepPreserves DEF SystemStep, RollbackEnds
  <2>2. /\ Cleanup(t) /\ Refresh(t) /\ pc[t] = "rollback"
        /\ pc' = [pc EXCEPT ![t] = Caller(t)]
        /\ Caller(t) \in {"postCommit", "actor", "close"}
        /\ UNCHANGED <<resources, mayHaveMutated, pending, canonical, version, precommit, changed,
                       handling, inRoles, mutations, unwritten, stored, lost>>
    BY <1>4 DEF RollbackEnds, RolledBack, Caller
  <2>3. DatasourceTypeOK' /\ Frame(t) /\ Session(t)'
    BY <1>1, <2>1, <2>2, CleanupEmpties DEF DatasourceTypeOK
  <2>4. Persisted'
    BY <1>1, <2>2, StoreUntouched DEF TypeOK
  <2> QED BY <2>1, <2>3, <2>4 DEF Preserved
<1>5. CASE CommitEnds(t)
  <2>1. IInv'
    BY <1>1, <1>5, SystemStepPreserves DEF SystemStep, CommitEnds
  <2>2. /\ Cleanup(t) /\ Refresh(t) /\ pc[t] = "commit2" /\ unwritten[t] = {}
        /\ pc' = [pc EXCEPT ![t] = "postCommit"]
        /\ mutations' = [mutations EXCEPT ![t] = Nothing]
        /\ UNCHANGED <<resources, mayHaveMutated, pending, canonical, version, precommit, changed,
                       handling, inRoles, unwritten, stored, lost>>
    BY <1>5 DEF CommitEnds, Committed
  <2>3. DatasourceTypeOK' /\ Frame(t) /\ Session(t)'
    BY <1>1, <1>2, <2>1, <2>2, CleanupEmpties DEF DatasourceTypeOK
  <2>4. Persisted'
    BY <1>1, <1>3, <2>2 DEF Persisted, TypeOK
  <2> QED BY <2>1, <2>3, <2>4 DEF Preserved
<1>6. CASE StoreFails(t)
  <2>1. IInv'
    BY <1>1, <1>6, SystemStepPreserves DEF SystemStep, StoreFails
  <2>2. /\ Cleanup(t) /\ Refresh(t) /\ pc[t] = "commit2"
        /\ pc' = [pc EXCEPT ![t] = Caller(t)]
        /\ Caller(t) \in {"postCommit", "actor", "close"}
        /\ lost' = [d \in Resource |-> lost[d] \/ d \in unwritten[t]]
        /\ unwritten' = [unwritten EXCEPT ![t] = {}]
        /\ mutations' = [mutations EXCEPT ![t] = Nothing]
        /\ changed' = [changed EXCEPT ![t] = {}]
        /\ UNCHANGED <<resources, canonical, version, precommit, handling, inRoles, stored>>
    BY <1>6 DEF StoreFails, CommitPhaseTwoFails, Caller, EndCommit
  <2>3. \A u \in Tx \ {t} : pending'[u] = pending[u] /\ mayHaveMutated'[u] = mayHaveMutated[u]
    BY <1>1, <1>6 DEF StoreFails, CommitPhaseTwoFails, Pass, TypeOK
  <2>4. lost' \in [Resource -> BOOLEAN]
    <3> DEFINE b(d) == lost[d] \/ d \in unwritten[t]
    <3>1. \A d \in Resource : b(d) \in BOOLEAN
      OBVIOUS
    <3>2. lost' = [d \in Resource |-> b(d)]
      BY <2>2
    <3> HIDE DEF b
    <3> QED BY <3>1, <3>2
  <2>5. DatasourceTypeOK' /\ Frame(t) /\ Session(t)'
    <3>1. /\ changed' \in [Tx -> SUBSET Resource]
          /\ mutations' \in [Tx -> [Resource -> Value \cup {None}]]
          /\ unwritten' \in [Tx -> SUBSET Resource]
          /\ \A u \in Tx \ {t} : /\ changed'[u] = changed[u] /\ mutations'[u] = mutations[u]
                                 /\ unwritten'[u] = unwritten[u]
      BY <1>1, <1>2, <2>2 DEF DatasourceTypeOK
    <3> QED BY <2>1, <2>2, <2>3, <2>4, <3>1, CleanupEmpties
  <2>6. Persisted'
    <3> SUFFICES ASSUME NEW d \in Resource, ~lost'[d]
                 PROVE  \/ stored[d] = canonical[d]
                        \/ \E u \in Tx : pc'[u] = "commit2" /\ d \in unwritten'[u]
      BY <2>2 DEF Persisted
    <3>1. ~lost[d] /\ d \notin unwritten[t]
      BY <2>2
    <3>2. stored[d] = canonical[d] \/ \E u \in Tx \ {t} : pc[u] = "commit2" /\ d \in unwritten[u]
      BY <1>3, <3>1 DEF Persisted
    <3>3. \A u \in Tx \ {t} : pc'[u] = pc[u] /\ unwritten'[u] = unwritten[u]
      BY <1>1, <2>2 DEF TypeOK, DatasourceTypeOK
    <3> QED BY <3>2, <3>3
  <2> QED BY <2>1, <2>5, <2>6 DEF Preserved
<1> QED BY <1>4, <1>5, <1>6

LEMMA ExpirePreserves ==
    ASSUME DatasourceInv, NEW t \in Tx, Expire(t)
    PROVE  Preserved(t)
<1> USE DEF lockVars, commitVars, storeVars
<1>1. TypeOK /\ IInv /\ DatasourceTypeOK /\ Session(t)
  BY DEF DatasourceInv, IInv
<1>2. IInv'
  BY <1>1, SystemStepPreserves DEF SystemStep, Expire
<1>3. /\ pc[t] = "close"
      /\ pc' = [pc EXCEPT ![t] = "closed"]
      /\ status' = [status EXCEPT ![t] = "Destroyed"]
      /\ resources' = [resources EXCEPT ![t] = {}]
      /\ participants' = [participants EXCEPT ![t] = {}]
      /\ working' = [working EXCEPT ![t] = Nothing]
      /\ precommit' = [precommit EXCEPT ![t] = Nothing]
      /\ changed' = [changed EXCEPT ![t] = {}]
      /\ inRoles' = [inRoles EXCEPT ![t] = FALSE]
      /\ mutations' = [mutations EXCEPT ![t] = Nothing]
      /\ UNCHANGED <<lockVars, mayHaveMutated, pending, canonical, version, handling, unwritten, stored, lost>>
  BY DEF Expire, Close, EndCommit
<1>4. /\ Nothing \in [Resource -> Copy \cup {None}]
      /\ Nothing \in [Resource -> Value \cup {None}]
      /\ \A d \in Resource : Nothing[d] = None
  BY DEF Nothing
<1>5. DatasourceTypeOK'
  BY <1>1, <1>2, <1>3, <1>4 DEF DatasourceTypeOK, IInv
<1>6. Frame(t)
  BY <1>1, <1>3 DEF Frame, TypeOK, DatasourceTypeOK
<1>7. Owned(t)'
  BY <1>1, <1>3, <1>4 DEF Owned, DatasourceTypeOK
<1>8. Joined(t)' /\ Observed(t)'
  BY <1>1, <1>3 DEF Session, Joined, Observed, TypeOK
<1>9. Settled(t)' /\ Prepared(t)' /\ Writing(t)'
  BY <1>1, <1>3 DEF Settled, Prepared, Writing, TypeOK
<1>10. Persisted'
  BY <1>1, <1>3, StoreUntouched DEF TypeOK
<1> QED BY <1>2, <1>5, <1>6, <1>7, <1>8, <1>9, <1>10 DEF Preserved, Session

-----------------------------------------------------------------------------
LEMMA DatasourceInitEstablishes == DatasourceInit => DatasourceInv
<1> SUFFICES ASSUME DatasourceInit PROVE DatasourceInv
  OBVIOUS
<1>1. IInv
  BY InitEstablishes DEF DatasourceInit
<1>2. PICK v \in Value : canonical = [d \in Resource |-> v]
  BY DEF DatasourceInit
<1>3. /\ Nothing \in [Resource -> Copy \cup {None}]
      /\ Nothing \in [Resource -> Value \cup {None}]
      /\ \A d \in Resource : Nothing[d] = None
  BY DEF Nothing
<1>4. DatasourceTypeOK
  BY <1>1, <1>2, <1>3, VersionAssumption DEF DatasourceInit, DatasourceTypeOK, IInv
<1>5. ASSUME NEW t \in Tx PROVE Session(t)
  <2>1. pc[t] = "actor" /\ participants[t] = {} /\ working[t] = Nothing /\ handling[t] = None
    BY DEF DatasourceInit, Init
  <2> QED BY <1>3, <2>1 DEF Session, Owned, Joined, Observed, Settled, Prepared, Writing
<1>6. Persisted
  BY DEF DatasourceInit, Persisted
<1> QED BY <1>1, <1>4, <1>5, <1>6 DEF DatasourceInv

(* Every step of a transaction and of its sessions. *)
LEMMA DatasourceStepPreserves ==
    ASSUME DatasourceInv, NEW t \in Tx, DatasourceStep(t)
    PROVE  Preserved(t)
<1>1. CASE \E d \in Resource :
              \/ \E v \in Value : Change(t, d, v)
              \/ ChangeConflicts(t, d)
              \/ Announce(t, d)
              \/ PreCommitReturns(t, d)
              \/ StoreWrites(t, d)
              \/ EmitChanged(t, d)
              \/ PostCommitReturns(t, d)
  BY <1>1, ChangePreserves, ChangeConflictsPreserves, EmitPreserves, HandlerReturnsPreserves,
     StoreWritesPreserves
<1>2. CASE Lock(t) \/ LockGranted(t) \/ RollsBack(t) \/ AbortEnds(t) \/ StartsCommit(t) \/ Cycles(t)
  BY <1>2, LockPreserves, RollsBackPreserves, AbortEndsPreserves, StartsCommitPreserves,
     CyclesPreserves
<1>3. CASE \/ CommitsPhaseOne(t) \/ CommitsPhaseTwo(t) \/ RollbackEnds(t) \/ CommitEnds(t)
           \/ StoreFails(t) \/ Expire(t)
  BY <1>3, CommitsPhaseOnePreserves, CommitsPhaseTwoPreserves, CleanupStepsPreserve,
     ExpirePreserves
<1> QED BY <1>1, <1>2, <1>3 DEF DatasourceStep

LEMMA DatasourceInductive == DatasourceInv /\ [DatasourceNext]_allVars => DatasourceInv'
<1> SUFFICES ASSUME DatasourceInv, [DatasourceNext]_allVars PROVE DatasourceInv'
  OBVIOUS
<1>1. CASE DatasourceNext
  BY <1>1, DatasourceStepPreserves, PreservedSuffices DEF DatasourceNext
<1>2. CASE UNCHANGED allVars
  <2> USE DEF allVars, dsVars, sessionVars, storeVars
  <2>1. IInv'
    BY <1>2, Inductive DEF DatasourceInv
  <2>2. DatasourceTypeOK'
    BY <1>2, <2>1 DEF DatasourceInv, DatasourceTypeOK, IInv
  <2> USE DEF vars, lockVars, memberVars, commitVars
  <2>3. ASSUME NEW t \in Tx PROVE Session(t)'
    <3>1. Session(t)
      BY DEF DatasourceInv
    <3> QED BY <1>2, <3>1
        DEF Session, Owned, Joined, Observed, Settled, PreCommitChange, View, Prepared, Writing
  <2>4. Persisted'
    BY <1>2 DEF DatasourceInv, Persisted
  <2> QED BY <2>1, <2>2, <2>3, <2>4 DEF DatasourceInv
<1> QED BY <1>1, <1>2

(* The invariant holds in every state that the sessions of all transactions  *)
(* can reach together.                                                       *)
THEOREM DatasourceInvariant == DatasourceSpec => []DatasourceInv
<1> QED BY DatasourceInitEstablishes, DatasourceInductive, PTL DEF DatasourceSpec

(* Transactions, sessions and the store keep their types: no datasource is    *)
(* ever left undefined by Datasource.ts or by its store.                     *)
THEOREM DatasourceTypeCorrect == DatasourceSpec => []DatasourceTypeOK
<1>1. DatasourceInv => DatasourceTypeOK
  BY DEF DatasourceInv
<1> QED BY <1>1, DatasourceInvariant, PTL

(* A session never overwrites a value it has not seen: between the clone and *)
(* the commit of a changed value nobody else changes it.                     *)
THEOREM UpdatesAreNotLost == DatasourceSpec => []NoLostUpdate
<1>1. DatasourceInv => NoLostUpdate
  BY DEF DatasourceInv, Session, Owned, NoLostUpdate
<1> QED BY <1>1, DatasourceInvariant, PTL

(* What commit1() finds changed has been announced to its observers, however *)
(* the changes of observers cascade.                                         *)
THEOREM CommitsAreSettled == DatasourceSpec => []SettledBeforeCommit
<1>1. DatasourceInv => SettledBeforeCommit
  <2> SUFFICES ASSUME DatasourceInv, NEW t \in Tx, status[t] = "CommittingPhaseOne",
                      NEW d \in changed[t]
               PROVE  precommit[t][d] = working[t][d].value
    BY DEF SettledBeforeCommit
  <2>1. IInv /\ DatasourceTypeOK /\ Session(t)
    BY DEF DatasourceInv
  <2>2. pc[t] = "commit1"
    BY <2>1 DEF IInv, TypeOK, Location, StatusMatchesPc
  <2>3. d \in Resource
    BY <2>1 DEF DatasourceTypeOK
  <2> QED BY <2>1, <2>2, <2>3 DEF Session, Prepared
<1> QED BY <1>1, DatasourceInvariant, PTL

(* A free datasource whose last change was not lost is in the store. *)
THEOREM CommitsArePersisted == DatasourceSpec => []CommittedIsPersisted
<1>1. DatasourceInv => CommittedIsPersisted
  <2> SUFFICES ASSUME DatasourceInv, NEW d \in Resource, lockedBy[d] = NoTx, ~lost[d]
               PROVE  stored[d] = canonical[d]
    BY DEF CommittedIsPersisted
  <2>1. ASSUME NEW t \in Tx, pc[t] = "commit2", d \in unwritten[t] PROVE FALSE
    BY <2>1, NoTxAssumption DEF DatasourceInv, Session, Writing
  <2> QED BY <2>1 DEF DatasourceInv, Persisted
<1> QED BY <1>1, DatasourceInvariant, PTL

(* The store receives canonical values only: nothing a rollback could still  *)
(* take back and nothing that was overwritten since.                         *)
THEOREM StoreIsCommitted == DatasourceSpec => OnlyCommittedStored
<1> DEFINE Good == \A d \in Resource : stored'[d] # stored[d] => stored'[d] = canonical[d]
<1>1. ASSUME DatasourceInv, [DatasourceNext]_allVars PROVE [Good]_allVars
  <2> SUFFICES ASSUME NEW t \in Tx, DatasourceStep(t) PROVE Good
    BY <1>1 DEF DatasourceNext
  <2> USE DEF storeVars, dsVars
  <2>1. ASSUME NEW d \in Resource, StoreWrites(t, d) PROVE Good
    BY <1>1, <2>1, StoreWritesPreserves DEF DatasourceInv, DatasourceTypeOK
  <2>2. CASE UNCHANGED stored
    BY <2>2
  <2>3. CASE \E d \in Resource : \/ \E v \in Value : Change(t, d, v)
                                 \/ ChangeConflicts(t, d)
                                 \/ Announce(t, d)
                                 \/ PreCommitReturns(t, d)
                                 \/ EmitChanged(t, d)
                                 \/ PostCommitReturns(t, d)
    BY <2>2, <2>3
    DEF Change, ChangeConflicts, Announce, PreCommitReturns, EmitChanged, PostCommitReturns
  <2>4. CASE Lock(t) \/ LockGranted(t) \/ RollsBack(t) \/ AbortEnds(t) \/ StartsCommit(t) \/ Cycles(t)
    BY <2>2, <2>4 DEF Lock, LockGranted, RollsBack, AbortEnds, StartsCommit, Cycles
  <2>5. CASE \/ CommitsPhaseOne(t) \/ CommitsPhaseTwo(t) \/ RollbackEnds(t) \/ CommitEnds(t)
             \/ StoreFails(t) \/ Expire(t)
    BY <2>2, <2>5
    DEF CommitsPhaseOne, CommitsPhaseTwo, RollbackEnds, CommitEnds, StoreFails, Expire
  <2> QED BY <2>1, <2>3, <2>4, <2>5 DEF DatasourceStep
<1> QED BY <1>1, DatasourceInvariant, PTL DEF DatasourceSpec, OnlyCommittedStored

=============================================================================
