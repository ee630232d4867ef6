SPECIFICATION FairSpec
CONSTANTS
    Tx = {t1, t2}
    NoTx = NoTx
    Resource = {r1, r2}
    Participant = {p1}
    MaxPreCommitCycles = 1
    MaxChainedCommits = 2
INVARIANTS
    TypeOK
    ExclusiveHoldsLocks
    WaitsOnlyOnHolders
    WaitGraphAcyclic
    OrphanOnlyAfterAbort
PROPERTIES
    LocksNeverStolen
    ActTerminates
CHECK_DEADLOCK FALSE
