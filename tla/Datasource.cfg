SPECIFICATION DatasourceSpec
CONSTANTS
    Tx = {t1, t2}
    NoTx = NoTx
    Resource = {d1, d2}
    Participant = {d1, d2, store}
    Store = store
    Value = {v1, v2}
    None = None
    MaxVersion = 2
    MaxPreCommitCycles = 3
    MaxChainedCommits = 2
INVARIANTS
    NoLostUpdate
    SettledBeforeCommit
    CommittedIsPersisted
PROPERTIES
    OnlyCommittedStored
CONSTRAINT ContentionOrCascade
SYMMETRY Symmetric
CHECK_DEADLOCK FALSE
