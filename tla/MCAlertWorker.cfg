SPECIFICATION FairSpec
CONSTANTS
    Sources = {s1, s2}
    DedupKeys = {d1}
    CorrKeys = {c1}
    Batches <- MCBatches
    Times <- OneTime
    Runs = {1, 2, 3, 4}
    Waiters = {}
    MaxEvents = 2
    MaxBatch = 1
    Faults = {"none", "torn"}
    MaxFaults = 1
    MaxCrashes = 1
    MaxAuditFaults = 1
    None = None
INVARIANTS
    WorkerTypeOK
    OneJobAtATime
    NoLostWakeup
    SucceededJobHasRun
    ResultBeforeNotice
    RetriedOnlyAfterCrash
PROPERTIES
    JobsEventuallyFinal
    PendingEventuallyClaimed
