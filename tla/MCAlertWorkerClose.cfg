SPECIFICATION FairSpec
CONSTANTS
    Sources = {s1}
    DedupKeys = {d1}
    CorrKeys = {c1}
    Batches <- MCBatches
    Times <- OneTime
    Runs = {1, 2}
    Waiters = {}
    MaxEvents = 1
    MaxBatch = 1
    Faults = {}
    MaxFaults = 0
    MaxCrashes = 1
    MaxAuditFaults = 0
    None = None
PROPERTIES
    InterruptedBecomesPending
