SPECIFICATION Spec
CONSTANTS
    Sources = {s1}
    DedupKeys = {d1}
    CorrKeys = {c1}
    Batches <- ValidBatches
    Times <- OneTime
    Runs = {r1}
    Waiters = {}
    MaxEvents = 2
    MaxBatch = 1
    Faults = {"unsynced"}
    MaxFaults = 1
    None = None
INVARIANTS
    RepeatedKeyOneJob
