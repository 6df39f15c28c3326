SPECIFICATION Spec
CONSTANTS
    Sources = {s1}
    DedupKeys = {d1, d2, d3}
    CorrKeys = {c1, c2}
    Batches <- ValidBatches
    Times <- OneTime
    Runs = {}
    Waiters = {}
    MaxEvents = 3
    MaxBatch = 2
    Faults = {"bare"}
    MaxFaults = 1
    None = None
SYMMETRY KeySymmetry
INVARIANTS
    NoDuplicateEvents
    OneOpenIncident
    OneJobPerIncident
    IndexesExact
PROPERTIES
    KeepsLedger
