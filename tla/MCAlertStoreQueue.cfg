SPECIFICATION Spec
CONSTANTS
    Sources = {s1, s2}
    DedupKeys = {d1, d2}
    CorrKeys = {c1}
    Batches <- MCBatches
    Times <- TwoTimes
    Runs = {r1}
    Waiters = {w1}
    MaxEvents = 2
    MaxBatch = 2
    Faults = {"none"}
    MaxFaults = 1
    None = None
SYMMETRY KeySymmetry
INVARIANTS
    TypeOK
    EventsLinked
    JournalMatchesMemory
    AckedSurvive
    AnswersMatchJobs
