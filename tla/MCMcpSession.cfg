SPECIFICATION FairSpec
CONSTANTS
    Callers = {c1, c2}
    Host = Host
    Reader = Reader
    PipeSize = 1
    MaxID = 2
    MaxNoise = 1
    None = None
CHECK_DEADLOCK FALSE
INVARIANTS
    TypeOK
    DispatchedByID
    StartedOrStopped


PROPERTIES
    EveryCallEnds
