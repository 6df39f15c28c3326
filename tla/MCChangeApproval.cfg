SPECIFICATION Spec
CONSTANTS
    Paths = {2}
    BadPaths = {3}
    GoPaths = {2}
    x = x
    y = y
    Blank = Blank
    Tokens = {x, y, Blank}
    Absent = Absent
    Previews = {q1, q2, q3}
    Applies = {a1, a2}
    Proposals <- MCOneFile
    Disk <- MCOneDisk
    Passing <- MCOnePassing
    MaxPending = 2
    TTL = 2
    MaxTime = 2
    MaxMishaps = 1
    None = None
SYMMETRY RequestSymmetry
CHECK_DEADLOCK FALSE
INVARIANTS
    TypeOK
    ApprovalUsedOnce
    EvictedOnlyByNewer
