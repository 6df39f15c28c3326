SPECIFICATION Spec
CONSTANTS
    Paths = {1, 2, 4}
    BadPaths = {3}
    GoPaths = {1}
    x = x
    y = y
    Blank = Blank
    Tokens = {x, y, Blank}
    Absent = Absent
    Previews = {q1, q2}
    Applies = {a1, a2}
    Proposals <- MCProposals
    Disk <- MCDisk
    Passing <- MCPassing
    MaxPending = 2
    TTL = 2
    MaxTime = 0
    MaxMishaps = 3
    None = None
SYMMETRY RequestSymmetry
CHECK_DEADLOCK FALSE
INVARIANTS
    AppliedAsPreviewed
    RejectedLeavesTree
    CrashKeepsOriginal
