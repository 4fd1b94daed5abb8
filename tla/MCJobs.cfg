CONSTANTS
    p1 = p1
    p2 = p2
    Pids <- MCPids
    Exits = {0}
    Signals = {137}
    CHILD_MAX = 1
    MaxPipe = 2
    MaxForks = 5
SYMMETRY MCSymmetry
SPECIFICATION Spec
INVARIANTS
    TypeOK
    PidsUnique
    RecordsMatchKernel
    ChildrenRecorded
    AnswersAreTrue
    KnownIsFound
    ForegroundIsGone
