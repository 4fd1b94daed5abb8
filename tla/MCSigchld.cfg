CONSTANTS
    Children = {c1, c2, c3, c4}
    Strings = {s1, s2}
SPECIFICATION HSpec
INVARIANTS
    TypeOK
    NoneForgotten
    EachChildTrapped
    TrapIsKept
SYMMETRY Symmetry
CHECK_DEADLOCK FALSE
