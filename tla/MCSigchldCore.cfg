CONSTANTS
    Children = {c1, c2, c3}
    Strings = {s1}
SPECIFICATION HSpec
INVARIANT NoCoreDump
CHECK_DEADLOCK FALSE
