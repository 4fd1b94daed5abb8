CONSTANTS
    Base = 4
    Limit = 10
    Closed = Closed
    Files = {f1, f2, f3}
    MaxDepth = 2
    MaxRedirs = 2
SPECIFICATION HSpec
INVARIANTS
    TypeOK
    SavesAreIntact
    NoLeak
PROPERTIES
    Restored
CONSTRAINT LossIsRecent
SYMMETRY Symmetry
