CONSTANT MaxJobs = 3
SPECIFICATION Spec
INVARIANTS
    TypeOK
    CurrentExists
    IndicesBracketJobs
    EndIsReported
PROPERTIES
    CurrentIsKept
    PreviousIsKept
