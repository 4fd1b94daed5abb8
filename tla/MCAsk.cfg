CONSTANTS
    UrlLists <- MCUrlLists
    Overrides <- MCOverrides
    MaxCounter = 2
    MaxCommands = 2
    MaxDepth = 2
    MaxAsks = 3
SPECIFICATION FairSpec
CHECK_DEADLOCK FALSE
INVARIANTS
    TypeOK
    PostsBounded
    OnlyWanted
    LastIsOneAnswer
    ErrorIsCurrent
    AnsweredOnce
PROPERTIES
    TakesTurns
    RequestsEnd
