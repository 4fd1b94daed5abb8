CONSTANTS
    Pids <- MCPids
    Statuses <- MCStatuses
    Buckets <- MCBuckets
    Hash <- MCHash
    Requests <- MCRequests
    BGPIDS_TABLE_SZ = 2
    MAX_CHILD_MAX = 4
    LMAXCHILD = 2
    NpidMax = 5
SPECIFICATION HSpec
INVARIANTS
    TypeOK
    Linked
    NoWarning
    NpidCovers
    SearchFindsNewest
    FindOneFinds
PROPERTIES
    RefinesSavedStatus
    OutlivesItsRoom
