CONSTANTS
    AclPool <- MC_AclPool
    SyncPool <- MC_SyncPool
    SyncHandles <- MC_SyncHandles
    InRange <- MC_InRange
    ActiveLinks <- MC_ActiveLinks
    VoiceOverHci = TRUE
    MaxPkts = 5

SPECIFICATION SpecAbort

INVARIANT
    TrashMarksHeap
