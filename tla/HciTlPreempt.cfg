CONSTANTS
    NbCmdPkts = 1
    MaxAdvRepFrag = 1
    MaxIqRep = 1
    ScanPhys <- MC_ScanPhys
    SyncActs <- MC_SyncActs
    AclBufs <- MC_AclBufs
    SyncBufs <- MC_SyncBufs
    HostAclPkts = 1
    HostSyncPkts = 1
    MaxMsgs = 3
    MaxCmds = 2
    MaxChainLen = 2
    Preemptive = TRUE

SPECIFICATION Spec

INVARIANT
    SingleFlight
