CONSTANTS
    BdAddrLen = 6
    AdvDataLen = 2
    ExtAdvDataLen = 2
    AdvRepMax = 2
    IqSampleMax = 2
    MaxHdl = 2
    MaxSets = 2
    MAX_SCAN_PHYS = 2
    MAX_INIT_PHYS = 3
    PhyMasks = {0, 1, 5, 7, 15}
    KeyLen = 2
    MaxKeys = 2
    MaxIac = 2
    MaxAntennas = 2
    MaxPeriods = 2
    MaxScanFreqs = 2
    MaxIntervals = 2
    NbCmdPkts = 2
SPECIFICATION Spec
INVARIANTS TypeOK LeEvtWire CmdUnpacked CmdRoundTrip SizePassBoundsUnpack RejectReplyWire
