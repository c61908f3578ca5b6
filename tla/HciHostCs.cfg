CONSTANTS
    Conns <- MC_Conns
    Ops <- MC_Ops
    CodeWidth = 8
    MaxCmds = 3
    Evts <- MC_Evts
    Hdls <- MC_Hdls
    MaxEvts = 1
SPECIFICATION Spec
INVARIANTS TypeOK CsNotDuplicated CcRoutedToIssuer EvtRoutedByHandle
