---------------------------- MODULE MC_TklBtHci ----------------------------
EXTENDS TklBtHci

\* one application thread; it brings the device up or down, starts
\* scanning (a versioned call), and reads the RSSI (a plain call)
MC_Apps == {"a1"}
MC_Ops  == {"dev_up", "dev_down", "set_scan_enable", "read_rssi"}
=============================================================================
