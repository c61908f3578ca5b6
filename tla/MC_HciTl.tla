------------------------------- MODULE MC_HciTl -------------------------------
(* Model-checking instance of HciTl: one scan PHY pair and one periodic     *)
(* sync, two BLE RX buffers and one SYNC buffer, a Host that buffers one    *)
(* packet of each class, and flow-control ceilings of 1 so that reports    *)
(* are filtered as soon as one is pending.                                 *)
EXTENDS HciTl

MC_ScanPhys == {"phy1M"}
MC_SyncActs == {"act0"}
MC_AclBufs  == {"acl1"}
MC_SyncBufs == {"sco1"}
=============================================================================
