---------------------------- MODULE MC_HciH2cData ----------------------------
(* One BLE ACL buffer and one BT SYNC buffer, so that the second packet of *)
(* a class finds its pool empty while the first is held by the link layer; *)
(* SYNC handles: one active link and one inactive link.                   *)
EXTENDS HciH2cData

MC_AclPool     == {100}
MC_SyncPool    == {200}
MC_InRange     == {"scoUp", "scoDown"}
MC_ActiveLinks == {"scoUp"}
MC_SyncHandles == MC_InRange
=============================================================================
