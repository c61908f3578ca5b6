---------------------------- MODULE MC_HciHostCs ----------------------------
EXTENDS HciHostCs

\* two links, the four modelled connection commands
MC_Conns == {0, 1}
MC_Ops   == {DISCONNECT, RD_RSSI, LE_CON_UPDATE, LE_RD_PHY}

\* the two CS-answered commands only
MC_OpsTwoCs == {DISCONNECT, LE_CON_UPDATE}

\* every modelled event row and the unknown code; the two links and a closed one
MC_Evts == DOMAIN EvtDesc
MC_Hdls == {0, 1, 2}
=============================================================================
