----------------------------- MODULE MC_TklWifi -----------------------------
EXTENDS TklWifi

\* WLAN_DEV and WLAN_AP as two interfaces; every work mode
CONSTANTS wlan0, wlan1
MC_WorkModes == {"powerdown", "sniffer", "station", "softap", "stationap"}
=============================================================================
