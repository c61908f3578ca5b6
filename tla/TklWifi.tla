------------------------------ MODULE TklWifi ------------------------------
(***************************************************************************)
(* The Linux Wi-Fi adapter: tkl_wifi.c over linux_wifi.c.                  *)
(*                                                                         *)
(* One application thread calls the tkl_wifi_* API; the thread that       *)
(* tkl_wifi_init creates (wifi_status_event_cb) polls the station status  *)
(* while sta_conn_flag is set and reports WFE_* events to the callback.    *)
(* The station link (wpa_supplicant, the access point, udhcpc) changes on  *)
(* its own, with no fairness: the access point may be absent.              *)
(***************************************************************************)
EXTENDS Integers

CONSTANTS
    StaIf, ApIf,  \* WLAN_DEV and WLAN_AP; the build may name one interface twice
    WorkModes,    \* WF_WK_MD_E values the application passes to set_work_mode
    Failures,     \* TRUE: file writes, popen and wpa_supplicant requests may fail
    MaxIwErrors,  \* bound: failed wireless-extension reads in get_status
    MaxCalls,     \* bound: API calls
    MaxDrops      \* bound: link losses

ASSUME /\ WorkModes \subseteq {"powerdown", "sniffer", "station", "softap", "stationap"}
       /\ Failures \in BOOLEAN
       /\ {MaxIwErrors, MaxCalls, MaxDrops} \subseteq Nat

Ifaces == {StaIf, ApIf}
Modes  == {"Managed", "Master", "Monitor"}

\* the outcomes of a step that touches a file, a process or wpa_supplicant
Outcome == IF Failures THEN BOOLEAN ELSE {TRUE}

VARIABLES
    sta_conn_flag,
    pc,          \* application thread: idle, or between the two halves of a call
    tpc,         \* status thread: at the sta_conn_flag test or at the status read
    stat, last_stat, last_state,   \* the status thread's locals
    mode, up,    \* SIOCGIWMODE and IFF_UP of each interface
    wpa,         \* a wpa_supplicant process runs
    sel,         \* it has the application's network configured and selected
    udhcpc, hostapd, udhcpd,
    assoc,       \* the station is associated (valid BSSID, ESSID on)
    ip,          \* the station interface has an address
    apcfg,       \* s_tkl_wifi.apcfg was stored
    lastEvt,     \* the last event passed to event_cb
    reported,    \* WFE_CONNECTED was passed since the last station connect
                 \* that returned OPRT_OK
    nCalls, nDrops, nErrs

vars == <<sta_conn_flag, pc, tpc, stat, last_stat, last_state, mode, up, wpa,
          sel, udhcpc, hostapd, udhcpd, assoc, ip, apcfg, lastEvt, reported,
          nCalls, nDrops, nErrs>>
linkVars == <<wpa, sel, udhcpc, assoc, ip>>
apVars   == <<hostapd, udhcpd, apcfg>>
thrVars  == <<tpc, stat, last_stat, last_state, lastEvt, reported, nErrs>>

\* The station interface, after SIOCSIWMODE / SIOCSIFFLAGS on it, can stay
\* associated only while it is up and managed.
Assoc(m, u) == assoc /\ u[StaIf] /\ m[StaIf] = "Managed"

\* wifi_enable: SIOCGIFFLAGS, set or clear IFF_UP, SIOCSIFFLAGS (clearing
\* IFF_UP keeps the IPv4 address, which SIOCGIFADDR still reads)
WifiEnable(u, i, b) == [u EXCEPT ![i] = b]

\* wifi_set_mode: SIOCSIWMODE with the mode's iw_operation_mode index
WifiSetMode(m, i, k) == [m EXCEPT ![i] = k]

-----------------------------------------------------------------------------
(* Application thread                                                      *)

(* tkl_wifi_station_connect, first half: sta_conn_flag = 1.               *)
StationConnectCall ==
    /\ pc = "idle" /\ nCalls < MaxCalls
    /\ sta_conn_flag' = TRUE
    /\ pc' = "connect" /\ nCalls' = nCalls + 1
    /\ UNCHANGED <<tpc, stat, last_stat, last_state, lastEvt, reported, nErrs,
                   mode, up, nDrops>> /\ UNCHANGED linkVars /\ UNCHANGED apVars

(* start_udhcpc: killall udhcpc (which releases the lease, -R) and start a *)
(* new one.                                                                 *)
StartUdhcpc == udhcpc' = TRUE /\ ip' = FALSE

(* wifi_station_connect: with no wpa_supplicant, write its configuration   *)
(* and start it and udhcpc; with one, join the network through it and     *)
(* start udhcpc if none runs.  Selecting a network drops the current      *)
(* association.  Each step that fails returns -1.                          *)
\* wpa_config_prepare writes the network into the configuration file, and
\* start_wpa runs wpa_supplicant -B on WLAN_DEV with it.
StartWpa == wpa' = TRUE /\ sel' = TRUE

StationConnect ==
    /\ pc = "connect"
    /\ \E ok \in Outcome :
         /\ reported' = (reported /\ ~ok)
         /\ IF ~ok THEN UNCHANGED linkVars
            ELSE IF ~wpa
            THEN /\ StartWpa /\ assoc' = FALSE
                 /\ StartUdhcpc
            ELSE /\ sel' = TRUE /\ assoc' = FALSE
                 /\ IF udhcpc THEN UNCHANGED <<udhcpc, ip>> ELSE StartUdhcpc
                 /\ UNCHANGED wpa
    /\ pc' = "idle"
    /\ UNCHANGED <<sta_conn_flag, mode, up, nCalls, nDrops>>
    /\ UNCHANGED <<tpc, stat, last_stat, last_state, lastEvt, nErrs>>
    /\ UNCHANGED apVars

(* tkl_wifi_station_disconnect, first half: sta_conn_flag = 0.            *)
StationDisconnectCall ==
    /\ pc = "idle" /\ nCalls < MaxCalls
    /\ sta_conn_flag' = FALSE
    /\ pc' = "disconnect" /\ nCalls' = nCalls + 1
    /\ UNCHANGED <<mode, up, nDrops>> /\ UNCHANGED thrVars
    /\ UNCHANGED linkVars /\ UNCHANGED apVars

\* wifi_disconnect: wpa_supplicant drops the network, and udhcpc is killed
\* with SIGKILL, so it releases nothing and the address stays on the
\* interface until the next udhcpc deconfigures it
WifiDisconnect == sel' = FALSE /\ assoc' = FALSE /\ udhcpc' = FALSE /\ UNCHANGED ip

(* tkl_wifi_station_disconnect, second half: wifi_disconnect (when its    *)
(* request to wpa_supplicant fails the call returns), then the station    *)
(* interface is taken down and up again.                                   *)
StationDisconnect ==
    /\ pc = "disconnect"
    /\ \E ok \in Outcome :
         IF ~ok THEN UNCHANGED <<up, wpa, sel, udhcpc, assoc, ip>>
         ELSE /\ WifiDisconnect
              /\ up' = WifiEnable(WifiEnable(up, StaIf, FALSE), StaIf, TRUE)
              /\ UNCHANGED wpa
    /\ pc' = "idle"
    /\ UNCHANGED <<sta_conn_flag, mode, nCalls, nDrops>>
    /\ UNCHANGED thrVars /\ UNCHANGED apVars

(* tkl_wifi_set_work_mode: wifi_enable and wifi_set_mode on the interfaces *)
(* the mode names, in the code's order; ok[k] is whether the k-th ioctl   *)
(* call succeeds, and a failed one leaves its interface as it was.        *)
NewIfaces(w, ok) ==
    LET en(u, i, k, b) == IF ok[k] THEN WifiEnable(u, i, b) ELSE u
        sm(m, i, k, md) == IF ok[k] THEN WifiSetMode(m, i, md) ELSE m
    IN CASE w = "powerdown" -> [mode |-> mode, up |-> en(up, StaIf, 1, FALSE)]
         [] w = "sniffer"   -> [mode |-> sm(mode, StaIf, 1, "Monitor"), up |-> up]
         [] w = "station"   -> [mode |-> sm(mode, StaIf, 1, "Managed"), up |-> up]
         [] w = "softap"    -> [mode |-> sm(mode, ApIf, 2, "Master"),
                                up |-> en(en(up, ApIf, 1, FALSE), ApIf, 3, TRUE)]
         [] w = "stationap" -> [mode |-> sm(sm(mode, StaIf, 1, "Managed"), ApIf, 2, "Master"),
                                up |-> up]

\* The ioctls' results are only logged: when some fail (a socket error, a
\* driver refusing SIOCSIWMODE on a running interface) the call still
\* returns OPRT_OK with only the others applied.
SetWorkMode ==
    /\ pc = "idle" /\ nCalls < MaxCalls
    /\ \E w \in WorkModes, ok \in [1 .. 3 -> Outcome] :
         LET n == NewIfaces(w, ok)
         IN /\ mode' = n.mode /\ up' = n.up
            /\ assoc' = Assoc(n.mode, n.up)
    /\ nCalls' = nCalls + 1
    /\ UNCHANGED <<sta_conn_flag, pc, wpa, sel, udhcpc, ip, nDrops>>
    /\ UNCHANGED thrVars /\ UNCHANGED apVars

(* wifi_ap_start with the caller's cfg: write hostapd.conf (conf), start  *)
(* hostapd, set the address (setIp), derive the DHCP range in ip_prepare, *)
(* which needs an address (ipGiven), write udhcpd.conf (dconf; on failure *)
(* killall -9 hostapd) and start udhcpd.  Returns whether it succeeded.    *)
WifiApStart(conf, setIp, ipGiven, dconf) ==
    CASE ~conf                -> [hostapd |-> hostapd, udhcpd |-> udhcpd, ok |-> FALSE]
      [] ~setIp \/ ~ipGiven   -> [hostapd |-> TRUE, udhcpd |-> udhcpd, ok |-> FALSE]
      [] ~dconf               -> [hostapd |-> FALSE, udhcpd |-> udhcpd, ok |-> FALSE]
      [] OTHER                -> [hostapd |-> TRUE, udhcpd |-> TRUE, ok |-> TRUE]

(* tkl_wifi_start_ap: bring the AP interface up, check the channel, then  *)
(* wifi_ap_start, and store apcfg only if it succeeded.  A cfg without an *)
(* address fails in ip_prepare: the WIFI_AP_DEFAULT_IP substitute goes to *)
(* tmp_cfg, and cfg is what is passed to wifi_ap_start.                    *)
StartAp ==
    /\ pc = "idle" /\ nCalls < MaxCalls
    /\ \E chanOk, ipGiven \in BOOLEAN, conf, setIp, dconf \in Outcome :
         LET r == WifiApStart(conf, setIp, ipGiven, dconf)
         IN /\ up' = WifiEnable(up, ApIf, TRUE)
            /\ IF ~chanOk THEN UNCHANGED apVars
               ELSE /\ hostapd' = r.hostapd /\ udhcpd' = r.udhcpd
                    /\ apcfg' = (apcfg \/ r.ok)
    /\ nCalls' = nCalls + 1
    /\ UNCHANGED <<sta_conn_flag, pc, mode, nDrops>> /\ UNCHANGED thrVars
    /\ UNCHANGED linkVars

(* tkl_wifi_stop_ap: wifi_ap_stop kills hostapd and udhcpd; then the AP  *)
(* interface is taken down.                                                *)
StopAp ==
    /\ pc = "idle" /\ nCalls < MaxCalls
    /\ hostapd' = FALSE /\ udhcpd' = FALSE
    /\ up' = WifiEnable(up, ApIf, FALSE)
    /\ assoc' = Assoc(mode, up')
    /\ nCalls' = nCalls + 1
    /\ UNCHANGED <<sta_conn_flag, pc, mode, apcfg, wpa, sel, udhcpc, ip, nDrops>>
    /\ UNCHANGED thrVars

-----------------------------------------------------------------------------
(* Status thread (wifi_status_event_cb)                                    *)

\* while (event_flag) { if (!sta_conn_flag) { sleep(1); continue; } ...
ThreadCheck ==
    /\ tpc = "check" /\ sta_conn_flag
    /\ tpc' = "poll"
    /\ UNCHANGED <<sta_conn_flag, pc, stat, last_stat, last_state, mode, up,
                   lastEvt, reported, nCalls, nDrops, nErrs>>
    /\ UNCHANGED linkVars /\ UNCHANGED apVars

\* wifi_get_bssid and is_valid_mac: wpa_supplicant reports the BSSID of an
\* associated station (neither multicast nor zero)
BssidValid == assoc

\* wifi_check_essid_on: -1 when iw_get_basic_config fails, else whether
\* the ESSID is on
EssidOn(essidErr) == IF essidErr THEN -1 ELSE IF assoc THEN 1 ELSE 0

\* mutant: associated without an address is taken for WSS_CONNECTING
GetStatusConnecting(old, mRead, essidErr) ==
    LET essid == EssidOn(essidErr)
    IN CASE mRead # "Managed"        -> "IDLE"
         [] ~BssidValid \/ essid = 0 -> "CONN_FAIL"
         [] essid = 1 /\ ip          -> "GOT_IP"
         [] essid = 1                -> "CONNECTING"
         [] OTHER                    -> old

\* mutant: the CONN_FAIL test of get_status is missing
GetStatusNoFail(old, mRead, essidErr) ==
    LET essid == EssidOn(essidErr)
    IN CASE mRead # "Managed"        -> "IDLE"
         [] essid = 1 /\ ip          -> "GOT_IP"
         [] essid = 1                -> "CONN_SUCCESS"
         [] OTHER                    -> old

(* tkl_wifi_station_get_status: IDLE unless WLAN_DEV is managed; CONN_FAIL *)
(* without a valid BSSID or with the ESSID off; CONN_SUCCESS or GOT_IP    *)
(* with both.  A failed SIOCGIWMODE leaves mode uninitialised (mRead), and *)
(* a failed iw_get_basic_config (essid = -1) with a valid BSSID leaves    *)
(* *stat as it was.                                                        *)
GetStatus(old, mRead, essidErr) ==
    LET essid == EssidOn(essidErr)
    IN CASE mRead # "Managed"        -> "IDLE"
         [] ~BssidValid \/ essid = 0 -> "CONN_FAIL"
         [] essid = 1 /\ ip          -> "GOT_IP"
         [] essid = 1                -> "CONN_SUCCESS"
         [] OTHER                    -> old

\* event_cb(e); last_state = e
Deliver(e) ==
    /\ last_state' = e /\ lastEvt' = e
    /\ reported' = (reported \/ e = "CONNECTED")

(* One pass of the loop after the flag test: read the status, map it to   *)
(* an event, and report the event unless it repeats last_state; a new     *)
(* CONN_SUCCESS / GOT_IP status is reported even if it does.               *)
ThreadPoll ==
    /\ tpc = "poll"
    /\ \E mRead \in Modes, essidErr \in BOOLEAN :
         /\ (mRead # mode[StaIf] \/ essidErr) => nErrs < MaxIwErrors
         /\ nErrs' = IF mRead # mode[StaIf] \/ essidErr THEN nErrs + 1 ELSE nErrs
         /\ LET s == GetStatus(stat, mRead, essidErr)
            IN /\ stat' = s
               /\ CASE s = "IDLE" ->
                         UNCHANGED <<last_stat, last_state, lastEvt, reported>>
                    [] s \in {"CONN_SUCCESS", "GOT_IP"} /\ last_stat # s ->
                         last_stat' = s /\ Deliver("CONNECTED")
                    [] OTHER ->
                         LET e == IF s = "CONN_FAIL" THEN "CONNECT_FAILED" ELSE "CONNECTED"
                         IN /\ IF last_state = e
                               THEN UNCHANGED <<last_state, lastEvt, reported>>
                               ELSE Deliver(e)
                            /\ UNCHANGED last_stat
    /\ tpc' = "check"
    /\ UNCHANGED <<sta_conn_flag, pc, mode, up, nCalls, nDrops>>
    /\ UNCHANGED linkVars /\ UNCHANGED apVars

-----------------------------------------------------------------------------
(* Station link                                                            *)

\* wpa_supplicant associates with the selected network.
Associate ==
    /\ wpa /\ sel /\ ~assoc /\ up[StaIf] /\ mode[StaIf] = "Managed"
    /\ assoc' = TRUE
    /\ UNCHANGED <<wpa, sel, udhcpc, ip, sta_conn_flag, pc, mode, up, nCalls,
                   nDrops>> /\ UNCHANGED thrVars /\ UNCHANGED apVars

\* udhcpc obtains a lease.
Dhcp ==
    /\ assoc /\ udhcpc /\ ~ip
    /\ ip' = TRUE
    /\ UNCHANGED <<wpa, sel, udhcpc, assoc, sta_conn_flag, pc, mode, up, nCalls,
                   nDrops>> /\ UNCHANGED thrVars /\ UNCHANGED apVars

\* The access point goes away; the address may outlive the association.
Drop ==
    /\ assoc /\ nDrops < MaxDrops
    /\ assoc' = FALSE /\ ip' \in {ip, FALSE}
    /\ nDrops' = nDrops + 1
    /\ UNCHANGED <<wpa, sel, udhcpc, sta_conn_flag, pc, mode, up, nCalls>>
    /\ UNCHANGED thrVars /\ UNCHANGED apVars

-----------------------------------------------------------------------------

(* After tkl_wifi_init: the status thread runs, no flag, no process, both  *)
(* interfaces up and managed.                                               *)
Init ==
    /\ sta_conn_flag = FALSE /\ pc = "idle" /\ tpc = "check"
    /\ stat = "IDLE" /\ last_stat = "IDLE" /\ last_state = "none"
    /\ mode = [i \in Ifaces |-> "Managed"] /\ up = [i \in Ifaces |-> TRUE]
    /\ wpa = FALSE /\ sel = FALSE /\ udhcpc = FALSE /\ assoc = FALSE /\ ip = FALSE
    /\ hostapd = FALSE /\ udhcpd = FALSE /\ apcfg = FALSE
    /\ lastEvt = "none" /\ reported = FALSE
    /\ nCalls = 0 /\ nDrops = 0 /\ nErrs = 0

AppStep ==
    \/ StationConnectCall \/ StationConnect
    \/ StationDisconnectCall \/ StationDisconnect
    \/ SetWorkMode \/ StartAp \/ StopAp

Next == AppStep \/ ThreadCheck \/ ThreadPoll \/ Associate \/ Dhcp \/ Drop

(* The status thread loops for ever; a call the application has started   *)
(* runs to its end.  The link gets no fairness.                            *)
Spec == Init /\ [][Next]_vars
        /\ WF_vars(ThreadCheck) /\ WF_vars(ThreadPoll)
        /\ WF_vars(StationConnect) /\ WF_vars(StationDisconnect)

-----------------------------------------------------------------------------
(* Properties                                                              *)

Stats  == {"IDLE", "CONN_FAIL", "CONN_SUCCESS", "GOT_IP"}
Events == {"none", "CONNECTED", "CONNECT_FAILED"}

TypeOK ==
    /\ sta_conn_flag \in BOOLEAN
    /\ pc \in {"idle", "connect", "disconnect"} /\ tpc \in {"check", "poll"}
    /\ {stat, last_stat} \subseteq Stats /\ {last_state, lastEvt} \subseteq Events
    /\ mode \in [Ifaces -> Modes] /\ up \in [Ifaces -> BOOLEAN]
    /\ {wpa, sel, udhcpc, hostapd, udhcpd, assoc, ip, apcfg, reported} \subseteq BOOLEAN
    /\ nCalls \in 0..MaxCalls /\ nDrops \in 0..MaxDrops /\ nErrs \in 0..MaxIwErrors

\* the station is being polled, with no call in progress, and is (not) linked
StaLinked(b) ==
    /\ sta_conn_flag /\ pc = "idle" /\ mode[StaIf] = "Managed"
    /\ assoc = b

(* The event last passed to event_cb catches up with the station link:    *)
(* while tkl_wifi_station_connect's flag stays set, a station that stays  *)
(* associated is eventually reported WFE_CONNECTED, and one that stays    *)
(* unassociated WFE_CONNECT_FAILED (wifi_status_event_cb with             *)
(* tkl_wifi_station_get_status, through stale and failed reads).           *)
EventConverges ==
    /\ StaLinked(TRUE)  ~> (lastEvt = "CONNECTED" \/ ~StaLinked(TRUE))
    /\ StaLinked(FALSE) ~> (lastEvt = "CONNECT_FAILED" \/ ~StaLinked(FALSE))

(* Every tkl_wifi_station_connect that ends with the station associated  *)
(* and addressed is answered with WFE_CONNECTED while the link stays: the *)
(* header calls event_cb the station "work status changed callback", and  *)
(* wifi_status_event_cb compares against last_stat / last_state, which   *)
(* tkl_wifi_station_disconnect leaves at the previous connection's values. *)
ConnectReported ==
    (StaLinked(TRUE) /\ ip /\ ~reported) ~> (reported \/ ~(StaLinked(TRUE) /\ ip))

=============================================================================
