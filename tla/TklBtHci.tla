------------------------------ MODULE TklBtHci ------------------------------
(***************************************************************************)
(* The Linux BLE adapter of tkl_bt/src/hci.c: application threads call the *)
(* hci_dev_* API, which opens one raw HCI socket lazily (g_dd) and writes   *)
(* HCI commands to it; the reader thread __hci_task, created by            *)
(* hci_dev_gap_callback_register, reads events from the same socket once   *)
(* hci_task_enable is set and hands them to the GAP callback.             *)
(*                                                                         *)
(* The versioned calls (hci_dev_set_* and hci_dev_create_conn) first learn *)
(* the controller's HCI version with READ_LOCAL_VERSION through            *)
(* __hci_send_req while hci_version is 0xFF, and then send the legacy      *)
(* command for version <= 0x08 and the LE extended one otherwise.          *)
(* __hci_send_req swaps the socket filter for one that passes only CS, CC  *)
(* and LE meta events of its opcode, reads up to 10 events, and puts the   *)
(* old filter back.  A successful probe sets hci_task_enable.              *)
(*                                                                         *)
(* The kernel appends an event to the receive queue of every open socket   *)
(* whose filter passes it.  hci_dev_up's HCIDEVUP makes the kernel run     *)
(* the controller's initialisation (HCI_Reset, Read Local Supported        *)
(* Features, Read Local Version, then InitCCs more), whose command         *)
(* completes reach the raw socket too.  A controller still scanning from   *)
(* an earlier run streams advertising reports; a burst of AdvBurst of them *)
(* can be queued on the socket at once.  Event payloads are abstracted to  *)
(* their kind and opcode or subevent; every other event the GAP callback   *)
(* would get carries a fresh id.                                            *)
(***************************************************************************)
EXTENDS Naturals, Sequences, FiniteSets

CONSTANTS
    Apps,         \* application threads calling the hci_dev_* API
    Ops,          \* API functions they call
    CtrlVersion,  \* HCI version the controller reports (0x08 = 4.2, 0x09 = 5.0)
    InitCCs,      \* command completes of the HCIDEVUP initialisation after Read Local Version
    AdvBurst,     \* advertising reports in one burst
    MaxBursts,    \* bound: bursts
    MaxCalls,     \* bound: API calls
    MaxSpont,     \* bound: events the controller sends on its own
    MaxSocks      \* bound: sockets __hci_open_dev creates

HCI_TRIES       == 10    \* try = 10 in __hci_send_req
UNKNOWN_VERSION == 255   \* hci_version = 0xFF
NO_DD           == 0     \* g_dd = -1

(* The versioned API functions and the legacy and extended command each    *)
(* one sends; the plain ones send a single command.                        *)
Versioned ==
    [set_scan_enable      |-> [legacy |-> "LE_SET_SCAN_ENABLE", ext |-> "LE_SET_EXT_SCAN_ENABLE"],
     set_advertise_enable |-> [legacy |-> "LE_SET_ADVERTISE_ENABLE", ext |-> "LE_SET_EXT_ADVERTISE_ENABLE"],
     set_adv_parameters   |-> [legacy |-> "LE_SET_ADVERTISING_PARAMETERS", ext |-> "LE_SET_EXT_ADVERTISING_PARAMETERS"],
     set_adv_data         |-> [legacy |-> "LE_SET_ADVERTISING_DATA", ext |-> "LE_SET_EXT_ADVERTISING_DATA"],
     set_scan_parameters  |-> [legacy |-> "LE_SET_SCAN_PARAMETERS", ext |-> "LE_SET_EXT_SCAN_PARAMETERS"],
     set_scan_rsp_data    |-> [legacy |-> "LE_SET_SCAN_RESPONSE_DATA", ext |-> "LE_SET_EXT_SCAN_RESPONSE_DATA"],
     create_conn          |-> [legacy |-> "LE_CREATE_CONN", ext |-> "LE_EXT_CREATE_CONN"]]

Plain == [disconnect |-> "DISCONNECT", conn_update |-> "LE_CONN_UPDATE", read_rssi |-> "READ_RSSI"]

ExtCmds == {Versioned[o].ext : o \in DOMAIN Versioned}

\* commands the controller answers with a Command Status instead of a Command Complete
CsAnswered == {"LE_CREATE_CONN", "LE_EXT_CREATE_CONN", "DISCONNECT", "LE_CONN_UPDATE"}

\* events the controller sends without a command
SpontEvts == {[evt |-> "LE_META", code |-> "ADV_REPORT"],
              [evt |-> "LE_META", code |-> "CONN_COMPLETE"],
              [evt |-> "DISCONN_COMPLETE", code |-> "none"]}

ASSUME /\ Ops \subseteq DOMAIN Versioned \cup DOMAIN Plain \cup {"dev_up", "dev_down"}
       /\ CtrlVersion \in 0..254
       /\ {InitCCs, AdvBurst, MaxBursts, MaxCalls, MaxSpont, MaxSocks} \subseteq Nat

MaxIds == MaxCalls + MaxSpont
Sockets == 1..MaxSocks

\* the filter __hci_open_dev installs: every event, no opcode test
OpenFilter == [opcode |-> "any"]

(* The filter __hci_send_req installs: CS, CC and LE meta events (and      *)
(* r->event, 0 here), with the opcode test the kernel applies to CS and   *)
(* CC.                                                                     *)
ReqFilter(c) == [opcode |-> c]

Passes(f, e) ==
    \/ f.opcode = "any"
    \/ /\ e.evt \in {"CC", "CS", "LE_META"}
       /\ e.evt \in {"CC", "CS"} => e.code = f.opcode

(* event_table and le_meta_event_table: what __hci_evt_handler passes to  *)
(* g_gap_evt_cb; __cmd_complete_evt only reports READ_RSSI.               *)
GapEvent(e) ==
    \/ e.evt = "DISCONN_COMPLETE"
    \/ e.evt = "CC" /\ e.code = "READ_RSSI"
    \/ e.evt = "LE_META" /\ e.code \in {"CONN_COMPLETE", "ADV_REPORT"}

\* the command an API function sends for hci_version v
Command(o, v) ==
    IF o \in DOMAIN Versioned
    THEN IF v <= 8 THEN Versioned[o].legacy ELSE Versioned[o].ext
    ELSE Plain[o]

Answer(c) == [evt |-> IF c \in CsAnswered THEN "CS" ELSE "CC", code |-> c]

VARIABLES
    g_dd, hci_version, hci_task_enable,
    devUp,      \* the HCI device is up (HCIDEVUP done)
    sopen,      \* sockets __hci_open_dev created and nobody closed
    sq,         \* receive queue of each socket
    sflt,       \* filter of each socket
    ctrl,       \* commands written and not yet answered, in order
    pc, op, phase,
    fd,         \* dd passed to __hci_send_req
    of,         \* the filter __hci_send_req saved
    try,        \* its remaining reads
    sent,       \* every command written, in order
    nCalls, nSpont, nBursts, nIds,
    gapIds,     \* ids of the events the GAP callback should get
    enabledIds, \* ... of those sent while hci_task_enable was set
    delivered   \* ids the GAP callback got

vars == <<g_dd, hci_version, hci_task_enable, devUp, sopen, sq, sflt, ctrl,
          pc, op, phase, fd, of, try, sent, nCalls, nSpont, nBursts, nIds, gapIds,
          enabledIds, delivered>>
appVars == <<pc, op, phase, fd, of, try, nCalls>>
ghostVars == <<nBursts, nIds, gapIds, enabledIds, delivered>>

\* The kernel queues each event of es on every open socket whose filter passes it.
EmitSeq(es) ==
    sq' = [s \in Sockets |->
             IF s \in sopen THEN sq[s] \o SelectSeq(es, LAMBDA e : Passes(sflt[s], e))
             ELSE sq[s]]

Emit(e) == EmitSeq(<<e>>)

(* The HCIDEVUP initialisation's command completes, in the kernel's       *)
(* order; none of them is for the GAP callback.                            *)
KernelInit ==
    [i \in 1..(3 + InitCCs) |->
       [evt |-> "CC", id |-> 0,
        code |-> CASE i = 1 -> "HCI_RESET"
                   [] i = 2 -> "READ_LOCAL_FEATURES"
                   [] i = 3 -> "READ_LOCAL_VERSION"
                   [] i > 3 -> "KERNEL_INIT"]]

\* A fresh id for an event the GAP callback should get.
Stamp(e) ==
    IF GapEvent(e)
    THEN /\ nIds' = nIds + 1
         /\ gapIds' = gapIds \cup {nIds + 1}
         /\ enabledIds' = IF hci_task_enable THEN enabledIds \cup {nIds + 1} ELSE enabledIds
    ELSE UNCHANGED <<nIds, gapIds, enabledIds>>

Id(e) == IF GapEvent(e) THEN nIds + 1 ELSE 0

-----------------------------------------------------------------------------
(* Application threads                                                     *)

(* The phase that follows the open check: the version probe of            *)
(* __hci_dev_read_local_version, the command of a __hci_dev_* function, or *)
(* the HCIDEVUP ioctl of hci_dev_up.                                       *)
AfterOpen(a) ==
    CASE phase[a] = "version" -> "req_start"
      [] phase[a] = "cmd"     -> "send_cmd"
      [] phase[a] = "up"      -> "ioctl_up"
      [] phase[a] = "down"    -> "ioctl_down"

(* A versioned function with hci_version still 0xFF probes the version     *)
(* first; every function then checks g_dd.                                 *)
Call(a, o) ==
    /\ pc[a] = "idle" /\ nCalls < MaxCalls
    /\ op' = [op EXCEPT ![a] = o]
    /\ phase' = [phase EXCEPT ![a] =
                   IF o = "dev_up" THEN "up" ELSE IF o = "dev_down" THEN "down"
                   ELSE IF o \in DOMAIN Versioned /\ hci_version = UNKNOWN_VERSION
                   THEN "version" ELSE "cmd"]
    /\ pc' = [pc EXCEPT ![a] = "open_chk"]
    /\ nCalls' = nCalls + 1
    /\ UNCHANGED <<g_dd, hci_version, hci_task_enable, devUp, sopen, sq, sflt,
                   ctrl, fd, of, try, sent, nSpont>> /\ UNCHANGED ghostVars

\* if (g_dd < 0) g_dd = __hci_open_dev(HDEV);
OpenChk(a) ==
    /\ pc[a] = "open_chk"
    /\ pc' = [pc EXCEPT ![a] = IF g_dd = NO_DD THEN "open" ELSE AfterOpen(a)]
    /\ UNCHANGED <<g_dd, hci_version, hci_task_enable, devUp, sopen, sq, sflt,
                   ctrl, op, phase, fd, of, try, sent, nCalls, nSpont>>
    /\ UNCHANGED ghostVars

(* A failed probe makes __hci_dev_read_local_version return an error and   *)
(* the API function goes on to its command with hci_version unchanged;    *)
(* any other failure returns OPRT_OS_ADAPTER_COM_ERROR to the caller.      *)
Failed(a) ==
    IF phase[a] = "version"
    THEN /\ pc' = [pc EXCEPT ![a] = "open_chk"]
         /\ phase' = [phase EXCEPT ![a] = "cmd"]
    ELSE /\ pc' = [pc EXCEPT ![a] = "idle"]
         /\ UNCHANGED phase

(* __hci_open_dev: a socket with the all-events filter bound to hci0, or  *)
(* -1 when socket, setsockopt or bind fails.                               *)
Open(a) ==
    /\ pc[a] = "open"
    /\ \/ /\ Cardinality(sopen) < MaxSocks
          /\ LET s == Cardinality(sopen) + 1
             IN /\ sopen' = sopen \cup {s}
                /\ sflt' = [sflt EXCEPT ![s] = OpenFilter]
                /\ g_dd' = s
          /\ pc' = [pc EXCEPT ![a] = AfterOpen(a)]
          /\ UNCHANGED phase
       \/ /\ Failed(a)
          /\ UNCHANGED <<g_dd, sopen, sflt>>
    /\ UNCHANGED <<hci_version, hci_task_enable, devUp, sq, ctrl, op, fd, of,
                   try, sent, nCalls, nSpont>> /\ UNCHANGED ghostVars

(* __hci_send_req, start: save the filter (getsockopt), install the       *)
(* request filter, and write READ_LOCAL_VERSION (__hci_send_cmd), which    *)
(* fails while the device is down.                                          *)
ReqStart(a) ==
    /\ pc[a] = "req_start"
    /\ fd' = [fd EXCEPT ![a] = g_dd]
    /\ of' = [of EXCEPT ![a] = sflt[g_dd]]
    /\ sflt' = [sflt EXCEPT ![g_dd] = ReqFilter("READ_LOCAL_VERSION")]
    /\ IF devUp
       THEN /\ ctrl' = Append(ctrl, "READ_LOCAL_VERSION")
            /\ try' = [try EXCEPT ![a] = HCI_TRIES]
            /\ pc' = [pc EXCEPT ![a] = "req_poll"]
       ELSE /\ pc' = [pc EXCEPT ![a] = "req_fail"]
            /\ UNCHANGED <<ctrl, try>>
    /\ UNCHANGED <<g_dd, hci_version, hci_task_enable, devUp, sopen, sq, op,
                   phase, sent, nCalls, nSpont>> /\ UNCHANGED ghostVars

\* fault variant: one read more than the budget
TriesLeftOffByOne(t) == t >= 0

\* while (try--)
TriesLeft(t) == t > 0

(* while (try--) { poll(dd, to); ... }: poll returns once the socket has  *)
(* an event, or 0 after the timeout (to stays above 0 for all ten tries), *)
(* which fails the request with ETIMEDOUT; with no try left it fails too. *)
ReqPoll(a) ==
    /\ pc[a] = "req_poll"
    /\ \/ /\ TriesLeft(try[a]) /\ sq[fd[a]] # <<>>
          /\ try' = [try EXCEPT ![a] = try[a] - 1]
          /\ pc' = [pc EXCEPT ![a] = "req_read"]
       \/ /\ TriesLeft(try[a]) /\ sq[fd[a]] = <<>>
          /\ try' = [try EXCEPT ![a] = try[a] - 1]
          /\ pc' = [pc EXCEPT ![a] = "req_fail"]
       \/ /\ ~TriesLeft(try[a])
          /\ pc' = [pc EXCEPT ![a] = "req_fail"]
          /\ UNCHANGED try
    /\ UNCHANGED <<g_dd, hci_version, hci_task_enable, devUp, sopen, sq, sflt,
                   ctrl, op, phase, fd, of, sent, nCalls, nSpont>>
    /\ UNCHANGED ghostVars

(* read(): blocks while the queue is empty.  Only the CC of the request's *)
(* opcode ends the loop; every other event is dropped and costs a try.    *)
ReqRead(a) ==
    /\ pc[a] = "req_read" /\ sq[fd[a]] # <<>>
    /\ LET e == Head(sq[fd[a]])
       IN pc' = [pc EXCEPT ![a] = IF e.evt = "CC" /\ e.code = "READ_LOCAL_VERSION"
                                  THEN "req_done" ELSE "req_poll"]
    /\ sq' = [sq EXCEPT ![fd[a]] = Tail(@)]
    /\ UNCHANGED <<g_dd, hci_version, hci_task_enable, devUp, sopen, sflt, ctrl,
                   op, phase, fd, of, try, sent, nCalls, nSpont>>
    /\ UNCHANGED ghostVars

\* fault variant: the failure path leaves the request filter installed
ReqFailNoRestore(a) ==
    /\ pc[a] = "req_fail"
    /\ Failed(a)
    /\ UNCHANGED <<g_dd, hci_version, hci_task_enable, devUp, sopen, sq, sflt,
                   ctrl, op, fd, of, try, sent, nCalls, nSpont>>
    /\ UNCHANGED ghostVars

\* failed: setsockopt(dd, ..., &of) and return -1
ReqFail(a) ==
    /\ pc[a] = "req_fail"
    /\ sflt' = [sflt EXCEPT ![fd[a]] = of[a]]
    /\ Failed(a)
    /\ UNCHANGED <<g_dd, hci_version, hci_task_enable, devUp, sopen, sq, ctrl,
                   op, fd, of, try, sent, nCalls, nSpont>>
    /\ UNCHANGED ghostVars

\* fault variant: the success path leaves the request filter installed
ReqDoneNoRestore(a) ==
    /\ pc[a] = "req_done"
    /\ hci_version' = CtrlVersion
    /\ hci_task_enable' = TRUE
    /\ pc' = [pc EXCEPT ![a] = "open_chk"]
    /\ phase' = [phase EXCEPT ![a] = "cmd"]
    /\ UNCHANGED <<g_dd, devUp, sopen, sq, sflt, ctrl, op, fd, of, try, sent,
                   nCalls, nSpont>> /\ UNCHANGED ghostVars

(* done: restore the filter; __hci_dev_read_local_version then stores     *)
(* rp.hci_ver in hci_version and sets hci_task_enable.                    *)
ReqDone(a) ==
    /\ pc[a] = "req_done"
    /\ sflt' = [sflt EXCEPT ![fd[a]] = of[a]]
    /\ hci_version' = CtrlVersion
    /\ hci_task_enable' = TRUE
    /\ pc' = [pc EXCEPT ![a] = "open_chk"]
    /\ phase' = [phase EXCEPT ![a] = "cmd"]
    /\ UNCHANGED <<g_dd, devUp, sopen, sq, ctrl, op, fd, of, try, sent, nCalls,
                   nSpont>> /\ UNCHANGED ghostVars

(* __hci_send_cmd of the API function: writev fails while the device is   *)
(* down; the function returns either way.                                  *)
SendCmd(a) ==
    /\ pc[a] = "send_cmd"
    /\ LET c == Command(op[a], hci_version)
       IN IF devUp
          THEN /\ ctrl' = Append(ctrl, c)
               /\ sent' = Append(sent, c)
          ELSE UNCHANGED <<ctrl, sent>>
    /\ pc' = [pc EXCEPT ![a] = "idle"]
    /\ UNCHANGED <<g_dd, hci_version, hci_task_enable, devUp, sopen, sq, sflt,
                   op, phase, fd, of, try, nCalls, nSpont>> /\ UNCHANGED ghostVars

(* hci_dev_up: ioctl(HCIDEVUP) returns EALREADY on a device that is up;    *)
(* otherwise the kernel initialises the controller, and the command       *)
(* completes of that initialisation reach the open sockets.               *)
IoctlUp(a) ==
    /\ pc[a] = "ioctl_up"
    /\ IF devUp
       THEN UNCHANGED <<devUp, sq>>
       ELSE /\ devUp' = TRUE
            /\ EmitSeq(KernelInit)
    /\ pc' = [pc EXCEPT ![a] = "idle"]
    /\ UNCHANGED <<g_dd, hci_version, hci_task_enable, sopen, sflt, ctrl, op,
                   phase, fd, of, try, sent, nCalls, nSpont>> /\ UNCHANGED ghostVars

(* hci_dev_down: ioctl(HCIDEVDOWN) closes the device (a device already    *)
(* down is left so and the call succeeds); the commands the controller    *)
(* has not answered are never answered.                                    *)
IoctlDown(a) ==
    /\ pc[a] = "ioctl_down"
    /\ devUp' = FALSE
    /\ ctrl' = <<>>
    /\ pc' = [pc EXCEPT ![a] = "idle"]
    /\ UNCHANGED <<g_dd, hci_version, hci_task_enable, sopen, sq, sflt, op,
                   phase, fd, of, try, sent, nCalls, nSpont>> /\ UNCHANGED ghostVars

AppStep(a) ==
    \/ OpenChk(a) \/ Open(a) \/ ReqStart(a) \/ ReqPoll(a) \/ ReqRead(a)
    \/ ReqFail(a) \/ ReqDone(a) \/ SendCmd(a) \/ IoctlUp(a) \/ IoctlDown(a)

-----------------------------------------------------------------------------
(* Reader thread and controller                                            *)

(* __hci_task: while hci_task_enable, read(g_dd) and dispatch through      *)
(* __hci_evt_handler.                                                      *)
TaskRead ==
    /\ hci_task_enable /\ g_dd \in sopen /\ sq[g_dd] # <<>>
    /\ LET e == Head(sq[g_dd])
       IN delivered' = IF e.id # 0 THEN delivered \cup {e.id} ELSE delivered
    /\ sq' = [sq EXCEPT ![g_dd] = Tail(@)]
    /\ UNCHANGED <<g_dd, hci_version, hci_task_enable, devUp, sopen, sflt, ctrl,
                   sent, nSpont, nBursts, nIds, gapIds, enabledIds>> /\ UNCHANGED appVars

\* The controller answers the oldest command.
CtrlAnswer ==
    /\ ctrl # <<>>
    /\ LET e == Answer(Head(ctrl))
           r == [evt |-> e.evt, code |-> e.code, id |-> Id(e)]
       IN Emit(r) /\ Stamp(r)
    /\ ctrl' = Tail(ctrl)
    /\ UNCHANGED <<g_dd, hci_version, hci_task_enable, devUp, sopen, sflt, sent,
                   nSpont, nBursts, delivered>> /\ UNCHANGED appVars

\* The controller reports an advertising report, a connection or a disconnection.
CtrlEvent ==
    /\ devUp /\ nSpont < MaxSpont
    /\ \E k \in SpontEvts :
         LET r == [evt |-> k.evt, code |-> k.code, id |-> Id(k)]
         IN Emit(r) /\ Stamp(r)
    /\ nSpont' = nSpont + 1
    /\ UNCHANGED <<g_dd, hci_version, hci_task_enable, devUp, sopen, sflt, ctrl,
                   sent, nBursts, delivered>> /\ UNCHANGED appVars

(* A controller left scanning streams advertising reports, and AdvBurst   *)
(* of them are queued at once.                                             *)
CtrlAdvBurst ==
    /\ devUp /\ nBursts < MaxBursts
    /\ EmitSeq([i \in 1..AdvBurst |-> [evt |-> "LE_META", code |-> "ADV_REPORT", id |-> 0]])
    /\ nBursts' = nBursts + 1
    /\ UNCHANGED <<g_dd, hci_version, hci_task_enable, devUp, sopen, sflt, ctrl,
                   sent, nSpont, nIds, gapIds, enabledIds, delivered>> /\ UNCHANGED appVars

Finished ==
    /\ \A a \in Apps : pc[a] = "idle"
    /\ nCalls = MaxCalls /\ ctrl = <<>>
    /\ UNCHANGED vars

(* Static initialisers: no socket, version unknown, reader disabled; the  *)
(* reader thread exists (the callback is registered first).  The device   *)
(* may already be up, brought up by the system or an earlier run.          *)
Init ==
    /\ g_dd = NO_DD /\ hci_version = UNKNOWN_VERSION /\ hci_task_enable = FALSE
    /\ devUp \in BOOLEAN /\ sopen = {}
    /\ sq = [s \in Sockets |-> <<>>] /\ sflt = [s \in Sockets |-> OpenFilter]
    /\ ctrl = <<>>
    /\ pc = [a \in Apps |-> "idle"] /\ op = [a \in Apps |-> "dev_up"]
    /\ phase = [a \in Apps |-> "cmd"] /\ fd = [a \in Apps |-> NO_DD]
    /\ of = [a \in Apps |-> OpenFilter] /\ try = [a \in Apps |-> 0]
    /\ sent = <<>> /\ nCalls = 0 /\ nSpont = 0 /\ nBursts = 0
    /\ nIds = 0 /\ gapIds = {} /\ enabledIds = {} /\ delivered = {}

Next ==
    \/ \E a \in Apps, o \in Ops : Call(a, o)
    \/ \E a \in Apps : AppStep(a)
    \/ TaskRead \/ CtrlAnswer \/ CtrlEvent \/ CtrlAdvBurst \/ Finished

(* Threads that have started a call run it on, the reader thread reads    *)
(* what is queued, and the controller answers every command.              *)
Spec == Init /\ [][Next]_vars
        /\ \A a \in Apps : WF_vars(AppStep(a))
        /\ WF_vars(TaskRead) /\ WF_vars(CtrlAnswer)

-----------------------------------------------------------------------------
(* Properties                                                              *)

Filters == [opcode : {"any", "READ_LOCAL_VERSION"}]
Events  == [evt : {"CC", "CS", "LE_META", "DISCONN_COMPLETE"}, code : STRING, id : 0..MaxIds]

TypeOK ==
    /\ g_dd \in {NO_DD} \cup Sockets /\ sopen \subseteq Sockets
    /\ hci_version \in {UNKNOWN_VERSION, CtrlVersion} /\ hci_task_enable \in BOOLEAN
    /\ sq \in [Sockets -> Seq(Events)] /\ sflt \in [Sockets -> Filters]
    /\ try \in [Apps -> 0..HCI_TRIES] /\ of \in [Apps -> Filters]
    /\ delivered \subseteq gapIds /\ gapIds \subseteq 1..MaxIds

ReqPcs == {"req_poll", "req_read", "req_fail", "req_done"}

(* A socket carries the request filter only while a __hci_send_req on it  *)
(* is running: every exit of the request puts the saved filter back, so   *)
(* the reader thread is not left blind to disconnections and to the      *)
(* command completes of other opcodes.                                     *)
ReqFilterScoped ==
    \A s \in sopen : sflt[s] # OpenFilter =>
        \E a \in Apps : pc[a] \in ReqPcs /\ fd[a] = s

(* Every event for the GAP callback that the controller sends while       *)
(* hci_task_enable is set is eventually passed to g_gap_evt_cb by          *)
(* __hci_task.                                                             *)
EnabledEventsDelivered ==
    \A i \in 1..MaxIds : (i \in enabledIds) ~> (i \in delivered)
=============================================================================
