# TLA+ models of the Tuya open SDK board support (BLE HCI transport first)

This directory holds TLA+ specifications of parts of the code under `src/`.
It also holds the TLC configurations that check them. `PROJECT.json` lists
the following:

- every component, and whether it is modelled;
- every run, with the definitions it checks;
- the fault variants ("mutants") that each property must catch;
- the source lines each definition translates;
- the findings;
- the hazards of the code.

## 1. The system and its parts

| Part | Source | State | Concurrency |
|---|---|---|---|
| HCI transport layer (TL) | `beken_os/.../ip/hci/src/hci_tl.c` | `hci_tl_env`: three TX queues (`tx_queue`, `acl_queue`, `sync_queue`), `curr_tx_msg`, `tx_state`, `nb_h2c_cmd_pkts` (int8), `acl_trash_payload`, advertising-report counters and chain states | kernel task plus a transport-completion callback; `GLOBAL_INT_DIS/RES` around queue updates |
| HCI message codec and descriptor tables | `.../hci/src/hci_msg.c` | constant tables; pack/unpack functions, some of them in place on the kernel message | none (called from TL in the kernel task) |
| HCI Host flow control (`hci_fc`) | not in `src/` (spec §4) | packets sent to the Host versus Host buffers | called from TL |
| OS queue | `tuyaos_adapter/src/tkl_queue.c` | bounded ring in an `rpa_queue` with one mutex and two condition variables | pthreads |
| OS semaphore | `tuyaos/.../system/tkl_semaphore.c` | pthread semaphore wrapper | pthreads |
| Utilities | `tuya_ringbuf.c`, `tuya_list.c`, `tuya_smartpointer.c`, `tuya_tools.c` | ring buffer, intrusive list, reference counts, pure functions | caller-locked |
| Adapters | `tkl_memory`, `tkl_system`, `tkl_rtc`, `tkl_ota`, `tkl_wired`, `tkl_output` | thin libc/OS wrappers | none |
| Wi-Fi adapter | `tkl_wifi.c`, `linux_wifi.c` (`wpa_cli_wrapper.c` has no callers) | `s_tkl_wifi` (`sta_conn_flag`, `apcfg`), the status thread's `stat`, `last_stat`, `last_state`; interface flags and modes; the `wpa_supplicant`, `udhcpc`, `hostapd` and `udhcpd` processes | the application thread and the status thread `wifi_status_event_cb` |
| BT adapter | `tkl_bt/src/hci.c`, `gatt.c` | `g_dd`, `hci_version`, `hci_task_enable`; the kernel's per-socket event queue and filter; GATT database | application threads and the `__hci_task` reader thread on one socket |

### How the HCI transport parts interact

Upper layers (LLM, LLC, DBG tasks) hand events and received data to
`hci_send_2_host`, which calls `hci_tl_send`.

- `hci_tl_send` puts the message on one of three queues:
  - ACL data goes to `acl_queue`;
  - SYNC data goes to `sync_queue`;
  - everything else goes to `tx_queue`. Advertising and IQ reports pass
    through `hci_ble_adv_report_filter_check` first, which may trash them.
- `hci_tl_send` then calls `hci_tx_trigger`.
- If `tx_state` is IDLE, `hci_tx_start` picks a message, in this order:
  1. the head of `tx_queue`;
  2. the SYNC head, if the Host has a free SYNC buffer;
  3. the ACL head, if the Host has a free ACL buffer.
- `hci_tx_start` builds the frame header in place and calls `h4tl_write`. A
  CC or CS event also returns one command credit, capped at `HCI_NB_CMD_PKTS`.
- When the write completes, the transport calls `hci_tx_done`. Under
  `GLOBAL_INT_DIS` it does the following:
  - decrements the report counters;
  - sets IDLE;
  - pops data queues and returns their RX buffers;
  - counts the packet for `hci_fc`;
  - pops `tx_queue` for events;
  - frees the message.

  After `GLOBAL_INT_RES` it calls `hci_tx_start` again.
- Commands from the Host arrive through `hci_cmd_received`. It takes one
  credit, then either dispatches the command to a task or rejects it. A
  rejection is a CC or CS queued with `hci_tl_send`.

### Hard behaviours

These are the behaviours of the code that make it hard to get right:

- **Code outside the critical sections.** Both `hci_tl_send` and
  `hci_tx_done` run their trailing trigger or start after `GLOBAL_INT_RES`.
- **Freeing by position.** `hci_tx_done` frees *the head* of `tx_queue`, not
  the message it sent.
- **A two-part decision for chained reports.** Whether a chained report is
  trashed depends both on the ceiling and on the status of its chain.
- **Command credits.** They go negative on overflow and come back only when a
  CC or CS is started.
- **Data gated by the Host.** Data queues are held back by Host buffers that
  are returned outside this layer.
- **Wi-Fi events from a poller.** The Wi-Fi adapter reports connection
  events from a thread that polls the station status and suppresses
  repeats with two locals that outlive the connection they describe.

The hazards listed in `PROJECT.json` give the lines where each of these bites.

## 2. Modules

### `HciTl.tla`: the HCI transmit path and command credits

The constants are:

| Constant | Meaning |
|---|---|
| `NbCmdPkts` | `HCI_NB_CMD_PKTS` |
| `MaxAdvRepFrag` | `BLE_MAX_NB_ADV_REP_FRAG` |
| `MaxIqRep` | `BLE_MAX_NB_IQ_REP` |
| `ScanPhys`, `SyncActs` | the keys of the chain states |
| `AclBufs`, `SyncBufs` | the RX buffers as model values |
| `HostAclPkts`, `HostSyncPkts` | the Host buffer counts |
| `MaxMsgs`, `MaxCmds`, `MaxChainLen` | bounds on the environment |
| `Preemptive` | whether `hci_tl_send` may also run at interrupt level |

The code state maps to variables as follows:

| Code | Variable |
|---|---|
| `tx_queue`, `acl_queue`, `sync_queue` | `txQ`, `aclQ`, `syncQ` |
| `curr_tx_msg` | `currTxMsg` |
| `tx_state` | `txState` |
| `nb_h2c_cmd_pkts` | `nbH2cCmdPkts` |
| `adv_rep_frag_cnt`, `iq_rep_cnt` | `advRepFragCnt`, `iqRepCnt` |
| the chain states | `chainStat` |
| the frame written to the transport | `wire` |
| the RX buffer pools | `freeBufs` |
| the `hci_fc` counters | `aclPktSent`, `syncPktSent` |

`pc` records, per context (`task`, `isr`), the trailing part of a handler
that still has to run: `"trigger"` or `"start"`.

Messages are records holding a uid, a kind, an LE subcode, a chain key, the
"more data" flag and a buffer. The frame builders are abstracted to the kind
of frame they write.

Actions:

| Action | Models |
|---|---|
| `TlSend` / `Enqueue` | `hci_tl_send` with `hci_ble_adv_report_filter_check` |
| `TriggerStep` | `hci_tx_trigger` |
| `StartStep` / `TxStart` / `TxPick` | `hci_tx_start` |
| `TxDone` / `TxDoneBody` | `hci_tx_done` including `hci_ble_adv_report_tx_check`. A NULL or freed `curr_tx_msg` is undefined behaviour and is modelled as a fault. |
| `CmdReceived` | `hci_cmd_received` with `hci_cmd_reject` |
| `Init` | `hci_tl_init(0)` |

These actions stand for callers outside `src/`:

- `SendEvent`, `SendReport`, `SendChainFragment` and `SendData` are the upper
  layers calling `hci_send_2_host`;
- `TaskReply` is a task answering a dispatched command;
- `HostCompleted` is the Host returning buffers. It goes through `hci_fc`,
  which is modelled from the spec.

`Finished` is the terminal state once the environment budgets are used up.
Deadlock is checked.

`MC_HciTl.tla` gives the sets of model values.

### `HciH2cData.tla`: data buffers from the Host

It models H2C data reception, the Host sending ACL or SYNC data to the
controller. The transport calls `hci_acl_tx_data_alloc` or
`hci_sync_tx_data_alloc` once it has read a data header. It reads the payload
into the buffer it gets back, then calls the matching `..._received` handler.

| Variable | Code |
|---|---|
| `acl_trash_payload` | `hci_tl_env.acl_trash_payload`, one flag for both classes |
| `poolFree` | free buffers of the BLE ACL TX pool and the BT SYNC TX pool |
| `rx` | the buffer between alloc and received |
| `linkHeld` | pool buffers passed on to LLC / LC |
| `heapLive` | `kernel_malloc` trash buffers not yet freed |
| `ovflwEvts` | Data Buffer Overflow events sent |
| `fault` | `kernel_free` of a pool buffer, or a heap buffer passed on |

Actions:

- `HciAclTxDataAlloc` takes a pool buffer. When the pool is empty, it sends
  an overflow event, takes a heap buffer and sets the flag.
- `HciSyncTxDataAlloc` does the same for SYNC. Its link test is
  `SyncLinkActive`. For a handle out of range, that test reads
  `bt_acl_con_tab` out of bounds, so the result is a nondeterministic
  boolean.
- `HciAclTxDataReceived` and `HciSyncTxDataReceived` are both
  `DataReceived`. It frees the buffer and clears the flag when the flag is
  set. Otherwise it passes the buffer on.
- `LinkRelease` is a link layer giving a buffer back to its pool.
- `TransportAbort` is only in `SpecAbort`. It is a transport that abandons a
  packet between alloc and received.

### `HciHostCs.tla`: routing controller packets in the host-only build

This build has `BLE_HOST_PRESENT && !BLE_EMB_PRESENT`. Payloads are byte
sequences built from four HL_CTRL descriptor rows of `hci_msg.c`:

- `HCI_Disconnect` and `LE_Connection_Update` are answered by a CS;
- `Read_RSSI` and `LE_Read_PHY` are answered by a CC.

`Pack` is a `RECURSIVE` operator over a format.

| Variable | Code |
|---|---|
| `code` | `hci_env.ble_acl_con_tab[i].code` |
| `wire` | commands the controller has not answered yet, in order |
| `routed` | answers given to a GAPC instance (`to`), or to none (255) |

Actions:

- `HciBuildCmd(c, op)` is `hci_build_cmd` for a message of GAPC `c`. For a
  CS-answered HL_CTRL command, it runs `hci_look_for_conhdl` on the packed
  parameters and stores the opcode in slot `c`.
- `HciCsEvtReceived` is the CS case of `hci_evt_received`. It passes the
  opcode to `hci_search_cs_index` as a `uint8_t`. That function takes the
  lowest slot holding the opcode and clears it.
- `HciCcEvtReceived` is the CC case. It routes by the handle that
  `hci_look_for_conhdl` reads past the 3-byte header.
- `HciEvtReceived(e, h)` is the LE-meta and default case. The controller
  sends event `e` about handle `h` at any time. `EvtDesc` holds seven
  rows of `hci_evt_desc_tab` and `hci_evt_le_desc_tab`: Disconnection
  Complete (HL_CTRL), Number Of Completed Packets (HL_DATA), Data Buffer
  Overflow (HL_MNG), LE Connection Update Complete (HL_CTRL), LE Scan
  Timeout (HL_MNG), LE Connection IQ Report (HL_CTRL, special packer), and
  a code with no row. `LookForEvtDesc` finds the row by code or by the LE
  subcode at `payload[0]`. `EvtDest` picks GAPM, the GAPC or L2CC
  instance of the handle's link, or, for a handle with no link, the task
  numbered `HL_MNG` (`dest = HL_MNG`, line 2222).
- For the IQ report, the code passes the unpack function's address as the
  format. `CodeBytes` stands for the code bytes the build may put there: an
  `'H'` after 0 to 3 other bytes, or a NUL first.
- `HciAclRxDataAlloc(h)` and `HciAclRxDataReceived` are the two calls the
  transport makes for an ACL packet. The second sends `HCI_ACL_DATA` to
  L2CC of the handle's link. For a handle with no link it only asserts, and
  the payload is neither sent nor freed.

The delivered events and ACL packets are the set `evts`.

### `TklQueue.tla`: the pthread message queue

This covers `tkl_queue.c`: `tkl_queue_post` and `tkl_queue_fetch` over
`rpa_queue`.

| Variable | Code |
|---|---|
| `data`, `in`, `out`, `nelts` | the ring |
| `full_waiters`, `empty_waiters` | the counters |
| `pc` | per thread: idle, blocked in a cond wait, or woken and waiting for the mutex |
| `hold` | the buffer a blocked poster will push |
| `live` | malloc'd copies not yet freed |

A critical section is one step. A woken thread needs its own step (`Wake`)
to get the mutex back, so other threads can run in between.

- `Spurious` is a wake-up without a signal.
- `TimedOut` is `ETIMEDOUT`.
- `SetTimeout` and `Carry` translate `set_timeout`. Its result decides
  whether a timed wait starts or fails with `EINVAL`.

### `TklQueueFifo.tla`: the queue's contract, and the refinement

`TklQueueFifo` says what `tkl_queue_post` and `tkl_queue_fetch` promise a
caller, without the ring, the mutex or the condition variables. Its state
is `q`, the sequence of unfetched messages, `taken`, the messages fetched in
order, and `ret`, what each thread's last call returned. It has four
actions:

- `Put` appends a message while `Len(q) < Capacity` and returns `OPRT_OK`;
- `Get` moves the head to `taken` and returns `OPRT_OK`;
- `Fail` and `Wait` set a thread's result and leave the queue alone.

Its `Spec` has weak fairness on `Get`.

`TklQueue` instantiates it with `q <- Ring` (the ring read from `out` for
`nelts` slots), `taken <- got`, and `ret` unchanged. `FifoRefined ==
Fifo!Spec` is a property of the `tkl_queue` run, so every step of the
detailed model is checked to be a contract step or a stutter. This is
what catches a woken thread that reports `OPRT_OK` without having moved a
message, which the ring invariants cannot see.

### `TklBtHci.tla`: the Linux HCI socket of the BT adapter

This covers `tkl_bt/src/hci.c`. The application's `hci_dev_*` calls share one
raw HCI socket `g_dd`, opened on first use. While `hci_version` is 0xFF, the
versioned functions (scan, advertising, connection) first probe the
controller's version with `__hci_send_req`, and the result picks the legacy
or the extended LE command. `__hci_task` reads the same socket once the probe
has set `hci_task_enable`. It passes disconnections, the READ_RSSI complete
and LE connection and advertising reports to the GAP callback.

| Variable | Code |
|---|---|
| `g_dd`, `hci_version`, `hci_task_enable` | the globals |
| `sopen`, `sq`, `sflt` | sockets, with the kernel's receive queue and filter of each |
| `devUp`, `ctrl` | the device state, and the commands the controller has not answered |
| `pc`, `op`, `phase`, `fd`, `of`, `try` | per thread: position in the call, `dd`, the saved filter, the reads left |
| `sent`, `gapIds`, `enabledIds`, `delivered` | history: commands written, GAP events sent, and those the callback got |

- `Call` is the start of an API function, with its `hci_version == 0xFF`
  test. `OpenChk` and `Open` are the lazy open.
- `ReqStart`, `ReqPoll`, `ReqRead`, `ReqFail` and `ReqDone` are
  `__hci_send_req`. `ReqDone` also includes the rest of
  `__hci_dev_read_local_version`. `ReqPoll` includes the poll timeout
  (`ETIMEDOUT`): the 1000 ms `to` loses 10 ms per try and never reaches 0,
  so every try can time out while the queue is empty. The model lets it
  happen at any such point, also just before the answer arrives; the late
  answer is then queued on the socket under the restored filter.
- `SendCmd` is `__hci_send_cmd` of the chosen command. `IoctlUp` is
  `hci_dev_up`; when it initialises the device, it queues the kernel's
  command completes (`KernelInit`). `IoctlDown` is `hci_dev_down`: the
  device goes down and commands the controller has not answered are never
  answered, so a probe running on another thread can only time out. The
  `TKL_BLE_EVT_STACK_INIT`/`DEINIT` callbacks these two make on the caller's
  thread are left out, as is the kernel's stack-internal event, which no
  handler of `event_table` takes.
- `TaskRead` is one loop of `__hci_task`. `CtrlAnswer`, `CtrlEvent` and
  `CtrlAdvBurst` are the controller.
- A filter is abstracted to its opcode, and `Passes` is the kernel's test.
  Events other than CC and CS are told apart only by their kind.

### `TklWifi.tla`: the Wi-Fi adapter's station, AP and status thread

This covers `tkl_wifi/tkl_wifi.c` over `tkl_wifi/linux_wifi.c`. The
application calls `tkl_wifi_station_connect`, `tkl_wifi_station_disconnect`,
`tkl_wifi_set_work_mode`, `tkl_wifi_start_ap` and `tkl_wifi_stop_ap`. The
thread that `tkl_wifi_init` creates polls `tkl_wifi_station_get_status`
while `sta_conn_flag` is set, and passes `WFE_CONNECTED` or
`WFE_CONNECT_FAILED` to the application's callback unless the event repeats.

| Constant | Meaning |
|---|---|
| `StaIf`, `ApIf` | `WLAN_DEV` and `WLAN_AP` (model values) |
| `WorkModes` | the `WF_WK_MD_E` values the application passes |
| `Failures` | whether file writes, `popen` and `wpa_supplicant` requests may fail |
| `MaxIwErrors`, `MaxCalls`, `MaxDrops` | bounds on failed reads, API calls and link losses |

| Variable | Code |
|---|---|
| `sta_conn_flag`, `apcfg` | the fields of `s_tkl_wifi` |
| `tpc`, `stat`, `last_stat`, `last_state` | the status thread: position in its loop and its locals |
| `pc` | the application thread: between the flag assignment and the rest of a connect or disconnect |
| `mode`, `up` | `SIOCGIWMODE` and `IFF_UP` of each interface |
| `wpa`, `sel`, `udhcpc`, `hostapd`, `udhcpd` | the processes, and whether `wpa_supplicant` has the network selected |
| `assoc`, `ip` | the station link: associated (valid BSSID, ESSID on) and addressed |
| `lastEvt`, `reported` | history: the last event given to the callback, and whether `WFE_CONNECTED` came since the last successful connect |

- `StationConnectCall` and `StationDisconnectCall` are the flag assignments.
  `StationConnect` and `StationDisconnect` are the rest of the calls:
  `wifi_station_connect` (with `StartWpa` and `StartUdhcpc`) and
  `wifi_disconnect` (`WifiDisconnect`) with the interface toggle. They are
  separate steps because the status thread can run between them.
  `wifi_disconnect` kills udhcpc with `killall -9`, so no lease is released
  and no deconfig script runs. Clearing `IFF_UP` keeps an IPv4 address, and
  `wifi_get_ip` (`SIOCGIFADDR`) still reads it. `ip` is therefore cleared
  only by the next udhcpc (`StartUdhcpc`, which deconfigures on start) or by
  the loss of the lease (`Drop`).
- `SetWorkMode` is `tkl_wifi_set_work_mode`, through `NewIfaces`,
  `WifiEnable` and `WifiSetMode`. Each of the up to three ioctls of a mode
  succeeds or fails on its own (`ok`). Soft-AP mode can, for instance, take
  the AP interface down and then fail to bring it up again. The results are
  only logged, so the call returns `OPRT_OK` whatever was applied.
- `StartAp` is `tkl_wifi_start_ap` with `WifiApStart`, and `StopAp` is
  `tkl_wifi_stop_ap`.
- `ThreadCheck` is the `sta_conn_flag` test. `ThreadPoll` is the rest of one
  loop: `GetStatus` (with `BssidValid` and `EssidOn`), the event choice, and
  `Deliver`. A failed mode read gives any mode (the variable is
  uninitialised), and a failed ESSID read leaves `stat` as it was.
- `Associate`, `Dhcp` and `Drop` are `wpa_supplicant`, the access point and
  the DHCP server. They get no fairness, because the access point may be
  absent.

### `HciCodec.tla`: the parameter codec, controller and Host halves

This covers the part of `hci_msg.c` the controller build (`BLE_EMB_PRESENT`)
runs on every report event with a special packer (advertising, directed
and extended advertising, connectionless and connection IQ) and on every
command with a special unpacker (Host Number Of Completed Packets, LE Set
Extended Advertising Enable, LE Set Extended Scan Parameters, LE Extended
Create Connection), with their callers in `hci_tl.c`. It is a pure algorithm
model: `msg` is the message handed to the codec and `result` what comes
out; `NextMsg` readies the codec for the next call. The codec keeps
nothing between calls and every message is an initial state, so `NextMsg`
keeps the message: any other would start from a state `Init` already has.

- Memory is a function from byte offsets to values. Every byte that a
  property compares carries a distinct value (100 plus its offset in a
  report structure or in a command payload), so a byte
  copied from the wrong place shows. A fresh kernel message holds `Junk`.
- The kernel structures are not in the repository. Their layout is the
  natural C layout of the fields (each `Field` carries its offset,
  with `AlignUp` where a 16-bit field needs padding) in the order
  the packers visit them (`RepHdrFields`, `AdvRepFields`, `DirAdvRepFields`,
  `ExtAdvRepFields`, `ConlessIqHdrFields`, `ConIqHdrFields`,
  `IqSampleFields`, `ExtScanHdrFields`, `ExtScanPhyFields`,
  `ExtConHdrFields`, `ExtConPhyFields`; 16-bit fields are 2-aligned).
  `EvtHdr`/`EvtGroup` and `CmdHdr`/`CmdGroup` give each packer's header
  and its repeated entry; the command side places each field at its
  offset in the structure (`Place`), including the parallel arrays of the
  two commands that have them (`ConHdlOff`, `NbCompPktOff`, `AdvEnDurOff`,
  `AdvEnMaxEvtOff`).
- `PackBytes` is `hci_pack_bytes`, including its copy after an output
  overflow; `CopyBytes` is its `memcpy`, one byte after the other from the
  first.
- `LeReportPkupk`, `PackHdr`, `PackReports`, `PackFields` and `FieldLen`
  are the three advertising report packers called in place (`pkupk(param,
  param, &par_len, par_len)`). The loop bound `s->nb_reports` and each
  `data_len` are read back from the buffer being compacted, as the code
  does. `LeIqReportPkupk` and `PackSamples` are the two IQ packers, which
  copy `sample_cnt` to a local before packing it, as the code does
  (`iq_sample[0].q` is written over it). `LeEvtPkupk` is the packer the
  descriptor points to.
- `BuildLeEvt` is `hci_build_le_evt`: `LookForLeEvtDesc` over
  `LeEvtDescTab`, the packer, and the two header bytes (`par_len` cut to one
  byte). A missing descriptor or a failed pack leaves the header unwritten
  (`Junk`).
- `CmdUpk`, `PackPlaces`, `UpkGroups` and `LoopOn` are the four command
  unpackers. Each writes a header, then its entries while its loop
  condition holds: `hci_host_nb_cmp_pkts_cmd_pkupk` reads the count from
  the input and stops once `p_out` has passed the structure,
  `hci_le_set_ext_adv_en_cmd_upk` re-reads `cmd->nb_sets`, and the two PHY
  commands count the bits of the PHY mask once (`PopCount`). In the size
  pass (`out = NULL`) the three extended commands unpack their header into
  a local `temp_out` and then clear `p_out_end`; the completed-packets one
  has `p_out_end = NULL` from the start. `*out_len` is the end of the last
  field written.
- The controller build with `BT_EMB_PRESENT` adds three unpackers.
  `hci_wr_stored_lk_cmd_upk` (`LinkKeyOff`) and
  `hci_wr_curr_iac_lap_cmd_upk` (`IacLapOff`) loop `i < *in` over their
  entries. In the size pass they have `p_out_end = NULL`, as the
  completed-packets one does (`NullOutCmds`).
- `SetEvtFilterUpk` is `hci_set_evt_filter_cmd_upk`. It unpacks
  `filter_type` (`FilterTypeUpk`); for an inquiry or connection filter it
  unpacks `cond_type` (`FilterCondUpk`), then the fields of that condition
  (`FilterCondTab`, `EvtFilterCondFields`). Each switch reads its type back
  from the structure it is filling. In the size pass this structure is the
  local `temp_out`, bounded by its size and never cleared. An undefined type
  ends the unpack after the type byte.
- `DbgCmds` is `hci_dbg_iqgen_cfg_cmd_upk` (build `BLE_IQ_GEN`). Its
  count `nb_antenna` is the first header field, not the last (`CountIdx`).
  The loop re-reads it from the structure, as `LE_SET_EXT_ADV_EN` does
  with `nb_sets`. In the size pass the header goes into `temp_out` and the
  entries are packed with a NULL end (`copy_data`). Its OCF is in `hci.h`,
  which the repository lacks, so `DBG_IQGEN_CFG_OCF` is only a distinct
  value.
- `MwsCmds` are the three `RW_MWS_COEX` unpackers
  (`hci_set_external_frame_config_cmd_upk`,
  `hci_set_mws_scan_freq_table_upk`, `hci_set_mws_pattern_config_upk`).
  They have the same shape: a header ending with the count, re-read from
  the structure by the loop, and entries packed with a NULL end in the
  size pass. Their entries pair a 16-bit field with an 8- or 16-bit one
  (4 bytes with padding).
- `Layout` tabulates each command's header, entries and `sizeof` once.
  `UpkArrays`, `UpkDone`, `CmdUnpackBoth` and `CmdSent` take the result of
  one step as a parameter instead of naming it in a `LET`. The coverage
  pass of TLC expands every reference to a `LET` definition separately,
  so this keeps the run within its memory.
- `LookForCmdDesc` over `CmdDescTab` is `hci_look_for_cmd_desc` (OGF, then
  the first row with the OCF); `MaxParamSize` is
  `hci_cmd_get_max_param_size`, the longest parameters the transport lets
  through. `CmdReceived` is the parameter part of `hci_cmd_received`: the
  size pass, the rejection on input overflow, the allocation (which may
  fail) and the unpack into a message of exactly the size pass's length.
- The Host build (`#elif BLE_HOST_PRESENT`) of the same command packers
  writes the HCI encoding from the kernel structure. Each packer copies the
  structure into a local `cmd` (`LocalAt`; an entry past the local's
  arrays reads `Junk`). It then writes the header and the fields of entries
  `0 .. n-1`, entry by entry (`HostCount`, `HostFields`). It sets
  `*out_len` by its own formula, 3+5n, 10+16n or 2+4n (`HostOutLen`).
  `HostCmdPk` is the whole packer. The Host completed-packets packer only
  returns `sizeof(struct hci_host_nb_cmp_pkts_cmd)` as its status
  (`HostNbCmpPktsPk`).
- `HostBuildCmd` is the Host's `hci_build_cmd`. It runs the packer in place
  over the kernel parameters, keeps the structure's own bytes past what the
  packer wrote, and puts the low byte of `par_len` in front. A status other
  than OK gives the `null` result, the NULL frame. `HciCmdTransport` is the
  `HCI_COMMAND` case of `hci_tx_start`: it sends `par_len` bytes, and the
  controller's `hci_cmd_received` gets them. The command keeps the Host
  structure it came from (`from`), so `CmdRoundTrip` can compare the two
  halves. The two halves are compiled in exclusive builds, so no single
  build of the code can test them against each other.
- A refused command (`reject`) carries the kernel message that
  `hci_cmd_reject` queues (`CmdReject`, `Rejected`). A row with a return
  format gets a Command Complete as long as `common_util_unpack` sizes that
  format, one byte per `B`. Only its status is written; the other bytes are
  whatever the heap held (`HeapBytes`, two representative values). Write
  Stored Link Key's `BB` reply thus sends an uninitialised
  `num_keys_written`. LE Extended Create Connection has no return format
  and gets a Command Status. `TxCmdReply` is the CC/CS case of
  `hci_tx_start`. It first returns the credit (`nb_h2c_cmd_pkts` below
  `HCI_NB_CMD_PKTS` is incremented), then builds the frame
  (`CcEvtFrame`, `CsEvtFrame`), then sends `HCI_EVT_HDR_LEN` plus the
  frame's length byte. The credit before the step is taken from
  `NbH2cCmdPkts`: -2 (the Host overran its credit), 0, or
  `HCI_NB_CMD_PKTS - 1`. A reply being sent always holds one credit, so
  `HCI_NB_CMD_PKTS` itself is not a reachable value. The event codes, length
  constants and status codes come from the HCI specification, because
  `hci.h` and `co_error.h` are not in the repository.

### Planned modules, in order

1. **`HciCmdRx`: command reception.** It covers descriptor lookup and routing
   by connection handle or BD address. It also covers the rejection
   formats: the NULL-payload echo and the missing reply when a special
   return packer fails. It will check a Host that sends on the advertised
   credit.
2. **`HciH2cData`: the H2C data-buffer protocol.** Done. The host-side
   mirrors (`hci_acl_rx_data_alloc/received`) remain.
3. **`HciTxQueue`: an abstract specification of the transmit path.** Its
   state is one FIFO of admitted messages per class and one delivered
   sequence. `HciTl` will be shown to implement it with `INSTANCE ... WITH`
   under `Preemptive = FALSE`.
4. **`HciCodec`: the codec.** Done for `hci_pack_bytes`, the five special
   LE report packers and the four special command unpackers, whose Host
   packers are composed with them, and the three BT_EMB_PRESENT unpackers
   (event filter, stored link keys, IAC LAPs) and the IQ generator
   configuration, and the three MWS coexistence unpackers. The MWS
   transport-layer and debug assert event packers remain.
5. **`HciHostCs`: host-side routing.** Done for CC, CS, plain and LE
   events routed by handle, and ACL receive. The unpack through
   `common_util_unpack`, which is not in the tree, remains.
6. **`TklQueue`: the pthread queue.** Done, with its FIFO contract
   (`TklQueueFifo`) checked by refinement, except `tkl_queue_free` and the
   allocation failures of create.
7. **`TuyaRingbuf` and `TuyaSmartpointer`.** Wrap-around arithmetic, and the
   reference-count lifecycle.
8. **`TklBtHci`: the BT adapter's HCI socket.** Done for one application
   thread. Remaining: a two-thread configuration for the filter and lazy-open
   races (it needs a smaller controller), read errors with the unsigned
   `len` of `__hci_task`, and `gatt.c`.

## 3. Runs

The `hci_tl_*` runs use `MC_HciTl`. Their bounds are as follows:

- **Message bounds.** At most 3 upper-layer messages, and 1–2 Host commands.
- **Keys.** One scan PHY and one periodic-sync activity.
- **Buffers.** One BLE RX buffer and one SYNC buffer.
- **Host.** The Host buffers one packet of each class.
- **Ceilings.** `HCI_NB_CMD_PKTS = 1` and both report ceilings 1.

With ceilings of 1, the second pending report already meets the filter. A
credit of 1 makes the second command go below zero and be rejected. One Host
buffer makes the data queues wait for `HostCompleted`. Chains of two
fragments exercise VALID, FILTERED and NO.

| Run | Cfg | Expect | What it shows |
|---|---|---|---|
| `hci_tl` | `HciTl.cfg` | pass | With every caller in the kernel task, the path stays correct, every queued event is sent (`EventDelivered`), and every Host command receives a CC or CS (`CommandAnswered`). The safety properties are listed below the table. |
| `hci_tl_preempt` | `HciTlPreempt.cfg` | violation | An interrupt-level `hci_tl_send` between `GLOBAL_INT_RES` and `hci_tx_start` writes the head message twice. |

The safety properties of `hci_tl` are:

- `SingleFlight`: one frame is in flight, and exactly while ONGOING.
- `BufferOwnership`: each RX buffer is owned once, and no message is freed
  twice.
- `AdvCountersMatchQueue`: the report counters equal the pending reports.
- `ChainAllOrNothing`: a chained report is delivered whole or not at all.
- `CreditAccounting`: the credit equals `HCI_NB_CMD_PKTS` minus the unstarted
  replies.
- `FreesWhatWasSent`: a completion frees exactly the sent message.

Every property of a passing run has a fault variant in `HciTl.tla`, named
`...NoIq`, `...Always` and so on, defined just before the definition it
replaces. TLC finds the property violated when that variant is substituted.

The `h2c_data*` runs use `MC_HciH2cData`, with 5 packets and one buffer in
each pool. With one buffer per pool, the second packet of a class already
takes the heap path. Two in-range SYNC handles are used, one of them with an
active link. Out-of-range handles are left out: the read past
`bt_acl_con_tab` they cause is undefined (see the hazards).

The `host_cs*` runs use `MC_HciHostCs`, with links 0 and 1 and at most 3
commands. A second command on a link, or the same command on both links,
already occurs within 2 commands. The `host_cs` run adds one controller
packet (`MaxEvts = 1`): any of the seven event rows, or ACL data, about
handle 0, 1 or the closed handle 2, at any point between the commands.
One is enough because the routing of an event reads only the event and the
constant link table, never an earlier event. A second packet multiplied
the states by 25 and added no case.

The `tkl_bt_hci` run uses `MC_TklBtHci`: one application thread making 3
calls from `hci_dev_up`, `hci_dev_down`, `hci_dev_set_scan_enable`
(versioned) and `hci_dev_read_rssi` (plain), against a controller reporting version 0x08. The
device may start up or down. The kernel's initialisation queues 5 command
completes, the controller sends one event of its own and one burst of 10
advertising reports, and `__hci_open_dev` creates at most one socket. A burst
of 10 is exactly enough to use up the probe's 10 reads. One thread is the
most TLC finishes within the run's time; the filter race between two threads
is listed as a hazard.

The `tkl_queue*` runs use `MC_TklQueue`: one poster, two fetching threads
and 3 posts. The pass run has a ring of 2 slots, every wait kind and
spurious wake-ups. It takes the clock's millisecond part from {0, 500} and
a 500 ms timeout, so both outcomes of `set_timeout` occur. A third post
fills the ring and makes the poster wait. Two consumers are the fewest that
can take each other's message.

The `tkl_wifi*` runs use `MC_TklWifi`: two interfaces, every work mode, all
failures enabled, one failed status read, 4 API calls and one link loss.
Four calls are enough for connect, disconnect and connect again, or a connect
after an AP start. The runs do not check deadlock: the program loops for
ever, and only the bounds on calls and drops end the model.

The `hci_codec` run gives `HciCodec` six-byte addresses (`BD_ADDR_LEN`),
two-byte advertising data, two reports or IQ samples per structure, two
handles and two advertising sets per command, and the real `MAX_SCAN_PHYS`
(2) and `MAX_INIT_PHYS` (3). The BT commands get two link keys of two
bytes (`KeyLen`; the code's 16 only lengthens one `memcpy`) and two IAC
LAPs (`MaxKeys`, `MaxIac`); the IQ generator gets two antennas
(`MaxAntennas`), and the MWS commands two periods, scan frequencies and
intervals (`MaxPeriods`, `MaxScanFreqs`, `MaxIntervals`). Each command's payload has a count from 0 to one
larger than its arrays, or a PHY mask of 0 to 4 bits. Set Event Filter's
payload has each filter type and condition type from 0 to 3, so the
undefined ones are included. Every length runs from 0 to
`par_size_max` (`LenMax`), capped at one byte past the longest encoding
these counts need, since the unpackers never read further. Two reports are the fewest in
which a later report is read after an earlier one was moved over it, and
data of 2 bytes already makes the second report's data overlap its own
old place; the IQ structures with one sample already have `sample_cnt`
overwritten. The 937 controller messages and the 18 Host structures (the same counts
and PHY masks, on the Host side) are all the inputs within these bounds.
`NbCmdPkts = 2` makes the three credit values distinct. At -2 the clamp
to 0 is needed, at 0 the increment gives exactly 1, and at 1 the increment
reaches `HCI_NB_CMD_PKTS`.

| Run | Cfg | Expect | What it shows |
|---|---|---|---|
| `h2c_data` | `HciH2cData.cfg` | pass | The checks are `TrashMarksHeap`, `BuffersAccounted`, `SyncOnlyOnActiveLink` and the liveness property `PoolBuffersReturn`. They hold for a transport that finishes every packet. |
| `h2c_data_abort` | `HciH2cDataAbort.cfg` | violation | After an abandoned trash packet, the next pooled packet is taken for trash. |
| `host_cs` | `HciHostCs.cfg` | pass | A CC always reaches its sender (`CcRoutedToIssuer`). No link gets more CS events for an opcode than it sent (`CsNotDuplicated`). Every event and ACL packet with a generic format reaches the GAPC or L2CC of the link its handle names, GAPM, or the manager fallback, with the right message id (`EvtRoutedByHandle`). The IQ report is left out of this property (see "IQ report misrouted" under Findings). |
| `host_cs_correlation` | `HciHostCsCorrelation.cfg` | violation | Links send the two CS-answered commands. Each of the next two findings is within 2 commands. TLC reports the first one. |
| `tkl_queue` | `TklQueue.cfg` | pass | The ring stays a FIFO of exactly the unfetched messages (`RingHoldsPostedInOrder`). No consumer sleeps beside a message meant for it (`NoStrandedConsumer`). Every message posted is fetched (`PostedFetched`). The model refines the FIFO contract of `TklQueueFifo`, fairness included (`FifoRefined`). |
| `tkl_queue_forever_fail` | `TklQueueForeverFail.cfg` | violation | A wait-forever fetch returns failure. |
| `tkl_bt_hci` | `TklBtHci.cfg` | pass | A socket carries `__hci_send_req`'s request filter only while a request runs on it (`ReqFilterScoped`). Every GAP event the controller sends after `hci_task_enable` is set reaches the GAP callback (`EnabledEventsDelivered`). |
| `tkl_wifi` | `TklWifi.cfg` | pass | The last event the callback got catches up with a station link that stays up (`WFE_CONNECTED`) or stays down (`WFE_CONNECT_FAILED`), through failed and stale reads (`EventConverges`). |
| `tkl_wifi_reconnect` | `TklWifiReconnect.cfg` | violation | A second successful connect whose link is up at the next poll never gets `WFE_CONNECTED`. |
| `hci_codec` | `HciCodec.cfg` | pass | Every report event packed in place is sent as its HCI encoding with the right length byte (`LeEvtWire`). A command with a special unpacker whose count fits its structure is refused as invalid only when it is short, and is otherwise handed to the link layer with exactly the host's fields, each in its place (`CmdUnpacked`). For Set Event Filter these are the fields of the filter and condition types the payload names. A command the Host build packs from a structure whose count fits reaches the controller's link layer with every field as the Host had it, unless the allocation fails (`CmdRoundTrip`). Whatever count the Host claims, also one entry beyond the structure's arrays, a command sent to the link layer was unpacked with `COMMON_UTIL_PACK_OK`: the second pass of a special unpacker stays inside the message the first pass sized (`SizePassBoundsUnpack`). A refused command is answered by a Command Complete exactly when its row has a return format, and by a Command Status otherwise. The reply has a length byte that counts what is sent, the refused opcode and the refusal's status. Its credit lies in `0 .. HCI_NB_CMD_PKTS` even when the count is negative (`RejectReplyWire`). |

Every property of a passing run has a fault variant in its module,
defined just before the definition it replaces.

### Findings

- **Double start (`hci_tl_preempt`).** The spec (§5) requires the tx_done
  body and its re-trigger to run with producers excluded. The code leaves
  both the tx_state test of `hci_tx_trigger` and the trailing `hci_tx_start`
  outside `GLOBAL_INT_DIS`. If any producer calls `hci_tl_send` from an
  interrupt, two frames of the same message are written. The second
  `hci_tx_done` then frees a freed message.
- **Ceiling exceeded (hazard, no run).** The filter tests the ceiling
  only for a chain in status NO, so continuation fragments of a VALID chain
  are always queued. This keeps chains whole, which is what
  `ChainAllOrNothing` checks, and what spec §4.5 asks for. It also means the
  counter is not a bound on pending fragments.
- **Data stall (hazard, no run).** `hci_tx_trigger` is static, so only
  `hci_tl_send` and `hci_tx_done` restart transmission. When the Host frees
  buffers, data queued earlier waits for some unrelated event. The spec
  does not say what restarts a credit-gated data queue.

- **Shared trash flag (`h2c_data_abort`).** The spec (§5) describes one
  flag per class, cleared before traffic is pool-backed again. The code has
  one flag for ACL and SYNC, and only the received handlers clear it. A
  packet abandoned after a heap allocation leaves the flag set. The next
  pooled packet is then handed to `kernel_free`, and its pool buffer is lost.
- **SYNC range test never true (hazard, no run).** The test reads
  `(conhdl < MIN) && (conhdl > MAX)`, so it never rejects anything, and
  `bt_acl_con_tab` is indexed out of bounds.
- **CS misrouted (`host_cs_correlation`).** `hci_search_cs_index` takes the
  lowest slot holding the opcode, not the link that sent the command. Two
  links with the same command outstanding get each other's status. The spec
  (§4.4) says the CS is correlated back to the sending connection.
- **CS dropped (`host_cs_correlation`).** There is one slot per link. A second
  CS-answered command on a link overwrites the first, so the first CS finds
  no slot and only asserts, and GAPC never gets it.
- **IQ report misrouted (hazard, no run).** The LE Connection IQ Report row
  is HL_CTRL with a special unpacker, so `hci_evt_received` hands
  `hci_look_for_conhdl` the unpacker's address as the format and it scans
  machine code for `'H'`. In the model, a report about link 0 goes to the
  `HL_MNG` fallback when a NUL comes first, and to GAPC 1 when the `'H'` is
  the fourth byte (it reads `rx_phy` and `data_chan_idx` as the handle).
  TLC finds both as soon as `EvtRoutedByHandle` includes the row. Every run
  slot is taken, so no violation run states it.
- **ACL payload not freed (noted, no run).** `hci_acl_rx_data_received`
  only asserts for a handle with no link. The buffer
  `hci_acl_rx_data_alloc` took from the heap is neither sent nor freed, so
  every ACL packet that races a disconnection loses a buffer.
  `HciAclRxDataReceived` models this branch, but the host model keeps no
  heap count.

- **Wait-forever fetch fails (`tkl_queue_forever_fail`).** A woken
  consumer can find that another consumer took the message first.
  `rpa_queue_timedpop` then returns false instead of waiting again, though
  its comment says it keeps waiting. A spurious wake-up has the same effect.
- **`set_timeout` (hazard, no run).** It carries while `ms > 1000`, so
  a sum of exactly 1000 gives `tv_nsec = 10^9`, and
  `pthread_cond_timedwait` returns `EINVAL`. `SetTimeout` models it and the
  `tkl_queue` run reaches the failure.
- **Extended commands to a 4.2 controller (hazard, no run).** The
  versioned functions ignore the result of the version probe. If it fails,
  `hci_version` stays 0xFF, which is above 0x08, so the extended LE command
  is sent. The probe fails when the socket cannot be opened, when the
  device is still down, when a poll times out (also because `hci_dev_down`
  dropped the request), and when ten queued events, for example the
  reports of a controller left scanning, use up its reads. The
  `tkl_bt_hci` run reaches the failed probe; the test itself is plain on
  reading.
- **Leaked copy (no run).** `tkl_queue_post` leaks its malloc'd copy on every
  failed push.
- **Reconnect not reported (`tkl_wifi_reconnect`).** `wifi_status_event_cb`
  sends `WFE_CONNECTED` only when the status differs from `last_stat` or the
  event from `last_state`. Neither connect nor disconnect resets them. A
  new connection that is up at the thread's next poll finds `GOT_IP` and
  `CONNECTED` already recorded, and the callback never hears of it. In
  TLC's trace, a connect is reported and the access point then drops the
  link while the address stays. The next connect re-associates before the
  thread polls, and that poll finds `GOT_IP` again.
- **AP start with no address (hazard, no run).** `tkl_wifi_start_ap` puts
  the default address into `tmp_cfg` but passes `cfg` to `wifi_ap_start`.
  `ip_prepare` then fails after `hostapd` was started, and `hostapd` keeps
  running without a DHCP server.
- **One entry too many (hazard, no run).** `hci_host_nb_cmp_pkts_cmd_pkupk`
  tests `(p_out - out) <= sizeof(...)` after writing a pair, and
  `hci_le_set_ext_adv_en_cmd_upk` and the PHY commands only assert their
  counts. A command that claims more entries than the arrays hold is
  unpacked one entry further: `con_hdl[MaxHdl]` lands on `nb_comp_pkt[0]`,
  `adv_hdl[MaxSets]` on `duration[0]`, and the link layer gets a count
  larger than its arrays. `HciCodec` reaches all three; the HCI
  specification bounds the counts by the controller's resources, so
  `CmdUnpacked` is stated within that bound.
- **Host completed-packets command not framed (hazard, no run).** In the
  Host build, `hci_host_nb_cmp_pkts_cmd_pkupk` returns
  `sizeof(struct hci_host_nb_cmp_pkts_cmd)` as its status
  (`hci_msg.c:771`). `hci_build_cmd` then returns NULL, and `hci_tx_start`
  reads the length at `*(NULL + 2)` (`hci_tl.c:1156`). `HostBuildCmd`
  reaches this: it is its `null` result. All twelve run slots are in use,
  so no violation run states it. A Host mask with more bits than `phy[]`
  has entries makes the Host packers read past their local copy.
- **In-place `memcpy` (hazard).** The report packers copy each field to a
  lower address of the same buffer, and a report's data can overlap its old
  place. `memcpy` on overlapping regions is undefined; `LeEvtWire` holds
  for a copy from the first byte up, and fails for one from the last byte
  down (its fault variant).

## 4. Fairness

The passing liveness run assumes weak fairness of the following actions:

- **`TxDone`:** the H4 transport completes every write;
- **`TriggerStep` and `StartStep`:** a handler that has started runs to its
  end;
- **`TaskReply`:** a task answers the command it was dispatched;
- **`HostCompleted`:** the Host returns the buffers it was sent.

No fairness is assumed for the producers, and none for `CmdReceived`.

`HciH2cData.Spec` assumes weak fairness of the two received handlers and of
`LinkRelease`:

- the transport finishes a payload once it has started it;
- LLC and LC free a buffer once it has been sent.

It assumes none for alloc, because the Host may stop sending.

`TklQueue.Spec` assumes weak fairness of the following:

- `Wake`: a woken thread gets the mutex back;
- `TimedOut`: a timed wait ends;
- starting a fetch: consumers are worker loops around `tkl_queue_fetch`.

Posting and spurious wake-ups get no fairness.

`TklQueueFifo.Spec` has weak fairness of `Get`: a message in the queue is
taken while consumers keep fetching. It is the same assumption as the
fetch loop above, seen from the caller's side. `FifoRefined` checks that
`TklQueue`'s fairness delivers it.

`TklBtHci.Spec` assumes weak fairness of each application thread's steps
once it has made a call, of `TaskRead` and of `CtrlAnswer`:

- a thread inside an `hci_dev_*` function runs it to its end;
- `__hci_task` spins in `while (1)` and reads whenever `hci_task_enable`
  is set and an event is queued;
- the controller answers every command it is written.

No fairness is assumed for the calls themselves or for the controller's own
events.

`TklWifi.Spec` assumes weak fairness of `ThreadCheck`, `ThreadPoll`,
`StationConnect` and `StationDisconnect`:

- the status thread runs `while (event_flag)`, and `event_flag` is never
  cleared;
- a connect or disconnect that has set the flag runs to its end.

The application's calls and the link (`Associate`, `Dhcp`, `Drop`) get no
fairness: the application may stop, and the access point may be absent.

`HciCodec` states safety properties only and assumes no fairness: each
message is one step of the kernel task.

## 5. Not modelled

- **Codec.** The generic packer `common_util_pack/unpack` is not in the
  repository, so only the special packers are modelled, and among them not
  two event packers. The debug assert packer packs fixed fields
  and then the file name up to its NUL (`strlen`), a C string the model
  does not represent. `hci_get_mws_transport_layer_config_cmd_cmp_evt_pk`
  walks a list of transports, each with its own list of baud rates, that a
  complete event carries. `CmdUnpacked` is about commands and has nothing
  to say about either. Their structures are variable-length lists of lists, and they
  are reached only by vendor or coexistence commands. The Host halves of the report
  event unpackers only `memcpy` the wire into the structure ("TODO unpack
  message as per compiler"). They give the right structure only when its
  layout has no padding, which the missing kernel headers would decide.
  The other descriptor tables, `hci_build_evt` and the remaining frame
  builders are not modelled. `hci_build_cc_evt` and `hci_build_cs_evt`
  are modelled only for the reply to a refused command.
- **`hci_fc`.** It is not in `src/`. Its counters are modelled from the spec.
- **Routing.** `hci_cmd_received`'s descriptor lookup and connection routing
  are abstracted to nondeterministic choices (`known`, `routable`); see
  `HciCmdRx` in the plan.
- **BT adapter.** `hci_dev_get_addr`, read errors and the failures of
  `hci_dev_up`'s ioctl other than `EALREADY` are not modelled, and
  neither is `len` of `__hci_task` (see the hazards). `gatt.c` is not
  modelled. It registers GATT services with BlueZ over D-Bus, which the spec
  leaves out of scope, and neither the D-Bus library nor BlueZ is in the
  repository. Its hazards are the mutex left locked on the not-found paths
  of `on_bt_iface_remove`, a `PropertiesChanged` match whose userdata is
  freed on device removal, and an unsynchronised characteristic value. Each
  would need a run of its own.
- **Pure I/O.** The memory, RTC, OTA, wired and output adapters are pure
  I/O wrappers around OS calls.
- **Wi-Fi.** Scanning, the sniffer and management-frame callbacks, the get
  and set of IP, MAC, channel and country, fast connect, and the text of the
  generated configuration files are not modelled; the event logic does not
  depend on them. `wpa_cli_wrapper.c` has no callers in the repository, and
  the `wifi_join_network` family it would serve is defined outside it.
- **Utilities.** The ring buffer, list and reference-count utilities are planned (§2).
