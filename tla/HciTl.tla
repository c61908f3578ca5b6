-------------------------------- MODULE HciTl --------------------------------
(***************************************************************************)
(* The transmit side of the HCI transport layer of the embedded BLE        *)
(* controller (hci_tl.c): the three TX queues, the single-flight transmit  *)
(* state machine (hci_tx_start / hci_tx_done / hci_tx_trigger), the        *)
(* advertising-report flow controller, the Host-command credit counter and *)
(* the return of ACL/SYNC receive buffers after transmission.              *)
(*                                                                         *)
(* Upper layers and hci_cmd_received are the producers of messages; the    *)
(* H4 transport is a FIFO of frames written with h4tl_write whose          *)
(* completion later calls hci_tx_done.  Message contents are abstracted to *)
(* the fields the transport layer looks at (kind, LE subcode, chain key,   *)
(* "more data" flag, data buffer).                                         *)
(*                                                                         *)
(* hci_tl_send and hci_tx_done each hold GLOBAL_INT_DIS only around their  *)
(* queue updates; hci_tx_trigger and hci_tx_start run after GLOBAL_INT_RES.*)
(* These trailing parts are separate steps of the calling context (pc), so *)
(* that with Preemptive = TRUE an interrupt-level hci_tl_send can run      *)
(* between them.  With Preemptive = FALSE every caller runs in the kernel  *)
(* task and a handler is never interrupted by another one.                 *)
(***************************************************************************)
EXTENDS Integers, Sequences, FiniteSets

CONSTANTS
    NbCmdPkts,      \* HCI_NB_CMD_PKTS
    MaxAdvRepFrag,  \* BLE_MAX_NB_ADV_REP_FRAG
    MaxIqRep,       \* BLE_MAX_NB_IQ_REP
    ScanPhys,       \* keys of adv_rep_chain_stat_1M / _coded
    SyncActs,       \* indexes of per_adv_rep_chain_stat (BLE_SYNCHDL_TO_ACTID)
    AclBufs,        \* BLE RX data buffers (ble_util_buf_rx_alloc/free)
    SyncBufs,       \* BT SYNC RX buffers; {} when VOICE_OVER_HCI is off
    HostAclPkts,    \* ACL packets the Host can buffer (hci_fc host_set)
    HostSyncPkts,   \* SYNC packets the Host can buffer
    MaxMsgs,        \* bound: messages produced by upper layers
    MaxCmds,        \* bound: commands received from the Host
    MaxChainLen,    \* bound: fragments of one chained report
    Preemptive      \* hci_tl_send may also be called at interrupt level

ChainKeys == ScanPhys \cup SyncActs

ASSUME /\ NbCmdPkts \in 1..127
       /\ MaxAdvRepFrag \in 1..255 /\ MaxIqRep \in 1..255
       /\ ScanPhys \cap SyncActs = {} /\ AclBufs \cap SyncBufs = {}
       /\ {HostAclPkts, HostSyncPkts, MaxMsgs, MaxCmds} \subseteq Nat
       /\ MaxChainLen \in Nat \ {0}
       /\ Preemptive \in BOOLEAN

INT8_MIN == -128
Inc8(x) == (x + 1) % 256      \* uint8_t counters

Kinds   == {"CC", "CS", "EVT", "LE", "ACL", "SYNC"}
LeSubs  == {"ADV", "EXT_ADV", "PER_ADV", "IQ", "OTHER"}
NoKey   == "nokey"
NoBuf   == "nobuf"
NoMsg   == [uid |-> 0, id |-> "NULL", sub |-> "-", key |-> "nokey", more |-> FALSE, buf |-> "nobuf"]
Ctx     == {"task", "isr"}

Msgs == [uid : 1..(MaxMsgs + MaxCmds), id : Kinds, sub : LeSubs \cup {"-"},
         key : ChainKeys \cup {NoKey}, more : BOOLEAN,
         buf : AclBufs \cup SyncBufs \cup {NoBuf}]

VARIABLES
    txQ, aclQ, syncQ,       \* hci_tl_env.tx_queue / acl_queue / sync_queue
    currTxMsg,              \* hci_tl_env.curr_tx_msg
    txState,                \* hci_tl_env.tx_state
    nbH2cCmdPkts,           \* hci_tl_env.nb_h2c_cmd_pkts (int8_t)
    advRepFragCnt,          \* hci_tl_env.adv_rep_frag_cnt
    iqRepCnt,               \* hci_tl_env.iq_rep_cnt
    chainStat,              \* adv_rep_chain_stat_1M/_coded, per_adv_rep_chain_stat[]
    wire,                   \* frames given to h4tl_write, completion pending
    freeBufs,               \* RX data buffers back in their pool
    aclPktSent, syncPktSent,\* hci_fc counters of packets the Host holds
    pc,                     \* per context: pending trailing part of a handler
    \* environment and history
    nextUid,                \* messages created so far
    pendingReplies,         \* commands dispatched to a task, reply not sent yet
    cmdsRecv,               \* commands received from the Host
    repliesDone,            \* CC/CS events whose transmission completed
    llChain,                \* fragments the link layer has emitted of the current chain
    chainLog,               \* filter outcomes of the current chain, per key
    admitted,               \* messages pushed onto a TX queue
    delivered,              \* uids whose transmission completed
    freed,                  \* uids given to kernel_msg_free
    fault                   \* an assertion or a NULL message was hit

ctl  == <<txQ, aclQ, syncQ, currTxMsg, txState, nbH2cCmdPkts, advRepFragCnt,
          iqRepCnt, chainStat, wire, freeBufs, aclPktSent, syncPktSent, pc>>
hist == <<nextUid, pendingReplies, cmdsRecv, repliesDone, llChain, chainLog,
          admitted, delivered, freed, fault>>
vars == <<ctl, hist>>

-----------------------------------------------------------------------------
(* Scheduling of the two calling contexts.                                 *)

\* A context may take a step: the interrupt preempts the task, never the
\* reverse; without preemption everything runs in the kernel task.
Runnable(c) == IF c = "task" THEN pc["isr"] = "none" ELSE Preemptive

CanEnter(c) == Runnable(c) /\ pc[c] = "none"

NewMsg(id, sub, key, more, buf) ==
    [uid |-> nextUid + 1, id |-> id, sub |-> sub, key |-> key,
     more |-> more, buf |-> buf]

-----------------------------------------------------------------------------
(* hci_ble_adv_report_filter_check                                         *)

IsAdvRep(m)  == m.id = "LE" /\ m.sub \in {"ADV", "EXT_ADV", "PER_ADV"}
IsChained(m) == m.id = "LE" /\ m.sub \in {"EXT_ADV", "PER_ADV"}
IsIqRep(m)   == m.id = "LE" /\ m.sub = "IQ"

\* fault variant: the chain status is ignored, each fragment is judged alone
AdvFilteredNoChainState(m) ==
    CASE IsAdvRep(m) -> advRepFragCnt >= MaxAdvRepFrag
      [] IsIqRep(m) -> iqRepCnt >= MaxIqRep
      [] OTHER -> FALSE

AdvFiltered(m) ==
    CASE IsChained(m) -> \/ chainStat[m.key] = "FILTERED"
                         \/ /\ chainStat[m.key] = "NO"
                            /\ advRepFragCnt >= MaxAdvRepFrag
      [] m.id = "LE" /\ m.sub = "ADV" -> advRepFragCnt >= MaxAdvRepFrag
      [] IsIqRep(m) -> iqRepCnt >= MaxIqRep
      [] OTHER -> FALSE

NewChainStat(m, filtered) ==
    IF ~m.more THEN "NO" ELSE IF filtered THEN "FILTERED" ELSE "VALID"

\* fault variant: the event pushed at the front of tx_queue
PushTxFront(q, m) == <<m>> \o q

\* common_list_push_back
PushTx(q, m) == Append(q, m)

(* hci_tl_send, part under GLOBAL_INT_DIS: queue the message, or trash a   *)
(* filtered report.                                                        *)
Enqueue(m) ==
    LET f == AdvFiltered(m) IN
    /\ aclQ'  = IF m.id = "ACL" THEN Append(aclQ, m) ELSE aclQ
    /\ syncQ' = IF m.id = "SYNC" THEN Append(syncQ, m) ELSE syncQ
    /\ txQ'   = IF m.id \notin {"ACL", "SYNC"} /\ ~f THEN PushTx(txQ, m) ELSE txQ
    /\ chainStat' = IF IsChained(m)
                    THEN [chainStat EXCEPT ![m.key] = NewChainStat(m, f)]
                    ELSE chainStat
    /\ iqRepCnt' = IF IsIqRep(m) /\ ~f THEN Inc8(iqRepCnt) ELSE iqRepCnt
    /\ advRepFragCnt' = IF IsAdvRep(m) /\ ~f THEN Inc8(advRepFragCnt)
                        ELSE advRepFragCnt
    /\ freed'    = IF f THEN freed \cup {m.uid} ELSE freed
    /\ admitted' = IF f THEN admitted ELSE admitted \cup {m}
    /\ chainLog' = IF IsChained(m)
                   THEN [chainLog EXCEPT ![m.key] =
                           (IF llChain[m.key] = 0 THEN {} ELSE @)
                           \cup {IF f THEN "filtered" ELSE "queued"}]
                   ELSE chainLog
    /\ nextUid' = nextUid + 1

\* hci_tl_send from context c; hci_tx_trigger follows as c's next step.
TlSend(c, m) ==
    /\ Enqueue(m)
    /\ pc' = [pc EXCEPT ![c] = "trigger"]

-----------------------------------------------------------------------------
(* hci_tx_start                                                             *)

HostAclAvailable  == aclPktSent < HostAclPkts      \* hci_fc_check_host_available_nb_acl_packets
HostSyncAvailable == syncPktSent < HostSyncPkts    \* hci_fc_check_host_available_nb_sync_packets

\* fault variant: the ACL queue picked without the Host credit test (the
\* build without BLE_EMB_PRESENT)
TxPickNoAclGate ==
    IF txQ # <<>> THEN Head(txQ)
    ELSE IF SyncBufs # {} /\ HostSyncAvailable /\ syncQ # <<>> THEN Head(syncQ)
    ELSE IF aclQ # <<>> THEN Head(aclQ)
    ELSE NoMsg

\* common_list_pick of the queues in priority order
TxPick ==
    IF txQ # <<>> THEN Head(txQ)
    ELSE IF SyncBufs # {} /\ HostSyncAvailable /\ syncQ # <<>> THEN Head(syncQ)
    ELSE IF HostAclAvailable /\ aclQ # <<>> THEN Head(aclQ)
    ELSE NoMsg

\* fault variant: a Command Status event does not return its credit
CmdCreditBackCcOnly(m, n) ==
    IF m.id = "CC" /\ n < NbCmdPkts THEN n + 1 ELSE n

\* credit returned to the Host when a CC or CS event is started, capped
CmdCreditBack(m, n) ==
    IF m.id \in {"CC", "CS"} /\ n < NbCmdPkts THEN n + 1 ELSE n

TxStart ==
    LET m == TxPick IN
    IF m = NoMsg
    THEN UNCHANGED <<currTxMsg, txState, wire, nbH2cCmdPkts>>
    ELSE /\ currTxMsg' = m
         /\ nbH2cCmdPkts' = CmdCreditBack(m, nbH2cCmdPkts)
         /\ txState' = "ONGOING"
         /\ wire' = Append(wire, m)             \* h4tl_write(type, buf, len, &hci_tx_done)

\* fault variant: hci_tx_trigger without the tx_state test
TxTriggerGuardAlways == TRUE

\* hci_tx_trigger: start only when no transmission is ongoing
TxTriggerGuard == txState = "IDLE"

TriggerStep(c) ==
    /\ pc[c] = "trigger" /\ Runnable(c)
    /\ pc' = [pc EXCEPT ![c] = IF TxTriggerGuard THEN "start" ELSE "none"]
    /\ UNCHANGED <<txQ, aclQ, syncQ, currTxMsg, txState, nbH2cCmdPkts,
                   advRepFragCnt, iqRepCnt, chainStat, wire, freeBufs,
                   aclPktSent, syncPktSent, hist>>

StartStep(c) ==
    /\ pc[c] = "start" /\ Runnable(c)
    /\ TxStart
    /\ pc' = [pc EXCEPT ![c] = "none"]
    /\ UNCHANGED <<txQ, aclQ, syncQ, advRepFragCnt, iqRepCnt, chainStat,
                   freeBufs, aclPktSent, syncPktSent, hist>>

-----------------------------------------------------------------------------
(* hci_tx_done, called by the H4 transport when the oldest written frame   *)
(* has been sent.  Its body runs under GLOBAL_INT_DIS; the final           *)
(* hci_tx_start is the task's next step.                                   *)

SafeTail(s) == IF s = <<>> THEN s ELSE Tail(s)

\* fault variant: IQ reports do not decrement iq_rep_cnt
AdvTxCheckNoIq(m) ==
    /\ advRepFragCnt' = IF IsAdvRep(m) /\ advRepFragCnt > 0
                        THEN advRepFragCnt - 1 ELSE advRepFragCnt
    /\ iqRepCnt' = iqRepCnt

\* hci_ble_adv_report_tx_check on the message just sent
AdvTxCheck(m) ==
    /\ advRepFragCnt' = IF IsAdvRep(m) /\ advRepFragCnt > 0
                        THEN advRepFragCnt - 1 ELSE advRepFragCnt
    /\ iqRepCnt' = IF IsIqRep(m) /\ iqRepCnt > 0 THEN iqRepCnt - 1 ELSE iqRepCnt

AdvTxFault(m) == (IsAdvRep(m) /\ advRepFragCnt = 0) \/ (IsIqRep(m) /\ iqRepCnt = 0)

\* fault variant: the ACL buffer is not given back after transmission
ReleaseBufSyncOnly(msg, gone) ==
    IF msg.id = "SYNC" /\ gone # NoMsg THEN freeBufs \cup {gone.buf} ELSE freeBufs

\* the RX buffer handed back to its pool (ble_util_buf_rx_free / bt_util_buf_sync_free)
ReleaseBuf(msg, gone) ==
    CASE msg.id = "ACL" -> freeBufs \cup {msg.buf}
      [] msg.id = "SYNC" /\ gone # NoMsg -> freeBufs \cup {gone.buf}
      [] OTHER -> freeBufs

\* fault variant: hci_tx_done without its trailing hci_tx_start
TxDoneTailNone == "none"

\* the step the task takes after the body of hci_tx_done: hci_tx_start
TxDoneTail == "start"

TxDoneBody(msg, gone) ==
    /\ AdvTxCheck(msg)
    /\ txState' = "IDLE"
    /\ aclQ'  = IF msg.id = "ACL" THEN SafeTail(aclQ) ELSE aclQ
    /\ syncQ' = IF msg.id = "SYNC" THEN SafeTail(syncQ) ELSE syncQ
    /\ txQ'   = IF msg.id \notin {"ACL", "SYNC"} THEN SafeTail(txQ) ELSE txQ
    /\ freeBufs' = ReleaseBuf(msg, gone)
    /\ currTxMsg' = IF msg.id \in {"ACL", "SYNC"} THEN NoMsg ELSE currTxMsg
    /\ aclPktSent'  = IF msg.id = "ACL" THEN aclPktSent + 1 ELSE aclPktSent
    /\ syncPktSent' = IF msg.id = "SYNC" THEN syncPktSent + 1 ELSE syncPktSent
    /\ freed' = IF gone = NoMsg THEN freed ELSE freed \cup {gone.uid}
    /\ fault' = \/ fault \/ AdvTxFault(msg) \/ gone = NoMsg
                \/ (gone # NoMsg /\ gone.uid \in freed)
    /\ delivered' = delivered \cup {msg.uid}
    /\ repliesDone' = IF msg.id \in {"CC", "CS"} THEN repliesDone + 1 ELSE repliesDone
    /\ pc' = [pc EXCEPT !["task"] = TxDoneTail]

\* curr_tx_msg is NULL or already freed: reading it is undefined, the model
\* records a fault and stops the transmit path.
StaleCurr == currTxMsg = NoMsg \/ currTxMsg.uid \in freed

TxDone ==
    LET msg == currTxMsg
        \* the message handed to kernel_msg_free
        gone == CASE msg = NoMsg      -> NoMsg
                  [] msg.id = "ACL"   -> msg
                  [] msg.id = "SYNC"  -> IF syncQ = <<>> THEN NoMsg ELSE Head(syncQ)
                  [] OTHER            -> IF txQ = <<>> THEN NoMsg ELSE Head(txQ)
    IN
    /\ CanEnter("task")
    /\ wire # <<>>
    /\ wire' = Tail(wire)
    /\ IF StaleCurr
       THEN /\ fault' = TRUE
            /\ UNCHANGED <<txQ, aclQ, syncQ, currTxMsg, txState, advRepFragCnt,
                           iqRepCnt, freeBufs, aclPktSent, syncPktSent, pc,
                           repliesDone, delivered, freed>>
       ELSE TxDoneBody(msg, gone)
    /\ UNCHANGED <<nbH2cCmdPkts, chainStat, nextUid, pendingReplies, cmdsRecv,
                   llChain, chainLog, admitted>>

-----------------------------------------------------------------------------
(* Producers: upper layers calling hci_send_2_host, and the Host.          *)

EnvBudget == nextUid < MaxMsgs

\* an event that the flow controller does not look at
SendEvent(c) ==
    /\ CanEnter(c) /\ EnvBudget
    /\ \E id \in {"EVT", "LE"} :
         TlSend(c, NewMsg(id, IF id = "LE" THEN "OTHER" ELSE "-", NoKey, FALSE, NoBuf))
    /\ UNCHANGED <<currTxMsg, txState, nbH2cCmdPkts, wire, freeBufs, aclPktSent,
                   syncPktSent, pendingReplies, cmdsRecv, repliesDone, llChain,
                   delivered, fault>>

\* a legacy advertising report or a connectionless IQ report
SendReport(c) ==
    /\ CanEnter(c) /\ EnvBudget
    /\ \E sub \in {"ADV", "IQ"} : TlSend(c, NewMsg("LE", sub, NoKey, FALSE, NoBuf))
    /\ UNCHANGED <<currTxMsg, txState, nbH2cCmdPkts, wire, freeBufs, aclPktSent,
                   syncPktSent, pendingReplies, cmdsRecv, repliesDone, llChain,
                   delivered, fault>>

\* next fragment of the chained extended / periodic report on key k
SendChainFragment(c, k) ==
    /\ CanEnter(c) /\ EnvBudget
    /\ \E more \in BOOLEAN :
         /\ more => llChain[k] + 1 < MaxChainLen
         /\ TlSend(c, NewMsg("LE", IF k \in ScanPhys THEN "EXT_ADV" ELSE "PER_ADV",
                             k, more, NoBuf))
         /\ llChain' = [llChain EXCEPT ![k] = IF more THEN @ + 1 ELSE 0]
    /\ UNCHANGED <<currTxMsg, txState, nbH2cCmdPkts, wire, freeBufs, aclPktSent,
                   syncPktSent, pendingReplies, cmdsRecv, repliesDone, delivered, fault>>

\* LLC / LC hands received ACL or SYNC data held in an RX buffer
SendData(c) ==
    /\ CanEnter(c) /\ EnvBudget
    /\ \E b \in freeBufs :
         /\ TlSend(c, NewMsg(IF b \in AclBufs THEN "ACL" ELSE "SYNC", "-", NoKey, FALSE, b))
         /\ freeBufs' = freeBufs \ {b}
    /\ UNCHANGED <<currTxMsg, txState, nbH2cCmdPkts, wire, aclPktSent, syncPktSent,
                   pendingReplies, cmdsRecv, repliesDone, llChain, delivered, fault>>

\* a task answers a command it was dispatched
TaskReply ==
    /\ CanEnter("task") /\ pendingReplies > 0
    /\ pendingReplies' = pendingReplies - 1
    /\ \E id \in {"CC", "CS"} : TlSend("task", NewMsg(id, "-", NoKey, FALSE, NoBuf))
    /\ UNCHANGED <<currTxMsg, txState, nbH2cCmdPkts, wire, freeBufs, aclPktSent,
                   syncPktSent, cmdsRecv, repliesDone, llChain, delivered, fault>>

(* hci_cmd_received: take one credit; an unknown opcode, an exhausted      *)
(* credit, no destination, short parameters or no memory each send one    *)
(* rejection (hci_cmd_reject -> hci_send_2_host); otherwise the command is *)
(* dispatched to its task.  "known" and "routable" abstract the descriptor *)
(* lookup, the connection lookup, the size check and kernel_msg_alloc.    *)
CmdDecrement(n) == IF n > INT8_MIN THEN n - 1 ELSE n

\* fault variant: an unknown opcode is answered with a generic event
RejectKindUnknownAsEvt(known, id) == IF known THEN id ELSE "EVT"

\* hci_cmd_reject: CC with "Unknown HCI command" when there is no
\* descriptor, else CC or CS as the descriptor's ret_par_fmt says
RejectKind(known, id) == IF known THEN id ELSE "CC"

CmdAccepted(known, routable, nb) == known /\ nb >= 0 /\ routable

CmdReceived ==
    /\ CanEnter("task") /\ cmdsRecv < MaxCmds
    /\ cmdsRecv' = cmdsRecv + 1
    /\ LET nb == CmdDecrement(nbH2cCmdPkts) IN
       /\ nbH2cCmdPkts' = nb
       /\ \E known, routable \in BOOLEAN, id \in {"CC", "CS"} :
            IF CmdAccepted(known, routable, nb)
            THEN /\ pendingReplies' = pendingReplies + 1
                 /\ UNCHANGED <<txQ, aclQ, syncQ, advRepFragCnt, iqRepCnt, chainStat,
                                pc, nextUid, chainLog, admitted, freed>>
            ELSE /\ TlSend("task", NewMsg(RejectKind(known, id), "-", NoKey, FALSE, NoBuf))
                 /\ UNCHANGED pendingReplies
    /\ UNCHANGED <<currTxMsg, txState, wire, freeBufs, aclPktSent, syncPktSent,
                   repliesDone, llChain, delivered, fault>>

\* HCI Host Number Of Completed Packets: the Host frees buffers (hci_fc)
HostCompleted ==
    /\ \/ aclPktSent > 0 /\ aclPktSent' = aclPktSent - 1 /\ UNCHANGED syncPktSent
       \/ syncPktSent > 0 /\ syncPktSent' = syncPktSent - 1 /\ UNCHANGED aclPktSent
    /\ UNCHANGED <<txQ, aclQ, syncQ, currTxMsg, txState, nbH2cCmdPkts, advRepFragCnt,
                   iqRepCnt, chainStat, wire, freeBufs, pc, hist>>

\* every producer has used its budget and the transport is idle
Finished ==
    /\ nextUid >= MaxMsgs /\ cmdsRecv = MaxCmds /\ pendingReplies = 0
    /\ wire = <<>> /\ \A c \in Ctx : pc[c] = "none"
    /\ UNCHANGED vars

-----------------------------------------------------------------------------
(* hci_tl_init(0): cold initialisation                                     *)
Init ==
    /\ txQ = <<>> /\ aclQ = <<>> /\ syncQ = <<>>
    /\ currTxMsg = NoMsg
    /\ txState = "IDLE"
    /\ nbH2cCmdPkts = NbCmdPkts
    /\ advRepFragCnt = 0 /\ iqRepCnt = 0
    /\ chainStat = [k \in ChainKeys |-> "NO"]
    /\ wire = <<>>
    /\ freeBufs = AclBufs \cup SyncBufs
    /\ aclPktSent = 0 /\ syncPktSent = 0
    /\ pc = [c \in Ctx |-> "none"]
    /\ nextUid = 0 /\ pendingReplies = 0 /\ cmdsRecv = 0 /\ repliesDone = 0
    /\ llChain = [k \in ChainKeys |-> 0]
    /\ chainLog = [k \in ChainKeys |-> {}]
    /\ admitted = {} /\ delivered = {} /\ freed = {}
    /\ fault = FALSE

Next ==
    \/ \E c \in Ctx : \/ SendEvent(c) \/ SendReport(c) \/ SendData(c)
                      \/ \E k \in ChainKeys : SendChainFragment(c, k)
                      \/ TriggerStep(c) \/ StartStep(c)
    \/ TaskReply \/ CmdReceived \/ TxDone \/ HostCompleted
    \/ Finished

(* The H4 transport always completes a write, the kernel scheduler always  *)
(* runs a pending handler to its end, tasks answer the commands they are   *)
(* given and the Host returns the data buffers it was sent.                *)
Fairness ==
    /\ \A c \in Ctx : WF_vars(TriggerStep(c)) /\ WF_vars(StartStep(c))
    /\ WF_vars(TxDone) /\ WF_vars(TaskReply) /\ WF_vars(HostCompleted)

Spec == Init /\ [][Next]_vars /\ Fairness

-----------------------------------------------------------------------------
(* Properties                                                              *)

TypeOK ==
    /\ txQ \in Seq(Msgs) /\ aclQ \in Seq(Msgs) /\ syncQ \in Seq(Msgs)
    /\ currTxMsg \in Msgs \cup {NoMsg}
    /\ txState \in {"IDLE", "ONGOING"}
    /\ nbH2cCmdPkts \in INT8_MIN..NbCmdPkts
    /\ advRepFragCnt \in 0..255 /\ iqRepCnt \in 0..255
    /\ chainStat \in [ChainKeys -> {"NO", "VALID", "FILTERED"}]
    /\ wire \in Seq(Msgs)
    /\ freeBufs \subseteq AclBufs \cup SyncBufs
    /\ aclPktSent \in 0..HostAclPkts /\ syncPktSent \in 0..HostSyncPkts
    /\ pc \in [Ctx -> {"none", "trigger", "start"}]
    /\ llChain \in [ChainKeys -> 0..MaxChainLen]
    /\ fault \in BOOLEAN

\* Number of queue entries satisfying P
CountIn(q, P(_)) == Cardinality({i \in DOMAIN q : P(q[i])})

(* Single flight: hci_tx_trigger / hci_tx_start never hand a second frame   *)
(* to h4tl_write while one is outstanding, and tx_state is ONGOING exactly  *)
(* while a frame is outstanding.                                           *)
SingleFlight ==
    /\ Len(wire) <= 1
    /\ (wire # <<>>) <=> (txState = "ONGOING")

(* Ownership: each RX data buffer is held by exactly one of its pool or one *)
(* queued ACL/SYNC message (hci_tx_done returns it exactly once), and no    *)
(* kernel message is freed twice or freed while NULL.                      *)
BufferOwnership ==
    /\ \A b \in AclBufs \cup SyncBufs :
          (IF b \in freeBufs THEN 1 ELSE 0)
          + CountIn(aclQ, LAMBDA m : m.buf = b)
          + CountIn(syncQ, LAMBDA m : m.buf = b) = 1
    /\ ~fault

(* The advertising-report counters of the flow controller equal the number *)
(* of admitted reports still waiting in, or being sent from, the event     *)
(* queue: every increment in hci_ble_adv_report_filter_check is matched by *)
(* one decrement in hci_ble_adv_report_tx_check, never an underflow.       *)
AdvCountersMatchQueue ==
    /\ advRepFragCnt = CountIn(txQ, IsAdvRep)
    /\ iqRepCnt = CountIn(txQ, IsIqRep)

(* A chained extended or periodic advertising report reaches the Host     *)
(* whole or not at all: within one chain the filter never queues some      *)
(* fragments and trashes others.                                          *)
ChainAllOrNothing ==
    \A k \in ChainKeys : chainLog[k] # {"filtered", "queued"}

(* Command credits are conserved: nb_h2c_cmd_pkts equals HCI_NB_CMD_PKTS    *)
(* minus the commands received whose CC/CS has not been started by          *)
(* hci_tx_start (still at a task, or queued behind other events).           *)
UnstartedReply(m) ==
    m.id \in {"CC", "CS"} /\ ~(wire # <<>> /\ m = currTxMsg)

CreditAccounting ==
    nbH2cCmdPkts = NbCmdPkts - (pendingReplies + CountIn(txQ, UnstartedReply))

(* When a frame completes, hci_tx_done releases the message of that very   *)
(* frame (and nothing else): the queue it pops has that message at its     *)
(* head.                                                                   *)
FreesWhatWasSent ==
    [][ (wire # <<>> /\ wire' = Tail(wire)) => freed' \ freed = {Head(wire).uid} ]_vars

DataKinds == {"ACL", "SYNC"}

(* Every event admitted to the event queue (CC, CS, EVT, LE reports) is    *)
(* eventually transmitted: the tail hci_tx_start of hci_tx_done keeps the *)
(* event queue draining without any further hci_tl_send.                  *)
EventDelivered ==
    \A u \in 1..(MaxMsgs + MaxCmds) :
        (\E m \in admitted : m.uid = u /\ m.id \notin DataKinds) ~> (u \in delivered)

(* Every command received from the Host is eventually answered by a       *)
(* transmitted CC or CS event, whether it was dispatched or rejected.       *)
CommandAnswered ==
    \A n \in 1..MaxCmds : (cmdsRecv >= n) ~> (repliesDone >= n)
=============================================================================
