------------------------------ MODULE HciH2cData ------------------------------
(***************************************************************************)
(* Host-to-Controller data reception in the HCI transport layer            *)
(* (hci_tl.c): the transport asks hci_acl_tx_data_alloc or                 *)
(* hci_sync_tx_data_alloc for a buffer when it has read a data header,     *)
(* reads the payload into it, and then calls hci_acl_tx_data_received or   *)
(* hci_sync_tx_data_received.  When the class's buffer pool is empty the   *)
(* payload goes to a heap buffer and hci_tl_env.acl_trash_payload tells    *)
(* the "received" handler to free it instead of passing it on.  A single  *)
(* flag serves both classes.                                               *)
(*                                                                         *)
(* The transport reads one packet at a time, so at most one buffer is      *)
(* between alloc and received (rx).  SpecAbort adds a transport that may   *)
(* give up a packet after alloc (a resynchronisation of the byte stream)  *)
(* without calling received.  The link layers (LLC, LC) that own   *)
(* a passed-on buffer later give it back to its pool.                      *)
(***************************************************************************)
EXTENDS Naturals, FiniteSets

CONSTANTS
    AclPool,        \* BLE ACL TX buffers (ble_util_buf_acl_tx_alloc), as EM offsets
    SyncPool,       \* BT SYNC TX buffers (bt_util_buf_sync_tx_alloc), as EM offsets
    SyncHandles,    \* connection handles in SYNC headers
    InRange,        \* handles whose ACL part is in BT_ACL_CONHDL_MIN..MAX
    ActiveLinks,    \* in-range handles whose ACL link is HCI_BT_ACL_STATUS_BD_ADDR_CONHDL
    VoiceOverHci,   \* BT_EMB_PRESENT and VOICE_OVER_HCI: SYNC data from the Host
    MaxPkts         \* bound: data packets read from the Host

ASSUME /\ AclPool \cap SyncPool = {} /\ AclPool \cup SyncPool \subseteq Nat
       /\ (AclPool \cup SyncPool) \cap (0..MaxPkts) = {}
       /\ ActiveLinks \subseteq InRange /\ InRange \subseteq SyncHandles
       /\ VoiceOverHci \in BOOLEAN
       /\ MaxPkts \in Nat \ {0}

Pool    == AclPool \cup SyncPool
HeapBuf(n) == n                     \* kernel_malloc buffer of packet n
HeapIds == 1..MaxPkts
NoRx    == [cls |-> "none", buf |-> 0, link |-> "none"]

VARIABLES
    acl_trash_payload,  \* hci_tl_env.acl_trash_payload
    poolFree,           \* pool buffers free in their pool
    rx,                 \* the buffer the transport is filling: alloc done, received not yet
    linkHeld,           \* pool buffers passed on to LLC / LC in a data message
    heapLive,           \* heap buffers from kernel_malloc not yet kernel_free'd
    ovflwEvts,          \* HCI Data Buffer Overflow events sent
    nPkts,              \* data packets whose header has been read
    fault               \* kernel_free of a pool buffer, or a heap buffer passed on

vars == <<acl_trash_payload, poolFree, rx, linkHeld, heapLive, ovflwEvts, nPkts, fault>>

IsHeap(b) == b \in HeapIds

-----------------------------------------------------------------------------
(* hci_acl_tx_data_alloc / hci_sync_tx_data_alloc                          *)

CanRead == rx = NoRx /\ nPkts < MaxPkts

\* The payload goes to pool buffer b.
PoolAlloc(cls, b, link) ==
    /\ rx' = [cls |-> cls, buf |-> b, link |-> link]
    /\ poolFree' = poolFree \ {b}
    /\ UNCHANGED <<acl_trash_payload, heapLive>>

\* fault variant: the heap fallback does not mark the payload as trash
TrashAllocNoFlag(cls, link) ==
    /\ rx' = [cls |-> cls, buf |-> HeapBuf(nPkts + 1), link |-> link]
    /\ heapLive' = heapLive \cup {HeapBuf(nPkts + 1)}
    /\ UNCHANGED <<poolFree, acl_trash_payload>>

\* kernel_malloc a temporary buffer and set acl_trash_payload
TrashAlloc(cls, link) ==
    /\ rx' = [cls |-> cls, buf |-> HeapBuf(nPkts + 1), link |-> link]
    /\ heapLive' = heapLive \cup {HeapBuf(nPkts + 1)}
    /\ acl_trash_payload' = TRUE
    /\ UNCHANGED poolFree

(* ACL header to a BLE connection handle (conhdl <= BLE_CONHDL_MAX, point- *)
(* to-point, len <= BLE_MAX_OCTETS).  A header failing those tests makes   *)
(* the function return NULL without any state change and is not modelled. *)
HciAclTxDataAlloc ==
    /\ CanRead
    /\ nPkts' = nPkts + 1
    /\ IF AclPool \cap poolFree # {}
       THEN /\ \E b \in AclPool \cap poolFree : PoolAlloc("ACL", b, "ble")
            /\ UNCHANGED ovflwEvts
       ELSE /\ ovflwEvts' = ovflwEvts + 1        \* HCI_DATA_BUF_OVFLW_EVT
            /\ TrashAlloc("ACL", "ble")
    /\ UNCHANGED <<linkHeld, fault>>

\* fault variant: only the range is tested, not the link state
SyncLinkActiveRangeOnly(h) == {h \in InRange}

(* The ACL part of the handle is tested with (conhdl < MIN) && (conhdl >   *)
(* MAX), which is never true, so an out-of-range handle indexes            *)
(* bt_acl_con_tab out of bounds: the state read there is undefined, and   *)
(* either outcome of the test can happen.                                  *)
SyncLinkActive(h) ==
    IF h \in InRange THEN {h \in ActiveLinks} ELSE BOOLEAN

HciSyncTxDataAlloc ==
    /\ VoiceOverHci /\ CanRead
    /\ nPkts' = nPkts + 1
    /\ \E h \in SyncHandles : \E active \in SyncLinkActive(h) :
         IF active /\ SyncPool \cap poolFree # {}
         THEN \E b \in SyncPool \cap poolFree : PoolAlloc("SYNC", b, h)
         ELSE TrashAlloc("SYNC", h)
    /\ UNCHANGED <<linkHeld, ovflwEvts, fault>>

-----------------------------------------------------------------------------
(* hci_acl_tx_data_received / hci_sync_tx_data_received                    *)

\* fault variant: the trash flag is not looked at
PayloadTrashedNever == FALSE

\* fault variant: every payload is taken for a trash buffer
PayloadTrashedAlways == TRUE

\* the payload was received in a trash buffer
PayloadTrashed == acl_trash_payload

\* fault variant: kernel_free is not called on the trash buffer
TrashFreeLeak(b) == heapLive

\* kernel_free(payload): freeing a pool buffer corrupts the heap
TrashFree(b) == heapLive \ {b}

\* Both handlers: free a trash payload and clear the flag, or pass the
\* buffer on in an HCI_ACL_DATA / HCI_SYNC_DATA message.
DataReceived(cls) ==
    /\ rx.cls = cls
    /\ rx' = NoRx
    /\ IF PayloadTrashed
       THEN /\ heapLive' = TrashFree(rx.buf)
            /\ acl_trash_payload' = FALSE
            /\ fault' = (fault \/ ~IsHeap(rx.buf))
            /\ UNCHANGED linkHeld
       ELSE /\ linkHeld' = linkHeld \cup {rx.buf}
            /\ fault' = (fault \/ IsHeap(rx.buf))
            /\ UNCHANGED <<heapLive, acl_trash_payload>>
    /\ UNCHANGED <<poolFree, ovflwEvts, nPkts>>

HciAclTxDataReceived  == DataReceived("ACL")
HciSyncTxDataReceived == DataReceived("SYNC")

-----------------------------------------------------------------------------
(* Environment                                                             *)

\* The transport drops the packet after alloc; the buffer is not returned.
TransportAbort ==
    /\ rx # NoRx
    /\ rx' = NoRx
    /\ UNCHANGED <<acl_trash_payload, poolFree, linkHeld, heapLive, ovflwEvts,
                   nPkts, fault>>

\* LLC / LC has sent the data and frees the buffer to its pool.
LinkRelease ==
    /\ \E b \in linkHeld :
         /\ linkHeld' = linkHeld \ {b}
         /\ poolFree' = IF b \in Pool THEN poolFree \cup {b} ELSE poolFree
    /\ UNCHANGED <<acl_trash_payload, rx, heapLive, ovflwEvts, nPkts, fault>>

Finished ==
    /\ nPkts = MaxPkts /\ rx = NoRx /\ linkHeld = {}
    /\ UNCHANGED vars

(* hci_tl_init(0) clears acl_trash_payload; every pool buffer is free.     *)
Init ==
    /\ acl_trash_payload = FALSE
    /\ poolFree = IF VoiceOverHci THEN Pool ELSE AclPool
    /\ rx = NoRx
    /\ linkHeld = {} /\ heapLive = {}
    /\ ovflwEvts = 0 /\ nPkts = 0
    /\ fault = FALSE

Next ==
    \/ HciAclTxDataAlloc \/ HciSyncTxDataAlloc
    \/ HciAclTxDataReceived \/ HciSyncTxDataReceived
    \/ LinkRelease \/ Finished

(* The transport finishes the payload it started, and the link layers     *)
(* send and free the data they were given.                                 *)
Spec == Init /\ [][Next]_vars
        /\ WF_vars(HciAclTxDataReceived) /\ WF_vars(HciSyncTxDataReceived)
        /\ WF_vars(LinkRelease)

\* the same system with a transport that abandons packets
SpecAbort == Init /\ [][Next \/ TransportAbort]_vars

-----------------------------------------------------------------------------
(* Properties                                                              *)

TypeOK ==
    /\ acl_trash_payload \in BOOLEAN
    /\ poolFree \subseteq Pool /\ linkHeld \subseteq Pool
    /\ rx \in {NoRx} \cup [cls : {"ACL", "SYNC"}, buf : Pool \cup HeapIds,
                           link : SyncHandles \cup {"ble"}]
    /\ heapLive \subseteq HeapIds
    /\ ovflwEvts \in 0..MaxPkts /\ nPkts \in 0..MaxPkts /\ fault \in BOOLEAN

(* While a packet is being read, acl_trash_payload is set exactly when it *)
(* sits in a heap buffer: the "received" handler of either class frees what alloc   *)
(* took from the heap and passes on what alloc took from a pool (spec     *)
(* section 5: the flag is cleared before traffic is treated as pool-      *)
(* backed again).                                                         *)
TrashMarksHeap ==
    rx # NoRx => (acl_trash_payload <=> IsHeap(rx.buf))

(* Every pool buffer in use is in exactly one place (its pool, the packet *)
(* being read, a link layer's message), a heap buffer lives only while its *)
(* packet is read, and kernel_free never gets a pool buffer nor a link     *)
(* layer a heap buffer.                                                    *)
BuffersAccounted ==
    /\ \A b \in poolFree \cup linkHeld \cup (IF rx # NoRx /\ ~IsHeap(rx.buf) THEN {rx.buf} ELSE {}) :
          (IF b \in poolFree THEN 1 ELSE 0) + (IF b \in linkHeld THEN 1 ELSE 0)
          + (IF rx.buf = b THEN 1 ELSE 0) = 1
    /\ Cardinality(poolFree) + Cardinality(linkHeld)
          + (IF rx # NoRx /\ ~IsHeap(rx.buf) THEN 1 ELSE 0)
        = Cardinality(IF VoiceOverHci THEN Pool ELSE AclPool)
    /\ heapLive \subseteq {rx.buf}
    /\ ~fault

(* A SYNC pool buffer is only taken for a handle whose ACL link is active *)
(* (hci_sync_tx_data_alloc's link test).                                  *)
SyncOnlyOnActiveLink ==
    (rx.cls = "SYNC" /\ rx.buf \in SyncPool) => rx.link \in ActiveLinks

(* Every pool buffer taken for a Host packet eventually returns to its    *)
(* pool.                                                                   *)
PoolBuffersReturn ==
    \A b \in Pool : (b \notin poolFree) ~> (b \in poolFree)
=============================================================================
