------------------------------ MODULE HciHostCs ------------------------------
(***************************************************************************)
(* Routing of Command Complete (CC) and Command Status (CS) events to the  *)
(* connection that sent the command, in the host-only build of hci_tl.c    *)
(* (BLE_HOST_PRESENT && !BLE_EMB_PRESENT, HCI_BLE_CON_SUPPORT).            *)
(*                                                                         *)
(* GAPC of connection index c sends a connection command as a kernel      *)
(* message (dest_id = c, src_id = opcode).  hci_build_cmd packs it when    *)
(* the transmit path takes it; for an HL_CTRL command whose descriptor has *)
(* no return-parameter format (answered by a CS, not a CC) it stores the   *)
(* opcode in hci_env.ble_acl_con_tab[c].code.  The controller answers the  *)
(* commands in the order it received them.  hci_evt_received routes a CC  *)
(* by the connection handle found in its return parameters                 *)
(* (hci_look_for_conhdl), and a CS by hci_search_cs_index, which takes the *)
(* lowest slot holding the opcode and clears it.                           *)
(*                                                                         *)
(* Payloads are byte sequences built from the descriptor formats, so the  *)
(* offsets hci_look_for_conhdl reads at are those of the code.  The        *)
(* connection handle of connection index c is c.                           *)
(***************************************************************************)
EXTENDS Naturals, Sequences, FiniteSetsExt

CONSTANTS
    Conns,      \* connection indexes 0..BLE_ACTIVITY_MAX-1 with a link up
    Ops,        \* opcodes GAPC sends (a subset of the descriptor table Desc)
    CodeWidth,  \* bits of the ble_acl_con_tab[].code field (hci_int.h)
    MaxCmds,    \* bound: commands sent
    Evts,       \* events the controller sends on its own (names of EvtDesc rows)
    Hdls,       \* handles those events and ACL packets carry: live links and closed ones
    MaxEvts     \* bound: events and ACL packets received

\* HCI opcodes of the modelled descriptor rows
DISCONNECT    == 1030   \* 0x0406
RD_RSSI       == 5125   \* 0x1405
LE_CON_UPDATE == 8211   \* 0x2013
LE_RD_PHY     == 8240   \* 0x2030

HCI_CMD_CMP_EVT_CODE    == 14   \* 0x0E
HCI_CMD_STATUS_EVT_CODE == 15   \* 0x0F
GAP_INVALID_CONHDL      == 65535
GAP_INVALID_CONIDX      == 255

(* hci_cmd_desc_tab_*: parameter and return-parameter formats of the      *)
(* HL_CTRL rows; <<>> stands for a NULL format.                            *)
Desc == [op \in {DISCONNECT, RD_RSSI, LE_CON_UPDATE, LE_RD_PHY} |->
           CASE op = DISCONNECT    -> [par_fmt |-> <<"H", "B">>, ret_par_fmt |-> <<>>]
             [] op = RD_RSSI       -> [par_fmt |-> <<"H">>, ret_par_fmt |-> <<"B", "H", "B">>]
             [] op = LE_CON_UPDATE -> [par_fmt |-> <<"H", "H", "H", "H", "H", "H", "H">>,
                                       ret_par_fmt |-> <<>>]
             [] op = LE_RD_PHY     -> [par_fmt |-> <<"H">>, ret_par_fmt |-> <<"B", "H", "B", "B">>]]

HCI_LE_META_EVT_CODE == 62   \* 0x3E

(* hci_evt_desc_tab and hci_evt_le_desc_tab rows of the host build: event *)
(* code (LE subcode for an LE row), higher-layer type, packer kind and     *)
(* parameter format.  An LE format starts with the subcode byte.  The      *)
(* par_fmt of a PK_SPE row is the address of its unpack function; its fmt  *)
(* is "code" here and LookForConhdl sees CodeBytes.  UNKNOWN is an event   *)
(* code with no row.                                                       *)
EvtDesc == [e \in {"DISC_CMP", "NB_CMP_PKTS", "DATA_BUF_OVFLW", "LE_CON_UPDATE_CMP",
                   "LE_SCAN_TIMEOUT", "LE_CON_IQ_REPORT", "UNKNOWN"} |->
    CASE e = "DISC_CMP"          -> [le |-> FALSE, code |-> 5, hl |-> "HL_CTRL", fmt |-> <<"B", "H", "B">>]
      [] e = "NB_CMP_PKTS"       -> [le |-> FALSE, code |-> 19, hl |-> "HL_DATA", fmt |-> <<"B", "H", "H">>]
      [] e = "DATA_BUF_OVFLW"    -> [le |-> FALSE, code |-> 26, hl |-> "HL_MNG", fmt |-> <<"B">>]
      [] e = "LE_CON_UPDATE_CMP" -> [le |-> TRUE, code |-> 3, hl |-> "HL_CTRL",
                                     fmt |-> <<"B", "B", "H", "H", "H", "H">>]
      [] e = "LE_SCAN_TIMEOUT"   -> [le |-> TRUE, code |-> 17, hl |-> "HL_MNG", fmt |-> <<"B">>]
      [] e = "LE_CON_IQ_REPORT"  -> [le |-> TRUE, code |-> 22, hl |-> "HL_CTRL", fmt |-> "code"]
      [] e = "UNKNOWN"           -> [le |-> FALSE, code |-> 255, hl |-> "none", fmt |-> <<>>]]

ASSUME /\ Conns \subseteq 0..254 /\ Ops \subseteq DOMAIN Desc
       /\ CodeWidth \in {8, 16} /\ MaxCmds \in Nat
       /\ Evts \subseteq DOMAIN EvtDesc /\ Hdls \subseteq 0..254 /\ MaxEvts \in Nat

Lo(x) == x % 256
Hi(x) == x \div 256

\* common_read16p(p + i): little-endian halfword at byte offset i
Read16(p, i) == p[i + 1] + 256 * p[i + 2]

(* Packed parameters of connection c's command or reply: every B a status *)
(* byte 0, every H the handle of c.                                        *)
RECURSIVE Pack(_, _)
Pack(fmt, c) ==
    IF fmt = <<>> THEN <<>>
    ELSE (IF Head(fmt) = "H" THEN <<Lo(c), Hi(c)>> ELSE <<0>>) \o Pack(Tail(fmt), c)

\* A CS event: status, nb cmd pkts, opcode.
CsPayload(op) == <<0, 1, Lo(op), Hi(op)>>

\* A CC event: nb cmd pkts, opcode, return parameters.
CcPayload(op, c) == <<1, Lo(op), Hi(op)>> \o Pack(Desc[op].ret_par_fmt, c)

\* the descriptor expects a CS: HL_CTRL with no return-parameter format
ExpectsCs(op) == Desc[op].ret_par_fmt = <<>>

(* The bytes at the address of hci_le_con_iq_report_evt_pkupk read as a   *)
(* NUL-terminated format: an 'H' (0x48) after k other bytes, for the k the *)
(* build gives, or a NUL before any 'H'.                                   *)
CodeBytes == {[i \in 1..k |-> "x"] \o <<"H">> : k \in 0..3} \cup {<<>>}

(* The payload of event e about handle h.  An LE payload starts with the  *)
(* subcode.  A connection IQ report starts subcode, conhdl, rx_phy (1M),   *)
(* data_chan_idx 0, rssi.                                                  *)
EvtPayload(e, h) ==
    CASE e = "LE_CON_IQ_REPORT" -> <<22, Lo(h), Hi(h), 1, 0, 0>>
      [] EvtDesc[e].le          -> <<EvtDesc[e].code>> \o Pack(Tail(EvtDesc[e].fmt), h)
      [] OTHER                  -> Pack(EvtDesc[e].fmt, h)

\* gapc_get_conidx: the connection index of a handle of a link that is up
GapcGetConidx(conhdl) == IF conhdl \in Conns THEN conhdl ELSE GAP_INVALID_CONIDX

\* fault variant: the CC/CS header is not skipped
LookForConhdlNoHdrSkip(code, payload, format) ==
    LET hs == {i \in 1..Len(format) : format[i] = "H"}
    IN IF hs = {} THEN GAP_INVALID_CONHDL ELSE Read16(payload, Min(hs) - 1)

(* hci_look_for_conhdl: skip opcode and length for a CC or CS code, then  *)
(* read the handle at the index of the first 'H' of the format, taking    *)
(* every earlier field for a single byte.                                  *)
LookForConhdl(code, payload, format) ==
    LET params == IF code \in {HCI_CMD_CMP_EVT_CODE, HCI_CMD_STATUS_EVT_CODE}
                  THEN 3 ELSE 0
        hs == {i \in 1..Len(format) : format[i] = "H"}
    IN IF hs = {} THEN GAP_INVALID_CONHDL ELSE Read16(payload, params + Min(hs) - 1)

(* hci_look_for_evt_desc / hci_look_for_le_evt_desc: the row whose code *)
(* is the event code, or the LE subcode at payload[0].                    *)
LookForEvtDesc(evcode, payload) ==
    LET key == IF evcode = HCI_LE_META_EVT_CODE THEN payload[1] ELSE evcode
        hit == {e \in DOMAIN EvtDesc : e # "UNKNOWN" /\ EvtDesc[e].code = key
                                       /\ EvtDesc[e].le = (evcode = HCI_LE_META_EVT_CODE)}
    IN IF hit = {} THEN "none" ELSE CHOOSE e \in hit : TRUE

\* KERNEL_BUILD_ID(type, idx); the task numbered HL_MNG is a type of its own
TaskId(type, idx) == [task |-> type, idx |-> idx]

\* fault variant: the connection index is not tested, only the handle
EvtDestNoIdxCheck(evcode, d, payload, fmt) ==
    LET conhdl == LookForConhdl(evcode, payload, fmt)
        idx    == GapcGetConidx(conhdl)
    IN CASE EvtDesc[d].hl = "HL_MNG" -> TaskId("GAPM", 0)
         [] conhdl # GAP_INVALID_CONHDL ->
                TaskId(IF EvtDesc[d].hl = "HL_CTRL" THEN "GAPC" ELSE "L2CC", idx)
         [] OTHER -> TaskId("HL_MNG", 0)

(* The destination hci_evt_received picks for an event with descriptor d  *)
(* read with format fmt: GAPM for HL_MNG; for HL_CTRL/HL_DATA the GAPC or  *)
(* L2CC instance of the handle found, else the task numbered HL_MNG.       *)
EvtDest(evcode, d, payload, fmt) ==
    LET conhdl == LookForConhdl(evcode, payload, fmt)
        idx    == GapcGetConidx(conhdl)
    IN CASE EvtDesc[d].hl = "HL_MNG" -> TaskId("GAPM", 0)
         [] conhdl # GAP_INVALID_CONHDL /\ idx # GAP_INVALID_CONIDX ->
                TaskId(IF EvtDesc[d].hl = "HL_CTRL" THEN "GAPC" ELSE "L2CC", idx)
         [] OTHER -> TaskId("HL_MNG", 0)

VARIABLES
    code,     \* hci_env.ble_acl_con_tab[i].code
    wire,     \* commands sent to the controller and not yet answered, in order
    routed,   \* answers delivered: [uid, to] with to a conidx or GAP_INVALID_CONIDX
    sent,     \* every command sent: [uid, conidx, op]
    nCmds,
    evts,     \* events and ACL packets delivered: [eid, e, hdl, to, msg]
    aclHdr,   \* <<h>> while the payload of an ACL packet for handle h is being received
    nEvts

vars == <<code, wire, routed, sent, nCmds, evts, aclHdr, nEvts>>

\* fault variant: the whole 16-bit opcode is kept
CsCodeFull(op) == op

\* hci_env.ble_acl_con_tab[dest_id].code = opcode, in a CodeWidth-bit field
CsCode(op) == op % (2 ^ CodeWidth)

(* hci_build_cmd for the message of GAPC conidx c with opcode op, and the  *)
(* write of the packed command that follows it in hci_tx_start.           *)
HciBuildCmd(c, op) ==
    LET conhdl == LookForConhdl(Lo(op), Pack(Desc[op].par_fmt, c), Desc[op].par_fmt)
    IN
    /\ nCmds < MaxCmds
    /\ code' = IF ExpectsCs(op) /\ conhdl # GAP_INVALID_CONHDL
               THEN [code EXCEPT ![c] = CsCode(op)] ELSE code
    /\ wire' = Append(wire, [uid |-> nCmds + 1, conidx |-> c, op |-> op])
    /\ sent' = sent \cup {[uid |-> nCmds + 1, conidx |-> c, op |-> op]}
    /\ nCmds' = nCmds + 1
    /\ UNCHANGED <<routed, evts, aclHdr, nEvts>>

\* hci_search_cs_index(code): the lowest slot whose code equals the uint8 key
SearchCsIndex(key) ==
    LET hit == {i \in Conns : code[i] = key}
    IN IF hit = {} THEN GAP_INVALID_CONIDX ELSE Min(hit)

\* fault variant: the matched slot is not cleared
CsConsumeKeep(i) == code

\* ... and it clears the slot it found
CsConsume(i) == IF i = GAP_INVALID_CONIDX THEN code ELSE [code EXCEPT ![i] = 0]

(* hci_evt_received, HCI_CMD_STATUS_EVT_CODE: the opcode at payload+2 is   *)
(* passed to hci_search_cs_index as a uint8_t.  No slot: the event is not  *)
(* sent to any task (BLE_ASSERT_INFO only).                                *)
HciCsEvtReceived ==
    /\ wire # <<>> /\ ExpectsCs(Head(wire).op)
    /\ LET opcode == Read16(CsPayload(Head(wire).op), 2)
           idx    == SearchCsIndex(Lo(opcode))
       IN /\ code' = CsConsume(idx)
          /\ routed' = routed \cup {[uid |-> Head(wire).uid, to |-> idx]}
    /\ wire' = Tail(wire)
    /\ UNCHANGED <<sent, nCmds, evts, aclHdr, nEvts>>

(* hci_evt_received, HCI_CMD_CMP_EVT_CODE, HL_CTRL: the handle parsed from *)
(* the return parameters gives the GAPC instance.                          *)
HciCcEvtReceived ==
    /\ wire # <<>> /\ ~ExpectsCs(Head(wire).op)
    /\ LET m      == Head(wire)
           conhdl == LookForConhdl(HCI_CMD_CMP_EVT_CODE, CcPayload(m.op, m.conidx),
                                   Desc[m.op].ret_par_fmt)
       IN routed' = routed \cup {[uid |-> m.uid, to |-> GapcGetConidx(conhdl)]}
    /\ wire' = Tail(wire)
    /\ UNCHANGED <<code, sent, nCmds, evts, aclHdr, nEvts>>

(* hci_evt_received, HCI_LE_META_EVT_CODE and default: the descriptor is  *)
(* looked up by code or LE subcode; an event with none is not sent         *)
(* (BLE_ASSERT_INFO only).  The handle is parsed with the row's par_fmt,   *)
(* which for a PK_SPE row is the unpack function's address.  An LE event   *)
(* is sent as HCI_LE_EVENT with src_id 0, any other as HCI_EVENT with the  *)
(* event code.  The size pass and the unpack go through                    *)
(* common_util_unpack, which is not part of this source tree.              *)
HciEvtReceived(e, h) ==
    LET evcode  == IF EvtDesc[e].le THEN HCI_LE_META_EVT_CODE ELSE EvtDesc[e].code
        payload == EvtPayload(e, h)
        d       == LookForEvtDesc(evcode, payload)
    IN
    /\ nEvts < MaxEvts /\ aclHdr = <<>>
    /\ nEvts' = nEvts + 1
    /\ \/ d = "none" /\ UNCHANGED evts
       \/ d # "none"
          /\ \E fmt \in IF EvtDesc[d].fmt = "code" THEN CodeBytes ELSE {EvtDesc[d].fmt} :
                evts' = evts \cup
                  {[eid |-> nEvts + 1, e |-> e, hdl |-> h,
                    to  |-> EvtDest(evcode, d, payload, fmt),
                    msg |-> IF evcode = HCI_LE_META_EVT_CODE THEN <<"HCI_LE_EVENT", 0>>
                            ELSE <<"HCI_EVENT", evcode>>]}
    /\ UNCHANGED <<code, wire, routed, sent, nCmds, aclHdr>>

\* hci_acl_rx_data_alloc: the transport has read an ACL header for handle h
HciAclRxDataAlloc(h) ==
    /\ nEvts < MaxEvts /\ aclHdr = <<>>
    /\ aclHdr' = <<h>>
    /\ UNCHANGED <<code, wire, routed, sent, nCmds, evts, nEvts>>

(* hci_acl_rx_data_received: HCI_ACL_DATA to the L2CC instance of the     *)
(* handle's link; for a handle with no link only BLE_ASSERT_INFO runs, and *)
(* the payload is neither sent nor freed.                                  *)
HciAclRxDataReceived ==
    LET conhdl == aclHdr[1]
        idx    == GapcGetConidx(conhdl)
    IN
    /\ aclHdr # <<>>
    /\ evts' = IF conhdl # GAP_INVALID_CONHDL /\ idx # GAP_INVALID_CONIDX
               THEN evts \cup {[eid |-> nEvts + 1, e |-> "ACL", hdl |-> conhdl,
                                to |-> TaskId("L2CC", idx),
                                msg |-> <<"HCI_ACL_DATA", 0>>]}
               ELSE evts
    /\ aclHdr' = <<>>
    /\ nEvts' = nEvts + 1
    /\ UNCHANGED <<code, wire, routed, sent, nCmds>>

Finished ==
    /\ nCmds = MaxCmds /\ wire = <<>>
    /\ UNCHANGED vars

\* hci_env is zero-initialised: no CS is expected
Init ==
    /\ code = [i \in Conns |-> 0]
    /\ wire = <<>> /\ routed = {} /\ sent = {} /\ nCmds = 0
    /\ evts = {} /\ aclHdr = <<>> /\ nEvts = 0

Next ==
    \/ \E c \in Conns, op \in Ops : HciBuildCmd(c, op)
    \/ HciCsEvtReceived
    \/ HciCcEvtReceived
    \/ \E e \in Evts, h \in Hdls : HciEvtReceived(e, h)
    \/ \E h \in Hdls : HciAclRxDataAlloc(h)
    \/ HciAclRxDataReceived
    \/ Finished

Spec == Init /\ [][Next]_vars

-----------------------------------------------------------------------------
(* Properties                                                              *)

Issuer(u) == (CHOOSE m \in sent : m.uid = u).conidx
OpOf(u)   == (CHOOSE m \in sent : m.uid = u).op

TypeOK ==
    /\ code \in [Conns -> 0..255]
    /\ wire \in Seq([uid : 1..MaxCmds, conidx : Conns, op : Ops])
    /\ routed \subseteq [uid : 1..MaxCmds, to : Conns \cup {GAP_INVALID_CONIDX}]
    /\ nCmds \in 0..MaxCmds
    /\ aclHdr \in {<<>>} \cup {<<h>> : h \in Hdls} /\ nEvts \in 0..MaxEvts
    /\ \A r \in evts : r.eid \in 1..MaxEvts /\ r.hdl \in Hdls

(* No GAPC instance is given more answers for an opcode than it sent       *)
(* commands with that opcode: hci_search_cs_index consumes the slot that   *)
(* hci_build_cmd filled, so one recorded command routes at most one CS.    *)
CsNotDuplicated ==
    \A c \in Conns, op \in Ops :
        Cardinality({r \in routed : r.to = c /\ OpOf(r.uid) = op})
          <= Cardinality({m \in sent : m.conidx = c /\ m.op = op})

(* Every CC reaches the connection that sent its command: the handle is    *)
(* read past the event header at the offset the return format gives.      *)
CcRoutedToIssuer ==
    \A r \in routed : ~ExpectsCs(OpOf(r.uid)) => r.to = Issuer(r.uid)

(* Every event and ACL packet the controller sends about a connection      *)
(* reaches the instance of the link whose handle it carries: GAPC for an   *)
(* HL_CTRL event, L2CC for an HL_DATA event and for ACL data; one about a  *)
(* handle with no link goes to the manager fallback (events) or nowhere    *)
(* (ACL); an HL_MNG event goes to GAPM; an LE event is sent as             *)
(* HCI_LE_EVENT and any other with its code; an event with no descriptor   *)
(* is not sent.  This is hci_look_for_conhdl reading the handle at the     *)
(* offset the row's generic format gives, for every row with one: the      *)
(* PK_SPE connection IQ report, whose format is the unpack function's      *)
(* address, is left out.                                                   *)
EvtRoutedByHandle ==
    \A r \in evts : r.e # "LE_CON_IQ_REPORT" =>
        LET hl   == IF r.e = "ACL" THEN "HL_DATA" ELSE EvtDesc[r.e].hl
            live == TaskId(IF hl = "HL_CTRL" THEN "GAPC" ELSE "L2CC", r.hdl)
        IN /\ r.e # "UNKNOWN"
           /\ r.to = CASE hl = "HL_MNG"  -> TaskId("GAPM", 0)
                        [] r.hdl \in Conns -> live
                        [] OTHER          -> TaskId("HL_MNG", 0)
           /\ r.e # "ACL" => r.msg = IF EvtDesc[r.e].le THEN <<"HCI_LE_EVENT", 0>>
                                     ELSE <<"HCI_EVENT", EvtDesc[r.e].code>>

=============================================================================
