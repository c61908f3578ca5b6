------------------------------ MODULE HciCodec ------------------------------
(***************************************************************************)
(* The controller side of the HCI parameter codec (hci_msg.c, used by     *)
(* hci_tl.c in the BLE_EMB_PRESENT build).                                *)
(*                                                                         *)
(*  - hci_build_le_evt packs the advertising report events IN PLACE: the  *)
(*    special packer is called as pkupk(param, param, &par_len, par_len), *)
(*    so every hci_pack_bytes call copies a field of the kernel structure *)
(*    to a lower or equal address of the same buffer, and the loop bounds *)
(*    (s->nb_reports, s->adv_rep[i].data_len) are re-read from that       *)
(*    buffer while it is being overwritten.                               *)
(*  - hci_cmd_received unpacks the commands with counted arrays (Host     *)
(*    Number Of Completed Packets, LE Set Extended Advertising Enable,    *)
(*    LE Set Extended Scan Parameters, LE Extended Create Connection) in  *)
(*    two passes: a size pass with out = NULL, then the copy into a       *)
(*    kernel message of exactly that size.                                *)
(*                                                                         *)
(* Memory is a function from byte offsets to byte values.  Every byte a   *)
(* property compares carries a distinct value (its original offset plus  *)
(* a base), so a byte copied from the wrong place is visible.  The       *)
(* kernel structures are not part of the repository: their layout is the *)
(* natural C layout of the fields in the order the packers visit them.   *)
(***************************************************************************)
EXTENDS Integers, Sequences, SequencesExt

CONSTANTS
    BdAddrLen,      \* BD_ADDR_LEN
    AdvDataLen,     \* size of adv_rep[i].data[] of hci_le_adv_report_evt
    ExtAdvDataLen,  \* size of adv_rep[i].data[] of hci_le_ext_adv_report_evt
    AdvRepMax,      \* number of adv_rep[] entries of the report structures
    IqSampleMax,    \* number of iq_sample[] entries of the IQ report structures
    MaxHdl,         \* number of con_hdl[] entries of hci_host_nb_cmp_pkts_cmd
    MaxSets,        \* number of adv_hdl[] entries of hci_le_set_ext_adv_en_cmd
    MAX_SCAN_PHYS,  \* number of phy[] entries of hci_le_set_ext_scan_param_cmd
    MAX_INIT_PHYS,  \* number of phy[] entries of hci_le_ext_create_con_cmd
    PhyMasks,       \* the scan_phys / init_phys bytes the Host sends
    KeyLen,         \* KEY_LEN, the bytes of a link key
    MaxKeys,        \* number of link_keys[] entries of hci_wr_stored_lk_cmd
    MaxIac,         \* number of iac_lap[] entries of hci_wr_curr_iac_lap_cmd
    MaxAntennas,    \* number of iq_ctrl[] entries of hci_dbg_iqgen_cfg_cmd
    MaxPeriods,     \* number of period[] entries of hci_set_external_frame_config_cmd
    MaxScanFreqs,   \* number of scan_freq[] entries of hci_set_mws_scan_freq_table_cmd
    MaxIntervals,   \* number of intv[] entries of hci_set_mws_pattern_config_cmd
    NbCmdPkts       \* HCI_NB_CMD_PKTS, the Host's command credits

VARIABLES msg, result
vars == <<msg, result>>

NULL == -1                  \* a NULL pointer
Junk == -2                  \* content of memory nobody has written
Byte == 0 .. 255
HCI_LE_META_EVT_CODE == 62
PackStatus == {"OK", "IN_BUF_OVFLW", "OUT_BUF_OVFLW"}

-----------------------------------------------------------------------------
(* Structure layouts. The kernel structures are not in the repository:   *)
(* each field sits at its natural C offset (2-byte fields 2-aligned), in  *)
(* the order the packer visits the fields; offsets are relative to the    *)
(* start of the header or of the entry.                                   *)

Field(n, off, w) == [name |-> n, off |-> off, w |-> w]
AlignUp(x, a) == ((x + a - 1) \div a) * a

Width(fs) == fs[Len(fs)].off + fs[Len(fs)].w
Align(fs) == IF \E k \in 1 .. Len(fs) : fs[k].w = 2 THEN 2 ELSE 1
IndexIn(fs, n) == CHOOSE k \in 1 .. Len(fs) : fs[k].name = n
SumW(l) == FoldSeq(LAMBDA p, acc : p.w + acc, 0, l)

(* The bytes [off, off + len) of a memory, as a sequence. *)
Bytes(m, off, len) == [j \in 1 .. len |-> m[off + j - 1]]

PopCount(b) == Cardinality({k \in 0 .. 7 : (b \div 2^k) % 2 = 1})
-----------------------------------------------------------------------------
(* The fields each event packer visits, in its order. *)

RepHdrFields == << Field("subcode", 0, 1), Field("nb_reports", 1, 1) >>

AdvRepFields ==
    << Field("evt_type", 0, 1), Field("adv_addr_type", 1, 1),
       Field("adv_addr", 2, BdAddrLen), Field("data_len", 2 + BdAddrLen, 1),
       Field("data", 3 + BdAddrLen, AdvDataLen),
       Field("rssi", 3 + BdAddrLen + AdvDataLen, 1) >>

DirAdvRepFields ==
    << Field("evt_type", 0, 1), Field("addr_type", 1, 1),
       Field("addr", 2, BdAddrLen), Field("dir_addr_type", 2 + BdAddrLen, 1),
       Field("dir_addr", 3 + BdAddrLen, BdAddrLen), Field("rssi", 3 + 2 * BdAddrLen, 1) >>

ExtIntvOff == AlignUp(8 + BdAddrLen, 2)     \* offset of the 16-bit interval
ExtAdvRepFields ==
    << Field("evt_type", 0, 2), Field("adv_addr_type", 2, 1),
       Field("adv_addr", 3, BdAddrLen), Field("phy", 3 + BdAddrLen, 1),
       Field("phy2", 4 + BdAddrLen, 1), Field("adv_sid", 5 + BdAddrLen, 1),
       Field("tx_power", 6 + BdAddrLen, 1), Field("rssi", 7 + BdAddrLen, 1),
       Field("interval", ExtIntvOff, 2), Field("dir_addr_type", ExtIntvOff + 2, 1),
       Field("dir_addr", ExtIntvOff + 3, BdAddrLen),
       Field("data_len", ExtIntvOff + 3 + BdAddrLen, 1),
       Field("data", ExtIntvOff + 4 + BdAddrLen, ExtAdvDataLen) >>

ConlessIqHdrFields ==
    << Field("subcode", 0, 1), Field("sync_hdl", 2, 2), Field("channel_idx", 4, 1),
       Field("rssi", 6, 2), Field("rssi_antenna_id", 8, 1), Field("cte_type", 9, 1),
       Field("slot_dur", 10, 1), Field("pkt_status", 11, 1),
       Field("pa_evt_cnt", 12, 2), Field("sample_cnt", 14, 1) >>

ConIqHdrFields ==
    << Field("subcode", 0, 1), Field("conhdl", 2, 2), Field("rx_phy", 4, 1),
       Field("data_channel_idx", 5, 1), Field("rssi", 6, 2),
       Field("rssi_antenna_id", 8, 1), Field("cte_type", 9, 1),
       Field("slot_dur", 10, 1), Field("pkt_status", 11, 1),
       Field("con_evt_cnt", 12, 2), Field("sample_cnt", 14, 1) >>

IqSampleFields == << Field("i", 0, 1), Field("q", 1, 1) >>

(* The fields each command unpacker visits, in its order. *)

ExtScanHdrFields ==
    << Field("own_addr_type", 0, 1), Field("scan_filt_policy", 1, 1),
       Field("scan_phys", 2, 1) >>
ExtScanPhyFields ==
    << Field("scan_type", 0, 1), Field("scan_intv", 2, 2), Field("scan_window", 4, 2) >>

ExtConHdrFields ==
    << Field("init_filter_policy", 0, 1), Field("own_addr_type", 1, 1),
       Field("peer_addr_type", 2, 1), Field("peer_addr", 3, BdAddrLen),
       Field("init_phys", 3 + BdAddrLen, 1) >>
ExtConPhyFields ==
    << Field("scan_interval", 0, 2), Field("scan_window", 2, 2),
       Field("con_intv_min", 4, 2), Field("con_intv_max", 6, 2),
       Field("con_latency", 8, 2), Field("superv_to", 10, 2),
       Field("ce_len_min", 12, 2), Field("ce_len_max", 14, 2) >>

AdvEvts == {"LE_ADV_REPORT", "LE_DIR_ADV_REP", "LE_EXT_ADV_REPORT"}
IqEvts == {"LE_CONLESS_IQ_REPORT", "LE_CON_IQ_REPORT"}

EvtHdr(ev) ==
    CASE ev \in AdvEvts                -> RepHdrFields
      [] ev = "LE_CONLESS_IQ_REPORT"  -> ConlessIqHdrFields
      [] ev = "LE_CON_IQ_REPORT"      -> ConIqHdrFields
EvtGroup(ev) ==
    CASE ev = "LE_ADV_REPORT"     -> AdvRepFields
      [] ev = "LE_DIR_ADV_REP"    -> DirAdvRepFields
      [] ev = "LE_EXT_ADV_REPORT" -> ExtAdvRepFields
      [] ev \in IqEvts            -> IqSampleFields
GroupMax(ev) == IF ev \in AdvEvts THEN AdvRepMax ELSE IqSampleMax
CountField(ev) == IF ev \in AdvEvts THEN "nb_reports" ELSE "sample_cnt"

GroupSize(ev) == AlignUp(Width(EvtGroup(ev)), Align(EvtGroup(ev)))
GroupBase(ev) == AlignUp(Width(EvtHdr(ev)), Align(EvtGroup(ev)))
HdrOff(ev, k) == EvtHdr(ev)[k].off
CountOff(ev) == HdrOff(ev, IndexIn(EvtHdr(ev), CountField(ev)))
GroupOff(ev, i, k) == GroupBase(ev) + i * GroupSize(ev) + EvtGroup(ev)[k].off
HasData(ev) == \E k \in 1 .. Len(EvtGroup(ev)) : EvtGroup(ev)[k].name = "data"
DataLenOff(ev, i) == GroupOff(ev, i, IndexIn(EvtGroup(ev), "data_len"))
EvtStructSize(ev) ==
    AlignUp(GroupBase(ev) + GroupMax(ev) * GroupSize(ev), Align(EvtHdr(ev) \o EvtGroup(ev)))
-----------------------------------------------------------------------------
(* Where each command unpacker puts the header fields and the fields of  *)
(* entry i of its arrays ([off, w]: offset in the structure, width).     *)

Place(o, w) == [off |-> o, w |-> w]
Placed(fs, base) == [k \in 1 .. Len(fs) |-> Place(base + fs[k].off, fs[k].w)]

(* struct hci_host_nb_cmp_pkts_cmd: nb_of_hdl, con_hdl[], nb_comp_pkt[]. *)
ConHdlOff(i) == 2 + 2 * i
NbCompPktOff(i) == 2 + 2 * MaxHdl + 2 * i
(* struct hci_le_set_ext_adv_en_cmd: enable, nb_sets, adv_hdl[],         *)
(* duration[], max_ext_adv_evt[].                                        *)
AdvEnDurOff(i) == AlignUp(2 + MaxSets, 2) + 2 * i
AdvEnMaxEvtOff(i) == AdvEnDurOff(MaxSets) + i

(* struct hci_wr_stored_lk_cmd: num_key_wr, link_keys[] of bd_addr and  *)
(* link key; struct hci_wr_curr_iac_lap_cmd: nb_curr_iac, iac_lap[].     *)
BD_ADDR_LAP_LEN == 3
LinkKeyOff(i) == 1 + i * (BdAddrLen + KeyLen)
IacLapOff(i) == 1 + BD_ADDR_LAP_LEN * i

(* The commands the Host build also packs (LE and completed packets), and *)
(* those only the BT_EMB_PRESENT controller unpacks.                      *)
HostCmds == {"HOST_NB_CMP_PKTS", "LE_SET_EXT_ADV_EN", "LE_SET_EXT_SCAN_PARAM",
             "LE_EXT_CREATE_CON"}
BtCmds == {"SET_EVT_FILTER", "WR_STORED_LK", "WR_CURR_IAC_LAP"}
(* The BLE_IQ_GEN debug command: nb_antenna, mode, then the i and q     *)
(* control bytes of each antenna.                                        *)
DbgCmds == {"DBG_IQGEN_CFG"}
(* The RW_MWS_COEX commands: external frame configuration (three 16-bit *)
(* fields, then the periods, each a 16-bit duration and a type), the MWS  *)
(* scan frequency table (low and high, 16 bits each) and the MWS pattern  *)
(* (an index, then intervals like the periods).                           *)
MwsCmds == {"SET_EXTERNAL_FRAME_CONFIG", "SET_MWS_SCAN_FREQ_TABLE", "SET_MWS_PATTERN_CONFIG"}
Cmds == HostCmds \cup BtCmds \cup DbgCmds \cup MwsCmds
GroupCmds == Cmds \ {"SET_EVT_FILTER"}

CmdHdr(c) ==
    CASE c \in {"HOST_NB_CMP_PKTS", "SET_MWS_SCAN_FREQ_TABLE"} \cup BtCmds -> << Place(0, 1) >>
      [] c \in {"LE_SET_EXT_ADV_EN", "SET_MWS_PATTERN_CONFIG"} \cup DbgCmds ->
            << Place(0, 1), Place(1, 1) >>
      [] c = "SET_EXTERNAL_FRAME_CONFIG" -> << Place(0, 2), Place(2, 2), Place(4, 2), Place(6, 1) >>
      [] c = "LE_SET_EXT_SCAN_PARAM" -> Placed(ExtScanHdrFields, 0)
      [] c = "LE_EXT_CREATE_CON"     -> Placed(ExtConHdrFields, 0)
CmdGroup(c, i) ==
    CASE c = "HOST_NB_CMP_PKTS"  -> << Place(ConHdlOff(i), 2), Place(NbCompPktOff(i), 2) >>
      [] c = "LE_SET_EXT_ADV_EN" ->
            << Place(2 + i, 1), Place(AdvEnDurOff(i), 2), Place(AdvEnMaxEvtOff(i), 1) >>
      [] c = "LE_SET_EXT_SCAN_PARAM" ->
            Placed(ExtScanPhyFields,
                   AlignUp(Width(ExtScanHdrFields), 2) + i * AlignUp(Width(ExtScanPhyFields), 2))
      [] c = "LE_EXT_CREATE_CON" ->
            Placed(ExtConPhyFields, AlignUp(Width(ExtConHdrFields), 2) + i * Width(ExtConPhyFields))
      [] c = "WR_STORED_LK" ->
            << Place(LinkKeyOff(i), BdAddrLen), Place(LinkKeyOff(i) + BdAddrLen, KeyLen) >>
      [] c = "WR_CURR_IAC_LAP" -> << Place(IacLapOff(i), BD_ADDR_LAP_LEN) >>
      [] c = "DBG_IQGEN_CFG" -> << Place(2 + 2 * i, 1), Place(3 + 2 * i, 1) >>
      [] c = "SET_EXTERNAL_FRAME_CONFIG" -> << Place(8 + 4 * i, 2), Place(10 + 4 * i, 1) >>
      [] c = "SET_MWS_SCAN_FREQ_TABLE" -> << Place(2 + 4 * i, 2), Place(4 + 4 * i, 2) >>
      [] c = "SET_MWS_PATTERN_CONFIG" -> << Place(2 + 4 * i, 2), Place(4 + 4 * i, 1) >>
ArrayLen(c) ==
    CASE c = "HOST_NB_CMP_PKTS" -> MaxHdl [] c = "LE_SET_EXT_ADV_EN" -> MaxSets
      [] c = "LE_SET_EXT_SCAN_PARAM" -> MAX_SCAN_PHYS [] c = "LE_EXT_CREATE_CON" -> MAX_INIT_PHYS
      [] c = "WR_STORED_LK" -> MaxKeys [] c = "WR_CURR_IAC_LAP" -> MaxIac
      [] c = "SET_EVT_FILTER" -> 1 [] c = "DBG_IQGEN_CFG" -> MaxAntennas
      [] c = "SET_EXTERNAL_FRAME_CONFIG" -> MaxPeriods
      [] c = "SET_MWS_SCAN_FREQ_TABLE" -> MaxScanFreqs
      [] c = "SET_MWS_PATTERN_CONFIG" -> MaxIntervals
(* sizeof: the end of the last entry, rounded up to the alignment of a  *)
(* structure with 16-bit fields; the link-key and IAC structures are all *)
(* bytes; the event filter's is its header and its largest condition     *)
(* (a BD address and auto_accept).                                       *)
StructAlign(c) == IF c \in BtCmds \cup DbgCmds THEN 1 ELSE 2
CmdStructSize(c) ==
    IF c = "SET_EVT_FILTER" THEN 2 + BdAddrLen + 1
    ELSE LET last == CmdGroup(c, ArrayLen(c) - 1)
         IN  AlignUp(last[Len(last)].off + last[Len(last)].w, StructAlign(c))
(* Which header field is the count: nb_antenna comes first, the others   *)
(* (nb_of_hdl, nb_sets, the PHY mask, the number of keys or IACs) last.  *)
CountIdx(c) == IF c \in DbgCmds THEN 1 ELSE Len(CmdHdr(c))
CmdCountOff(c) == CmdHdr(c)[CountIdx(c)].off
(* The layouts, computed once: entries 0 .. ArrayLen(c) + 1 (past the    *)
(* array, where a count or PHY mask the Host sends too large points); Set *)
(* Event Filter has no array.                                             *)
Layout == [c \in Cmds |-> [hdr |-> CmdHdr(c), len |-> ArrayLen(c), size |-> CmdStructSize(c),
                           countOff |-> CmdCountOff(c), countIdx |-> CountIdx(c),
                           groups |-> [i \in IF c \in GroupCmds THEN 0 .. ArrayLen(c) + 1 ELSE {} |-> CmdGroup(c, i)]]]
-----------------------------------------------------------------------------
(* hci_pack_bytes and the packing context [outb, inb, inPlace, pIn,      *)
(* pOut, inEnd, outEnd, status] of one call to a packer.                  *)

Src(st) == IF st.inPlace THEN st.outb ELSE st.inb

Put(m, k, v) == IF k \in DOMAIN m THEN [m EXCEPT ![k] = v] ELSE m

(* A memcpy that copies the last byte first. *)
RECURSIVE CopyBytesDown(_, _, _, _, _)
CopyBytesDown(st, d, s, j, len) ==
    IF j >= len THEN st
    ELSE LET k == len - 1 - j
         IN  CopyBytesDown([st EXCEPT !.outb = Put(st.outb, d + k, Src(st)[s + k])],
                           d, s, j + 1, len)

(* memcpy(d, s, len): one byte after the other, from the first. *)
RECURSIVE CopyBytes(_, _, _, _, _)
CopyBytes(st, d, s, j, len) ==
    IF j >= len THEN st
    ELSE CopyBytes([st EXCEPT !.outb = Put(st.outb, d + j, Src(st)[s + j])],
                   d, s, j + 1, len)

(* hci_pack_bytes with the input check off by one. *)
PackBytesAtEnd(st, len) ==
    IF st.pIn + len >= st.inEnd THEN [st EXCEPT !.status = "IN_BUF_OVFLW"]
    ELSE LET c == IF st.outEnd = NULL THEN st ELSE CopyBytes(st, st.pOut, st.pIn, 0, len)
         IN  [c EXCEPT !.pIn = st.pIn + len, !.pOut = st.pOut + len,
                       !.status = IF st.outEnd # NULL /\ st.pOut + len > st.outEnd
                                  THEN "OUT_BUF_OVFLW" ELSE "OK"]

(* hci_pack_bytes: the copy happens even when the output overflows. *)
PackBytes(st, len) ==
    IF st.pIn + len > st.inEnd THEN [st EXCEPT !.status = "IN_BUF_OVFLW"]
    ELSE LET c == IF st.outEnd = NULL THEN st ELSE CopyBytes(st, st.pOut, st.pIn, 0, len)
         IN  [c EXCEPT !.pIn = st.pIn + len, !.pOut = st.pOut + len,
                       !.status = IF st.outEnd # NULL /\ st.pOut + len > st.outEnd
                                  THEN "OUT_BUF_OVFLW" ELSE "OK"]
-----------------------------------------------------------------------------
-----------------------------------------------------------------------------
(* The report event packers (BLE_EMB_PRESENT), called in place: the       *)
(* input of field k is its place in the structure, the output runs on.    *)

PackIn(st, off, len) == PackBytes([st EXCEPT !.pIn = off], len)

(* Header fields k .. last, in order, stopping at the first error. *)
RECURSIVE PackHdr(_, _, _, _)
PackHdr(ev, st, k, last) ==
    IF k > last THEN st
    ELSE LET s2 == PackIn(st, HdrOff(ev, k), EvtHdr(ev)[k].w)
         IN  IF s2.status # "OK" THEN s2 ELSE PackHdr(ev, s2, k + 1, last)

(* The length hci_pack_bytes copies for field k of entry i: data_len is  *)
(* read back from the buffer after it has been packed.                   *)
FieldLen(ev, st, i, k) ==
    IF EvtGroup(ev)[k].name = "data" THEN st.outb[DataLenOff(ev, i)]
    ELSE EvtGroup(ev)[k].w

RECURSIVE PackFields(_, _, _, _)
PackFields(ev, st, i, k) ==
    IF k > Len(EvtGroup(ev)) THEN st
    ELSE LET s2 == PackIn(st, GroupOff(ev, i, k), FieldLen(ev, st, i, k))
         IN  IF s2.status # "OK" THEN s2 ELSE PackFields(ev, s2, i, k + 1)

(* for (i = 0; i < s->nb_reports; i++): the bound is read from the buffer. *)
RECURSIVE PackReports(_, _, _)
PackReports(ev, st, i) ==
    IF i >= st.outb[CountOff(ev)] THEN st
    ELSE LET s2 == PackFields(ev, st, i, 1)
         IN  IF s2.status # "OK" THEN s2 ELSE PackReports(ev, s2, i + 1)

(* for (i = 0; i < sample_cnt; i++): the bound is a local copy. *)
RECURSIVE PackSamples(_, _, _, _)
PackSamples(ev, st, n, i) ==
    IF i >= n THEN st
    ELSE LET s2 == PackFields(ev, st, i, 1)
         IN  IF s2.status # "OK" THEN s2 ELSE PackSamples(ev, s2, n, i + 1)

InPlace(mem, outLen, inLen) ==
    [outb |-> mem, inb |-> mem, inPlace |-> TRUE, pIn |-> 0, pOut |-> 0,
     inEnd |-> inLen, outEnd |-> outLen, status |-> "OK"]
Packed(st) == [mem |-> st.outb, outLen |-> st.pOut, status |-> st.status]

(* hci_le_adv_report_evt_pkupk, hci_le_dir_adv_report_evt_pkupk and      *)
(* hci_le_ext_adv_report_evt_pkupk: subcode, nb_reports, the reports.     *)
LeReportPkupk(ev, mem, outLen, inLen) ==
    LET s1 == PackHdr(ev, InPlace(mem, outLen, inLen), 1, 2)
    IN  Packed(IF s1.status # "OK" THEN s1 ELSE PackReports(ev, s1, 0))

(* hci_le_conless_iq_report_evt_pkupk and hci_le_con_iq_report_evt_pkupk: *)
(* sample_cnt is copied to a local before it is packed, then the samples. *)
LeIqReportPkupk(ev, mem, outLen, inLen) ==
    LET last == Len(EvtHdr(ev))
        s1 == PackHdr(ev, InPlace(mem, outLen, inLen), 1, last - 1)
        n  == s1.outb[CountOff(ev)]
        s2 == IF s1.status # "OK" THEN s1 ELSE PackHdr(ev, s1, last, last)
    IN  Packed(IF s2.status # "OK" THEN s2 ELSE PackSamples(ev, s2, n, 0))

(* The packer the descriptor of a special event points to. *)
LeEvtPkupk(ev, mem, outLen, inLen) ==
    IF ev \in AdvEvts THEN LeReportPkupk(ev, mem, outLen, inLen)
    ELSE LeIqReportPkupk(ev, mem, outLen, inLen)
(* hci_evt_le_desc_tab: the event codes and whether a special packer is used. *)
LeEvtDescTab ==
    LET G(c) == [code |-> c, pk |-> "PK_GEN"]
        S(c) == [code |-> c, pk |-> "PK_SPE"]
    IN  << G("LE_CON_CMP"), S("LE_ADV_REPORT"), G("LE_CON_UPDATE_CMP"),
           G("LE_RD_REM_FEATS_CMP"), G("LE_LTK_REQUEST"), G("LE_REM_CON_PARAM_REQ"),
           G("LE_DATA_LEN_CHG"), G("LE_ENH_CON_CMP"), G("LE_RD_LOC_P256_PUB_KEY_CMP"),
           G("LE_GEN_DHKEY_CMP"), S("LE_DIR_ADV_REP"), G("LE_PHY_UPD_CMP"),
           S("LE_EXT_ADV_REPORT"), G("LE_PER_ADV_SYNC_EST"), G("LE_PER_ADV_REPORT"),
           G("LE_PER_ADV_SYNC_LOST"), G("LE_SCAN_TIMEOUT"), G("LE_ADV_SET_TERMINATED"),
           G("LE_SCAN_REQ_RCVD"), G("LE_CH_SEL_ALGO"), S("LE_CONLESS_IQ_REPORT"),
           S("LE_CON_IQ_REPORT"), G("LE_CTE_REQ_FAILED"), G("LE_PER_ADV_SYNC_TRANSF_REC") >>

NoDesc == [code |-> "none", pk |-> "none"]     \* a NULL descriptor

(* A lookup that searches the tables of the other event kinds. *)
LookForLeEvtDescElsewhere(code) == NoDesc

(* hci_look_for_le_evt_desc: the first row with this code, or NULL. *)
LookForLeEvtDesc(code) ==
    LET idx == {k \in 1 .. Len(LeEvtDescTab) : LeEvtDescTab[k].code = code}
    IN  IF idx = {} THEN NoDesc
        ELSE LeEvtDescTab[CHOOSE k \in idx : \A j \in idx : k <= j]
-----------------------------------------------------------------------------
(* The special command unpackers (BLE_EMB_PRESENT). *)

(* hci_pack_bytes(&p_in, &p_out, ...) after p_out = &field. *)
PackTo(st, f) == PackBytes([st EXCEPT !.pOut = f.off], f.w)

RECURSIVE PackPlaces(_, _)
PackPlaces(st, fs) ==
    IF fs = <<>> THEN st
    ELSE LET s2 == PackTo(st, Head(fs))
         IN  IF s2.status # "OK" THEN s2 ELSE PackPlaces(s2, Tail(fs))

(* hci_set_evt_filter_cmd_upk: filter_type, then for an inquiry or a   *)
(* connection filter the condition type, then the condition's fields,   *)
(* each switch reading the type back from the structure it unpacks to.  *)
INQUIRY_FILTER_TYPE == 1
CONNECTION_FILTER_TYPE == 2
ALL_FILTER_CONDITION_TYPE == 0
CLASS_FILTER_CONDITION_TYPE == 1
BD_ADDR_FILTER_CONDITION_TYPE == 2
DEV_CLASS_LEN == 3
FilterClass == << Place(2, DEV_CLASS_LEN), Place(2 + DEV_CLASS_LEN, DEV_CLASS_LEN) >>
FilterAddr == << Place(2, BdAddrLen) >>
FilterCondTab ==
       (<<INQUIRY_FILTER_TYPE, CLASS_FILTER_CONDITION_TYPE>> :> FilterClass)
    @@ (<<INQUIRY_FILTER_TYPE, BD_ADDR_FILTER_CONDITION_TYPE>> :> FilterAddr)
    @@ (<<CONNECTION_FILTER_TYPE, ALL_FILTER_CONDITION_TYPE>> :> << Place(2, 1) >>)
    @@ (<<CONNECTION_FILTER_TYPE, CLASS_FILTER_CONDITION_TYPE>> :>
            FilterClass \o << Place(2 + 2 * DEV_CLASS_LEN, 1) >>)
    @@ (<<CONNECTION_FILTER_TYPE, BD_ADDR_FILTER_CONDITION_TYPE>> :>
            FilterAddr \o << Place(2 + BdAddrLen, 1) >>)
EvtFilterCondFields(ft, ct) ==
    IF <<ft, ct>> \in DOMAIN FilterCondTab THEN FilterCondTab[<<ft, ct>>] ELSE << >>
FilterCondUpk(s2) ==
    IF s2.status # "OK" THEN s2
    ELSE PackPlaces(s2, EvtFilterCondFields(s2.outb[0], s2.outb[1]))
FilterTypeUpk(s1) ==
    IF s1.status # "OK" \/ s1.outb[0] \notin {INQUIRY_FILTER_TYPE, CONNECTION_FILTER_TYPE} THEN s1
    ELSE FilterCondUpk(PackTo(s1, Place(1, 1)))
SetEvtFilterUpk(st) == FilterTypeUpk(PackTo(st, Place(0, 1)))

(* The loop condition of each unpacker before entry i: nb_cmp_pkts reads *)
(* *in and bounds p_out by the structure, set_ext_adv_en re-reads        *)
(* cmd->nb_sets, the PHY commands count the bits of the PHY mask once.   *)
LoopOn(c, st, n, i) ==
    CASE c = "HOST_NB_CMP_PKTS"  -> i < st.inb[0] /\ st.pOut <= Layout[c].size
      [] c \in {"WR_STORED_LK", "WR_CURR_IAC_LAP"} -> i < st.inb[0]
      [] c \in {"LE_SET_EXT_ADV_EN"} \cup DbgCmds \cup MwsCmds -> i < st.outb[Layout[c].countOff]
      [] OTHER                   -> i < n

RECURSIVE UpkGroups(_, _, _, _)
UpkGroups(c, st, n, i) ==
    IF ~LoopOn(c, st, n, i) THEN st
    ELSE LET s2 == PackPlaces(st, Layout[c].groups[i])
         IN  IF s2.status # "OK" THEN s2 ELSE UpkGroups(c, s2, n, i + 1)

PhyCmds == {"LE_SET_EXT_SCAN_PARAM", "LE_EXT_CREATE_CON"}

(* pkupk(out, payload, &out_len, length). nb_cmp_pkts, wr_stored_lk and *)
(* wr_curr_iac_lap write to out even when it is NULL (p_out_end = NULL    *)
(* then, so nothing is copied); the others unpack into a local temp_out  *)
(* in that case, and the three extended LE commands clear p_out_end      *)
(* before the arrays. *out_len is p_out - p_out_start.                   *)
NullOutCmds == {"HOST_NB_CMP_PKTS", "WR_STORED_LK", "WR_CURR_IAC_LAP"}
\* fault variant: the size pass keeps p_out_end on temp_out for the arrays
UpkArraysNoClear(c, temp, s1) ==
    IF s1.status # "OK" THEN s1
    ELSE UpkGroups(c, s1, IF c \in PhyCmds THEN PopCount(s1.outb[Layout[c].countOff]) ELSE 0, 0)
UpkArrays(c, temp, s1) ==
    IF s1.status # "OK" THEN s1
    ELSE UpkGroups(c, IF temp /\ c \notin BtCmds THEN [s1 EXCEPT !.outEnd = NULL] ELSE s1,
                   IF c \in PhyCmds THEN PopCount(s1.outb[Layout[c].countOff]) ELSE 0, 0)
UpkDone(s) == [out |-> s.outb, outLen |-> s.pOut, status |-> s.status]
CmdUpk(c, out, isNull, payload, outLen, inLen) ==
    LET temp == isNull /\ c \notin NullOutCmds
        st0 == [outb |-> IF temp THEN [k \in 0 .. Layout[c].size - 1 |-> Junk] ELSE out,
                inb |-> payload, inPlace |-> FALSE, pIn |-> 0, pOut |-> 0, inEnd |-> inLen,
                outEnd |-> IF temp THEN Layout[c].size ELSE IF isNull THEN NULL ELSE outLen,
                status |-> "OK"]
    IN  UpkDone(IF c = "SET_EVT_FILTER" THEN SetEvtFilterUpk(st0)
                ELSE UpkArrays(c, temp, PackPlaces(st0, Layout[c].hdr)))

(* The rows of hci_cmd_desc_tab_ctrl_bb and hci_cmd_desc_tab_le for the  *)
(* commands with a special unpacker: OGF, OCF, par_size_max and the      *)
(* ret_par_fmt of the Command Complete (NoRetFmt: a Command Status).     *)
(* The vendor OCF of HCI_DBG_IQGEN_CFG_CMD_OPCODE is defined in hci.h,  *)
(* which is not in the repository; only its distinctness matters here.   *)
DBG_IQGEN_CFG_OCF == 80
NoRetFmt == "NULL"
CmdDescTab ==
    << [name |-> "SET_EVT_FILTER",        ogf |-> 3, ocf |-> 5,  parSizeMax |-> 9, retFmt |-> "B"],
       [name |-> "WR_STORED_LK",          ogf |-> 3, ocf |-> 17, parSizeMax |-> 243, retFmt |-> "BB"],
       [name |-> "HOST_NB_CMP_PKTS",      ogf |-> 3, ocf |-> 53, parSizeMax |-> 30, retFmt |-> "B"],
       [name |-> "WR_CURR_IAC_LAP",       ogf |-> 3, ocf |-> 58, parSizeMax |-> 253, retFmt |-> "B"],
       [name |-> "SET_EXTERNAL_FRAME_CONFIG", ogf |-> 3, ocf |-> 111, parSizeMax |-> 255, retFmt |-> "B"],
       [name |-> "SET_MWS_SCAN_FREQ_TABLE", ogf |-> 3, ocf |-> 114, parSizeMax |-> 255, retFmt |-> "B"],
       [name |-> "SET_MWS_PATTERN_CONFIG", ogf |-> 3, ocf |-> 115, parSizeMax |-> 255, retFmt |-> "B"],
       [name |-> "LE_SET_EXT_ADV_EN",     ogf |-> 8, ocf |-> 57, parSizeMax |-> 42, retFmt |-> "B"],
       [name |-> "LE_SET_EXT_SCAN_PARAM", ogf |-> 8, ocf |-> 65, parSizeMax |-> 13, retFmt |-> "B"],
       [name |-> "LE_EXT_CREATE_CON",     ogf |-> 8, ocf |-> 67, parSizeMax |-> 58, retFmt |-> NoRetFmt],
       [name |-> "DBG_IQGEN_CFG",         ogf |-> 63, ocf |-> DBG_IQGEN_CFG_OCF, parSizeMax |-> 18, retFmt |-> "B"] >>

(* hci_look_for_cmd_desc: the table of the OGF, then its first row with  *)
(* this OCF (NoCmdDesc for NULL).                                        *)
NoCmdDesc == [name |-> "none", ogf |-> 0, ocf |-> 0, parSizeMax |-> 0, retFmt |-> NoRetFmt]
LookForCmdDesc(ogf, ocf) ==
    LET idx == {k \in 1 .. Len(CmdDescTab) : CmdDescTab[k].ogf = ogf /\ CmdDescTab[k].ocf = ocf}
    IN  IF idx = {} THEN NoCmdDesc
        ELSE CmdDescTab[CHOOSE k \in idx : \A j \in idx : k <= j]
OpOf(c) == CHOOSE r \in Range(CmdDescTab) : r.name = c

(* hci_cmd_get_max_param_size: par_size_max of the command, the largest  *)
(* parameter length the transport accepts for it.                        *)
HCI_MAX_CMD_PARAM_SIZE == 255
MaxParamSize(c) ==
    LET d == LookForCmdDesc(OpOf(c).ogf, OpOf(c).ocf)
    IN  IF d = NoCmdDesc THEN HCI_MAX_CMD_PARAM_SIZE ELSE d.parSizeMax
-----------------------------------------------------------------------------
(* The Host build of the same packers (#elif BLE_HOST_PRESENT): memcpy   *)
(* the structure into a local cmd, then write its header fields and the  *)
(* fields of entries 0 .. n-1 one after the other into out, n being the  *)
(* bits of the PHY mask or nb_sets, and set *out_len by its own formula. *)
(* Entries past the local's arrays are read beyond it (Junk). The Host   *)
(* HCI_Host_Number_Of_Completed_Packets packer only returns              *)
(* sizeof(struct hci_host_nb_cmp_pkts_cmd) as its status.                *)
LocalAt(m, k) == IF k \in DOMAIN m THEN m[k] ELSE Junk
(* Mutant: the create-connection length forgets peer_addr_type. *)
HostOutLenShortCon(c, n) ==
    CASE c = "LE_SET_EXT_SCAN_PARAM" -> 3 + 5 * n
      [] c = "LE_EXT_CREATE_CON"     -> 9 + 16 * n
      [] c = "LE_SET_EXT_ADV_EN"     -> 2 + 4 * n
HostOutLen(c, n) ==
    CASE c = "LE_SET_EXT_SCAN_PARAM" -> 3 + 5 * n
      [] c = "LE_EXT_CREATE_CON"     -> 10 + 16 * n
      [] c = "LE_SET_EXT_ADV_EN"     -> 2 + 4 * n
(* The entries a Host structure announces, and the fields the packer    *)
(* writes for them: the header, then entry by entry, each entry's fields *)
(* in order (adv_hdl[i], duration[i], max_ext_adv_evt[i] side by side).  *)
HostCount(c, m) ==
    IF c \in PhyCmds THEN PopCount(m[Layout[c].countOff]) ELSE m[Layout[c].countOff]
HostFields(c, n) == Layout[c].hdr \o FlattenSeq([i \in 1 .. n |-> Layout[c].groups[i - 1]])
(* The Host HCI_Host_Number_Of_Completed_Packets packer: its status is   *)
(* the structure's size, never COMMON_UTIL_PACK_OK.                      *)
HostNbCmpPktsPk == [status |-> "ERROR", out |-> <<>>, outLen |-> 0]
HostCmdPk(c, m) ==
    LET n   == HostCount(c, m)
        fs  == HostFields(c, n)
        out == FlattenSeq([k \in 1 .. Len(fs) |->
                   [j \in 1 .. fs[k].w |-> LocalAt(m, fs[k].off + j - 1)]])
    IN  IF c = "HOST_NB_CMP_PKTS" THEN HostNbCmpPktsPk
        ELSE [status |-> "OK", out |-> out, outLen |-> HostOutLen(c, n)]

-----------------------------------------------------------------------------
(* The messages the codec is given: a report event as the link layer     *)
(* allocates it (the whole structure, param_len = its size), or one of   *)
(* the commands above with any length the transport lets through and a  *)
(* count (or PHY mask) byte up to one entry beyond the structure.        *)

SubcodeByte(ev) ==
    CASE ev = "LE_ADV_REPORT" -> 2 [] ev = "LE_DIR_ADV_REP" -> 11
      [] ev = "LE_EXT_ADV_REPORT" -> 13 [] ev = "LE_CONLESS_IQ_REPORT" -> 21
      [] ev = "LE_CON_IQ_REPORT" -> 22
DataMax(ev) == CASE ev = "LE_ADV_REPORT" -> AdvDataLen
                 [] ev = "LE_EXT_ADV_REPORT" -> ExtAdvDataLen
                 [] OTHER -> 0
IsDataLen(ev, i, k) == HasData(ev) /\ k = DataLenOff(ev, i)

InitStruct(ev, n, lens) ==
    [k \in 0 .. EvtStructSize(ev) - 1 |->
        IF k = 0 THEN SubcodeByte(ev)
        ELSE IF k = CountOff(ev) THEN n
        ELSE IF \E i \in 0 .. n - 1 : IsDataLen(ev, i, k)
             THEN lens[CHOOSE i \in 0 .. n - 1 : IsDataLen(ev, i, k)]
        ELSE 100 + k]

LeEvtMsgsOf(ev, n) ==
    {[kind |-> "le_evt", subcode |-> ev, paramLen |-> EvtStructSize(ev),
      mem |-> InitStruct(ev, n, lens)] : lens \in [0 .. n - 1 -> 0 .. DataMax(ev)]}
LeEvtMsgs == UNION {UNION {LeEvtMsgsOf(ev, n) : n \in 0 .. GroupMax(ev)} : ev \in AdvEvts \cup IqEvts}

(* Where the count byte sits in the parameters, and the values it takes. *)
CountPos(c) == SumW(SubSeq(Layout[c].hdr, 1, Layout[c].countIdx - 1))
CountValues(c) ==
    CASE c = "HOST_NB_CMP_PKTS"  -> 0 .. MaxHdl + 1
      [] c = "LE_SET_EXT_ADV_EN" -> 0 .. MaxSets + 1
      [] c = "WR_STORED_LK"      -> 0 .. MaxKeys + 1
      [] c = "WR_CURR_IAC_LAP"   -> 0 .. MaxIac + 1
      [] c = "DBG_IQGEN_CFG"     -> 0 .. MaxAntennas + 1
      [] c = "SET_EXTERNAL_FRAME_CONFIG" -> 0 .. MaxPeriods + 1
      [] c = "SET_MWS_SCAN_FREQ_TABLE" -> 0 .. MaxScanFreqs + 1
      [] c = "SET_MWS_PATTERN_CONFIG" -> 0 .. MaxIntervals + 1
      [] OTHER                   -> PhyMasks
(* The bytes the unpacker decides on: the count, or the filter and      *)
(* condition types (the defined ones and one undefined).                 *)
Selectors(c) ==
    IF c = "SET_EVT_FILTER" THEN [{0, 1} -> 0 .. 3]
    ELSE {[p \in {CountPos(c)} |-> v] : v \in CountValues(c)}
(* A length past the longest encoding these counts need, plus one, is   *)
(* unpacked as that length is: the rest of the input is never read.     *)
LenMax(c) ==
    LET most == IF c \in PhyCmds THEN Max({PopCount(v) : v \in PhyMasks})
                ELSE Max(CountValues(c))
    IN  IF c = "SET_EVT_FILTER" THEN MaxParamSize(c)
        ELSE Min({MaxParamSize(c), SumW(Layout[c].hdr) + most * SumW(Layout[c].groups[0]) + 1})

Payload(c, len, sel) == [k \in 0 .. len - 1 |-> IF k \in DOMAIN sel THEN sel[k] ELSE 100 + k]
CmdMsgsOf(c) ==
    {[kind |-> "cmd", opcode |-> c, length |-> len, payload |-> Payload(c, len, sel), from |-> <<>>]
        : len \in 0 .. LenMax(c), sel \in Selectors(c)}
CmdMsgs == UNION {CmdMsgsOf(c) : c \in Cmds}

(* A command the Host side builds: the kernel structure of one of the    *)
(* commands above, allocated whole, its count (or PHY mask) byte up to   *)
(* one entry beyond the arrays.                                          *)
HostStruct(c, v) == [k \in 0 .. Layout[c].size - 1 |-> IF k = Layout[c].countOff THEN v ELSE 100 + k]
HostCmdMsgs == UNION {{[kind |-> "host_cmd", opcode |-> c, mem |-> HostStruct(c, v)]
                          : v \in CountValues(c)} : c \in HostCmds}

Msgs == LeEvtMsgs \cup CmdMsgs \cup HostCmdMsgs

None == [kind |-> "none", wire |-> <<>>, params |-> <<>>, err |-> "none", status |-> "OK",
         reply |-> <<>>]
-----------------------------------------------------------------------------
(* hci_build_le_evt: look the descriptor up, pack in place, then write    *)
(* the event code and the one-byte parameter length in front of param.   *)
BuildLeEvt ==
    /\ msg.kind = "le_evt"
    /\ result.kind = "none"
    /\ LET desc == LookForLeEvtDesc(msg.subcode)
           r    == LeEvtPkupk(msg.subcode, msg.mem, msg.paramLen, msg.paramLen)
       IN  result' =
             IF desc = NoDesc \/ r.status # "OK"
             THEN [None EXCEPT !.kind = "evt", !.wire = <<Junk, Junk>>,
                               !.status = IF desc = NoDesc THEN "OK" ELSE r.status]
             ELSE [None EXCEPT !.kind = "evt", !.status = r.status,
                     !.wire = <<HCI_LE_META_EVT_CODE, r.outLen % 256>>
                              \o Bytes(r.mem, 0, r.outLen)]
    /\ UNCHANGED msg

(* The HCI status codes and event framing hci_tl.c uses (co_error.h and  *)
(* hci.h are not in the repository: the values of the HCI specification). *)
ErrCode == [INVALID_HCI_PARAM |-> 18, MEMORY_CAPA_EXCEED |-> 7]
COMMON_ERROR_UNKNOWN_HCI_COMMAND == 1
HCI_NO_OPERATION_CMD_OPCODE == 0
HCI_CMD_CMP_EVT_CODE == 14
HCI_CMD_STATUS_EVT_CODE == 15
HCI_CCEVT_HDR_PARLEN == 3
HCI_CSEVT_PARLEN == 4
HCI_EVT_HDR_LEN == 2
(* The bytes a fresh kernel message may hold where nothing wrote them.   *)
HeapBytes == {0, 255}
Opcode(d) == d.ogf * 1024 + d.ocf
(* common_util_unpack(NULL, ..., fmt) sizes a B-only format: one byte per *)
(* B.                                                                     *)
RetParLen(fmt) == Len(fmt)

(* hci_cmd_reject: a command with a return format gets a Command         *)
(* Complete of the size that format unpacks to, with only its status     *)
(* written; one without gets a Command Status. None of these rows has a  *)
(* BH or B6B return format.                                              *)
CmdReject(desc, err) ==
    IF desc.retFmt # NoRetFmt
    THEN {[id |-> "CC", opcode |-> Opcode(desc), params |-> <<ErrCode[err]>> \o rest]
             : rest \in [1 .. RetParLen(desc.retFmt) - 1 -> HeapBytes]}
    ELSE {[id |-> "CS", opcode |-> Opcode(desc), params |-> <<ErrCode[err]>>]}

(* hci_cmd_received for a command with a special unpacker: size pass,    *)
(* reject on input overflow, allocate, unpack, send.                     *)
CmdSent(p2) == [None EXCEPT !.kind = "sent", !.params = p2.out, !.status = p2.status]
Rejected(c, err) ==
    {[None EXCEPT !.kind = "reject", !.err = err, !.reply = km] : km \in CmdReject(OpOf(c), err)}
CmdUnpackBoth(c, p1) ==
    IF p1.status = "IN_BUF_OVFLW"
    THEN result' \in Rejected(c, "INVALID_HCI_PARAM")
    ELSE \/ result' \in Rejected(c, "MEMORY_CAPA_EXCEED")
         \/ result' = LET buf == [k \in 0 .. p1.outLen - 1 |-> Junk]
                      IN  CmdSent(IF p1.outLen > 0
                                  THEN CmdUpk(c, buf, FALSE, msg.payload, p1.outLen, msg.length)
                                  ELSE [out |-> buf, outLen |-> 0, status |-> "OK"])
CmdReceived ==
    /\ msg.kind = "cmd"
    /\ result.kind = "none"
    /\ LET c == LookForCmdDesc(OpOf(msg.opcode).ogf, OpOf(msg.opcode).ocf).name
       IN  CmdUnpackBoth(c, IF msg.length > 0
                            THEN CmdUpk(c, <<>>, TRUE, msg.payload, 0, msg.length)
                            ELSE [out |-> <<>>, outLen |-> 0, status |-> "OK"])
    /\ UNCHANGED msg

(* hci_build_cmd (Host build): the special packer in place, over the    *)
(* kernel parameters, then opcode and the low byte of par_len in front;   *)
(* NULL when the packer did not return COMMON_UTIL_PACK_OK. The buffer   *)
(* keeps the structure's own bytes past what the packer wrote.           *)
HostBuildCmd ==
    /\ msg.kind = "host_cmd"
    /\ result.kind = "none"
    /\ LET r == HostCmdPk(msg.opcode, msg.mem)
           params == [k \in 0 .. r.outLen - 1 |->
                         IF k < Len(r.out) THEN r.out[k + 1] ELSE LocalAt(msg.mem, k)]
       IN  result' = IF r.status # "OK" THEN [None EXCEPT !.kind = "null"]
                     ELSE [None EXCEPT !.kind = "frame", !.params = params,
                                       !.wire = <<r.outLen % 256>>]
    /\ UNCHANGED msg

(* hci_tx_start sends HCI_CMD_HDR_LEN + par_len bytes of the frame, and  *)
(* the controller's transport hands the command to hci_cmd_received.     *)
HciCmdTransport ==
    /\ msg.kind = "host_cmd"
    /\ result.kind = "frame"
    /\ LET len == result.wire[1]
       IN  msg' = [kind |-> "cmd", opcode |-> msg.opcode, length |-> len,
                   payload |-> [k \in 0 .. len - 1 |-> result.params[k]], from |-> msg.mem]
    /\ result' = None

(* hci_build_cs_evt and hci_build_cc_evt write the event code, parameter *)
(* length, credit (never below 0) and opcode in front of the parameters; *)
(* the CC's B-only return format packs onto itself, and without a        *)
(* descriptor or parameters its status becomes "Unknown HCI command".    *)
\* fault variant: the credit cast to uint8_t without the clamp
CreditNoClamp(nb) == nb % 256
Credit(nb) == IF nb > 0 THEN nb ELSE 0
CsEvtFrame(km, nb) ==
    <<HCI_CMD_STATUS_EVT_CODE, HCI_CSEVT_PARLEN, km.params[1], Credit(nb),
      km.opcode % 256, km.opcode \div 256>>
CcEvtFrame(km, nb) ==
    LET desc == LookForCmdDesc(km.opcode \div 1024, km.opcode % 1024)
        len  == Len(km.params)
        par  == IF (desc # NoCmdDesc /\ len > 0) \/ km.opcode = HCI_NO_OPERATION_CMD_OPCODE
                THEN km.params
                ELSE [k \in 1 .. len |-> IF k = 1 THEN COMMON_ERROR_UNKNOWN_HCI_COMMAND
                                       ELSE km.params[k]]
    IN  <<HCI_CMD_CMP_EVT_CODE, (HCI_CCEVT_HDR_PARLEN + len) % 256, Credit(nb),
          km.opcode % 256, km.opcode \div 256>> \o par

(* The credit count when hci_tx_start picks the reply: some command is   *)
(* still unanswered, and rejects for exhausted credit drive it negative. *)
NbH2cCmdPkts == {-2, 0, NbCmdPkts - 1}

(* hci_tx_start for the CC or CS of a rejected command: return the       *)
(* command's credit, build the event, send HCI_EVT_HDR_LEN + its         *)
(* parameter length bytes of it.                                         *)
TxCmdReply ==
    /\ result.kind = "reject"
    /\ \E nb \in NbH2cCmdPkts :
         LET km  == result.reply
             n   == IF nb < NbCmdPkts THEN nb + 1 ELSE nb
             buf == IF km.id = "CC" THEN CcEvtFrame(km, n) ELSE CsEvtFrame(km, n)
         IN  result' = [result EXCEPT !.kind = "reply",
                                      !.wire = SubSeq(buf, 1, HCI_EVT_HDR_LEN + buf[2])]
    /\ UNCHANGED msg

(* The next message reaches the codec once the previous one is handled  *)
(* (a frame in flight is delivered first). *)
(* Every message is an initial state and the codec keeps nothing from   *)
(* one call to the next, so the next message is taken to be this one    *)
(* again: any other would start from a state Init already has.         *)
NextMsg ==
    /\ result.kind \notin {"none", "frame", "reject"}
    /\ result' = None
    /\ UNCHANGED msg

Init == msg \in Msgs /\ result = None
Next == BuildLeEvt \/ CmdReceived \/ HostBuildCmd \/ HciCmdTransport \/ TxCmdReply \/ NextMsg
Spec == Init /\ [][Next]_vars
-----------------------------------------------------------------------------
(* Every result has its type; an event on the wire is made of bytes. *)
TypeOK ==
    /\ msg.kind \in {"le_evt", "cmd", "host_cmd"}
    /\ result.kind \in {"none", "evt", "sent", "reject", "reply", "frame", "null"}
    /\ result.status \in PackStatus
    /\ result.err \in {"none", "INVALID_HCI_PARAM", "MEMORY_CAPA_EXCEED"}
    /\ result.kind \in {"evt", "reply"} => result.wire \in Seq(Byte)

(* The HCI encoding of a report event: the header fields, then every     *)
(* entry's fields in order, data cut to data_len.                        *)
RefEntry(ev, m, i) ==
    LET fs == EvtGroup(ev)
        len(k) == IF fs[k].name = "data" THEN m[DataLenOff(ev, i)] ELSE fs[k].w
    IN  FlattenSeq([k \in 1 .. Len(fs) |-> Bytes(m, GroupOff(ev, i, k), len(k))])
RefLeEvt(ev, m) ==
    FlattenSeq([k \in 1 .. Len(EvtHdr(ev)) |-> Bytes(m, HdrOff(ev, k), EvtHdr(ev)[k].w)])
    \o FlattenSeq([i \in 1 .. m[CountOff(ev)] |-> RefEntry(ev, m, i - 1)])

(* hci_build_le_evt compacts an advertising or IQ report in place,       *)
(* overwriting the structure it is still reading nb_reports, data_len    *)
(* and sample_cnt from: the event it emits is the HCI encoding of the    *)
(* report the link layer built, with the right parameter length.         *)
LeEvtWire ==
    (msg.kind = "le_evt" /\ result.kind = "evt") =>
        LET ref == RefLeEvt(msg.subcode, msg.mem)
        IN  result.wire = <<HCI_LE_META_EVT_CODE, Len(ref) % 256>> \o ref

(* The HCI encoding of a command: the fields in the order the HCI        *)
(* specification lists them, one after the other without padding. For    *)
(* a counted command these are the header and the fields of each entry   *)
(* the count (or the PHY mask) announces; for Set Event Filter the filter *)
(* type, then for an inquiry or connection filter the condition type and *)
(* the fields of that condition. Each is paired with its place in the    *)
(* structure.                                                             *)
WireCount(c, p) == IF c \in PhyCmds THEN PopCount(p[CountPos(c)]) ELSE p[CountPos(c)]
RefCmdFields(c, p, len) ==
    IF c = "SET_EVT_FILTER"
    THEN LET ft == p[0]
             ct == IF len > 1 THEN p[1] ELSE 0
         IN  << Place(0, 1) >> \o
             (IF ft \in {INQUIRY_FILTER_TYPE, CONNECTION_FILTER_TYPE}
              THEN << Place(1, 1) >> \o EvtFilterCondFields(ft, ct) ELSE << >>)
    ELSE LET n == IF len > CountPos(c) THEN WireCount(c, p) ELSE 0
         IN  Layout[c].hdr \o FlattenSeq([i \in 1 .. n |-> Layout[c].groups[i - 1]])
CountFits(c, p, len) ==
    c = "SET_EVT_FILTER" \/ len <= CountPos(c) \/ WireCount(c, p) <= Layout[c].len
WireAt(fs, k) == SumW(SubSeq(fs, 1, k - 1))
Moved(params, payload, f, wo) == Bytes(params, f.off, f.w) = Bytes(payload, wo, f.w)

(* hci_cmd_received and the two passes of a special unpacker: a command  *)
(* whose count fits its structure reaches the link layer only when the   *)
(* host sent every field its encoding announces, and then carries        *)
(* exactly the host's fields, each in its place; it is refused as        *)
(* invalid only when it is short. For Set Event Filter this includes the *)
(* filter and condition types read back from the structure being filled. *)
CmdUnpacked ==
    LET c  == msg.opcode
        fs == RefCmdFields(c, msg.payload, msg.length)
    IN  (msg.kind = "cmd" /\ msg.length > 0 /\ CountFits(c, msg.payload, msg.length)) =>
          /\ result.kind = "sent" =>
                /\ msg.length >= SumW(fs)
                /\ \A k \in 1 .. Len(fs) : Moved(result.params, msg.payload, fs[k], WireAt(fs, k))
          /\ result.err = "INVALID_HCI_PARAM" => msg.length < SumW(fs)

(* The Host packer and the controller unpacker are the two halves of one *)
(* encoding: a command the Host builds from a structure whose count fits *)
(* its arrays is accepted by hci_cmd_received (unless the kernel         *)
(* allocation fails) and reaches the link layer with every header field  *)
(* and every announced entry's fields as the Host had them.              *)
CmdRoundTrip ==
    LET c  == msg.opcode
        m  == msg.from
        fs == HostFields(c, HostCount(c, m))
    IN  (msg.kind = "cmd" /\ m # <<>> /\ result.kind # "none" /\ HostCount(c, m) <= Layout[c].len) =>
          \/ result.err = "MEMORY_CAPA_EXCEED"
          \/ /\ result.kind = "sent"
             /\ \A k \in 1 .. Len(fs) : Bytes(result.params, fs[k].off, fs[k].w) = Bytes(m, fs[k].off, fs[k].w)
(* hci_cmd_received sizes the message with a first pass of the special  *)
(* unpacker and unpacks into it with a second: whatever count the Host   *)
(* claims, also one beyond the structure's arrays (where entries alias   *)
(* the next array), a command that is sent to the link layer was        *)
(* unpacked with COMMON_UTIL_PACK_OK, so the second pass wrote nothing   *)
(* past the message the first pass asked for and read nothing past the  *)
(* Host's parameters.                                                    *)
SizePassBoundsUnpack ==
    (msg.kind = "cmd" /\ result.kind = "sent") => result.status = "OK"
(* hci_cmd_reject with hci_tx_start: a command hci_cmd_received refuses  *)
(* is answered by one HCI event, a Command Complete exactly when its     *)
(* descriptor has a return format (with one byte per B of it) and a      *)
(* Command Status otherwise; its length byte counts the bytes sent after *)
(* the header, and it carries the refused opcode, the refusal's status   *)
(* and a credit between 0 and HCI_NB_CMD_PKTS, though the count it is    *)
(* read from may be negative.                                            *)
RejectReplyWire ==
    (msg.kind = "cmd" /\ result.kind = "reply") =>
        LET w    == result.wire
            desc == OpOf(msg.opcode)
            cc   == desc.retFmt # NoRetFmt
            at   == IF cc THEN [op |-> 4, st |-> 6, cr |-> 3] ELSE [op |-> 5, st |-> 3, cr |-> 4]
        IN  /\ Len(w) = IF cc THEN 5 + Len(desc.retFmt) ELSE 6
            /\ w[2] = Len(w) - 2
            /\ w[1] = IF cc THEN HCI_CMD_CMP_EVT_CODE ELSE HCI_CMD_STATUS_EVT_CODE
            /\ w[at.op] + 256 * w[at.op + 1] = desc.ogf * 1024 + desc.ocf
            /\ w[at.st] = ErrCode[result.err]
            /\ w[at.cr] \in 0 .. NbCmdPkts
=============================================================================
