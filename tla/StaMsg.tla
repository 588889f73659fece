------------------------------- MODULE StaMsg -------------------------------
(***************************************************************************)
(* The station records of standalone_mt76_connac_mcu.c: STA_REC_UPDATE     *)
(* messages made of TLVs, the last of which, STA_REC_WTBL, holds the TLVs  *)
(* of the hardware's own station table.  Each TLV writes its length and a  *)
(* counter at the front of its container when it is appended, into a       *)
(* buffer allocated once for the largest record the authors expected.      *)
(* Modelled is what the chip of this driver, a connac2, is sent: the three *)
(* builders sta_cmd, sta_ba and sta_update_hdr_trans.                      *)
(***************************************************************************)
EXTENDS Naturals, Sequences, SequencesExt

(* Bytes of each structure of standalone_mt76_connac_mcu.h.                *)
StaSize == [basic |-> 20, ht |-> 8, vht |-> 16, apps |-> 12, ba |-> 12,
            he |-> 28, hev2 |-> 28, amsdu |-> 8, state |-> 12, ra |-> 16,
            phy |-> 12, he6g |-> 8, wtbl |-> 4]
WtblSize == [generic |-> 20, rx |-> 12, ht |-> 12, vht |-> 12,
             trans |-> 8, smps |-> 8, ba |-> 28]
HdrSize == 8                      \* sta_req_hdr, and wtbl_req_hdr
(* The TLVs that have room in the buffer though this chip is not sent them: *)
(* bf, muru, bfee, sta_rec_ra, sec, ra_fixed, pn_info, tx_proc, eml_op, and *)
(* of the table tx_ps, bf, pn and spe.                                      *)
StaSpare == 48 + 36 + 8 + 53 + 80 + 25 + 12 + 8 + 8
WtblSpare == 8 + 12 + 12 + 8
WtblMax == HdrSize + 20 + 12 + 12 + 12 + 8 + 28 + 8 + WtblSpare
StaMax == HdrSize + 20 + 8 + 28 + 12 + 16 + 12 + 8 + 8 + 4 + StaSpare + WtblMax

(***************************************************************************)
(* A message under construction: the TLVs, what the header counts, and the *)
(* same of the table within STA_REC_WTBL (len its length field).           *)
(***************************************************************************)
Empty == [x \in {} |-> 0]
Tlv(tag, body) == [tag |-> tag, size |-> StaSize[tag], says |-> body]
Wtbl(tag, body) == [tag |-> tag, size |-> WtblSize[tag], says |-> body]
NoTable == [open |-> FALSE, num |-> 0, len |-> 0, tlvs |-> <<>>]
AllocStaReq(wcidSta, omac) ==
  [muar |-> IF wcidSta THEN omac ELSE 14, num |-> 0, tlvs |-> <<>>, table |-> NoTable]
AddTlv(m, t) == [m EXCEPT !.num = @ + 1, !.tlvs = Append(@, t)]
\* Mutant of AddNestedTlv: the length of the table is left as it was allocated.
AddNestedTlvShort(m, t) ==
  LET old == m.table
  IN [m EXCEPT !.table = [old EXCEPT !.num = @ + 1, !.tlvs = Append(@, t)]]
AddNestedTlv(m, t) ==
  LET old == m.table
  IN [m EXCEPT !.table = [old EXCEPT !.num = @ + 1, !.len = @ + t.size, !.tlvs = Append(@, t)]]
NewTable == [open |-> TRUE, num |-> 0, len |-> StaSize.wtbl + HdrSize, tlvs |-> <<>>]
AllocWtblReq(m) == [AddTlv(m, Tlv("wtbl", Empty)) EXCEPT !.table = NewTable]
AddAll(m, ts) == FoldLeft(AddTlv, m, ts)
AddAllNested(m, ts) == FoldLeft(AddNestedTlv, m, ts)
When(cond, ts) == IF cond THEN ts ELSE <<>>

(***************************************************************************)
(* What mac80211 knows of a station and of its interface; an interface's   *)
(* own entry has sta = FALSE.  6 GHz stations have no HT or VHT element,   *)
(* 2.4 GHz ones no VHT; HE ones of 6 GHz have the capabilities (capa) that *)
(* stand for them.  offload is a constant of the driver.                   *)
(***************************************************************************)
StaInput ==
  {i \in [type : {"ap", "station", "adhoc"}, band : {2, 5, 6}, omac : Nat,
          sta : BOOLEAN, enable : BOOLEAN, newly : BOOLEAN, assoc : BOOLEAN, offload : {TRUE},
          flags : SUBSET {"trans", "4addr", "tdls"}, amsdu : BOOLEAN, wme : BOOLEAN,
          ht : BOOLEAN, vht : BOOLEAN, he : BOOLEAN, wide : BOOLEAN, split : BOOLEAN,
          capa : BOOLEAN] :
     (i.vht => i.band # 2) /\ (i.capa <=> i.band = 6 /\ i.he)}
BaInput == [tx : BOOLEAN, enable : BOOLEAN, tid : Nat, size : Nat, omac : Nat]
PhyMode(i) ==
  (IF i.band = 2 THEN {"dsss", "erp"} ELSE {"ofdm"})
    \cup {c \in {"ht", "he"} : i[c]} \cup {c \in {"vht"} : i[c] /\ i.band # 2}
ConnType(i) == CASE i.type = "ap" -> "infra_sta" [] i.type = "station" -> "infra_ap"
                 [] i.type = "adhoc" -> "ibss"
AidOf(i) == IF i.type = "station" THEN "vif" ELSE "sta"

BasicTlv(i) ==
  Tlv("basic", [conn |-> ConnType(i), state |-> IF i.enable THEN "secure" ELSE "off",
                isNew |-> i.newly /\ i.enable, peer |-> "sta", aid |-> AidOf(i)])
Uapsd(i) == When(i.type = "ap" /\ i.wme, <<Tlv("apps", Empty)>>)
AmsduTlv(i) == When(i.amsdu /\ i.type \in {"ap", "station"}, <<Tlv("amsdu", Empty)>>)
(* Both HE records carry the rates of 80 MHz, and of 160 MHz and 80+80 MHz *)
(* when the station is at that width and its capability allows.            *)
HeWidths(i) == {80} \cup (IF i.wide THEN {160} ELSE {})
                    \cup (IF i.wide /\ i.split THEN {8080} ELSE {})
HeTlv(i) == <<Tlv("he", [widths |-> HeWidths(i)])>>
HeTlvV2(i) == <<Tlv("hev2", [widths |-> HeWidths(i)])>>
StaTlv(i) ==
  When(i.ht, <<Tlv("ht", Empty)>>) \o When(i.vht, <<Tlv("vht", Empty)>>)
  \o Uapsd(i) \o When(i.ht \/ i.he, AmsduTlv(i))
  \o When(i.he, HeTlv(i) \o HeTlvV2(i))
  \o When(i.he /\ i.band = 6 /\ i.assoc, <<Tlv("he6g", Empty)>>)
  \o <<Tlv("phy", [mode |-> PhyMode(i)]), Tlv("ra", [mcs |-> i.ht]),
       Tlv("state", [opmode |-> i.vht])>>

WtblGeneric(i) ==
  Wtbl("generic", IF i.sta THEN [peer |-> "sta", aid |-> AidOf(i), muar |-> i.omac]
                  ELSE [peer |-> IF i.type = "station" THEN "bssid" ELSE "bcast",
                        aid |-> "none", muar |-> 14])
WtblRx(i) == Wtbl("rx", [rca1 |-> i.sta => i.type # "ap"])
WtblGenericTlv(i) == <<WtblGeneric(i), WtblRx(i)>>
WtblHdrTrans(i) ==
  LET ds == CASE "tdls" \in i.flags -> {} [] "4addr" \in i.flags -> {"to", "from"}
              [] OTHER -> IF i.type = "station" THEN {"to"} ELSE {"from"}
  IN Wtbl("trans", [ds |-> ds, rx |-> "trans" \in i.flags])
WtblSmps(i) == Wtbl("smps", Empty)
WtblHtTlv(i) ==
  When(i.ht \/ i.capa, <<Wtbl("ht", [from |-> IF i.ht THEN "ht" ELSE "he6g"])>>)
  \o When(i.vht \/ i.capa, <<Wtbl("vht", Empty)>>) \o <<WtblSmps(i)>>

(***************************************************************************)
(* The three builders.  sta_cmd with enable = FALSE resets the entry and   *)
(* describes no station; sta_ba sends one message for the hardware table   *)
(* and a second one for the firmware's record.                             *)
(***************************************************************************)
StaCmdMsg(i) ==
  LET head == AddAll(AllocStaReq(i.sta, i.omac),
                     When(i.sta \/ ~i.offload, <<BasicTlv(i)>>)
                       \o When(i.sta /\ i.enable, StaTlv(i)))
  IN AddAllNested(AllocWtblReq(head),
       When(i.enable, WtblGenericTlv(i) \o <<WtblHdrTrans(i)>>
                        \o When(i.sta, WtblHtTlv(i))))

WtblBaTlv(b) ==
  Wtbl("ba", [role |-> IF b.tx THEN "originator" ELSE "recipient", tid |-> b.tid,
              win |-> IF b.enable THEN b.size ELSE 0, en |-> b.tx /\ b.enable])
StaBaTlv(b) ==
  Tlv("ba", [role |-> IF b.tx THEN "originator" ELSE "recipient", tid |-> b.tid,
             win |-> b.size, en |-> IF b.enable THEN {b.tid} ELSE {}])
StaBaMsgs(b) ==
  <<AddNestedTlv(AllocWtblReq(AllocStaReq(TRUE, b.omac)), WtblBaTlv(b)),
    AddTlv(AllocStaReq(TRUE, b.omac), StaBaTlv(b))>>
HdrTransMsg(i) ==
  AddNestedTlv(AllocWtblReq(AllocStaReq(i.sta, i.omac)), WtblHdrTrans(i))

(***************************************************************************)
(* What a reader of the record does: it steps from TLV to TLV by their     *)
(* length fields, num times, and in the table the same.                    *)
(***************************************************************************)
Total(ns) == FoldLeft(LAMBDA sum, n : sum + n, 0, ns)
BytesOf(ts) == Total([k \in DOMAIN ts |-> ts[k].size])
MsgBytes(m) == HdrSize + BytesOf(m.tlvs)
                 + IF m.table.open THEN HdrSize + BytesOf(m.table.tlvs) ELSE 0
LenField(m, t) == IF t.tag = "wtbl" THEN m.table.len ELSE t.size
ReaderEnds(m) == HdrSize + Total([k \in 1 .. m.num |-> LenField(m, m.tlvs[k])])
Tags(ts) == {ts[k].tag : k \in DOMAIN ts}
=============================================================================
