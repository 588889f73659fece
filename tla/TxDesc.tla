-------------------------------- MODULE TxDesc -------------------------------
(***************************************************************************)
(* The descriptor in front of every frame sent (connac2_mac_write_txwi and *)
(* its helpers), the frame as it goes to the USB endpoint, the beacon      *)
(* template, and what a status event says of the rate.  This is the USB    *)
(* chip: not memory mapped, 8 more descriptor words.                       *)
(*                                                                         *)
(* A frame i: kind of frame, flags of mac80211 (tids of the header, the    *)
(* queue, the packet id given by TxStatus) and of its interface and peer.  *)
(***************************************************************************)
EXTENDS RxFrame

TxFrame ==
  [kind : {"data", "qos", "mgmt", "addba", "bar", "beacon"}, mcast : BOOLEAN, encap : BOOLEAN,
   robust : BOOLEAN, injected : BOOLEAN, minRate : BOOLEAN, len : Nat, pid : Nat,
   key : {"none", "ccmp", "cmac"}, vif : BOOLEAN, band : {2, 5, 6}, basic : SUBSET Nat,
   changed : {"none", "inband", "beacon"}, qid : Nat, ac : 0 .. 3, wmm : 0 .. 3,
   amsdu : BOOLEAN, peer : BOOLEAN, wme : BOOLEAN, prio : Nat, baTid : Nat, more : BOOLEAN,
   later : BOOLEAN]

TxdSize == 32                     \* MT_TXD_SIZE
SdioTxdSize == 64                 \* MT_SDIO_TXD_SIZE
PidFirst == 3                     \* MT_PACKET_ID_FIRST
PsdQueue == 4                     \* MT_TXQ_PSD
LmacAltx == 16
LmacBcn == 18

(***************************************************************************)
(* The fixed rate: the lowest basic rate of the BSS, counted from the      *)
(* first rate of its band.  Without an interface it is the first CCK rate  *)
(* on every band.  basic is the set of bits set in basic_rates.            *)
(***************************************************************************)
LowestBit(S) == IF S = {} THEN 0 ELSE CHOOSE b \in S : \A c \in S : b <= c
\* Mutant of TxRateVal: the rate is counted from the first one on every band.
TxRateValNoOffset(i) ==
  LET idx == IF i.vif THEN LowestBit(i.basic) ELSE 0
  IN [mode |-> IF idx < 4 THEN 0 ELSE 1, idx |-> HwValues[idx + 1]]
TxRateVal(i) ==
  LET band == IF i.vif THEN i.band ELSE 2
      offset == IF band # 2 THEN 4 ELSE 0
      idx == offset + (IF i.vif THEN LowestBit(i.basic) ELSE 0)
      used == IF idx >= 12 THEN offset ELSE idx
  IN [mode |-> IF used < 4 THEN 0 ELSE 1, idx |-> HwValues[used + 1]]

(***************************************************************************)
(* Queue and packet format.                                                *)
(***************************************************************************)
LmacMapping(ac) == 3 - ac
QueueOf(i) ==
  CASE i.changed = "inband" -> [fmt |-> "fw", q |-> LmacAltx]
    [] i.changed = "beacon" -> [fmt |-> "fw", q |-> LmacBcn]
    [] i.changed = "none" /\ i.qid >= PsdQueue -> [fmt |-> "sf", q |-> LmacAltx]
    [] OTHER -> [fmt |-> "sf", q |-> (IF i.vif THEN i.wmm ELSE 0) * 4 + LmacMapping(i.ac)]

IsData(i) == i.kind \in {"data", "qos"}
Header8023(i) ==
  [format |-> "802.3", tid |-> i.prio, qos |-> i.peer /\ i.wme, fixed |-> FALSE,
   bip |-> FALSE, frag |-> "none", addBa |-> FALSE, snValid |-> FALSE]
(* A block ack request carries the TID of the session it is about.         *)
HeaderTid(i) == IF i.kind \in {"addba", "bar"} THEN i.baTid ELSE i.prio
FragOf(i) ==
  CASE i.more /\ ~i.later -> "first" [] i.more /\ i.later -> "mid"
    [] ~i.more /\ i.later -> "last" [] OTHER -> "none"
Bip(i) == i.key = "cmac" /\ i.mcast /\ i.robust
Header80211(i) ==
  [format |-> "802.11", tid |-> HeaderTid(i), qos |-> i.kind = "qos",
   fixed |-> ~IsData(i) \/ i.mcast \/ i.minRate,
   bip |-> Bip(i), frag |-> FragOf(i), addBa |-> i.kind = "addba", snValid |-> i.injected]

(***************************************************************************)
(* The descriptor.  A frame somebody waits for, an injected one and one at *)
(* a fixed rate are not put into an A-MSDU by the hardware.                *)
(***************************************************************************)
WriteTxwi(i) ==
  LET h == IF i.encap THEN Header8023(i) ELSE Header80211(i)
  IN [format |-> h.format, tid |-> h.tid, qos |-> h.qos, fixed |-> h.fixed, bip |-> h.bip,
      frag |-> h.frag, addBa |-> h.addBa, snValid |-> h.snValid,
      bytes |-> i.len + SdioTxdSize, fmt |-> QueueOf(i).fmt, queue |-> QueueOf(i).q,
      pid |-> i.pid, toHost |-> i.pid >= PidFirst,
      protect |-> i.key # "none" /\ ~(~i.encap /\ Bip(i)),
      amsdu |-> i.amsdu /\ i.pid < PidFirst /\ ~(~i.encap /\ i.injected) /\ ~h.fixed,
      baDisable |-> h.fixed, htc |-> h.fixed,
      rate |-> IF h.fixed THEN TxRateVal(i) ELSE [mode |-> 0, idx |-> 0]]

(* On the wire: a header with the length of descriptor and frame, both,    *)
(* and zeroes up to a word and one word more.                              *)
RoundUp4(n) == 4 * ((n + 3) \div 4)
HdrBytes(i) == i.len + SdioTxdSize
WireBytes(i) == RoundUp4(HdrBytes(i) + 4) + 4

(* The template of a beacon: its descriptor and its frame in one field of  *)
(* 512 bytes, with the places of the TIM and of the countdown in it.       *)
BeaconReq(i, tim, countdown) ==
  IF i.len > 512 - TxdSize THEN [err |-> TRUE]
  ELSE [err |-> FALSE, txwi |-> WriteTxwi(i), pktLen |-> TxdSize + i.len, tim |-> TxdSize + tim,
        csa |-> IF countdown = 0 THEN 0 ELSE TxdSize + countdown - 4]

(***************************************************************************)
(* fill_txs: the rate of a status event, kept for the entry if its index   *)
(* is one of its mode; nss counts streams, halved by STBC.                 *)
(***************************************************************************)
TxsEvent == [mode : 0 .. 15, idx : Nat, stbc : BOOLEAN, nsts : 0 .. 7, band : {2, 5, 6}]
MaxMcs(mode) == CASE mode \in {2, 3} -> 31 [] mode = 4 -> 9 [] mode \in 8 .. 11 -> 11
                  [] mode \in {0, 1} -> 255
FirstRate == [mcs |-> 0, mode |-> 0, nss |-> 1]
TxsKnown(t) == t.mode \in (0 .. 4) \cup (8 .. 11) /\ t.idx <= MaxMcs(t.mode)
TxsNss(t) == IF t.stbc /\ t.nsts > 0 THEN (t.nsts + 1) \div 2 ELSE t.nsts + 1
FillTxs(rate, t) ==
  IF ~TxsKnown(t) THEN rate
  ELSE [mcs |-> IF t.mode \in {0, 1} THEN GetRate(t.band, t.idx, t.mode = 0) ELSE t.idx,
        mode |-> t.mode, nss |-> TxsNss(t)]

(* After a QoS data frame to a peer with HT or HE, a block ack session of  *)
(* its TID is asked for, once; asked is the peer's ampdu_state.            *)
CheckAggr(asked, d, ht, started) ==
  IF ~ht \/ d.tid >= 6 \/ ~d.qos \/ d.tid \in asked THEN [asked |-> asked, start |-> {}]
  ELSE [asked |-> IF started THEN asked \cup {d.tid} ELSE asked, start |-> {d.tid}]
=============================================================================
