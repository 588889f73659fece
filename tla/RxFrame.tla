------------------------------- MODULE RxFrame ------------------------------
(***************************************************************************)
(* What the receive path makes of the frames of one queue, from the        *)
(* descriptor to the list handed to mac80211: mt7921_mac_fill_rx, the      *)
(* joining of A-MSDU subframes in mac80211.c and rx_complete.  Reordering, *)
(* which lies in between, is RxReorder's and is left out: the frames here  *)
(* pass it in the order they came.                                         *)
(*                                                                         *)
(* A descriptor f: the condition bits of its first words, the groups that  *)
(* follow it (groups, a subset of 1..5) and the words the transfer holds   *)
(* (words), the frame that comes after (ctl its kind, ds its DS bits).     *)
(* The hardware pads a header to whole words, by one half word at most.    *)
(***************************************************************************)
EXTENDS Integers, Sequences, FiniteSets, SequencesExt

CONSTANT RefMod                   \* the A-MPDU reference is a u32
ASSUME RefAssumption == RefMod \in Nat /\ RefMod > 2

CONSTANT RxBands                  \* the bands the chip has channels in

RxDescriptor ==
  [id : Nat, band1 : BOOLEAN, running : BOOLEAN, wcid : {"none", "vif", "sta"}, unicast : BOOLEAN,
   trans : BOOLEAN, cm : BOOLEAN, clm : BOOLEAN, icv : BOOLEAN,
   sec : {"none", "wep", "tkip", "ccmp", "gcmp"}, amsduErr : BOOLEAN, lenErr : BOOLEAN,
   groups : SUBSET (1 .. 5), words : Nat \ (0 .. 6), pad : {0, 1},
   ctl : {"qos", "qosnull", "mgmt", "other"}, ds : SUBSET {"to", "from"}, more : BOOLEAN,
   later : BOOLEAN, fragment : BOOLEAN, amsdu : {"no", "first", "mid", "last"}, seq : Nat,
   tid : 0 .. 15, pn : Nat, ts : Nat, ampdu : BOOLEAN, mode : 0 .. 15, idx : 0 .. 127,
   bw : 0 .. 7, chfreq : 0 .. 255, llc : BOOLEAN]
\* The frames of a queue, each with its turn.
RxInput == {fs \in Seq(RxDescriptor) : \A k \in DOMAIN fs : fs[k].id = k}

(***************************************************************************)
(* The wcid a descriptor's index stands for.  A group frame of a station   *)
(* is accounted to the entry of its interface.                             *)
(***************************************************************************)
RxGetWcid(f) ==
  IF f.unicast \/ f.wcid = "none" THEN f.wcid
  ELSE IF f.wcid = "sta" THEN "vif" ELSE "none"
BandOf(chfreq) == IF chfreq > 180 THEN 6 ELSE IF chfreq > 14 THEN 5 ELSE 2

(***************************************************************************)
(* The groups, in the order they are laid out, the words of each, if it is *)
(* there, and the words up to its end; group 5 is looked for only within   *)
(* group 3.                                                                *)
(***************************************************************************)
GroupOrder == <<4, 1, 2, 3, 5>>
HasGroup(f, g) == g \in f.groups /\ (g = 5 => 3 \in f.groups)
GroupWords(f, g) ==
  IF ~HasGroup(f, g) THEN 0 ELSE IF g \in {1, 4} THEN 4 ELSE IF g = 5 THEN 18 ELSE 2
GroupEnds(f) ==
  LET end4 == 6 + GroupWords(f, 4)
      end1 == end4 + GroupWords(f, 1)
      end2 == end1 + GroupWords(f, 2)
      end3 == end2 + GroupWords(f, 3)
  IN <<end4, end1, end2, end3, end3 + GroupWords(f, 5)>>
(* After each of the first n groups something must be left of the transfer. *)
Short(f, n) == \E k \in 1 .. n : HasGroup(f, GroupOrder[k]) /\ GroupEnds(f)[k] >= f.words
Truncated(f) == Short(f, 5)

Decrypted(f) == f.sec # "none" /\ ~f.clm /\ ~f.cm
HasIv(f) == Decrypted(f) /\ 1 \in f.groups /\ f.sec \in {"ccmp", "tkip", "gcmp"}
InsertCcmp(f) == Decrypted(f) /\ 1 \in f.groups /\ f.sec = "ccmp" /\ f.fragment

(***************************************************************************)
(* Rates.  hw_value of the legacy rates, CCK first; bands other than 2 GHz *)
(* have the OFDM ones only.                                                *)
(***************************************************************************)
HwValues == <<0, 1, 2, 3, 11, 15, 10, 14, 9, 13, 8, 12>>
BitRates(band) == IF band = 2 THEN HwValues ELSE SubSeq(HwValues, 5, 12)
GetRate(band, idx, cck) ==
  LET offset == IF band = 2 /\ ~cck THEN 4 ELSE 0
      want == IF cck /\ (idx \div 4) % 2 = 1 THEN idx - 4 ELSE idx
      found == {k \in DOMAIN BitRates(band) : k > offset /\ BitRates(band)[k] = want}
  IN IF (cck /\ band # 2) \/ found = {} THEN 0
     ELSE (CHOOSE k \in found : \A l \in found : k <= l) - 1

(* Modes: cck 0, ofdm 1, ht 2, ht_gf 3, vht 4, he_su 8, he_ext 9, he_tb 10, *)
(* he_mu 11.  The 106-tone test is mode & HE_EXT_SU, true of all of HE and  *)
(* of odd modes.                                                            *)
RuTest(mode) == mode >= 8 \/ mode % 2 = 1
RateIndex(f, band) ==
  CASE f.mode \in {0, 1} -> GetRate(band, f.idx, f.mode = 0)
    [] f.mode \in 8 .. 11 -> f.idx % 16
    [] OTHER -> f.idx
RxRateError(f) ==
  \/ f.mode \in {2, 3} /\ f.idx > 31
  \/ f.mode = 4 /\ f.idx > 11
  \/ f.mode \notin (0 .. 4) \cup (8 .. 11)
  \/ f.bw > 3
RxBandwidth(f) ==
  CASE f.bw = 0 -> "20" [] f.bw = 2 -> "80" [] f.bw = 3 -> "160"
    [] OTHER -> IF RuTest(f.mode) /\ (f.idx \div 32) % 2 = 1 THEN "ru106" ELSE "40"

(***************************************************************************)
(* The combined signal of the chains, strongest of them and up to 3 dB for *)
(* each further one of equal strength; chains without a signal have one    *)
(* above 0.  A level is that of a byte, (rcpi - 220) / 2.                   *)
(***************************************************************************)
Levels == -110 .. 17
AddSignal(signal, cur) ==
  LET top == IF cur > signal THEN cur ELSE signal
      diff == IF cur > signal THEN cur - signal ELSE signal - cur
  IN IF cur > 0 THEN signal
     ELSE top + (IF diff = 0 THEN 3 ELSE IF diff <= 2 THEN 2 ELSE IF diff <= 6 THEN 1 ELSE 0)
RxSignal(chains) == FoldLeft(AddSignal, -128, chains)

(***************************************************************************)
(* A first fragment the hardware translated to 802.3 gets its 802.11       *)
(* header back: the third and fourth address by the DS bits.               *)
(***************************************************************************)
MoreFrags(f) == f.more /\ 4 \in f.groups
ReverseFrag0Error(f) == RxGetWcid(f) = "none" \/ ~f.unicast
ReverseFrag0(f) ==
  [a3 |-> CASE f.ds = {} -> "bssid" [] f.ds = {"from"} -> "src" [] OTHER -> "dst",
   a4 |-> IF f.ds = {"to", "from"} THEN "src" ELSE "none"]

(***************************************************************************)
(* fill_rx.  An error drops the frame.  rx is [ts, ref]: the timestamp of  *)
(* the last A-MPDU and its reference, which skips 0; a frame dropped for   *)
(* what follows group 2 has already moved it.                              *)
(***************************************************************************)
EarlyError(f) ==
  \/ f.band1
  \/ ~f.running
  \/ f.amsduErr
  \/ f.trans /\ f.cm
  \/ BandOf(f.chfreq) \notin RxBands
  \/ f.lenErr
FillRxError(f) ==
  \/ EarlyError(f)
  \/ Truncated(f)
  \/ 3 \in f.groups /\ RxRateError(f)
  \/ f.trans /\ MoreFrags(f) /\ ReverseFrag0Error(f)
NextRef(ref) == IF (ref + 1) % RefMod = 0 THEN 1 ELSE ref + 1
InAmpdu(f) == 2 \in f.groups /\ f.ampdu
AmpduStep(rx, f) ==
  IF ~EarlyError(f) /\ ~Short(f, 2) /\ InAmpdu(f) /\ rx.ts # f.ts
  THEN [ts |-> f.ts, ref |-> NextRef(rx.ref)] ELSE rx
Translated(f) == f.trans /\ ~MoreFrags(f)
KnownQos(f) == RxGetWcid(f) # "none" /\ f.ctl \in {"qos", "qosnull"}
                 /\ (Translated(f) => 4 \in f.groups)
FillRx(rx, f) ==
  [id |-> f.id, wcid |-> RxGetWcid(f), e8023 |-> Translated(f),
   rate |-> IF 3 \in f.groups THEN RateIndex(f, BandOf(f.chfreq)) ELSE 0,
   bw |-> IF 3 \in f.groups THEN RxBandwidth(f) ELSE "20",
   a3 |-> IF f.trans /\ MoreFrags(f) THEN ReverseFrag0(f).a3 ELSE "own",
   monitor |-> f.icv, decrypted |-> Decrypted(f),
   stripped |-> Decrypted(f) /\ (Translated(f) \/ ~InsertCcmp(f)),
   iv |-> IF HasIv(f) THEN f.pn ELSE 0, validated |-> FALSE,
   mgmt |-> f.ctl = "mgmt" /\ ~Translated(f), toDs |-> "to" \in f.ds, later |-> f.later,
   ref |-> IF InAmpdu(f) THEN AmpduStep(rx, f).ref ELSE 0,
   amsdu |-> f.amsdu # "no", first |-> f.amsdu = "first", last |-> f.amsdu = "last",
   aggr |-> KnownQos(f) /\ f.unicast /\ f.ctl = "qos",
   seqno |-> IF KnownQos(f) THEN f.seq ELSE 0,
   tid |-> IF KnownQos(f) THEN f.tid ELSE 0,
   start |-> 4 * GroupEnds(f)[5] + 2 * f.pad
               + (IF ~f.trans /\ f.amsdu # "no" THEN 2 ELSE 0),
   llc |-> f.llc]

(***************************************************************************)
(* A-MSDU.  q is [head, out]: the subframes gathered so far, empty or led  *)
(* by the head, and the bursts released.  One of several subframes whose   *)
(* first has an LLC header for a destination is dropped.                   *)
(***************************************************************************)
ReleaseAmsdu(q) ==
  [head |-> <<>>,
   out |-> IF Len(q.head) > 1 /\ q.head[1].llc THEN q.out ELSE Append(q.out, q.head)]
\* Mutant of StartsAnew: the sequence number of the burst is not compared.
StartsAnewAnySeq(q, s) == q.head # <<>> /\ (~s.amsdu \/ s.first)
StartsAnew(q, s) ==
  q.head # <<>> /\ (~s.amsdu \/ s.first \/ s.seqno # q.head[1].seqno)
ReleaseBurst(q, s) ==
  LET before == IF StartsAnew(q, s) THEN ReleaseAmsdu(q) ELSE q
      joined == [before EXCEPT !.head = Append(@, s)]
  IN IF ~s.amsdu \/ s.last THEN ReleaseAmsdu(joined) ELSE joined

(* One frame off the bus.                                                  *)
NewQueue == [rx |-> [ts |-> 0, ref |-> 0], q |-> [head |-> <<>>, out |-> <<>>]]
Receive(st, f) ==
  [rx |-> AmpduStep(st.rx, f),
   q |-> IF FillRxError(f) THEN st.q ELSE ReleaseBurst(st.q, FillRx(st.rx, f))]
ReceiveAll(fs) == FoldLeft(Receive, NewQueue, fs)

(***************************************************************************)
(* rx_complete: the packet number of a burst is that of its head, and must *)
(* be above the last one of its TID; management frames have a counter of   *)
(* their own, index 16, those with To DS excepted, which use TID 0.  A     *)
(* frame that fails goes to monitors only, the subframes behind it go as   *)
(* they are.  pn has the entries that got a CCMP key, and for each index   *)
(* the number the key or the last frame left.                              *)
(***************************************************************************)
KeySetup(pn, wcid, start) ==
  [w \in DOMAIN pn \cup {wcid} |-> IF w = wcid THEN [t \in 0 .. 16 |-> start] ELSE pn[w]]
PnIndex(s) == IF s.mgmt /\ ~s.toDs THEN 16 ELSE s.tid
CheckCcmpPn(pn, s) ==
  IF \/ ~s.decrypted \/ s.monitor \/ s.wcid \notin DOMAIN pn
     \/ ~s.e8023 /\ ~s.stripped /\ s.later
  THEN [pn |-> pn, s |-> s]
  ELSE IF s.iv <= pn[s.wcid][PnIndex(s)] THEN [pn |-> pn, s |-> [s EXCEPT !.monitor = TRUE]]
  ELSE [pn |-> [pn EXCEPT ![s.wcid][PnIndex(s)] = s.iv],
        s |-> [s EXCEPT !.validated = s.stripped]]
CompleteBurst(st, burst) ==
  LET c == CheckCcmpPn(st.pn, burst[1])
  IN [pn |-> c.pn, list |-> st.list \o <<c.s>> \o Tail(burst)]
RxComplete(pn, bursts) == FoldLeft(CompleteBurst, [pn |-> pn, list |-> <<>>], bursts)
=============================================================================
