------------------------------- MODULE ChanMsg ------------------------------
(***************************************************************************)
(* The commands of standalone_mt76_connac_mcu.c that carry lists of        *)
(* channels: hardware and scheduled scans, the BSSID table of a 6 GHz      *)
(* scan, the channel domain and the power table of every channel.  Each    *)
(* packs a list into fixed fields or into batches, with its own counters.  *)
(***************************************************************************)
EXTENDS Naturals, Sequences, FiniteSets, SequencesExt

CONSTANT RnrMax                   \* bssids of struct standalone_mt76_rnr_param
ASSUME RnrAssumption == RnrMax \in Nat \ {0}

LeastOf(a, b) == IF a <= b THEN a ELSE b

(***************************************************************************)
(* The channels the power table names, centre frequencies of wider         *)
(* channels included.                                                      *)
(***************************************************************************)
Every(first, step, n) == [k \in 1 .. n |-> first + step * (k - 1)]
Chans2 == Every(1, 1, 14)
Chans5 == Every(36, 2, 15) \o Every(100, 2, 15) \o Every(132, 2, 7)
            \o Every(149, 2, 7) \o Every(165, 4, 4)
Chans6 == FlattenSeq([k \in 1 .. 7 |-> Every(32 * k - 31, 2, 15)]) \o Every(225, 2, 3) \o <<233>>
ChanList(b) == CASE b = 2 -> Chans2 [] b = 5 -> Chans5 [] b = 6 -> Chans6
LastCh(caps) == Last(ChanList(IF 6 \in caps THEN 6 ELSE IF 5 \in caps THEN 5 ELSE 2))

BatchLen == 8
\* Mutant of BatchSize: the division rounds down.
BatchSizeDown(b) == Len(ChanList(b)) \div BatchLen
BatchSize(b) == (Len(ChanList(b)) + BatchLen - 1) \div BatchLen
NumCh(b, k) == IF k = BatchSize(b) THEN Len(ChanList(b)) - (k - 1) * BatchLen ELSE BatchLen
(* One message: last_msg is overwritten by each of its channels.           *)
PowerBatch(caps, b, k) ==
  LET first == (k - 1) * BatchLen + 1
      chans == SubSeq(ChanList(b), first, first + NumCh(b, k) - 1)
  IN [band |-> b, n |-> NumCh(b, k), chans |-> chans, last |-> Last(chans) = LastCh(caps)]
RateTxPowerBand(caps, b) == [k \in 1 .. BatchSize(b) |-> PowerBatch(caps, b, k)]
(* An error ends the sequence: nothing after message fails is sent.        *)
AllBands(caps) ==
  LET Band(b) == IF b \in caps THEN RateTxPowerBand(caps, b) ELSE <<>>
  IN Band(2) \o Band(5) \o Band(6)
SetRateTxPower(caps, fails) ==
  SubSeq(AllBands(caps), 1, LeastOf(fails, Len(AllBands(caps))))

CapsInput == (SUBSET {2, 5, 6}) \ {{}}

(***************************************************************************)
(* Scans.  req.chans is the list of cfg80211, req.ssids the lengths of its *)
(* SSIDs; more than 64 channels are asked for as "all".  A scheduled scan  *)
(* is cut off after 64 channels instead, of the low byte of their number;  *)
(* the bands together have fewer than that counts to.                      *)
(***************************************************************************)
ScanInput ==
  {req \in [chans : Seq(Nat), ssids : Seq(Nat), seq : 0 .. 127] : Len(req.chans) < 256}
ScanChannels(chans) ==
  IF Len(chans) \in 1 .. 64
  THEN [type |-> 4, main |-> LeastOf(Len(chans), 32),
        ext |-> LeastOf(IF Len(chans) > 32 THEN Len(chans) - 32 ELSE 0, 32)]
  ELSE [type |-> 0, main |-> 0, ext |-> 0]
NextSeqNum(n) == (n + 1) % 128
NamedSsids(ssids) == SelectSeq(ssids, LAMBDA len : len > 0)
HwScanReq(req) ==
  LET c == ScanChannels(req.chans)
  IN [seq |-> NextSeqNum(req.seq), active |-> Len(req.ssids) > 0,
      probes |-> IF Len(req.ssids) > 0 THEN 2 ELSE 0,
      ssids |-> NamedSsids(req.ssids), wildcard |-> NamedSsids(req.ssids) = <<>>,
      type |-> c.type,
      chans |-> SubSeq(req.chans, 1, c.main),
      ext |-> [k \in 1 .. c.ext |-> req.chans[32 + k]]]
(* The command returns -EBUSY while a scan is on, and its error clears the *)
(* bit again.                                                              *)
HwScanCmd(busy, sent, req) ==
  IF busy THEN [err |-> "busy", scanning |-> TRUE, msgs |-> <<>>]
  ELSE [err |-> IF sent THEN "ok" ELSE "failed", scanning |-> sent, msgs |-> <<HwScanReq(req)>>]
SchedScanReq(req) ==
  [seq |-> NextSeqNum(req.seq), ssids |-> req.ssids,
   type |-> IF req.chans = <<>> THEN 0 ELSE 4,
   n |-> LeastOf(Len(req.chans) % 256, 64),
   chans |-> SubSeq(req.chans, 1, LeastOf(Len(req.chans) % 256, 64))]

(***************************************************************************)
(* The table of BSSIDs a 6 GHz scan probes: each BSSID once, with the      *)
(* channel of the parameter that named it first, at most RnrMax.           *)
(***************************************************************************)
RnrInput == [params : Seq([bssid : STRING, idx : Nat]), chans : Seq(Nat)]
RnrAdd(table, p, chans) ==
  IF Len(table) >= RnrMax \/ \E k \in DOMAIN table : table[k].bssid = p.bssid
  THEN table ELSE Append(table, [bssid |-> p.bssid, chan |-> chans[p.idx]])
BuildRnr(params, chans) == FoldLeft(LAMBDA t, p : RnrAdd(t, p, chans), <<>>, params)

(***************************************************************************)
(* The channel domain: the channels that are not disabled, band by band,   *)
(* and their number in each.  sband[b] is a sequence of [num, off].        *)
(***************************************************************************)
DomainInput == [{2, 5, 6} -> Seq([num : Nat, off : BOOLEAN])]
EnabledOf(list) == FoldLeft(LAMBDA s, ch : IF ch.off THEN s ELSE Append(s, ch), <<>>, list)
ChannelDomain(sband) ==
  [n |-> [b \in DOMAIN sband |-> Len(EnabledOf(sband[b]))],
   chans |-> EnabledOf(sband[2]) \o EnabledOf(sband[5]) \o EnabledOf(sband[6])]
=============================================================================
