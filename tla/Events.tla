------------------------------- MODULE Events -------------------------------
(***************************************************************************)
(* What becomes of a transfer the device sends: the frame built from its   *)
(* buffers (usb.c), the reader its packet type chooses (mt7921/mac.c), the *)
(* handler of an event (mt7921/mcu.c) and the dump gathered from coredump  *)
(* events.                                                                 *)
(***************************************************************************)
EXTENDS Integers, Sequences, FiniteSets, SequencesExt

CONSTANTS HeadLen,                \* MT_SKB_HEAD_LEN
          Overhead,               \* of an skb in a buffer
          DumpSize                \* MT76_CONNAC_COREDUMP_SZ
ASSUME EventsAssumption == HeadLen \in Nat \ {0} /\ Overhead \in Nat /\ DumpSize \in Nat

(***************************************************************************)
(* A transfer u: len, the length in its first word; segs, the lengths of   *)
(* its scatter list, empty if it has one plain buffer; actual, the bytes   *)
(* that came; size, a buffer's.  A piece is a run of bytes of a segment.   *)
(***************************************************************************)
TransferInput ==
  {u \in [len : Nat, segs : Seq(Nat \ {0}), actual : Nat, size : Nat,
          type : {"frame", "txs"}, initialized : BOOLEAN] : u.size >= HeadLen + Overhead}
Fewer(a, b) == IF a < b THEN a ELSE b
Piece(seg, at, n) == [seg |-> seg, at |-> at, n |-> n]
FirstLen(u) == IF u.segs = <<>> THEN u.actual ELSE u.segs[1]
InFirst(u) == Fewer(u.len, FirstLen(u))
BuildRxSkb(n, size) ==
  IF size - Overhead < n THEN <<Piece(1, 0, HeadLen), Piece(1, HeadLen, n - HeadLen)>>
  ELSE <<Piece(1, 0, n)>>
(* The further segments, while bytes are left.                             *)
AddRxFrag(b, seg) ==
  IF b.left = 0 THEN b
  ELSE [left |-> b.left - Fewer(b.left, seg),
        frags |-> Append(b.frags, Piece(Len(b.frags) + 2, 0, Fewer(b.left, seg)))]
Further(u) ==
  FoldLeft(AddRxFrag, [left |-> u.len - InFirst(u), frags |-> <<>>],
           SubSeq(u.segs, 2, Len(u.segs))).frags
(* A transfer that lies in its first buffer is shown to rx_check first,    *)
(* which keeps status reports.                                             *)
Checked(u) == u.len = InFirst(u) /\ u.type = "txs"
ProcessRxEntry(u) ==
  IF ~u.initialized \/ Checked(u) THEN [pieces |-> <<>>, buffers |-> 0]
  ELSE [pieces |-> BuildRxSkb(InFirst(u), u.size) \o Further(u), buffers |-> 1 + Len(Further(u))]

(* The reader of a packet; of a status packet eight words each, after two, *)
(* are a report.  An answer, a scan event, a part of a dump and a frame    *)
(* are kept, all others are freed at once.                                 *)
Unsolicited == {"loss", "schedDone", "scanDone", "debug", "coredump", "lp", "txDone",
                "rssi", "rate"}
PacketInput ==
  [words : Nat, type : {"event", "txs", "normal", "other"}, flag : BOOLEAN, error : BOOLEAN,
   uni : BOOLEAN, seq : Nat, eid : {"roc", "access", "rate", "own"} \cup Unsolicited]
TxsReports(words) == IF words < 2 THEN 0 ELSE (words - 2) \div 8
TypeOf(p) == IF p.type = "event" /\ p.flag THEN "normal" ELSE p.type
RxEvent(p) ==
  CASE p.uni -> IF p.eid = "roc" THEN "roc" ELSE "none"
    [] ~p.uni /\ p.eid = "access" -> "answer"
    [] ~p.uni /\ p.eid # "access" /\ p.eid \notin Unsolicited /\ p.seq # 0 -> "answer"
    [] OTHER -> IF p.eid \in {"scanDone", "schedDone"} THEN "scan"
                ELSE IF p.eid \in Unsolicited \ {"rate"} THEN p.eid ELSE "none"
QueueRxSkb(p) ==
  CASE TypeOf(p) = "event" -> RxEvent(p)
    [] TypeOf(p) = "txs" -> "txs"
    [] TypeOf(p) = "normal" -> IF p.error THEN "none" ELSE "frame"
    [] OTHER -> "none"
Reports(p) == IF QueueRxSkb(p) = "txs" THEN TxsReports(p.words) ELSE 0
Keeps(reader) == reader \in {"answer", "scan", "coredump", "frame"}
Received(p) == [reader |-> QueueRxSkb(p), kept |-> Keeps(QueueRxSkb(p)), reports |-> Reports(p)]

(***************************************************************************)
(* Beacon loss and signal events, for the interfaces of the firmware.      *)
(***************************************************************************)
ConnectionLoss(vifs, idx) ==
  {v \in DOMAIN vifs : vifs[v].idx = idx /\ vifs[v].filter /\ vifs[v].station}
RssiEvent(vifs, rssi) ==
  [v \in {v \in DOMAIN vifs : rssi[vifs[v].idx] # 0 /\ vifs[v].cqm} |->
     IF rssi[vifs[v].idx] > vifs[v].thold THEN "high" ELSE "low"]

(***************************************************************************)
(* The coredump work appends the parts in their order and leaves out those *)
(* that would not fit; later ones may still.                               *)
(***************************************************************************)
PartsInput == {ps \in Seq([id : Nat, len : Nat]) : \A k \in DOMAIN ps : ps[k].id = k}
PutPart(d, part) ==
  IF d.len + part.len > DumpSize THEN d
  ELSE [len |-> d.len + part.len, parts |-> Append(d.parts, part)]
Coredump(parts) == FoldLeft(PutPart, [len |-> 0, parts |-> <<>>], parts)
=============================================================================
