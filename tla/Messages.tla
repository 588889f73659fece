------------------------------ MODULE Messages ------------------------------
(***************************************************************************)
(* The builders and parsers of the driver, one call at a time: each action *)
(* takes an input and keeps it with what the code makes of it.  The inputs *)
(* are parameters, the calls are those of StaMsg, ChanMsg, TxPower,        *)
(* FwImage, RxFrame, TxDesc, Accounting, Sleep, Regd and Events; the       *)
(* inputs of Accounting and Regd are whole histories.                      *)
(***************************************************************************)
EXTENDS StaMsg, ChanMsg, TxPower, FwImage, TxDesc, Accounting, Sleep, Regd, Events

CONSTANTS Stas, Bas,              \* records of stations and of block ack sessions
          Caps,                   \* the sets of bands a chip may support
          Scans, Rnrs, Domains,   \* scan requests, RNR lists, channel lists
          Tables, Limits,         \* power tables, bounds of one channel
          Images, Patches, Fails, \* regions, sections; the command that fails
          RxSeqs,                 \* frames received
          TxFrames, TxsEvents,    \* frames to send, rates in status events
          Channels, Surveys, Polls, \* channels, histories of them and of airtime
          Signals, Sleeps, Addrs, \* of the chains; wake-ups; address lists
          Notices, Nodes,         \* histories of the domain, power limit nodes
          Transfers, Packets, Links, Parts \* off the bus, off the firmware, of a dump

ASSUME RecordsAssumption == Stas \subseteq StaInput /\ Bas \subseteq BaInput
ASSUME ListsAssumption ==
  /\ Caps \subseteq CapsInput /\ Scans \subseteq ScanInput /\ Rnrs \subseteq RnrInput
  /\ Domains \subseteq DomainInput /\ Addrs \subseteq AddrsInput
  /\ Notices \subseteq Seq(RegdEvent) /\ Nodes \subseteq NodeInput
ASSUME HistoriesAssumption ==
  /\ Surveys \subseteq Seq(SurveyEvent(Channels)) /\ 1 \in Channels
  /\ Polls \subseteq Seq(PollEvent)
ASSUME FramesAssumption == TxFrames \subseteq TxFrame /\ TxsEvents \subseteq TxsEvent
ASSUME SleepsAssumption == Sleeps \subseteq SleepInput
ASSUME PowersAssumption == Tables \subseteq TableInput /\ Limits \subseteq LimitInput
ASSUME ReceptionAssumption ==
  /\ RxSeqs \subseteq RxInput /\ Signals \subseteq Seq(Levels)
  /\ Transfers \subseteq TransferInput /\ Packets \subseteq PacketInput
  /\ Parts \subseteq PartsInput
  /\ \A l \in Links : \A v, w \in DOMAIN l.vifs : l.vifs[v].idx = l.vifs[w].idx => v = w
ASSUME ImagesAssumption ==
  Images \subseteq RamInput /\ Patches \subseteq PatchInput /\ Fails \subseteq Nat \ {0}

VARIABLE msg

None == [kind |-> "none"]
Make(kind, input, output) == msg' = [kind |-> kind, in |-> input, out |-> output]

MsgInit == msg = None

StaUpdate == \E i \in Stas : Make("sta", i, StaCmdMsg(i))
HdrTrans == \E i \in Stas : Make("trans", i, HdrTransMsg(i))
BlockAck == \E b \in Bas : Make("ba", b, StaBaMsgs(b))
SetPower ==
  \E caps \in Caps, fails \in Fails :
    Make("power", [caps |-> caps, fails |-> fails], SetRateTxPower(caps, fails))
HwScan == \E req \in Scans, busy, sent \in BOOLEAN :
            Make("scan", [req |-> req, busy |-> busy, sent |-> sent], HwScanCmd(busy, sent, req))
SchedScan == \E req \in Scans : Make("sched", req, SchedScanReq(req))
Rnr == \E r \in Rnrs : Make("rnr", r, BuildRnr(r.params, r.chans))
SetDomain == \E sband \in Domains : Make("domain", sband, ChannelDomain(sband))
RateLimits == \E t \in Tables : Make("limits", t, RatePowerLimits(t.dt, t.dims, t.p))
ChannelLimit ==
  \E l \in Limits :
    LET frp == SetTxSarPwr(l.frp, l.specs, l.acpi)
    IN Make("target", l, [frp |-> frp, target |-> ChanTarget(l.level, l.sband, 1, frp, 1)])
RamImage == \E regions \in Images, fails \in Fails :
              Make("ram", [regions |-> regions, fails |-> fails],
                   Until(SendRamFirmware(regions), fails))
PatchImage == \E sections \in Patches, fails \in Fails :
                Make("patch", [regions |-> sections, fails |-> fails],
                     Until(LoadPatchMsgs(sections), fails))
ReceiveFrames ==
  \E fs \in RxSeqs :
    LET st == ReceiveAll(fs)
    IN Make("rx", fs, [q |-> st.q, list |-> RxComplete(KeySetup(<<>>, "sta", 0), st.q.out).list])
SendFrame == \E i \in TxFrames : Make("tx", i, WriteTxwi(i))
SendBeacon == \E i \in TxFrames :
                /\ i.kind = "beacon"
                /\ Make("beacon", i, BeaconReq(i, 40, 60))
StatusEvent == \E t \in TxsEvents, old \in TxsEvents :
                 Make("txs", t, FillTxs(FillTxs(FirstRate, old), t))
SurveyTime == \E es \in Surveys : Make("survey", es, Survey(Channels, 1, es))
StationTime == \E es \in Polls : Make("airtime", es, Airtime(es))
AckLevel == \E rcpi \in Signals : Make("signal", rcpi, AckSignal(rcpi))
SleepAndWake ==
  \E i \in Sleeps :
    LET asleep == FellAsleep(i.vifs, i.wowlan, i.lost)
    IN Make("sleep", i, [asleep |-> asleep,
                         awake |-> WokeUp(asleep, i.vifs, i.wowlan, i.later)])
Filters == \E a \in Addrs, fails \in 1 .. 3 :
             Make("filter", a, [arp |-> ArpFilter(a), ns |-> NsWork(NsFilter(a), fails),
                                fails |-> fails])
Country == \E es \in Notices, node \in Nodes :
             Make("regd", [es |-> es, node |-> node], Regd(es, node))
Transfer == \E u \in Transfers : Make("transfer", u, ProcessRxEntry(u))
Packet == \E p \in Packets : Make("packet", p, Received(p))
LinkEvent == \E l \in Links :
               Make("link", l, [lost |-> ConnectionLoss(l.vifs, l.idx),
                                level |-> RssiEvent(l.vifs, l.rssi)])
Dump == \E ps \in Parts : Make("dump", ps, Coredump(ps))
Done == msg # None /\ msg' = None

MsgNext ==
  \/ Done
  \/ /\ msg = None
     /\ \/ StaUpdate \/ HdrTrans \/ BlockAck \/ SetPower \/ HwScan \/ SchedScan
        \/ Rnr \/ SetDomain \/ RateLimits \/ ChannelLimit \/ RamImage \/ PatchImage
        \/ ReceiveFrames \/ SendFrame \/ SendBeacon \/ StatusEvent
        \/ SurveyTime \/ StationTime \/ AckLevel \/ SleepAndWake \/ Filters
        \/ Country \/ Transfer \/ Packet \/ LinkEvent \/ Dump
MsgSpec == MsgInit /\ [][MsgNext]_msg

------------------------------------------------------------------------------
Of(kinds) == msg.kind \in kinds

(***************************************************************************)
(* Station records.  A reader that goes by the counters and lengths of the *)
(* record ends where the record ends, within the buffer it was built in,   *)
(* and finds each TLV once, the table last; and what two TLVs both say of  *)
(* the station is the same (connac_mcu.c:249-1333).                        *)
(***************************************************************************)
Readable(m) ==
  /\ m.num = Len(m.tlvs) /\ m.table.num = Len(m.table.tlvs)
  /\ ReaderEnds(m) = MsgBytes(m) /\ MsgBytes(m) <= StaMax
  /\ Cardinality(Tags(m.tlvs)) = m.num /\ Cardinality(Tags(m.table.tlvs)) = m.table.num
  /\ m.table.open => /\ Last(m.tlvs).tag = "wtbl"
                     /\ m.table.len = StaSize.wtbl + HdrSize + BytesOf(m.table.tlvs)
                     /\ m.table.len <= WtblMax
TlvOf(ts, tag) == ts[CHOOSE k \in DOMAIN ts : ts[k].tag = tag].says
SaysHt(m) == "ht" \in Tags(m.table.tlvs)
StaAgrees(i, m) ==
  LET tags == Tags(m.tlvs)
      basic == TlvOf(m.tlvs, "basic")
      generic == TlvOf(m.table.tlvs, "generic")
  IN /\ i.sta <=> "basic" \in tags
     /\ (i.sta /\ i.enable) => basic.aid = generic.aid /\ basic.peer = generic.peer
     /\ i.enable <=> "generic" \in Tags(m.table.tlvs)
     /\ "generic" \in Tags(m.table.tlvs) => generic.muar = m.muar
     /\ i.sta /\ i.enable =>
          /\ \A c \in {"ht", "vht", "he"} : c \in TlvOf(m.tlvs, "phy").mode <=> c \in tags
          /\ SaysHt(m) <=> "ht" \in tags \/ (i.band = 6 /\ "he" \in tags)
     /\ "he" \in tags => TlvOf(m.tlvs, "he").widths = TlvOf(m.tlvs, "hev2").widths
BaAgrees(b, ms) ==
  LET hw == ms[1].table.tlvs[1].says
      fw == ms[2].tlvs[1].says
  IN /\ hw.role = fw.role /\ hw.tid = fw.tid
     /\ b.enable => hw.win = fw.win /\ fw.en = {b.tid} /\ (hw.en <=> b.tx)
     /\ ~b.enable => hw.win = 0 /\ fw.en = {} /\ ~hw.en
RecordsAgree ==
  /\ Of({"sta", "trans"}) => Readable(msg.out)
  /\ Of({"ba"}) => Readable(msg.out[1]) /\ Readable(msg.out[2]) /\ BaAgrees(msg.in, msg.out)
  /\ Of({"sta"}) => StaAgrees(msg.in, msg.out)

(***************************************************************************)
(* Channel lists.  The power table is sent for every channel of every band *)
(* the chip supports, once, in messages that fit, the last of them and no  *)
(* other marked as the last; a scan asks for the channels of its request,  *)
(* in its order, or for all of them; no BSSID is probed twice, and none    *)
(* left out while there is room (connac_mcu.c:80-2301).  The firmware is   *)
(* told of the last country that was set, unless that failed or came while *)
(* the device slept (regd.c:74-147); address filters have the addresses    *)
(* that fit (main.c:1227-1286).                                            *)
(***************************************************************************)
Flat(msgs, b) == FlattenSeq([k \in DOMAIN msgs |-> IF msgs[k].band = b THEN msgs[k].chans ELSE <<>>])
SentPower(in, msgs) ==
  /\ \A k \in DOMAIN msgs : msgs[k].n \in 1 .. BatchLen /\ Len(msgs[k].chans) = msgs[k].n
  /\ \A b \in {2, 5, 6} :
       IsPrefix(Flat(msgs, b), IF b \in in.caps THEN ChanList(b) ELSE <<>>)
  /\ \A k \in DOMAIN msgs : msgs[k].last => k = Len(msgs)
  /\ Len(msgs) < in.fails =>
       /\ \A b \in in.caps : Flat(msgs, b) = ChanList(b)
       /\ msgs[Len(msgs)].last
AsksFor(in, m) ==
  /\ m.seq \in 0 .. 127 /\ m.seq # in.seq
  /\ m.type = 4 => m.chans \o m.ext = in.chans
  /\ m.type = 0 => m.chans \o m.ext = <<>>
  /\ m.type = 4 <=> Len(in.chans) \in 1 .. 64
  /\ Len(m.chans) <= 32 /\ Len(m.ext) <= 32
  /\ m.wildcard <=> m.ssids = <<>>
BssidsOf(t) == {t[k].bssid : k \in DOMAIN t}
Accepted(es, node) ==
  {k \in DOMAIN es : es[k].ev = "notify" /\ ~Known(Regd(SubSeq(es, 1, k - 1), node), es[k])}
CountryIsTold(es, node, r) ==
  \A k \in Accepted(es, node) :
    (\A j \in Accepted(es, node) : j <= k) =>
      /\ ~Regd(SubSeq(es, 1, k - 1), node).suspended /\ es[k].step = "ok" =>
           /\ r.fw.alpha = r.alpha /\ r.power = r.alpha /\ ~r.change
           /\ node.found => node.missing \subseteq r.fw.off
      /\ r.change => Regd(SubSeq(es, 1, k - 1), node).suspended
FiltersFit(a, out) ==
  /\ Len(out.arp[1]) <= AddrListLen /\ IsPrefix(out.arp[1], a)
  /\ Len(a) > Len(out.arp[1]) => Len(out.arp[1]) = AddrListLen
  /\ out.ns = <<>> <=> out.fails = 1 \/ Settled(a) = <<>>
  /\ out.ns # <<>> => /\ IsPrefix(out.ns[1], Settled(a))
                     /\ Len(out.ns[1]) \in {Len(Settled(a)), AddrListLen}
DomainIsTold(sband, out) ==
  /\ \A b \in {2, 5, 6} : out.n[b] = Cardinality({k \in DOMAIN sband[b] : ~sband[b][k].off})
  /\ Len(out.chans) = out.n[2] + out.n[5] + out.n[6]
  /\ \A k \in DOMAIN out.chans : ~out.chans[k].off
ListsAreComplete ==
  /\ Of({"power"}) => SentPower(msg.in, msg.out)
  /\ Of({"scan"}) => /\ msg.out.scanning <=> msg.in.busy \/ msg.in.sent
                     /\ \A k \in DOMAIN msg.out.msgs : AsksFor(msg.in.req, msg.out.msgs[k])
                     /\ msg.in.busy <=> msg.out.msgs = <<>>
  /\ Of({"sched"}) => IsPrefix(msg.out.chans, msg.in.chans) /\ Len(msg.out.chans) = msg.out.n
                        /\ (msg.out.n < Len(msg.in.chans) => msg.out.n = 64)
  /\ Of({"rnr"}) => /\ Cardinality(BssidsOf(msg.out)) = Len(msg.out)
                    /\ Len(msg.out) <= RnrMax
                    /\ BssidsOf(msg.out) \subseteq BssidsOf(msg.in.params)
                    /\ Len(msg.out) < RnrMax => BssidsOf(msg.out) = BssidsOf(msg.in.params)
  /\ Of({"regd"}) => CountryIsTold(msg.in.es, msg.in.node, msg.out)
  /\ Of({"filter"}) => FiltersFit(msg.in, msg.out)
  /\ Of({"domain"}) => DomainIsTold(msg.in, msg.out)

(***************************************************************************)
(* Power.  No rate is allowed more than the channel's target or its entry  *)
(* in the table; a row the run-length code does not reach keeps the        *)
(* target; the power reported for the channel is the largest of the rates  *)
(* the tables limit; the target is under each bound that was given; and    *)
(* the message's fields do not overlap (eeprom.c:268-538).                 *)
(***************************************************************************)
Reaches(blocks) ==
  LET upto[b \in 0 .. Len(blocks)] ==
        IF b = 0 THEN 0 ELSE upto[b - 1] + Larger(1, blocks[b].count)
  IN upto
Covering(t, r) == {b \in DOMAIN t.dt.mcs : r < Reaches(t.dt.mcs)[b]}
Entry(t, r, k) == t.dt.mcs[Min(Covering(t, r))].row[k]
RowLimit(t, r, k) ==
  IF ~t.dt.found \/ Covering(t, r) = {} THEN t.p.target
  ELSE Smaller(t.p.target, Entry(t, r, k) + t.p.delta)
CckLimit(t, k) ==
  IF t.dt.found /\ t.dt.cck # <<>> THEN Smaller(t.p.target, t.dt.cck[k] + t.p.delta)
  ELSE t.p.target
Rates(t) == (0 .. t.dims.rows - 1) \X (1 .. t.dims.len)
Limited(t) ==
  {CckLimit(t, k) : k \in {k \in DOMAIN t.dt.cck : t.dt.cck[k] < 126}}
    \cup {RowLimit(t, c[1], c[2]) :
            c \in {c \in Rates(t) : Covering(t, c[1]) # {} /\ Entry(t, c[1], c[2]) < 126}}
TableIsApplied(t, out) ==
  /\ \A r \in 0 .. t.dims.rows - 1, k \in 1 .. t.dims.len :
       out.mcs[r * t.dims.len + k] = RowLimit(t, r, k)
  /\ \A k \in 1 .. t.dims.cck : out.cck[k] = CckLimit(t, k)
  /\ ~t.dt.found => out.max = t.p.target
  /\ t.dt.found /\ t.dt.path = <<>> => out.max = Max({-127} \cup Limited(t))
Overlap(s, t) == s # t /\ s.at < t.at + t.n /\ t.at < s.at + s.n
TargetIsBounded(l, out) ==
  /\ l.level # 0 => out.target <= 2 * l.level
  /\ \A k \in DOMAIN l.sband :
       l.sband[k].num = 1 /\ (\A j \in 1 .. k - 1 : l.sband[j].num # 1) /\ ~l.sband[k].off
         => out.target <= 2 * l.sband[k].maxReg
  /\ \A k \in DOMAIN l.specs :
       l.specs[k].range = 1 /\ (\A j \in DOMAIN l.specs : j > k => l.specs[j].range # 1)
         => out.target <= l.specs[k].quarter \div 2
  /\ l.acpi.dyn /\ out.frp[1].set => out.target <= GeoPower(l.acpi)
PowerIsLimited ==
  /\ Of({"limits"}) => TableIsApplied(msg.in, msg.out)
  /\ Of({"target"}) => TargetIsBounded(msg.in, msg.out)
  /\ \A b \in {2, 5, 6} : \A s \in SkuSegments(b) :
       s.at + s.n <= SkuLen /\ \A t \in SkuSegments(b) : ~Overlap(s, t)

(***************************************************************************)
(* Firmware.  When all commands succeed the device has every region that   *)
(* is downloaded, byte for byte its own part of the file, and nothing      *)
(* else, and is started once, by the last of them; it never gets more than *)
(* was announced, and is not started after a failure                       *)
(* (connac_mcu.c:2994-3225).                                               *)
(***************************************************************************)
FileEnds(rs) == LET ends[k \in 0 .. Len(rs)] == IF k = 0 THEN 0 ELSE ends[k - 1] + rs[k].len
                IN ends
Starts == {"start", "finish"}
Arrives(rs, ks, from, fails, out) ==
  LET dev == Device(out)
      last == Len(out)
  IN /\ last \in 1 .. fails /\ ~dev.over
     /\ last < fails => dev.started
     /\ \A k \in 1 .. last : out[k].cmd \in Starts <=> k = last /\ dev.started
     /\ dev.started =>
          /\ ~dev.short /\ DOMAIN dev.mem = UNION {Area(rs[k]) : k \in ks}
          /\ \A k \in ks : \A a \in Area(rs[k]) : dev.mem[a] = from[k] + (a - rs[k].addr)
ImageArrives ==
  LET rs == msg.in.regions
  IN /\ Of({"ram"}) =>
          Arrives(rs, Loaded(rs), [k \in DOMAIN rs |-> FileEnds(rs)[k - 1]], msg.in.fails, msg.out)
     /\ Of({"patch"}) =>
          Arrives(rs, DOMAIN rs, [k \in DOMAIN rs |-> rs[k].offs], msg.in.fails, msg.out)

(***************************************************************************)
(* Received frames.  What is released and what is still held is what came, *)
(* in its order, without the frames in error and the A-MSDUs refused; no   *)
(* burst mixes A-MSDUs, and one that came whole is released as it came;    *)
(* frames of one A-MPDU, and only those, share a reference; validated      *)
(* packet numbers grow (mac80211.c:887-960, :1284-1531).  Of a transfer    *)
(* every byte goes into the frame once, whichever buffers it lies in       *)
(* (usb.c:454-553); no event ends a command that did not ask (mcu.c:350).  *)
(***************************************************************************)
IdsOf(ss) == [k \in DOMAIN ss |-> ss[k].id]
Ascending(s) == \A j, k \in DOMAIN s : j < k => s[j] < s[k]
Good(fs) == {k \in DOMAIN fs : ~FillRxError(fs[k])}
WholeAmsdu(fs, j, k) ==
  /\ j < k /\ j .. k \subseteq Good(fs)
  /\ fs[j].amsdu = "first" /\ fs[k].amsdu = "last"
  /\ \A l \in j + 1 .. k - 1 : fs[l].amsdu = "mid"
  /\ \A l \in j .. k : KnownQos(fs[l]) /\ fs[l].seq = fs[j].seq
OneAmsdu(burst) ==
  \A j \in DOMAIN burst :
    /\ burst[j].seqno = burst[1].seqno
    /\ burst[j].first => j = 1
    /\ burst[j].last => j = Len(burst)
    /\ ~burst[j].amsdu => Len(burst) = 1
PiecesFit(u, out) ==
  LET ps == out.pieces
  IN /\ Total([k \in DOMAIN ps |-> ps[k].n])
          = Fewer(u.len, IF u.segs = <<>> THEN u.actual ELSE Total(u.segs))
     /\ \A j, k \in DOMAIN ps : j < k /\ ps[j].seg = ps[k].seg =>
          ps[j].at + ps[j].n = ps[k].at
     /\ \A j \in DOMAIN ps : ps[j].seg <= out.buffers
     /\ \A j \in DOMAIN ps : ps[j].n = 0 => j = 1 /\ (u.len = 0 \/ FirstLen(u) = 0)
PartsFit(ps, d) ==
  LET put(k) == \E j \in DOMAIN d.parts : d.parts[j] = ps[k]
      upto[k \in 0 .. Len(ps)] ==
        IF k = 0 THEN 0 ELSE upto[k - 1] + (IF put(k) THEN ps[k].len ELSE 0)
  IN /\ d.len = upto[Len(ps)] /\ d.len <= DumpSize
     /\ \A j \in DOMAIN d.parts : \E k \in DOMAIN ps : d.parts[j] = ps[k]
     /\ Ascending(IdsOf(d.parts))
     /\ \A k \in DOMAIN ps : put(k) <=> upto[k - 1] + ps[k].len <= DumpSize
SignalFits(chains, signal) ==
  LET heard == {k \in DOMAIN chains : chains[k] <= 0}
  IN IF heard = {} THEN signal = -128
     ELSE /\ \A k \in heard : signal >= chains[k]
          /\ \E k \in heard : signal <= chains[k] + 3 * (Cardinality(heard) - 1)
TransfersAreWhole ==
  /\ Of({"transfer"}) => msg.out.buffers = 0 \/ PiecesFit(msg.in, msg.out)
  /\ Of({"dump"}) => PartsFit(msg.in, msg.out)
  /\ Of({"signal"}) => SignalFits(msg.in, msg.out)
  /\ Of({"packet"}) =>
       /\ msg.out.kept => msg.out.reports = 0
       /\ 8 * msg.out.reports <= msg.in.words
  /\ Of({"link"}) =>
       /\ \A v, w \in msg.out.lost : v = w
       /\ \A v \in msg.out.lost : msg.in.vifs[v].idx = msg.in.idx
  /\ Of({"packet"}) /\ msg.in.seq = 0 /\ msg.out.reader = "answer" => msg.in.eid = "access"
KeepsOrder(fs, q) ==
  LET kept == IdsOf(FlattenSeq(q.out) \o q.head)
  IN /\ Ascending(kept) /\ \A k \in DOMAIN kept : kept[k] \in Good(fs)
     /\ \A k \in Good(fs) : k \in {kept[n] : n \in DOMAIN kept}
          \/ \E j \in DOMAIN fs : j <= k /\ fs[j].llc /\ fs[j].amsdu # "no"
AmsdusAreWhole(fs, q) ==
  /\ \A b \in DOMAIN q.out : OneAmsdu(q.out[b])
  /\ OneAmsdu(q.head)
  /\ \A j, k \in DOMAIN fs :
       WholeAmsdu(fs, j, k) /\ ~fs[j].llc =>
         \E b \in DOMAIN q.out : IdsOf(q.out[b]) = [n \in 1 .. k - j + 1 |-> j + n - 1]
PnsGrow(list) ==
  \A j, k \in DOMAIN list :
    j < k /\ list[j].validated /\ list[k].validated /\ PnIndex(list[j]) = PnIndex(list[k])
      => list[j].iv < list[k].iv
AmpdusAgree(fs, list) ==
  /\ \A j \in DOMAIN list :
       LET f == fs[list[j].id]
       IN /\ list[j].start <= 4 * f.words
          /\ list[j].ref # 0 => InAmpdu(f)
          /\ InAmpdu(f) /\ f.ts # 0 => list[j].ref # 0
  /\ \A j \in 1 .. Len(list) - 1 :
       LET f == fs[list[j].id]
           g == fs[list[j + 1].id]
       IN InAmpdu(f) /\ InAmpdu(g) /\ g.id = f.id + 1
            => (f.ts = g.ts <=> list[j].ref = list[j + 1].ref)
FramesAreWhole ==
  /\ TransfersAreWhole
  /\ Of({"rx"}) =>
       /\ KeepsOrder(msg.in, msg.out.q) /\ AmsdusAreWhole(msg.in, msg.out.q)
       /\ IdsOf(msg.out.list) = IdsOf(FlattenSeq(msg.out.q.out))
       /\ PnsGrow(msg.out.list) /\ AmpdusAgree(msg.in, msg.out.list)

(***************************************************************************)
(* Sent frames.  A frame whose status somebody waits for is reported and   *)
(* left out of A-MSDUs, as are those at a fixed rate; a fixed rate is one  *)
(* of the band, and read back from a status event it is the basic rate it  *)
(* was taken from; the frame on the wire fills whole words and holds what  *)
(* its header says (connac_mac.c:305-747).                                 *)
(***************************************************************************)
RateReadsBack(i, d) ==
  LET band == IF i.vif THEN i.band ELSE 2
      back == GetRate(band, d.rate.idx, d.rate.mode = 0)
  IN /\ band # 2 => d.rate.mode = 1
     /\ back = IF i.vif /\ LowestBit(i.basic) \in DOMAIN [k \in 0 .. Len(BitRates(band)) - 1 |-> k]
               THEN LowestBit(i.basic) ELSE 0
DescriptorAgrees ==
  /\ Of({"tx", "beacon"}) =>
       LET i == msg.in
           d == IF Of({"tx"}) THEN msg.out ELSE WriteTxwi(i)
       IN /\ d.toHost <=> i.pid >= PidFirst
          /\ d.amsdu => i.amsdu /\ ~d.toHost /\ ~d.fixed /\ ~d.snValid
          /\ d.fixed => d.baDisable /\ d.format = "802.11" /\ RateReadsBack(i, d)
          /\ d.bip => ~d.protect
          /\ d.queue < LmacAltx <=> i.changed = "none" /\ i.qid < PsdQueue
          /\ WireBytes(i) % 4 = 0 /\ WireBytes(i) >= HdrBytes(i) + 8
  /\ Of({"tx"}) =>
       LET once == CheckAggr({}, msg.out, TRUE, TRUE)
       IN CheckAggr(once.asked, msg.out, TRUE, TRUE).start = {}
  /\ (Of({"beacon"}) /\ ~msg.out.err) => msg.out.pktLen <= 512 /\ msg.out.tim < 512
  /\ Of({"txs"}) => msg.out.mcs <= MaxMcs(msg.out.mode) /\ msg.out.nss \in 1 .. 8

(***************************************************************************)
(* Times.  The survey has every tick once, on the channel the driver takes *)
(* the chip to be on: what it shows and what the counters still hold is    *)
(* what there was.  It is the time the chip spent on that channel, unless  *)
(* a switch that failed before it reached the chip has since let time go   *)
(* by on one channel under the name of the other: __set_channel keeps the  *)
(* new channel whatever the command answers.  A channel that is cleared is *)
(* right again.  A station's airtime has every tick once over associations *)
(* and counters that are cleared (mac80211.c:1000-1178,                    *)
(* mt7921/mac.c:33-127).                                                   *)
(***************************************************************************)
Booked(s) ==
  \A c \in Channels :
    LET open == c = s.cur
    IN s.told[c] =
         [active |-> s.chan[c].active + (IF open THEN s.now - s.since ELSE 0),
          busy |-> s.chan[c].busy + (IF open THEN s.hw.busy ELSE 0),
          tx |-> s.chan[c].tx + (IF open THEN s.hw.tx ELSE 0),
          rx |-> s.chan[c].rx + (IF open THEN s.hw.rx + s.hw.obss ELSE 0)]
SurveyAgrees(s) == Booked(s) /\ \A c \in Channels \ s.strayed : s.true[c] = s.told[c]
TimeIsCountedOnce ==
  /\ Of({"survey"}) => SurveyAgrees(msg.out)
  /\ Of({"airtime"}) =>
       \A q \in Queues4 : \A d \in {"tx", "rx"} :
         msg.out.true[q][d] = msg.out.sum[q][d] + Delta(msg.out.hw[q][d], msg.out.last[q][d])

(***************************************************************************)
(* Sleep.  Asleep, the firmware has all that wake on WLAN needs, except    *)
(* what a lost command was to set; awake again it keeps nothing of it,     *)
(* except the neighbour discovery filter, which is never taken back, and   *)
(* what a lost command was to clear (connac_mcu.c:2447-2673,               *)
(* mt7921/main.c:1144-1188).                                               *)
(***************************************************************************)
LostOf(cmds, lost) == {<<cmds[k].vif, cmds[k].what>> : k \in lost \cap DOMAIN cmds}
SleepIsUndone ==
  Of({"sleep"}) =>
    LET i == msg.in
        set == LostOf(SuspendCmds(i.vifs, i.wowlan), i.lost)
        undo == LostOf(ResumeCmds(i.vifs, i.wowlan), i.later)
        asleep == msg.out.asleep
        awake == msg.out.awake
    IN /\ asleep.sched = (i.wowlan.nd /\ i.vifs > 0) /\ ~awake.sched
       /\ \A v \in 1 .. i.vifs :
            /\ \A f \in {"gtk", "arp", "nd", "mode"} :
                 asleep.fw[v][f] <=> <<v, f>> \notin set
            /\ asleep.fw[v].scan <=> i.wowlan.nd /\ <<v, "scan">> \notin set
            /\ \A f \in {"gtk", "arp", "mode", "scan"} :
                 awake.fw[v][f] => <<v, f>> \in undo
            /\ <<v, "pats">> \notin set => Cardinality(asleep.fw[v].pats) = i.wowlan.patterns
            /\ <<v, "pats">> \notin undo => awake.fw[v].pats = {}
            /\ <<v, "wow">> \notin undo => awake.fw[v].wow = "off"
            /\ awake.fw[v].nd = asleep.fw[v].nd
=============================================================================
