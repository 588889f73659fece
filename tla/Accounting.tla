----------------------------- MODULE Accounting -----------------------------
(***************************************************************************)
(* The time counters of the chip and what the driver makes of them: the    *)
(* survey of the channels (mac80211.c, mt792x_mac.c) and the airtime and   *)
(* acknowledgement signal of a station (mt7921/mac.c).  A history is a     *)
(* sequence of events; "tick" and "air" are what happens on the air.       *)
(* Times are in the counters' units: the division by 1000 of a survey is   *)
(* left out, and so is the noise, which this chip does not report.         *)
(***************************************************************************)
EXTENDS RxFrame

CONSTANTS AirMod,                 \* an airtime counter is a u32
          AirFull                 \* its bit 30
ASSUME AirAssumption == AirFull \in Nat \ {0} /\ AirMod \in Nat /\ AirMod > 2 * AirFull

(***************************************************************************)
(* Survey.  s.chan is what the driver keeps of each channel, s.hw the      *)
(* counters, which are cleared when read, s.since the survey time, s.cur   *)
(* the channel the driver takes the chip to be on and s.air the one it is  *)
(* on.  s.told and s.true have what passed on the one and on the other     *)
(* since the driver last cleared a channel, and s.strayed the channels     *)
(* whose time went to another one or came from there.                      *)
(***************************************************************************)
NoTime == [active |-> 0, busy |-> 0, tx |-> 0, rx |-> 0]
NoCount == [busy |-> 0, tx |-> 0, rx |-> 0, obss |-> 0]
NewSurvey(chans, first) ==
  [now |-> 0, since |-> 0, cur |-> first, air |-> first, main |-> first, works |-> 0,
   mib |-> 0, hwMib |-> 0, hw |-> NoCount, strayed |-> {}, chan |-> [c \in chans |-> NoTime],
   told |-> [c \in chans |-> NoTime], true |-> [c \in chans |-> NoTime]]
Spent(t, use) ==
  [active |-> t.active + 1, busy |-> t.busy + (IF use = "idle" THEN 0 ELSE 1),
   tx |-> t.tx + (IF use = "tx" THEN 1 ELSE 0),
   rx |-> t.rx + (IF use \in {"rx", "obss"} THEN 1 ELSE 0)]
Counted(h, use) ==
  [busy |-> h.busy + (IF use = "idle" THEN 0 ELSE 1), tx |-> h.tx + (IF use = "tx" THEN 1 ELSE 0),
   rx |-> h.rx + (IF use = "rx" THEN 1 ELSE 0), obss |-> h.obss + (IF use = "obss" THEN 1 ELSE 0)]
Tick(s, use) ==
  [s EXCEPT !.now = @ + 1, !.hwMib = @ + 1, !.hw = Counted(@, use),
            !.told[s.cur] = Spent(@, use), !.true[s.air] = Spent(@, use),
            !.strayed = IF s.air = s.cur THEN @ ELSE @ \cup {s.air, s.cur}]

PhyUpdateChannel(time, h) ==
  [time EXCEPT !.busy = @ + h.busy, !.tx = @ + h.tx, !.rx = @ + h.rx + h.obss]
UpdateChannel(s) == [s EXCEPT !.chan[s.cur] = PhyUpdateChannel(@, s.hw), !.hw = NoCount]
UpdateActive(s) == [s EXCEPT !.chan[s.cur].active = @ + (s.now - s.since), !.since = s.now]
UpdateSurvey(s) == UpdateActive(UpdateChannel(s))
MibStats(s) == [s EXCEPT !.mib = @ + s.hwMib, !.hwMib = 0]
MacWork(s) ==
  LET u == UpdateSurvey(s)
  IN IF s.works = 1 THEN [MibStats(u) EXCEPT !.works = 0] ELSE [u EXCEPT !.works = 1]
(* Only the first channel of a band brings the survey up to date.          *)
GetSurvey(s, first) == IF first THEN UpdateSurvey(s) ELSE s
ResetCounters(s) == [s EXCEPT !.since = s.now, !.hw = NoCount]
(* A channel that is not the main one starts from nothing.  The switch     *)
(* takes a while that belongs to no channel.  A command that was lost      *)
(* leaves the chip where it was, one whose answer was lost has moved it;   *)
(* either leaves the counters alone, and the driver on the new channel.    *)
Tune(s, c, off, end) ==
  LET main == IF off THEN s.main ELSE c
      fresh == c # main
      tuned == [s EXCEPT !.cur = c, !.main = main, !.air = IF end = "lost" THEN @ ELSE c,
                         !.chan[c] = IF fresh THEN NoTime ELSE @,
                         !.told[c] = IF fresh THEN NoTime ELSE @,
                         !.true[c] = IF fresh THEN NoTime ELSE @,
                         !.strayed = IF fresh THEN @ \ {c} ELSE @]
  IN IF end = "ok" THEN ResetCounters([tuned EXCEPT !.now = @ + 1]) ELSE tuned
\* Mutant of SetChannel: the survey is brought up to date after the switch.
SetChannelFirst(s, c, off, end) == UpdateSurvey(Tune(s, c, off, end))
SetChannel(s, c, off, end) == Tune(UpdateSurvey(s), c, off, end)
SurveyStep(s, e) ==
  CASE e.ev = "tick" -> Tick(s, e.use)
    [] e.ev = "work" -> MacWork(s)
    [] e.ev = "get" -> GetSurvey(s, e.first)
    [] e.ev = "set" -> SetChannel(s, e.chan, e.off, e.end)
SurveyEvent(chans) ==
  [ev : {"tick"}, use : {"idle", "tx", "rx", "obss"}] \cup [ev : {"work"}]
    \cup [ev : {"get"}, first : BOOLEAN]
    \cup [ev : {"set"}, chan : chans, off : BOOLEAN, end : {"ok", "lost", "late"}]
Survey(chans, first, es) == FoldLeft(SurveyStep, NewSurvey(chans, first), es)

(***************************************************************************)
(* Airtime.  p.last are the counters at the last poll, by the queue of the *)
(* lower MAC, p.sum what mac80211 was told, by TID.  The counters are      *)
(* cleared at the poll after the one that saw one of them half full.       *)
(***************************************************************************)
Queues4 == 0 .. 3
TidOf(q) == <<6, 4, 0, 1>>[4 - q]      \* lmac_mapping, then ac_to_tid
NoAir == [q \in Queues4 |-> [tx |-> 0, rx |-> 0]]
NewPoll == [last |-> NoAir, hw |-> NoAir, sum |-> NoAir, true |-> NoAir]
(* The poll comes often enough: what would carry a counter past its last   *)
(* reading is not counted.                                                 *)
Air(p, q, dir, n) ==
  IF p.true[q][dir] + n >= p.sum[q][dir] + AirMod THEN p
  ELSE [p EXCEPT !.hw[q][dir] = (@ + n) % AirMod, !.true[q][dir] = @ + n]
HalfFull(x) == (x \div AirFull) % 2 = 1
Clear(p) == \E q \in Queues4 : HalfFull(p.last[q].tx) \/ HalfFull(p.last[q].rx)
Delta(new, old) == (new + AirMod - old) % AirMod
ClearAir(p) == [p EXCEPT !.hw = NoAir, !.last = NoAir]
Poll(p) ==
  LET told == [q \in Queues4 |-> [d \in {"tx", "rx"} |->
                 p.sum[q][d] + Delta(p.hw[q][d], p.last[q][d])]]
      read == [p EXCEPT !.last = p.hw, !.sum = told]
  IN IF Clear(p) THEN ClearAir(read) ELSE read
(* Association clears the counters too; what was not polled is lost.       *)
Assoc(p) == [ClearAir(p) EXCEPT !.true = p.sum]
PollStep(p, e) ==
  CASE e.ev = "air" -> Air(p, e.q, e.dir, e.n)
    [] e.ev = "poll" -> Poll(p)
    [] e.ev = "assoc" -> Assoc(p)
PollEvent ==
  [ev : {"air"}, q : Queues4, dir : {"tx", "rx"}, n : Nat] \cup [ev : {"poll", "assoc"}]
Airtime(es) == FoldLeft(PollStep, NewPoll, es)

(* The signal of the acknowledgements, of the chains in the antenna mask.  *)
AckSignal(rcpi) == RxSignal(rcpi)
=============================================================================
