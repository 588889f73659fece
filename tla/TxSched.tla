------------------------------ MODULE TxSched ------------------------------
(* How frames reach a transmit ring (tx.c): management frames wait in their  *)
(* station's tx_pending and tx_offchannel, data frames in the txqs mac80211  *)
(* schedules; the tx worker, and a chip reset (mt7921/usb.c, mt7921/mac.c),  *)
(* move both to the ring, within the limit of frames airtime fairness does   *)
(* not count (non_aql_packets).  The ring itself is UsbTx.  A txq is named   *)
(* by its station; a round of mac80211's scheduler visits each active txq    *)
(* once, in any order; the order of the stations on a list is left out too.  *)
(* No frame asks for power save: nothing sets MT_WCID_FLAG_CHECK_PS, and the *)
(* chip buffers for sleeping stations.                                       *)
EXTENDS Naturals, FiniteSets, Sequences

CONSTANTS
  Stas,        \* stations
  MaxFrames,   \* bound: frames of one queue of a station
  NDesc,       \* MT_NUM_TX_ENTRIES
  FreeThr,     \* MT_TXQ_FREE_THR
  MaxNonAql,   \* MT_MAX_NON_AQL_PKT
  MaxTroubles  \* bound: chip resets, stations that leave, frames that cannot be
               \* prepared, together

ASSUME TxSchedAssumption ==
  /\ IsFiniteSet(Stas)  /\ MaxFrames \in Nat \ {0} /\ MaxNonAql \in Nat \ {0}
  /\ NDesc \in Nat /\ FreeThr \in Nat /\ NDesc > FreeThr
  /\ MaxTroubles \in Nat

VARIABLES
  list,     \* phy->tx_list, as a set
  pend,     \* frames of tx_offchannel and tx_pending
  tx,       \* stations for which mac80211 is between the queue and the list
  frames,   \* frames of each txq
  active,   \* txqs mac80211 would offer
  round,    \* txqs the current round has visited
  ring,     \* entries of the ring, oldest first, and whose they are: counted in
            \* non_aql_packets, counted for an earlier owner, or not counted
  count,    \* wcid->non_aql_packets
  pc, loc, cur,      \* senders: position, spliced list (a set), station or txq at hand
  bad, sent, stop,   \* senders: ret < 0, len > 0, *stop
  st,       \* the status worker's entry and what is left to do for it
  sched, on,         \* tx worker: scheduled, enabled
  reset, ctl,        \* STANDALONE_MT76_RESET; where the chip reset is
  left,     \* history: stations whose frames a sender left where nothing looks
  failed,   \* history: the last run of the worker was cut short by an error
  troubles

queues == <<list, pend, tx, frames, active, round, ring, count>>
senders == <<pc, loc, cur, bad, sent, stop>>
others == <<st, sched, on, reset, ctl>>
history == <<left, failed, troubles>>
schedVars == <<queues, senders, others, history>>

Senders == {"worker", "reset"}
Heads == {"tx_offchannel", "tx_pending"}
Kinds == {"counted", "ghost", "plain"}
Nobody == "nobody"
NoEntry == [pc |-> "idle", w |-> Nobody]

Queued == Len(ring)   \* q->queued
Stopped == Queued + FreeThr >= NDesc

Trouble == troubles < MaxTroubles

Goto(p, to) == pc' = [pc EXCEPT ![p] = to]
Set(f, x, v) == [f EXCEPT ![x] = v]

\* __tx_queue_skb has queued a frame of w; c: airtime fairness does not count it.
Counted(w, c) ==
  /\ ring' = Append(ring, [sta |-> w, kind |-> IF c THEN "counted" ELSE "plain"])
  /\ count' = IF c THEN [count EXCEPT ![w] = @ + 1] ELSE count

\* Mutant: counted though the ring refused it.
RefusedIsCounted(w) ==
  /\ Queued = NDesc \/ Trouble
  /\ troubles' = IF Queued = NDesc THEN troubles ELSE troubles + 1
  /\ count' = [count EXCEPT ![w] = @ + 1]
  /\ UNCHANGED ring

\* The ring refuses the frame.
Refused(w) ==
  /\ Queued = NDesc \/ Trouble
  /\ troubles' = IF Queued = NDesc THEN troubles ELSE troubles + 1
  /\ UNCHANGED <<ring, count>>

-----------------------------------------------------------------------------
(* standalone_mt76_txq_schedule_pending                                     *)

\* w is on some list: list_empty(&w->tx_list) is false.
OnList(w) == w \in list \/ \E p \in Senders : w \in loc[p]

Start(p) ==
  /\ pc[p] = "off"
  /\ IF p = "worker" THEN on /\ sched /\ sched' = FALSE /\ ctl' = ctl /\ failed' = FALSE
                     ELSE ctl = "begin" /\ ctl' = "burst" /\ UNCHANGED <<sched, failed>>
  /\ loc' = Set(loc, p, list) /\ list' = {}
  /\ bad' = Set(bad, p, FALSE)
  /\ Goto(p, "pending")
  /\ UNCHANGED <<pend, tx, frames, active, round, ring, count, cur, sent, stop, st, on, reset,
                 left, troubles>>

TakeStation(p) ==
  /\ pc[p] = "pending"
  /\ \E w \in loc[p] : cur' = Set(cur, p, w) /\ loc' = Set(loc, p, loc[p] \ {w})
  /\ Goto(p, "tx_offchannel")
  /\ UNCHANGED <<queues, bad, sent, stop, others, history>>

\* schedule_pending_wcid: one frame, taken and queued.
SendPending(p, h) ==
  LET w == cur[p] IN
  /\ pc[p] = h /\ ~bad[p] /\ pend[w][h] > 0
  /\ ~Stopped /\ ~reset
  /\ pend' = [pend EXCEPT ![w][h] = @ - 1]
  /\ \/ Queued < NDesc /\ (\E c \in BOOLEAN : Counted(w, c)) /\ UNCHANGED troubles
     \/ Refused(w)
  /\ UNCHANGED <<list, tx, frames, active, round, senders, others, left, failed>>

\* The queue is empty, or is left as it is because a ring was stopped.
QueueEnds(p, h) ==
  /\ pc[p] = h
  /\ bad[p] \/ pend[cur[p]][h] = 0 \/ Stopped \/ reset
  /\ bad' = [bad EXCEPT ![p] = @ \/ pend[cur[p]][h] > 0]
  /\ Goto(p, IF h = "tx_offchannel" THEN "tx_pending" ELSE "relist")
  /\ UNCHANGED <<queues, loc, cur, sent, stop, others, history>>

\* Back on the list when both queues hold frames; with one, nothing looks at it
\* before mac80211 sends again.
Relist(p) ==
  LET w == cur[p]
      again == \A h \in Heads : pend[w][h] > 0
  IN  /\ pc[p] = "relist"
      /\ list' = IF again /\ ~OnList(w) THEN list \cup {w} ELSE list
      /\ left' = IF bad[p] /\ ~again /\ ~OnList(w) /\ (\E h \in Heads : pend[w][h] > 0)
                 THEN left \cup {<<w, "pending">>} ELSE left
      /\ cur' = Set(cur, p, Nobody)
      /\ Goto(p, "pending")
      /\ UNCHANGED <<pend, tx, frames, active, round, ring, count, loc, bad, sent, stop, others,
                     failed, troubles>>

PendingSteps(p) ==
  \/ TakeStation(p)
  \/ \E h \in Heads : SendPending(p, h) \/ QueueEnds(p, h)
  \/ Relist(p)

-----------------------------------------------------------------------------
(* standalone_mt76_txq_schedule, _list and _send_burst                      *)

StartRound(p) ==
  /\ \/ pc[p] = "round"
     \/ pc[p] = "pending" /\ loc[p] = {}
  /\ round' = {}
  /\ sent' = Set(sent, p, FALSE) /\ bad' = Set(bad, p, FALSE)
  /\ Goto(p, "next")
  /\ UNCHANGED <<list, pend, tx, frames, active, ring, count, loc, cur, stop, others, history>>

NextTxq(p) ==
  /\ pc[p] = "next"
  /\ \E w \in active \ round :
       /\ active' = active \ {w}
       /\ round' = round \cup {w}
       /\ cur' = Set(cur, p, w)
  /\ Goto(p, "test")
  /\ UNCHANGED <<list, pend, tx, frames, ring, count, loc, bad, sent, stop, others, history>>

\* A whole round that sent nothing ends the run.
RoundEnds(p) ==
  /\ pc[p] = "next" /\ active \subseteq round
  /\ Goto(p, IF sent[p] THEN "round" ELSE "off")
  /\ sent' = Set(sent, p, FALSE)
  /\ UNCHANGED <<queues, loc, cur, bad, stop, others, history>>

\* A txq that is skipped is not given back.
TestTxq(p) ==
  LET w == cur[p]
      skip == reset \/ count[w] >= MaxNonAql
  IN  /\ pc[p] = "test"
      /\ Goto(p, IF skip THEN "next" ELSE "first")
      /\ cur' = IF skip THEN Set(cur, p, Nobody) ELSE cur
      /\ left' = IF reset THEN left \cup {<<w, "txq">>} ELSE left
      /\ UNCHANGED <<queues, loc, bad, sent, stop, others, failed, troubles>>

\* A frame leaves the txq; with `next' the burst goes on.
SendFrame(p, next) ==
  LET w == cur[p] IN
  /\ frames[w] > 0 /\ Queued < NDesc
  /\ frames' = [frames EXCEPT ![w] = @ - 1]
  /\ \E c \in BOOLEAN :
       Counted(w, c) /\ stop' = Set(stop, p, c /\ count[w] + 1 >= MaxNonAql)
  /\ sent' = Set(sent, p, TRUE)
  /\ Goto(p, next)
  /\ UNCHANGED <<list, pend, tx, active, round, loc, cur, bad, others, history>>

LoseFrame(p, next) ==
  LET w == cur[p] IN
  /\ frames[w] > 0
  /\ frames' = [frames EXCEPT ![w] = @ - 1]
  /\ Refused(w)
  /\ Goto(p, next)
  /\ UNCHANGED <<list, pend, tx, active, round, loc, cur, bad, sent, stop, others, left, failed>>

NoFrame(p, next) == Goto(p, next) /\ UNCHANGED <<queues, loc, cur, bad, sent, stop, others, history>>

FirstFrame(p) ==
  LET w == cur[p]
      closed == Stopped \/ count[w] >= MaxNonAql \/ frames[w] = 0
  IN  /\ pc[p] = "first"
      /\ \/ closed /\ NoFrame(p, "return")
         \/ ~closed /\ (SendFrame(p, "more") \/ LoseFrame(p, "return_err"))

NextFrame(p) ==
  LET ends == reset \/ stop[p] \/ Stopped \/ frames[cur[p]] = 0
  IN  /\ pc[p] = "more"
      /\ \/ ends /\ NoFrame(p, "return")
         \/ ~ends /\ (SendFrame(p, "more") \/ LoseFrame(p, "return"))

\* ieee80211_return_txq; a first frame that was refused ends the run.
ReturnTxq(p) ==
  LET w == cur[p] IN
  /\ pc[p] \in {"return", "return_err"}
  /\ active' = IF frames[w] > 0 THEN active \cup {w} ELSE active
  /\ cur' = Set(cur, p, Nobody)
  /\ failed' = IF p = "worker" THEN pc[p] = "return_err" ELSE failed
  /\ stop' = Set(stop, p, FALSE)
  /\ Goto(p, IF pc[p] = "return" THEN "next" ELSE "off")
  /\ sent' = IF pc[p] = "return" THEN sent ELSE Set(sent, p, FALSE)
  /\ UNCHANGED <<list, pend, tx, frames, round, ring, count, loc, bad, others, left, troubles>>

Txqs(p) ==
  \/ StartRound(p) \/ NextTxq(p) \/ RoundEnds(p) \/ TestTxq(p)
  \/ FirstFrame(p) \/ NextFrame(p) \/ ReturnTxq(p)

Send(p) == Start(p) \/ PendingSteps(p) \/ Txqs(p)

-----------------------------------------------------------------------------
(* The status worker completes the entries of the ring: check_non_aql, then  *)
(* the entry is free and the tx worker scheduled.                            *)

\* An entry that was not counted is freed in one step.
Reap ==
  /\ st.pc = "idle"
  /\ ring # <<>> /\ ring[1].kind = "plain"
  /\ ring' = Tail(ring)
  /\ sched' = TRUE
  /\ UNCHANGED <<list, pend, tx, frames, active, round, count, senders, st, on, reset, ctl, history>>

\* Mutant: the txqs are offered again one frame too early.
UncountLate ==
  /\ st.pc = "idle"
  /\ ring # <<>> /\ ring[1].kind # "plain"
  /\ ring' = [ring EXCEPT ![1].kind = "plain"]
  /\ LET w == ring[1].sta IN
       /\ count' = [count EXCEPT ![w] = IF @ = 0 THEN 0 ELSE @ - 1]
       /\ st' = [pc |-> IF count[w] = MaxNonAql + 1 THEN "revive" ELSE "free", w |-> w]
  /\ UNCHANGED <<list, pend, tx, frames, active, round, senders, sched, on, reset, ctl, history>>

\* The counter is that of the station that has the index now.
Uncount ==
  /\ st.pc = "idle"
  /\ ring # <<>> /\ ring[1].kind # "plain"
  /\ ring' = [ring EXCEPT ![1].kind = "plain"]
  /\ LET w == ring[1].sta IN
       /\ count' = [count EXCEPT ![w] = IF @ = 0 THEN 0 ELSE @ - 1]
       /\ st' = [pc |-> IF count[w] = MaxNonAql THEN "revive" ELSE "free", w |-> w]
  /\ UNCHANGED <<list, pend, tx, frames, active, round, senders, sched, on, reset, ctl, history>>

Revive ==
  /\ st.pc = "revive"
  /\ active' = IF frames[st.w] > 0 THEN active \cup {st.w} ELSE active
  /\ st' = [st EXCEPT !.pc = "free"]
  /\ UNCHANGED <<list, pend, tx, frames, round, ring, count, senders, sched, on, reset, ctl, history>>

\* Mutant: the tx worker is not told.
FreeEntryQuiet ==
  /\ st.pc = "free"
  /\ ring' = Tail(ring)
  /\ st' = NoEntry
  /\ UNCHANGED <<list, pend, tx, frames, active, round, count, senders, sched, on, reset, ctl, history>>

FreeEntry ==
  /\ st.pc = "free"
  /\ ring' = Tail(ring)
  /\ st' = NoEntry
  /\ sched' = TRUE
  /\ UNCHANGED <<list, pend, tx, frames, active, round, count, senders, on, reset, ctl, history>>

Status == Reap \/ Uncount \/ Revive \/ FreeEntry

-----------------------------------------------------------------------------
(* mac80211 and the chip reset.                                             *)

\* A data frame for w: schedule_and_wake_txq.
Enqueue(w) ==
  /\ frames[w] < MaxFrames
  /\ frames' = [frames EXCEPT ![w] = @ + 1]
  /\ active' = active \cup {w}
  /\ left' = left \ {<<w, "txq">>}
  /\ sched' = TRUE
  /\ UNCHANGED <<list, pend, tx, round, ring, count, senders, st, on, reset, ctl, failed, troubles>>

\* standalone_mt76_tx: the frame goes into its queue, then the station on the list.
Tx(w, h) ==
  /\ w \notin tx /\ pend[w][h] < MaxFrames
  /\ pend' = [pend EXCEPT ![w][h] = @ + 1]
  /\ tx' = tx \cup {w}
  /\ UNCHANGED <<list, frames, active, round, ring, count, senders, others, history>>

TxLists(w) ==
  /\ w \in tx
  /\ tx' = tx \ {w}
  /\ list' = IF OnList(w) THEN list ELSE list \cup {w}
  /\ left' = left \ {<<w, "pending">>}
  /\ sched' = TRUE
  /\ UNCHANGED <<pend, frames, active, round, ring, count, senders, st, on, reset, ctl, failed, troubles>>

\* A station leaves (wcid_cleanup) and another gets its index.  mac80211 sends it
\* nothing any more and the senders' grace period is over.
Leave(w) ==
  /\ Trouble /\ troubles' = troubles + 1
  /\ w \notin tx /\ \A p \in Senders : cur[p] # w
  /\ list' = list \ {w}
  /\ loc' = [p \in Senders |-> loc[p] \ {w}]
  /\ pend' = [pend EXCEPT ![w] = [h \in Heads |-> 0]]
  /\ frames' = [frames EXCEPT ![w] = 0]
  /\ active' = active \ {w}
  /\ ring' = [i \in DOMAIN ring |->
                IF ring[i] = [sta |-> w, kind |-> "counted"]
                THEN [sta |-> w, kind |-> "ghost"] ELSE ring[i]]
  /\ count' = [count EXCEPT ![w] = 0]
  /\ left' = left \ ({w} \X {"txq", "pending"})
  /\ UNCHANGED <<tx, round, pc, cur, bad, sent, stop, st, sched, on, reset, ctl, failed>>

\* reset_work sets RESET; mac_reset runs the senders once more, parks the worker,
\* has stop_tx empty the ring, loads the firmware, and starts the worker.
SetReset ==
  /\ ctl = "idle" /\ Trouble /\ troubles' = troubles + 1
  /\ reset' = TRUE /\ ctl' = "begin"
  /\ UNCHANGED <<queues, senders, st, sched, on, left, failed>>

Disable ==
  /\ ctl = "burst" /\ pc["reset"] = "off"
  /\ ctl' = "park" /\ on' = FALSE
  /\ UNCHANGED <<queues, senders, st, sched, reset, history>>

Parked ==
  /\ ctl = "park" /\ pc["worker"] = "off"
  /\ ctl' = "drain"
  /\ UNCHANGED <<queues, senders, st, sched, on, reset, history>>

Resume ==
  /\ ctl = "drain" /\ Queued = 0 /\ st.pc = "idle"
  /\ ctl' = "idle" /\ reset' = FALSE /\ on' = TRUE /\ sched' = TRUE
  /\ UNCHANGED <<queues, senders, st, history>>

Reset == SetReset \/ Disable \/ Parked \/ Resume
Mac80211 ==
  \E w \in Stas : Enqueue(w) \/ Leave(w) \/ TxLists(w) \/ \E h \in Heads : Tx(w, h)

SchedInit ==
  /\ list = {} /\ tx = {} /\ active = {} /\ round = {} /\ left = {}
  /\ pend = [w \in Stas |-> [h \in Heads |-> 0]]
  /\ frames = [w \in Stas |-> 0] /\ count = [w \in Stas |-> 0]
  /\ ring = <<>>
  /\ pc = [p \in Senders |-> "off"] /\ loc = [p \in Senders |-> {}]
  /\ cur = [p \in Senders |-> Nobody]
  /\ bad = [p \in Senders |-> FALSE] /\ sent = bad /\ stop = bad
  /\ st = NoEntry
  /\ sched = FALSE /\ on = TRUE /\ reset = FALSE /\ ctl = "idle"
  /\ failed = FALSE /\ troubles = 0

SchedNext == (\E p \in Senders : Send(p)) \/ Status \/ Mac80211 \/ Reset

SchedSpec == SchedInit /\ [][SchedNext]_schedVars

-----------------------------------------------------------------------------
(* Properties.                                                              *)

Own(w) == {i \in DOMAIN ring : ring[i] = [sta |-> w, kind |-> "counted"]}

Positions == {"off", "pending", "relist", "round", "next", "test", "first", "more", "return",
              "return_err"} \cup Heads

SchedTypeOK ==
  /\ list \cup tx \cup active \cup round \subseteq Stas
  /\ pend \in [Stas -> [Heads -> 0..MaxFrames]] /\ frames \in [Stas -> 0..MaxFrames]
  /\ ring \in Seq([sta : Stas, kind : Kinds]) /\ Queued <= NDesc /\ count \in [Stas -> Nat]
  /\ pc \in [Senders -> Positions] /\ loc \in [Senders -> SUBSET Stas]
  /\ cur \in [Senders -> Stas \cup {Nobody}]
  /\ bad \in [Senders -> BOOLEAN] /\ sent \in [Senders -> BOOLEAN] /\ stop \in [Senders -> BOOLEAN]
  /\ st \in [pc : {"idle", "revive", "free"}, w : Stas \cup {Nobody}]
  /\ sched \in BOOLEAN /\ on \in BOOLEAN /\ reset \in BOOLEAN /\ failed \in BOOLEAN
  /\ ctl \in {"idle", "begin", "burst", "park", "drain"} /\ left \subseteq Stas \X {"txq", "pending"}

\* A station is never throttled by frames that are gone: non_aql_packets does not
\* exceed its own frames in the ring that were counted (__tx_queue_skb counts after
\* the ring took the frame, check_non_aql clamps, an index changes owner).
ThrottleIsSound == SchedTypeOK /\ \A w \in Stas : count[w] <= Cardinality(Own(w))

\* The txq of a station with frames is offered to the senders, in the hands of one,
\* throttled by frames whose completion offers it again (check_non_aql at the limit),
\* or was dropped in a reset (txq_schedule_list gives no skipped txq back).
TxqIsOffered ==
  \A w \in Stas : frames[w] > 0 =>
    \/ w \in active \/ <<w, "txq">> \in left
    \/ \E p \in Senders : cur[p] = w /\ pc[p] \in {"test", "first", "more", "return", "return_err"}
    \/ count[w] >= MaxNonAql
    \/ st.pc = "revive" /\ st.w = w

\* A station with frames in tx_pending or tx_offchannel is on a list, about to be
\* put on one, in the hands of a sender, or its sender met a stopped ring or a reset.
QueuedIsListed ==
  \A w \in Stas : (\E h \in Heads : pend[w][h] > 0) =>
    \/ OnList(w) \/ w \in tx \/ <<w, "pending">> \in left
    \/ \E p \in Senders : cur[p] = w /\ pc[p] \in Heads \cup {"relist"}

\* A frame that waits has somebody who will come for it, wherever it waits.
WaitingIsServed == TxqIsOffered /\ QueuedIsListed

\* When the tx worker rests, nothing it could send waits: the ring is stopped (its
\* completions schedule the worker), unless the last run met an error.
NoStall ==
  (pc["worker"] = "off" /\ ~sched /\ ctl = "idle" /\ st.pc = "idle" /\ ~failed) =>
    \/ Stopped
    \/ list = {} /\ \A w \in active : frames[w] = 0

=============================================================================
