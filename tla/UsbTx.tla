------------------------------- MODULE UsbTx -------------------------------
(***************************************************************************)
(* One AC transmit queue of usb.c: the ring of URBs filled and kicked by   *)
(* the tx worker and by a reset (tx.c), completed by the host controller,  *)
(* reaped by the status worker, and emptied by stop_tx in a chip reset     *)
(* (mt7921/usb.c) or after the device was removed.  A section under        *)
(* q->lock is one step: nothing that reads the ring without the lock can   *)
(* tell it from the steps inside.                                          *)
(***************************************************************************)
EXTENDS Naturals, FiniteSets, Sequences

CONSTANTS
  NDesc,        \* MT_NUM_TX_ENTRIES
  FreeThr,      \* MT_TXQ_FREE_THR
  Transient,    \* usb_submit_urb may fail with another error than -ENODEV
  Resets        \* the chip may be reset

Senders == {"worker", "reset"}      \* contexts that run txq_schedule_all

ASSUME NDescAssumption == NDesc \in Nat /\ NDesc > FreeThr
\* Each sender may queue one frame after it saw the queue not stopped.
ASSUME FreeThrAssumption == FreeThr \in Nat /\ FreeThr >= Cardinality(Senders)
ASSUME FaultAssumption == {Transient, Resets} \subseteq BOOLEAN

VARIABLES
  head, first, tail, queued,   \* q->head, q->first, q->tail, q->queued
  done,                        \* slots whose entry is marked done
  flying,                      \* slots whose URB the host controller owns
  kicks,                       \* history: how the kicks went, see Kick
  send,                        \* where each sender is in its burst
  txOn, txSched,               \* tx worker: enabled, scheduled
  st, stOn, stSched,           \* status worker: position, enabled, scheduled
  ctl,                         \* where stop_tx and its caller are
  reset, up,                   \* STATE_RESET, STATE_RUNNING
  gone, open                   \* device unplugged; mac80211 offers frames

ring == <<head, first, tail, queued, done, flying, kicks>>
workers == <<send, txOn, txSched, st, stOn, stSched>>
state == <<ctl, reset, up, gone, open>>
vars == <<ring, workers, state>>

Slots == 0..(NDesc - 1)
Inc(i) == (i + 1) % NDesc

TypeOK ==
  /\ head \in Slots /\ first \in Slots /\ tail \in Slots /\ queued \in 0..NDesc
  /\ done \subseteq Slots /\ flying \subseteq Slots
  /\ send \in [Senders -> {"off", "start", "pend", "first", "more", "next", "kick"}]
  /\ st \in {"idle", "reap", "report"}
  /\ kicks \in {"clean", "refused", "stale"}
  /\ ctl \in {"idle", "begin", "again", "burst", "park", "stop", "parkst", "wait", "kill", "repark",
              "reparked", "drain", "cancel", "resume", "close", "freed"}
  /\ txOn \in BOOLEAN /\ txSched \in BOOLEAN /\ stOn \in BOOLEAN /\ stSched \in BOOLEAN
  /\ reset \in BOOLEAN /\ up \in BOOLEAN /\ gone \in BOOLEAN /\ open \in BOOLEAN

-----------------------------------------------------------------------------
(* The ring, under q->lock.                                                *)

StoppedLate == queued >= NDesc         \* mutant: no reserve
Stopped == queued + FreeThr >= NDesc

\* tx_queue_skb refuses a full ring; preparing the frame may fail too.
QueueFails == UNCHANGED <<head, queued>>

QueueOk ==
  /\ queued < NDesc
  /\ head' = Inc(head)
  /\ queued' = queued + 1

\* tx_kick from the slots f up to h: it submits the first n of them.  It stops
\* early at an error: the device is gone, another error, or an active URB.  `kicks'
\* tells whether the last kick was refused a frame, and whether stop_tx freed such a
\* frame without taking first along.
Kick(f, h) ==
  LET Offset(i) == (i + NDesc - f) % NDesc
      todo == (h + NDesc - f) % NDesc
  IN  \E n \in 0..todo :
        LET sent == {i \in Slots : Offset(i) < n}
        IN  /\ sent \cap flying = {}
            /\ gone => n = 0
            /\ n < todo => gone \/ Transient \/ (f + n) % NDesc \in flying
            /\ flying' = flying \cup sent
            /\ first' = (f + n) % NDesc
            /\ kicks' = IF kicks = "stale" THEN kicks ELSE IF n = todo THEN "clean" ELSE "refused"

-----------------------------------------------------------------------------
(* A sender: txq_schedule_pending and txq_schedule_list.                    *)

Move(p, from, to) == send[p] = from /\ send' = [send EXCEPT ![p] = to]

ReadyInReset == open /\ ~Stopped     \* mutant: does not test the RESET bit
Ready == open /\ ~Stopped /\ ~reset

\* A frame of wcid->tx_pending or of a txq is taken.
TakePending(p) == Ready /\ Move(p, "start", "pend") /\ UNCHANGED ring
TakeFirst(p)   == Ready /\ Move(p, "start", "first") /\ UNCHANGED ring
TakeNext(p)    == Ready /\ Move(p, "more", "next") /\ UNCHANGED ring
BurstEnds(p)   == Move(p, "more", "kick") /\ UNCHANGED ring
NothingLeft(p) == Move(p, "start", "off") /\ UNCHANGED ring

\* One section: the frame is queued, and the ring kicked in any case.
SendPending(p) ==
  /\ Move(p, "pend", "start")
  /\ QueueOk \/ QueueFails
  /\ Kick(first, head')
  /\ UNCHANGED <<tail, done>>

\* A burst whose first frame fails returns without a kick.
QueueFirst(p) ==
  /\ \/ QueueOk /\ Move(p, "first", "more")
     \/ QueueFails /\ Move(p, "first", "off")
  /\ UNCHANGED <<first, tail, done, flying, kicks>>

QueueNext(p) ==
  /\ \/ QueueOk /\ Move(p, "next", "more")
     \/ QueueFails /\ Move(p, "next", "kick")
  /\ UNCHANGED <<first, tail, done, flying, kicks>>

KickBurst(p) ==
  /\ Move(p, "kick", "start")
  /\ Kick(first, head)
  /\ UNCHANGED <<head, queued, tail, done>>

Take(p) ==
  /\ TakePending(p) \/ TakeFirst(p) \/ TakeNext(p)
  /\ UNCHANGED <<txOn, txSched, st, stOn, stSched, state>>

\* mac80211 has no more frame, or the ring is stopped.
Return(p) ==
  /\ NothingLeft(p)
  /\ UNCHANGED <<txOn, txSched, st, stOn, stSched, state>>

Settle(p) ==
  /\ \/ BurstEnds(p) \/ SendPending(p) \/ QueueFirst(p) \/ QueueNext(p) \/ KickBurst(p)
  /\ UNCHANGED <<txOn, txSched, st, stOn, stSched, state>>

\* The tx worker runs when it was scheduled: by mac80211, or by the status worker.
WorkerStarts ==
  /\ txOn /\ txSched /\ Move("worker", "off", "start")
  /\ txSched' = FALSE
  /\ UNCHANGED <<ring, txOn, st, stOn, stSched, state>>

Wake ==
  /\ open /\ ~txSched /\ txSched' = TRUE
  /\ UNCHANGED <<ring, send, txOn, st, stOn, stSched, state>>

-----------------------------------------------------------------------------
(* The host controller and the status worker.                              *)

Complete(i) ==
  /\ i \in flying
  /\ flying' = flying \ {i}
  /\ done' = done \cup {i}
  /\ stSched' = TRUE
  /\ UNCHANGED <<head, first, tail, queued, kicks, send, txOn, txSched, st, stOn, state>>

Reap ==
  /\ stOn /\ stSched /\ st = "idle"
  /\ stSched' = FALSE
  /\ st' = IF up THEN "reap" ELSE "idle"
  /\ UNCHANGED <<ring, send, txOn, txSched, stOn, state>>

Finished == queued > 0 /\ tail \in done

TakeDone ==
  /\ st = "reap" /\ Finished
  /\ done' = done \ {tail}
  /\ st' = "report"
  /\ UNCHANGED <<head, first, tail, queued, flying, kicks, send, txOn, txSched, stOn, stSched, state>>

\* queue_tx_complete: the frame goes to tx_complete_skb, then the slot is freed.
Drop == tail' = Inc(tail) /\ queued' = queued - 1

ReportOne ==   \* mutant: one frame for each run of the worker
  /\ st = "report"
  /\ Drop
  /\ st' = "idle"
  /\ UNCHANGED <<head, first, done, flying, kicks, send, txOn, txSched, stOn, stSched, state>>

Report ==
  /\ st = "report"
  /\ Drop
  /\ st' = "reap"
  /\ UNCHANGED <<head, first, done, flying, kicks, send, txOn, txSched, stOn, stSched, state>>

ReapEnds ==
  /\ st = "reap" /\ ~Finished
  /\ st' = "idle" /\ txSched' = TRUE
  /\ UNCHANGED <<ring, send, txOn, stOn, stSched, state>>

Status == Reap \/ TakeDone \/ Report \/ ReapEnds

-----------------------------------------------------------------------------
(* mac_reset around stop_tx, and stop_tx after a removal.                  *)

Unplug ==
  /\ ~gone /\ gone' = TRUE
  /\ UNCHANGED <<ring, workers, ctl, reset, up, open>>

\* mac_reset_work sets STATE_RESET ...
ResetBegins ==
  /\ Resets /\ ~gone /\ ctl = "idle"
  /\ ctl' = "begin"
  /\ reset' = TRUE
  /\ UNCHANGED <<ring, workers, up, gone, open>>

\* ... and mac_reset first runs txq_schedule_all in its own context.  Only when it
\* is tried again, the bit being cleared by then, does that send anything.
ResetBursts ==
  /\ ctl \in {"begin", "again"}
  /\ ctl' = "burst"
  /\ Move("reset", "off", "start")
  /\ UNCHANGED <<ring, txOn, txSched, st, stOn, stSched, reset, up, gone, open>>

\* worker_disable: the worker is asked to park, and starts no run any more; ...
AskTx(from, to) ==
  /\ ctl = from /\ ctl' = to
  /\ txOn' = FALSE
  /\ UNCHANGED <<ring, send, txSched, st, stOn, stSched, reset, up, gone, open>>

\* ... the call returns when it has, and a request made before is dropped.
TxParked(from, to) ==
  /\ ctl = from /\ ctl' = to
  /\ send["worker"] = "off"
  /\ txSched' = FALSE
  /\ UNCHANGED <<ring, send, txOn, st, stOn, stSched, up, gone, open>>

ResetParks == send["reset"] = "off" /\ AskTx("burst", "park")

\* mac_reset sets STATE_RESET, wakes the MCU waiters, and stops.
ResetParked == TxParked("park", "stop") /\ reset' = TRUE

\* unregister_hw takes the interface down: mac80211 offers no frame any more, and
\* the frame a worker has in its hands is queued before the stop.
RemovalCloses ==
  /\ gone /\ ctl = "idle"
  /\ open' = FALSE
  /\ ctl' = "close"
  /\ UNCHANGED <<ring, workers, reset, up, gone>>

RemovalStops ==
  /\ ctl = "close" /\ send["worker"] = "off"
  /\ ctl' = "stop"
  /\ UNCHANGED <<ring, workers, reset, up, gone, open>>

StopBegins ==
  /\ ctl = "stop" /\ ctl' = "parkst"
  /\ stOn' = FALSE
  /\ UNCHANGED <<ring, send, txOn, txSched, st, stSched, reset, up, gone, open>>

StatusParked ==
  /\ ctl = "parkst" /\ ctl' = "wait"
  /\ st = "idle"
  /\ stSched' = FALSE
  /\ UNCHANGED <<ring, send, txOn, txSched, st, stOn, reset, up, gone, open>>

\* The wait ends early when no queue holds a frame; this one may be empty when
\* it times out, another queue holding some.
WaitEnds ==
  /\ ctl = "wait"
  /\ \/ queued = 0 /\ ctl' = "cancel"
     \/ ctl' = "kill"
  /\ UNCHANGED <<ring, workers, reset, up, gone, open>>

KillNothing ==   \* mutant: leaves the URBs to the host controller
  /\ ctl = "kill"
  /\ ctl' = "repark"
  /\ UNCHANGED <<ring, workers, reset, up, gone, open>>

\* usb_kill_urb on every slot: the URBs complete at the latest now.
Kill ==
  /\ ctl = "kill"
  /\ done' = done \cup flying
  /\ flying' = {}
  /\ stSched' = (stSched \/ flying # {})
  /\ ctl' = "repark"
  /\ UNCHANGED <<head, first, tail, queued, kicks, send, txOn, txSched, st, stOn, reset, up, gone, open>>

Repark == AskTx("repark", "reparked")

Reparked == TxParked("reparked", "drain") /\ UNCHANGED reset

Drain ==
  /\ ctl = "drain" /\ queued > 0
  /\ done' = done \ {tail}
  /\ Drop
  /\ kicks' = IF tail = first /\ first # head /\ ~gone THEN "stale" ELSE kicks
  /\ UNCHANGED <<head, first, flying, workers, state>>

\* worker_enable: the tx worker runs again, although mac_reset had parked it.
Drained ==
  /\ ctl = "drain" /\ queued = 0
  /\ txOn' = TRUE /\ txSched' = TRUE
  /\ ctl' = "cancel"
  /\ UNCHANGED <<ring, send, st, stOn, stSched, reset, up, gone, open>>

\* mac_reset goes on; mt792x_stop clears STATE_RUNNING.
StopEnds ==
  /\ ctl = "cancel"
  /\ stOn' = TRUE /\ stSched' = TRUE
  /\ up' = reset
  /\ ctl' = IF reset THEN "resume" ELSE "freed"
  /\ UNCHANGED <<ring, send, txOn, txSched, st, reset, gone, open>>

\* The firmware is loaded again; when that fails mac_reset_work tries again, ten
\* times at most (here without a bound), with the bit cleared and the worker running.
ResetEnds ==
  /\ ctl = "resume"
  /\ reset' = FALSE
  /\ txOn' = TRUE /\ txSched' = TRUE
  /\ ctl' \in {"idle", "again"}
  /\ UNCHANGED <<ring, send, st, stOn, stSched, up, gone, open>>

Control ==
  ResetBursts \/ ResetParks \/ ResetParked \/ StopBegins \/ StatusParked \/ WaitEnds \/ Kill
  \/ Repark \/ Reparked \/ Drain \/ Drained
  \/ StopEnds \/ ResetEnds \/ RemovalCloses \/ RemovalStops

-----------------------------------------------------------------------------
Init ==
  /\ head = 0 /\ first = 0 /\ tail = 0 /\ queued = 0
  /\ done = {} /\ flying = {} /\ kicks = "clean"
  /\ send = [p \in Senders |-> "off"]
  /\ txOn = TRUE /\ txSched = FALSE
  /\ st = "idle" /\ stOn = TRUE /\ stSched = FALSE
  /\ ctl = "idle" /\ reset = FALSE
  /\ up = TRUE /\ gone = FALSE /\ open = TRUE

\* The device is plugged in again: alloc_tx for a new instance of the driver.
Probe ==
  /\ ctl = "freed" /\ st = "idle" /\ send["worker"] = "off"
  /\ head' = 0 /\ first' = 0 /\ tail' = 0 /\ queued' = 0
  /\ done' = {} /\ flying' = {} /\ kicks' = "clean"
  /\ txOn' = TRUE /\ txSched' = FALSE /\ stOn' = TRUE /\ stSched' = FALSE
  /\ ctl' = "idle" /\ up' = TRUE /\ gone' = FALSE /\ open' = TRUE
  /\ UNCHANGED <<send, st, reset>>

Next ==
  \/ \E p \in Senders : Take(p) \/ Settle(p) \/ Return(p)
  \/ WorkerStarts \/ Wake
  \/ \E i \in Slots : Complete(i)
  \/ Status
  \/ Control
  \/ Unplug \/ ResetBegins \/ Probe

Spec == Init /\ [][Next]_vars

\* The workers and the control context are scheduled, the device accepts what
\* was submitted or the URB fails, and mac80211's queues run empty now and then,
\* so that a worker's run ends.
FairSpec ==
  /\ Spec
  /\ \A p \in Senders : WF_vars(Settle(p)) /\ SF_vars(Return(p))
  /\ WF_vars(WorkerStarts)
  /\ \A i \in Slots : WF_vars(Complete(i))
  /\ WF_vars(Status) /\ WF_vars(Control)

-----------------------------------------------------------------------------
\* The i-th slot from the tail.
Nth(i) == (tail + i) % NDesc

Unsubmitted == (head + NDesc - first) % NDesc

\* head - first tells how many frames still wait for their URB, also when the
\* ring is as full as it can get (the loop of tx_kick cannot tell a full ring of
\* waiting frames from an empty one) and after a kick that was refused a frame: the
\* older frames are with the host controller or done, the younger ones are neither,
\* and no other slot is either.
SubmittedInv ==
  /\ TypeOK
  /\ ~gone /\ kicks # "stale" =>
       /\ head = Nth(queued)
       /\ Unsubmitted <= queued
       /\ LET reported == IF st = "report" THEN {tail} ELSE {}
              submitted == {Nth(i) : i \in {k \in 0..(NDesc - 1) : k + Unsubmitted < queued}}
          IN  /\ flying \cap done = {}
              /\ flying \cup done = submitted \ reported

\* The ring is a queue of frames in order: whatever senders, host controller, status
\* worker and stop_tx do, frames are submitted oldest first, each once, and the oldest
\* is freed only when its URB is not active; one that was never submitted is dropped
\* only with no URB active at all.
InRing == [k \in 1..queued |-> Nth(k - 1)]
Reported == IF st = "report" THEN {tail} ELSE {}

Fifo == INSTANCE TxFifo WITH Entries <- Slots, fifo <- InRing, bus <- flying,
                             over <- done \cup Reported, sane <- kicks # "stale"

KeepsFifo == Fifo!Spec

\* From the parked worker to the end of the reset nothing is queued or submitted,
\* although stop_tx lets the tx worker run again in the middle.
Quiet == reset /\ ctl \notin {"begin", "burst", "park"}
QuietStep == Quiet /\ Quiet' => head' = head /\ flying' \subseteq flying
QuietInReset == [][QuietStep]_vars

\* Every frame that was queued is reported, removal and resets included.  After a
\* refused submission that takes another frame, whose kick tries again.
EventuallyReported == \A i \in Slots : queued > 0 /\ tail = i ~> tail # i \/ kicks # "clean"
=============================================================================
