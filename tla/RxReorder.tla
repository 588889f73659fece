----------------------------- MODULE RxReorder -----------------------------
(***************************************************************************)
(* The receive side of a block-ack session (agg-rx.c): the reorder buffer  *)
(* of one TID, the receive path that fills it, the delayed work that       *)
(* times frames out of it, and the start/stop calls of mac80211 that       *)
(* replace one session by another while the other two are running.         *)
(*                                                                         *)
(* Every call of standalone_mt76_rx_aggr_start allocates a new object      *)
(* (struct standalone_mt76_rx_tid); wcid->aggr[tidno] points at the        *)
(* current one.  A section under tid->lock is one step; the receive path   *)
(* reads the pointer in an earlier step than the section that uses it.     *)
(***************************************************************************)
EXTENDS Integers, Sequences, FiniteSets

CONSTANTS
  SNMod,      \* size of the sequence number space (4096 in 802.11)
  Sizes,      \* window sizes a peer may negotiate
  StartSNs,   \* starting sequence numbers of the sessions
  Tids,       \* objects that kzalloc may return, one per session
  None        \* the null pointer

ASSUME SNModAssumption == SNMod \in Nat /\ SNMod >= 4 /\ SNMod % 2 = 0
ASSUME SizesAssumption == Sizes \subseteq 2 .. SNMod \div 2
ASSUME StartAssumption == StartSNs \subseteq 0 .. SNMod - 1
ASSUME NoneAssumption == None \notin Tids /\ None \notin 0 .. SNMod - 1

VARIABLES
  tid,        \* the objects: window, buffer and flags of each session
  aggr,       \* wcid->aggr[tidno]
  work,       \* tid->reorder_work of each object
  rx,         \* the receive path: idle, or between rcu_dereference and the lock
  ctl,        \* the start/stop call in progress under dev->mutex
  out         \* sequence numbers the last step released through a window

vars == <<tid, aggr, work, rx, ctl, out>>

SN == 0 .. SNMod - 1

\* struct standalone_mt76_rx_tid.  A buffered frame is its sequence number;
\* `aged' holds the slots whose frame is past its timeout; `freed' is TRUE from
\* kfree_rcu to the end of the grace period.
TidRec == [size : Sizes, head : SN,
           buf : UNION {[0 .. s - 1 -> SN \cup {None}] : s \in Sizes},
           aged : SUBSET Nat, nframes : Nat,
           started : BOOLEAN, stopped : BOOLEAN, freed : BOOLEAN]

ASSUME NoneTidAssumption == None \notin TidRec

\* ieee80211_sn_less, _inc, _sub of linux/ieee80211.h
SnSub(a, b) == (a - b) % SNMod
SnInc(a) == (a + 1) % SNMod
SnLess(a, b) == SnSub(a, b) > SNMod \div 2

-----------------------------------------------------------------------------
(* The window of one object.                                               *)

Slots(t) == 0 .. t.size - 1
AnySlot == UNION {0 .. s - 1 : s \in Sizes}

NewTid(ssn, size) ==
  [size |-> size, head |-> ssn, buf |-> [i \in 0 .. size - 1 |-> None],
   aged |-> {}, nframes |-> 0, started |-> FALSE, stopped |-> FALSE,
   freed |-> FALSE]

Occupied(t) == {i \in Slots(t) : t.buf[i] # None}

\* The slot of the k-th sequence number counted from head.
SlotOf(t, k) == ((t.head + k) % SNMod) % t.size

\* What the first n passes of the release loop find: the passes that meet a
\* frame.  A slot met a second time has been emptied by the first.
Full(t, k) == t.buf[SlotOf(t, k)] # None /\ \A j \in 0 .. k - 1 : SlotOf(t, j) # SlotOf(t, k)

\* The frames in the slots `gone' leave the buffer.
Remove(t, gone) ==
  [t EXCEPT !.buf = [i \in Slots(t) |-> IF i \in gone THEN None ELSE t.buf[i]],
            !.aged = @ \ gone,
            !.nframes = @ - Cardinality(gone)]

Put(t, i, sn) == [t EXCEPT !.buf[i] = sn, !.nframes = @ + 1]

\* standalone_mt76_aggr_release run n times from head.
Advance(t, n) ==
  LET gone == {i \in Occupied(t) : \E k \in 0 .. n - 1 : SlotOf(t, k) = i}
  IN [Remove(t, gone) EXCEPT !.head = (@ + n) % SNMod]

\* The frames those n passes append to the list: the i-th comes from the i-th
\* pass that meets one.
Released(t, n) ==
  LET hits == {k \in 0 .. n - 1 : Full(t, k)}
      pass(i) == CHOOSE k \in hits : Cardinality({j \in hits : j < k}) = i - 1
  IN [i \in 1 .. Cardinality(hits) |-> t.buf[SlotOf(t, pass(i))]]

\* Passes of standalone_mt76_rx_aggr_release_frames up to head h.
PassesTo(t, h) == IF SnLess(t.head, h) THEN SnSub(h, t.head) ELSE 0

\* n is the number of passes of standalone_mt76_rx_aggr_release_head.
HeadRun(t, n) == (\A k \in 0 .. n - 1 : Full(t, k)) /\ ~Full(t, n)

-----------------------------------------------------------------------------
(* What a section under tid->lock leaves behind.                           *)

\* Object id becomes t and the section hands over `frames'.
Unlock(id, t, frames) ==
  /\ tid' = [tid EXCEPT ![id] = t]
  /\ out' = frames

\* The section ends with standalone_mt76_rx_aggr_release_head.
UnlockAtHead(id, t, frames) ==
  \E n \in 0 .. t.size :
    /\ HeadRun(t, n)
    /\ Unlock(id, Advance(t, n), frames \o Released(t, n))

\* ... and releases everything before h first.
UnlockFrom(id, t, h) ==
  LET n == PassesTo(t, h) IN UnlockAtHead(id, Advance(t, n), Released(t, n))

\* standalone_mt76_rx_aggr_check_release.  The loop visits the slots in the
\* order of their sequence numbers (the size divides SNMod), so the passes for
\* one aged frame after another go as far as those for the farthest one.
CheckRelease(id, t) ==
  IF t.nframes = 0
  THEN Unlock(id, t, <<>>)
  ELSE \E m \in 0 .. t.size :
         LET t1 == Advance(t, m)
             passes == {PassesTo(t1, t1.buf[i]) : i \in t1.aged} \cup {0}
         IN /\ HeadRun(t, m)
            /\ \E n \in passes :
                 /\ \A k \in passes : k <= n
                 /\ UnlockAtHead(id, Advance(t1, n), Released(t, m) \o Released(t1, n))

-----------------------------------------------------------------------------
(* The receive path (one context: the RX worker or NAPI poll).             *)

Idle == [at |-> "idle", t |-> None, sn |-> 0]

\* rcu_dereference(wcid->aggr[tidno]).  Without a session the frame passes and
\* nothing here changes.  `at' tells a frame of the aggregate ("data") from a
\* block ack request ("bar").
RxDeref(sn, at) ==
  /\ rx = Idle
  /\ aggr # None
  /\ rx' = [at |-> at, t |-> aggr, sn |-> sn]
  /\ out' = <<>>
  /\ UNCHANGED <<tid, aggr, work, ctl>>

\* "goto out": the session is over, or has not started at this frame.  The
\* frame passes outside the window.
RxPass ==
  /\ rx.at = "data"
  /\ LET t == tid[rx.t]
     IN /\ t.stopped \/ (~t.started /\ SnLess(rx.sn, t.head))
        /\ Unlock(rx.t, t, <<>>)
  /\ UNCHANGED work

\* The frame is behind the window: freed.
RxDropLate ==
  /\ rx.at = "data"
  /\ LET t == tid[rx.t]
     IN /\ ~t.stopped /\ t.started /\ SnLess(rx.sn, t.head)
        /\ Unlock(rx.t, t, <<>>)
  /\ UNCHANGED work

RxInOrder ==
  /\ rx.at = "data"
  /\ LET t == tid[rx.t]
         t1 == [t EXCEPT !.started = TRUE, !.head = SnInc(t.head)]
     IN /\ ~t.stopped /\ rx.sn = t.head
        /\ IF t.nframes = 0
           THEN Unlock(rx.t, t1, <<rx.sn>>)
           ELSE UnlockAtHead(rx.t, t1, <<rx.sn>>)
  /\ UNCHANGED work

\* Passes that free up space for a frame beyond the window.
PassesForLate(t, sn) ==   \* mutant: the window taken one too wide
  IF SnLess(sn, t.head + t.size + 1) THEN 0
  ELSE PassesTo(t, SnInc(SnSub(sn, t.size + 1)))

PassesFor(t, sn) ==
  IF SnLess(sn, t.head + t.size) THEN 0 ELSE PassesTo(t, SnInc(SnSub(sn, t.size)))

\* queue_delayed_work: pending work stays as it is, work being cancelled refuses.
QueueIdle(w) == IF w.cancel \/ w.run # "idle" THEN w ELSE [w EXCEPT !.armed = TRUE] \* mutant
Queue(w) == IF w.cancel THEN w ELSE [w EXCEPT !.armed = TRUE]

RxStoreOver ==   \* mutant: the slot is not looked at before it is filled
  /\ rx.at = "data"
  /\ LET t == tid[rx.t]
         n == PassesFor(t, rx.sn)
         t1 == [Advance(t, n) EXCEPT !.started = TRUE]
     IN /\ ~t.stopped /\ rx.sn # t.head /\ ~SnLess(rx.sn, t.head)
        /\ UnlockAtHead(rx.t, Put(t1, rx.sn % t.size, rx.sn),
                        Released(t, n))
  /\ work' = [work EXCEPT ![rx.t] = Queue(@)]

RxStore ==
  /\ rx.at = "data"
  /\ LET t == tid[rx.t]
         n == PassesFor(t, rx.sn)
         t1 == [Advance(t, n) EXCEPT !.started = TRUE]
         idx == rx.sn % t.size
     IN /\ ~t.stopped /\ rx.sn # t.head /\ ~SnLess(rx.sn, t.head)
        /\ \/ /\ t1.buf[idx] # None
              /\ Unlock(rx.t, t1, Released(t, n))
              /\ UNCHANGED work
           \/ /\ t1.buf[idx] = None
              /\ UnlockAtHead(rx.t, Put(t1, idx, rx.sn),
                              Released(t, n))
              /\ work' = [work EXCEPT ![rx.t] = Queue(@)]

\* standalone_mt76_rx_aggr_check_ctl
RxBar ==
  /\ rx.at = "bar"
  /\ LET t == tid[rx.t]
     IN IF t.stopped THEN Unlock(rx.t, t, <<>>) ELSE UnlockFrom(rx.t, t, rx.sn)
  /\ UNCHANGED work

RxLocked ==
  /\ RxPass \/ RxDropLate \/ RxInOrder \/ RxStore \/ RxBar
  /\ rx' = Idle
  /\ UNCHANGED <<aggr, ctl>>

-----------------------------------------------------------------------------
(* The delayed work of a session.                                          *)

\* The timeout of the frame in slot i elapses.
Age(t, i) ==
  /\ tid[t] # None
  /\ i \in Occupied(tid[t]) \ tid[t].aged
  /\ tid' = [tid EXCEPT ![t].aged = @ \cup {i}]
  /\ out' = <<>>
  /\ UNCHANGED <<aggr, work, rx, ctl>>

\* reorder_work up to spin_unlock; the count it read decides about the requeue.
WorkFire(t) ==
  /\ work[t].armed /\ work[t].run = "idle"
  /\ CheckRelease(t, tid[t])
  /\ work' = [work EXCEPT ![t].armed = FALSE,
                ![t].run = IF tid'[t].nframes # 0 THEN "requeue" ELSE "deliver"]
  /\ UNCHANGED <<aggr, rx, ctl>>

WorkForgets(t) ==   \* mutant: frames that are not old enough get no second look
  /\ work[t].run = "requeue"
  /\ work' = [work EXCEPT ![t].run = "deliver"]
  /\ out' = <<>>
  /\ UNCHANGED <<tid, aggr, rx, ctl>>

WorkRequeue(t) ==
  /\ work[t].run = "requeue"
  /\ work' = [work EXCEPT ![t] = [Queue(@) EXCEPT !.run = "deliver"]]
  /\ out' = <<>>
  /\ UNCHANGED <<tid, aggr, rx, ctl>>

\* standalone_mt76_rx_complete, outside the lock, and the end of the work.
WorkDone(t) ==
  /\ work[t].run = "deliver"
  /\ work' = [work EXCEPT ![t].run = "idle"]
  /\ out' = <<>>
  /\ UNCHANGED <<tid, aggr, rx, ctl>>

-----------------------------------------------------------------------------
(* standalone_mt76_rx_aggr_start and _stop, under dev->mutex.              *)

NoCall == [at |-> "idle", t |-> None, ssn |-> 0, size |-> 0]

\* Either call begins by replacing the pointer by NULL; size 0 is a stop.
Call(ssn, size) ==
  /\ ctl.at = "idle"
  /\ aggr' = None
  /\ ctl' = [at |-> IF aggr # None THEN "shutdown"
                    ELSE IF size = 0 THEN "idle" ELSE "alloc",
             t |-> aggr, ssn |-> ssn, size |-> size]
  /\ out' = <<>>
  /\ UNCHANGED <<tid, work, rx>>

\* The locked part of standalone_mt76_rx_aggr_shutdown: the loop runs while
\* nframes says there are frames left.
Shutdown ==
  /\ ctl.at = "shutdown"
  /\ LET t == tid[ctl.t]
         gone == IF t.nframes = 0 THEN {} ELSE Occupied(t)
     IN Unlock(ctl.t, [Remove(t, gone) EXCEPT !.stopped = TRUE], <<>>)
  /\ ctl' = [ctl EXCEPT !.at = "cancel"]
  /\ UNCHANGED <<aggr, work, rx>>

\* cancel_delayed_work_sync takes the pending work and keeps it from being
\* queued until a running instance has returned.
CancelBegin ==
  /\ ctl.at = "cancel"
  /\ work' = [work EXCEPT ![ctl.t].armed = FALSE, ![ctl.t].cancel = TRUE]
  /\ ctl' = [ctl EXCEPT !.at = "sync"]
  /\ out' = <<>>
  /\ UNCHANGED <<tid, aggr, rx>>

\* ... then kfree_rcu.
CancelEndAsync ==   \* mutant: cancel_delayed_work without _sync
  /\ ctl.at = "sync"
  /\ work' = [work EXCEPT ![ctl.t].cancel = FALSE]
  /\ tid' = [tid EXCEPT ![ctl.t].freed = TRUE]
  /\ ctl' = IF ctl.size = 0 THEN NoCall ELSE [ctl EXCEPT !.at = "alloc", !.t = None]
  /\ out' = <<>>
  /\ UNCHANGED <<aggr, rx>>

CancelEnd ==
  /\ ctl.at = "sync"
  /\ work[ctl.t].run = "idle"
  /\ work' = [work EXCEPT ![ctl.t].cancel = FALSE]
  /\ tid' = [tid EXCEPT ![ctl.t].freed = TRUE]
  /\ ctl' = IF ctl.size = 0 THEN NoCall ELSE [ctl EXCEPT !.at = "alloc", !.t = None]
  /\ out' = <<>>
  /\ UNCHANGED <<aggr, rx>>

\* The grace period of a freed object ends: no reader that found it is left.
Reclaim(t) ==
  /\ tid[t] # None /\ tid[t].freed
  /\ rx.t # t
  /\ tid' = [tid EXCEPT ![t] = None]
  /\ out' = <<>>
  /\ UNCHANGED <<aggr, work, rx, ctl>>

Alloc(t) ==
  /\ ctl.at = "alloc"
  /\ tid[t] = None
  /\ tid' = [tid EXCEPT ![t] = NewTid(ctl.ssn, ctl.size)]
  /\ aggr' = t
  /\ ctl' = NoCall
  /\ out' = <<>>
  /\ UNCHANGED <<work, rx>>

\* kzalloc returns NULL: -ENOMEM, and the TID is left without a session.
AllocFail ==
  /\ ctl.at = "alloc"
  /\ ctl' = NoCall
  /\ out' = <<>>
  /\ UNCHANGED <<tid, aggr, work, rx>>

-----------------------------------------------------------------------------
Init ==
  /\ tid = [t \in Tids |-> None]
  /\ aggr = None
  /\ work = [t \in Tids |-> [armed |-> FALSE, run |-> "idle", cancel |-> FALSE]]
  /\ rx = Idle
  /\ ctl = NoCall
  /\ out = <<>>

RxNext == (\E sn \in SN, at \in {"data", "bar"} : RxDeref(sn, at)) \/ RxLocked

WorkNext(t) == WorkFire(t) \/ WorkRequeue(t) \/ WorkDone(t)

CtlNext == Shutdown \/ CancelBegin \/ CancelEnd \/ (\E t \in Tids : Alloc(t)) \/ AllocFail

Next ==
  \/ RxNext
  \/ \E t \in Tids : WorkNext(t) \/ Reclaim(t)
  \/ \E t \in Tids : \E i \in AnySlot : Age(t, i)
  \/ CtlNext
  \/ Call(0, 0)
  \/ \E ssn \in StartSNs, size \in Sizes : Call(ssn, size)

Spec == Init /\ [][Next]_vars

\* A section under a spinlock ends, time passes, the workqueue runs a work whose
\* timer elapsed, and a call under the mutex goes on.  Frames and calls of
\* mac80211 need not come.
Fairness ==
  /\ WF_vars(RxLocked)
  /\ \A t \in Tids : /\ WF_vars(WorkNext(t))
                     /\ \A i \in AnySlot : WF_vars(Age(t, i))
  /\ WF_vars(CtlNext)

FairSpec == Spec /\ Fairness

-----------------------------------------------------------------------------
Live == {t \in Tids : tid[t] # None}

TidType(t) ==
  /\ t \in TidRec
  /\ t.buf \in [Slots(t) -> SN \cup {None}]
  /\ t.aged \subseteq Occupied(t)
  /\ t.nframes <= t.size

TypeOK ==
  /\ DOMAIN tid = Tids
  /\ \A t \in Live : TidType(tid[t])
  /\ aggr \in Live \cup {None}
  /\ work \in [Tids -> [armed : BOOLEAN, run : {"idle", "requeue", "deliver"},
                        cancel : BOOLEAN]]
  /\ rx \in {Idle} \cup [at : {"data", "bar"}, t : Live, sn : SN]
  /\ ctl \in [at : {"idle", "shutdown", "cancel", "sync", "alloc"},
              t : Live \cup {None}, ssn : SN, size : Sizes \cup {0}]

\* Every buffered frame sits in the slot of its sequence number, strictly
\* inside the window, and nframes (which the shutdown loop, the timer and the
\* in-order path trust) is the number of frames in the buffer.
WindowInv ==
  \A id \in Live :
    LET t == tid[id]
    IN /\ \A i \in Occupied(t) : /\ i = t.buf[i] % t.size
                                 /\ SnSub(t.buf[i], t.head) \in 1 .. t.size - 1
       /\ t.nframes = Cardinality(Occupied(t))

\* A frame that waits in the buffer of a session is never left without the
\* delayed work that times it out: armed, or running and about to requeue.
TimerInv ==
  \A t \in Live : tid[t].nframes > 0 /\ ~tid[t].stopped =>
                    work[t].armed \/ work[t].run = "requeue"

\* Once kfree_rcu has the object, its delayed work is neither pending nor
\* running and never will be again, its buffer holds no frame, and no new
\* reader can find it.
FreedIsQuiet ==
  \A t \in Tids : tid[t] = None \/ tid[t].freed =>
    /\ ~work[t].armed /\ work[t].run = "idle"
    /\ aggr # t
    /\ tid[t] # None => Occupied(tid[t]) = {}

\* Within a session frames leave in the order of their sequence numbers, each
\* at most once: a step that moves the head from h to h' releases frames of
\* [h, h') only, in increasing order, and nothing leaves without moving it.
InOrderStep ==
  \A id \in Live :
    LET h == tid[id].head
        dist(s) == SnSub(s, h)
    IN tid'[id] # None /\ tid'[id] # tid[id] /\ out' # <<>> =>
         /\ \A i, j \in DOMAIN out' : i < j => dist(out'[i]) < dist(out'[j])
         /\ \A i \in DOMAIN out' : dist(out'[i]) < dist(tid'[id].head)

\* A frame leaves the buffer only by being handed over, or by the shutdown of
\* its session.
KeptStep ==
  \A id \in Live : tid'[id] # None /\ ~tid'[id].stopped =>
    \A i \in Occupied(tid[id]) : \/ tid'[id].buf[i] = tid[id].buf[i]
                                 \/ \E k \in DOMAIN out' : out'[k] = tid[id].buf[i]

\* No interleaving of receive path, work and stop loses, doubles or swaps frames.
InOrderRelease == [][InOrderStep /\ KeptStep]_vars

\* No frame stays in the buffer for ever: a missing predecessor delays it until
\* its timeout, whatever the peer sends and however calls interleave.
Buffered(t, sn) == tid[t] # None /\ \E i \in Occupied(tid[t]) : tid[t].buf[i] = sn
EventuallyReleased == \A t \in Tids : \A sn \in SN : Buffered(t, sn) ~> ~Buffered(t, sn)
=============================================================================
