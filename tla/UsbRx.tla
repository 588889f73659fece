------------------------------- MODULE UsbRx -------------------------------
(***************************************************************************)
(* One receive queue of usb.c: a ring of URBs given to a bulk endpoint,    *)
(* completed in the order of their submission, taken by the rx worker and  *)
(* submitted again; stop_rx and resume_rx around a reset or a suspend.     *)
(***************************************************************************)
EXTENDS Naturals, FiniteSets, SequencesExt

CONSTANTS
  NDesc,     \* MT_NUM_RX_ENTRIES
  Proto,     \* an URB may end with -EPROTO while the device is there
  NoMem,     \* refill_rx may fail with -ENOMEM
  None

ASSUME NDescAssumption == NDesc \in Nat \ {0, 1}
ASSUME FaultAssumption == {Proto, NoMem} \subseteq BOOLEAN
ASSUME NoneAssumption == None \notin Nat

VARIABLES
  head, tail, queued,   \* q->head, q->tail, q->queued
  fifo,                 \* slots whose URB the endpoint holds, oldest first
  poisoned,             \* slots whose URB is poisoned
  held,                 \* the slot the worker took, or None
  pc, on, sched,        \* rx worker: position, enabled, scheduled
  ctl,                  \* where stop_rx and resume_rx are
  gone,                 \* the device was unplugged
  skipped               \* history: an URB left the ring since it was last filled

ring == <<head, tail, queued>>
worker == <<held, pc, on, sched>>
vars == <<ring, fifo, poisoned, worker, ctl, gone, skipped>>

Slots == 0..(NDesc - 1)
Inc(i) == (i + 1) % NDesc
Nth(i) == (tail + i) % NDesc
Waiting == {Nth(i) : i \in {k \in Slots : k < queued}}
Flying == {fifo[k] : k \in DOMAIN fifo}

TypeOK ==
  /\ head \in Slots /\ tail \in Slots /\ queued \in 0..NDesc
  /\ fifo \in Seq(Slots)
  /\ poisoned \subseteq Slots /\ held \in Slots \cup {None}
  /\ pc \in {"idle", "take", "refill"}
  /\ ctl \in {"up", "park", "poison", "stopped", "failed"}
  /\ on \in BOOLEAN /\ sched \in BOOLEAN /\ gone \in BOOLEAN /\ skipped \in BOOLEAN
  /\ held # None <=> pc = "refill"

-----------------------------------------------------------------------------
(* The endpoint: complete_rx.                                              *)

\* The URB is the one expected: it is queued for the worker.
Accept(i) ==
  /\ i = head
  /\ head' = Inc(head) /\ queued' = queued + 1
  /\ sched' = TRUE

\* The WARN_ONCE: the URB is left alone, and is not submitted again.
Mismatch(i) == i # head /\ UNCHANGED <<head, queued, sched>>

\* With status 0, or with an error complete_rx only logs.
Complete ==
  /\ fifo # <<>> /\ ~gone
  /\ fifo' = Tail(fifo)
  /\ Accept(Head(fifo)) \/ Mismatch(Head(fifo))
  /\ UNCHANGED <<tail, poisoned, held, pc, on, ctl, gone, skipped>>

\* -EPROTO, or -ESHUTDOWN of a device that is gone: the handler just returns.
CompleteQuietly ==
  /\ fifo # <<>> /\ (gone \/ Proto)
  /\ fifo' = Tail(fifo)
  /\ skipped' = TRUE
  /\ UNCHANGED <<ring, poisoned, worker, ctl, gone>>

Unplug ==
  /\ ~gone /\ gone' = TRUE
  /\ UNCHANGED <<ring, fifo, poisoned, worker, ctl, skipped>>

-----------------------------------------------------------------------------
(* The rx worker: process_rx_queue.                                        *)

Start ==
  /\ pc = "idle" /\ on /\ sched
  /\ sched' = FALSE /\ pc' = "take"
  /\ UNCHANGED <<ring, fifo, poisoned, held, on, ctl, gone, skipped>>

\* get_next_rx_entry
TakeNext ==
  /\ pc = "take" /\ queued > 0
  /\ held' = tail /\ pc' = "refill"
  /\ tail' = Inc(tail) /\ queued' = queued - 1
  /\ UNCHANGED <<head, fifo, poisoned, on, sched, ctl, gone, skipped>>

TakeNone ==
  /\ pc = "take" /\ queued = 0
  /\ pc' = "idle"
  /\ UNCHANGED <<ring, fifo, poisoned, held, on, sched, ctl, gone, skipped>>

\* usb_submit_urb; the result of it is not looked at.
Submit(i) ==
  IF gone \/ i \in poisoned THEN UNCHANGED fifo ELSE fifo' = Append(fifo, i)

SubmitOneOnly ==   \* mutant: one URB for each run of the worker
  /\ pc = "refill"
  /\ Submit(held)
  /\ held' = None /\ pc' = "idle"
  /\ UNCHANGED <<ring, poisoned, on, sched, ctl, gone, skipped>>

Resubmit ==
  /\ pc = "refill"
  /\ Submit(held)
  /\ held' = None /\ pc' = "take"
  /\ UNCHANGED <<ring, poisoned, on, sched, ctl, gone, skipped>>

\* The loop is left with the URB taken and not submitted.
RefillFails ==
  /\ pc = "refill" /\ NoMem
  /\ held' = None /\ pc' = "idle"
  /\ skipped' = TRUE
  /\ UNCHANGED <<ring, fifo, poisoned, on, sched, ctl, gone>>

Worker == Start \/ TakeNext \/ TakeNone \/ Resubmit \/ RefillFails

-----------------------------------------------------------------------------
(* stop_rx and resume_rx, in turn.                                         *)

\* worker_disable: the worker starts no run any more ...  After a reset that failed
\* the next one stops the queue again.
Stop ==
  /\ ctl \in {"up", "failed"} /\ ctl' = "park"
  /\ on' = FALSE
  /\ UNCHANGED <<ring, fifo, poisoned, held, pc, sched, gone, skipped>>

ParkedEarly ==   \* mutant: does not wait for the run in progress
  /\ ctl = "park" /\ ctl' = "poison"
  /\ sched' = FALSE
  /\ UNCHANGED <<ring, fifo, poisoned, held, pc, on, gone, skipped>>

\* ... and has ended the one in progress.
Parked ==
  /\ ctl = "park" /\ pc = "idle"
  /\ sched' = FALSE /\ ctl' = "poison"
  /\ UNCHANGED <<ring, fifo, poisoned, held, pc, on, gone, skipped>>

\* usb_poison_urb: an active URB is taken back, with -ENOENT; each is a step.
Poison(i) ==
  /\ ctl = "poison" /\ i \notin poisoned
  /\ \A j \in Slots : j < i => j \in poisoned
  /\ poisoned' = poisoned \cup {i}
  /\ \/ i \notin Flying /\ UNCHANGED fifo
     \/ \E k \in DOMAIN fifo : fifo[k] = i /\ fifo' = RemoveAt(fifo, k)
  /\ UNCHANGED <<ring, worker, ctl, gone, skipped>>

Stopped ==
  /\ ctl = "poison" /\ poisoned = Slots
  /\ ctl' = "stopped"
  /\ UNCHANGED <<ring, fifo, poisoned, worker, gone, skipped>>

\* submit_rx_buffers holds the lock that complete_rx takes.
Refill ==
  /\ fifo' = [k \in 1..NDesc |-> k - 1]
  /\ head' = 0 /\ tail' = 0 /\ queued' = 0

Resume ==
  /\ ctl = "stopped" /\ ~gone
  /\ Refill
  /\ poisoned' = {} /\ skipped' = FALSE
  /\ on' = TRUE /\ sched' = TRUE
  /\ ctl' = "up"
  /\ UNCHANGED <<held, pc, gone>>

ResumeFailsEarly ==   \* mutant: leaves before the indices are reset
  /\ ctl = "stopped" /\ (gone \/ NoMem)
  /\ \E n \in 0..(NDesc - 1) :
       /\ gone => n = 0
       /\ fifo' = [k \in 1..n |-> k - 1]
  /\ poisoned' = {} /\ skipped' = TRUE
  /\ ctl' = "failed"
  /\ UNCHANGED <<ring, worker, gone>>

\* An URB is refused, the device being gone or memory short: the URBs submitted so
\* far stay with the endpoint, the worker stays parked, and the reset fails.
ResumeFails ==
  /\ ctl = "stopped" /\ (gone \/ NoMem)
  /\ \E n \in 0..(NDesc - 1) :
       /\ gone => n = 0
       /\ fifo' = [k \in 1..n |-> k - 1]
  /\ head' = 0 /\ tail' = 0 /\ queued' = 0
  /\ poisoned' = {} /\ skipped' = TRUE
  /\ ctl' = "failed"
  /\ UNCHANGED <<worker, gone>>

Control == Parked \/ (\E i \in Slots : Poison(i)) \/ Stopped \/ Resume \/ ResumeFails

\* The device is plugged in again: alloc_rx_queue for a new instance.
Probe ==
  /\ ctl \in {"stopped", "failed"} /\ gone /\ fifo = <<>>
  /\ Refill
  /\ poisoned' = {} /\ skipped' = FALSE
  /\ on' = TRUE /\ sched' = FALSE
  /\ ctl' = "up" /\ gone' = FALSE
  /\ UNCHANGED <<held, pc>>

-----------------------------------------------------------------------------
Init ==
  /\ head = 0 /\ tail = 0 /\ queued = 0
  /\ fifo = [k \in 1..NDesc |-> k - 1]
  /\ poisoned = {} /\ held = None
  /\ pc = "idle" /\ on = TRUE /\ sched = FALSE
  /\ ctl = "up" /\ gone = FALSE /\ skipped = FALSE

Next ==
  \/ Complete \/ CompleteQuietly
  \/ Worker
  \/ Stop \/ Control \/ Probe \/ Unplug

Spec == Init /\ [][Next]_vars

\* The worker is scheduled, and a reset that stopped the queue goes on.
FairSpec == Spec /\ WF_vars(Worker) /\ WF_vars(Control)

-----------------------------------------------------------------------------
\* While the queue runs and no URB was skipped the endpoint holds, in ring order, all
\* URBs but those that wait for the worker and the one it has: none is lost, and
\* the one that completes next is the one complete_rx expects.  After a stop_rx and
\* a resume_rx that holds again, whatever was skipped before.
RingOrder ==
  ctl \in {"up", "park"} /\ ~gone /\ ~skipped =>
    /\ Len(fifo) + queued + Cardinality({held} \ {None}) = NDesc
    /\ \A k \in DOMAIN fifo : fifo[k] = (head + k - 1) % NDesc
    /\ held # None => Inc(held) = tail

\* An URB has one owner: it is not submitted while it is active, nor while its
\* buffer still waits for the worker or is being passed on.  This holds whatever
\* fails; while nothing does, every URB has its owner, in ring order.
OneOwner ==
  /\ TypeOK /\ RingOrder
  /\ \A j, k \in DOMAIN fifo : j # k => fifo[j] # fifo[k]
  /\ Flying \cap (Waiting \cup {held}) = {}
  /\ held \notin Waiting

\* The ring keeps the promise of RxFifo: the worker gets the buffers in the order the
\* endpoint filled them, as long as nothing goes wrong every one comes back to the
\* endpoint, and after stop_rx no URB is active and the worker is out of the ring.
Inbox == [k \in 1..queued |-> Nth(k - 1)]
Steady == ctl \in {"up", "park"} /\ ~gone /\ ~skipped

Fifo == INSTANCE RxFifo WITH Buffers <- Slots, bus <- fifo, inbox <- Inbox, hand <- held,
                             open <- ctl # "stopped", steady <- Steady

KeepsOrder == Fifo!Spec

\* A received buffer reaches the worker and its URB the endpoint again, unless the
\* device goes away or an URB was skipped.
UrbsReturn == \A i \in Slots : i \in Waiting ~> i \in Flying \/ gone \/ skipped
=============================================================================
