------------------------------- MODULE RxFifo -------------------------------
(***************************************************************************)
(* What a receive ring promises to its worker: the buffers go round, each  *)
(* with one owner.  The endpoint fills them in order, the worker gets them *)
(* in the order they were filled and gives them back.  While the ring is   *)
(* steady none is lost; trouble ends that until the ring is filled again.  *)
(***************************************************************************)
EXTENDS SequencesExt

CONSTANTS Buffers, None

VARIABLES
  bus,      \* buffers the endpoint has, in the order it fills them
  inbox,    \* filled ones that wait for the worker, oldest first
  hand,     \* the one the worker passes on, or None
  open,     \* the ring is not stopped
  steady    \* nothing went wrong since it was filled

vars == <<bus, inbox, hand, open, steady>>

\* A batch of buffers, none of them twice.
Batch(q) ==
  /\ ToSet(q) \subseteq Buffers
  /\ \A j, k \in DOMAIN q : q[j] = q[k] => j = k

Init ==
  /\ Batch(bus) /\ ToSet(bus) = Buffers
  /\ inbox = <<>> /\ hand = None /\ open = TRUE /\ steady = TRUE

Deliver ==
  /\ bus # <<>>
  /\ bus' = Tail(bus)
  /\ inbox' = Append(inbox, Head(bus))
  /\ UNCHANGED <<hand, open, steady>>

Take ==
  /\ open /\ hand = None /\ inbox # <<>>
  /\ hand' = Head(inbox)
  /\ inbox' = Tail(inbox)
  /\ UNCHANGED <<bus, open, steady>>

PutBack ==
  /\ hand # None /\ hand' = None
  /\ \/ bus' = Append(bus, hand) /\ steady' = steady
     \/ bus' = bus /\ ~steady'
  /\ UNCHANGED <<inbox, open>>

\* A buffer comes back empty, or out of order, and stays out of the ring; or the
\* trouble is about to come.
Lose ==
  /\ ~steady'
  /\ bus' = bus \/ \E k \in DOMAIN bus : bus' = RemoveAt(bus, k)
  /\ UNCHANGED <<inbox, hand, open>>

\* Neither the endpoint nor the worker has a buffer any more.
Stop ==
  /\ open /\ bus = <<>> /\ hand = None
  /\ open' = FALSE
  /\ UNCHANGED <<bus, inbox, hand, steady>>

\* All buffers are given to the endpoint again, or some when that fails.
Fill ==
  /\ bus = <<>> /\ hand = None
  /\ Batch(bus')
  /\ steady' => ToSet(bus') = Buffers
  /\ inbox' = <<>> /\ open' = TRUE
  /\ UNCHANGED hand

Next == Deliver \/ Take \/ PutBack \/ Lose \/ Stop \/ Fill

Spec == Init /\ [][Next]_vars
=============================================================================
