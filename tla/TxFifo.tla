------------------------------- MODULE TxFifo -------------------------------
(***************************************************************************)
(* What a ring of URBs promises to the frames in it: they are handed to    *)
(* the host controller in the order they joined, each of them once, and    *)
(* leave in that order, none while the host controller has it.  While some *)
(* are with the host controller only a frame that is over may leave.       *)
(***************************************************************************)
EXTENDS Naturals, Sequences

CONSTANT Entries

VARIABLES
  fifo,    \* the entries in use, oldest first
  bus,     \* entries the host controller has
  over,    \* entries it is through with
  sane     \* no waiting frame was taken away behind the back of the next hand-over

vars == <<fifo, bus, over, sane>>

Init == fifo = <<>> /\ bus = {} /\ over = {} /\ sane = TRUE

FirstOf(q, n) == {q[k] : k \in 1..n}

Join == \E e \in Entries \ FirstOf(fifo, Len(fifo)) : fifo' = Append(fifo, e)

\* A frame may join, and the oldest frames that wait be handed over.
Send ==
  /\ fifo' = fifo \/ Join
  /\ \E n \in 0..Len(fifo') : bus' = FirstOf(fifo', n) \ over
  /\ bus \subseteq bus'
  /\ UNCHANGED <<over, sane>>

\* The host controller completes some of what it has.
Complete ==
  /\ \E es \in SUBSET bus : bus' = bus \ es /\ over' = over \cup es
  /\ UNCHANGED <<fifo, sane>>

\* The oldest frame goes back to mac80211.
Give ==
  /\ fifo # <<>> /\ Head(fifo) \notin bus
  /\ Head(fifo) \in over \/ bus = {}
  /\ fifo' = Tail(fifo)
  /\ over' = over \ {Head(fifo)}
  /\ Head(fifo) \in over => sane' = sane
  /\ UNCHANGED bus

\* Once a waiting frame was taken away nothing is promised before the queue is set
\* up again.
Next == IF sane THEN Send \/ Complete \/ Give ELSE sane' => Init'

Spec == Init /\ [][Next]_vars
=============================================================================
