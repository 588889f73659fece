---------------------------- MODULE UsbTxProofs ----------------------------
(***************************************************************************)
(* Theorems about UsbTx for rings of every length: the ring is a run of    *)
(* submitted slots followed by a run of waiting ones, whatever the tx      *)
(* worker, the host controller, the status worker and stop_tx do.          *)
(***************************************************************************)
EXTENDS UsbTx, FiniteSetTheorems, TLAPS

\* The slot k after t, and how far the slot i is behind t.
At(t, k) == (t + k) % NDesc
Off(t, i) == (i + NDesc - t) % NDesc

\* The reserve has room for a frame of each sender.
LEMMA SizeFacts == NDesc \in Nat /\ FreeThr \in Nat /\ FreeThr >= 2 /\ NDesc > FreeThr
<1>1. IsFiniteSet({"worker"}) /\ Cardinality({"worker"}) = 1
  BY FS_Singleton
<1>2. Cardinality({"worker"} \cup {"reset"}) = 2
  BY <1>1, FS_AddElement
<1>3. Senders = {"worker"} \cup {"reset"}
  BY DEF Senders
<1> QED BY <1>2, <1>3, NDescAssumption, FreeThrAssumption

\* The only quotients of indices that occur are 0 and 1.
LEMMA Wrap == \A x \in 0 .. 2 * NDesc - 1 : x % NDesc = IF x < NDesc THEN x ELSE x - NDesc
  BY SizeFacts

LEMMA AtValue ==
  \A t, k \in Slots : At(t, k) = (IF t + k < NDesc THEN t + k ELSE t + k - NDesc) /\ At(t, k) \in Slots
<1> SUFFICES ASSUME NEW t \in Slots, NEW k \in Slots
             PROVE At(t, k) = (IF t + k < NDesc THEN t + k ELSE t + k - NDesc) /\ At(t, k) \in Slots
  OBVIOUS
<1>1. PICK y \in 0 .. 2 * NDesc - 1 : y = t + k
  BY SizeFacts DEF Slots
<1>2. At(t, k) = IF y < NDesc THEN y ELSE y - NDesc
  BY <1>1, Wrap DEF At
<1> QED BY <1>1, <1>2, SizeFacts DEF Slots

LEMMA OffValue ==
  \A t, i \in Slots : Off(t, i) = (IF i >= t THEN i - t ELSE i + NDesc - t) /\ Off(t, i) \in Slots
<1> SUFFICES ASSUME NEW t \in Slots, NEW i \in Slots
             PROVE Off(t, i) = (IF i >= t THEN i - t ELSE i + NDesc - t) /\ Off(t, i) \in Slots
  OBVIOUS
<1>1. PICK y \in 0 .. 2 * NDesc - 1 : y = i + NDesc - t
  BY SizeFacts DEF Slots
<1>2. Off(t, i) = IF y < NDesc THEN y ELSE y - NDesc
  BY <1>1, Wrap DEF Off
<1> QED BY <1>1, <1>2, SizeFacts DEF Slots

\* Off inverts At.
LEMMA OffOfAt ==
  \A t \in Slots : /\ At(t, 0) = t
                   /\ Off(t, t) = 0
                   /\ \A k \in Slots : Off(t, At(t, k)) = k
                   /\ \A i \in Slots : At(t, Off(t, i)) = i
                   /\ \A i \in Slots : Off(t, i) = 0 => i = t
<1> SUFFICES ASSUME NEW t \in Slots
             PROVE /\ At(t, 0) = t
                   /\ Off(t, t) = 0
                   /\ \A k \in Slots : Off(t, At(t, k)) = k
                   /\ \A i \in Slots : At(t, Off(t, i)) = i
                   /\ \A i \in Slots : Off(t, i) = 0 => i = t
  OBVIOUS
<1>1. At(t, 0) = t /\ Off(t, t) = 0
  BY AtValue, OffValue, SizeFacts DEF Slots
<1>2. ASSUME NEW k \in Slots PROVE Off(t, At(t, k)) = k
  <2>1. Off(t, At(t, k)) = IF At(t, k) >= t THEN At(t, k) - t ELSE At(t, k) + NDesc - t
    BY AtValue, OffValue
  <2>2. At(t, k) = IF t + k < NDesc THEN t + k ELSE t + k - NDesc
    BY AtValue
  <2> QED BY <2>1, <2>2, SizeFacts DEF Slots
<1>3. ASSUME NEW i \in Slots PROVE At(t, Off(t, i)) = i
  <2>1. At(t, Off(t, i)) = IF t + Off(t, i) < NDesc THEN t + Off(t, i) ELSE t + Off(t, i) - NDesc
    BY AtValue, OffValue
  <2>2. Off(t, i) = IF i >= t THEN i - t ELSE i + NDesc - t
    BY OffValue
  <2> QED BY <2>1, <2>2, SizeFacts DEF Slots
<1>4. ASSUME NEW i \in Slots, Off(t, i) = 0 PROVE i = t
  <2>1. Off(t, i) = IF i >= t THEN i - t ELSE i + NDesc - t
    BY OffValue
  <2> QED BY <1>4, <2>1, SizeFacts DEF Slots
<1> QED BY <1>1, <1>2, <1>3, <1>4

\* One slot is queued at the head, or freed at the tail.
LEMMA IncMoves ==
  \A t \in Slots : /\ Inc(t) \in Slots
                   /\ \A q \in Slots : q + 1 < NDesc => Inc(At(t, q)) = At(t, q + 1)
                   /\ \A q \in Slots : q > 0 => At(t, q) = At(Inc(t), q - 1)
                   /\ \A i \in Slots : Off(Inc(t), i) = IF i = t THEN NDesc - 1 ELSE Off(t, i) - 1
<1>1. \A i \in Slots : Inc(i) = (IF i + 1 < NDesc THEN i + 1 ELSE 0) /\ Inc(i) \in Slots
  BY Wrap, SizeFacts DEF Inc, Slots
<1> SUFFICES ASSUME NEW t \in Slots
             PROVE /\ \A q \in Slots : q + 1 < NDesc => Inc(At(t, q)) = At(t, q + 1)
                   /\ \A q \in Slots : q > 0 => At(t, q) = At(Inc(t), q - 1)
                   /\ \A i \in Slots : Off(Inc(t), i) = IF i = t THEN NDesc - 1 ELSE Off(t, i) - 1
  BY <1>1
<1>2. ASSUME NEW q \in Slots, q + 1 < NDesc PROVE Inc(At(t, q)) = At(t, q + 1)
  <2>1. q + 1 \in Slots /\ At(t, q) \in Slots
    BY <1>2, AtValue, SizeFacts DEF Slots
  <2>2. At(t, q + 1) = IF t + (q + 1) < NDesc THEN t + (q + 1) ELSE t + (q + 1) - NDesc
    BY <2>1, AtValue
  <2>3. Inc(At(t, q)) = IF At(t, q) + 1 < NDesc THEN At(t, q) + 1 ELSE 0
    BY <2>1, <1>1
  <2>4. At(t, q) = IF t + q < NDesc THEN t + q ELSE t + q - NDesc
    BY AtValue
  <2> QED BY <2>2, <2>3, <2>4, <1>2, SizeFacts DEF Slots
<1>3. ASSUME NEW q \in Slots, q > 0 PROVE At(t, q) = At(Inc(t), q - 1)
  <2>1. q - 1 \in Slots /\ Inc(t) \in Slots
    BY <1>1, <1>3, SizeFacts DEF Slots
  <2>2. At(Inc(t), q - 1) = IF Inc(t) + (q - 1) < NDesc THEN Inc(t) + (q - 1) ELSE Inc(t) + (q - 1) - NDesc
    BY <2>1, AtValue
  <2>3. At(t, q) = IF t + q < NDesc THEN t + q ELSE t + q - NDesc
    BY AtValue
  <2> QED BY <1>1, <2>1, <2>2, <2>3, <1>3, SizeFacts DEF Slots
<1>4. ASSUME NEW i \in Slots PROVE Off(Inc(t), i) = IF i = t THEN NDesc - 1 ELSE Off(t, i) - 1
  <2>1. Off(Inc(t), i) = IF i >= Inc(t) THEN i - Inc(t) ELSE i + NDesc - Inc(t)
    BY <1>1, OffValue
  <2>2. Off(t, i) = IF i >= t THEN i - t ELSE i + NDesc - t
    BY OffValue
  <2> QED BY <1>1, <2>1, <2>2, SizeFacts DEF Slots
<1> QED BY <1>2, <1>3, <1>4

\* The first n of the slots from At(t, s) up to At(t, q), as tx_kick walks them.
LEMMA KickMoves ==
  ASSUME NEW t \in Slots, NEW q \in Slots, NEW s \in 0 .. q
  PROVE /\ Off(At(t, s), At(t, q)) = q - s
        /\ \A n \in 0 .. q - s : /\ At(At(t, s), n) = At(t, s + n)
                                 /\ \A i \in Slots : Off(At(t, s), i) < n <=> s <= Off(t, i) /\ Off(t, i) < s + n
<1>1. s \in Slots /\ At(t, s) \in Slots /\ At(t, q) \in Slots
  <2>1. s \in Slots
    BY SizeFacts DEF Slots
  <2> QED BY <2>1, AtValue
<1>2. /\ At(t, s) = IF t + s < NDesc THEN t + s ELSE t + s - NDesc
      /\ At(t, q) = IF t + q < NDesc THEN t + q ELSE t + q - NDesc
  BY <1>1, AtValue
<1>3. Off(At(t, s), At(t, q)) = q - s
  <2>1. Off(At(t, s), At(t, q))
          = IF At(t, q) >= At(t, s) THEN At(t, q) - At(t, s) ELSE At(t, q) + NDesc - At(t, s)
    BY <1>1, OffValue
  <2> QED BY <1>1, <1>2, <2>1, SizeFacts DEF Slots
<1>4. ASSUME NEW n \in 0 .. q - s
      PROVE At(At(t, s), n) = At(t, s + n)
  <2>1. n \in Slots /\ s + n \in Slots
    BY SizeFacts DEF Slots
  <2>2. At(At(t, s), n) = IF At(t, s) + n < NDesc THEN At(t, s) + n ELSE At(t, s) + n - NDesc
    BY <1>1, <2>1, AtValue
  <2>3. At(t, s + n) = IF t + (s + n) < NDesc THEN t + (s + n) ELSE t + (s + n) - NDesc
    BY <2>1, AtValue
  <2> QED BY <1>1, <1>2, <2>1, <2>2, <2>3, SizeFacts DEF Slots
<1>5. ASSUME NEW n \in 0 .. q - s, NEW i \in Slots
      PROVE Off(At(t, s), i) < n <=> s <= Off(t, i) /\ Off(t, i) < s + n
  <2>1. Off(At(t, s), i) = IF i >= At(t, s) THEN i - At(t, s) ELSE i + NDesc - At(t, s)
    BY <1>1, OffValue
  <2>2. Off(t, i) = IF i >= t THEN i - t ELSE i + NDesc - t
    BY OffValue
  <2> QED BY <1>1, <1>2, <2>1, <2>2, SizeFacts DEF Slots
<1> QED BY <1>3, <1>4, <1>5

-----------------------------------------------------------------------------
(* The invariant.                                                           *)

Holding == {"pend", "first", "next"}

\* A frame in a sender's hands finds a free slot.
RoomInv ==
  /\ queued < NDesc
  /\ \A p \in Senders : send[p] \in Holding => queued + 1 < NDesc
  /\ (\A p \in Senders : send[p] \in Holding) => queued + 2 < NDesc

Stopping == {"stop", "parkst", "wait", "kill", "repark", "reparked", "drain", "cancel", "resume", "freed"}

\* What stop_tx and its caller have reached at each of their steps.
CtlInv ==
  /\ send["reset"] # "off" => ctl = "burst"
  /\ ctl \in Stopping => (reset \/ ~open) /\ send["worker"] \in {"off", "start"}
  /\ ctl = "close" => ~open
  /\ reset => ctl \notin {"idle", "again", "close", "freed"}
  /\ ctl \in {"parkst", "wait", "kill", "repark", "reparked", "drain", "cancel"} => ~stOn
  /\ ctl \in {"wait", "kill", "repark", "reparked", "drain", "cancel"} => st = "idle"
  /\ ctl \in {"repark", "reparked", "drain"} => flying = {}
  /\ ctl \in {"cancel", "resume", "freed"} => queued = 0
  /\ st = "report" => queued > 0

\* The s oldest frames have their URB submitted or done, the others wait.  When stop_tx
\* drops a waiting frame, first stays behind; once the device is gone nothing is
\* submitted from there.
RingAt(s) ==
  /\ head = At(tail, queued)
  /\ first = At(tail, s) \/ (gone /\ flying = {})
  /\ st = "report" => s > 0
  /\ flying \cap done = {}
  /\ \A i \in Slots : i \in flying \cup done <=> Off(tail, i) < s /\ ~(st = "report" /\ i = tail)

RingInv == \E s \in 0 .. queued : RingAt(s)

\* Unless stop_tx freed a refused frame without taking first along.
OrderInv == kicks # "stale" => RingInv

IInv == TypeOK /\ RoomInv /\ CtlInv /\ OrderInv

LEMMA QueuedIsSlot == ASSUME TypeOK, RoomInv PROVE queued \in Slots /\ queued \in Nat
  BY SizeFacts DEF TypeOK, RoomInv, Slots

LEMMA InitIInv == Init => IInv
<1> SUFFICES ASSUME Init PROVE IInv
  OBVIOUS
<1>1. 0 \in Slots
  BY SizeFacts DEF Slots
<1>2. TypeOK
  <2>1. 0 \in 0 .. NDesc
    BY SizeFacts
  <2> QED BY <1>1, <2>1 DEF Init, TypeOK, Senders
<1>3. RoomInv /\ CtlInv
  BY SizeFacts DEF Init, RoomInv, CtlInv, Senders, Holding, Stopping
<1>4. RingAt(0)
  <2>1. At(0, 0) = 0
    BY <1>1, OffOfAt
  <2>2. \A i \in Slots : ~(Off(0, i) < 0)
    BY <1>1, OffValue, SizeFacts DEF Slots
  <2> QED BY <2>1, <2>2 DEF Init, RingAt
<1> QED BY <1>2, <1>3, <1>4 DEF Init, IInv, OrderInv, RingInv

\* Steps that leave the ring alone.
LEMMA OrderKept ==
  ASSUME OrderInv, UNCHANGED ring, st' = "report" <=> st = "report", gone => gone'
  PROVE OrderInv'
<1> SUFFICES ASSUME kicks # "stale" PROVE RingInv'
  BY DEF OrderInv, ring
<1>1. PICK s \in 0 .. queued : RingAt(s)
  BY DEF OrderInv, RingInv
<1>2. s \in 0 .. queued' /\ RingAt(s)'
  BY <1>1 DEF RingAt, ring
<1> QED BY <1>2 DEF RingInv

\* One more frame at the head.
LEMMA QueueKeepsRing ==
  ASSUME TypeOK, RoomInv, NEW s \in 0 .. queued, RingAt(s),
         (QueueOk /\ queued + 1 < NDesc) \/ QueueFails
  PROVE /\ queued' \in Slots /\ queued' \in Nat /\ queued <= queued'
        /\ head' = At(tail, queued') /\ head' \in Slots
<1>1. queued \in Slots /\ queued \in Nat /\ tail \in Slots /\ head \in Slots
  BY QueuedIsSlot DEF TypeOK
<1>2. CASE QueueFails
  BY <1>1, <1>2 DEF QueueFails, RingAt
<1>3. CASE QueueOk /\ queued + 1 < NDesc
  <2>1. queued' = queued + 1 /\ head' = Inc(head)
    BY <1>3 DEF QueueOk
  <2>2. queued' \in Slots /\ queued' \in Nat /\ queued <= queued'
    BY <1>1, <1>3, <2>1, SizeFacts DEF Slots
  <2>3. head' = At(tail, queued') /\ head' \in Slots
    BY <1>1, <1>3, <2>1, IncMoves DEF RingAt
  <2> QED BY <2>2, <2>3
<1> QED BY <1>2, <1>3

\* What a kick does whatever the ring looks like.
LEMMA KickFacts ==
  ASSUME TypeOK, NEW f \in Slots, NEW h \in Slots, Kick(f, h)
  PROVE /\ first' \in Slots /\ flying' \subseteq Slots
        /\ kicks' \in {"clean", "refused", "stale"}
        /\ kicks' # "stale" => kicks # "stale"
        /\ gone => flying' = flying
<1>1. PICK n \in 0 .. Off(f, h) :
        /\ gone => n = 0
        /\ flying' = flying \cup {i \in Slots : Off(f, i) < n}
        /\ first' = At(f, n)
        /\ kicks' \in {"clean", "refused", "stale"}
        /\ kicks' # "stale" => kicks # "stale"
  BY DEF Kick, Off, At
<1>2. Off(f, h) \in Slots /\ n \in Slots
  <2>1. Off(f, h) \in Slots
    BY OffValue
  <2> QED BY <2>1, SizeFacts DEF Slots
<1>3. first' \in Slots
  BY <1>1, <1>2, AtValue
<1>4. ASSUME gone PROVE flying' = flying
  <2>1. \A i \in Slots : ~(Off(f, i) < n)
    BY <1>1, <1>4, OffValue, SizeFacts DEF Slots
  <2> QED BY <1>1, <2>1
<1> QED BY <1>1, <1>3, <1>4 DEF TypeOK

\* A kick up to the head makes waiting slots submitted ones, from the oldest on.
LEMMA KickKeepsRing ==
  ASSUME TypeOK, RoomInv, NEW s \in 0 .. queued, RingAt(s), Kick(first, head'),
         queued' \in Slots, queued' \in Nat, queued <= queued', head' = At(tail, queued'),
         UNCHANGED <<tail, done, st, gone>>
  PROVE RingInv'
<1>1. tail \in Slots /\ s \in 0 .. queued' /\ s \in Nat /\ queued \in Nat
  BY QueuedIsSlot DEF TypeOK
<1>a. CASE gone /\ flying = {}
  <2>1. first \in Slots /\ head' \in Slots
    BY <1>1, AtValue DEF TypeOK
  <2>2. flying' = {} /\ gone'
    BY <1>a, <2>1, KickFacts
  <2>3. RingAt(s)'
    BY <1>a, <2>2 DEF RingAt
  <2> QED BY <1>1, <2>3 DEF RingInv
<1> SUFFICES ASSUME first = At(tail, s) PROVE RingInv'
  BY <1>a DEF RingAt
<1>2. Off(first, head') = queued' - s
  BY <1>1, KickMoves
<1>3. PICK n \in 0 .. Off(first, head') :
        /\ flying' = flying \cup {i \in Slots : Off(first, i) < n}
        /\ first' = At(first, n)
  BY DEF Kick, Off, At
<1>4. n \in 0 .. queued' - s
  BY <1>2, <1>3
<1>5. first' = At(tail, s + n)
  BY <1>1, <1>3, <1>4, KickMoves
<1>6. \A i \in Slots : Off(first, i) < n <=> s <= Off(tail, i) /\ Off(tail, i) < s + n
  BY <1>1, <1>4, KickMoves
<1>7. s + n \in 0 .. queued' /\ s + n \in Nat /\ s <= s + n /\ n \in Nat
  <2>1. PICK q \in Nat : q = queued'
    OBVIOUS
  <2>2. s \in 0 .. q /\ n \in 0 .. q - s
    BY <1>1, <1>4, <2>1
  <2>3. s + n \in 0 .. q /\ s + n \in Nat /\ s <= s + n /\ n \in Nat
    BY <2>2
  <2> QED BY <2>1, <2>3
<1>8. ASSUME NEW i \in Slots PROVE Off(tail, i) \in Nat
  <2>1. Off(tail, i) \in Slots
    BY <1>1, OffValue
  <2> QED BY <2>1, SizeFacts DEF Slots
<1>9. flying' \cap done' = {}
  <2> SUFFICES ASSUME NEW i \in flying', i \in done PROVE FALSE
    OBVIOUS
  <2>1. i \in Slots
    BY DEF TypeOK
  <2>2. Off(tail, i) < s /\ i \notin flying
    BY <2>1 DEF RingAt
  <2> QED BY <1>1, <1>3, <1>6, <1>8, <2>1, <2>2
<1>10. ASSUME NEW i \in Slots
       PROVE i \in flying' \cup done' <=> Off(tail', i) < s + n /\ ~(st' = "report" /\ i = tail')
  <2>1. i \in flying' \cup done' <=> i \in flying \cup done \/ (s <= Off(tail, i) /\ Off(tail, i) < s + n)
    BY <1>3, <1>6
  <2>2. i \in flying \cup done <=> Off(tail, i) < s /\ ~(st = "report" /\ i = tail)
    BY DEF RingAt
  <2>3. st = "report" /\ i = tail => Off(tail, i) < s
    BY <1>1, OffOfAt DEF RingAt
  <2> QED BY <1>1, <1>7, <1>8, <2>1, <2>2, <2>3
<1>11. RingAt(s + n)'
  BY <1>1, <1>5, <1>7, <1>9, <1>10 DEF RingAt
<1> QED BY <1>7, <1>11 DEF RingInv

-----------------------------------------------------------------------------
(* The senders.                                                             *)

\* The invariant when no frame is moved and no sender gets one.
LEMMA TypeKept ==
  ASSUME TypeOK, UNCHANGED ring,
         send' \in [Senders -> {"off", "start", "pend", "first", "more", "next", "kick"}],
         txOn' \in BOOLEAN /\ txSched' \in BOOLEAN /\ stOn' \in BOOLEAN /\ stSched' \in BOOLEAN,
         reset' \in BOOLEAN /\ up' \in BOOLEAN /\ gone' \in BOOLEAN /\ open' \in BOOLEAN,
         st' \in {"idle", "reap", "report"},
         ctl' \in {"idle", "begin", "again", "burst", "park", "stop", "parkst", "wait", "kill", "repark",
                   "reparked", "drain", "cancel", "resume", "close", "freed"}
  PROVE TypeOK'
  BY DEF TypeOK, ring

LEMMA TakeIInv == ASSUME IInv, NEW p \in Senders, Take(p) PROVE IInv'
<1>1. /\ UNCHANGED <<ring, txOn, txSched, st, stOn, stSched, ctl, reset, up, gone, open>>
      /\ Ready /\ send[p] \in {"start", "more"}
      /\ \E to \in {"pend", "first", "next"} : send' = [send EXCEPT ![p] = to]
  BY DEF Take, TakePending, TakeFirst, TakeNext, Move, state
<1>2. TypeOK'
  BY <1>1, TypeKept DEF IInv, TypeOK
<1>3. RoomInv'
  <2>1. queued + 2 < NDesc /\ queued \in Nat
    BY <1>1, SizeFacts, QueuedIsSlot DEF Ready, Stopped, IInv
  <2> QED BY <1>1, <2>1, SizeFacts DEF RoomInv, ring
<1>4. CtlInv'
  BY <1>1 DEF IInv, CtlInv, TypeOK, Ready, Senders, ring
<1>5. OrderInv'
  BY <1>1, OrderKept DEF IInv
<1> QED BY <1>2, <1>3, <1>4, <1>5 DEF IInv

\* A run ends, or a burst has no more frame.
LEMMA LeaveIInv ==
  ASSUME IInv, NEW p \in Senders,
         BurstEnds(p) \/ NothingLeft(p), UNCHANGED <<txOn, txSched, st, stOn, stSched, state>>
  PROVE IInv'
<1>1. /\ UNCHANGED <<ring, txOn, txSched, st, stOn, stSched, ctl, reset, up, gone, open>>
      /\ \/ send[p] = "more" /\ send' = [send EXCEPT ![p] = "kick"]
         \/ send[p] = "start" /\ send' = [send EXCEPT ![p] = "off"]
  BY DEF BurstEnds, NothingLeft, Move, state
<1>2. TypeOK'
  BY <1>1, TypeKept DEF IInv, TypeOK
<1>3. RoomInv'
  BY <1>1 DEF IInv, RoomInv, Holding, TypeOK, Senders, ring
<1>4. CtlInv'
  BY <1>1 DEF IInv, CtlInv, TypeOK, Senders, ring
<1>5. OrderInv'
  BY <1>1, OrderKept DEF IInv
<1> QED BY <1>2, <1>3, <1>4, <1>5 DEF IInv

\* A frame in a sender's hands is queued, or refused.
LEMMA QueueRoom ==
  ASSUME IInv, NEW p \in Senders, send[p] \in Holding, QueueOk \/ QueueFails,
         NEW to \in {"start", "more", "off", "kick"}, send' = [send EXCEPT ![p] = to]
  PROVE /\ RoomInv'
        /\ (QueueOk /\ queued + 1 < NDesc) \/ QueueFails
        /\ head' \in Slots /\ queued' \in 0 .. NDesc
        /\ queued' \in Nat /\ queued <= queued'
<1>1. queued \in Nat /\ head \in Slots /\ send \in [Senders -> {"off", "start", "pend", "first", "more", "next", "kick"}]
  BY QueuedIsSlot DEF IInv, TypeOK
<1>2. send'[p] \notin Holding /\ \A r \in Senders \ {p} : send'[r] = send[r]
  BY <1>1 DEF Holding
<1>3. queued + 1 < NDesc /\ ((\A r \in Senders \ {p} : send[r] \in Holding) => queued + 2 < NDesc)
  BY DEF IInv, RoomInv
<1>4. CASE QueueOk
  <2>1. queued' = queued + 1 /\ head' = Inc(head)
    BY <1>4 DEF QueueOk
  <2>2. head' \in Slots
    BY <1>1, <2>1, IncMoves
  <2>3. \A r \in Senders : send'[r] \in Holding => queued' + 1 < NDesc
    BY <1>1, <1>2, <1>3, <2>1, SizeFacts DEF Senders
  <2>4. RoomInv'
    BY <1>1, <1>2, <1>3, <2>1, <2>3, SizeFacts DEF RoomInv
  <2> QED BY <1>1, <1>3, <1>4, <2>1, <2>2, <2>4, SizeFacts
<1>5. CASE QueueFails
  <2>1. queued' = queued /\ head' = head
    BY <1>5 DEF QueueFails
  <2>2. RoomInv'
    BY <1>1, <1>2, <1>3, <2>1, SizeFacts DEF RoomInv
  <2> QED BY <1>1, <1>3, <1>5, <2>1, <2>2, SizeFacts
<1> QED BY <1>4, <1>5

\* Frames of a burst are queued without a kick.
LEMMA QueueIInv ==
  ASSUME IInv, NEW p \in Senders, QueueFirst(p) \/ QueueNext(p),
         UNCHANGED <<txOn, txSched, st, stOn, stSched, state>>
  PROVE IInv'
<1>1. /\ send[p] \in Holding /\ send[p] \in {"first", "next"}
      /\ QueueOk \/ QueueFails
      /\ UNCHANGED <<first, tail, done, flying, kicks, txOn, txSched, st, stOn, stSched, ctl, reset, up, gone, open>>
  BY DEF QueueFirst, QueueNext, Move, Holding, state
<1>2. PICK to \in {"start", "more", "off", "kick"} : send' = [send EXCEPT ![p] = to]
  BY DEF QueueFirst, QueueNext, Move
<1>3. /\ RoomInv'
      /\ (QueueOk /\ queued + 1 < NDesc) \/ QueueFails
      /\ head' \in Slots /\ queued' \in 0 .. NDesc
      /\ queued' \in Nat /\ queued <= queued' /\ queued \in Nat
  BY <1>1, <1>2, QueueRoom, QueuedIsSlot DEF IInv
<1>4. TypeOK'
  BY <1>1, <1>2, <1>3 DEF IInv, TypeOK
<1>5. CtlInv'
  <2>1. ctl \notin Stopping
    BY <1>1 DEF IInv, CtlInv, Senders, Stopping
  <2>2. st = "report" => queued' > 0
    BY <1>3 DEF IInv, CtlInv
  <2> QED BY <1>1, <1>2, <2>1, <2>2 DEF IInv, CtlInv, TypeOK, Senders, Stopping
<1>6. OrderInv'
  <2> SUFFICES ASSUME kicks # "stale" PROVE RingInv'
    BY <1>1 DEF OrderInv
  <2>1. ASSUME NEW s \in 0 .. queued, RingAt(s) PROVE RingInv'
    <3>1. head' = At(tail, queued')
      BY <1>3, <2>1, QueueKeepsRing DEF IInv
    <3>2. RingAt(s)' /\ s \in 0 .. queued'
      BY <1>1, <1>3, <2>1, <3>1 DEF RingAt
    <3> QED BY <3>2 DEF RingInv
  <2> QED BY <1>1, <2>1 DEF IInv, OrderInv, RingInv
<1> QED BY <1>3, <1>4, <1>5, <1>6 DEF IInv

\* A kick of what is queued, after a frame of tx_pending or at the end of a burst.
LEMMA KickIInv ==
  ASSUME IInv, NEW p \in Senders, SendPending(p) \/ KickBurst(p),
         UNCHANGED <<txOn, txSched, st, stOn, stSched, state>>
  PROVE IInv'
<1>1. /\ send[p] \in {"pend", "kick"} /\ send' = [send EXCEPT ![p] = "start"]
      /\ Kick(first, head')
      /\ UNCHANGED <<tail, done, txOn, txSched, st, stOn, stSched, ctl, reset, up, gone, open>>
  BY DEF SendPending, KickBurst, Move, state
<1>2. /\ RoomInv'
      /\ (QueueOk /\ queued + 1 < NDesc) \/ QueueFails
      /\ head' \in Slots /\ queued' \in 0 .. NDesc
      /\ queued' \in Nat /\ queued <= queued' /\ queued \in Nat
  <2>1. CASE SendPending(p)
    <3>1. send[p] \in Holding /\ (QueueOk \/ QueueFails)
      BY <2>1 DEF SendPending, Move, Holding
    <3>2. "start" \in {"start", "more", "off", "kick"}
      OBVIOUS
    <3> QED BY <1>1, <3>1, <3>2, QueueRoom, QueuedIsSlot DEF IInv
  <2>2. CASE KickBurst(p)
    <3>1. UNCHANGED <<head, queued>>
      BY <2>2 DEF KickBurst
    <3>2. RoomInv'
      BY <1>1, <3>1 DEF IInv, RoomInv, TypeOK, Holding
    <3> QED BY <3>1, <3>2, QueuedIsSlot DEF IInv, TypeOK, QueueFails
  <2> QED BY <2>1, <2>2
<1>3. /\ first' \in Slots /\ flying' \subseteq Slots
      /\ kicks' \in {"clean", "refused", "stale"}
      /\ kicks' # "stale" => kicks # "stale"
      /\ gone => flying' = flying
  <2>1. first \in Slots
    BY DEF IInv, TypeOK
  <2> QED BY <1>1, <1>2, <2>1, KickFacts DEF IInv
<1>4. TypeOK'
  BY <1>1, <1>2, <1>3 DEF IInv, TypeOK
<1>5. CtlInv'
  <2>1. ctl \notin Stopping
    BY <1>1 DEF IInv, CtlInv, Senders, Stopping
  <2>2. st = "report" => queued' > 0
    BY <1>2 DEF IInv, CtlInv
  <2> QED BY <1>1, <2>1, <2>2 DEF IInv, CtlInv, TypeOK, Senders, Stopping
<1>6. OrderInv'
  <2> SUFFICES ASSUME kicks # "stale" PROVE RingInv'
    BY <1>3 DEF OrderInv
  <2>1. ASSUME NEW s \in 0 .. queued, RingAt(s) PROVE RingInv'
    <3>1. queued' \in Slots /\ head' = At(tail, queued')
      BY <1>2, <2>1, QueueKeepsRing DEF IInv
    <3> QED BY <1>1, <1>2, <2>1, <3>1, KickKeepsRing DEF IInv
  <2> QED BY <1>1, <1>3, <2>1 DEF IInv, OrderInv, RingInv
<1> QED BY <1>2, <1>4, <1>5, <1>6 DEF IInv

-----------------------------------------------------------------------------
(* Completion, report and kill.                                             *)

\* An URB completes, all of them do, or the status worker takes a finished frame: the
\* slots that are flying or done stay, but for the one that is reported.
LEMMA CompleteKeepsRing ==
  ASSUME IInv, UNCHANGED <<head, first, tail, queued, kicks, gone>>,
         flying' \subseteq flying, flying' \cap done' = {},
         \/ flying' \cup done' = flying \cup done /\ (st' = "report" <=> st = "report")
         \/ st # "report" /\ st' = "report" /\ tail \in done
              /\ flying' = flying /\ done' = done \ {tail}
  PROVE OrderInv'
<1> SUFFICES ASSUME kicks # "stale" PROVE RingInv'
  BY DEF OrderInv
<1>1. PICK s \in 0 .. queued : RingAt(s)
  BY DEF IInv, OrderInv, RingInv
<1>2. queued \in Nat /\ tail \in Slots /\ Off(tail, tail) = 0
  BY QueuedIsSlot, OffOfAt DEF IInv, TypeOK
<1>3. CASE flying' \cup done' = flying \cup done /\ (st' = "report" <=> st = "report")
  <2>1. RingAt(s)' /\ s \in 0 .. queued'
    BY <1>1, <1>3 DEF RingAt
  <2> QED BY <2>1 DEF RingInv
<1>4. CASE st # "report" /\ st' = "report" /\ tail \in done /\ flying' = flying /\ done' = done \ {tail}
  <2>1. s > 0
    BY <1>1, <1>2, <1>4 DEF RingAt
  <2>2. tail \notin flying
    BY <1>1, <1>4 DEF RingAt
  <2>3. \A i \in Slots : i \in flying' \cup done' <=> i \in flying \cup done /\ i # tail
    BY <1>4, <2>2
  <2>4. RingAt(s)' /\ s \in 0 .. queued'
    BY <1>1, <1>4, <2>1, <2>3 DEF RingAt
  <2> QED BY <2>4 DEF RingInv
<1> QED BY <1>3, <1>4

LEMMA CompleteIInv == ASSUME IInv, NEW i \in Slots, Complete(i) PROVE IInv'
<1>1. /\ UNCHANGED <<head, first, tail, queued, kicks, send, txOn, txSched, st, stOn, ctl, reset, up, gone, open>>
      /\ i \in flying /\ flying' = flying \ {i} /\ done' = done \cup {i} /\ stSched' = TRUE
  BY DEF Complete, state
<1>2. TypeOK' /\ RoomInv' /\ CtlInv'
  BY <1>1 DEF IInv, TypeOK, RoomInv, CtlInv
<1>3. CASE kicks = "stale"
  BY <1>1, <1>2, <1>3 DEF IInv, OrderInv
<1>4. CASE kicks # "stale"
  <2>1. flying \cap done = {}
    BY <1>1, <1>4 DEF IInv, OrderInv, RingInv, RingAt
  <2>2. flying' \cap done' = {} /\ flying' \cup done' = flying \cup done
    BY <1>1, <2>1
  <2> QED BY <1>1, <1>2, <2>2, CompleteKeepsRing DEF IInv
<1> QED BY <1>3, <1>4

LEMMA TakeDoneIInv == ASSUME IInv, TakeDone PROVE IInv'
<1>1. /\ UNCHANGED <<head, first, tail, queued, flying, kicks, send, txOn, txSched, stOn, stSched, ctl, reset, up, gone, open>>
      /\ st = "reap" /\ st' = "report" /\ queued > 0 /\ tail \in done /\ done' = done \ {tail}
  BY DEF TakeDone, Finished, state
<1>2. TypeOK' /\ RoomInv' /\ CtlInv'
  BY <1>1 DEF IInv, TypeOK, RoomInv, CtlInv
<1>3. CASE kicks = "stale"
  BY <1>1, <1>2, <1>3 DEF IInv, OrderInv
<1>4. CASE kicks # "stale"
  <2>1. flying' \cap done' = {}
    BY <1>1, <1>4 DEF IInv, OrderInv, RingInv, RingAt
  <2> QED BY <1>1, <1>2, <2>1, CompleteKeepsRing DEF IInv
<1> QED BY <1>3, <1>4

LEMMA KillIInv == ASSUME IInv, Kill PROVE IInv'
<1>1. /\ UNCHANGED <<head, first, tail, queued, kicks, send, txOn, txSched, st, stOn, reset, up, gone, open>>
      /\ ctl = "kill" /\ ctl' = "repark" /\ flying' = {} /\ done' = done \cup flying /\ stSched' \in BOOLEAN
  BY DEF Kill, IInv, TypeOK
<1>2. TypeOK' /\ RoomInv' /\ CtlInv'
  BY <1>1 DEF IInv, TypeOK, RoomInv, CtlInv, Stopping
<1>3. OrderInv'
  BY <1>1, CompleteKeepsRing
<1> QED BY <1>2, <1>3 DEF IInv

\* The oldest frame is freed, being reported, or by stop_tx with all URBs killed.
LEMMA DropKeepsRing ==
  ASSUME IInv, Drop, queued > 0, st' # "report", UNCHANGED <<head, first, flying, gone>>,
         (st = "report" /\ done' = done /\ kicks' = kicks)
           \/ (st # "report" /\ flying = {} /\ done' = done \ {tail}
                /\ kicks' = IF tail = first /\ first # head /\ ~gone THEN "stale" ELSE kicks)
  PROVE OrderInv'
<1> SUFFICES ASSUME kicks' # "stale" PROVE RingInv'
  BY DEF OrderInv
<1>1. /\ queued \in Slots /\ queued \in Nat /\ tail \in Slots /\ NDesc \in Nat
      /\ tail' = Inc(tail) /\ tail' \in Slots /\ queued' = queued - 1 /\ kicks # "stale"
  BY QueuedIsSlot, SizeFacts, IncMoves DEF IInv, TypeOK, Drop
<1>2. PICK s \in 0 .. queued : RingAt(s)
  BY <1>1 DEF IInv, OrderInv, RingInv
<1>3. s \in Slots /\ s \in Nat /\ s <= queued
  BY <1>1 DEF Slots
<1>4. s > 0 \/ (gone /\ st # "report")
  <2>1. CASE st = "report"
    BY <1>2, <2>1 DEF RingAt
  <2>2. CASE st # "report" /\ ~gone
    <3>1. ~(tail = first /\ first # head)
      BY <1>1, <2>2
    <3>2. head # tail
      <4>1. Off(tail, tail) = 0 /\ Off(tail, At(tail, queued)) = queued
        BY <1>1, OffOfAt
      <4> QED BY <1>1, <1>2, <4>1 DEF RingAt
    <3>3. At(tail, 0) = tail
      BY <1>1, OffOfAt
    <3> QED BY <1>3, <1>2, <2>2, <3>1, <3>2, <3>3 DEF RingAt
  <2> QED BY <2>1, <2>2
<1>5. head' = At(tail', queued')
  BY <1>1, <1>2, IncMoves DEF RingAt
<1>6. \A i \in Slots : i \in flying' \cup done' <=> i \in flying \cup done /\ i # tail
  <2>1. CASE st = "report"
    BY <1>2, <2>1 DEF RingAt
  <2>2. CASE st # "report"
    BY <2>2
  <2> QED BY <2>1, <2>2
<1>7. flying' \cap done' = {}
  BY <1>2 DEF RingAt
<1>8. CASE s > 0
  <2>1. s - 1 \in 0 .. queued' /\ (first' = At(tail', s - 1) \/ (gone /\ flying = {})')
    BY <1>1, <1>2, <1>3, <1>8, IncMoves DEF RingAt
  <2>2. ASSUME NEW i \in Slots
        PROVE i \in flying' \cup done' <=> Off(tail', i) < s - 1
    <3>1. i \in flying' \cup done' <=> Off(tail, i) < s /\ i # tail
      BY <1>2, <1>6 DEF RingAt
    <3>2. Off(tail', i) = IF i = tail THEN NDesc - 1 ELSE Off(tail, i) - 1
      BY <1>1, IncMoves
    <3>3. Off(tail, i) \in Nat
      <4>1. Off(tail, i) \in Slots
        BY <1>1, OffValue
      <4> QED BY <4>1, SizeFacts DEF Slots
    <3>4. s < NDesc
      BY <1>1, <1>3 DEF Slots
    <3> QED BY <1>1, <1>3, <1>8, <3>1, <3>2, <3>3, <3>4
  <2>3. RingAt(s - 1)'
    BY <1>5, <1>7, <2>1, <2>2 DEF RingAt
  <2> QED BY <2>1, <2>3 DEF RingInv
<1>9. CASE s = 0 /\ gone /\ st # "report"
  <2>1. \A i \in Slots : Off(tail, i) \in Nat /\ Off(tail', i) \in Nat
    <3>1. \A i \in Slots : Off(tail, i) \in Slots /\ Off(tail', i) \in Slots
      BY <1>1, OffValue
    <3> QED BY <3>1, SizeFacts DEF Slots
  <2>2. \A i \in Slots : i \notin flying' \cup done'
    BY <1>2, <1>6, <1>9, <2>1 DEF RingAt
  <2>3. RingAt(0)' /\ 0 \in 0 .. queued'
    BY <1>1, <1>5, <1>7, <1>9, <2>1, <2>2 DEF RingAt
  <2> QED BY <2>3 DEF RingInv
<1> QED BY <1>3, <1>4, <1>8, <1>9

LEMMA ReportIInv == ASSUME IInv, Report PROVE IInv'
<1>1. /\ UNCHANGED <<head, first, done, flying, kicks, send, txOn, txSched, stOn, stSched, ctl, reset, up, gone, open>>
      /\ st = "report" /\ st' = "reap" /\ Drop /\ queued > 0
  BY DEF Report, state, IInv, CtlInv
<1>2. queued' = queued - 1 /\ queued' \in 0 .. NDesc /\ queued' < queued /\ tail' \in Slots /\ queued \in Nat /\ queued' \in Nat
  BY <1>1, QueuedIsSlot, IncMoves, SizeFacts DEF Drop, IInv, TypeOK
<1>3. TypeOK'
  BY <1>1, <1>2 DEF IInv, TypeOK
<1>4. RoomInv'
  BY <1>1, <1>2, SizeFacts DEF IInv, RoomInv
<1>5. CtlInv'
  BY <1>1, <1>2 DEF IInv, CtlInv
<1>6. OrderInv'
  BY <1>1, DropKeepsRing
<1> QED BY <1>3, <1>4, <1>5, <1>6 DEF IInv

LEMMA DrainIInv == ASSUME IInv, Drain PROVE IInv'
<1>1. /\ UNCHANGED <<head, first, flying, send, txOn, txSched, st, stOn, stSched, ctl, reset, up, gone, open>>
      /\ ctl = "drain" /\ queued > 0 /\ Drop /\ done' = done \ {tail}
      /\ kicks' = IF tail = first /\ first # head /\ ~gone THEN "stale" ELSE kicks
  BY DEF Drain, workers, state
<1>2. st = "idle" /\ flying = {}
  BY <1>1 DEF IInv, CtlInv
<1>3. queued' = queued - 1 /\ queued' \in 0 .. NDesc /\ queued' < queued /\ tail' \in Slots /\ queued \in Nat /\ queued' \in Nat
  BY <1>1, QueuedIsSlot, IncMoves, SizeFacts DEF Drop, IInv, TypeOK
<1>4. TypeOK'
  BY <1>1, <1>3 DEF IInv, TypeOK
<1>5. RoomInv'
  BY <1>1, <1>3, SizeFacts DEF IInv, RoomInv
<1>6. CtlInv'
  BY <1>1, <1>2, <1>3 DEF IInv, CtlInv
<1>7. OrderInv'
  BY <1>1, <1>2, DropKeepsRing
<1> QED BY <1>4, <1>5, <1>6, <1>7 DEF IInv

-----------------------------------------------------------------------------
(* Workers, removal and stop_tx: the ring stays as it is.                   *)

\* RoomInv depends on the ring and on frames in the senders' hands.
LEMMA RoomKept ==
  ASSUME RoomInv, UNCHANGED queued, \A p \in Senders : send'[p] \in Holding => send[p] \in Holding
  PROVE RoomInv'
  BY DEF RoomInv

LEMMA WorkersIInv ==
  ASSUME IInv, WorkerStarts \/ Wake \/ Reap \/ ReapEnds
  PROVE IInv'
<1>1. /\ UNCHANGED <<ring, txOn, stOn, ctl, reset, up, gone, open>>
      /\ txSched' \in BOOLEAN /\ stSched' \in BOOLEAN
      /\ \/ send' = send
         \/ send["worker"] = "off" /\ send' = [send EXCEPT !["worker"] = "start"]
      /\ st' = st \/ (stOn /\ st = "idle" /\ st' = "reap") \/ st' = "idle"
      /\ st' = "report" <=> st = "report"
  BY DEF WorkerStarts, Wake, Reap, ReapEnds, Move, state, IInv, TypeOK
<1>2. TypeOK'
  BY <1>1, TypeKept DEF IInv, TypeOK, Senders
<1>3. RoomInv'
  <2>1. \A p \in Senders : send'[p] \in Holding => send[p] \in Holding
    BY <1>1 DEF Holding, Senders, IInv, TypeOK
  <2> QED BY <1>1, <2>1, RoomKept DEF IInv, ring
<1>4. CtlInv'
  BY <1>1 DEF IInv, CtlInv, TypeOK, Senders, ring
<1>5. OrderInv'
  BY <1>1, OrderKept DEF IInv
<1> QED BY <1>2, <1>3, <1>4, <1>5 DEF IInv

\* Steps of a reset or removal up to stop_tx.
LEMMA BeginIInv ==
  ASSUME IInv,
         \/ Unplug \/ ResetBegins \/ ResetBursts \/ ResetParks \/ ResetParked
         \/ RemovalCloses \/ RemovalStops
  PROVE IInv'
<1>1. /\ UNCHANGED <<ring, st, stOn, stSched, up>>
      /\ txOn' \in BOOLEAN /\ txSched' \in BOOLEAN
      /\ reset' \in BOOLEAN /\ gone' \in BOOLEAN /\ open' \in BOOLEAN
      /\ gone => gone'
      /\ \/ send' = send
         \/ send["reset"] = "off" /\ send' = [send EXCEPT !["reset"] = "start"]
      /\ \/ UNCHANGED <<ctl, reset, open, send>>
         \/ ctl = "idle" /\ ctl' = "begin" /\ reset' /\ UNCHANGED send
         \/ ctl \in {"begin", "again"} /\ ctl' = "burst" /\ UNCHANGED reset
         \/ ctl = "burst" /\ ctl' = "park" /\ send["reset"] = "off" /\ UNCHANGED <<send, reset>>
         \/ ctl = "park" /\ ctl' = "stop" /\ send["worker"] = "off" /\ reset' /\ UNCHANGED send
         \/ ctl = "idle" /\ ctl' = "close" /\ ~open' /\ UNCHANGED <<send, reset>>
         \/ ctl = "close" /\ ctl' = "stop" /\ send["worker"] = "off" /\ UNCHANGED <<send, open, reset>>
  BY DEF Unplug, ResetBegins, ResetBursts, ResetParks, AskTx, ResetParked, TxParked, RemovalCloses,
         RemovalStops, Move, workers, state, IInv, TypeOK
<1>2. TypeOK'
  <2>1. send' \in [Senders -> {"off", "start", "pend", "first", "more", "next", "kick"}]
    BY <1>1 DEF IInv, TypeOK
  <2>2. ctl' \in {"begin", "burst", "park", "stop", "close"} \/ ctl' = ctl
    BY <1>1
  <2>3. UNCHANGED <<ring, st, stOn, stSched, up>> /\ TypeOK
        /\ txOn' \in BOOLEAN /\ txSched' \in BOOLEAN
        /\ reset' \in BOOLEAN /\ gone' \in BOOLEAN /\ open' \in BOOLEAN
    BY <1>1 DEF IInv
  <2> QED BY <2>1, <2>2, <2>3, TypeKept DEF TypeOK
<1>3. RoomInv'
  <2>1. \A p \in Senders : send'[p] \in Holding => send[p] \in Holding
    BY <1>1 DEF Holding, Senders, IInv, TypeOK
  <2> QED BY <1>1, <2>1, RoomKept DEF IInv, ring
<1>4. CtlInv'
  <2>1. send' \in [Senders -> {"off", "start", "pend", "first", "more", "next", "kick"}]
        /\ send'["worker"] = send["worker"]
    BY <1>1 DEF IInv, TypeOK, Senders
  <2>2. send'["reset"] # "off" => ctl' = "burst"
    BY <1>1 DEF IInv, CtlInv
  <2>3. ctl' \in Stopping => (reset' \/ ~open') /\ send'["worker"] \in {"off", "start"}
    BY <1>1, <2>1 DEF IInv, CtlInv, Stopping
  <2>4. (ctl' = "close" => ~open') /\ (reset' => ctl' \notin {"idle", "again", "close", "freed"})
    BY <1>1 DEF IInv, CtlInv
  <2> QED BY <1>1, <2>2, <2>3, <2>4 DEF IInv, CtlInv, ring
<1>5. OrderInv'
  <2>1. UNCHANGED ring /\ (st' = "report" <=> st = "report") /\ (gone => gone')
    BY <1>1
  <2> QED BY <2>1, OrderKept DEF IInv
<1> QED BY <1>2, <1>3, <1>4, <1>5 DEF IInv

\* Steps of stop_tx that do not touch the ring, and the return of its caller.
LEMMA StopIInv ==
  ASSUME IInv,
         \/ StopBegins \/ StatusParked \/ WaitEnds \/ Repark \/ Reparked
         \/ Drained \/ StopEnds \/ ResetEnds
  PROVE IInv'
<1>1. /\ UNCHANGED <<ring, send, st, gone, open>>
      /\ txOn' \in BOOLEAN /\ txSched' \in BOOLEAN /\ stOn' \in BOOLEAN /\ stSched' \in BOOLEAN
      /\ reset' \in BOOLEAN /\ up' \in BOOLEAN
      /\ \/ ctl = "stop" /\ ctl' = "parkst" /\ ~stOn' /\ UNCHANGED reset
         \/ ctl = "parkst" /\ ctl' = "wait" /\ st = "idle" /\ UNCHANGED <<stOn, reset>>
         \/ ctl = "wait" /\ queued = 0 /\ ctl' = "cancel" /\ UNCHANGED <<stOn, reset>>
         \/ ctl = "wait" /\ ctl' = "kill" /\ UNCHANGED <<stOn, reset>>
         \/ ctl = "repark" /\ ctl' = "reparked" /\ UNCHANGED <<stOn, reset>>
         \/ ctl = "reparked" /\ ctl' = "drain" /\ UNCHANGED <<stOn, reset>>
         \/ ctl = "drain" /\ queued = 0 /\ ctl' = "cancel" /\ UNCHANGED <<stOn, reset>>
         \/ ctl = "cancel" /\ ctl' = (IF reset THEN "resume" ELSE "freed") /\ UNCHANGED reset
         \/ ctl = "resume" /\ ctl' \in {"idle", "again"} /\ ~reset'
  BY DEF StopBegins, StatusParked, WaitEnds, Repark, AskTx, Reparked, TxParked, Drained, StopEnds,
         ResetEnds, workers, state, IInv, TypeOK
<1>2. TypeOK'
  BY <1>1, TypeKept DEF IInv, TypeOK
<1>3. RoomInv'
  BY <1>1, RoomKept DEF IInv, ring
<1>4. CtlInv'
  BY <1>1 DEF IInv, CtlInv, Stopping, ring
<1>5. OrderInv'
  BY <1>1, OrderKept DEF IInv
<1> QED BY <1>2, <1>3, <1>4, <1>5 DEF IInv

LEMMA ProbeIInv == ASSUME IInv, Probe PROVE IInv'
<1>1. 0 \in Slots /\ 0 \in 0 .. NDesc
  BY SizeFacts DEF Slots
<1>2. send["reset"] = "off" /\ ~reset
  BY DEF Probe, IInv, CtlInv
<1>3. TypeOK'
  BY <1>1 DEF Probe, IInv, TypeOK
<1>4. RoomInv'
  <2>1. \A p \in Senders : send'[p] \notin Holding
    BY <1>2 DEF Probe, Senders, Holding
  <2>2. queued' = 0
    BY DEF Probe
  <2> QED BY <2>1, <2>2, SizeFacts DEF RoomInv, Senders
<1>5. CtlInv'
  BY <1>2 DEF Probe, CtlInv, Stopping
<1>6. RingAt(0)'
  <2>1. At(0, 0) = 0
    BY <1>1, OffOfAt
  <2>2. \A i \in Slots : ~(Off(0, i) < 0)
    BY <1>1, OffValue, SizeFacts DEF Slots
  <2> QED BY <2>1, <2>2 DEF Probe, RingAt
<1>7. OrderInv'
  <2>1. 0 \in 0 .. queued'
    BY DEF Probe
  <2> QED BY <1>6, <2>1 DEF OrderInv, RingInv
<1> QED BY <1>3, <1>4, <1>5, <1>7 DEF IInv

LEMMA NextIInv == IInv /\ [Next]_vars => IInv'
<1> SUFFICES ASSUME IInv, [Next]_vars PROVE IInv'
  OBVIOUS
<1>1. CASE UNCHANGED vars
  <2>1. UNCHANGED <<ring, send, txOn, txSched, st, stOn, stSched, ctl, reset, up, gone, open>>
    BY <1>1 DEF vars, workers, state
  <2>2. TypeOK' /\ RoomInv' /\ CtlInv'
    BY <2>1 DEF IInv, TypeOK, RoomInv, CtlInv, ring
  <2> QED BY <2>1, <2>2, OrderKept DEF IInv
<1>2. ASSUME NEW p \in Senders, Take(p) \/ Settle(p) \/ Return(p) PROVE IInv'
  BY <1>2, TakeIInv, LeaveIInv, QueueIInv, KickIInv DEF Settle, Return
<1>3. CASE WorkerStarts \/ Wake
  BY <1>3, WorkersIInv
<1>4. ASSUME NEW i \in Slots, Complete(i) PROVE IInv'
  BY <1>4, CompleteIInv
<1>5. CASE Status
  BY <1>5, WorkersIInv, TakeDoneIInv, ReportIInv DEF Status
<1>6. CASE Control
  BY <1>6, BeginIInv, StopIInv, KillIInv, DrainIInv DEF Control
<1>7. CASE Unplug \/ ResetBegins \/ Probe
  BY <1>7, BeginIInv, ProbeIInv
<1> QED BY <1>1, <1>2, <1>3, <1>4, <1>5, <1>6, <1>7 DEF Next

LEMMA Invariance == Spec => []IInv
  BY InitIInv, NextIInv, PTL DEF Spec

-----------------------------------------------------------------------------
(* The theorems.                                                           *)

\* At every moment q->head minus q->first counts the frames tx_kick has not submitted
\* yet, and exactly the older ones are with the host controller or done, for rings of
\* every length, until a device is gone or stop_tx frees a refused frame.
THEOREM RingStaysInOrder == Spec => []SubmittedInv
<1>1. IInv => SubmittedInv
  <2> SUFFICES ASSUME IInv PROVE SubmittedInv
    OBVIOUS
  <2>1. SUFFICES ASSUME ~gone, kicks # "stale"
        PROVE /\ head = Nth(queued)
              /\ Unsubmitted <= queued
              /\ flying \cap done = {}
              /\ flying \cup done
                   = {Nth(i) : i \in {k \in 0 .. (NDesc - 1) : k + Unsubmitted < queued}}
                       \ (IF st = "report" THEN {tail} ELSE {})
    BY DEF IInv, SubmittedInv
  <2>2. PICK s \in 0 .. queued : RingAt(s)
    BY <2>1 DEF IInv, OrderInv, RingInv
  <2>3. /\ queued \in Slots /\ queued \in Nat /\ tail \in Slots /\ s \in Nat /\ s <= queued
        /\ flying \cup done \subseteq Slots
    BY QueuedIsSlot DEF IInv, TypeOK
  <2>4. \A i : Nth(i) = At(tail, i)
    BY DEF Nth, At
  <2>5. Unsubmitted = queued - s
    <3>1. Unsubmitted = Off(first, head)
      BY DEF Unsubmitted, Off
    <3> QED BY <2>1, <2>2, <2>3, <3>1, KickMoves DEF RingAt
  <2>6. \A k \in Slots : k + Unsubmitted < queued <=> k < s
    BY <2>3, <2>5, SizeFacts DEF Slots
  <2>7. {k \in 0 .. (NDesc - 1) : k + Unsubmitted < queued} = {k \in Slots : k < s}
    BY <2>6 DEF Slots
  <2>8. ASSUME NEW i \in Slots
        PROVE Off(tail, i) < s <=> \E k \in {j \in Slots : j < s} : i = Nth(k)
    <3>1. Off(tail, i) \in Slots /\ At(tail, Off(tail, i)) = i
      BY <2>3, OffValue, OffOfAt
    <3>2. \A k \in Slots : Off(tail, At(tail, k)) = k
      BY <2>3, OffOfAt
    <3> QED BY <2>4, <3>1, <3>2
  <2>9. \A k \in Slots : Nth(k) \in Slots
    BY <2>3, <2>4, AtValue
  <2>10. flying \cup done = {Nth(i) : i \in {k \in Slots : k < s}} \ (IF st = "report" THEN {tail} ELSE {})
    <3>1. \A i \in Slots : i \in flying \cup done
                             <=> i \in {Nth(k) : k \in {j \in Slots : j < s}} /\ ~(st = "report" /\ i = tail)
      BY <2>2, <2>8 DEF RingAt
    <3>2. {Nth(k) : k \in {j \in Slots : j < s}} \subseteq Slots
      BY <2>9
    <3> QED BY <2>3, <3>1, <3>2
  <2>11. head = Nth(queued) /\ flying \cap done = {}
    BY <2>2, <2>4 DEF RingAt
  <2>12. Unsubmitted <= queued
    BY <2>3, <2>5
  <2> QED BY <2>7, <2>10, <2>11, <2>12
<1> QED BY <1>1, Invariance, PTL

-----------------------------------------------------------------------------
(* The ring as a queue.                                                     *)

\* The q slots from t on, in order.
Up(t, q) == [k \in 1 .. q |-> At(t, k - 1)]

LEMMA RingIsUp == InRing = Up(tail, queued) /\ InRing' = Up(tail', queued')
  BY DEF InRing, Up, Nth, At

\* The slots in use are a sequence whose first s entries are those less than s behind t.
LEMMA UpFacts ==
  ASSUME NEW t \in Slots, NEW q \in Slots
  PROVE /\ Up(t, q) \in Seq(Slots) /\ Len(Up(t, q)) = q /\ q \in Nat
        /\ \A k \in 1 .. q : Up(t, q)[k] = At(t, k - 1) /\ k - 1 \in Slots
        /\ \A s \in 0 .. q : Fifo!FirstOf(Up(t, q), s) = {i \in Slots : Off(t, i) < s}
<1>1. q \in Nat /\ \A k \in 1 .. q : k - 1 \in Slots
  BY SizeFacts DEF Slots
<1>2. \A k \in 1 .. q : Up(t, q)[k] = At(t, k - 1) /\ Up(t, q)[k] \in Slots
  BY <1>1, AtValue DEF Up
<1>3. Up(t, q) \in Seq(Slots) /\ Len(Up(t, q)) = q
  <2>1. Up(t, q) \in [1 .. q -> Slots]
    BY <1>2 DEF Up
  <2> QED BY <1>1, <2>1
<1>4. ASSUME NEW s \in 0 .. q
      PROVE Fifo!FirstOf(Up(t, q), s) = {i \in Slots : Off(t, i) < s}
  <2>1. ASSUME NEW k \in 1 .. s PROVE Up(t, q)[k] \in {i \in Slots : Off(t, i) < s}
    <3>1. k \in 1 .. q
      BY <1>1
    <3>2. Up(t, q)[k] \in Slots /\ Off(t, Up(t, q)[k]) = k - 1
      BY <1>1, <1>2, <3>1, OffOfAt
    <3> QED BY <3>2
  <2>2. ASSUME NEW i \in Slots, Off(t, i) < s
        PROVE \E k \in 1 .. s : i = Up(t, q)[k]
    <3>1. Off(t, i) \in Slots /\ At(t, Off(t, i)) = i
      BY OffValue, OffOfAt
    <3>2. PICK o \in Nat : o = Off(t, i)
      BY <3>1, SizeFacts DEF Slots
    <3>3. o + 1 \in 1 .. s /\ o + 1 \in 1 .. q /\ (o + 1) - 1 = o
      BY <1>1, <2>2, <3>2
    <3>4. Up(t, q)[o + 1] = At(t, (o + 1) - 1)
      BY <1>2, <3>3
    <3> QED BY <3>1, <3>2, <3>3, <3>4
  <2> QED BY <2>1, <2>2 DEF Fifo!FirstOf
<1> QED BY <1>1, <1>2, <1>3, <1>4

\* A frame queued at the head is a new entry at the end of the sequence.
LEMMA UpGrows ==
  ASSUME NEW t \in Slots, NEW q \in Slots, q + 1 < NDesc
  PROVE /\ Up(t, q + 1) = Append(Up(t, q), At(t, q))
        /\ At(t, q) \in Slots \ Fifo!FirstOf(Up(t, q), Len(Up(t, q)))
<1>1. q \in Nat /\ q + 1 \in Slots /\ q \in 0 .. q
  BY SizeFacts DEF Slots
<1>2. /\ Up(t, q) \in Seq(Slots) /\ Len(Up(t, q)) = q
      /\ \A k \in 1 .. q : Up(t, q)[k] = At(t, k - 1)
  BY UpFacts
<1>3. /\ Up(t, q + 1) \in Seq(Slots) /\ Len(Up(t, q + 1)) = q + 1
      /\ \A k \in 1 .. q + 1 : Up(t, q + 1)[k] = At(t, k - 1)
  BY <1>1, UpFacts
<1>4. At(t, q) \in Slots
  BY AtValue
<1>5. Up(t, q + 1) = Append(Up(t, q), At(t, q))
  <2> DEFINE a == Append(Up(t, q), At(t, q))
  <2>1. a \in Seq(Slots) /\ Len(a) = q + 1
    BY <1>2, <1>4
  <2>2. \A k \in 1 .. q + 1 : a[k] = At(t, k - 1)
    <3>1. (q + 1) - 1 = q
      BY <1>1
    <3>2. \A k \in 1 .. q + 1 : a[k] = IF k = q + 1 THEN At(t, q) ELSE Up(t, q)[k]
      BY <1>1, <1>2, <1>4
    <3>3. \A k \in 1 .. q + 1 : k # q + 1 => k \in 1 .. q
      BY <1>1
    <3> QED BY <1>2, <3>1, <3>2, <3>3
  <2> QED BY <1>3, <2>1, <2>2
<1>6. At(t, q) \notin Fifo!FirstOf(Up(t, q), q)
  <2>1. Off(t, At(t, q)) = q
    BY OffOfAt
  <2> QED BY <1>1, <2>1, UpFacts
<1> QED BY <1>2, <1>4, <1>5, <1>6

\* The slot freed at the tail is the first entry of the sequence.
LEMMA UpShrinks ==
  ASSUME NEW t \in Slots, NEW q \in Slots, q > 0
  PROVE Up(t, q) # <<>> /\ Head(Up(t, q)) = t /\ Tail(Up(t, q)) = Up(Inc(t), q - 1)
<1>1. q \in Nat /\ q - 1 \in Slots /\ q - 1 \in Nat /\ Inc(t) \in Slots
  BY IncMoves, SizeFacts DEF Slots
<1>2. /\ Up(t, q) \in Seq(Slots) /\ Len(Up(t, q)) = q
      /\ \A k \in 1 .. q : Up(t, q)[k] = At(t, k - 1) /\ k - 1 \in Slots
  BY UpFacts
<1>3. /\ Up(Inc(t), q - 1) \in Seq(Slots) /\ Len(Up(Inc(t), q - 1)) = q - 1
      /\ \A k \in 1 .. q - 1 : Up(Inc(t), q - 1)[k] = At(Inc(t), k - 1)
  BY <1>1, UpFacts
<1>4. Up(t, q) # <<>> /\ Head(Up(t, q)) = t
  <2>1. Up(t, q)[1] = t
    <3>1. 1 \in 1 .. q /\ 1 - 1 = 0
      BY <1>1
    <3>2. At(t, 0) = t
      BY OffOfAt
    <3> QED BY <1>2, <3>1, <3>2
  <2> QED BY <1>1, <1>2, <2>1
<1>5. Tail(Up(t, q)) \in Seq(Slots) /\ Len(Tail(Up(t, q))) = q - 1
  BY <1>1, <1>2, <1>4
<1>6. ASSUME NEW k \in 1 .. q - 1 PROVE Tail(Up(t, q))[k] = Up(Inc(t), q - 1)[k]
  <2>1. k + 1 \in 1 .. q /\ (k + 1) - 1 = k /\ k \in Slots /\ k > 0
    BY <1>1, SizeFacts DEF Slots
  <2>2. Tail(Up(t, q))[k] = Up(t, q)[k + 1]
    BY <1>1, <1>2, <1>4
  <2>3. Up(t, q)[k + 1] = At(t, k)
    BY <1>2, <2>1
  <2>4. At(t, k) = At(Inc(t), k - 1)
    BY <2>1, IncMoves
  <2> QED BY <1>3, <2>2, <2>3, <2>4
<1> QED BY <1>3, <1>4, <1>5, <1>6

Over == done \cup Reported

\* What the host controller has is what it was handed, from the oldest frame on, less
\* what it is through with; the entry being reported counts as such.
LEMMA BusIsPrefixNext ==
  ASSUME IInv', kicks' # "stale"
  PROVE \E s \in 0 .. queued' : flying' = Fifo!FirstOf(InRing', s) \ Over'
<1>1. PICK s \in 0 .. queued' : RingAt(s)'
  BY DEF IInv, OrderInv, RingInv
<1>2. queued' \in Slots /\ tail' \in Slots /\ done' \subseteq Slots /\ flying' \subseteq Slots
  BY SizeFacts DEF IInv, TypeOK, RoomInv, Slots
<1>3. Fifo!FirstOf(InRing', s) = {i \in Slots : Off(tail', i) < s}
  BY <1>2, UpFacts, RingIsUp
<1>4. CASE st' = "report"
  <2>1. Over' = done' \cup {tail'} /\ s > 0 /\ Off(tail', tail') = 0
    BY <1>1, <1>2, <1>4, OffOfAt DEF Over, Reported, RingAt
  <2>2. flying' \cap Over' = {} /\ \A i \in Slots : i \in flying' \cup Over' <=> Off(tail', i) < s
    BY <1>1, <1>2, <1>4, <2>1 DEF RingAt
  <2> QED BY <1>2, <1>3, <2>2
<1>5. CASE st' # "report"
  <2>1. Over' = done'
    BY <1>5 DEF Over, Reported
  <2>2. flying' \cap Over' = {} /\ \A i \in Slots : i \in flying' \cup Over' <=> Off(tail', i) < s
    BY <1>1, <1>5, <2>1 DEF RingAt
  <2> QED BY <1>2, <1>3, <2>2
<1> QED BY <1>4, <1>5

-----------------------------------------------------------------------------
(* Every step is one of the queue, or leaves it alone.                      *)

LEMMA SendIsSend ==
  ASSUME IInv, IInv', kicks # "stale", kicks' # "stale",
         QueueOk \/ QueueFails, UNCHANGED <<tail, done, st>>, flying \subseteq flying'
  PROVE Fifo!Send
<1>1. queued \in Slots /\ queued \in Nat /\ tail \in Slots
  BY QueuedIsSlot DEF IInv, TypeOK
<1>2. PICK s \in 0 .. queued' : flying' = Fifo!FirstOf(InRing', s) \ Over'
  BY BusIsPrefixNext
<1>3. Over' = Over
  BY DEF Over, Reported
<1>4. s \in 0 .. Len(InRing')
  <2>1. queued' \in Slots /\ tail' \in Slots
    BY SizeFacts DEF IInv, TypeOK, RoomInv, Slots
  <2>2. Len(InRing') = queued'
    BY <2>1, UpFacts, RingIsUp
  <2> QED BY <2>2
<1>5. CASE QueueOk
  <2>1. queued' = queued + 1 /\ queued + 1 < NDesc
    BY <1>5 DEF QueueOk, IInv, RoomInv
  <2>2. head = At(tail, queued)
    BY DEF IInv, OrderInv, RingInv, RingAt
  <2>3. /\ InRing' = Append(InRing, head)
        /\ head \in Slots \ Fifo!FirstOf(InRing, Len(InRing))
    BY <1>1, <2>1, <2>2, UpGrows, RingIsUp
  <2>4. Fifo!Join
    BY <2>3 DEF Fifo!Join
  <2> QED BY <1>2, <1>3, <1>4, <2>4 DEF Fifo!Send, Over
<1>6. CASE QueueFails
  <2>1. InRing' = InRing
    BY <1>6, RingIsUp DEF QueueFails
  <2> QED BY <1>2, <1>3, <1>4, <2>1 DEF Fifo!Send, Over
<1> QED BY <1>5, <1>6

LEMMA DropIsGive ==
  ASSUME IInv, kicks # "stale", Drop, queued > 0, st' # "report", UNCHANGED flying,
         (st = "report" /\ done' = done /\ kicks' = kicks)
           \/ (st # "report" /\ flying = {} /\ done' = done \ {tail}
                /\ kicks' = IF tail = first /\ first # head /\ ~gone THEN "stale" ELSE kicks)
  PROVE Fifo!Give
<1>1. queued \in Slots /\ queued \in Nat /\ tail \in Slots /\ tail' = Inc(tail) /\ queued' = queued - 1
  BY QueuedIsSlot DEF IInv, TypeOK, Drop
<1>2. InRing # <<>> /\ Head(InRing) = tail /\ InRing' = Tail(InRing)
  BY <1>1, UpShrinks, RingIsUp
<1>3. PICK s \in 0 .. queued : RingAt(s)
  BY DEF IInv, OrderInv, RingInv
<1>4. Over' = done'
  BY DEF Over, Reported
<1>5. CASE st = "report"
  <2>1. Over = done \cup {tail} /\ tail \notin flying /\ tail \notin done
    BY <1>1, <1>3, <1>5 DEF Over, Reported, RingAt
  <2>2. tail \in Over /\ Over' = Over \ {tail} /\ kicks' = kicks
    BY <1>4, <1>5, <2>1
  <2> QED BY <1>2, <2>1, <2>2 DEF Fifo!Give, Over
<1>6. CASE st # "report"
  <2>1. Over = done /\ Over' = Over \ {tail} /\ flying = {}
    BY <1>4, <1>6 DEF Over, Reported
  <2>2. tail \in Over => kicks' = kicks
    <3>1. SUFFICES ASSUME tail \in done, tail = first, ~gone PROVE FALSE
      BY <1>6, <2>1
    <3>2. Off(tail, tail) = 0 /\ \A k \in Slots : Off(tail, At(tail, k)) = k
      BY <1>1, OffOfAt
    <3>3. s > 0 /\ s \in Slots
      BY <1>1, <1>3, <3>1, <3>2, SizeFacts DEF RingAt, Slots
    <3>4. tail = At(tail, s)
      BY <1>3, <3>1 DEF RingAt
    <3> QED BY <3>2, <3>3, <3>4
  <2> QED BY <1>2, <2>1, <2>2 DEF Fifo!Give, Over
<1> QED BY <1>5, <1>6

\* Steps that move no frame.
LEMMA IdleIsStutter ==
  ASSUME UNCHANGED <<tail, queued, flying>>, (kicks' = "stale") = (kicks = "stale"), Over' = Over
  PROVE UNCHANGED Fifo!vars
<1>1. InRing' = InRing
  BY RingIsUp
<1> QED BY <1>1 DEF Fifo!vars, Over

\* A new instance of the driver begins with an empty ring.
LEMMA ProbeIsInit == ASSUME IInv, Probe PROVE Fifo!Init' /\ (kicks # "stale" => UNCHANGED Fifo!vars)
<1>1. 0 \in Slots
  BY SizeFacts DEF Slots
<1>2. queued' = 0 /\ tail' = 0 /\ flying' = {} /\ done' = {} /\ st' = "idle" /\ st = "idle" /\ kicks' = "clean"
  BY DEF Probe
<1>3. Over' = {}
  BY <1>2 DEF Over, Reported
<1>4. \A t \in Slots : Up(t, 0) = <<>>
  <2> SUFFICES ASSUME NEW t \in Slots PROVE Up(t, 0) = <<>>
    OBVIOUS
  <2>1. Up(t, 0) \in Seq(Slots) /\ Len(Up(t, 0)) = 0
    BY <1>1, UpFacts
  <2> QED BY <2>1
<1>5. InRing' = <<>>
  BY <1>1, <1>2, <1>4, RingIsUp
<1>6. Fifo!Init'
  BY <1>2, <1>3, <1>5 DEF Fifo!Init, Over
<1>7. ASSUME kicks # "stale" PROVE UNCHANGED Fifo!vars
  <2>1. queued = 0 /\ tail \in Slots
    BY DEF Probe, IInv, CtlInv, TypeOK
  <2>2. PICK s \in 0 .. queued : RingAt(s)
    BY <1>7 DEF IInv, OrderInv, RingInv
  <2>3. \A i \in Slots : ~(Off(tail, i) < 0)
    BY <2>1, OffValue, SizeFacts DEF Slots
  <2>4. flying = {} /\ done = {}
    BY <2>1, <2>2, <2>3, <1>2 DEF RingAt, IInv, TypeOK
  <2>5. InRing = <<>> /\ Over = {}
    BY <2>1, <2>4, <1>2, <1>4, RingIsUp DEF Over, Reported
  <2> QED BY <1>2, <1>3, <1>5, <1>7, <2>4, <2>5 DEF Fifo!vars, Over
<1> QED BY <1>6, <1>7

LEMMA StepIsFifo ==
  ASSUME IInv, IInv', [Next]_vars, kicks # "stale"
  PROVE Fifo!Send \/ Fifo!Complete \/ Fifo!Give \/ UNCHANGED Fifo!vars
<1>1. ASSUME NEW p \in Senders, QueueFirst(p) \/ QueueNext(p) \/ SendPending(p) \/ KickBurst(p),
             UNCHANGED <<txOn, txSched, st, stOn, stSched, state>>
      PROVE Fifo!Send
  <2>1. (QueueOk \/ QueueFails) /\ UNCHANGED <<tail, done, st>>
    BY <1>1 DEF QueueFirst, QueueNext, SendPending, KickBurst, QueueFails
  <2>2. flying \subseteq flying' /\ kicks' # "stale"
    BY <1>1 DEF QueueFirst, QueueNext, SendPending, KickBurst, Kick
  <2> QED BY <2>1, <2>2, SendIsSend
<1>2. ASSUME NEW i \in Slots, Complete(i) PROVE Fifo!Complete
  <2>1. InRing' = InRing /\ Over' = Over \cup {i} /\ flying' = flying \ {i} /\ {i} \in SUBSET flying /\ kicks' = kicks
    BY <1>2, RingIsUp DEF Complete, Over, Reported
  <2> QED BY <2>1 DEF Fifo!Complete, Over
<1>3. CASE Kill
  <2>1. InRing' = InRing /\ Over' = Over \cup flying /\ flying' = flying \ flying /\ flying \in SUBSET flying
        /\ kicks' = kicks
    BY <1>3, RingIsUp DEF Kill, Over, Reported
  <2> QED BY <2>1 DEF Fifo!Complete, Over
<1>4. CASE Report \/ Drain
  <2>1. CASE Report
    BY <2>1, DropIsGive DEF Report, IInv, CtlInv
  <2>2. CASE Drain
    BY <2>2, DropIsGive DEF Drain, workers, IInv, CtlInv
  <2> QED BY <1>4, <2>1, <2>2
<1>5. CASE TakeDone
  <2>1. UNCHANGED <<tail, queued, flying, kicks>> /\ Over' = Over
    BY <1>5 DEF TakeDone, Finished, Over, Reported
  <2> QED BY <2>1, IdleIsStutter
<1>6. CASE UNCHANGED ring /\ (st' = "report" <=> st = "report")
  <2>1. UNCHANGED <<tail, queued, flying, kicks>> /\ Over' = Over
    BY <1>6 DEF ring, Over, Reported
  <2> QED BY <2>1, IdleIsStutter
<1>7. CASE Probe
  BY <1>7, ProbeIsInit
<1>8. ASSUME NEW p \in Senders, Take(p) \/ Settle(p) \/ Return(p)
      PROVE Fifo!Send \/ Fifo!Complete \/ Fifo!Give \/ UNCHANGED Fifo!vars
  <2>1. CASE Settle(p)
    <3>1. CASE BurstEnds(p)
      BY <1>6, <2>1, <3>1 DEF Settle, BurstEnds
    <3> QED BY <1>1, <2>1, <3>1 DEF Settle
  <2>2. CASE Take(p) \/ Return(p)
    BY <1>6, <2>2 DEF Take, TakePending, TakeFirst, TakeNext, Return, NothingLeft
  <2> QED BY <1>8, <2>1, <2>2
<1>9. CASE Control \/ Unplug \/ ResetBegins \/ WorkerStarts \/ Wake \/ Status
  BY <1>3, <1>4, <1>5, <1>6, <1>9
     DEF Control, ResetBursts, ResetParks, ResetParked, AskTx, TxParked, StopBegins, StatusParked, WaitEnds,
         Repark, Reparked, Drained, StopEnds, ResetEnds, RemovalCloses, RemovalStops, Unplug, ResetBegins,
         WorkerStarts, Wake, Status, Reap, ReapEnds, workers
<1>10. CASE UNCHANGED vars
  BY <1>6, <1>10 DEF vars, workers
<1> QED BY <1>2, <1>7, <1>8, <1>9, <1>10 DEF Next

LEMMA StaleUntilProbe == ASSUME [Next]_vars, kicks = "stale", kicks' # "stale" PROVE Probe
  BY DEF Next, vars, ring, Take, TakePending, TakeFirst, TakeNext, Settle, Return, BurstEnds, NothingLeft,
         SendPending, QueueFirst, QueueNext, KickBurst, Kick, WorkerStarts, Wake, Complete,
         Status, Reap, TakeDone, Report, ReapEnds, Control, ResetBursts, ResetParks, ResetParked, AskTx,
         TxParked, StopBegins, StatusParked, WaitEnds, Kill, Repark, Reparked, Drain, Drained, StopEnds,
         ResetEnds, RemovalCloses, RemovalStops, Unplug, ResetBegins

\* The ring of one AC, of every length, keeps the promise of TxFifo: frames are
\* submitted in the order they were queued and each once, the oldest is freed only when
\* its URB is not active, and one that was never submitted only by stop_tx.
THEOREM RingKeepsFifo == Spec => KeepsFifo
<1>1. Init => Fifo!Init
  <2> SUFFICES ASSUME Init PROVE Fifo!Init
    OBVIOUS
  <2>1. InRing = <<>>
    <3>1. queued = 0 /\ 0 \in Slots
      BY SizeFacts DEF Init, Slots
    <3>2. Up(0, 0) \in Seq(Slots) /\ Len(Up(0, 0)) = 0
      BY <3>1, UpFacts
    <3> QED BY <3>1, <3>2, RingIsUp DEF Init
  <2> QED BY <2>1 DEF Init, Fifo!Init, Reported
<1>2. IInv /\ IInv' /\ [Next]_vars => [Fifo!Next]_(Fifo!vars)
  <2> SUFFICES ASSUME IInv, IInv', [Next]_vars PROVE [Fifo!Next]_(Fifo!vars)
    OBVIOUS
  <2>1. CASE kicks # "stale"
    BY <2>1, StepIsFifo DEF Fifo!Next
  <2>2. CASE kicks = "stale"
    <3>1. kicks' # "stale" => Fifo!Init'
      BY <2>2, StaleUntilProbe, ProbeIsInit
    <3> QED BY <2>2, <3>1 DEF Fifo!Next
  <2> QED BY <2>1, <2>2
<1> QED BY <1>1, <1>2, Invariance, PTL DEF Spec, KeepsFifo, Fifo!Spec

\* Between the second worker_disable of mac_reset and the end of the reset no frame is
\* queued and no URB submitted, although stop_tx enables the tx worker meanwhile.
THEOREM ResetIsQuiet == Spec => QuietInReset
<1>1. IInv /\ [Next]_vars => QuietStep
  <2> SUFFICES ASSUME IInv, [Next]_vars, Quiet PROVE head' = head /\ flying' \subseteq flying
    BY DEF QuietStep
  <2>1. ctl \in Stopping /\ ctl # "freed"
    BY DEF Quiet, IInv, CtlInv, TypeOK, Stopping
  <2>2. \A p \in Senders : send[p] \in {"off", "start"}
    BY <2>1 DEF IInv, CtlInv, Senders, Stopping
  <2>3. \A p \in Senders : ~Settle(p)
    BY <2>2 DEF Settle, BurstEnds, SendPending, QueueFirst, QueueNext, KickBurst, Move
  <2>4. ~Probe
    BY <2>1 DEF Probe
  <2> QED BY <2>3, <2>4
       DEF Next, vars, ring, Take, TakePending, TakeFirst, TakeNext, Return,
           NothingLeft, WorkerStarts, Wake, Complete,
           Status, Reap, TakeDone, Report, ReapEnds, Control, ResetBursts, ResetParks, ResetParked, AskTx,
           TxParked, StopBegins, StatusParked, WaitEnds, Kill, Repark, Reparked, Drain, Drained, StopEnds,
           ResetEnds, RemovalCloses, RemovalStops, Unplug, ResetBegins, workers
<1> QED BY <1>1, Invariance, PTL DEF Spec, QuietInReset

=============================================================================
