---------------------------- MODULE UsbRxProofs ----------------------------
(***************************************************************************)
(* Theorems about what comes in from the device: UsbRx for rings of every  *)
(* length (an URB is with the endpoint, in the ring or with the worker,    *)
(* and only there), and Mcu for any number of contexts, sequence numbers   *)
(* and loads (no command takes another one's answer).                      *)
(***************************************************************************)
EXTENDS UsbRx, Mcu, SequenceTheorems, FiniteSetTheorems, TLAPS

\* What is left of a sequence without the element at p.
LEMMA RemoveAtProperties ==
  ASSUME NEW S, NEW s \in Seq(S), NEW p \in DOMAIN s
  PROVE /\ RemoveAt(s, p) \in Seq(S)
        /\ Len(RemoveAt(s, p)) = Len(s) - 1
        /\ \A k \in 1 .. Len(s) - 1 : RemoveAt(s, p)[k] = s[IF k < p THEN k ELSE k + 1]
<1>1. /\ Len(s) \in Nat /\ DOMAIN s = 1 .. Len(s) /\ p \in 1 .. Len(s)
  OBVIOUS
<1>2. /\ SubSeq(s, 1, p - 1) \in Seq(S) /\ Len(SubSeq(s, 1, p - 1)) = p - 1
      /\ \A i \in 1 .. p - 1 : SubSeq(s, 1, p - 1)[i] = s[i]
  BY <1>1, SubSeqProperties
<1>3. /\ SubSeq(s, p + 1, Len(s)) \in Seq(S) /\ Len(SubSeq(s, p + 1, Len(s))) = Len(s) - p
      /\ \A i \in 1 .. Len(s) - p : SubSeq(s, p + 1, Len(s))[i] = s[p + i]
  BY <1>1, SubSeqProperties
<1> DEFINE a == SubSeq(s, 1, p - 1)
           b == SubSeq(s, p + 1, Len(s))
<1>4. RemoveAt(s, p) = a \o b
  BY DEF RemoveAt
<1>5. a \in Seq(S) /\ b \in Seq(S) /\ Len(a) = p - 1 /\ Len(b) = Len(s) - p
  BY <1>2, <1>3
<1>6. /\ \A i \in 1 .. p - 1 : a[i] = s[i]
      /\ \A i \in 1 .. Len(s) - p : b[i] = s[p + i]
  BY <1>2, <1>3
<1> HIDE DEF a, b
<1>7. /\ a \o b \in Seq(S) /\ Len(a \o b) = Len(a) + Len(b)
      /\ \A i \in 1 .. Len(a) + Len(b) :
           (a \o b)[i] = IF i <= Len(a) THEN a[i] ELSE b[i - Len(a)]
  BY <1>5, ConcatProperties
<1>8. ASSUME NEW k \in 1 .. Len(s) - 1
      PROVE (a \o b)[k] = s[IF k < p THEN k ELSE k + 1]
  <2>1. CASE k < p
    BY <1>1, <1>5, <1>6, <1>7, <2>1
  <2>2. CASE ~(k < p)
    <3>1. PICK q \in 1 .. Len(s) - p : q = k - Len(a)
      BY <1>1, <1>5, <2>2
    <3>2. (a \o b)[k] = b[q]
      BY <1>1, <1>5, <1>7, <2>2, <3>1
    <3>3. b[q] = s[p + q] /\ p + q = k + 1
      BY <1>1, <1>5, <1>6, <3>1
    <3> QED BY <2>2, <3>2, <3>3
  <2> QED BY <2>1, <2>2
<1> QED BY <1>1, <1>4, <1>5, <1>7, <1>8

-----------------------------------------------------------------------------
(* The ring.                                                                *)

\* The only quotients of indices that occur are 0 and 1.
LEMMA Wrap == \A x \in 0 .. 2 * NDesc - 1 : x % NDesc = IF x < NDesc THEN x ELSE x - NDesc
  BY NDescAssumption

\* Waiting entries are distinct, and the slot after the last is the first one only
\* when the ring is full.
LEMMA NthIsInjective ==
  ASSUME tail \in Slots
  PROVE /\ \A i \in 0 .. NDesc : Nth(i) \in Slots
        /\ Nth(0) = tail /\ Nth(NDesc) = tail
        /\ \A i, j \in 0 .. NDesc - 1 : Nth(i) = Nth(j) => i = j
        /\ \A i \in 0 .. NDesc - 1 : Inc(Nth(i)) = Nth(i + 1)
        /\ \A i \in 0 .. NDesc - 1 : (Inc(tail) + i) % NDesc = Nth(i + 1)
<1>1. NDesc \in Nat /\ NDesc > 1 /\ tail \in 0 .. NDesc - 1
  BY NDescAssumption DEF Slots
<1>2. \A i \in 0 .. NDesc : Nth(i) = IF tail + i < NDesc THEN tail + i ELSE tail + i - NDesc
  BY <1>1, Wrap DEF Nth
<1>3. \A i \in Slots : Inc(i) = IF i + 1 < NDesc THEN i + 1 ELSE 0
  BY <1>1, Wrap DEF Inc, Slots
<1>4. \A i \in 0 .. NDesc : Nth(i) \in Slots
  BY <1>1, <1>2 DEF Slots
<1>5. \A i \in 0 .. NDesc - 1 : Inc(Nth(i)) = Nth(i + 1)
  BY <1>1, <1>2, <1>3, <1>4
<1>6. \A i \in 0 .. NDesc - 1 : (Inc(tail) + i) % NDesc = Nth(i + 1)
  <2> SUFFICES ASSUME NEW i \in 0 .. NDesc - 1
               PROVE (Inc(tail) + i) % NDesc = Nth(i + 1)
    OBVIOUS
  <2>1. Inc(tail) + i \in 0 .. 2 * NDesc - 1
    BY <1>1, <1>3 DEF Slots
  <2>2. (Inc(tail) + i) % NDesc
          = IF Inc(tail) + i < NDesc THEN Inc(tail) + i ELSE Inc(tail) + i - NDesc
    <3>1. PICK y \in 0 .. 2 * NDesc - 1 : y = Inc(tail) + i
      BY <2>1
    <3>2. y % NDesc = IF y < NDesc THEN y ELSE y - NDesc
      BY Wrap
    <3>3. Inc(tail) \in Nat
      BY <1>1, <1>3 DEF Slots
    <3> QED BY <1>1, <3>1, <3>2, <3>3
  <2>3. Nth(i + 1) = IF tail + i + 1 < NDesc THEN tail + i + 1 ELSE tail + i + 1 - NDesc
    BY <1>1, <1>2
  <2>4. Inc(tail) = IF tail + 1 < NDesc THEN tail + 1 ELSE 0
    BY <1>1, <1>3 DEF Slots
  <2>5. CASE tail + 1 < NDesc
    BY <1>1, <2>2, <2>3, <2>4, <2>5
  <2>6. CASE tail + 1 = NDesc
    BY <1>1, <2>2, <2>3, <2>4, <2>6
  <2> QED BY <1>1, <2>5, <2>6
<1> QED BY <1>1, <1>2, <1>4, <1>5, <1>6

-----------------------------------------------------------------------------
(* The invariant.                                                           *)

\* The head is behind the entries that wait.
HeadIsLast == head = Nth(queued)

\* The parts of OneOwner that hold whatever fails.
Apart ==
  /\ \A j, k \in DOMAIN fifo : fifo[j] = fifo[k] => j = k
  /\ \A k \in DOMAIN fifo : fifo[k] # held
  /\ \A k \in DOMAIN fifo : \A i \in 0 .. queued - 1 : fifo[k] # Nth(i)
  /\ \A i \in 0 .. queued - 1 : held # Nth(i)

\* What stop_rx has reached at each of its steps.
StopGoesOn ==
  /\ ctl \in {"poison", "stopped", "failed"} => pc = "idle"
  /\ ctl # "up" => on = FALSE
  /\ ctl \in {"up", "park", "failed"} => poisoned = {}
  /\ ctl \in {"poison", "stopped"} => \A k \in DOMAIN fifo : fifo[k] \notin poisoned
  /\ ctl = "stopped" => poisoned = Slots
  /\ ctl = "failed" => skipped = TRUE

IInv == TypeOK /\ HeadIsLast /\ Apart /\ StopGoesOn /\ RingOrder

\* An URB is held or not.
LEMMA HeldCount ==
  \A h \in Slots \cup {None} : Cardinality({h} \ {None}) = IF h = None THEN 0 ELSE 1
<1> SUFFICES ASSUME NEW h \in Slots \cup {None}
             PROVE Cardinality({h} \ {None}) = IF h = None THEN 0 ELSE 1
  OBVIOUS
<1>1. CASE h = None
  <2>1. {h} \ {None} = {}
    BY <1>1
  <2> QED BY <1>1, <2>1, FS_EmptySet
<1>2. CASE h # None
  <2>1. {h} \ {None} = {h}
    BY <1>2
  <2> QED BY <1>2, <2>1, FS_Singleton
<1> QED BY <1>1, <1>2

LEMMA InitIInv == Init => IInv
<1> SUFFICES ASSUME Init PROVE IInv
  OBVIOUS
<1>1. /\ NDesc \in Nat /\ NDesc > 1 /\ 0 \in Slots /\ None \notin Slots
      /\ head = 0 /\ tail = 0 /\ queued = 0 /\ held = None
      /\ poisoned = {} /\ pc = "idle" /\ on = TRUE /\ sched = FALSE
      /\ ctl = "up" /\ gone = FALSE /\ skipped = FALSE
  BY NDescAssumption, NoneAssumption DEF Init, Slots
<1>2. /\ fifo \in Seq(Slots) /\ Len(fifo) = NDesc
      /\ \A k \in 1 .. NDesc : fifo[k] = k - 1
  BY <1>1 DEF Init, Slots
<1>3. TypeOK
  <2>1. queued \in 0 .. NDesc
    BY <1>1
  <2> QED BY <1>1, <1>2, <2>1 DEF TypeOK
<1>4. HeadIsLast
  BY <1>1, NthIsInjective DEF HeadIsLast
<1>5. Apart
  BY <1>1, <1>2 DEF Apart, Slots
<1>6. StopGoesOn
  BY DEF Init, StopGoesOn
<1>7. RingOrder
  <2>1. Cardinality({held} \ {None}) = 0
    BY <1>1, HeldCount
  <2>2. ASSUME NEW k \in DOMAIN fifo PROVE fifo[k] = (head + k - 1) % NDesc
    <3>1. k \in 1 .. NDesc /\ fifo[k] = k - 1
      BY <1>2
    <3>2. (k - 1) % NDesc = k - 1
      BY <1>1, <3>1, Wrap
    <3> QED BY <1>1, <3>1, <3>2
  <2> QED BY <1>1, <1>2, <2>1, <2>2 DEF RingOrder
<1> QED BY <1>3, <1>4, <1>5, <1>6, <1>7 DEF IInv

-----------------------------------------------------------------------------
(* The steps.                                                               *)

\* What only moves the worker or the stop keeps the ring.
LEMMA RingKept ==
  ASSUME IInv, UNCHANGED <<ring, fifo, held>>
  PROVE /\ HeadIsLast' /\ Apart'
        /\ (ctl' \in {"up", "park"} /\ ~gone' /\ ~skipped' =>
              ctl \in {"up", "park"} /\ ~gone /\ ~skipped) => RingOrder'
<1>1. UNCHANGED <<head, tail, queued, fifo, held>>
  BY DEF ring
<1>2. HeadIsLast'
  BY <1>1 DEF IInv, HeadIsLast, Nth
<1>3. Apart'
  BY <1>1 DEF IInv, Apart, Nth
<1>4. (ctl' \in {"up", "park"} /\ ~gone' /\ ~skipped' =>
              ctl \in {"up", "park"} /\ ~gone /\ ~skipped) => RingOrder'
  BY <1>1 DEF IInv, RingOrder, Inc
<1> QED BY <1>2, <1>3, <1>4

\* Unplugging, the worker between two entries, and the stop up to the poisoning.
LEMMA MovesIInv ==
  IInv /\ (Unplug \/ Start \/ TakeNone \/ Stop \/ Parked \/ Stopped) => IInv'
<1> SUFFICES ASSUME IInv PROVE Unplug \/ Start \/ TakeNone \/ Stop \/ Parked \/ Stopped => IInv'
  OBVIOUS
<1>1. Unplug => IInv'
  <2> SUFFICES ASSUME Unplug PROVE IInv'
    OBVIOUS
  <2>1. TypeOK' /\ StopGoesOn'
    BY DEF Unplug, IInv, TypeOK, StopGoesOn, worker, ring
  <2>2. HeadIsLast' /\ Apart' /\ RingOrder'
    BY RingKept DEF Unplug, worker, ring
  <2> QED BY <2>1, <2>2 DEF IInv
<1>2. Start => IInv'
  <2> SUFFICES ASSUME Start PROVE IInv'
    OBVIOUS
  <2>1. TypeOK' /\ StopGoesOn'
    BY DEF Start, IInv, TypeOK, StopGoesOn, ring
  <2>2. HeadIsLast' /\ Apart' /\ RingOrder'
    BY RingKept DEF Start, ring
  <2> QED BY <2>1, <2>2 DEF IInv
<1>3. TakeNone => IInv'
  <2> SUFFICES ASSUME TakeNone PROVE IInv'
    OBVIOUS
  <2>1. TypeOK' /\ StopGoesOn'
    BY DEF TakeNone, IInv, TypeOK, StopGoesOn, ring
  <2>2. HeadIsLast' /\ Apart' /\ RingOrder'
    BY RingKept DEF TakeNone, ring
  <2> QED BY <2>1, <2>2 DEF IInv
<1>4. Stop => IInv'
  <2> SUFFICES ASSUME Stop PROVE IInv'
    OBVIOUS
  <2>1. TypeOK' /\ StopGoesOn'
    BY DEF Stop, IInv, TypeOK, StopGoesOn, ring
  <2>2. HeadIsLast' /\ Apart' /\ RingOrder'
    BY RingKept DEF Stop, ring, IInv, StopGoesOn
  <2> QED BY <2>1, <2>2 DEF IInv
<1>5. Parked => IInv'
  <2> SUFFICES ASSUME Parked PROVE IInv'
    OBVIOUS
  <2>1. TypeOK' /\ StopGoesOn'
    BY DEF Parked, IInv, TypeOK, StopGoesOn, ring
  <2>2. HeadIsLast' /\ Apart' /\ RingOrder'
    BY RingKept DEF Parked, ring
  <2> QED BY <2>1, <2>2 DEF IInv
<1>6. Stopped => IInv'
  <2> SUFFICES ASSUME Stopped PROVE IInv'
    OBVIOUS
  <2>1. TypeOK' /\ StopGoesOn'
    BY DEF Stopped, IInv, TypeOK, StopGoesOn, worker, ring
  <2>2. HeadIsLast' /\ Apart' /\ RingOrder'
    BY RingKept DEF Stopped, worker, ring
  <2> QED BY <2>1, <2>2 DEF IInv
<1> QED BY <1>1, <1>2, <1>3, <1>4, <1>5, <1>6

\* The oldest URB of the endpoint is the first to leave it.
LEMMA TailOfFifo ==
  ASSUME IInv, fifo # <<>>, fifo' = Tail(fifo)
  PROVE /\ Len(fifo) \in Nat /\ 1 \in DOMAIN fifo /\ Head(fifo) = fifo[1] /\ fifo[1] \in Slots
        /\ fifo' \in Seq(Slots) /\ Len(fifo') = Len(fifo) - 1
        /\ DOMAIN fifo' = 1 .. Len(fifo) - 1
        /\ \A k \in DOMAIN fifo' : k + 1 \in DOMAIN fifo /\ k + 1 # 1 /\ fifo'[k] = fifo[k + 1]
<1>1. fifo \in Seq(Slots) /\ Len(fifo) \in Nat /\ DOMAIN fifo = 1 .. Len(fifo) /\ Len(fifo) > 0
  BY DEF IInv, TypeOK
<1>2. /\ fifo' \in Seq(Slots) /\ Len(fifo') = Len(fifo) - 1
      /\ \A k \in 1 .. Len(fifo') : fifo'[k] = fifo[k + 1]
  BY <1>1, HeadTailProperties
<1>3. DOMAIN fifo' = 1 .. Len(fifo) - 1
  BY <1>2
<1> QED BY <1>1, <1>2, <1>3

\* complete_rx with an URB that the WARN_ONCE lets pass, or does not.
LEMMA CompleteIInv == IInv /\ Complete => IInv'
<1> SUFFICES ASSUME IInv, Complete PROVE IInv'
  OBVIOUS
<1>1. /\ fifo # <<>> /\ ~gone /\ fifo' = Tail(fifo)
      /\ UNCHANGED <<tail, poisoned, held, pc, on, ctl, gone, skipped>>
  BY DEF Complete
<1>2. /\ Len(fifo) \in Nat /\ 1 \in DOMAIN fifo /\ Head(fifo) = fifo[1] /\ fifo[1] \in Slots
      /\ fifo' \in Seq(Slots) /\ Len(fifo') = Len(fifo) - 1
      /\ DOMAIN fifo' = 1 .. Len(fifo) - 1
      /\ \A k \in DOMAIN fifo' : k + 1 \in DOMAIN fifo /\ k + 1 # 1 /\ fifo'[k] = fifo[k + 1]
  BY <1>1, TailOfFifo
<1>3. /\ head \in Slots /\ tail \in Slots /\ queued \in 0 .. NDesc /\ sched \in BOOLEAN
      /\ NDesc \in Nat /\ NDesc > 1 /\ head = Nth(queued)
  BY NDescAssumption DEF IInv, TypeOK, HeadIsLast
<1>4. StopGoesOn'
  BY <1>1, <1>2 DEF IInv, StopGoesOn
<1>5. CASE Accept(fifo[1])
  <2>1. fifo[1] = head /\ head' = Inc(head) /\ queued' = queued + 1 /\ sched' = TRUE
    BY <1>5 DEF Accept
  <2>2. queued < NDesc
    <3>1. queued = NDesc => fifo[1] = Nth(0) /\ 0 \in 0 .. queued - 1
      BY <1>3, <2>1, NthIsInjective
    <3> QED BY <1>2, <1>3, <3>1 DEF IInv, Apart
  <2>3. head' = Nth(queued + 1) /\ Nth(queued + 1) \in Slots
    BY <1>3, <2>1, <2>2, NthIsInjective
  <2>4. HeadIsLast'
    BY <1>1, <2>1, <2>3 DEF HeadIsLast, Nth
  <2>5. TypeOK'
    BY <1>1, <1>2, <1>3, <2>1, <2>2, <2>3 DEF IInv, TypeOK
  <2>6. Apart'
    <3>1. \A i \in 0 .. queued' - 1 : i \in 0 .. queued - 1 \/ Nth(i) = fifo[1]
      BY <1>3, <2>1
    <3>2. \A i : Nth(i)' = Nth(i)
      BY <1>1 DEF Nth
    <3>3. \A j, k \in DOMAIN fifo' : fifo'[j] = fifo'[k] => j = k
      BY <1>2 DEF IInv, Apart
    <3>4. \A k \in DOMAIN fifo' : fifo'[k] # held' /\ fifo'[k] # fifo[1]
      BY <1>1, <1>2 DEF IInv, Apart
    <3>5. ASSUME NEW k \in DOMAIN fifo', NEW i \in 0 .. queued' - 1 PROVE fifo'[k] # Nth(i)'
      BY <1>2, <3>1, <3>2, <3>4 DEF IInv, Apart
    <3>6. ASSUME NEW i \in 0 .. queued' - 1 PROVE held' # Nth(i)'
      BY <1>1, <1>2, <3>1, <3>2 DEF IInv, Apart
    <3> QED BY <3>3, <3>4, <3>5, <3>6 DEF Apart
  <2>7. RingOrder'
    <3> SUFFICES ASSUME ctl' \in {"up", "park"}, ~gone', ~skipped'
                 PROVE /\ Len(fifo') + queued' + Cardinality({held'} \ {None}) = NDesc
                       /\ \A k \in DOMAIN fifo' : fifo'[k] = (head' + k - 1) % NDesc
                       /\ held' # None => Inc(held') = tail'
      BY DEF RingOrder, Inc
    <3>1. /\ Len(fifo) + queued + Cardinality({held} \ {None}) = NDesc
          /\ \A k \in DOMAIN fifo : fifo[k] = (head + k - 1) % NDesc
          /\ held # None => Inc(held) = tail
      BY <1>1 DEF IInv, RingOrder
    <3>2. Cardinality({held} \ {None}) \in 0 .. 1
      <4>1. held \in Slots \cup {None}
        BY DEF IInv, TypeOK
      <4> QED BY <4>1, HeldCount
    <3>3. Len(fifo') + queued' + Cardinality({held'} \ {None}) = NDesc
      BY <1>1, <1>2, <1>3, <2>1, <3>1, <3>2
    <3>4. ASSUME NEW k \in DOMAIN fifo' PROVE fifo'[k] = (head' + k - 1) % NDesc
      <4>1. k \in 1 .. NDesc - 1 /\ fifo'[k] = (head + k) % NDesc
        BY <1>2, <1>3, <3>1, <3>2
      <4>2. (head + k) % NDesc = IF head + k < NDesc THEN head + k ELSE head + k - NDesc
        BY <1>3, <4>1, Wrap DEF Slots
      <4>3. head' = IF head + 1 < NDesc THEN head + 1 ELSE 0
        BY <1>3, <2>1, Wrap DEF Slots, Inc
      <4>4. head' + k - 1 \in 0 .. 2 * NDesc - 1
        BY <1>3, <4>1, <4>3 DEF Slots
      <4>5. (head' + k - 1) % NDesc
              = IF head' + k - 1 < NDesc THEN head' + k - 1 ELSE head' + k - 1 - NDesc
        <5>1. PICK y \in 0 .. 2 * NDesc - 1 : y = head' + k - 1
          BY <4>4
        <5>2. y % NDesc = IF y < NDesc THEN y ELSE y - NDesc
          BY Wrap
        <5>3. head' \in Int /\ k \in Int
          BY <1>3, <4>1, <4>3 DEF Slots
        <5> QED BY <1>3, <5>1, <5>2, <5>3
      <4> QED BY <1>3, <4>1, <4>2, <4>3, <4>5 DEF Slots
    <3> QED BY <1>1, <3>1, <3>3, <3>4
  <2> QED BY <1>4, <2>4, <2>5, <2>6, <2>7 DEF IInv
<1>6. CASE Mismatch(fifo[1])
  <2>1. fifo[1] # head /\ UNCHANGED <<head, queued, sched>>
    BY <1>6 DEF Mismatch
  <2>2. TypeOK' /\ HeadIsLast'
    BY <1>1, <1>2, <2>1 DEF IInv, TypeOK, HeadIsLast, Nth
  <2>3. Apart'
    BY <1>1, <1>2, <2>1 DEF IInv, Apart, Nth
  <2>4. RingOrder'
    <3>1. ctl \in {"up", "park"} /\ ~gone /\ ~skipped => fifo[1] = (head + 1 - 1) % NDesc
      BY <1>2 DEF IInv, RingOrder
    <3>2. (head + 1 - 1) % NDesc = head
      BY <1>3, Wrap DEF Slots
    <3> QED BY <1>1, <2>1, <3>1, <3>2 DEF RingOrder
  <2> QED BY <1>4, <2>2, <2>3, <2>4 DEF IInv
<1> QED BY <1>2, <1>5, <1>6 DEF Complete

\* complete_rx that just returns.
LEMMA CompleteQuietlyIInv == IInv /\ CompleteQuietly => IInv'
<1> SUFFICES ASSUME IInv, CompleteQuietly PROVE IInv'
  OBVIOUS
<1>1. /\ fifo # <<>> /\ fifo' = Tail(fifo) /\ skipped' = TRUE
      /\ UNCHANGED <<head, tail, queued, poisoned, held, pc, on, sched, ctl, gone>>
  BY DEF CompleteQuietly, ring, worker
<1>2. /\ fifo' \in Seq(Slots)
      /\ \A k \in DOMAIN fifo' : k + 1 \in DOMAIN fifo /\ k + 1 # 1 /\ fifo'[k] = fifo[k + 1]
      /\ DOMAIN fifo' = 1 .. Len(fifo) - 1 /\ Len(fifo) \in Nat
  BY <1>1, TailOfFifo
<1>3. TypeOK' /\ HeadIsLast' /\ StopGoesOn'
  BY <1>1, <1>2 DEF IInv, TypeOK, HeadIsLast, StopGoesOn, Nth
<1>4. Apart'
  BY <1>1, <1>2 DEF IInv, Apart, Nth
<1>5. RingOrder'
  BY <1>1 DEF RingOrder
<1> QED BY <1>3, <1>4, <1>5 DEF IInv

\* get_next_rx_entry: the oldest waiting URB becomes the worker's.
LEMMA TakeNextIInv == IInv /\ TakeNext => IInv'
<1> SUFFICES ASSUME IInv, TakeNext PROVE IInv'
  OBVIOUS
<1>1. /\ pc = "take" /\ queued > 0 /\ held' = tail /\ pc' = "refill"
      /\ tail' = Inc(tail) /\ queued' = queued - 1
      /\ UNCHANGED <<head, fifo, poisoned, on, sched, ctl, gone, skipped>>
  BY DEF TakeNext
<1>2. /\ tail \in Slots /\ queued \in 1 .. NDesc /\ NDesc \in Nat /\ NDesc > 1
      /\ held = None /\ None \notin Slots /\ fifo \in Seq(Slots)
  BY <1>1, NDescAssumption, NoneAssumption DEF IInv, TypeOK, Slots
<1>3. /\ Nth(0) = tail /\ Nth(NDesc) = tail
      /\ \A i, j \in 0 .. NDesc - 1 : Nth(i) = Nth(j) => i = j
      /\ \A i \in 0 .. NDesc : Nth(i) \in Slots
      /\ \A i \in 0 .. NDesc - 1 : Nth(i)' = Nth(i + 1)
      /\ tail' = Nth(1)
  <2>1. \A i \in 0 .. NDesc - 1 : Nth(i)' = (Inc(tail) + i) % NDesc
    BY <1>1 DEF Nth
  <2>2. Nth(0 + 1) = Inc(Nth(0)) /\ Nth(0) = tail
    BY <1>2, NthIsInjective
  <2> QED BY <1>1, <1>2, <2>1, <2>2, NthIsInjective
<1>4. HeadIsLast'
  BY <1>1, <1>2, <1>3 DEF IInv, HeadIsLast
<1>5. TypeOK'
  BY <1>1, <1>2, <1>3 DEF IInv, TypeOK
<1>6. Apart'
  <2>1. \A i \in 0 .. queued' - 1 : Nth(i)' = Nth(i + 1) /\ i + 1 \in 0 .. queued - 1
    BY <1>1, <1>2, <1>3
  <2>2. \A k \in DOMAIN fifo' : fifo'[k] # held'
    BY <1>1, <1>2, <1>3 DEF IInv, Apart
  <2>3. ASSUME NEW k \in DOMAIN fifo', NEW i \in 0 .. queued' - 1 PROVE fifo'[k] # Nth(i)'
    BY <1>1, <2>1 DEF IInv, Apart
  <2>4. ASSUME NEW i \in 0 .. queued' - 1 PROVE held' # Nth(i)'
    BY <1>1, <1>2, <1>3, <2>1
  <2> QED BY <1>1, <2>2, <2>3, <2>4 DEF IInv, Apart
<1>7. StopGoesOn'
  BY <1>1 DEF IInv, StopGoesOn
<1>8. RingOrder'
  <2>1. Cardinality({held} \ {None}) = 0 /\ Cardinality({held'} \ {None}) = 1
    BY <1>1, <1>2, HeldCount
  <2>2. Inc(held') = tail' <=> Inc(tail) = tail'
    BY <1>1
  <2>3. Len(fifo) \in Nat
    BY <1>2
  <2> QED BY <1>1, <1>2, <2>1, <2>2, <2>3 DEF IInv, RingOrder, Inc
<1> QED BY <1>4, <1>5, <1>6, <1>7, <1>8 DEF IInv

\* The worker lets go of its URB without submitting it.
LEMMA LetGo ==
  ASSUME IInv, held' = None, UNCHANGED <<head, tail, queued, fifo>>
  PROVE HeadIsLast' /\ Apart'
<1>1. None \notin Slots /\ \A i \in 0 .. queued - 1 : Nth(i) \in Slots
  <2>1. None \notin Slots
    BY NDescAssumption, NoneAssumption DEF Slots
  <2>2. tail \in Slots /\ queued \in 0 .. NDesc /\ NDesc \in Nat
    BY NDescAssumption DEF IInv, TypeOK
  <2>3. \A i \in 0 .. NDesc : Nth(i) \in Slots
    BY <2>2, NthIsInjective
  <2> QED BY <2>1, <2>2, <2>3
<1>2. \A k \in DOMAIN fifo : fifo[k] \in Slots
  BY DEF IInv, TypeOK
<1> QED BY <1>1, <1>2 DEF IInv, HeadIsLast, Apart, Nth

\* The URB goes back to the endpoint, behind all others.
LEMMA ResubmitIInv == IInv /\ Resubmit => IInv'
<1> SUFFICES ASSUME IInv, Resubmit PROVE IInv'
  OBVIOUS
<1>1. /\ pc = "refill" /\ held' = None /\ pc' = "take"
      /\ UNCHANGED <<head, tail, queued, poisoned, on, sched, ctl, gone, skipped>>
  BY DEF Resubmit, ring
<1>2. /\ held \in Slots /\ None \notin Slots /\ fifo \in Seq(Slots) /\ Len(fifo) \in Nat
      /\ tail \in Slots /\ head \in Slots /\ queued \in 0 .. NDesc
      /\ NDesc \in Nat /\ NDesc > 1
  BY <1>1, NDescAssumption, NoneAssumption DEF IInv, TypeOK, Slots
<1>3. CASE gone \/ held \in poisoned
  <2>1. UNCHANGED fifo
    BY <1>3 DEF Resubmit, Submit
  <2>2. TypeOK' /\ StopGoesOn'
    BY <1>1, <1>2, <2>1 DEF IInv, TypeOK, StopGoesOn
  <2>3. RingOrder'
    BY <1>1, <1>3 DEF IInv, StopGoesOn, RingOrder
  <2> QED BY <1>1, <2>1, <2>2, <2>3, LetGo DEF IInv
<1>4. CASE ~gone /\ held \notin poisoned
  <2>1. fifo' = Append(fifo, held)
    BY <1>4 DEF Resubmit, Submit
  <2>2. /\ fifo' \in Seq(Slots) /\ Len(fifo') = Len(fifo) + 1
        /\ \A k \in 1 .. Len(fifo) : fifo'[k] = fifo[k]
        /\ fifo'[Len(fifo) + 1] = held
    BY <1>2, <2>1, AppendProperties
  <2>3. DOMAIN fifo = 1 .. Len(fifo) /\ DOMAIN fifo' = 1 .. Len(fifo) + 1
    BY <1>2, <2>2
  <2>4. \A k \in DOMAIN fifo' : (k \in DOMAIN fifo /\ fifo'[k] = fifo[k])
                              \/ (k = Len(fifo) + 1 /\ fifo'[k] = held)
    BY <1>2, <2>2, <2>3
  <2>5. TypeOK' /\ HeadIsLast'
    BY <1>1, <1>2, <2>2 DEF IInv, TypeOK, HeadIsLast, Nth
  <2>6. StopGoesOn'
    BY <1>1, <1>4, <2>4 DEF IInv, StopGoesOn
  <2>7. Apart'
    <3>1. \A i \in 0 .. queued - 1 : Nth(i)' = Nth(i) /\ Nth(i) \in Slots
      BY <1>1, <1>2, NthIsInjective DEF Nth
    <3>2. \A j, k \in DOMAIN fifo' : fifo'[j] = fifo'[k] => j = k
      BY <2>4 DEF IInv, Apart
    <3>3. \A k \in DOMAIN fifo' : fifo'[k] # held'
      BY <1>1, <1>2, <2>2
    <3>4. \A k \in DOMAIN fifo' : \A i \in 0 .. queued' - 1 : fifo'[k] # Nth(i)'
      BY <1>1, <2>4, <3>1 DEF IInv, Apart
    <3>5. \A i \in 0 .. queued' - 1 : held' # Nth(i)'
      BY <1>1, <1>2, <3>1
    <3> QED BY <3>2, <3>3, <3>4, <3>5 DEF Apart
  <2>8. RingOrder'
    <3> SUFFICES ASSUME ctl' \in {"up", "park"}, ~gone', ~skipped'
                 PROVE /\ Len(fifo') + queued' + Cardinality({held'} \ {None}) = NDesc
                       /\ \A k \in DOMAIN fifo' : fifo'[k] = (head' + k - 1) % NDesc
                       /\ held' # None => Inc(held') = tail'
      BY DEF RingOrder, Inc
    <3>1. Cardinality({held} \ {None}) = 1 /\ Cardinality({held'} \ {None}) = 0
      BY <1>1, <1>2, HeldCount
    <3>2. /\ Len(fifo) + queued + 1 = NDesc /\ Inc(held) = tail
          /\ \A k \in DOMAIN fifo : fifo[k] = (head + k - 1) % NDesc
      BY <1>1, <1>2, <3>1 DEF IInv, RingOrder
    <3>3. head = IF tail + queued < NDesc THEN tail + queued ELSE tail + queued - NDesc
      <4>1. PICK y \in 0 .. 2 * NDesc - 1 : y = tail + queued
        BY <1>2, <3>2 DEF Slots
      <4>2. y % NDesc = IF y < NDesc THEN y ELSE y - NDesc
        BY Wrap
      <4>3. head = (tail + queued) % NDesc
        BY DEF IInv, HeadIsLast, Nth
      <4>4. tail \in Int /\ queued \in Int
        BY <1>2 DEF Slots
      <4> QED BY <1>2, <4>1, <4>2, <4>3, <4>4
    <3>4. tail = IF held + 1 < NDesc THEN held + 1 ELSE 0
      <4>1. PICK y \in 0 .. 2 * NDesc - 1 : y = held + 1 /\ y <= NDesc
        BY <1>2 DEF Slots
      <4>2. y % NDesc = IF y < NDesc THEN y ELSE y - NDesc
        BY Wrap
      <4>3. tail = (held + 1) % NDesc
        BY <3>2 DEF Inc
      <4> QED BY <1>2, <4>1, <4>2, <4>3
    <3>5. held = (head + Len(fifo)) % NDesc
      <4>1. PICK y \in 0 .. 2 * NDesc - 1 : y = head + Len(fifo)
        BY <1>2, <3>2 DEF Slots
      <4>2. y % NDesc = IF y < NDesc THEN y ELSE y - NDesc
        BY Wrap
      <4>3. held = IF y < NDesc THEN y ELSE y - NDesc
        <5>1. /\ Len(fifo) + queued + 1 = NDesc /\ y = head + Len(fifo)
              /\ tail \in Nat /\ held \in Nat /\ held < NDesc /\ queued \in Nat
              /\ Len(fifo) \in Nat /\ NDesc \in Nat
          BY <1>2, <3>2, <4>1 DEF Slots
        <5>2. CASE held + 1 < NDesc
          BY <3>3, <3>4, <5>1, <5>2
        <5>3. CASE held + 1 = NDesc
          BY <3>3, <3>4, <5>1, <5>3
        <5> QED BY <5>1, <5>2, <5>3
      <4>4. head \in Int /\ Len(fifo) \in Int
        BY <1>2 DEF Slots
      <4> QED BY <4>1, <4>2, <4>3, <4>4
    <3>6. ASSUME NEW k \in DOMAIN fifo' PROVE fifo'[k] = (head' + k - 1) % NDesc
      <4>1. CASE k \in DOMAIN fifo
        BY <1>1, <2>2, <2>3, <3>2, <4>1
      <4>2. CASE k = Len(fifo) + 1
        <5>1. head + (Len(fifo) + 1) - 1 = head + Len(fifo)
          BY <1>2 DEF Slots
        <5> QED BY <1>1, <2>2, <3>5, <4>2, <5>1
      <4> QED BY <2>4, <4>1, <4>2
    <3> QED BY <1>1, <1>2, <2>2, <3>1, <3>2, <3>6
  <2> QED BY <2>5, <2>6, <2>7, <2>8 DEF IInv
<1> QED BY <1>3, <1>4

\* A refill that fails.
LEMMA RefillFailsIInv == IInv /\ RefillFails => IInv'
<1> SUFFICES ASSUME IInv, RefillFails PROVE IInv'
  OBVIOUS
<1>1. /\ pc = "refill" /\ held' = None /\ pc' = "idle" /\ skipped' = TRUE
      /\ UNCHANGED <<head, tail, queued, fifo, poisoned, on, sched, ctl, gone>>
  BY DEF RefillFails, ring
<1>2. TypeOK' /\ StopGoesOn' /\ RingOrder'
  BY <1>1 DEF IInv, TypeOK, StopGoesOn, RingOrder
<1> QED BY <1>1, <1>2, LetGo DEF IInv

\* usb_poison_urb: the URB is not with the endpoint any more.
LEMMA PoisonIInv == ASSUME NEW i \in Slots, IInv, Poison(i) PROVE IInv'
<1>1. /\ ctl = "poison" /\ poisoned' = poisoned \cup {i}
      /\ UNCHANGED <<head, tail, queued, held, pc, on, sched, ctl, gone, skipped>>
  BY DEF Poison, ring, worker
<1>2. fifo \in Seq(Slots) /\ Len(fifo) \in Nat /\ DOMAIN fifo = 1 .. Len(fifo)
  BY DEF IInv, TypeOK
<1>3. \A j, k \in DOMAIN fifo : fifo[j] = fifo[k] => j = k
  BY DEF IInv, Apart
<1>4. /\ fifo' \in Seq(Slots)
      /\ \A j, k \in DOMAIN fifo' : fifo'[j] = fifo'[k] => j = k
      /\ \A k \in DOMAIN fifo' : fifo'[k] # i /\ \E m \in DOMAIN fifo : fifo'[k] = fifo[m]
  <2>1. CASE i \notin Flying /\ UNCHANGED fifo
    BY <1>2, <1>3, <2>1 DEF Flying
  <2>2. ASSUME NEW p \in DOMAIN fifo, fifo[p] = i, fifo' = RemoveAt(fifo, p)
        PROVE /\ fifo' \in Seq(Slots)
              /\ \A j, k \in DOMAIN fifo' : fifo'[j] = fifo'[k] => j = k
              /\ \A k \in DOMAIN fifo' : /\ fifo'[k] # i
                                        /\ \E m \in DOMAIN fifo : fifo'[k] = fifo[m]
    <3>1. /\ fifo' \in Seq(Slots) /\ Len(fifo') = Len(fifo) - 1
          /\ \A k \in 1 .. Len(fifo) - 1 : fifo'[k] = fifo[IF k < p THEN k ELSE k + 1]
      BY <1>2, <2>2, RemoveAtProperties
    <3>2. DOMAIN fifo' = 1 .. Len(fifo) - 1
      BY <3>1
    <3>3. \A k \in DOMAIN fifo' : /\ k < p => fifo'[k] = fifo[k] /\ k \in DOMAIN fifo /\ k # p
                                  /\ ~(k < p) => /\ fifo'[k] = fifo[k + 1]
                                                 /\ k + 1 \in DOMAIN fifo /\ k + 1 # p
      BY <1>2, <3>1, <3>2
    <3>4. ASSUME NEW j \in DOMAIN fifo', NEW k \in DOMAIN fifo', fifo'[j] = fifo'[k]
          PROVE j = k
      <4>1. j \in Int /\ k \in Int /\ p \in Int
        BY <1>2, <3>2
      <4>2. CASE j < p /\ k < p
        BY <1>3, <3>3, <3>4, <4>2
      <4>3. CASE ~(j < p) /\ ~(k < p)
        <5>1. j + 1 = k + 1
          BY <1>3, <3>3, <3>4, <4>3
        <5> QED BY <4>1, <5>1
      <4>4. CASE j < p /\ ~(k < p)
        <5>1. j = k + 1
          BY <1>3, <3>3, <3>4, <4>4
        <5> QED BY <4>1, <4>4, <5>1
      <4>5. CASE ~(j < p) /\ k < p
        <5>1. j + 1 = k
          BY <1>3, <3>3, <3>4, <4>5
        <5> QED BY <4>1, <4>5, <5>1
      <4> QED BY <4>2, <4>3, <4>4, <4>5
    <3>5. \A k \in DOMAIN fifo' : fifo'[k] # i /\ \E m \in DOMAIN fifo : fifo'[k] = fifo[m]
      BY <1>3, <2>2, <3>3
    <3> QED BY <3>1, <3>4, <3>5
  <2> QED BY <2>1, <2>2 DEF Poison
<1>5. TypeOK'
  BY <1>1, <1>4 DEF IInv, TypeOK
<1>6. HeadIsLast'
  BY <1>1 DEF IInv, HeadIsLast, Nth
<1>7. Apart'
  BY <1>1, <1>4 DEF IInv, Apart, Nth
<1>8. StopGoesOn'
  BY <1>1, <1>4 DEF IInv, StopGoesOn
<1>9. RingOrder'
  BY <1>1 DEF RingOrder
<1> QED BY <1>5, <1>6, <1>7, <1>8, <1>9 DEF IInv

\* The indices are reset with the ring at rest: submit_rx_buffers.
LEMMA RefillIInv == IInv /\ (Resume \/ ResumeFails \/ Probe) => IInv'
<1> SUFFICES ASSUME IInv, Resume \/ ResumeFails \/ Probe PROVE IInv'
  OBVIOUS
<1>1. /\ head' = 0 /\ tail' = 0 /\ queued' = 0 /\ poisoned' = {}
      /\ UNCHANGED <<held, pc>> /\ ctl \in {"stopped", "failed"}
  BY DEF Resume, ResumeFails, Probe, Refill, worker
<1>2. /\ NDesc \in Nat /\ NDesc > 1 /\ 0 \in Slots /\ None \notin Slots
      /\ held = None /\ pc = "idle"
  BY <1>1, NDescAssumption, NoneAssumption DEF IInv, TypeOK, StopGoesOn, Slots
<1>3. PICK n \in 0 .. NDesc : /\ fifo' = [k \in 1 .. n |-> k - 1]
                              /\ ~ResumeFails => n = NDesc
  BY <1>2 DEF Resume, ResumeFails, Probe, Refill
<1>4. /\ fifo' \in Seq(Slots) /\ Len(fifo') = n /\ DOMAIN fifo' = 1 .. n
      /\ \A k \in DOMAIN fifo' : fifo'[k] = k - 1 /\ k \in 1 .. NDesc
  BY <1>2, <1>3 DEF Slots
<1>5. /\ on' \in BOOLEAN /\ sched' \in BOOLEAN /\ gone' \in BOOLEAN /\ skipped' \in BOOLEAN
      /\ ctl' \in {"up", "failed"}
      /\ ctl' = "failed" => on' = FALSE /\ skipped' = TRUE
      /\ ~ResumeFails \/ skipped' = TRUE
  BY <1>1 DEF IInv, TypeOK, StopGoesOn, Resume, ResumeFails, Probe, worker
<1>6. TypeOK'
  <2>1. queued' \in 0 .. NDesc
    BY <1>1, <1>2
  <2> QED BY <1>1, <1>2, <1>4, <1>5, <2>1 DEF TypeOK
<1>7. HeadIsLast'
  <2>1. PICK y \in 0 .. 2 * NDesc - 1 : y = 0
    BY <1>2
  <2>2. y % NDesc = IF y < NDesc THEN y ELSE y - NDesc
    BY Wrap
  <2> QED BY <1>1, <1>2, <2>1, <2>2 DEF HeadIsLast, Nth
<1>8. Apart'
  <2>1. \A j, k \in DOMAIN fifo' : fifo'[j] = fifo'[k] => j = k
    BY <1>4
  <2>2. \A k \in DOMAIN fifo' : fifo'[k] # held'
    BY <1>1, <1>2, <1>4
  <2>3. 0 .. queued' - 1 = {}
    BY <1>1
  <2> QED BY <2>1, <2>2, <2>3 DEF Apart
<1>9. StopGoesOn'
  BY <1>1, <1>2, <1>5 DEF StopGoesOn
<1>10. RingOrder'
  <2> SUFFICES ASSUME ~skipped'
               PROVE /\ Len(fifo') + queued' + Cardinality({held'} \ {None}) = NDesc
                     /\ \A k \in DOMAIN fifo' : fifo'[k] = (head' + k - 1) % NDesc
                     /\ held' # None => Inc(held') = tail'
    BY DEF RingOrder, Inc
  <2>1. n = NDesc
    BY <1>3, <1>5
  <2>2. Cardinality({held'} \ {None}) = 0
    BY <1>1, <1>2, HeldCount
  <2>3. ASSUME NEW k \in DOMAIN fifo' PROVE fifo'[k] = (head' + k - 1) % NDesc
    <3>1. PICK y \in 0 .. 2 * NDesc - 1 : y = k - 1 /\ y < NDesc
      BY <1>2, <1>4
    <3>2. y % NDesc = IF y < NDesc THEN y ELSE y - NDesc
      BY Wrap
    <3> QED BY <1>1, <1>2, <1>4, <3>1, <3>2
  <2> QED BY <1>1, <1>2, <1>4, <2>1, <2>2, <2>3
<1> QED BY <1>6, <1>7, <1>8, <1>9, <1>10 DEF IInv

LEMMA NextIInv == IInv /\ [Next]_vars => IInv'
<1> SUFFICES ASSUME IInv, [Next]_vars PROVE IInv'
  OBVIOUS
<1>1. CASE UNCHANGED vars
  <2>1. UNCHANGED <<head, tail, queued, fifo, poisoned, held, pc, on, sched, ctl, gone, skipped>>
    BY <1>1 DEF vars, ring, worker
  <2> QED BY <2>1 DEF IInv, TypeOK, HeadIsLast, Apart, StopGoesOn, RingOrder, Nth, Inc
<1>2. CASE Worker
  BY <1>2, MovesIInv, TakeNextIInv, ResubmitIInv, RefillFailsIInv DEF Worker
<1>3. CASE Control
  BY <1>3, MovesIInv, PoisonIInv, RefillIInv DEF Control
<1>4. CASE Complete \/ CompleteQuietly \/ Stop \/ Probe \/ Unplug
  BY <1>4, CompleteIInv, CompleteQuietlyIInv, MovesIInv, RefillIInv
<1> QED BY <1>1, <1>2, <1>3, <1>4 DEF Next

LEMMA Invariance == Spec => []IInv
  BY InitIInv, NextIInv, PTL DEF Spec

-----------------------------------------------------------------------------
(* The theorems.                                                            *)

\* For rings of every length, and whatever fails: complete_rx, process_rx_queue, stop_rx
\* and resume_rx never give an URB two owners, and while nothing fails the endpoint
\* holds all URBs that do not wait for the worker, in the order complete_rx expects.
THEOREM UrbsHaveOneOwner == Spec => []OneOwner
<1>1. IInv => OneOwner
  <2> SUFFICES ASSUME IInv PROVE OneOwner
    OBVIOUS
  <2>1. TypeOK /\ RingOrder /\ Apart
    BY DEF IInv
  <2>2. \A w \in Waiting : \E i \in 0 .. queued - 1 : w = Nth(i)
    BY <2>1, NDescAssumption DEF Waiting, Slots, TypeOK
  <2>3. \A f \in Flying : \E k \in DOMAIN fifo : f = fifo[k]
    BY DEF Flying
  <2>4. \A j, k \in DOMAIN fifo : j # k => fifo[j] # fifo[k]
    BY <2>1 DEF Apart
  <2>5. Flying \cap (Waiting \cup {held}) = {} /\ held \notin Waiting
    BY <2>1, <2>2, <2>3 DEF Apart
  <2> QED BY <2>1, <2>4, <2>5 DEF OneOwner
<1> QED BY <1>1, Invariance, PTL

-----------------------------------------------------------------------------
(* Every step is one of the queue, or leaves it alone.                      *)

\* The q slots from t on, in order.
Line(t, q) == [k \in 1 .. q |-> (t + (k - 1)) % NDesc]

LEMMA InboxIsLine == Inbox = Line(tail, queued) /\ Inbox' = Line(tail', queued')
  BY DEF Inbox, Line, Nth

LEMMA InboxFacts ==
  ASSUME TypeOK
  PROVE /\ Inbox \in Seq(Slots) /\ Len(Inbox) = queued /\ queued \in Nat
        /\ \A k \in 1 .. queued : Inbox[k] = Nth(k - 1)
<1>1. queued \in Nat /\ tail \in Slots /\ \A k \in 1 .. queued : k - 1 \in 0 .. NDesc
  BY NDescAssumption DEF TypeOK
<1>2. Inbox \in [1 .. queued -> Slots]
  BY <1>1, NthIsInjective DEF Inbox
<1> QED BY <1>1, <1>2 DEF Inbox

\* complete_rx puts an accepted URB at the end of the line ...
LEMMA LineGrows ==
  ASSUME TypeOK, HeadIsLast, head \in Slots, queued' = queued + 1, tail' = tail
  PROVE Inbox' = Append(Inbox, head)
<1>1. /\ Inbox \in Seq(Slots) /\ Len(Inbox) = queued /\ queued \in Nat
      /\ \A k \in 1 .. queued : Inbox[k] = Nth(k - 1)
  BY InboxFacts
<1>2. Inbox' = [k \in 1 .. queued + 1 |-> Nth(k - 1)]
  BY InboxIsLine DEF Line, Nth
<1>3. /\ Append(Inbox, head) \in Seq(Slots) /\ Len(Append(Inbox, head)) = queued + 1
      /\ \A k \in 1 .. queued + 1 : Append(Inbox, head)[k] = IF k = queued + 1 THEN head ELSE Inbox[k]
  BY <1>1
<1>4. ASSUME NEW k \in 1 .. queued + 1
      PROVE Nth(k - 1) = IF k = queued + 1 THEN head ELSE Inbox[k]
  <2>1. CASE k = queued + 1
    BY <1>1, <2>1 DEF HeadIsLast
  <2>2. CASE k # queued + 1
    BY <1>1, <2>2
  <2> QED BY <2>1, <2>2
<1>5. Inbox' \in Seq(Slots) /\ Len(Inbox') = queued + 1
  <2>1. ASSUME NEW k \in 1 .. queued + 1 PROVE Nth(k - 1) \in Slots
    <3>1. CASE k = queued + 1
      BY <1>4, <3>1
    <3>2. CASE k # queued + 1
      <4>1. k \in 1 .. queued
        BY <1>1, <3>2
      <4>2. Inbox[k] \in Slots
        BY <1>1, <4>1
      <4> QED BY <1>4, <3>2, <4>2
    <3> QED BY <3>1, <3>2
  <2>2. Inbox' \in [1 .. queued + 1 -> Slots]
    BY <1>2, <2>1
  <2> QED BY <1>1, <2>2
<1>6. \A k \in 1 .. queued + 1 : Inbox'[k] = Append(Inbox, head)[k]
  BY <1>2, <1>3, <1>4
<1> QED BY <1>3, <1>5, <1>6

\* ... and the worker takes the first.
LEMMA LineShrinks ==
  ASSUME TypeOK, queued > 0, queued' = queued - 1, tail' = Inc(tail)
  PROVE Inbox # <<>> /\ Head(Inbox) = tail /\ Inbox' = Tail(Inbox)
<1>1. /\ Inbox \in Seq(Slots) /\ Len(Inbox) = queued /\ queued \in Nat
      /\ \A k \in 1 .. queued : Inbox[k] = Nth(k - 1)
  BY InboxFacts
<1>2. tail \in Slots /\ queued \in 1 .. NDesc /\ NDesc \in Nat
  BY NDescAssumption DEF TypeOK
<1>3. Inbox # <<>> /\ Head(Inbox) = tail
  <2>1. Inbox[1] = tail
    BY <1>1, <1>2, NthIsInjective
  <2> QED BY <1>1, <1>2, <2>1
<1>4. Inbox' = [k \in 1 .. queued - 1 |-> (Inc(tail) + (k - 1)) % NDesc]
  BY InboxIsLine DEF Line
<1>5. /\ Tail(Inbox) \in Seq(Slots) /\ Len(Tail(Inbox)) = queued - 1
      /\ \A k \in 1 .. queued - 1 : Tail(Inbox)[k] = Inbox[k + 1] /\ Inbox[k + 1] \in Slots
  BY <1>1, <1>3
<1>6. ASSUME NEW k \in 1 .. queued - 1
      PROVE (Inc(tail) + (k - 1)) % NDesc = Inbox[k + 1]
  <2>1. k - 1 \in 0 .. NDesc - 1 /\ (k - 1) + 1 = k /\ k + 1 \in 1 .. queued /\ (k + 1) - 1 = k
    BY <1>2
  <2>2. (Inc(tail) + (k - 1)) % NDesc = Nth((k - 1) + 1)
    BY <1>2, <2>1, NthIsInjective
  <2>3. Inbox[k + 1] = Nth((k + 1) - 1)
    BY <1>1, <2>1
  <2> QED BY <2>1, <2>2, <2>3
<1>7. Inbox' \in Seq(Slots) /\ Len(Inbox') = queued - 1
  <2>1. Inbox' \in [1 .. queued - 1 -> Slots]
    BY <1>4, <1>5, <1>6
  <2> QED BY <1>2, <2>1
<1>8. \A k \in 1 .. queued - 1 : Inbox'[k] = Tail(Inbox)[k]
  BY <1>4, <1>5, <1>6
<1> QED BY <1>3, <1>5, <1>7, <1>8

\* Steps that move no buffer may only end the calm.
LEMMA KeepIsLose ==
  ASSUME UNCHANGED <<tail, queued, fifo, held>>, (ctl' = "stopped") = (ctl = "stopped"),
         Steady' = Steady \/ ~Steady'
  PROVE Fifo!Lose \/ UNCHANGED Fifo!vars
<1>1. Inbox' = Inbox
  BY InboxIsLine
<1>2. CASE Steady' = Steady
  BY <1>1, <1>2 DEF Fifo!vars
<1>3. CASE ~Steady'
  BY <1>1, <1>3 DEF Fifo!Lose
<1> QED BY <1>2, <1>3

LEMMA CompleteIsFifo ==
  ASSUME IInv, Complete \/ CompleteQuietly
  PROVE Fifo!Deliver \/ Fifo!Lose
<1>1. /\ fifo # <<>> /\ fifo' = Tail(fifo)
      /\ UNCHANGED <<tail, held, ctl, gone>>
  BY DEF Complete, CompleteQuietly, ring, worker
<1>2. /\ fifo \in Seq(Slots) /\ Head(fifo) = fifo[1] /\ 1 \in DOMAIN fifo /\ fifo[1] \in Slots
  BY <1>1, TailOfFifo DEF IInv, TypeOK
<1>3. CASE Complete /\ Accept(Head(fifo))
  <2>1. Head(fifo) = head /\ queued' = queued + 1 /\ UNCHANGED skipped
    BY <1>3 DEF Complete, Accept
  <2>2. Inbox' = Append(Inbox, Head(fifo))
    BY <1>1, <2>1, LineGrows DEF IInv, TypeOK
  <2>3. Steady' = Steady
    BY <1>1, <2>1 DEF Steady
  <2> QED BY <1>1, <2>2, <2>3 DEF Fifo!Deliver
<1>4. CASE (Complete /\ Mismatch(Head(fifo))) \/ CompleteQuietly
  <2>1. UNCHANGED queued
    BY <1>4 DEF Mismatch, CompleteQuietly, ring
  <2>2. Inbox' = Inbox
    BY <1>1, <2>1, InboxIsLine
  <2>3. ~Steady'
    <3>1. CASE CompleteQuietly
      BY <3>1 DEF CompleteQuietly, Steady
    <3>2. CASE Complete /\ Mismatch(Head(fifo))
      <4>1. fifo[1] # head /\ Steady' = Steady
        BY <1>1, <1>2, <3>2 DEF Complete, Mismatch, Steady
      <4>2. head = (head + 1 - 1) % NDesc
        <5>1. PICK y \in 0 .. 2 * NDesc - 1 : y = head /\ y < NDesc
          BY NDescAssumption DEF IInv, TypeOK, Slots
        <5>2. y % NDesc = IF y < NDesc THEN y ELSE y - NDesc
          BY Wrap
        <5>3. head + 1 - 1 = head
          BY NDescAssumption DEF IInv, TypeOK, Slots
        <5> QED BY <5>1, <5>2, <5>3
      <4> QED BY <1>2, <4>1, <4>2 DEF IInv, RingOrder, Steady
    <3> QED BY <1>4, <3>1, <3>2
  <2>4. fifo' = Fifo!RemoveAt(fifo, 1)
    <3>1. fifo' = RemoveAt(fifo, 1)
      <4>1. /\ RemoveAt(fifo, 1) \in Seq(Slots) /\ Len(RemoveAt(fifo, 1)) = Len(fifo) - 1
            /\ \A k \in 1 .. Len(fifo) - 1 : RemoveAt(fifo, 1)[k] = fifo[IF k < 1 THEN k ELSE k + 1]
        BY <1>2, RemoveAtProperties
      <4>2. /\ fifo' \in Seq(Slots) /\ Len(fifo') = Len(fifo) - 1
            /\ \A k \in 1 .. Len(fifo) - 1 : fifo'[k] = fifo[k + 1]
        BY <1>1, <1>2, TailOfFifo
      <4> QED BY <4>1, <4>2
    <3> QED BY <3>1 DEF RemoveAt, Fifo!RemoveAt
  <2> QED BY <1>1, <1>2, <2>2, <2>3, <2>4 DEF Fifo!Lose
<1> QED BY <1>3, <1>4 DEF Complete

LEMMA WorkerIsFifo ==
  ASSUME IInv, Worker
  PROVE Fifo!Take \/ Fifo!PutBack \/ UNCHANGED Fifo!vars
<1>1. CASE Start \/ TakeNone
  <2>1. UNCHANGED <<tail, queued, fifo, held, ctl, gone, skipped>>
    BY <1>1 DEF Start, TakeNone, ring
  <2>2. Inbox' = Inbox /\ Steady' = Steady
    BY <2>1, InboxIsLine DEF Steady
  <2> QED BY <2>1, <2>2 DEF Fifo!vars
<1>2. CASE TakeNext
  <2>1. /\ UNCHANGED <<fifo, ctl, gone, skipped>>
        /\ held = None /\ held' = tail /\ queued > 0 /\ queued' = queued - 1 /\ tail' = Inc(tail)
        /\ ctl # "stopped"
    BY <1>2 DEF TakeNext, IInv, TypeOK, StopGoesOn
  <2>2. Inbox # <<>> /\ Head(Inbox) = tail /\ Inbox' = Tail(Inbox)
    BY <2>1, LineShrinks DEF IInv
  <2>3. Steady' = Steady
    BY <2>1 DEF Steady
  <2> QED BY <2>1, <2>2, <2>3 DEF Fifo!Take
<1>3. CASE Resubmit
  <2>1. UNCHANGED <<tail, queued, ctl, gone, skipped>> /\ held # None /\ held' = None /\ Submit(held)
    BY <1>3 DEF Resubmit, ring, IInv, TypeOK
  <2>2. Inbox' = Inbox /\ Steady' = Steady
    BY <2>1, InboxIsLine DEF Steady
  <2>3. CASE gone
    BY <2>1, <2>2, <2>3 DEF Submit, Steady, Fifo!PutBack
  <2>4. CASE ~gone
    <3>1. poisoned = {}
      BY <1>3 DEF Resubmit, IInv, TypeOK, StopGoesOn
    <3>2. fifo' = Append(fifo, held)
      BY <2>1, <2>4, <3>1 DEF Submit
    <3> QED BY <2>1, <2>2, <3>2 DEF Fifo!PutBack
  <2> QED BY <2>3, <2>4
<1>4. CASE RefillFails
  <2>1. UNCHANGED <<tail, queued, fifo, ctl>> /\ held # None /\ held' = None /\ ~Steady'
    BY <1>4 DEF RefillFails, ring, IInv, TypeOK, Steady
  <2>2. Inbox' = Inbox
    BY <2>1, InboxIsLine
  <2> QED BY <2>1, <2>2 DEF Fifo!PutBack
<1> QED BY <1>1, <1>2, <1>3, <1>4 DEF Worker

LEMMA PoisonIsLose ==
  ASSUME IInv, NEW i \in Slots, Poison(i)
  PROVE Fifo!Lose
<1>1. UNCHANGED <<tail, queued, held, ctl>> /\ ~Steady'
  BY DEF Poison, ring, worker, Steady
<1>2. Inbox' = Inbox
  BY <1>1, InboxIsLine
<1>3. fifo' = fifo \/ \E k \in DOMAIN fifo : fifo' = Fifo!RemoveAt(fifo, k)
  BY DEF Poison, RemoveAt, Fifo!RemoveAt
<1> QED BY <1>1, <1>2, <1>3 DEF Fifo!Lose

\* When stop_rx has returned the endpoint holds no URB of the queue and the worker is
\* not in it, so resume_rx may fill the ring anew.
LEMMA StoppedRingIsQuiet ==
  ASSUME IInv, ctl = "stopped" \/ (ctl = "poison" /\ poisoned = Slots)
  PROVE fifo = <<>> /\ held = None
<1>1. fifo \in Seq(Slots) /\ \A k \in DOMAIN fifo : fifo[k] \notin Slots
  BY DEF IInv, StopGoesOn, TypeOK
<1>2. fifo = <<>>
  <2>1. Len(fifo) \in Nat /\ \A k \in 1 .. Len(fifo) : fifo[k] \in Slots
    BY <1>1
  <2>2. Len(fifo) = 0
    BY <1>1, <2>1
  <2> QED BY <1>1, <2>2, EmptySeq
<1>3. pc = "idle"
  BY DEF IInv, StopGoesOn
<1> QED BY <1>2, <1>3 DEF IInv, TypeOK

\* What alloc_rx_queue and resume_rx submit is a batch, all of the ring or some of it.
LEMMA FillIsBatch ==
  ASSUME NEW n \in 0 .. NDesc, NEW f, f = [k \in 1 .. n |-> k - 1]
  PROVE Fifo!Batch(f) /\ (n = NDesc => Fifo!ToSet(f) = Slots)
<1>1. NDesc \in Nat /\ n \in Nat
  BY NDescAssumption
<1>2. DOMAIN f = 1 .. n /\ \A k \in 1 .. n : f[k] = k - 1 /\ k - 1 \in Slots
  BY <1>1 DEF Slots
<1>3. \A j, k \in DOMAIN f : f[j] = f[k] => j = k
  BY <1>1, <1>2
<1>4. Fifo!ToSet(f) \subseteq Slots
  BY <1>2 DEF Fifo!ToSet
<1>5. ASSUME n = NDesc, NEW i \in Slots PROVE i \in Fifo!ToSet(f)
  <2>1. i + 1 \in 1 .. n /\ (i + 1) - 1 = i
    BY <1>1, <1>5 DEF Slots
  <2>2. f[i + 1] = i
    BY <1>2, <2>1
  <2> QED BY <1>2, <2>1, <2>2 DEF Fifo!ToSet
<1> QED BY <1>3, <1>4, <1>5 DEF Fifo!Batch

\* A sequence over the empty range is empty.
LEMMA EmptyLine == \A t : Line(t, 0) = <<>>
  BY DEF Line

LEMMA FillIsFill ==
  ASSUME IInv, Resume \/ ResumeFails \/ Probe
  PROVE Fifo!Fill
<1>1. /\ tail' = 0 /\ queued' = 0 /\ UNCHANGED held
      /\ pc = "idle" /\ ctl \in {"stopped", "failed"} /\ ctl' # "stopped"
      /\ ResumeFails => skipped'
  BY DEF Resume, ResumeFails, Probe, Refill, worker, IInv, StopGoesOn
<1>2. PICK n \in 0 .. NDesc : fifo' = [k \in 1 .. n |-> k - 1] /\ (~ResumeFails => n = NDesc)
  BY NDescAssumption DEF Resume, ResumeFails, Probe, Refill
<1>3. fifo = <<>> /\ held = None
  <2>1. CASE Probe
    BY <1>1, <2>1 DEF Probe, IInv, TypeOK
  <2>2. CASE Resume \/ ResumeFails
    BY <2>2, StoppedRingIsQuiet DEF Resume, ResumeFails
  <2> QED BY <2>1, <2>2
<1>4. Fifo!Batch(fifo') /\ (n = NDesc => Fifo!ToSet(fifo') = Slots)
  BY <1>2, FillIsBatch
<1>5. Steady' => n = NDesc
  BY <1>1, <1>2 DEF Steady
<1>6. Inbox' = <<>>
  BY <1>1, InboxIsLine, EmptyLine
<1> QED BY <1>1, <1>3, <1>4, <1>5, <1>6 DEF Fifo!Fill

LEMMA ControlIsFifo ==
  ASSUME IInv, Stop \/ Parked \/ Stopped \/ Unplug
  PROVE Fifo!Lose \/ Fifo!Stop \/ UNCHANGED Fifo!vars
<1>1. CASE Stop \/ Parked \/ Unplug
  <2>1. /\ UNCHANGED <<tail, queued, fifo, held>>
        /\ (ctl' = "stopped") = (ctl = "stopped")
        /\ Steady' = Steady \/ ~Steady'
    <3>1. CASE Stop
      BY <3>1 DEF Stop, ring, Steady, IInv, StopGoesOn
    <3>2. CASE Parked
      BY <3>2 DEF Parked, ring, Steady
    <3>3. CASE Unplug
      BY <3>3 DEF Unplug, ring, worker, Steady
    <3> QED BY <1>1, <3>1, <3>2, <3>3
  <2> QED BY <2>1, KeepIsLose
<1>2. CASE Stopped
  <2>1. UNCHANGED <<tail, queued, fifo, held>> /\ ctl = "poison" /\ ctl' = "stopped" /\ poisoned = Slots
    BY <1>2 DEF Stopped, ring, worker
  <2>2. fifo = <<>> /\ held = None
    BY <2>1, StoppedRingIsQuiet
  <2>3. Inbox' = Inbox /\ Steady' = Steady
    BY <2>1, InboxIsLine DEF Steady
  <2> QED BY <2>1, <2>2, <2>3 DEF Fifo!Stop
<1> QED BY <1>1, <1>2

\* The ring of every length, whatever fails, keeps the promise of RxFifo: the worker
\* gets the buffers in the order of their completion and each has one owner, none is
\* lost before something goes wrong, and stop_rx leaves none with endpoint or worker.
THEOREM RingKeepsOrder == Spec => KeepsOrder
<1>1. Init => Fifo!Init
  <2> SUFFICES ASSUME Init PROVE Fifo!Init
    OBVIOUS
  <2>1. NDesc \in 0 .. NDesc /\ fifo = [k \in 1 .. NDesc |-> k - 1] /\ queued = 0
    BY NDescAssumption DEF Init
  <2>2. Fifo!Batch(fifo) /\ Fifo!ToSet(fifo) = Slots
    BY <2>1, FillIsBatch
  <2>3. Inbox = <<>>
    BY <2>1, InboxIsLine, EmptyLine
  <2> QED BY <2>2, <2>3 DEF Init, Fifo!Init, Steady
<1>2. IInv /\ [Next]_vars => [Fifo!Next]_(Fifo!vars)
  <2> SUFFICES ASSUME IInv, [Next]_vars PROVE [Fifo!Next]_(Fifo!vars)
    OBVIOUS
  <2>1. CASE UNCHANGED vars
    <3>1. UNCHANGED <<tail, queued, fifo, held, ctl, gone, skipped>>
      BY <2>1 DEF vars, ring, worker
    <3>2. Inbox' = Inbox /\ Steady' = Steady
      BY <3>1, InboxIsLine DEF Steady
    <3> QED BY <3>1, <3>2 DEF Fifo!vars
  <2>2. CASE Complete \/ CompleteQuietly
    BY <2>2, CompleteIsFifo DEF Fifo!Next
  <2>3. CASE Worker
    BY <2>3, WorkerIsFifo DEF Fifo!Next
  <2>4. CASE Stop \/ Parked \/ Stopped \/ Unplug
    BY <2>4, ControlIsFifo DEF Fifo!Next
  <2>5. ASSUME NEW i \in Slots, Poison(i) PROVE [Fifo!Next]_(Fifo!vars)
    BY <2>5, PoisonIsLose DEF Fifo!Next
  <2>6. CASE Resume \/ ResumeFails \/ Probe
    BY <2>6, FillIsFill DEF Fifo!Next
  <2> QED BY <2>1, <2>2, <2>3, <2>4, <2>5, <2>6 DEF Next, Control
<1> QED BY <1>1, <1>2, Invariance, PTL DEF Spec, KeepsOrder, Fifo!Spec

-----------------------------------------------------------------------------
(* The command channel.                                                    *)

Held == {"send", "wait", "ok", "failed"}

Steps == {"idle", "dev", "mark", "purge", "stop", "clear", "resume", "load", "loading",
          "hung"}

\* mcu.mutex keeps the others out from the numbering to the return.
MutexInv ==
  \A c \in Senders : /\ at[c] \in Held => mcuLock = c
                     /\ at[c] = "wait" => seq = msgSeq

\* The number of the command sent a commands before number m.
Back(m, a) == IF a < m THEN m - a ELSE m - a + Cycle

\* The number of an event tells its age up to a cycle, and only the command that
\* is being waited for is the last one.
Fits(r, m, p) ==
  /\ m # 0
  /\ r.age < Cycle => r.seq = Back(m, r.age)
  /\ \A c \in Senders : p[c] = "wait" /\ r.age = 0 => r.of = c

EventsFit ==
  /\ \A r \in fw : Fits(r, msgSeq, at)
  /\ \A i \in DOMAIN resQ : Fits(resQ[i], msgSeq, at)

McuInv == McuTypeOK /\ MutexInv /\ EventsFit

-----------------------------------------------------------------------------
(* Numbers and events.                                                     *)

LEMMA CycleIsNat == Cycle \in Nat /\ Cycle > 1 /\ NumSeqs = Cycle + 1
  BY SeqAssumption DEF Cycle

\* The numbers go round without 0.
LEMMA NextSeqGoesOn ==
  ASSUME msgSeq \in 0 .. Cycle
  PROVE /\ NextSeq \in 1 .. Cycle
        /\ NextSeq = IF msgSeq = Cycle THEN 1 ELSE msgSeq + 1
<1>1. CASE msgSeq = Cycle
  <2>1. (msgSeq + 1) % NumSeqs = 0
    BY <1>1, CycleIsNat
  <2> QED BY <1>1, <2>1, CycleIsNat DEF NextSeq
<1>2. CASE msgSeq < Cycle
  <2>1. (msgSeq + 1) % NumSeqs = msgSeq + 1
    BY <1>2, CycleIsNat
  <2> QED BY <1>2, <2>1, CycleIsNat DEF NextSeq
<1> QED BY <1>1, <1>2, CycleIsNat

\* A command more is sent: the others are one command older.
LEMMA OlderIsEvent ==
  \A r \in Event : /\ Older(r) \in Event
                   /\ Older(r).seq = r.seq /\ Older(r).of = r.of
                   /\ Older(r).age = IF r.age < Cycle THEN r.age + 1 ELSE r.age
  BY CycleIsNat DEF Event, Older

LEMMA FitsOlder ==
  ASSUME NEW m \in 1 .. Cycle, NEW n, n = IF m = Cycle THEN 1 ELSE m + 1,
         NEW p, NEW q, NEW r \in Event, Fits(r, m, p)
  PROVE Fits(Older(r), n, q)
<1>1. /\ Older(r).seq = r.seq /\ r.age \in 0 .. Cycle /\ n \in 1 .. Cycle
      /\ Older(r).age = IF r.age < Cycle THEN r.age + 1 ELSE r.age
  BY OlderIsEvent, CycleIsNat DEF Event
<1>2. Older(r).age # 0 /\ n # 0
  BY <1>1, CycleIsNat
<1>3. ASSUME Older(r).age < Cycle PROVE Older(r).seq = Back(n, Older(r).age)
  <2>1. r.age < Cycle /\ Older(r).age = r.age + 1 /\ r.seq = Back(m, r.age)
    BY <1>1, <1>3, CycleIsNat DEF Fits
  <2>2. Back(n, r.age + 1) = Back(m, r.age)
    BY <1>1, <1>3, <2>1, CycleIsNat DEF Back
  <2> QED BY <1>1, <2>1, <2>2
<1> QED BY <1>2, <1>3 DEF Fits

\* Nothing is sent: an event stays what it was, but for the owner that has left.
LEMMA FitsKept ==
  ASSUME NEW m, NEW p, NEW q, NEW r, NEW t, Fits(r, m, p), t.seq = r.seq, t.age = r.age,
         \A c \in Senders : q[c] = "wait" => p[c] = "wait" /\ t.of = r.of
  PROVE Fits(t, m, q)
  BY DEF Fits

LEMMA LeftIsEvent ==
  \A r \in Event : \A c \in Senders :
     Left(c, r) \in Event /\ Left(c, r).seq = r.seq /\ Left(c, r).age = r.age
  BY DEF Event, Left

\* Mapping an operator over the queue.
LEMMA QueueTypes ==
  ASSUME NEW q \in Seq(Event)
  PROVE /\ DOMAIN q = 1 .. Len(q) /\ Len(q) \in Nat
        /\ \A i \in DOMAIN q : q[i] \in Event
        /\ q # <<>> => /\ Head(q) = q[1] /\ 1 \in DOMAIN q /\ Tail(q) \in Seq(Event)
                       /\ \A i \in DOMAIN Tail(q) : i + 1 \in DOMAIN q /\ Tail(q)[i] = q[i + 1]
<1>1. DOMAIN q = 1 .. Len(q) /\ Len(q) \in Nat /\ \A i \in DOMAIN q : q[i] \in Event
  OBVIOUS
<1>2. ASSUME q # <<>>
      PROVE /\ Head(q) = q[1] /\ 1 \in DOMAIN q /\ Tail(q) \in Seq(Event)
            /\ \A i \in DOMAIN Tail(q) : i + 1 \in DOMAIN q /\ Tail(q)[i] = q[i + 1]
  <2>1. Tail(q) \in Seq(Event) /\ Len(Tail(q)) = Len(q) - 1 /\ Len(q) > 0
    BY <1>1, <1>2, HeadTailProperties, EmptySeq
  <2>2. \A i \in 1 .. Len(Tail(q)) : Tail(q)[i] = q[i + 1]
    BY <1>2, HeadTailProperties
  <2>3. DOMAIN Tail(q) = 1 .. Len(q) - 1
    BY <2>1
  <2> QED BY <1>1, <1>2, <2>1, <2>2, <2>3
<1> QED BY <1>1, <1>2

LEMMA McuInitInv == McuInit => McuInv
<1> SUFFICES ASSUME McuInit PROVE McuInv
  OBVIOUS
<1>1. resQ \in Seq(Event) /\ DOMAIN resQ = {}
  BY DEF McuInit
<1>2. msgSeq \in 0 .. Cycle /\ seq \in 0 .. Cycle /\ tries \in 0 .. Tries
  BY CycleIsNat, BoundAssumption DEF McuInit
<1>3. McuTypeOK
  BY <1>1, <1>2 DEF McuInit, McuTypeOK
<1>4. MutexInv
  BY DEF McuInit, MutexInv, Held
<1>5. EventsFit
  BY <1>1 DEF McuInit, EventsFit
<1> QED BY <1>3, <1>4, <1>5 DEF McuInv

-----------------------------------------------------------------------------
(* The steps.                                                              *)

\* The owner of the mutex is the only one in its section.
LEMMA Alone ==
  ASSUME McuInv, NEW c \in Senders, at[c] \in Held
  PROVE mcuLock = c /\ \A d \in Senders : d # c => at[d] \notin Held
  BY DEF McuInv, MutexInv

\* Nothing is sent and nobody begins to wait.
LEMMA NothingSent ==
  ASSUME McuInv, UNCHANGED <<msgSeq, seq>>, fw' \subseteq fw,
         \A c \in Senders : at'[c] = "wait" => at[c] = "wait",
         \A i \in DOMAIN resQ' : \/ resQ'[i] \in fw
                                 \/ \E j \in DOMAIN resQ : resQ'[i] = resQ[j]
  PROVE EventsFit' /\ \A c \in Senders : at'[c] = "wait" => seq' = msgSeq'
<1>1. \A r : Fits(r, msgSeq, at) => Fits(r, msgSeq', at')
  BY DEF Fits
<1>2. \A r \in fw' : Fits(r, msgSeq', at')
  BY <1>1 DEF McuInv, EventsFit
<1>3. \A i \in DOMAIN resQ' : Fits(resQ'[i], msgSeq', at')
  BY <1>1 DEF McuInv, EventsFit
<1> QED BY <1>2, <1>3 DEF McuInv, MutexInv, EventsFit

LEMMA CallInv == ASSUME McuInv, NEW c \in Senders, Call(c) \/ Lock(c) \/ Return(c) PROVE McuInv'
<1>1. UNCHANGED <<msgSeq, seq, fw, resQ, rx, wanted, phase, mcuReset, full, step, tries>>
  BY DEF Call, Lock, Return, reset
<1>2. PICK to \in {"lock", "send", "idle"} : at' = [at EXCEPT ![c] = to]
  BY DEF Call, Lock, Return, Goto
<1>3. at \in [Senders -> {"idle", "lock", "send", "wait", "ok", "failed"}]
  BY DEF McuInv, McuTypeOK
<1>4. \A d \in Senders : at'[d] = IF d = c THEN to ELSE at[d]
  BY <1>2, <1>3
<1>5. EventsFit' /\ \A d \in Senders : at'[d] = "wait" => seq' = msgSeq'
  BY <1>1, <1>4, NothingSent
<1>6. McuTypeOK'
  BY <1>1, <1>2 DEF McuInv, McuTypeOK, Call, Lock, Return
<1>7. ASSUME NEW d \in Senders, at'[d] \in Held PROVE mcuLock' = d
  <2>1. CASE Call(c)
    <3>1. at'[c] = "lock" /\ mcuLock' = mcuLock
      BY <1>3, <2>1 DEF Call, Goto
    <3> QED BY <1>4, <1>7, <3>1 DEF Held, McuInv, MutexInv
  <2>2. CASE Lock(c)
    <3>1. mcuLock = Nobody /\ mcuLock' = c
      BY <2>2 DEF Lock
    <3>2. d # c => mcuLock = d
      BY <1>4, <1>7 DEF McuInv, MutexInv
    <3> QED BY <3>1, <3>2, SenderAssumption
  <2>3. CASE Return(c)
    <3>1. at[c] \in Held /\ at'[c] = "idle"
      BY <1>3, <2>3 DEF Return, Returning, Held, Goto
    <3>2. d # c
      BY <1>7, <3>1 DEF Held
    <3> QED BY <1>4, <1>7, <3>1, <3>2, Alone
  <2> QED BY <2>1, <2>2, <2>3
<1> QED BY <1>5, <1>6, <1>7 DEF McuInv, MutexInv

LEMMA SendInv == ASSUME McuInv, NEW c \in Senders, Send(c) PROVE McuInv'
<1>1. /\ at[c] = "send" /\ msgSeq' = NextSeq
      /\ UNCHANGED <<mcuLock, devLock, rx, wanted, phase, mcuReset, full, step, tries>>
      /\ resQ' = [i \in DOMAIN resQ |-> Older(resQ[i])]
  BY DEF Send, reset
<1>2. /\ at \in [Senders -> {"idle", "lock", "send", "wait", "ok", "failed"}]
      /\ msgSeq \in 0 .. Cycle /\ seq \in 0 .. Cycle /\ fw \subseteq Event /\ resQ \in Seq(Event)
  BY DEF McuInv, McuTypeOK
<1>3. PICK to \in {"wait", "ok", "failed"}, of \in Senders \cup {Nobody} :
        /\ at' = [at EXCEPT ![c] = to]
        /\ to = "wait" => seq' = NextSeq /\ of = c
        /\ seq' = NextSeq \/ seq' = seq
        /\ \A r \in fw' : \/ \E q \in fw : r = Older(q)
                          \/ r = [seq |-> NextSeq, of |-> of, age |-> 0]
  BY DEF Send, Goto
<1>4. \A d \in Senders : at'[d] = IF d = c THEN to ELSE at[d]
  BY <1>2, <1>3
<1>5. /\ NextSeq \in 1 .. Cycle
      /\ NextSeq = IF msgSeq = Cycle THEN 1 ELSE msgSeq + 1
  BY <1>2, NextSeqGoesOn
<1>6. \A d \in Senders : d # c => at[d] \notin Held
  BY <1>1, Alone DEF Held
<1>7. [seq |-> NextSeq, of |-> of, age |-> 0] \in Event
  BY <1>5, CycleIsNat DEF Event
<1>8. /\ resQ' \in Seq(Event)
      /\ DOMAIN resQ' = DOMAIN resQ /\ \A i \in DOMAIN resQ : resQ'[i] = Older(resQ[i])
  BY <1>1, <1>2, OlderIsEvent, QueueTypes
<1>9. McuTypeOK'
  <2>1. fw' \subseteq Event
    BY <1>2, <1>3, <1>7, OlderIsEvent
  <2>2. msgSeq' \in 0 .. Cycle /\ seq' \in 0 .. Cycle
    BY <1>1, <1>2, <1>3, <1>5, CycleIsNat
  <2> QED BY <1>1, <1>2, <1>3, <1>8, <2>1, <2>2 DEF McuInv, McuTypeOK
<1>10. MutexInv'
  BY <1>1, <1>3, <1>4, <1>6, Alone DEF MutexInv, Held
<1>11. ASSUME NEW r \in Event, Fits(r, msgSeq, at) PROVE Fits(Older(r), msgSeq', at')
  <2>1. msgSeq \in 1 .. Cycle
    BY <1>2, <1>11, CycleIsNat DEF Fits
  <2> QED BY <1>1, <1>5, <1>11, <2>1, FitsOlder
<1>12. Fits([seq |-> NextSeq, of |-> of, age |-> 0], msgSeq', at')
  <2>1. Back(NextSeq, 0) = NextSeq /\ NextSeq # 0
    BY <1>5, CycleIsNat DEF Back
  <2>2. \A d \in Senders : at'[d] = "wait" => of = d
    BY <1>3, <1>4, <1>6 DEF Held
  <2> QED BY <1>1, <2>1, <2>2 DEF Fits
<1>13. EventsFit'
  <2>1. \A r \in fw' : Fits(r, msgSeq', at')
    BY <1>2, <1>3, <1>11, <1>12 DEF McuInv, EventsFit
  <2>2. \A i \in DOMAIN resQ' : Fits(resQ'[i], msgSeq', at')
    BY <1>2, <1>8, <1>11, QueueTypes DEF McuInv, EventsFit
  <2> QED BY <2>1, <2>2 DEF EventsFit
<1> QED BY <1>9, <1>10, <1>13 DEF McuInv

\* The waiter leaves: its command has no owner any more, and no number changes.
LEMMA FinishFits ==
  ASSUME McuInv, NEW c \in Senders, NEW to \in {"ok", "failed"}, at[c] = "wait",
         Finish(c, to), UNCHANGED <<msgSeq, mcuLock>>,
         NEW q \in Seq(Event),
         \A i \in DOMAIN q : \E j \in DOMAIN resQ : q[i] = resQ[j],
         resQ' = [i \in DOMAIN q |-> Left(c, q[i])]
  PROVE /\ MutexInv' /\ EventsFit'
        /\ fw' \subseteq Event /\ resQ' \in Seq(Event) /\ seq' \in 0 .. Cycle
        /\ at' \in [Senders -> {"idle", "lock", "send", "wait", "ok", "failed"}]
<1>1. /\ at \in [Senders -> {"idle", "lock", "send", "wait", "ok", "failed"}]
      /\ fw \subseteq Event /\ resQ \in Seq(Event)
  BY DEF McuInv, McuTypeOK
<1>2. /\ at' = [at EXCEPT ![c] = to] /\ seq' = 0
      /\ fw' = {Left(c, r) : r \in fw}
  BY DEF Finish, Goto
<1>3. \A d \in Senders : at'[d] = IF d = c THEN to ELSE at[d]
  BY <1>1, <1>2
<1>4. mcuLock = c /\ \A d \in Senders : d # c => at[d] \notin Held
  BY Alone DEF Held
<1>5. \A d \in Senders : at'[d] # "wait"
  BY <1>3, <1>4 DEF Held
<1>6. MutexInv'
  BY <1>3, <1>4, <1>5 DEF MutexInv
<1>7. /\ resQ' \in Seq(Event) /\ DOMAIN resQ' = DOMAIN q
      /\ \A i \in DOMAIN q : resQ'[i] = Left(c, q[i])
  BY LeftIsEvent, QueueTypes
<1>8. ASSUME NEW r \in Event, Fits(r, msgSeq, at) PROVE Fits(Left(c, r), msgSeq', at')
  BY <1>5, <1>8, LeftIsEvent DEF Fits
<1>9. \A r \in fw' : Fits(r, msgSeq', at')
  BY <1>1, <1>2, <1>8 DEF McuInv, EventsFit
<1>10. ASSUME NEW i \in DOMAIN resQ' PROVE Fits(resQ'[i], msgSeq', at')
  <2>1. PICK j \in DOMAIN resQ : q[i] = resQ[j]
    BY <1>7
  <2>2. resQ[j] \in Event /\ Fits(resQ[j], msgSeq, at)
    BY <1>1, QueueTypes DEF McuInv, EventsFit
  <2> QED BY <1>7, <1>8, <2>1, <2>2
<1>11. fw' \subseteq Event /\ seq' \in 0 .. Cycle
  BY <1>1, <1>2, LeftIsEvent, CycleIsNat
<1>12. at' \in [Senders -> {"idle", "lock", "send", "wait", "ok", "failed"}]
  BY <1>1, <1>2
<1> QED BY <1>6, <1>7, <1>9, <1>10, <1>11, <1>12 DEF EventsFit

LEMMA NoAnswerInv == ASSUME McuInv, NEW c \in Senders, NoAnswer(c) PROVE McuInv'
<1>1. /\ at[c] = "wait" /\ Finish(c, "failed") /\ resQ \in Seq(Event)
      /\ resQ' = [i \in DOMAIN resQ |-> Left(c, resQ[i])]
      /\ UNCHANGED <<msgSeq, mcuLock, devLock, rx, phase, mcuReset, full, step, tries>>
      /\ wanted' \in BOOLEAN
  BY DEF NoAnswer, Request, McuInv, McuTypeOK, reset
<1>2. /\ MutexInv' /\ EventsFit'
      /\ fw' \subseteq Event /\ resQ' \in Seq(Event) /\ seq' \in 0 .. Cycle
      /\ at' \in [Senders -> {"idle", "lock", "send", "wait", "ok", "failed"}]
  BY <1>1, FinishFits
<1>3. McuTypeOK'
  BY <1>1, <1>2 DEF McuInv, McuTypeOK
<1> QED BY <1>2, <1>3 DEF McuInv

LEMMA TakeInv == ASSUME McuInv, NEW c \in Senders, Take(c) PROVE McuInv'
<1>1. /\ at[c] = "wait" /\ resQ # <<>> /\ resQ \in Seq(Event)
      /\ resQ' = [i \in DOMAIN Tail(resQ) |-> IF at'[c] = "ok" THEN Left(c, Tail(resQ)[i])
                                                               ELSE Tail(resQ)[i]]
      /\ UNCHANGED <<msgSeq, mcuLock, devLock, rx, wanted, phase, mcuReset, full, step, tries>>
  BY DEF Take, McuInv, McuTypeOK, reset
<1>2. at \in [Senders -> {"idle", "lock", "send", "wait", "ok", "failed"}]
  BY DEF McuInv, McuTypeOK
<1>3. /\ Tail(resQ) \in Seq(Event)
      /\ \A i \in DOMAIN Tail(resQ) : \E j \in DOMAIN resQ : Tail(resQ)[i] = resQ[j]
  BY <1>1, QueueTypes
<1>4. CASE Finish(c, "ok")
  <2>1. at'[c] = "ok"
    BY <1>2, <1>4 DEF Finish, Goto
  <2>2. resQ' = [i \in DOMAIN Tail(resQ) |-> Left(c, Tail(resQ)[i])]
    BY <1>1, <2>1
  <2> DEFINE q == Tail(resQ)
  <2>3. /\ q \in Seq(Event) /\ resQ' = [i \in DOMAIN q |-> Left(c, q[i])]
        /\ \A i \in DOMAIN q : \E j \in DOMAIN resQ : q[i] = resQ[j]
    BY <1>3, <2>2
  <2> HIDE DEF q
  <2>4. /\ MutexInv' /\ EventsFit'
        /\ fw' \subseteq Event /\ resQ' \in Seq(Event) /\ seq' \in 0 .. Cycle
        /\ at' \in [Senders -> {"idle", "lock", "send", "wait", "ok", "failed"}]
    BY <1>1, <1>4, <2>3, FinishFits
  <2>5. McuTypeOK'
    BY <1>1, <2>4 DEF McuInv, McuTypeOK
  <2> QED BY <2>4, <2>5 DEF McuInv
<1>5. CASE UNCHANGED <<at, seq, fw>>
  <2> DEFINE q == Tail(resQ)
  <2>1. /\ q \in Seq(Event) /\ DOMAIN q = 1 .. Len(q) /\ Len(q) \in Nat
        /\ \A i \in DOMAIN q : q[i] \in Event /\ \E j \in DOMAIN resQ : q[i] = resQ[j]
    BY <1>3, QueueTypes
  <2>2. resQ' = [i \in DOMAIN q |-> q[i]]
    <3>1. at'[c] # "ok"
      BY <1>1, <1>5
    <3> QED BY <1>1, <3>1
  <2> HIDE DEF q
  <2>3. /\ resQ' \in Seq(Event)
        /\ \A i \in DOMAIN resQ' : \E j \in DOMAIN resQ : resQ'[i] = resQ[j]
    BY <2>1, <2>2
  <2>4. EventsFit'
    BY <1>1, <1>5, <2>3, NothingSent
  <2>5. McuTypeOK' /\ MutexInv'
    BY <1>1, <1>5, <2>3 DEF McuInv, McuTypeOK, MutexInv
  <2> QED BY <2>4, <2>5 DEF McuInv
<1> QED BY <1>4, <1>5 DEF Take

\* The firmware answers, or never will.
LEMMA AnswerInv == ASSUME McuInv, NEW r \in fw, Answer(r) \/ Ignore(r) PROVE McuInv'
<1>1. /\ UNCHANGED <<msgSeq, at, seq, mcuLock, devLock, rx, wanted, phase, mcuReset, full, step, tries>>
      /\ fw' \subseteq fw /\ resQ' \in {resQ, Append(resQ, r)}
  BY DEF Answer, Ignore, reset
<1>2. resQ \in Seq(Event) /\ r \in Event
  BY DEF McuInv, McuTypeOK
<1>3. /\ Append(resQ, r) \in Seq(Event)
      /\ \A i \in DOMAIN Append(resQ, r) : \/ Append(resQ, r)[i] = r
                                           \/ i \in DOMAIN resQ /\ Append(resQ, r)[i] = resQ[i]
  BY <1>2
<1>4. EventsFit'
  BY <1>1, <1>3, NothingSent
<1>5. McuTypeOK' /\ MutexInv'
  BY <1>1, <1>2, <1>3 DEF McuInv, McuTypeOK, MutexInv
<1> QED BY <1>4, <1>5 DEF McuInv

\* How a load of the firmware ends.
LEMMA LoadOverTyped ==
  ASSUME McuInv, Again \/ Over
  PROVE  /\ tries' \in 0 .. Tries /\ full' \in BOOLEAN
         /\ phase' \in {"init", "run", "suspend"} /\ step' \in Steps
<1>1. /\ Tries \in Nat \ {0} /\ tries \in 0 .. Tries /\ full \in BOOLEAN
      /\ phase \in {"init", "run", "suspend"}
  <2>1. Tries \in Nat \ {0}
    BY BoundAssumption
  <2> QED BY <2>1 DEF McuInv, McuTypeOK
<1>2. CASE Again
  <2>1. tries' = tries + 1 /\ tries + 1 < Tries /\ UNCHANGED <<full, phase>> /\ step' = "dev"
    BY <1>2 DEF Again
  <2>2. tries' \in 0 .. Tries
    BY <1>1, <2>1
  <2>3. full' \in BOOLEAN
    BY <1>1, <2>1, Zenon
  <2> QED BY <1>1, <2>1, <2>2, <2>3 DEF Steps
<1>3. CASE Over
  <2>1. tries' = 0 /\ full' = FALSE /\ phase' \in {"run", phase} /\ step' = "idle"
    BY <1>3 DEF Over, Awake
  <2>2. full' \in BOOLEAN
    BY <2>1, Zenon
  <2> QED BY <1>1, <2>1, <2>2 DEF Steps
<1> QED BY <1>2, <1>3

\* The reset drops events and loads the firmware with commands of its own.
LEMMA ResetLoads == McuInv /\ (Load \/ LoadEnds) => McuInv'
<1> SUFFICES ASSUME McuInv, Load \/ LoadEnds PROVE McuInv'
  OBVIOUS
<1>1. PICK to \in {"lock", "idle"} : at' = [at EXCEPT ![Reset] = to]
  BY DEF Load, LoadEnds, Goto
<1>2. /\ at \in [Senders -> {"idle", "lock", "send", "wait", "ok", "failed"}]
      /\ Reset \in Senders
  BY DEF McuInv, McuTypeOK, Senders
<1>3. \A d \in Senders : at'[d] = IF d = Reset THEN to ELSE at[d]
  BY <1>1, <1>2
<1>4. UNCHANGED <<msgSeq, seq, fw, resQ, rx, wanted, mcuReset>>
  BY DEF Load, LoadEnds
<1>5. EventsFit' /\ \A d \in Senders : at'[d] = "wait" => seq' = msgSeq'
  BY <1>3, <1>4, NothingSent
<1>6. /\ tries' \in 0 .. Tries /\ full' \in BOOLEAN
      /\ phase' \in {"init", "run", "suspend"} /\ step' \in Steps
  <2>1. CASE Load
    BY <2>1 DEF Load, To, McuInv, McuTypeOK, Steps
  <2>2. CASE LoadEnds
    BY <2>2, LoadOverTyped DEF LoadEnds
  <2> QED BY <2>1, <2>2
<1>7. mcuLock' \in Senders \cup {Nobody} /\ devLock' \in Senders \cup {Nobody}
  BY DEF Load, LoadEnds, McuInv, McuTypeOK
<1>8. McuTypeOK'
  BY <1>1, <1>2, <1>4, <1>6, <1>7 DEF McuInv, McuTypeOK, Steps
<1>9. ASSUME NEW d \in Senders, at'[d] \in Held PROVE mcuLock' = d
  <2>1. d # Reset /\ at[d] \in Held
    BY <1>3, <1>9 DEF Held
  <2>2. CASE Load
    BY <2>1, <2>2, Alone DEF Load
  <2>3. CASE LoadEnds
    <3>1. at[Reset] \in Held
      BY <2>3 DEF LoadEnds, Returning, Held
    <3> QED BY <1>2, <2>1, <3>1, Alone
  <2> QED BY <2>2, <2>3
<1> QED BY <1>5, <1>8, <1>9 DEF McuInv, MutexInv

LEMMA ResetInv == McuInv /\ (ResetWork \/ Crash \/ InitReset \/ Pass) => McuInv'
<1> SUFFICES ASSUME McuInv, ResetWork \/ Crash \/ InitReset \/ Pass, ~Load, ~LoadEnds
             PROVE McuInv'
  BY ResetLoads
<1>1. /\ Begin \/ LockDev \/ BusHung \/ Mark \/ Purge \/ StopRx \/ Clear \/ ResumeRx
         \/ Crash \/ InitReset \/ Pass \/ StartFails
  BY DEF ResetWork
<1>2. /\ UNCHANGED <<msgSeq, at, seq, mcuLock>>
      /\ fw' \in {fw, {}} /\ resQ' \in {resQ, <<>>}
  BY <1>1 DEF Begin, LockDev, BusHung, Mark, Purge, StopRx, Clear, ResumeRx, StartFails,
              Crash, InitReset, Pass, command, reset
<1>3. EventsFit'
  BY <1>2, NothingSent
<1>4. MutexInv'
  BY <1>2 DEF McuInv, MutexInv
<1>5. fw' \subseteq Event /\ resQ' \in Seq(Event)
  <2>1. fw \subseteq Event /\ resQ \in Seq(Event) /\ <<>> \in Seq(Event)
    BY DEF McuInv, McuTypeOK
  <2> QED BY <1>2, <2>1
<1>6. /\ devLock' \in Senders \cup {Nobody} /\ rx' \in BOOLEAN /\ mcuReset' \in BOOLEAN
      /\ wanted' \in BOOLEAN
  BY <1>1 DEF Begin, LockDev, BusHung, Mark, Purge, StopRx, Clear, ResumeRx, StartFails,
              Crash, InitReset, Pass, Request, To, command, reset, McuInv, McuTypeOK, Senders
<1>7. /\ full' \in BOOLEAN /\ phase' \in {"init", "run", "suspend"} /\ step' \in Steps
      /\ tries' \in 0 .. Tries
  <2>1. CASE StartFails
    BY <2>1, LoadOverTyped DEF StartFails
  <2>2. CASE ~StartFails
    BY <1>1, <2>2 DEF Begin, LockDev, BusHung, Mark, Purge, StopRx, Clear, ResumeRx,
              Crash, InitReset, Pass, To, command, reset, McuInv, McuTypeOK, Steps
  <2> QED BY <2>1, <2>2
<1>8. McuTypeOK'
  BY <1>2, <1>5, <1>6, <1>7 DEF McuInv, McuTypeOK, Steps
<1> QED BY <1>3, <1>4, <1>8 DEF McuInv

LEMMA McuNextInv == McuInv /\ [McuNext]_mcuVars => McuInv'
<1> SUFFICES ASSUME McuInv, [McuNext]_mcuVars PROVE McuInv'
  OBVIOUS
<1>1. CASE UNCHANGED mcuVars
  BY <1>1 DEF mcuVars, command, reset, McuInv, McuTypeOK, MutexInv, EventsFit
<1>2. ASSUME NEW c \in Senders, Call(c) \/ Lock(c) \/ Step(c) \/ TimesOut(c) PROVE McuInv'
  BY <1>2, CallInv, SendInv, TakeInv, NoAnswerInv DEF Step, TimesOut, CutShort
<1>3. ASSUME NEW r \in fw, Answer(r) \/ Ignore(r) PROVE McuInv'
  BY <1>3, AnswerInv
<1> QED BY <1>1, <1>2, <1>3, ResetInv DEF McuNext

LEMMA McuInvariance == McuSpec => []McuInv
  BY McuInitInv, McuNextInv, PTL DEF McuSpec

-----------------------------------------------------------------------------
(* The theorem.                                                            *)

\* parse_response compares nothing but the number.  For any number of contexts, and any
\* size of the field, a command that succeeds has taken the event that answers it, or one
\* a whole cycle of numbers old, across time-outs and resets.
THEOREM CommandsTakeOwnAnswer == McuSpec => OwnAnswer
<1>1. McuInv /\ [McuNext]_mcuVars => AnswerStep
  <2> SUFFICES ASSUME McuInv, [McuNext]_mcuVars, NEW c \in Senders, at[c] = "wait", at'[c] = "ok"
               PROVE Head(resQ).of = c \/ Head(resQ).age = Cycle
    BY DEF AnswerStep
  <2>1. at \in [Senders -> {"idle", "lock", "send", "wait", "ok", "failed"}]
    BY DEF McuInv, McuTypeOK
  <2>2. Take(c)
    <3>1. ~UNCHANGED at
      OBVIOUS
    <3>2. ASSUME NEW d \in Senders, Call(d) \/ Lock(d) \/ Send(d) \/ NoAnswer(d) \/ Return(d)
          PROVE FALSE
      BY <2>1, <3>2, Alone DEF Call, Lock, Send, NoAnswer, Return, Finish, Goto, Held, Returning
    <3>3. ~ResetWork /\ ~Crash /\ ~InitReset /\ ~Pass
      BY <2>1 DEF ResetWork, Begin, LockDev, BusHung, Mark, Purge, StopRx, Clear, ResumeRx,
                  Load, StartFails, LoadEnds, Crash, InitReset, Pass, Goto, command
    <3>4. ASSUME NEW d \in Senders, Take(d) PROVE d = c
      BY <2>1, <3>4, Alone DEF Take, Held
    <3>5. \A r \in fw : ~Answer(r) /\ ~Ignore(r)
      BY <3>1 DEF Answer, Ignore
    <3> QED BY <3>1, <3>2, <3>3, <3>4, <3>5 DEF McuNext, Step, TimesOut, CutShort, mcuVars, command
  <2>3. resQ # <<>> /\ resQ \in Seq(Event) /\ Head(resQ).seq = seq /\ seq = msgSeq
    <3>1. ~UNCHANGED at
      OBVIOUS
    <3> QED BY <2>2, <3>1 DEF Take, Matches, McuInv, McuTypeOK, MutexInv
  <2>4. Head(resQ) \in Event /\ Fits(Head(resQ), msgSeq, at)
    BY <2>3, QueueTypes DEF McuInv, EventsFit
  <2>5. Head(resQ).age \in 0 .. Cycle /\ msgSeq \in 1 .. Cycle
    BY <2>4, CycleIsNat DEF Event, Fits, McuInv, McuTypeOK
  <2>6. Head(resQ).age < Cycle => Head(resQ).age = 0
    BY <2>3, <2>4, <2>5, CycleIsNat DEF Fits, Back
  <2> QED BY <2>4, <2>5, <2>6, CycleIsNat DEF Fits
<1>2. McuInv => McuTypeOK
  BY DEF McuInv
<1> QED BY <1>1, <1>2, McuInvariance, PTL DEF McuSpec, OwnAnswer

=============================================================================
