-------------------------- MODULE RxReorderProofs --------------------------
(***************************************************************************)
(* Theorems about RxReorder for every sequence space, every set of window  *)
(* sizes and every number of objects.                                      *)
(***************************************************************************)
EXTENDS RxReorder, FiniteSetTheorems, WellFoundedInduction, TLAPS

\* An object whose counter is the number of frames it buffers.
Sound(t) == TidType(t) /\ t.nframes = Cardinality(Occupied(t))

\* u is t after a part of a locked section that stores no frame.
Drained(t, u) ==
  /\ Sound(u)
  /\ u.nframes <= t.nframes
  /\ u.size = t.size /\ u.stopped = t.stopped /\ u.freed = t.freed

\* The remainder of any integer is below the modulus.
LEMMA ModRange == \A a \in Int, n \in Nat \ {0} : a % n \in 0 .. n - 1
  OBVIOUS

\* No session has an empty window.
LEMMA SizeIsPositive == Sizes \subseteq Nat \ {0}
  BY SizesAssumption, SNModAssumption

\* The occupied slots are finitely many, at most as many as the window has.
LEMMA OccupiedIsFinite ==
  ASSUME NEW t, t \in TidRec
  PROVE  /\ IsFiniteSet(Occupied(t)) /\ Occupied(t) \subseteq Slots(t)
         /\ Cardinality(Occupied(t)) \in Nat /\ Cardinality(Occupied(t)) <= t.size
<1>1. t.size \in Nat \ {0}
  BY SizeIsPositive DEF TidRec
<1>2. IsFiniteSet(Slots(t)) /\ Cardinality(Slots(t)) = t.size
  <2>1. 0 \in Int /\ t.size - 1 \in Int /\ ~(0 > t.size - 1) /\ t.size - 1 - 0 + 1 = t.size
    BY <1>1
  <2>2. IsFiniteSet(0 .. t.size - 1)
    BY <2>1, FS_Interval, Zenon
  <2>3. Cardinality(0 .. t.size - 1) = IF 0 > t.size - 1 THEN 0 ELSE t.size - 1 - 0 + 1
    BY <2>1, FS_Interval, Zenon
  <2> QED BY <2>1, <2>2, <2>3 DEF Slots
<1>3. Occupied(t) \in SUBSET Slots(t)
  BY DEF Occupied
<1> QED
  BY <1>2, <1>3, FS_Subset, FS_CardinalityType

\* Removing any set of frames together with their count keeps an object sound.
LEMMA RemoveDrains ==
  ASSUME NEW t, Sound(t), NEW gone, gone \subseteq Occupied(t)
  PROVE  /\ Drained(t, Remove(t, gone))
         /\ Occupied(Remove(t, gone)) = Occupied(t) \ gone
<1> DEFINE u == Remove(t, gone)
<1>1. t \in TidRec /\ t.size \in Sizes /\ t.size \in Nat \ {0} /\ t.nframes \in Nat /\ t.nframes <= t.size
  BY SizeIsPositive DEF Sound, TidType, TidRec
<1>2. /\ u.size = t.size /\ u.head = t.head /\ u.stopped = t.stopped /\ u.freed = t.freed
      /\ u.started = t.started
      /\ u.buf = [i \in Slots(t) |-> IF i \in gone THEN None ELSE t.buf[i]]
      /\ u.aged = t.aged \ gone
      /\ u.nframes = t.nframes - Cardinality(gone)
      /\ u = [size |-> u.size, head |-> u.head, buf |-> u.buf, aged |-> u.aged,
              nframes |-> u.nframes, started |-> u.started, stopped |-> u.stopped,
              freed |-> u.freed]
  <2> DEFINE b == [i \in Slots(t) |-> IF i \in gone THEN None ELSE t.buf[i]]
             a == t.aged \ gone
             c == t.nframes - Cardinality(gone)
  <2>1. u = [t EXCEPT !.buf = b, !.aged = a, !.nframes = c]
    BY DEF Remove
  <2> HIDE DEF a, b, c
  <2>2. u = [size |-> t.size, head |-> t.head, buf |-> b, aged |-> a, nframes |-> c,
             started |-> t.started, stopped |-> t.stopped, freed |-> t.freed]
    BY <1>1, <2>1 DEF TidRec
  <2> HIDE DEF u
  <2>3. /\ u.size = t.size /\ u.head = t.head /\ u.stopped = t.stopped /\ u.freed = t.freed
        /\ u.started = t.started /\ u.buf = b /\ u.aged = a /\ u.nframes = c
    BY <2>2
  <2> QED BY <2>2, <2>3 DEF a, b, c
<1> HIDE DEF u
<1>3. Slots(u) = Slots(t)
  BY <1>2 DEF Slots
<1>4. Occupied(u) = Occupied(t) \ gone
  BY <1>2, <1>3 DEF Occupied
<1>5. /\ Cardinality(gone) \in Nat
      /\ Cardinality(gone) <= Cardinality(Occupied(t))
      /\ Cardinality(Occupied(t) \ gone) = Cardinality(Occupied(t)) - Cardinality(gone)
  <2>1. IsFiniteSet(Occupied(t))
    BY <1>1, OccupiedIsFinite
  <2>2. IsFiniteSet(gone) /\ Cardinality(gone) <= Cardinality(Occupied(t))
    BY <2>1, FS_Subset
  <2>3. Cardinality(Occupied(t) \ gone) = Cardinality(Occupied(t)) - Cardinality(Occupied(t) \cap gone)
    BY <2>1, FS_Difference
  <2>4. Occupied(t) \cap gone = gone
    OBVIOUS
  <2> QED BY <2>2, <2>3, <2>4, FS_CardinalityType
<1>6. u.nframes \in Nat /\ u.nframes <= t.nframes /\ u.nframes = Cardinality(Occupied(u))
  <2>1. t.nframes = Cardinality(Occupied(t))
    BY DEF Sound
  <2>2. Cardinality(Occupied(u)) = Cardinality(Occupied(t)) - Cardinality(gone)
    BY <1>4, <1>5
  <2>3. u.nframes = t.nframes - Cardinality(gone)
    BY <1>2
  <2> QED BY <1>1, <1>5, <2>1, <2>2, <2>3
<1>7. u.buf \in [Slots(u) -> SN \cup {None}]
  <2>1. \A i \in Slots(t) : t.buf[i] \in SN \cup {None}
    BY DEF Sound, TidType
  <2>2. [i \in Slots(t) |-> IF i \in gone THEN None ELSE t.buf[i]] \in [Slots(t) -> SN \cup {None}]
    BY <2>1
  <2> QED BY <1>2, <1>3, <2>2
<1>8. u.aged \subseteq Occupied(u)
  BY <1>2, <1>4 DEF Sound, TidType
<1>9. u \in TidRec
  <2>1. u.buf \in UNION {[0 .. s - 1 -> SN \cup {None}] : s \in Sizes}
    BY <1>1, <1>2, <1>7 DEF Slots
  <2>2. u.aged \in SUBSET Nat
    BY <1>1, <1>2 DEF TidRec
  <2>3. /\ u.started \in BOOLEAN /\ u.freed \in BOOLEAN /\ u.stopped \in BOOLEAN
        /\ u.head \in SN /\ u.size \in Sizes
    BY <1>1, <1>2 DEF TidRec
  <2> QED BY <1>2, <1>6, <2>1, <2>2, <2>3 DEF TidRec
<1>10. TidType(u)
  BY <1>1, <1>2, <1>6, <1>7, <1>8, <1>9 DEF TidType
<1> QED
  BY <1>2, <1>4, <1>6, <1>10 DEF Sound, Drained, u

\* So does setting the head, or the flags.
LEMMA FieldsDrain ==
  ASSUME NEW t, NEW v, Sound(v), Drained(t, v), NEW h \in SN, NEW st \in BOOLEAN
  PROVE  /\ Drained(t, [v EXCEPT !.head = h])
         /\ Drained(t, [v EXCEPT !.started = TRUE])
         /\ Drained(t, [v EXCEPT !.started = TRUE, !.head = h])
         /\ Sound([v EXCEPT !.stopped = TRUE])
         /\ Sound([v EXCEPT !.freed = TRUE])
<1>1. v \in TidRec
  BY DEF Sound, TidType
<1>2. ASSUME NEW u, u \in TidRec, u.size = v.size, u.buf = v.buf, u.aged = v.aged, u.nframes = v.nframes
      PROVE  Sound(u)
  <2>1. Slots(u) = Slots(v) /\ Occupied(u) = Occupied(v)
    BY <1>2 DEF Slots, Occupied
  <2>2. v.buf \in [Slots(v) -> SN \cup {None}] /\ v.aged \subseteq Occupied(v) /\ v.nframes <= v.size
        /\ v.nframes = Cardinality(Occupied(v))
    BY DEF Sound, TidType
  <2> QED BY <1>2, <2>1, <2>2 DEF Sound, TidType
<1>3. Sound([v EXCEPT !.stopped = TRUE])
  <2> DEFINE u == [v EXCEPT !.stopped = TRUE]
  <2>1. u \in TidRec /\ u.size = v.size /\ u.buf = v.buf /\ u.aged = v.aged /\ u.nframes = v.nframes
    BY <1>1 DEF TidRec
  <2> HIDE DEF u
  <2>2. Sound(u) BY <2>1, <1>2
  <2> QED BY <2>2 DEF u
<1>4. Sound([v EXCEPT !.freed = TRUE])
  <2> DEFINE u == [v EXCEPT !.freed = TRUE]
  <2>1. u \in TidRec /\ u.size = v.size /\ u.buf = v.buf /\ u.aged = v.aged /\ u.nframes = v.nframes
    BY <1>1 DEF TidRec
  <2> HIDE DEF u
  <2>2. Sound(u) BY <2>1, <1>2
  <2> QED BY <2>2 DEF u
<1>5. Drained(t, [v EXCEPT !.head = h])
  <2> DEFINE u == [v EXCEPT !.head = h]
  <2>1. /\ u \in TidRec /\ u.size = v.size /\ u.buf = v.buf /\ u.aged = v.aged /\ u.nframes = v.nframes
        /\ u.stopped = v.stopped /\ u.freed = v.freed
    BY <1>1 DEF TidRec
  <2> HIDE DEF u
  <2>2. Sound(u) BY <2>1, <1>2
  <2>3. Drained(t, u) BY <2>1, <2>2 DEF Drained
  <2> QED BY <2>3 DEF u
<1>6. Drained(t, [v EXCEPT !.started = TRUE])
  <2> DEFINE u == [v EXCEPT !.started = TRUE]
  <2>1. /\ u \in TidRec /\ u.size = v.size /\ u.buf = v.buf /\ u.aged = v.aged /\ u.nframes = v.nframes
        /\ u.stopped = v.stopped /\ u.freed = v.freed
    BY <1>1 DEF TidRec
  <2> HIDE DEF u
  <2>2. Sound(u) BY <2>1, <1>2
  <2>3. Drained(t, u) BY <2>1, <2>2 DEF Drained
  <2> QED BY <2>3 DEF u
<1>7. Drained(t, [v EXCEPT !.started = TRUE, !.head = h])
  <2> DEFINE u == [v EXCEPT !.started = TRUE, !.head = h]
  <2>1. /\ u \in TidRec /\ u.size = v.size /\ u.buf = v.buf /\ u.aged = v.aged /\ u.nframes = v.nframes
        /\ u.stopped = v.stopped /\ u.freed = v.freed
    BY <1>1 DEF TidRec
  <2> HIDE DEF u
  <2>2. Sound(u) BY <2>1, <1>2
  <2>3. Drained(t, u) BY <2>1, <2>2 DEF Drained
  <2> QED BY <2>3 DEF u
<1> QED BY <1>3, <1>4, <1>5, <1>6, <1>7

\* The release loop, run any number of times, keeps an object sound and adds no frame.
LEMMA AdvanceDrains ==
  ASSUME NEW t, Sound(t), NEW n \in Nat
  PROVE  Drained(t, Advance(t, n))
<1> DEFINE gone == {i \in Occupied(t) : \E k \in 0 .. n - 1 : SlotOf(t, k) = i}
           h == (t.head + n) % SNMod
           v == Remove(t, gone)
<1>1. t \in TidRec /\ t.head \in SN
  BY DEF Sound, TidType, TidRec
<1>2. h \in SN
  <2>1. t.head + n \in Int /\ SNMod \in Nat \ {0}
    BY <1>1, SNModAssumption DEF SN
  <2>2. (t.head + n) % SNMod \in 0 .. SNMod - 1
    BY <2>1, ModRange
  <2> QED BY <2>2 DEF SN
<1>3. gone \subseteq Occupied(t)
  OBVIOUS
<1>4. v.head = t.head
  BY <1>1 DEF Remove, TidRec
<1>5. Advance(t, n) = [v EXCEPT !.head = h]
  BY <1>4 DEF Advance
<1> HIDE DEF h, gone
<1>6. Drained(t, v)
  BY <1>3, RemoveDrains
<1>7. Sound(v)
  BY <1>6 DEF Drained
<1> HIDE DEF v
<1>8. Drained(t, [v EXCEPT !.head = h])
  BY <1>2, <1>6, <1>7, FieldsDrain
<1> QED
  BY <1>5, <1>8

\* Two such sections in a row are one.
LEMMA DrainedTrans ==
  ASSUME NEW t, NEW u, NEW v, Drained(t, u), Drained(u, v), Sound(t)
  PROVE  Drained(t, v)
<1>1. t.nframes \in Nat /\ u.nframes \in Nat /\ v.nframes \in Nat
  BY DEF Drained, Sound, TidType, TidRec
<1> QED
  BY <1>1 DEF Drained

\* Passes of the release loops are natural numbers.
LEMMA PassesAreNat ==
  ASSUME NEW t, NEW h
  PROVE  t.head \in Int /\ h \in Int => PassesTo(t, h) \in Nat
<1> SUFFICES ASSUME t.head \in Int, h \in Int PROVE PassesTo(t, h) \in Nat
  OBVIOUS
<1>1. SnSub(h, t.head) \in Nat
  <2>1. h - t.head \in Int /\ SNMod \in Nat \ {0}
    BY SNModAssumption
  <2> QED BY <2>1, ModRange DEF SnSub
<1> QED BY <1>1 DEF PassesTo

-----------------------------------------------------------------------------
(* What a locked section does to the object it works on.                   *)

\* Only object id changes, and it stays sound with its flags.
Changes(id, u) == tid' = [tid EXCEPT ![id] = u]

\* A section that ends with release_head (agg-rx.c:44-53) drains its object.
LEMMA SectionAtHead ==
  ASSUME NEW id, NEW v, Sound(v), NEW frames, UnlockAtHead(id, v, frames)
  PROVE  \E u : Drained(v, u) /\ Changes(id, u)
<1>1. PICK n \in 0 .. v.size : Unlock(id, Advance(v, n), frames \o Released(v, n))
  BY DEF UnlockAtHead
<1>2. v.size \in Nat
  BY SizeIsPositive DEF Sound, TidType, TidRec
<1>3. Drained(v, Advance(v, n))
  BY <1>2, AdvanceDrains
<1> QED BY <1>1, <1>3 DEF Unlock, Changes

\* So does one that first releases up to a head, as block ack requests do (agg-rx.c:118-146).
LEMMA SectionFrom ==
  ASSUME NEW id, NEW v, Sound(v), NEW h \in SN, UnlockFrom(id, v, h)
  PROVE  \E u : Drained(v, u) /\ Changes(id, u)
<1> DEFINE n == PassesTo(v, h)
<1>1. n \in Nat
  <2>1. v.head \in Int /\ h \in Int
    BY SNModAssumption DEF Sound, TidType, TidRec, SN
  <2> QED BY <2>1, PassesAreNat
<1>2. UnlockAtHead(id, Advance(v, n), Released(v, n))
  BY DEF UnlockFrom
<1> HIDE DEF n
<1>3. Drained(v, Advance(v, n)) /\ Sound(Advance(v, n))
  BY <1>1, AdvanceDrains DEF Drained
<1>4. PICK u : Drained(Advance(v, n), u) /\ Changes(id, u)
  BY <1>2, <1>3, SectionAtHead
<1> QED BY <1>3, <1>4, DrainedTrans

\* So does check_release (agg-rx.c:55-88).
LEMMA SectionCheckRelease ==
  ASSUME NEW id, NEW v, Sound(v), CheckRelease(id, v)
  PROVE  \E u : Drained(v, u) /\ Changes(id, u)
<1>0. v.nframes \in Nat /\ v.size \in Nat
  BY SizeIsPositive DEF Sound, TidType, TidRec
<1>1. CASE v.nframes = 0
  <2>1. Changes(id, v)
    BY <1>1 DEF CheckRelease, Unlock, Changes
  <2> QED BY <1>0, <2>1 DEF Drained
<1>2. CASE v.nframes # 0
  <2> DEFINE t1(m) == Advance(v, m)
             passes(m) == {PassesTo(t1(m), t1(m).buf[i]) : i \in t1(m).aged} \cup {0}
  <2>0. PICK m \in 0 .. v.size : \E n \in passes(m) :
               UnlockAtHead(id, Advance(t1(m), n), Released(v, m) \o Released(t1(m), n))
    BY <1>2 DEF CheckRelease
  <2>1. PICK n \in passes(m) :
               UnlockAtHead(id, Advance(t1(m), n), Released(v, m) \o Released(t1(m), n))
    BY <2>0
  <2>2. Drained(v, t1(m)) /\ Sound(t1(m))
    BY <1>0, AdvanceDrains DEF Drained
  <2>3. n \in Nat
    <3> DEFINE w == t1(m)
    <3> HIDE DEF w
    <3>1. w.head \in Int
      BY <2>2, SNModAssumption DEF w, Sound, TidType, TidRec, SN
    <3>2. \A i \in w.aged : w.buf[i] \in Int
      BY <2>2, SNModAssumption DEF w, Sound, TidType, Occupied, SN
    <3>3. \A i \in w.aged : PassesTo(w, w.buf[i]) \in Nat
      BY <3>1, <3>2, PassesAreNat
    <3>4. n = 0 \/ \E i \in w.aged : n = PassesTo(w, w.buf[i])
      BY <2>1 DEF w
    <3> QED BY <3>3, <3>4
  <2> HIDE DEF t1
  <2>4. Drained(t1(m), Advance(t1(m), n)) /\ Sound(Advance(t1(m), n))
    BY <2>2, <2>3, AdvanceDrains DEF Drained
  <2>5. PICK u : Drained(Advance(t1(m), n), u) /\ Changes(id, u)
    BY <2>1, <2>4, SectionAtHead
  <2>6. Drained(t1(m), u)
    BY <2>2, <2>4, <2>5, DrainedTrans
  <2>7. Drained(v, u)
    BY <2>2, <2>6, DrainedTrans
  <2> QED BY <2>5, <2>7
<1> QED BY <1>1, <1>2

\* Filling a free slot with a frame and counting it keeps an object sound.
LEMMA StoreIsSound ==
  ASSUME NEW t, Sound(t), NEW idx \in Slots(t), t.buf[idx] = None, NEW sn \in SN
  PROVE  /\ Sound(Put(t, idx, sn))
         /\ Put(t, idx, sn).stopped = t.stopped /\ Put(t, idx, sn).freed = t.freed
<1>1. t \in TidRec /\ t.size \in Sizes /\ t.size \in Nat \ {0} /\ t.nframes \in Nat
  BY SizeIsPositive DEF Sound, TidType, TidRec
<1> DEFINE b == [t.buf EXCEPT ![idx] = sn]
           u == Put(t, idx, sn)
<1>2. u = [size |-> t.size, head |-> t.head, buf |-> b, aged |-> t.aged, nframes |-> t.nframes + 1,
           started |-> t.started, stopped |-> t.stopped, freed |-> t.freed]
  <2>1. u = [t EXCEPT !.buf = b, !.nframes = t.nframes + 1]
    BY <1>1, Zenon DEF TidRec, Put
  <2> HIDE DEF b
  <2> QED BY <1>1, <2>1 DEF TidRec
<1> HIDE DEF u
<1>3. b \in [Slots(t) -> SN \cup {None}]
  BY DEF Sound, TidType
<1>4. \A i \in Slots(t) : b[i] = IF i = idx THEN sn ELSE t.buf[i]
  BY DEF Sound, TidType
<1> HIDE DEF b
<1>5. /\ u.size = t.size /\ u.head = t.head /\ u.stopped = t.stopped /\ u.freed = t.freed
      /\ u.started = t.started /\ u.buf = b /\ u.aged = t.aged /\ u.nframes = t.nframes + 1
  BY <1>2
<1>6. Slots(u) = Slots(t)
  BY <1>5 DEF Slots
<1>7. sn # None
  BY NoneAssumption DEF SN
<1>8. Occupied(u) = Occupied(t) \cup {idx}
  BY <1>4, <1>5, <1>6, <1>7 DEF Occupied
<1>9. idx \notin Occupied(t)
  BY DEF Occupied
<1>10. u \in TidRec
  <2>1. b \in UNION {[0 .. s - 1 -> SN \cup {None}] : s \in Sizes}
    BY <1>1, <1>3 DEF Slots
  <2>2. /\ t.head \in SN /\ t.aged \in SUBSET Nat /\ t.started \in BOOLEAN
        /\ t.stopped \in BOOLEAN /\ t.freed \in BOOLEAN
    BY <1>1 DEF TidRec
  <2>3. t.nframes + 1 \in Nat
    BY <1>1
  <2> QED BY <1>1, <1>2, <2>1, <2>2, <2>3 DEF TidRec
<1>11. u.nframes = Cardinality(Occupied(u))
  <2>1. IsFiniteSet(Occupied(t))
    BY <1>1, OccupiedIsFinite
  <2>2. Cardinality(Occupied(t) \cup {idx}) = Cardinality(Occupied(t)) + 1
    BY <1>9, <2>1, FS_AddElement
  <2> QED BY <1>5, <1>8, <2>2 DEF Sound
<1>12. u.nframes <= u.size
  BY <1>10, <1>11, OccupiedIsFinite
<1>13. u.aged \subseteq Occupied(u)
  BY <1>5, <1>8 DEF Sound, TidType
<1>14. u.buf \in [Slots(u) -> SN \cup {None}]
  BY <1>3, <1>5, <1>6
<1>15. Sound(u)
  BY <1>10, <1>11, <1>12, <1>13, <1>14 DEF Sound, TidType
<1> QED BY <1>5, <1>15 DEF u

\* The object rx_aggr_start initialises (agg-rx.c:244-265) is sound and empty.
LEMMA NewTidIsSound ==
  ASSUME NEW ssn \in SN, NEW size \in Sizes
  PROVE  /\ Sound(NewTid(ssn, size)) /\ NewTid(ssn, size).stopped = FALSE
         /\ NewTid(ssn, size).freed = FALSE /\ NewTid(ssn, size).nframes = 0
<1> DEFINE b == [i \in 0 .. size - 1 |-> None]
           u == [size |-> size, head |-> ssn, buf |-> b, aged |-> {}, nframes |-> 0,
                 started |-> FALSE, stopped |-> FALSE, freed |-> FALSE]
<1>0. NewTid(ssn, size) = u
  BY DEF NewTid
<1>1. size \in Nat \ {0}
  BY SizeIsPositive
<1>2. b \in [0 .. size - 1 -> SN \cup {None}] /\ \A i \in 0 .. size - 1 : b[i] = None
  OBVIOUS
<1> HIDE DEF b
<1>3. b \in UNION {[0 .. s - 1 -> SN \cup {None}] : s \in Sizes}
  BY <1>2
<1>4. u \in TidRec
  BY <1>3 DEF TidRec
<1>5. u.size = size /\ u.buf = b /\ u.aged = {} /\ u.nframes = 0 /\ u.stopped = FALSE /\ u.freed = FALSE
  OBVIOUS
<1> HIDE DEF u
<1>6. Slots(u) = 0 .. size - 1
  BY <1>5 DEF Slots
<1>7. Occupied(u) = {}
  BY <1>2, <1>5, <1>6 DEF Occupied
<1>8. Sound(u)
  BY <1>1, <1>2, <1>4, <1>5, <1>6, <1>7, FS_EmptySet DEF Sound, TidType
<1> QED BY <1>0, <1>5, <1>8

-----------------------------------------------------------------------------
(* The inductive invariant.                                                *)

Stopping == {"shutdown", "cancel", "sync"}

\* What the start/stop call in progress guarantees about the object it is
\* tearing down, and the flags of the others.
CtlInv ==
  /\ ctl.at \in Stopping => ctl.t # None /\ ~tid[ctl.t].freed /\ ctl.t # aggr
  /\ ctl.at \notin Stopping => ctl.t = None
  /\ ctl.at \in {"cancel", "sync"} => tid[ctl.t].stopped
  /\ ctl.at = "shutdown" => ~tid[ctl.t].stopped
  /\ aggr # None => ~tid[aggr].stopped /\ ~tid[aggr].freed
  /\ ctl.at = "sync" => work[ctl.t].cancel /\ ~work[ctl.t].armed
  /\ \A t \in Tids : work[t].cancel => ctl.at = "sync" /\ ctl.t = t
  /\ \A t \in Live : tid[t].freed => tid[t].stopped
  /\ \A t \in Live : tid[t].stopped => tid[t].nframes = 0
  /\ ctl.at = "alloc" => ctl.size \in Sizes

IInv ==
  /\ TypeOK
  /\ \A t \in Live : Sound(tid[t])
  /\ CtlInv
  /\ TimerInv
  /\ \A t \in Tids : tid[t] = None \/ tid[t].freed => ~work[t].armed /\ work[t].run = "idle"

\* The invariant holds before the first session.
LEMMA InitIInv == Init => IInv
<1> SUFFICES ASSUME Init PROVE IInv
  OBVIOUS
<1>1. Live = {}
  BY DEF Init, Live
<1>2. TypeOK
  BY <1>1, SNModAssumption DEF Init, TypeOK, Idle, NoCall, SN
<1>3. CtlInv
  BY <1>1 DEF Init, CtlInv, NoCall, Stopping
<1>4. TimerInv
  BY <1>1 DEF TimerInv
<1> QED BY <1>1, <1>2, <1>3, <1>4 DEF Init, IInv

\* A step that replaces one object by a sound one with the same flags.
LEMMA SectionStep ==
  ASSUME IInv, NEW id \in Live, NEW u, Sound(u), Changes(id, u),
         u.stopped = tid[id].stopped, u.freed = tid[id].freed
  PROVE  /\ DOMAIN tid' = Tids /\ Live' = Live
         /\ \A t \in Live : /\ Sound(tid'[t])
                            /\ tid'[t].stopped = tid[t].stopped /\ tid'[t].freed = tid[t].freed
                            /\ t # id => tid'[t] = tid[t]
         /\ \A t \in Tids \ Live : tid'[t] = None
         /\ tid'[id] = u
<1>1. DOMAIN tid = Tids /\ id \in Tids
  BY DEF IInv, TypeOK, Live
<1>2. tid'[id] = u /\ DOMAIN tid' = Tids /\ \A t \in Tids : t # id => tid'[t] = tid[t]
  BY <1>1 DEF Changes
<1>3. u # None
  BY NoneTidAssumption DEF Sound, TidType
<1>4. Live' = Live
  BY <1>2, <1>3 DEF Live
<1>5. \A t \in Live : Sound(tid[t])
  BY DEF IInv
<1> QED BY <1>2, <1>4, <1>5 DEF Live

\* ... and stores no frame, leaving work, ctl and aggr alone.
LEMMA DrainStep ==
  ASSUME IInv, NEW id \in Live, NEW u, Drained(tid[id], u), Changes(id, u),
         UNCHANGED <<work, ctl, aggr>>, rx' \in {Idle, rx}
  PROVE  IInv'
<1> USE DEF IInv
<1>1. /\ DOMAIN tid' = Tids /\ Live' = Live
      /\ \A t \in Live : /\ Sound(tid'[t])
                         /\ tid'[t].stopped = tid[t].stopped /\ tid'[t].freed = tid[t].freed
                         /\ t # id => tid'[t] = tid[t]
      /\ \A t \in Tids \ Live : tid'[t] = None
      /\ tid'[id] = u
  BY SectionStep DEF Drained
<1>2. \A t \in Live : tid'[t].nframes <= tid[t].nframes /\ tid'[t].nframes \in Nat /\ tid[t].nframes \in Nat
  BY <1>1 DEF Drained, Sound, TidType, TidRec
<1>3. TypeOK'
  BY <1>1 DEF TypeOK, Sound
<1>4. \A t \in Live' : Sound(tid'[t])
  BY <1>1
<1>5. Live \subseteq Tids /\ (aggr # None => aggr \in Live) /\ (ctl.t # None => ctl.t \in Live)
  BY DEF TypeOK, Live
<1>6. CtlInv'
  BY <1>1, <1>2, <1>5 DEF CtlInv, Stopping
<1>7. TimerInv'
  BY <1>1, <1>2 DEF TimerInv
<1>8. \A t \in Tids : tid'[t] = None \/ tid'[t].freed => ~work'[t].armed /\ work'[t].run = "idle"
  BY <1>1 DEF Live
<1> QED BY <1>3, <1>4, <1>6, <1>7, <1>8

\* The sections of the receive path preserve it.
LEMMA RxIInv == IInv /\ RxLocked => IInv'
<1> SUFFICES ASSUME IInv, RxLocked PROVE IInv'
  OBVIOUS
<1> DEFINE t == tid[rx.t]
<1>1. rx.t \in Live /\ rx.at \in {"data", "bar"} => Sound(t)
  BY DEF IInv
<1>2. /\ rx.t \in Live /\ rx.sn \in SN /\ Sound(t) /\ t.head \in SN /\ t.size \in Nat \ {0}
      /\ t \in TidRec
  <2>1. rx.at \in {"data", "bar"}
    BY DEF RxLocked, RxPass, RxDropLate, RxInOrder, RxStore, RxBar
  <2>2. rx # Idle
    BY <2>1 DEF Idle
  <2>3. rx.t \in Live /\ rx.sn \in SN
    BY <2>2 DEF IInv, TypeOK
  <2>4. Sound(t)
    BY <2>3 DEF IInv
  <2> QED BY <2>3, <2>4, SizeIsPositive DEF Sound, TidType, TidRec
<1>3. UNCHANGED <<ctl, aggr>> /\ rx' = Idle
  BY DEF RxLocked
<1> HIDE DEF t
<1>4. ASSUME NEW u, Drained(t, u), Changes(rx.t, u), UNCHANGED work PROVE IInv'
  BY <1>2, <1>3, <1>4, DrainStep DEF t
<1>5. Drained(t, t)
  BY <1>2 DEF Drained, Sound, TidType, TidRec
<1>6. CASE RxPass \/ RxDropLate
  <2>1. Changes(rx.t, t) /\ UNCHANGED work
    BY <1>6 DEF RxPass, RxDropLate, Unlock, Changes, t
  <2> QED BY <1>4, <1>5, <2>1
<1>7. CASE RxInOrder
  <2> DEFINE t1 == [t EXCEPT !.started = TRUE, !.head = SnInc(t.head)]
  <2>1. SnInc(t.head) \in SN
    <3>1. t.head + 1 \in Int /\ SNMod \in Nat \ {0}
      BY <1>2, SNModAssumption DEF SN
    <3>2. (t.head + 1) % SNMod \in 0 .. SNMod - 1
      BY <3>1, ModRange
    <3> QED BY <3>2 DEF SnInc, SN
  <2>2. Drained(t, t1)
    BY <1>2, <1>5, <2>1, FieldsDrain
  <2>3. UNCHANGED work /\ (Unlock(rx.t, t1, <<rx.sn>>) \/ UnlockAtHead(rx.t, t1, <<rx.sn>>))
    BY <1>7 DEF RxInOrder, t
  <2> HIDE DEF t1
  <2>4. CASE Unlock(rx.t, t1, <<rx.sn>>)
    BY <1>4, <2>2, <2>3, <2>4 DEF Unlock, Changes
  <2>5. CASE UnlockAtHead(rx.t, t1, <<rx.sn>>)
    <3>1. Sound(t1)
      BY <2>2 DEF Drained
    <3>2. PICK u : Drained(t1, u) /\ Changes(rx.t, u)
      BY <2>5, <3>1, SectionAtHead
    <3>3. Drained(t, u)
      BY <1>2, <2>2, <3>1, <3>2, DrainedTrans
    <3> QED BY <1>4, <2>3, <3>2, <3>3
  <2> QED BY <2>3, <2>4, <2>5
<1>8. CASE RxBar
  <2>1. UNCHANGED work
    BY <1>8 DEF RxBar
  <2>2. CASE t.stopped
    <3>1. Changes(rx.t, t)
      BY <1>8, <2>2 DEF RxBar, Unlock, Changes, t
    <3> QED BY <1>4, <1>5, <2>1, <3>1
  <2>3. CASE ~t.stopped
    <3>1. UnlockFrom(rx.t, t, rx.sn)
      BY <1>8, <2>3 DEF RxBar, t
    <3>2. PICK u : Drained(t, u) /\ Changes(rx.t, u)
      BY <1>2, <3>1, SectionFrom
    <3> QED BY <1>4, <2>1, <3>2
  <2> QED BY <2>2, <2>3
<1>9. CASE RxStore
  <2> DEFINE n == PassesFor(t, rx.sn)
             t1 == [Advance(t, n) EXCEPT !.started = TRUE]
             idx == rx.sn % t.size
  <2>1. n \in Nat
    <3>1. SnInc(SnSub(rx.sn, t.size)) \in Int
      <4>1. rx.sn - t.size \in Int /\ SNMod \in Nat \ {0}
        BY <1>2, SNModAssumption DEF SN
      <4>2. (rx.sn - t.size) % SNMod \in 0 .. SNMod - 1
        BY <4>1, ModRange
      <4>3. SnSub(rx.sn, t.size) + 1 \in Int
        BY <4>1, <4>2 DEF SnSub
      <4>4. (SnSub(rx.sn, t.size) + 1) % SNMod \in 0 .. SNMod - 1
        BY <4>1, <4>3, ModRange
      <4> QED BY <4>1, <4>4 DEF SnInc
    <3>2. t.head \in Int
      BY <1>2, SNModAssumption DEF SN
    <3> QED BY <3>1, <3>2, PassesAreNat DEF PassesFor
  <2> HIDE DEF n
  <2>2. Drained(t, Advance(t, n)) /\ Sound(Advance(t, n))
    BY <1>2, <2>1, AdvanceDrains DEF Drained
  <2>3. Drained(t, t1) /\ Sound(t1)
    BY <1>2, <2>2, FieldsDrain DEF Drained
  <2>4. ~t.stopped
    BY <1>9 DEF RxStore, t
  <2>5. \/ t1.buf[idx] # None /\ Unlock(rx.t, t1, Released(t, n)) /\ UNCHANGED work
        \/ /\ t1.buf[idx] = None
           /\ UnlockAtHead(rx.t, Put(t1, idx, rx.sn), Released(t, n))
           /\ work' = [work EXCEPT ![rx.t] = Queue(@)]
    BY <1>9 DEF RxStore, t, n
  <2>6. t1.size = t.size /\ t1.stopped = t.stopped /\ t1.freed = t.freed
    BY <2>3 DEF Drained
  <2>7. idx \in Slots(t1)
    <3>1. rx.sn \in Int
      BY <1>2, SNModAssumption DEF SN
    <3>2. rx.sn % t.size \in 0 .. t.size - 1
      BY <1>2, <3>1, ModRange
    <3> QED BY <2>6, <3>2 DEF Slots
  <2> HIDE DEF t1, idx
  <2>8. CASE t1.buf[idx] # None
    <3>1. Changes(rx.t, t1) /\ UNCHANGED work
      BY <2>5, <2>8 DEF Unlock, Changes
    <3> QED BY <1>4, <2>3, <3>1
  <2>9. CASE t1.buf[idx] = None
    <3> DEFINE t2 == Put(t1, idx, rx.sn)
    <3>1. Sound(t2) /\ t2.stopped = t.stopped /\ t2.freed = t.freed
      BY <1>2, <2>3, <2>6, <2>7, <2>9, StoreIsSound
    <3>2. UnlockAtHead(rx.t, t2, Released(t, n)) /\ work' = [work EXCEPT ![rx.t] = Queue(@)]
      BY <2>5, <2>9
    <3> HIDE DEF t2
    <3>3. PICK u : Drained(t2, u) /\ Changes(rx.t, u)
      BY <3>1, <3>2, SectionAtHead
    <3>4. Sound(u) /\ u.stopped = tid[rx.t].stopped /\ u.freed = tid[rx.t].freed
      BY <3>1, <3>3 DEF Drained, t
    <3>5. /\ DOMAIN tid' = Tids /\ Live' = Live
          /\ \A r \in Live : /\ Sound(tid'[r])
                             /\ tid'[r].stopped = tid[r].stopped /\ tid'[r].freed = tid[r].freed
                             /\ r # rx.t => tid'[r] = tid[r]
          /\ \A r \in Tids \ Live : tid'[r] = None
          /\ tid'[rx.t] = u
      BY <1>2, <3>3, <3>4, SectionStep
    <3>6. ~tid[rx.t].stopped /\ ~tid[rx.t].freed /\ rx.t \in Tids
      BY <1>2, <2>4 DEF IInv, CtlInv, Live, t
    <3>7. ~work[rx.t].cancel
      BY <3>6 DEF IInv, CtlInv
    <3>8. work \in [Tids -> [armed : BOOLEAN, run : {"idle", "requeue", "deliver"}, cancel : BOOLEAN]]
      BY DEF IInv, TypeOK
    <3>9. /\ work' \in [Tids -> [armed : BOOLEAN, run : {"idle", "requeue", "deliver"}, cancel : BOOLEAN]]
          /\ work'[rx.t].armed /\ ~work'[rx.t].cancel
          /\ \A r \in Tids : r # rx.t => work'[r] = work[r]
      BY <3>2, <3>6, <3>7, <3>8 DEF Queue
    <3>10. TypeOK'
      BY <1>3, <3>5, <3>9 DEF IInv, TypeOK, Sound
    <3>11. Live \subseteq Tids /\ (aggr # None => aggr \in Live) /\ (ctl.t # None => ctl.t \in Live)
      BY DEF IInv, TypeOK, Live
    <3>12. CtlInv'
      <4>1. ctl.at \in {"cancel", "sync"} => ctl.t # rx.t
        BY <3>6 DEF IInv, CtlInv
      <4>2. \A r \in Live' : tid'[r].stopped => tid'[r].nframes = 0
        BY <3>5, <3>6 DEF IInv, CtlInv
      <4>3. \A r \in Tids : work'[r].cancel => ctl.at = "sync" /\ ctl.t = r
        BY <3>9 DEF IInv, CtlInv
      <4>4. ctl.at = "sync" => work'[ctl.t].cancel /\ ~work'[ctl.t].armed
        BY <3>9, <3>11, <4>1 DEF IInv, CtlInv, Stopping
      <4> QED BY <1>3, <3>5, <3>11, <4>2, <4>3, <4>4 DEF IInv, CtlInv, Stopping
    <3>13. TimerInv'
      BY <3>5, <3>9, <3>11 DEF IInv, TimerInv
    <3>14. \A r \in Tids : tid'[r] = None \/ tid'[r].freed => ~work'[r].armed /\ work'[r].run = "idle"
      <4>1. tid'[rx.t] # None /\ ~tid'[rx.t].freed
        BY <1>2, <3>5, <3>6 DEF Live
      <4>2. \A r \in Live : r # rx.t => tid'[r] = tid[r]
        BY <3>5
      <4> QED BY <3>5, <3>9, <4>1, <4>2 DEF IInv, Live
    <3> QED BY <3>5, <3>10, <3>12, <3>13, <3>14 DEF IInv
  <2> QED BY <2>8, <2>9
<1> QED
  BY <1>6, <1>7, <1>8, <1>9 DEF RxLocked

WorkType == [Tids -> [armed : BOOLEAN, run : {"idle", "requeue", "deliver"}, cancel : BOOLEAN]]

\* Facts every action below starts from.
LEMMA Facts ==
  ASSUME IInv
  PROVE  /\ work \in WorkType /\ DOMAIN tid = Tids /\ Live \subseteq Tids
         /\ \A t \in Live : Sound(tid[t])
         /\ aggr # None => aggr \in Live
         /\ ctl.t # None => ctl.t \in Live
         /\ rx # Idle => rx.t \in Live
         /\ None \notin Tids
  BY NoneAssumption DEF IInv, TypeOK, WorkType, Live

\* The steps of the delayed work preserve it.
LEMMA WorkIInv ==
  ASSUME IInv, NEW t \in Tids, WorkNext(t)
  PROVE  IInv'
<1> USE Facts
<1>1. CASE WorkFire(t)
  <2>1. t \in Live /\ Sound(tid[t])
    BY <1>1 DEF WorkFire, IInv, Live
  <2>2. PICK u : Drained(tid[t], u) /\ Changes(t, u)
    BY <1>1, <2>1, SectionCheckRelease DEF WorkFire
  <2>3. /\ DOMAIN tid' = Tids /\ Live' = Live
        /\ \A r \in Live : /\ Sound(tid'[r])
                           /\ tid'[r].stopped = tid[r].stopped /\ tid'[r].freed = tid[r].freed
                           /\ r # t => tid'[r] = tid[r]
        /\ \A r \in Tids \ Live : tid'[r] = None
        /\ tid'[t] = u
    BY <2>1, <2>2, SectionStep DEF Drained
  <2>4. UNCHANGED <<aggr, rx, ctl>>
    BY <1>1 DEF WorkFire
  <2>5. /\ work' \in WorkType
        /\ ~work'[t].armed /\ work'[t].cancel = work[t].cancel
        /\ work'[t].run = IF tid'[t].nframes # 0 THEN "requeue" ELSE "deliver"
        /\ \A r \in Tids : r # t => work'[r] = work[r]
    BY <1>1 DEF WorkFire, WorkType
  <2>6. TypeOK'
    BY <2>3, <2>4, <2>5 DEF IInv, TypeOK, Sound, WorkType
  <2>7. \A r \in Live : tid'[r].nframes <= tid[r].nframes /\ tid'[r].nframes \in Nat /\ tid[r].nframes \in Nat
    BY <2>2, <2>3 DEF Drained, Sound, TidType, TidRec
  <2>8. work[t].armed /\ ~tid[t].freed
    BY <1>1 DEF WorkFire, IInv
  <2>9. CtlInv'
    BY <2>3, <2>4, <2>5, <2>7 DEF IInv, CtlInv, Stopping
  <2>10. TimerInv'
    BY <2>3, <2>4, <2>5, <2>7 DEF IInv, TimerInv
  <2>11. \A r \in Tids : tid'[r] = None \/ tid'[r].freed => ~work'[r].armed /\ work'[r].run = "idle"
    BY <2>1, <2>3, <2>5, <2>8 DEF IInv, Live
  <2> QED BY <2>3, <2>6, <2>9, <2>10, <2>11 DEF IInv
<1>2. CASE WorkRequeue(t)
  <2>1. UNCHANGED <<tid, aggr, rx, ctl>> /\ Live' = Live
    BY <1>2 DEF WorkRequeue, Live
  <2>2. /\ work' \in WorkType
        /\ work'[t].run = "deliver" /\ work'[t].cancel = work[t].cancel
        /\ work[t].run = "requeue"
        /\ work'[t].armed = (work[t].armed \/ ~work[t].cancel)
        /\ \A r \in Tids : r # t => work'[r] = work[r]
    BY <1>2 DEF WorkRequeue, WorkType, Queue
  <2>3. TypeOK'
    BY <2>1, <2>2 DEF IInv, TypeOK, WorkType
  <2>4. CtlInv'
    BY <2>1, <2>2 DEF IInv, CtlInv, Stopping
  <2>5. TimerInv'
    <3>1. work[t].cancel => tid[t].stopped
      BY DEF IInv, CtlInv
    <3> QED BY <2>1, <2>2, <3>1 DEF IInv, TimerInv
  <2>6. \A r \in Tids : tid'[r] = None \/ tid'[r].freed => ~work'[r].armed /\ work'[r].run = "idle"
    BY <2>1, <2>2 DEF IInv
  <2> QED BY <2>1, <2>3, <2>4, <2>5, <2>6 DEF IInv
<1>3. CASE WorkDone(t)
  <2>1. UNCHANGED <<tid, aggr, rx, ctl>> /\ Live' = Live
    BY <1>3 DEF WorkDone, Live
  <2>2. /\ work' \in WorkType
        /\ work'[t].run = "idle" /\ work'[t].cancel = work[t].cancel /\ work'[t].armed = work[t].armed
        /\ work[t].run = "deliver"
        /\ \A r \in Tids : r # t => work'[r] = work[r]
    BY <1>3 DEF WorkDone, WorkType
  <2>3. TypeOK'
    BY <2>1, <2>2 DEF IInv, TypeOK, WorkType
  <2>4. CtlInv'
    BY <2>1, <2>2 DEF IInv, CtlInv, Stopping
  <2>5. TimerInv'
    BY <2>1, <2>2 DEF IInv, TimerInv
  <2>6. \A r \in Tids : tid'[r] = None \/ tid'[r].freed => ~work'[r].armed /\ work'[r].run = "idle"
    BY <2>1, <2>2 DEF IInv
  <2> QED BY <2>1, <2>3, <2>4, <2>5, <2>6 DEF IInv
<1> QED BY <1>1, <1>2, <1>3 DEF WorkNext

\* Time passes: one more slot is aged.
LEMMA AgeIInv ==
  ASSUME IInv, NEW t \in Tids, NEW i, Age(t, i)
  PROVE  IInv'
<1> DEFINE v == tid[t]
           a == v.aged \cup {i}
           u == [v EXCEPT !.aged = a]
<1>1. t \in Live /\ Sound(v) /\ i \in Occupied(v)
  BY Facts DEF Age, Live
<1>2. tid' = [tid EXCEPT ![t] = u] /\ UNCHANGED <<aggr, work, rx, ctl>>
  BY DEF Age
<1>3. v \in TidRec /\ v.aged \subseteq Occupied(v)
  BY <1>1 DEF Sound, TidType
<1> HIDE DEF v
<1>4. v.aged \in SUBSET Nat /\ i \in Nat
  BY <1>1, <1>3, OccupiedIsFinite, SizeIsPositive DEF TidRec, Slots
<1>5. a \in SUBSET Nat /\ a \subseteq Occupied(v)
  BY <1>1, <1>3, <1>4
<1> HIDE DEF a
<1>6. /\ u \in TidRec /\ u.size = v.size /\ u.buf = v.buf /\ u.aged = a /\ u.nframes = v.nframes
      /\ u.stopped = v.stopped /\ u.freed = v.freed
  BY <1>3, <1>5 DEF TidRec
<1> HIDE DEF u
<1>7. Slots(u) = Slots(v) /\ Occupied(u) = Occupied(v)
  BY <1>6 DEF Slots, Occupied
<1>8. Sound(u)
  BY <1>1, <1>5, <1>6, <1>7 DEF Sound, TidType
<1>9. v.nframes \in Nat
  BY <1>3 DEF TidRec
<1>10. Drained(v, u)
  BY <1>6, <1>8, <1>9 DEF Drained
<1> QED
  BY <1>1, <1>2, <1>10, DrainStep DEF Changes, v

\* The steps of start and stop.
LEMMA CtlIInv ==
  ASSUME IInv,
         \/ CtlNext \/ Call(0, 0)
         \/ \E ssn \in StartSNs, size \in Sizes : Call(ssn, size)
  PROVE  IInv'
<1> USE Facts
<1>1. ASSUME NEW ssn \in SN, NEW size \in Sizes \cup {0}, Call(ssn, size) PROVE IInv'
  <2>1. /\ UNCHANGED <<tid, work, rx>> /\ Live' = Live /\ aggr' = None /\ ctl.at = "idle"
        /\ ctl' = [at |-> IF aggr # None THEN "shutdown"
                          ELSE IF size = 0 THEN "idle" ELSE "alloc",
                   t |-> aggr, ssn |-> ssn, size |-> size]
    BY <1>1 DEF Call, Live
  <2>2. ctl'.t = aggr /\ ctl'.at = IF aggr # None THEN "shutdown" ELSE IF size = 0 THEN "idle" ELSE "alloc"
    BY <2>1
  <2>3. TypeOK'
    BY <2>1 DEF IInv, TypeOK
  <2>4. CtlInv'
    BY <2>1, <2>2 DEF IInv, CtlInv, Stopping
  <2> QED BY <2>1, <2>3, <2>4 DEF IInv, TimerInv
<1>2. CASE Shutdown
  <2> DEFINE v == tid[ctl.t]
             gone == IF v.nframes = 0 THEN {} ELSE Occupied(v)
             w == Remove(v, gone)
             u == [w EXCEPT !.stopped = TRUE]
  <2>1. /\ ctl.at = "shutdown" /\ ctl.t \in Live /\ ctl.t \in Tids /\ Sound(v)
        /\ v.nframes = Cardinality(Occupied(v)) /\ v \in TidRec
    BY <1>2 DEF Shutdown, IInv, CtlInv, Stopping, Sound, TidType
  <2>2. tid' = [tid EXCEPT ![ctl.t] = u] /\ UNCHANGED <<aggr, work, rx>> /\ ctl' = [ctl EXCEPT !.at = "cancel"]
    BY <1>2 DEF Shutdown, Unlock
  <2>3. gone \subseteq Occupied(v)
    OBVIOUS
  <2>4. Occupied(v) \ gone = {}
    BY <2>1, OccupiedIsFinite, FS_EmptySet
  <2> HIDE DEF gone
  <2>5. Drained(v, w) /\ Occupied(w) = {}
    BY <2>1, <2>3, <2>4, RemoveDrains
  <2>6. Sound(w) /\ w.nframes = 0 /\ w \in TidRec
    BY <2>5, FS_EmptySet DEF Drained, Sound, TidType
  <2> HIDE DEF w
  <2>7. w.freed = v.freed
    BY <2>5 DEF Drained
  <2>8. Sound(u)
    <3>1. 0 \in SN
      BY SNModAssumption DEF SN
    <3>2. Drained(w, w)
      BY <2>6 DEF Drained
    <3> QED BY <2>6, <3>1, <3>2, FieldsDrain
  <2>9. u.stopped = TRUE /\ u.nframes = 0 /\ u.freed = v.freed
    BY <2>6, <2>7 DEF TidRec
  <2> HIDE DEF u
  <2>10. u # None
    BY <2>8, NoneTidAssumption DEF Sound, TidType
  <2>11. /\ DOMAIN tid' = Tids /\ Live' = Live /\ tid'[ctl.t] = u
         /\ \A r \in Tids : r # ctl.t => tid'[r] = tid[r]
    BY <2>1, <2>2, <2>10 DEF Live
  <2>12. ctl'.at = "cancel" /\ ctl'.t = ctl.t
         /\ ctl' \in [at : {"idle", "shutdown", "cancel", "sync", "alloc"},
                      t : Live \cup {None}, ssn : SN, size : Sizes \cup {0}]
    BY <2>2 DEF IInv, TypeOK
  <2>13. \A r \in Live' : Sound(tid'[r])
    BY <2>8, <2>11
  <2>14. TypeOK'
    BY <2>2, <2>11, <2>12, <2>13 DEF IInv, TypeOK, Sound
  <2>15. ctl.t # aggr /\ ~v.freed
    BY <2>1 DEF IInv, CtlInv, Stopping
  <2> HIDE DEF v
  <2>16. CtlInv'
    BY <2>1, <2>2, <2>9, <2>11, <2>12, <2>15 DEF IInv, CtlInv, Stopping
  <2>17. TimerInv'
    BY <2>2, <2>9, <2>11 DEF IInv, TimerInv
  <2>18. \A t \in Tids : tid'[t] = None \/ tid'[t].freed => ~work'[t].armed /\ work'[t].run = "idle"
    BY <2>2, <2>9, <2>10, <2>11, <2>15 DEF IInv
  <2> QED BY <2>13, <2>14, <2>16, <2>17, <2>18 DEF IInv
<1>3. CASE CancelBegin
  <2>1. /\ ctl.at = "cancel" /\ UNCHANGED <<tid, aggr, rx>> /\ Live' = Live
        /\ ctl.t \in Live /\ ctl.t \in Tids /\ tid[ctl.t].stopped
    BY <1>3 DEF CancelBegin, IInv, CtlInv, Stopping, Live
  <2>2. /\ work' \in WorkType
        /\ ~work'[ctl.t].armed /\ work'[ctl.t].cancel /\ work'[ctl.t].run = work[ctl.t].run
        /\ \A r \in Tids : r # ctl.t => work'[r] = work[r]
    BY <1>3, <2>1 DEF CancelBegin, WorkType
  <2>3. ctl'.at = "sync" /\ ctl'.t = ctl.t
         /\ ctl' \in [at : {"idle", "shutdown", "cancel", "sync", "alloc"},
                      t : Live \cup {None}, ssn : SN, size : Sizes \cup {0}]
    BY <1>3 DEF CancelBegin, IInv, TypeOK
  <2>4. TypeOK'
    BY <2>1, <2>2, <2>3 DEF IInv, TypeOK, WorkType
  <2>5. CtlInv'
    BY <2>1, <2>2, <2>3 DEF IInv, CtlInv, Stopping
  <2>6. TimerInv'
    BY <2>1, <2>2 DEF IInv, TimerInv
  <2> QED BY <2>1, <2>2, <2>4, <2>5, <2>6 DEF IInv
<1>4. CASE CancelEnd
  <2> DEFINE v == tid[ctl.t]
             u == [v EXCEPT !.freed = TRUE]
  <2>1. /\ ctl.at = "sync" /\ ctl.t \in Live /\ ctl.t \in Tids /\ v.stopped /\ work[ctl.t].run = "idle"
        /\ ~work[ctl.t].armed /\ v.nframes = 0 /\ Sound(v) /\ v \in TidRec /\ ctl.t # aggr
    BY <1>4 DEF CancelEnd, IInv, CtlInv, Stopping, Sound, TidType
  <2>2. tid' = [tid EXCEPT ![ctl.t] = u] /\ UNCHANGED <<aggr, rx>>
    BY <1>4, Zenon DEF CancelEnd
  <2>3. /\ work' \in WorkType
        /\ ~work'[ctl.t].armed /\ ~work'[ctl.t].cancel /\ work'[ctl.t].run = "idle"
        /\ \A r \in Tids : r # ctl.t => work'[r] = work[r]
    BY <1>4, <2>1 DEF CancelEnd, WorkType
  <2>4. /\ ctl'.at \in {"idle", "alloc"} /\ ctl'.t = None
        /\ ctl'.at = "alloc" => ctl'.size \in Sizes
        /\ ctl' \in [at : {"idle", "shutdown", "cancel", "sync", "alloc"},
                     t : Live \cup {None}, ssn : SN, size : Sizes \cup {0}]
    <3> DEFINE CtlType == [at : {"idle", "shutdown", "cancel", "sync", "alloc"},
                           t : Live \cup {None}, ssn : SN, size : Sizes \cup {0}]
    <3>1. ctl \in CtlType
      BY DEF IInv, TypeOK
    <3>2. CASE ctl.size = 0
      <4>1. ctl' = NoCall
        BY <1>4, <3>2 DEF CancelEnd
      <4> QED BY <4>1, SNModAssumption DEF NoCall, SN
    <3>3. CASE ctl.size # 0
      <4>1. ctl' = [ctl EXCEPT !.at = "alloc", !.t = None]
        BY <1>4, <3>3 DEF CancelEnd
      <4> QED BY <3>1, <3>3, <4>1
    <3> QED BY <3>2, <3>3
  <2> HIDE DEF v
  <2>5. Sound(u)
    <3>1. 0 \in SN
      BY SNModAssumption DEF SN
    <3>2. Drained(v, v)
      BY <2>1 DEF Drained
    <3> QED BY <2>1, <3>1, <3>2, FieldsDrain
  <2>6. u.stopped /\ u.freed /\ u.nframes = 0
    BY <2>1 DEF TidRec
  <2> HIDE DEF u
  <2>7. u # None
    BY <2>5, NoneTidAssumption DEF Sound, TidType
  <2>8. /\ DOMAIN tid' = Tids /\ Live' = Live /\ tid'[ctl.t] = u
        /\ \A r \in Tids : r # ctl.t => tid'[r] = tid[r]
    BY <2>1, <2>2, <2>7 DEF Live
  <2>9. \A r \in Live' : Sound(tid'[r])
    BY <2>5, <2>8
  <2>10. TypeOK'
    BY <2>2, <2>3, <2>4, <2>8, <2>9 DEF IInv, TypeOK, Sound, WorkType
  <2>11. CtlInv'
    <3>1. \A r \in Tids : ~work'[r].cancel
      BY <2>1, <2>3 DEF IInv, CtlInv
    <3>2. \A r \in Live : /\ tid'[r].freed => tid'[r].stopped
                          /\ tid'[r].stopped => tid'[r].nframes = 0
      BY <2>6, <2>8 DEF IInv, CtlInv
    <3>3. aggr # None => tid'[aggr] = tid[aggr]
      BY <2>1, <2>8
    <3> QED BY <2>2, <2>4, <2>8, <3>1, <3>2, <3>3 DEF IInv, CtlInv, Stopping
  <2>12. TimerInv'
    BY <2>3, <2>6, <2>8 DEF IInv, TimerInv
  <2>13. \A t \in Tids : tid'[t] = None \/ tid'[t].freed => ~work'[t].armed /\ work'[t].run = "idle"
    BY <2>3, <2>8 DEF IInv
  <2> QED BY <2>9, <2>10, <2>11, <2>12, <2>13 DEF IInv
<1>5. ASSUME NEW t \in Tids, Alloc(t) PROVE IInv'
  <2> DEFINE u == NewTid(ctl.ssn, ctl.size)
  <2>1. /\ ctl.at = "alloc" /\ tid[t] = None /\ tid' = [tid EXCEPT ![t] = u] /\ aggr' = t
        /\ ctl' = NoCall /\ UNCHANGED <<work, rx>> /\ t \notin Live /\ t # None
        /\ work[t].run = "idle" /\ ~work[t].armed
    BY <1>5 DEF Alloc, IInv, Live
  <2>2. CASE ctl.size \in Sizes
    <3>1. Sound(u) /\ u.stopped = FALSE /\ u.freed = FALSE /\ u.nframes = 0
      BY <2>2, NewTidIsSound DEF IInv, TypeOK
    <3> HIDE DEF u
    <3>2. u # None
      BY <3>1, NoneTidAssumption DEF Sound, TidType
    <3>3. /\ DOMAIN tid' = Tids /\ Live' = Live \cup {t} /\ tid'[t] = u
          /\ \A r \in Tids : r # t => tid'[r] = tid[r]
      BY <2>1, <3>2 DEF Live
    <3>4. \A r \in Live' : Sound(tid'[r])
      BY <3>1, <3>3
    <3>5. ctl'.at = "idle" /\ ctl'.t = None
          /\ ctl' \in [at : {"idle", "shutdown", "cancel", "sync", "alloc"},
                       t : Live \cup {None}, ssn : SN, size : Sizes \cup {0}]
      BY <2>1, SNModAssumption DEF NoCall, SN
    <3>6. TypeOK'
      BY <2>1, <3>3, <3>4, <3>5 DEF IInv, TypeOK, Sound
    <3>7. \A r \in Tids : ~work[r].cancel
      BY <2>1 DEF IInv, CtlInv
    <3>8. CtlInv'
      BY <2>1, <3>1, <3>3, <3>5, <3>7 DEF IInv, CtlInv, Stopping
    <3>9. TimerInv'
      BY <2>1, <3>1, <3>3 DEF IInv, TimerInv
    <3>10. \A r \in Tids : tid'[r] = None \/ tid'[r].freed => ~work'[r].armed /\ work'[r].run = "idle"
      BY <2>1, <3>3 DEF IInv
    <3> QED BY <3>4, <3>6, <3>8, <3>9, <3>10 DEF IInv
  <2> QED BY <2>1, <2>2 DEF IInv, CtlInv
<1>6. CASE AllocFail
  <2>1. /\ UNCHANGED <<tid, aggr, work, rx>> /\ Live' = Live /\ ctl' = NoCall /\ ctl.at = "alloc"
    BY <1>6 DEF AllocFail, Live
  <2>2. ctl'.at = "idle" /\ ctl'.t = None
    BY <2>1 DEF NoCall
  <2>3. TypeOK'
    BY <2>1, SNModAssumption DEF IInv, TypeOK, NoCall, SN
  <2>4. CtlInv'
    BY <2>1, <2>2 DEF IInv, CtlInv, Stopping
  <2> QED BY <2>1, <2>3, <2>4 DEF IInv, TimerInv
<1>7. 0 \in SN /\ StartSNs \subseteq SN
  BY SNModAssumption, StartAssumption DEF SN
<1> QED
  BY <1>1, <1>2, <1>3, <1>4, <1>5, <1>6, <1>7 DEF CtlNext

\* The receive path picks an object up, and the grace period of one ends.
LEMMA ReaderIInv ==
  ASSUME IInv,
         \/ \E sn \in SN, at \in {"data", "bar"} : RxDeref(sn, at)
         \/ \E t \in Tids : Reclaim(t)
  PROVE  IInv'
<1> USE Facts
<1>1. ASSUME NEW sn \in SN, NEW at \in {"data", "bar"}, RxDeref(sn, at) PROVE IInv'
  <2>1. UNCHANGED <<tid, aggr, work, ctl>> /\ Live' = Live
        /\ rx' \in [at : {"data", "bar"}, t : Live, sn : SN]
    BY <1>1 DEF RxDeref, Live
  <2>2. TypeOK'
    BY <2>1 DEF IInv, TypeOK
  <2> QED BY <2>1, <2>2 DEF IInv, CtlInv, TimerInv, Stopping
<1>2. ASSUME NEW t \in Tids, Reclaim(t) PROVE IInv'
  <2>1. /\ tid[t] # None /\ tid[t].freed /\ rx.t # t /\ tid' = [tid EXCEPT ![t] = None]
        /\ UNCHANGED <<aggr, work, rx, ctl>>
    BY <1>2 DEF Reclaim
  <2>2. /\ DOMAIN tid' = Tids /\ Live' = Live \ {t} /\ tid'[t] = None
        /\ \A r \in Tids : r # t => tid'[r] = tid[r]
    BY <2>1 DEF Live
  <2>3. aggr # t /\ ctl.t # t
    BY <2>1 DEF IInv, CtlInv, Stopping
  <2>4. TypeOK'
    <3>1. rx \in {Idle} \cup [at : {"data", "bar"}, t : Live', sn : SN]
      BY <2>1, <2>2 DEF IInv, TypeOK
    <3> QED BY <2>1, <2>2, <2>3, <3>1 DEF IInv, TypeOK
  <2>5. CtlInv'
    BY <2>1, <2>2, <2>3 DEF IInv, CtlInv, Stopping
  <2>6. TimerInv'
    BY <2>1, <2>2 DEF IInv, TimerInv
  <2> QED BY <2>1, <2>2, <2>4, <2>5, <2>6 DEF IInv
<1> QED BY <1>1, <1>2

\* Every step preserves it.
LEMMA NextIInv == IInv /\ [Next]_vars => IInv'
<1> SUFFICES ASSUME IInv, [Next]_vars PROVE IInv'
  OBVIOUS
<1>1. CASE UNCHANGED vars
  BY <1>1 DEF vars, IInv, TypeOK, CtlInv, TimerInv, Live, Stopping
<1>2. CASE RxNext
  BY <1>2, RxIInv, ReaderIInv DEF RxNext
<1>3. CASE \E t \in Tids : WorkNext(t) \/ Reclaim(t)
  BY <1>3, WorkIInv, ReaderIInv
<1>4. CASE \E t \in Tids : \E i \in AnySlot : Age(t, i)
  BY <1>4, AgeIInv
<1>5. CASE CtlNext \/ Call(0, 0) \/ \E ssn \in StartSNs, size \in Sizes : Call(ssn, size)
  BY <1>5, CtlIInv
<1> QED
  BY <1>1, <1>2, <1>3, <1>4, <1>5 DEF Next

\* IInv holds of every reachable state.
THEOREM Invariance == Spec => []IInv
  BY InitIInv, NextIInv, PTL DEF Spec

-----------------------------------------------------------------------------
\* Every reachable state is well typed: in particular the receive path and a
\* call of stop never hold an object that has been reclaimed, and nframes
\* never exceeds the window, whatever the interleaving.
THEOREM TypeCorrect == Spec => []TypeOK
<1>1. IInv => TypeOK
  BY DEF IInv
<1> QED BY <1>1, Invariance, PTL

\* A frame that waits in the buffer always has a timer: armed, or about to be
\* armed by the work that runs (agg-rx.c:109, 237).
THEOREM TimerNeverLost == Spec => []TimerInv
<1>1. IInv => TimerInv
  BY DEF IInv
<1> QED BY <1>1, Invariance, PTL

\* Once kfree_rcu has the object, its delayed work is quiet for good, its
\* buffer is empty and the pointer leads elsewhere (agg-rx.c:275-300).
THEOREM FreedObjectsAreQuiet == Spec => []FreedIsQuiet
<1>1. IInv => FreedIsQuiet
  <2> SUFFICES ASSUME IInv, NEW t \in Tids, tid[t] = None \/ tid[t].freed
               PROVE  /\ ~work[t].armed /\ work[t].run = "idle"
                      /\ aggr # t
                      /\ tid[t] # None => Occupied(tid[t]) = {}
    BY DEF FreedIsQuiet
  <2>1. ~work[t].armed /\ work[t].run = "idle"
    BY DEF IInv
  <2>2. aggr # t
    BY Facts DEF IInv, CtlInv, Live
  <2>3. ASSUME tid[t] # None PROVE Occupied(tid[t]) = {}
    <3>1. t \in Live /\ tid[t].nframes = 0
      BY <2>3 DEF IInv, CtlInv, Live
    <3>2. Sound(tid[t]) /\ tid[t] \in TidRec
      BY <3>1, Facts DEF Sound, TidType
    <3> QED BY <3>1, <3>2, OccupiedIsFinite, FS_EmptySet DEF Sound
  <2> QED BY <2>1, <2>2, <2>3
<1> QED BY <1>1, Invariance, PTL

-----------------------------------------------------------------------------
(* Sets of natural numbers and remainders.                                 *)

\* Every non-empty set of natural numbers has a least element.
LEMMA LeastNat ==
  ASSUME NEW S, S \subseteq Nat, S # {}
  PROVE  \E m \in S : \A k \in S : m <= k
<1> DEFINE R == StrictSubsetOrdering(Nat)
           T == {0 .. k : k \in S}
<1>1. IsWellFoundedOn(R, FiniteSubsetsOf(Nat))
  BY FS_StrictSubsetOrderingWellFounded
<1>2. \A k \in S : 0 .. k \subseteq Nat /\ IsFiniteSet(0 .. k)
  BY FS_Interval
<1>3. T \subseteq FiniteSubsetsOf(Nat) /\ T # {}
  BY <1>2 DEF FiniteSubsetsOf
<1>4. \E x \in T : \A y \in T : ~(<<y, x>> \in R)
  <2> HIDE DEF R, T
  <2> QED BY <1>1, <1>3, WFMin
<1>5. PICK m \in S : \A k \in S : ~(<<0 .. k, 0 .. m>> \in R)
  BY <1>4
<1>6. ASSUME NEW k \in S, ~(m <= k) PROVE FALSE
  <2>1. k \in Nat /\ m \in Nat /\ k < m
    BY <1>6
  <2>2. 0 .. k \subseteq 0 .. m /\ m \in 0 .. m /\ m \notin 0 .. k
    BY <2>1
  <2>3. <<0 .. k, 0 .. m>> \in R
    BY <1>2, <2>2 DEF StrictSubsetOrdering
  <2> QED BY <1>5, <2>3
<1> QED BY <1>6

\* The number of elements of H below k.
Below(H, k) == {j \in H : j < k}
Rank(H, k) == Cardinality(Below(H, k))

\* Ranks are natural numbers, they grow, and every number below the size of a
\* finite set of natural numbers is the rank of one element.
LEMMA Ranks ==
  ASSUME NEW n \in Nat, NEW H, H \subseteq 0 .. n - 1
  PROVE  /\ Cardinality(H) \in Nat
         /\ \A k \in H : Rank(H, k) \in 0 .. Cardinality(H) - 1
         /\ \A k, l \in H : k < l => Rank(H, k) < Rank(H, l)
         /\ \A r \in 0 .. Cardinality(H) - 1 : \E k \in H : Rank(H, k) = r
<1>0. H \subseteq Nat /\ \A k \in H : k < n
  OBVIOUS
<1>1. IsFiniteSet(H) /\ Cardinality(H) \in Nat
  <2>1. IsFiniteSet(0 .. n - 1)
    BY FS_Interval
  <2> QED BY <2>1, FS_Subset, FS_CardinalityType
<1>2. ASSUME NEW k \in Int
      PROVE  Below(H, k) \subseteq H /\ IsFiniteSet(Below(H, k)) /\ Rank(H, k) \in Nat
  <2>1. Below(H, k) \in SUBSET H
    BY DEF Below
  <2> QED BY <1>1, <2>1, FS_Subset, FS_CardinalityType DEF Rank
<1>3. ASSUME NEW k \in H, NEW S, S \subseteq H, Below(H, k) \subseteq S, k \in S
      PROVE  Rank(H, k) < Cardinality(S)
  <2>0. IsFiniteSet(S) /\ Cardinality(S) \in Nat /\ Rank(H, k) \in Nat
    <3>1. k \in Int /\ S \in SUBSET H
      BY <1>0, <1>3
    <3>2. IsFiniteSet(S)
      BY <1>1, <3>1, FS_Subset
    <3> QED BY <1>2, <3>1, <3>2, FS_CardinalityType
  <2>1. Below(H, k) \in SUBSET S /\ Below(H, k) # S
    <3>1. k \in Nat /\ ~(k < k)
      BY <1>0
    <3> QED BY <1>3, <3>1, Zenon DEF Below
  <2>2. Rank(H, k) <= Cardinality(S) /\ Rank(H, k) # Cardinality(S)
    BY <2>0, <2>1, FS_Subset DEF Rank
  <2> QED BY <2>0, <2>2
<1>4. \A k \in H : Rank(H, k) \in 0 .. Cardinality(H) - 1
  <2> TAKE k \in H
  <2>1. Rank(H, k) < Cardinality(H) /\ Rank(H, k) \in Nat
    BY <1>0, <1>2, <1>3
  <2> QED BY <1>1, <2>1
<1>5. ASSUME NEW k \in H, NEW l \in H, k < l PROVE Rank(H, k) < Rank(H, l)
  <2>1. Below(H, k) \subseteq Below(H, l) /\ k \in Below(H, l) /\ Below(H, l) \subseteq H
    <3>1. \A j \in H : j < k => j < l
      <4> TAKE j \in H
      <4>1. j \in Nat /\ k \in Nat /\ l \in Nat
        BY <1>0
      <4> QED BY <1>5, <4>1
    <3> QED BY <1>5, <3>1, Zenon DEF Below
  <2> QED BY <1>3, <2>1 DEF Rank
<1>6. ASSUME NEW r \in 0 .. Cardinality(H) - 1 PROVE \E k \in H : Rank(H, k) = r
  <2> DEFINE B == {b \in Nat : Rank(H, b) > r}
  <2>1. Rank(H, n) = Cardinality(H)
    <3>1. Below(H, n) = H
      BY <1>0 DEF Below
    <3> QED BY <3>1 DEF Rank
  <2>2. PICK m \in B : \A b \in B : m <= b
    <3>1. B \subseteq Nat /\ n \in B
      BY <1>1, <1>6, <2>1
    <3> HIDE DEF B
    <3> QED BY <3>1, LeastNat
  <2>3. m \in Nat /\ Rank(H, m) > r /\ \A b \in Nat : Rank(H, b) > r => m <= b
    BY <2>2
  <2>4. m # 0
    <3>1. Below(H, 0) = {}
      <4>1. \A j \in H : ~(j < 0)
        BY <1>0
      <4> QED BY <4>1, Zenon DEF Below
    <3>2. Rank(H, 0) = 0
      BY <3>1, FS_EmptySet DEF Rank
    <3> QED BY <1>6, <2>3, <3>2
  <2> DEFINE k == m - 1
  <2>5. k \in Nat /\ k \in Int /\ m \in Int /\ m = k + 1
    BY <2>3, <2>4
  <2>6. ~(Rank(H, k) > r)
    BY <2>3, <2>5
  <2> HIDE DEF k
  <2>7. Rank(H, k) \in Nat /\ Rank(H, m) \in Nat /\ IsFiniteSet(Below(H, k))
    BY <1>2, <2>5
  <2>8. Below(H, m) = Below(H, k) \cup (H \cap {k})
    <3>1. \A j \in H : j < m <=> (j < k \/ j = k)
      <4> TAKE j \in H
      <4>1. j \in Nat
        BY <1>0
      <4> QED BY <2>5, <4>1
    <3> QED BY <3>1, Zenon DEF Below
  <2>9. k \in H
    <3>1. CASE k \notin H
      <4>1. Below(H, m) = Below(H, k)
        BY <2>8, <3>1
      <4> QED BY <2>3, <2>6, <4>1 DEF Rank
    <3> QED BY <3>1
  <2>10. Below(H, m) = Below(H, k) \cup {k} /\ k \notin Below(H, k)
    BY <2>5, <2>8, <2>9 DEF Below
  <2>11. Rank(H, m) = Rank(H, k) + 1
    BY <2>7, <2>10, FS_AddElement DEF Rank
  <2> QED BY <1>6, <2>3, <2>6, <2>7, <2>9, <2>11
<1> QED BY <1>1, <1>4, <1>5, <1>6

\* Every integer is a multiple of the modulus and its remainder.
LEMMA ModQuotient ==
  ASSUME NEW n \in Nat \ {0}, NEW a \in Int
  PROVE  a % n \in 0 .. n - 1 /\ \E q \in Int : a = q * n + (a % n)
<1>1. a % n \in 0 .. n - 1
  BY ModRange
<1>2. a \div n \in Int /\ a = (a \div n) * n + (a % n)
  OBVIOUS
<1> QED BY <1>1, <1>2

\* The only multiple of n near 0 is 0.
LEMMA SmallMultiple ==
  ASSUME NEW n \in Nat \ {0}, NEW z \in Int, -n < z * n, z * n < n
  PROVE  z = 0
<1>1. z >= 1 => z * n >= n
  OBVIOUS
<1>2. z <= -1 => z * n <= -n
  OBVIOUS
<1> QED BY <1>1, <1>2

\* Numbers that differ by a multiple have the same remainder, and conversely.
LEMMA SameRemainder ==
  ASSUME NEW n \in Nat \ {0}, NEW a \in Int, NEW b \in Int
  PROVE  (a % n = b % n) <=> (\E q \in Int : a = b + q * n)
<1>1. PICK qa \in Int : a = qa * n + (a % n)
  BY ModQuotient
<1>2. PICK qb \in Int : b = qb * n + (b % n)
  BY ModQuotient
<1> DEFINE ra == a % n
           rb == b % n
<1>3. ra \in 0 .. n - 1 /\ rb \in 0 .. n - 1
  BY ModRange
<1>4. a = qa * n + ra /\ b = qb * n + rb
  BY <1>1, <1>2
<1> HIDE DEF ra, rb
<1>5. ASSUME ra = rb PROVE a = b + (qa - qb) * n
  BY <1>3, <1>4, <1>5
<1>6. ASSUME NEW q \in Int, a = b + q * n PROVE ra = rb
  <2> DEFINE z == qb + q - qa
  <2>1. z \in Int /\ ra - rb = z * n
    BY <1>3, <1>4, <1>6
  <2> HIDE DEF z
  <2>2. -n < z * n /\ z * n < n
    BY <1>3, <2>1
  <2>3. z = 0
    BY <2>1, <2>2, SmallMultiple
  <2> QED BY <1>3, <2>1, <2>3
<1>7. qa - qb \in Int
  OBVIOUS
<1> QED BY <1>5, <1>6, <1>7 DEF ra, rb

\* In particular a multiple of the modulus can be left out.
LEMMA ShiftRemainder ==
  ASSUME NEW n \in Nat \ {0}, NEW a \in Int, NEW b \in Int, NEW q \in Int, a = b + q * n
  PROVE  a % n = b % n
<1>1. \E x \in Int : a = b + x * n
  OBVIOUS
<1> QED BY <1>1, SameRemainder, Zenon

\* A remainder of zero means a multiple.
LEMMA Multiple ==
  ASSUME NEW n \in Nat \ {0}, NEW a \in Int, a % n = 0
  PROVE  \E q \in Int : a = q * n
<1>1. PICK q \in Int : a = q * n + (a % n)
  BY ModQuotient
<1>2. q * n \in Int
  OBVIOUS
<1> QED BY <1>1, <1>2

-----------------------------------------------------------------------------
(* Sequence numbers.                                                       *)

\* The sequence space is an even number of at least four.
LEMMA SNFacts == /\ SNMod \in Nat \ {0} /\ SN = 0 .. SNMod - 1 /\ SN \subseteq Int
                 /\ \E m \in Nat : m >= 2 /\ SNMod = 2 * m /\ SNMod \div 2 = m
<1>1. SNMod \in Nat /\ SNMod >= 4 /\ SNMod % 2 = 0
  BY SNModAssumption
<1>2. SNMod \div 2 \in Nat /\ SNMod = 2 * (SNMod \div 2)
  BY <1>1
<1>3. SNMod \div 2 >= 2
  BY <1>1, <1>2
<1> QED BY <1>1, <1>2, <1>3 DEF SN

\* Within one turn of the circle a remainder is at most one correction.
LEMMA Turn == \A x \in -SNMod .. 2 * SNMod - 1 :
                x % SNMod = IF x < 0 THEN x + SNMod ELSE IF x < SNMod THEN x ELSE x - SNMod
  BY SNFacts

\* The circular difference of two numbers.
LEMMA SubValue ==
  ASSUME NEW a \in SN, NEW b \in SN
  PROVE  SnSub(a, b) \in SN /\ SnSub(a, b) = IF a >= b THEN a - b ELSE a - b + SNMod
<1>1. PICK x \in -SNMod .. 2 * SNMod - 1 : x = a - b
  BY SNFacts
<1>2. SnSub(a, b) = IF x < 0 THEN x + SNMod ELSE IF x < SNMod THEN x ELSE x - SNMod
  BY <1>1, Turn DEF SnSub
<1> QED BY <1>1, <1>2, SNFacts

\* A number moved on by at most one turn.
LEMMA AddValue ==
  ASSUME NEW a \in SN, NEW k \in 0 .. SNMod
  PROVE  (a + k) % SNMod \in SN /\ (a + k) % SNMod = IF a + k < SNMod THEN a + k ELSE a + k - SNMod
<1>1. PICK x \in -SNMod .. 2 * SNMod - 1 : x = a + k
  BY SNFacts
<1>2. (a + k) % SNMod = IF x < 0 THEN x + SNMod ELSE IF x < SNMod THEN x ELSE x - SNMod
  BY <1>1, Turn
<1> QED BY <1>1, <1>2, SNFacts

\* Adding to a number, and subtracting, as one correction by a turn at most.
LEMMA Turns ==
  /\ \A a \in SN : \A k \in 0 .. SNMod :
       /\ (a + k) % SNMod \in SN
       /\ (a + k) % SNMod = IF a + k < SNMod THEN a + k ELSE a + k - SNMod
  /\ \A a, b \in SN : SnSub(a, b) \in SN /\ SnSub(a, b) = IF a >= b THEN a - b ELSE a - b + SNMod
  /\ SN \subseteq 0 .. SNMod
  BY AddValue, SubValue, SNFacts

\* The number at the distance of s is s.
LEMMA NumberBack == \A h, s \in SN : (h + SnSub(s, h)) % SNMod = s
<1> TAKE h, s \in SN
<1>1. PICK d \in SN : d = SnSub(s, h) /\ d = IF s >= h THEN s - h ELSE s - h + SNMod
  BY Turns
<1>2. (h + d) % SNMod = IF h + d < SNMod THEN h + d ELSE h + d - SNMod
  BY <1>1, Turns
<1> QED BY <1>1, <1>2, SNFacts

\* The distance of the number at a distance.
LEMMA DistanceOf == \A h, k \in SN : (h + k) % SNMod \in SN /\ SnSub((h + k) % SNMod, h) = k
<1> TAKE h, k \in SN
<1>1. PICK a \in SN : a = (h + k) % SNMod /\ a = IF h + k < SNMod THEN h + k ELSE h + k - SNMod
  BY Turns
<1>2. SnSub(a, h) = IF a >= h THEN a - h ELSE a - h + SNMod
  BY <1>1, Turns
<1> QED BY <1>1, <1>2, SNFacts

\* The head moves p towards s, or moved p towards it.
LEMMA DistanceFrom ==
  \A h, s, p \in SN :
    /\ p <= SnSub(s, h) => SnSub(s, (h + p) % SNMod) = SnSub(s, h) - p
    /\ SnSub(s, (h + p) % SNMod) + p < SNMod => SnSub(s, h) = SnSub(s, (h + p) % SNMod) + p
<1> TAKE h, s, p \in SN
<1>1. PICK d \in SN : d = SnSub(s, h) /\ d = IF s >= h THEN s - h ELSE s - h + SNMod
  BY Turns
<1>2. PICK a \in SN : a = (h + p) % SNMod /\ a = IF h + p < SNMod THEN h + p ELSE h + p - SNMod
  BY Turns
<1>3. SnSub(s, a) = IF s >= a THEN s - a ELSE s - a + SNMod
  BY <1>2, Turns
<1>4. p <= d => SnSub(s, a) = d - p
  BY <1>1, <1>2, <1>3, SNFacts
<1>5. SnSub(s, a) + p < SNMod => d = SnSub(s, a) + p
  BY <1>1, <1>2, <1>3, SNFacts
<1> QED BY <1>1, <1>2, <1>4, <1>5

\* Two moves of the head are one.
LEMMA HeadSum ==
  \A h, k, p \in SN : k + p < SNMod => (((h + k) % SNMod) + p) % SNMod = (h + (k + p)) % SNMod
<1> TAKE h, k, p \in SN
<1> HAVE k + p < SNMod
<1>1. PICK a \in SN : a = (h + k) % SNMod /\ a = IF h + k < SNMod THEN h + k ELSE h + k - SNMod
  BY Turns
<1>2. (a + p) % SNMod = IF a + p < SNMod THEN a + p ELSE a + p - SNMod
  BY <1>1, Turns
<1>3. PICK y \in SN : y = k + p
  BY SNFacts
<1>4. (h + y) % SNMod = IF h + y < SNMod THEN h + y ELSE h + y - SNMod
  BY <1>3, Turns
<1>5. (a + p) % SNMod = (h + y) % SNMod
  BY <1>1, <1>2, <1>3, <1>4, SNFacts
<1> QED BY <1>1, <1>3, <1>5

\* The window sizes this part is about: with any other size two numbers of one
\* window may share a slot where the sequence space wraps.
Aligned == \A s \in Sizes : SNMod % s = 0

\* Two numbers less than a window apart do not share a slot.
LEMMA SlotIsUnique ==
  ASSUME Aligned, NEW w \in Sizes, NEW h \in SN, NEW x \in SN, NEW y \in SN,
         x % w = y % w, SnSub(x, h) < w, SnSub(y, h) < w
  PROVE  x = y
<1>1. w \in Nat \ {0} /\ SNMod % w = 0
  BY SizeIsPositive DEF Aligned
<1>2. PICK q \in Int : x = y + q * w
  BY <1>1, SNFacts, SameRemainder
<1>3. PICK e \in Int : SNMod = e * w
  <2>1. SNMod \in Int
    BY SNFacts
  <2> QED BY <1>1, <2>1, Multiple, Zenon
<1> DEFINE dx == SnSub(x, h)
           dy == SnSub(y, h)
<1>4. /\ dx \in SN /\ dx = IF x >= h THEN x - h ELSE x - h + SNMod
      /\ dy \in SN /\ dy = IF y >= h THEN y - h ELSE y - h + SNMod
  BY SubValue
<1>5. dx < w /\ dy < w
  OBVIOUS
<1> HIDE DEF dx, dy
<1>6. \E z \in Int : dx - dy = z * w
  <2>1. dx - dy = x - y \/ dx - dy = x - y + SNMod \/ dx - dy = x - y - SNMod
    BY <1>4, SNFacts
  <2>2. CASE dx - dy = x - y
    <3>1. x - y = q * w
      BY <1>1, <1>2, SNFacts
    <3> QED BY <2>2, <3>1
  <2>3. CASE dx - dy = x - y + SNMod
    <3>1. dx - dy = (q + e) * w
      BY <1>1, <1>2, <1>3, <2>3, SNFacts
    <3> QED BY <3>1
  <2>4. CASE dx - dy = x - y - SNMod
    <3>1. dx - dy = (q - e) * w
      BY <1>1, <1>2, <1>3, <2>4, SNFacts
    <3> QED BY <3>1
  <2> QED BY <2>1, <2>2, <2>3, <2>4
<1>7. PICK z \in Int : dx - dy = z * w
  BY <1>6
<1>8. -w < z * w /\ z * w < w
  BY <1>1, <1>4, <1>5, <1>7, SNFacts
<1>9. z = 0
  BY <1>1, <1>8, SmallMultiple
<1>10. dx = dy
  BY <1>1, <1>4, <1>7, <1>9, SNFacts
<1> QED BY <1>4, <1>10, SNFacts

\* A pass a whole window later looks at the same slot again.
LEMMA SlotRepeats ==
  ASSUME Aligned, NEW t, t.size \in Sizes, t.head \in SN, NEW k \in SN, k >= t.size
  PROVE  k - t.size \in SN /\ SlotOf(t, k - t.size) = SlotOf(t, k)
<1> DEFINE w == t.size
           h == t.head
           a == (h + k) % SNMod
           b == (h + (k - w)) % SNMod
<1>1. w \in Nat \ {0} /\ SNMod % w = 0
  BY SizeIsPositive DEF Aligned
<1>2. k - w \in SN /\ k - w \in 0 .. SNMod /\ k \in 0 .. SNMod
  BY <1>1, SNFacts
<1>3. /\ a \in SN /\ a = IF h + k < SNMod THEN h + k ELSE h + k - SNMod
      /\ b \in SN /\ b = IF h + (k - w) < SNMod THEN h + (k - w) ELSE h + (k - w) - SNMod
  BY <1>2, AddValue
<1>4. PICK e \in Int : SNMod = e * w
  <2>1. SNMod \in Int
    BY SNFacts
  <2> QED BY <1>1, <2>1, Multiple, Zenon
<1>5. h \in SN
  OBVIOUS
<1> HIDE DEF a, b, w, h
<1>6. \E q \in Int : a = b + q * w
  <2>1. a = b + 1 * w \/ a = b + 1 * w - SNMod
    BY <1>1, <1>2, <1>3, <1>5, SNFacts
  <2>2. CASE a = b + 1 * w
    BY <2>2
  <2>3. CASE a = b + 1 * w - SNMod
    <3>1. a = b + (1 - e) * w
      BY <1>1, <1>3, <1>4, <2>3, SNFacts
    <3> QED BY <3>1
  <2> QED BY <2>1, <2>2, <2>3
<1>7. a % w = b % w
  <2>1. a \in Int /\ b \in Int
    BY <1>3, SNFacts
  <2> QED BY <1>1, <1>6, <2>1, ShiftRemainder, Zenon
<1> QED BY <1>2, <1>7 DEF a, b, w, h, SlotOf

-----------------------------------------------------------------------------
(* Buffers whose frames sit in their slots.                                *)

\* The first part of WindowInv for one object, with the least distance allowed.
Windowed(t, lo) ==
  \A i \in Occupied(t) : /\ i = t.buf[i] % t.size
                         /\ SnSub(t.buf[i], t.head) \in lo .. t.size - 1

\* What the type of an object says about its window, its slots and its frames.
LEMMA SoundFacts ==
  ASSUME NEW t, Sound(t)
  PROVE  /\ t.size \in Sizes /\ t.size \in Nat \ {0} /\ t.size \in SN /\ t.head \in SN
         /\ \A m \in Nat : SNMod = 2 * m => t.size <= m
         /\ \A i \in Occupied(t) : i \in Slots(t) /\ t.buf[i] \in SN /\ t.buf[i] # None
         /\ \A k \in Nat : SlotOf(t, k) \in Slots(t)
         /\ \A i \in Slots(t) : t.buf[i] # None => i \in Occupied(t)
<1>1. t.size \in Sizes /\ t.head \in SN
  BY DEF Sound, TidType, TidRec
<1>2. t.size \in 2 .. SNMod \div 2
  BY <1>1, SizesAssumption
<1>3. PICK m \in Nat : m >= 2 /\ SNMod = 2 * m /\ SNMod \div 2 = m
  BY SNFacts
<1>4. t.size \in Nat \ {0} /\ t.size <= m /\ t.size \in SN
  BY <1>2, <1>3, SNFacts
<1>5. \A i \in Occupied(t) : i \in Slots(t) /\ t.buf[i] \in SN /\ t.buf[i] # None
  BY DEF Sound, TidType, Occupied
<1>6. ASSUME NEW k \in Nat PROVE SlotOf(t, k) \in Slots(t)
  <2>1. (t.head + k) % SNMod \in Int
    <3>1. t.head + k \in Int
      BY <1>1, SNFacts
    <3>2. (t.head + k) % SNMod \in 0 .. SNMod - 1
      BY <3>1, SNFacts, ModRange, Zenon
    <3> QED BY <3>2, SNFacts
  <2>2. ((t.head + k) % SNMod) % t.size \in 0 .. t.size - 1
    BY <1>4, <2>1, ModRange, Zenon
  <2> QED BY <2>2 DEF SlotOf, Slots
<1>7. \A i \in Slots(t) : t.buf[i] # None => i \in Occupied(t)
  BY DEF Occupied
<1> QED BY <1>1, <1>3, <1>4, <1>5, <1>6, <1>7

\* A pass that meets a frame meets the one whose turn it is.
LEMMA FrameAt ==
  ASSUME Aligned, NEW t, Sound(t), Windowed(t, 0), NEW k \in SN, k < t.size,
         t.buf[SlotOf(t, k)] # None
  PROVE  /\ SlotOf(t, k) \in Occupied(t)
         /\ t.buf[SlotOf(t, k)] = (t.head + k) % SNMod
         /\ SnSub(t.buf[SlotOf(t, k)], t.head) = k
<1> DEFINE i == SlotOf(t, k)
           y == (t.head + k) % SNMod
<1>1. i \in Occupied(t) /\ t.buf[i] \in SN
  BY SoundFacts, SNFacts
<1>2. t.buf[i] % t.size = i /\ SnSub(t.buf[i], t.head) < t.size
  BY <1>1, SoundFacts DEF Windowed
<1>3. y \in SN /\ SnSub(y, t.head) = k
  <2>1. t.head \in SN
    BY SoundFacts
  <2> QED BY <2>1, DistanceOf, Zenon
<1>4. y % t.size = i
  BY DEF SlotOf
<1> HIDE DEF i, y
<1>5. t.buf[i] = y
  BY <1>1, <1>2, <1>3, <1>4, SoundFacts, SlotIsUnique
<1> QED BY <1>1, <1>3, <1>5 DEF i, y

\* Only the first passes, one per slot, meet frames.
LEMMA FullIsNear ==
  ASSUME Aligned, NEW t, Sound(t), NEW k \in SN, Full(t, k)
  PROVE  k < t.size /\ t.buf[SlotOf(t, k)] # None
<1>1. ASSUME k >= t.size PROVE FALSE
  <2>1. k - t.size \in SN /\ SlotOf(t, k - t.size) = SlotOf(t, k)
    BY <1>1, SoundFacts, SlotRepeats
  <2>2. k - t.size \in 0 .. k - 1
    BY <2>1, SoundFacts, SNFacts
  <2> QED BY <2>1, <2>2 DEF Full
<1>2. k \in Int /\ t.size \in Int
  BY SoundFacts, SNFacts
<1> QED BY <1>1, <1>2 DEF Full

\* Every frame is met by the pass of its distance, and by no earlier one.
LEMMA FrameIsMet ==
  ASSUME Aligned, NEW t, Sound(t), Windowed(t, 0), NEW i \in Occupied(t)
  PROVE  LET d == SnSub(t.buf[i], t.head)
         IN /\ d \in SN /\ d < t.size
            /\ SlotOf(t, d) = i /\ Full(t, d)
            /\ \A j \in SN : j < d => SlotOf(t, j) # i
<1> DEFINE d == SnSub(t.buf[i], t.head)
<1>1. t.buf[i] \in SN /\ t.head \in SN /\ t.buf[i] # None /\ t.size \in Nat
  BY SoundFacts
<1>2. d \in SN
  BY <1>1, SubValue
<1>3. i = t.buf[i] % t.size /\ d \in 0 .. t.size - 1
  BY DEF Windowed
<1>4. SlotOf(t, d) = i
  <2>1. (t.head + d) % SNMod = t.buf[i]
    BY <1>1, NumberBack, Zenon
  <2> QED BY <1>3, <2>1 DEF SlotOf
<1> HIDE DEF d
<1>5. ASSUME NEW j \in SN, j < d, SlotOf(t, j) = i PROVE FALSE
  <2>1. j < t.size
    BY <1>1, <1>2, <1>3, <1>5, SNFacts
  <2>2. SnSub(t.buf[i], t.head) = j
    BY <1>1, <1>5, <2>1, FrameAt
  <2> QED BY <1>2, <1>5, <2>2, SNFacts DEF d
<1>6. \A j \in 0 .. d - 1 : j \in SN /\ j < d
  BY <1>2, SNFacts
<1>7. Full(t, d)
  BY <1>1, <1>4, <1>5, <1>6 DEF Full
<1>8. d < t.size
  BY <1>1, <1>2, <1>3, SNFacts
<1> QED BY <1>2, <1>4, <1>5, <1>7, <1>8 DEF d

-----------------------------------------------------------------------------
(* What the passes of a release loop hand over.                            *)

\* u is t after p passes from its head, which handed over fr.
Flow(t, u, p, fr) ==
  /\ Sound(u) /\ u.size = t.size /\ u.stopped = t.stopped
  /\ p \in SN /\ u.head = (t.head + p) % SNMod
  /\ fr \in Seq(SN)
  /\ \A i \in DOMAIN fr : SnSub(fr[i], t.head) < p
  /\ \A i, j \in DOMAIN fr : i < j => SnSub(fr[i], t.head) < SnSub(fr[j], t.head)
  /\ \A i \in Occupied(t) : \/ i \in Occupied(u) /\ u.buf[i] = t.buf[i]
                            \/ \E k \in DOMAIN fr : fr[k] = t.buf[i]

Hits(t, n) == {k \in 0 .. n - 1 : Full(t, k)}
PassNo(t, n, i) == CHOOSE k \in Hits(t, n) : Rank(Hits(t, n), k) = i - 1

\* The frames n passes release: in the order of their distance, each frame met
\* exactly once.
LEMMA ReleasedFacts ==
  ASSUME Aligned, NEW t, Sound(t), Windowed(t, 0), NEW n \in SN
  PROVE  LET fr == Released(t, n)
         IN /\ fr \in Seq(SN)
            /\ \A i \in DOMAIN fr : SnSub(fr[i], t.head) < n
            /\ \A i, j \in DOMAIN fr : i < j => SnSub(fr[i], t.head) < SnSub(fr[j], t.head)
            /\ \A i \in Occupied(t) : SnSub(t.buf[i], t.head) < n
                                        => \E k \in DOMAIN fr : fr[k] = t.buf[i]
<1> DEFINE H == Hits(t, n)
           ps(i) == PassNo(t, n, i)
           fr == Released(t, n)
           c == Cardinality(H)
<1>1. fr = [i \in 1 .. c |-> t.buf[SlotOf(t, ps(i))]]
  BY DEF Released, PassNo, Hits, Rank, Below
<1>2. n \in Nat /\ H \subseteq 0 .. n - 1 /\ H \subseteq SN /\ \A k \in H : Full(t, k)
  BY SNFacts DEF Hits
<1>3. /\ c \in Nat
      /\ \A k \in H : Rank(H, k) \in 0 .. c - 1
      /\ \A k, l \in H : k < l => Rank(H, k) < Rank(H, l)
      /\ \A r \in 0 .. c - 1 : \E k \in H : Rank(H, k) = r
  <2> HIDE DEF H
  <2> QED BY <1>2, Ranks
<1>4. ASSUME NEW i \in 1 .. c PROVE ps(i) \in H /\ Rank(H, ps(i)) = i - 1
  <2>1. i - 1 \in 0 .. c - 1
    BY <1>3
  <2>2. \E k \in H : Rank(H, k) = i - 1
    BY <1>3, <2>1
  <2> HIDE DEF H
  <2> QED BY <2>2 DEF PassNo, H
<1>5. ASSUME NEW k \in H
      PROVE  /\ k \in SN /\ k < n /\ t.buf[SlotOf(t, k)] \in SN
             /\ SnSub(t.buf[SlotOf(t, k)], t.head) = k
  <2>1. k \in SN /\ k < n /\ Full(t, k)
    BY <1>2, SNFacts
  <2>2. k < t.size /\ t.buf[SlotOf(t, k)] # None
    BY <2>1, FullIsNear
  <2> QED BY <2>1, <2>2, FrameAt, SoundFacts
<1>6. ASSUME NEW k \in H, NEW l \in H, Rank(H, k) < Rank(H, l) PROVE k < l
  <2>1. k \in Int /\ l \in Int /\ Rank(H, k) \in Int /\ Rank(H, l) \in Int
    BY <1>2, <1>3, SNFacts
  <2>2. ~(k = l)
    BY <1>6, <2>1
  <2>3. ~(l < k)
    BY <1>3, <1>6, <2>1
  <2> QED BY <2>1, <2>2, <2>3
<1>7. ASSUME NEW i \in Occupied(t), SnSub(t.buf[i], t.head) < n
      PROVE  \E k \in 1 .. c : t.buf[SlotOf(t, ps(k))] = t.buf[i]
  <2> DEFINE d == SnSub(t.buf[i], t.head)
  <2>1. d \in SN /\ SlotOf(t, d) = i /\ Full(t, d)
    BY FrameIsMet
  <2>2. d \in H
    BY <1>7, <2>1, SNFacts DEF Hits
  <2> HIDE DEF d
  <2>3. Rank(H, d) \in 0 .. c - 1
    BY <1>3, <2>2
  <2>4. PICK k \in 1 .. c : k - 1 = Rank(H, d)
    <3>1. Rank(H, d) + 1 \in 1 .. c /\ (Rank(H, d) + 1) - 1 = Rank(H, d)
      BY <1>3, <2>3
    <3> QED BY <3>1
  <2>5. ps(k) \in H /\ Rank(H, ps(k)) = Rank(H, d)
    BY <1>4, <2>4
  <2> HIDE DEF ps, H
  <2>6. ps(k) = d
    <3>1. ps(k) \in Int /\ d \in Int /\ Rank(H, d) \in Int
      <4>1. H \subseteq Int /\ Rank(H, d) \in 0 .. c - 1
        BY <1>2, <1>3, <2>2, SNFacts
      <4>2. c \in Nat
        BY <1>3
      <4>3. Rank(H, d) \in Int
        BY <4>1, <4>2
      <4>4. ps(k) \in Int /\ d \in Int
        BY <2>2, <2>5, <4>1
      <4> QED BY <4>3, <4>4
    <3>2. ~(ps(k) < d) /\ ~(d < ps(k))
      BY <1>3, <2>2, <2>5, <3>1
    <3> QED BY <3>1, <3>2
  <2> QED BY <2>1, <2>6
<1>8. DOMAIN fr = 1 .. c /\ \A i \in 1 .. c : fr[i] = t.buf[SlotOf(t, ps(i))]
  BY <1>1
<1> HIDE DEF H, ps, c, fr
<1>9. \A i \in 1 .. c : fr[i] \in SN /\ SnSub(fr[i], t.head) = ps(i) /\ ps(i) \in H /\ ps(i) < n
  BY <1>4, <1>5, <1>8
<1>10. fr \in Seq(SN)
  <2>1. fr \in [1 .. c -> SN]
    BY <1>1, <1>8, <1>9
  <2> QED BY <1>3, <2>1
<1>11. \A i, j \in 1 .. c : i < j => SnSub(fr[i], t.head) < SnSub(fr[j], t.head)
  <2> SUFFICES ASSUME NEW i \in 1 .. c, NEW j \in 1 .. c, i < j PROVE ps(i) < ps(j)
    BY <1>9
  <2>1. Rank(H, ps(i)) < Rank(H, ps(j))
    BY <1>4, <1>3
  <2> QED BY <1>6, <1>9, <2>1
<1> QED BY <1>7, <1>8, <1>9, <1>10, <1>11 DEF fr

\* What the release loop leaves of an object.
LEMMA AdvanceValue ==
  ASSUME NEW t, Sound(t), NEW n \in Nat
  PROVE  LET u == Advance(t, n)
             gone == {i \in Occupied(t) : \E k \in 0 .. n - 1 : SlotOf(t, k) = i}
         IN /\ u.size = t.size /\ u.stopped = t.stopped /\ u.head = (t.head + n) % SNMod
            /\ Occupied(u) = Occupied(t) \ gone
            /\ \A i \in Occupied(u) : u.buf[i] = t.buf[i]
<1> DEFINE gone == {i \in Occupied(t) : \E k \in 0 .. n - 1 : SlotOf(t, k) = i}
           h == (t.head + n) % SNMod
           v == Remove(t, gone)
           u == [v EXCEPT !.head = h]
<1>1. t \in TidRec
  BY DEF Sound, TidType
<1> HIDE DEF gone
<1>2. v.head = t.head
  BY <1>1 DEF Remove, TidRec
<1>3. Advance(t, n) = u
  BY <1>2 DEF Advance, gone
<1>4. gone \subseteq Occupied(t)
  BY DEF gone
<1>5. Sound(v) /\ v.size = t.size /\ v.stopped = t.stopped /\ Occupied(v) = Occupied(t) \ gone
  BY <1>4, RemoveDrains DEF Drained
<1>6. v.buf = [i \in Slots(t) |-> IF i \in gone THEN None ELSE t.buf[i]]
  BY <1>1 DEF Remove, TidRec
<1> HIDE DEF v, h
<1>7. u.size = v.size /\ u.stopped = v.stopped /\ u.head = h /\ u.buf = v.buf
  BY <1>5 DEF Sound, TidType, TidRec
<1> HIDE DEF u
<1>8. Occupied(u) = Occupied(v)
  BY <1>7 DEF Occupied, Slots
<1>9. \A i \in Occupied(v) : v.buf[i] = t.buf[i]
  BY <1>5, <1>6 DEF Occupied
<1> QED BY <1>3, <1>5, <1>7, <1>8, <1>9 DEF h, gone

\* n passes of the loop: a flow that keeps the rest of the window, and one that
\* ends strictly inside it where the slot of the new head is empty.
LEMMA AdvanceFlow ==
  ASSUME Aligned, NEW t, Sound(t), Windowed(t, 0), NEW n \in SN
  PROVE  LET u == Advance(t, n)
         IN /\ Flow(t, u, n, Released(t, n)) /\ Windowed(u, 0)
            /\ ~Full(t, n) => Windowed(u, 1)
<1> DEFINE u == Advance(t, n)
           fr == Released(t, n)
<1>0. n \in Nat
  BY SNFacts
<1>1. Sound(u)
  BY <1>0, AdvanceDrains DEF Drained
<1>2. /\ u.size = t.size /\ u.stopped = t.stopped /\ u.head = (t.head + n) % SNMod
      /\ Occupied(u) = Occupied(t) \ {i \in Occupied(t) : \E k \in 0 .. n - 1 : SlotOf(t, k) = i}
      /\ \A i \in Occupied(u) : u.buf[i] = t.buf[i]
  BY <1>0, AdvanceValue
<1>3. /\ fr \in Seq(SN)
      /\ \A i \in DOMAIN fr : SnSub(fr[i], t.head) < n
      /\ \A i, j \in DOMAIN fr : i < j => SnSub(fr[i], t.head) < SnSub(fr[j], t.head)
      /\ \A i \in Occupied(t) : SnSub(t.buf[i], t.head) < n
                                  => \E k \in DOMAIN fr : fr[k] = t.buf[i]
  BY ReleasedFacts
<1> HIDE DEF u, fr
<1>4. \A i \in Occupied(t) : i \in Slots(t) /\ t.buf[i] \in SN
  BY SoundFacts
<1>5. ASSUME NEW i \in Occupied(t)
      PROVE  /\ i \in Occupied(u) <=> SnSub(t.buf[i], t.head) >= n
             /\ SnSub(t.buf[i], t.head) \in SN
  <2> DEFINE d == SnSub(t.buf[i], t.head)
  <2>1. d \in SN /\ SlotOf(t, d) = i /\ \A j \in SN : j < d => SlotOf(t, j) # i
    BY FrameIsMet
  <2> HIDE DEF d
  <2>2. CASE d >= n
    <3>1. \A k \in 0 .. n - 1 : k \in SN /\ k < d
      BY <2>1, <2>2, SNFacts
    <3> QED BY <1>2, <2>1, <2>2, <3>1 DEF d
  <2>3. CASE ~(d >= n)
    <3>1. d \in 0 .. n - 1
      BY <2>1, <2>3, SNFacts
    <3> QED BY <1>2, <2>1, <2>3, <3>1 DEF d
  <2> QED BY <2>2, <2>3
<1>6. ASSUME NEW i \in Occupied(u)
      PROVE  /\ i = u.buf[i] % u.size
             /\ SnSub(u.buf[i], u.head) \in 0 .. u.size - 1
             /\ ~Full(t, n) => SnSub(u.buf[i], u.head) # 0
  <2> DEFINE d == SnSub(t.buf[i], t.head)
  <2>1. i \in Occupied(t) /\ u.buf[i] = t.buf[i] /\ t.buf[i] \in SN /\ t.head \in SN
    BY <1>2, <1>4, SoundFacts
  <2>2. d \in SN /\ d < t.size /\ Full(t, d)
    BY <2>1, FrameIsMet
  <2>3. n <= d
    BY <1>5, <2>1, <2>2, SNFacts
  <2>4. SnSub(t.buf[i], (t.head + n) % SNMod) = d - n
    BY <2>1, <2>3, DistanceFrom
  <2> HIDE DEF d
  <2>5. SnSub(u.buf[i], u.head) = d - n
    BY <1>2, <2>1, <2>4
  <2>6. d - n \in 0 .. t.size - 1
    BY <2>2, <2>3, SoundFacts, SNFacts
  <2>7. ~Full(t, n) => d - n # 0
    <3>1. ~Full(t, n) => d # n
      BY <2>2
    <3> QED BY <2>2, <3>1, SNFacts
  <2>8. i = t.buf[i] % t.size
    BY <2>1 DEF Windowed
  <2> QED BY <1>2, <2>1, <2>5, <2>6, <2>7, <2>8
<1>7. Windowed(u, 0)
  BY <1>6 DEF Windowed
<1>8. ~Full(t, n) => Windowed(u, 1)
  <2> SUFFICES ASSUME ~Full(t, n), NEW i \in Occupied(u)
               PROVE  i = u.buf[i] % u.size /\ SnSub(u.buf[i], u.head) \in 1 .. u.size - 1
    BY DEF Windowed
  <2>1. SnSub(u.buf[i], u.head) \in 0 .. u.size - 1 /\ SnSub(u.buf[i], u.head) # 0 /\ i = u.buf[i] % u.size
    BY <1>6
  <2>2. u.size \in Nat
    BY <1>1, SoundFacts
  <2> QED BY <2>1, <2>2
<1>9. ASSUME NEW i \in Occupied(t)
      PROVE  \/ i \in Occupied(u) /\ u.buf[i] = t.buf[i]
             \/ \E k \in DOMAIN fr : fr[k] = t.buf[i]
  <2>1. CASE SnSub(t.buf[i], t.head) >= n
    BY <1>2, <1>5, <2>1
  <2>2. CASE ~(SnSub(t.buf[i], t.head) >= n)
    <3>1. SnSub(t.buf[i], t.head) < n
      BY <1>5, <2>2, SNFacts
    <3> QED BY <1>3, <3>1
  <2> QED BY <2>1, <2>2
<1>10. Flow(t, u, n, fr)
  BY <1>1, <1>2, <1>3, <1>9 DEF Flow
<1> QED BY <1>7, <1>8, <1>10 DEF u, fr

\* One flow after another is a flow, as long as the head does not go round.
LEMMA FlowTrans ==
  ASSUME NEW t, Sound(t), NEW u, NEW v, NEW p, NEW q, NEW f, NEW g,
         Flow(t, u, p, f), Flow(u, v, q, g), p + q < SNMod
  PROVE  Flow(t, v, p + q, f \o g)
<1>1. /\ t.head \in SN /\ u.head \in SN /\ u.head = (t.head + p) % SNMod
      /\ v.head = (u.head + q) % SNMod
      /\ p \in SN /\ q \in SN /\ p \in Nat /\ q \in Nat /\ p + q \in SN
      /\ f \in Seq(SN) /\ g \in Seq(SN) /\ Sound(u)
  BY SoundFacts, SNFacts DEF Flow
<1>2. v.head = (t.head + (p + q)) % SNMod
  <2>1. (((t.head + p) % SNMod) + q) % SNMod = (t.head + (p + q)) % SNMod
    BY <1>1, HeadSum, Zenon
  <2> QED BY <1>1, <2>1, Zenon
<1>3. ASSUME NEW s \in SN, SnSub(s, u.head) < q
      PROVE  SnSub(s, t.head) = SnSub(s, u.head) + p /\ SnSub(s, u.head) \in SN
  <2>2. SnSub(s, u.head) \in SN
    BY <1>1, SubValue
  <2>3. SnSub(s, u.head) + p < SNMod
    BY <1>1, <1>3, <2>2, SNFacts
  <2>4. SnSub(s, (t.head + p) % SNMod) + p < SNMod
    BY <1>1, <2>3, Zenon
  <2>5. SnSub(s, t.head) = SnSub(s, (t.head + p) % SNMod) + p
    BY <1>1, <2>4, DistanceFrom, Zenon
  <2> QED BY <1>1, <2>2, <2>5, Zenon
<1> DEFINE e == f \o g
           dist(s) == SnSub(s, t.head)
<1>4. /\ e \in Seq(SN) /\ DOMAIN e = 1 .. Len(f) + Len(g)
      /\ DOMAIN f = 1 .. Len(f) /\ DOMAIN g = 1 .. Len(g) /\ Len(f) \in Nat /\ Len(g) \in Nat
      /\ \A i \in 1 .. Len(f) : e[i] = f[i] /\ i \in DOMAIN e
      /\ \A i \in 1 .. Len(g) : e[Len(f) + i] = g[i] /\ Len(f) + i \in DOMAIN e
      /\ \A i \in DOMAIN e : \/ i \in DOMAIN f /\ e[i] = f[i]
                             \/ i - Len(f) \in DOMAIN g /\ e[i] = g[i - Len(f)]
  <2>1. /\ e \in Seq(SN) /\ DOMAIN e = 1 .. Len(f) + Len(g)
        /\ DOMAIN f = 1 .. Len(f) /\ DOMAIN g = 1 .. Len(g) /\ Len(f) \in Nat /\ Len(g) \in Nat
    BY <1>1
  <2>2. \A i \in 1 .. Len(f) : e[i] = f[i] /\ i \in DOMAIN e
    BY <1>1, <2>1
  <2>3. \A i \in 1 .. Len(g) : e[Len(f) + i] = g[i] /\ Len(f) + i \in DOMAIN e
    BY <1>1, <2>1
  <2>4. ASSUME NEW i \in DOMAIN e
        PROVE  \/ i \in DOMAIN f /\ e[i] = f[i]
               \/ i - Len(f) \in DOMAIN g /\ e[i] = g[i - Len(f)]
    <3>1. CASE i <= Len(f)
      BY <2>1, <2>2, <3>1
    <3>2. CASE ~(i <= Len(f))
      <4>1. i - Len(f) \in 1 .. Len(g) /\ Len(f) + (i - Len(f)) = i
        BY <2>1, <3>2
      <4> QED BY <2>1, <2>3, <4>1
    <3> QED BY <3>1, <3>2
  <2> QED BY <2>1, <2>2, <2>3, <2>4
<1> HIDE DEF e, dist
<1>5. \A i \in DOMAIN f : f[i] \in SN /\ dist(f[i]) \in SN /\ dist(f[i]) < p
  <2> TAKE i \in DOMAIN f
  <2>1. f[i] \in SN /\ SnSub(f[i], t.head) < p
    BY <1>1 DEF Flow
  <2> QED BY <1>1, <2>1, SubValue DEF dist
<1>6. ASSUME NEW i \in DOMAIN g
      PROVE  /\ g[i] \in SN /\ SnSub(g[i], u.head) \in SN
             /\ dist(g[i]) = SnSub(g[i], u.head) + p /\ SnSub(g[i], u.head) < q
  <2>1. g[i] \in SN /\ SnSub(g[i], u.head) < q
    BY <1>1 DEF Flow
  <2> QED BY <1>3, <2>1 DEF dist
<1>7. \A i \in DOMAIN e : dist(e[i]) < p + q
  <2> SUFFICES ASSUME NEW i \in DOMAIN e PROVE dist(e[i]) < p + q
    OBVIOUS
  <2>1. CASE i \in DOMAIN f /\ e[i] = f[i]
    BY <1>1, <1>5, <2>1, SNFacts
  <2>2. CASE i - Len(f) \in DOMAIN g /\ e[i] = g[i - Len(f)]
    <3>1. PICK x \in SN : x = SnSub(g[i - Len(f)], u.head) /\ x < q /\ dist(e[i]) = x + p
      BY <1>6, <2>2
    <3> QED BY <1>1, <3>1, SNFacts
  <2> QED BY <1>4, <2>1, <2>2
<1>8. \A i, j \in DOMAIN e : i < j => dist(e[i]) < dist(e[j])
  <2> SUFFICES ASSUME NEW i \in DOMAIN e, NEW j \in DOMAIN e, i < j PROVE dist(e[i]) < dist(e[j])
    OBVIOUS
  <2>1. CASE i \in DOMAIN f /\ e[i] = f[i] /\ j \in DOMAIN f /\ e[j] = f[j]
    BY <2>1 DEF Flow, dist
  <2>2. CASE /\ i \in DOMAIN f /\ e[i] = f[i]
             /\ j - Len(f) \in DOMAIN g /\ e[j] = g[j - Len(f)]
    <3>1. PICK x \in SN : x = SnSub(g[j - Len(f)], u.head) /\ x < q /\ dist(e[j]) = x + p
      BY <1>6, <2>2
    <3>2. dist(e[i]) \in SN /\ dist(e[i]) < p
      BY <1>5, <2>2
    <3> QED BY <1>1, <3>1, <3>2, SNFacts
  <2>3. CASE /\ i - Len(f) \in DOMAIN g /\ e[i] = g[i - Len(f)]
             /\ j - Len(f) \in DOMAIN g /\ e[j] = g[j - Len(f)]
    <3>1. PICK x \in SN : x = SnSub(g[i - Len(f)], u.head) /\ dist(e[i]) = x + p
      BY <1>6, <2>3
    <3>2. PICK y \in SN : y = SnSub(g[j - Len(f)], u.head) /\ dist(e[j]) = y + p
      BY <1>6, <2>3
    <3>3. i - Len(f) < j - Len(f)
      BY <1>4
    <3>4. x < y
      BY <2>3, <3>1, <3>2, <3>3 DEF Flow
    <3> QED BY <1>1, <3>1, <3>2, <3>4, SNFacts
  <2>4. CASE i - Len(f) \in DOMAIN g /\ j \in DOMAIN f
    BY <1>4, <2>4
  <2> QED BY <1>4, <2>1, <2>2, <2>3, <2>4
<1>9. ASSUME NEW i \in Occupied(t)
      PROVE  \/ i \in Occupied(v) /\ v.buf[i] = t.buf[i]
             \/ \E k \in DOMAIN e : e[k] = t.buf[i]
  <2>1. CASE \E k \in DOMAIN f : f[k] = t.buf[i]
    BY <1>4, <2>1
  <2>2. CASE i \in Occupied(u) /\ u.buf[i] = t.buf[i]
    <3>1. CASE i \in Occupied(v) /\ v.buf[i] = u.buf[i]
      BY <2>2, <3>1
    <3>2. CASE \E k \in DOMAIN g : g[k] = u.buf[i]
      <4>1. PICK k \in 1 .. Len(g) : g[k] = u.buf[i]
        BY <1>4, <3>2
      <4>2. e[Len(f) + k] = t.buf[i] /\ Len(f) + k \in DOMAIN e
        BY <1>4, <2>2, <4>1
      <4> QED BY <4>2
    <3> QED BY <2>2, <3>1, <3>2 DEF Flow
  <2> QED BY <2>1, <2>2 DEF Flow
<1>10. Sound(v) /\ v.size = t.size /\ v.stopped = t.stopped
  BY DEF Flow
<1> QED BY <1>1, <1>2, <1>4, <1>7, <1>8, <1>9, <1>10 DEF Flow, e, dist

-----------------------------------------------------------------------------
(* The sections under tid->lock as flows.                                  *)

\* The section takes object id from t to u over a flow of p passes.
Section(id, t, u) ==
  /\ Changes(id, u) /\ Windowed(u, 1)
  /\ \E p \in SN : Flow(t, u, p, out')

\* Nothing happens to the object.
LEMMA FlowRefl ==
  ASSUME NEW t, Sound(t)
  PROVE  Flow(t, t, 0, <<>>)
<1>1. 0 \in SN /\ (t.head + 0) % SNMod = t.head
  <2>1. t.head \in SN /\ 0 \in SN
    BY SoundFacts, SNFacts
  <2>2. (t.head + 0) % SNMod = IF t.head + 0 < SNMod THEN t.head + 0 ELSE t.head + 0 - SNMod
    BY <2>1, Turns
  <2> QED BY <2>1, <2>2, SNFacts
<1> QED BY <1>1 DEF Flow

\* A flow that ends with release_head (agg-rx.c:44-53).
LEMMA FlowAtHead ==
  ASSUME Aligned, NEW id, NEW t, Sound(t), NEW v, NEW p, NEW frames,
         Flow(t, v, p, frames), Windowed(v, 0), p + t.size < SNMod,
         UnlockAtHead(id, v, frames)
  PROVE  \E u : Section(id, t, u)
<1>1. Sound(v) /\ v.size = t.size /\ p \in SN /\ v.size \in Nat /\ v.size \in SN
  BY SoundFacts DEF Flow
<1>2. PICK n \in 0 .. v.size : HeadRun(v, n) /\ Unlock(id, Advance(v, n), frames \o Released(v, n))
  BY DEF UnlockAtHead
<1>3. n \in SN /\ p + n < SNMod /\ p + n \in SN
  BY <1>1, <1>2, SNFacts
<1> DEFINE u == Advance(v, n)
<1>4. Flow(v, u, n, Released(v, n)) /\ Windowed(u, 1)
  <2>1. ~Full(v, n)
    BY <1>2 DEF HeadRun
  <2> QED BY <1>1, <1>3, <2>1, AdvanceFlow
<1> HIDE DEF u
<1>5. Flow(t, u, p + n, frames \o Released(v, n))
  BY <1>3, <1>4, FlowTrans
<1>6. Changes(id, u) /\ out' = frames \o Released(v, n)
  BY <1>2 DEF Unlock, Changes, u
<1> QED BY <1>3, <1>4, <1>5, <1>6 DEF Section

\* release_frames makes fewer than half a turn of passes (agg-rx.c:31-42).
LEMMA PassesBound ==
  ASSUME NEW t, t.head \in SN, NEW h \in SN
  PROVE  /\ PassesTo(t, h) \in SN
         /\ \A m \in Nat : SNMod = 2 * m => PassesTo(t, h) < m
<1>1. PICK m \in Nat : m >= 2 /\ SNMod = 2 * m /\ SNMod \div 2 = m
  BY SNFacts
<1>2. SnSub(t.head, h) \in SN /\ SnSub(t.head, h) = IF t.head >= h THEN t.head - h ELSE t.head - h + SNMod
  BY Turns
<1>3. SnSub(h, t.head) \in SN /\ SnSub(h, t.head) = IF h >= t.head THEN h - t.head ELSE h - t.head + SNMod
  BY Turns
<1>4. PassesTo(t, h) = IF SnSub(t.head, h) > m THEN SnSub(h, t.head) ELSE 0
  BY <1>1 DEF PassesTo, SnLess
<1>5. 0 \in SN
  BY SNFacts
<1>6. PassesTo(t, h) \in SN /\ PassesTo(t, h) < m
  BY <1>1, <1>2, <1>3, <1>4, <1>5, SNFacts
<1> QED BY <1>1, <1>6

\* A block ack request (agg-rx.c:118-146).
LEMMA FlowFrom ==
  ASSUME Aligned, NEW id, NEW t, Sound(t), Windowed(t, 1), NEW h \in SN, UnlockFrom(id, t, h)
  PROVE  \E u : Section(id, t, u)
<1> DEFINE n == PassesTo(t, h)
<1>1. PICK m \in Nat : m >= 2 /\ SNMod = 2 * m
  BY SNFacts
<1>2. n \in SN /\ n < m /\ t.size <= m /\ t.size \in Nat
  BY <1>1, SoundFacts, PassesBound
<1>3. Windowed(t, 0)
  BY <1>2 DEF Windowed
<1>4. UnlockAtHead(id, Advance(t, n), Released(t, n))
  BY DEF UnlockFrom
<1> HIDE DEF n
<1>5. Flow(t, Advance(t, n), n, Released(t, n)) /\ Windowed(Advance(t, n), 0)
  BY <1>2, <1>3, AdvanceFlow
<1>6. n + t.size < SNMod
  BY <1>1, <1>2, SNFacts
<1> QED BY <1>4, <1>5, <1>6, FlowAtHead

\* check_release (agg-rx.c:55-88): the head slot of a window at rest is empty,
\* so that the first release_head finds nothing.
LEMMA FlowCheckRelease ==
  ASSUME Aligned, NEW id, NEW t, Sound(t), Windowed(t, 1), CheckRelease(id, t)
  PROVE  \E u : Section(id, t, u)
<1>1. PICK m \in Nat : m >= 2 /\ SNMod = 2 * m
  BY SNFacts
<1>2. t.size <= m /\ t.size \in Nat /\ t.size \in Nat \ {0} /\ t.head \in SN
  BY <1>1, SoundFacts
<1>3. Windowed(t, 0)
  BY <1>2 DEF Windowed
<1>4. CASE t.nframes = 0
  <2>1. Changes(id, t) /\ out' = <<>>
    BY <1>4 DEF CheckRelease, Unlock, Changes
  <2>2. 0 \in SN
    BY SNFacts
  <2> QED BY <2>1, <2>2, FlowRefl DEF Section
<1>5. CASE t.nframes # 0
  <2> DEFINE t1(k) == Advance(t, k)
             passes(k) == {PassesTo(t1(k), t1(k).buf[i]) : i \in t1(k).aged} \cup {0}
  <2>1. PICK k \in 0 .. t.size :
          /\ HeadRun(t, k)
          /\ \E n \in passes(k) :
               UnlockAtHead(id, Advance(t1(k), n), Released(t, k) \o Released(t1(k), n))
    BY <1>5 DEF CheckRelease
  <2>2. k = 0
    <3>1. ASSUME k >= 1 PROVE FALSE
      <4>1. Full(t, 0) /\ 0 \in SN
        <5>1. 0 \in 0 .. k - 1
          BY <3>1
        <5> QED BY <2>1, <5>1, SNFacts DEF HeadRun
      <4>2. t.buf[SlotOf(t, 0)] # None /\ 0 < t.size
        BY <1>2, <4>1 DEF Full
      <4>3. SlotOf(t, 0) \in Occupied(t) /\ SnSub(t.buf[SlotOf(t, 0)], t.head) = 0
        BY <1>3, <4>1, <4>2, FrameAt
      <4> QED BY <4>3 DEF Windowed
    <3> QED BY <1>2, <2>1, <3>1
  <2> DEFINE w == Advance(t, 0)
  <2>3. PICK n \in passes(0) : UnlockAtHead(id, Advance(w, n), Released(t, 0) \o Released(w, n))
    BY <2>1, <2>2
  <2>4. 0 \in SN
    BY SNFacts
  <2>5. Flow(t, w, 0, Released(t, 0)) /\ Windowed(w, 0)
    BY <1>3, <2>4, AdvanceFlow
  <2>6. w \in TidRec /\ Sound(w) /\ w.head \in SN /\ w.size = t.size
    BY <2>5, SoundFacts DEF Flow, Sound, TidType
  <2>7. n = 0 \/ \E i \in w.aged : n = PassesTo(w, w.buf[i])
    BY <2>3
  <2> HIDE DEF w, t1, passes
  <2>8. n \in SN /\ n < m
    <3>1. \A i \in w.aged : w.buf[i] \in SN
      <4>1. w.aged \subseteq Occupied(w)
        BY <2>6 DEF Sound, TidType
      <4> QED BY <2>6, <4>1, SoundFacts
    <3>2. ASSUME NEW i \in w.aged PROVE PassesTo(w, w.buf[i]) \in SN /\ PassesTo(w, w.buf[i]) < m
      BY <1>1, <2>6, <3>1, PassesBound
    <3> QED BY <1>1, <2>4, <2>7, <3>2
  <2>9. Flow(w, Advance(w, n), n, Released(w, n)) /\ Windowed(Advance(w, n), 0)
    BY <2>5, <2>6, <2>8, AdvanceFlow
  <2>10. Flow(t, Advance(w, n), 0 + n, Released(t, 0) \o Released(w, n))
    <3>1. 0 + n < SNMod
      BY <2>8, SNFacts
    <3> QED BY <2>5, <2>9, <3>1, FlowTrans
  <2>11. (0 + n) + t.size < SNMod
    BY <1>1, <1>2, <2>8, SNFacts
  <2> QED BY <2>3, <2>9, <2>10, <2>11, FlowAtHead
<1> QED BY <1>4, <1>5

\* The distance to a number behind a head that is not reduced.
LEMMA SubShift ==
  ASSUME NEW a \in SN, NEW b \in SN, NEW k \in SN
  PROVE  SnSub(a, b + k) = SnSub(a, (b + k) % SNMod)
<1>1. PICK c \in SN : c = (b + k) % SNMod /\ c = IF b + k < SNMod THEN b + k ELSE b + k - SNMod
  BY Turns
<1>2. a - (b + k) = (a - c) + 0 * SNMod \/ a - (b + k) = (a - c) + (-1) * SNMod
  BY <1>1, SNFacts
<1>3. a - (b + k) \in Int /\ a - c \in Int /\ 0 \in Int /\ -1 \in Int /\ SNMod \in Nat \ {0}
  BY <1>1, SNFacts
<1>4. (a - (b + k)) % SNMod = (a - c) % SNMod
  BY <1>2, <1>3, ShiftRemainder, Zenon
<1> QED BY <1>1, <1>4 DEF SnSub

\* How far the window moves for a frame that is stored, and where the frame is
\* then (agg-rx.c:218-227).
LEMMA StoreDistance ==
  ASSUME NEW t, Sound(t), NEW s \in SN, s # t.head, ~SnLess(s, t.head)
  PROVE  LET n == PassesFor(t, s)
         IN /\ n \in SN /\ n + t.size < SNMod
            /\ SnSub(s, (t.head + n) % SNMod) \in 1 .. t.size - 1
            /\ n # 0 => SnSub(s, t.head) >= t.size
<1> DEFINE h == t.head
           w == t.size
           d == SnSub(s, h)
<1>1. PICK m \in Nat : m >= 2 /\ SNMod = 2 * m /\ SNMod \div 2 = m
  BY SNFacts
<1>2. h \in SN /\ w \in SN /\ w \in Int /\ 2 <= w /\ w <= m
  <2>1. w \in Sizes /\ h \in SN /\ w \in SN
    BY SoundFacts
  <2>2. w \in 2 .. m
    BY <1>1, <2>1, SizesAssumption
  <2> QED BY <1>1, <2>1, <2>2
<1>3. d \in SN /\ d = (IF s >= h THEN s - h ELSE s - h + SNMod) /\ d <= m
  <2>1. d \in SN /\ d = IF s >= h THEN s - h ELSE s - h + SNMod
    BY <1>2, Turns
  <2>2. ~(d > m)
    BY <1>1 DEF SnLess
  <2> QED BY <1>1, <2>1, <2>2, SNFacts
<1>4. d >= 1
  BY <1>2, <1>3, SNFacts
<1>5. PICK x \in SN : x = (h + w) % SNMod /\ x = IF h + w < SNMod THEN h + w ELSE h + w - SNMod
  BY <1>2, Turns
<1>6. PICK y \in SN : y = SnSub(s, x) /\ y = IF s >= x THEN s - x ELSE s - x + SNMod
  BY <1>5, Turns
<1>7. SnLess(s, h + w) <=> y > m
  <2> HIDE DEF h, w, d
  <2>1. SnSub(s, h + w) = SnSub(s, (h + w) % SNMod)
    BY <1>2, SubShift
  <2>2. SnSub(s, h + w) = y
    BY <1>5, <1>6, <2>1
  <2> QED BY <1>1, <2>2, Zenon DEF SnLess
<1>8. y > m <=> d < w
  <2> HIDE DEF h, w, d
  <2>1. /\ SNMod \in Int /\ h \in Int /\ w \in Int /\ d \in Int /\ s \in Int /\ x \in Int /\ y \in Int
        /\ 0 <= s /\ s < SNMod /\ 0 <= h /\ h < SNMod
    BY <1>2, <1>3, <1>5, <1>6, SNFacts
  <2>2. x = IF h + w < SNMod THEN h + w ELSE h + w - SNMod
    BY <1>5
  <2>3. y = IF s >= x THEN s - x ELSE s - x + SNMod
    BY <1>6
  <2>4. CASE s >= h
    <3>1. d = s - h
      BY <1>3, <2>4
    <3>2. y = IF d >= w THEN d - w ELSE d - w + SNMod
      BY <1>1, <1>2, <2>1, <2>2, <2>3, <2>4, <3>1
    <3> QED BY <1>1, <1>2, <1>3, <1>4, <2>1, <3>2
  <2>5. CASE ~(s >= h)
    <3>1. d = s - h + SNMod
      BY <1>3, <2>5
    <3>2. y = IF d >= w THEN d - w ELSE d - w + SNMod
      BY <1>1, <1>2, <1>3, <2>1, <2>2, <2>3, <2>5, <3>1
    <3> QED BY <1>1, <1>2, <1>3, <1>4, <2>1, <3>2
  <2> QED BY <2>4, <2>5
<1>9. PICK b \in SN : b = SnSub(s, w) /\ b = IF s >= w THEN s - w ELSE s - w + SNMod
  BY <1>2, Turns
<1>10. PICK g \in SN : g = SnInc(b) /\ g = IF b + 1 < SNMod THEN b + 1 ELSE b + 1 - SNMod
  <2>1. 1 \in 0 .. SNMod
    BY SNFacts
  <2> QED BY <1>9, <2>1, Turns DEF SnInc
<1>11. PICK e \in SN : e = SnSub(h, g) /\ e = IF h >= g THEN h - g ELSE h - g + SNMod
  BY <1>2, <1>10, Turns
<1>12. PICK f \in SN : f = SnSub(g, h) /\ f = IF g >= h THEN g - h ELSE g - h + SNMod
  BY <1>2, <1>10, Turns
<1>13. PassesTo(t, g) = IF e > m THEN f ELSE 0
  <2> HIDE DEF d
  <2>1. SnLess(h, g) <=> e > m
    BY <1>1, <1>11 DEF SnLess
  <2> QED BY <1>12, <2>1 DEF PassesTo
<1>14. PassesFor(t, s) = IF y > m THEN 0 ELSE IF e > m THEN f ELSE 0
  BY <1>7, <1>9, <1>10, <1>13 DEF PassesFor
<1> HIDE DEF h, w, d
<1>15. CASE d < w
  <2>1. PassesFor(t, s) = 0
    BY <1>8, <1>14, <1>15
  <2>2. (h + 0) % SNMod = h /\ 0 \in SN
    <3>1. 0 \in SN
      BY SNFacts
    <3>2. (h + 0) % SNMod = IF h + 0 < SNMod THEN h + 0 ELSE h + 0 - SNMod
      BY <1>2, <3>1, Turns
    <3> QED BY <1>2, <3>1, <3>2, SNFacts
  <2>3. 0 + w < SNMod /\ d \in 1 .. w - 1
    BY <1>1, <1>2, <1>3, <1>4, <1>15, SNFacts
  <2> QED BY <2>1, <2>2, <2>3 DEF h, w, d
<1>16. CASE ~(d < w)
  <2>1. f = d - w + 1 /\ e > m
    <3>1. b = IF h + d - w >= SNMod THEN h + d - w - SNMod ELSE h + d - w
      BY <1>1, <1>2, <1>3, <1>9, <1>16, SNFacts
    <3>2. g = IF h + (d - w + 1) >= SNMod THEN h + (d - w + 1) - SNMod ELSE h + (d - w + 1)
      BY <1>1, <1>2, <1>3, <1>10, <1>16, <3>1, SNFacts
    <3>3. d - w + 1 >= 1 /\ d - w + 1 < m
      BY <1>1, <1>2, <1>3, <1>16, SNFacts
    <3>4. f = d - w + 1
      BY <1>1, <1>2, <1>3, <1>12, <3>2, <3>3, SNFacts
    <3>5. e = SNMod - (d - w + 1)
      BY <1>1, <1>2, <1>3, <1>11, <3>2, <3>3, SNFacts
    <3> QED BY <1>1, <1>2, <1>3, <3>3, <3>4, <3>5, SNFacts
  <2>2. PassesFor(t, s) = f
    BY <1>8, <1>14, <1>16, <2>1
  <2>3. SnSub(s, (h + f) % SNMod) = d - f
    <3>1. f <= d
      BY <1>1, <1>2, <1>3, <2>1, SNFacts
    <3> QED BY <1>2, <3>1, DistanceFrom DEF d
  <2>4. d - f \in 1 .. w - 1 /\ f + w < SNMod /\ d >= w
    BY <1>1, <1>2, <1>3, <1>16, <2>1, SNFacts
  <2> QED BY <2>2, <2>3, <2>4 DEF h, w, d
<1> QED BY <1>15, <1>16

\* A frame put into its free slot takes its place in the window.
LEMMA PutFlow ==
  ASSUME NEW t, Sound(t), Windowed(t, 0), NEW s \in SN, SnSub(s, t.head) \in 1 .. t.size - 1,
         t.buf[s % t.size] = None
  PROVE  LET u == Put(t, s % t.size, s)
         IN Flow(t, u, 0, <<>>) /\ Windowed(u, 0)
<1> DEFINE i == s % t.size
           u == Put(t, i, s)
<1>1. i \in Slots(t)
  <2>1. s % t.size \in 0 .. t.size - 1
    BY SoundFacts, SNFacts, ModRange
  <2> QED BY <2>1 DEF Slots
<1>2. t.buf \in [Slots(t) -> SN \cup {None}] /\ t \in TidRec
  BY DEF Sound, TidType
<1>3. s = i \/ s % t.size = i
  OBVIOUS
<1> HIDE DEF i
<1>4. Sound(u) /\ u.stopped = t.stopped
  BY <1>1, StoreIsSound DEF i
<1>5. u.size = t.size /\ u.head = t.head /\ u.buf = [t.buf EXCEPT ![i] = s]
  BY <1>2, Zenon DEF Put, TidRec
<1> HIDE DEF u
<1>6. u.buf[i] = s /\ \A k \in Slots(t) : k # i => u.buf[k] = t.buf[k]
  BY <1>1, <1>2, <1>5
<1>7. Slots(u) = Slots(t) /\ i \notin Occupied(t) /\ t.buf[i] = None
  BY <1>5 DEF Slots, Occupied, i
<1>8. ASSUME NEW k \in Occupied(t) PROVE k \in Occupied(u) /\ u.buf[k] = t.buf[k]
  BY <1>6, <1>7 DEF Occupied
<1>9. ASSUME NEW k \in Occupied(u)
      PROVE  k = u.buf[k] % u.size /\ SnSub(u.buf[k], u.head) \in 0 .. u.size - 1
  <2>1. CASE k = i
    <3>1. SnSub(s, t.head) \in 0 .. t.size - 1
      BY SoundFacts
    <3> QED BY <1>5, <1>6, <2>1, <3>1 DEF i
  <2>2. CASE k # i
    <3>1. k \in Occupied(t) /\ u.buf[k] = t.buf[k]
      BY <1>6, <1>7, <2>2 DEF Occupied
    <3> QED BY <1>5, <3>1 DEF Windowed
  <2> QED BY <2>1, <2>2
<1>10. Windowed(u, 0)
  BY <1>9 DEF Windowed
<1>11. Flow(t, u, 0, <<>>)
  <2>1. 0 \in SN /\ t.head = (t.head + 0) % SNMod
    BY FlowRefl DEF Flow
  <2> QED BY <1>4, <1>5, <1>8, <2>1 DEF Flow
<1> QED BY <1>10, <1>11 DEF u, i

\* Setting the flag `started' keeps all of this.
LEMMA StartedFlow ==
  ASSUME NEW t, Sound(t), NEW lo, Windowed(t, lo)
  PROVE  LET u == [t EXCEPT !.started = TRUE]
         IN Flow(t, u, 0, <<>>) /\ Windowed(u, lo) /\ u.buf = t.buf /\ u.size = t.size /\ u.head = t.head
<1> DEFINE u == [t EXCEPT !.started = TRUE]
<1>1. t \in TidRec
  BY DEF Sound, TidType
<1>2. Sound(u)
  <2>1. Drained(t, t) /\ t.head \in SN
    BY <1>1, SoundFacts DEF Drained, TidRec
  <2> QED BY <2>1, FieldsDrain DEF Drained
<1>3. u.size = t.size /\ u.head = t.head /\ u.buf = t.buf /\ u.stopped = t.stopped
  BY <1>1 DEF TidRec
<1> HIDE DEF u
<1>4. Occupied(u) = Occupied(t)
  BY <1>3 DEF Occupied, Slots
<1>5. 0 \in SN /\ t.head = (t.head + 0) % SNMod
  BY FlowRefl DEF Flow
<1>6. Flow(t, u, 0, <<>>)
  BY <1>2, <1>3, <1>4, <1>5 DEF Flow
<1>7. Windowed(u, lo)
  BY <1>3, <1>4 DEF Windowed
<1> QED BY <1>3, <1>6, <1>7 DEF u

\* The frame at the head passes and the head moves past it.
LEMMA InOrderFlow ==
  ASSUME NEW t, Sound(t), Windowed(t, 1)
  PROVE  LET u == [t EXCEPT !.started = TRUE, !.head = SnInc(t.head)]
         IN Flow(t, u, 1, <<t.head>>) /\ Windowed(u, 0)
<1> DEFINE g == SnInc(t.head)
           u == [t EXCEPT !.started = TRUE, !.head = g]
<1>1. t \in TidRec /\ t.head \in SN /\ t.size \in Nat
  BY SoundFacts DEF Sound, TidType
<1>2. 1 \in SN /\ 0 \in SN /\ SNMod > 2
  BY SNFacts
<1>3. g = (t.head + 1) % SNMod /\ g \in SN
  <2>1. (t.head + 1) % SNMod \in SN
    <3>1. \A h, k \in SN : (h + k) % SNMod \in SN
      BY DistanceOf
    <3> QED BY <1>1, <1>2, <3>1
  <2> QED BY <2>1 DEF SnInc
<1>4. SnSub(t.head, t.head) = 0
  <2>1. SnSub(t.head, t.head) = IF t.head >= t.head THEN t.head - t.head ELSE t.head - t.head + SNMod
    BY <1>1, Turns
  <2>2. t.head \in Int
    BY <1>1, SNFacts
  <2> QED BY <2>1, <2>2
<1> HIDE DEF g
<1>5. Sound(u)
  <2>1. Drained(t, t)
    BY <1>1 DEF Drained, TidRec
  <2> QED BY <1>3, <2>1, FieldsDrain DEF Drained
<1>6. u.size = t.size /\ u.head = g /\ u.buf = t.buf /\ u.stopped = t.stopped
  BY <1>1 DEF TidRec
<1> HIDE DEF u
<1>7. Occupied(u) = Occupied(t)
  BY <1>6 DEF Occupied, Slots
<1>8. Flow(t, u, 1, <<t.head>>)
  <2> DEFINE fr == <<t.head>>
  <2>1. fr \in Seq(SN) /\ DOMAIN fr = {1} /\ fr[1] = t.head
    BY <1>1
  <2> HIDE DEF fr
  <2>2. \A i \in DOMAIN fr : SnSub(fr[i], t.head) < 1
    BY <1>4, <2>1
  <2>3. \A i, j \in DOMAIN fr : ~(i < j)
    BY <2>1
  <2>4. \A i \in Occupied(t) : i \in Occupied(u) /\ u.buf[i] = t.buf[i]
    BY <1>6, <1>7
  <2> QED BY <1>2, <1>3, <1>5, <1>6, <2>1, <2>2, <2>3, <2>4, Zenon DEF Flow, fr
<1>9. ASSUME NEW i \in Occupied(u)
      PROVE  i = u.buf[i] % u.size /\ SnSub(u.buf[i], u.head) \in 0 .. u.size - 1
  <2>1. t.buf[i] \in SN /\ i = t.buf[i] % t.size /\ SnSub(t.buf[i], t.head) \in 1 .. t.size - 1
    BY <1>7, SoundFacts DEF Windowed
  <2>2. 1 <= SnSub(t.buf[i], t.head)
    BY <1>1, <2>1
  <2>3. SnSub(t.buf[i], (t.head + 1) % SNMod) = SnSub(t.buf[i], t.head) - 1
    BY <1>1, <1>2, <2>1, <2>2, DistanceFrom
  <2> QED BY <1>1, <1>3, <1>6, <2>1, <2>3
<1>10. Windowed(u, 0)
  BY <1>9 DEF Windowed
<1> QED BY <1>8, <1>10 DEF u, g

\* Storing a frame (agg-rx.c:218-239): when the window moves for it, its slot is
\* free, since a frame in it would be the same number, inside the old window.
LEMMA FlowStore ==
  ASSUME Aligned, NEW id, NEW t, Sound(t), Windowed(t, 1), NEW s \in SN,
         s # t.head, ~SnLess(s, t.head),
         LET n == PassesFor(t, s)
             t1 == [Advance(t, n) EXCEPT !.started = TRUE]
             idx == s % t.size
         IN \/ t1.buf[idx] # None /\ Unlock(id, t1, Released(t, n))
            \/ t1.buf[idx] = None /\ UnlockAtHead(id, Put(t1, idx, s), Released(t, n))
  PROVE  \E u : Section(id, t, u)
<1> DEFINE n == PassesFor(t, s)
           a == Advance(t, n)
           t1 == [a EXCEPT !.started = TRUE]
           idx == s % t.size
           t2 == Put(t1, idx, s)
<1>1. /\ n \in SN /\ n + t.size < SNMod
      /\ SnSub(s, (t.head + n) % SNMod) \in 1 .. t.size - 1
      /\ n # 0 => SnSub(s, t.head) >= t.size
  BY StoreDistance
<1>2. t.size \in Nat /\ t.head \in SN /\ t.size \in Sizes
  BY SoundFacts
<1>3. Windowed(t, 0)
  BY <1>2 DEF Windowed
<1>4. \/ t1.buf[idx] # None /\ Unlock(id, t1, Released(t, n))
      \/ t1.buf[idx] = None /\ UnlockAtHead(id, t2, Released(t, n))
  OBVIOUS
<1> HIDE DEF n
<1>5. Flow(t, a, n, Released(t, n)) /\ Windowed(a, 0)
  BY <1>1, <1>3, AdvanceFlow
<1> HIDE DEF a
<1>6. Sound(a) /\ a.size = t.size /\ a.head = (t.head + n) % SNMod
  BY <1>5 DEF Flow
<1>7. Flow(a, t1, 0, <<>>) /\ Windowed(t1, 0) /\ t1.buf = a.buf /\ t1.size = a.size /\ t1.head = a.head
  BY <1>5, <1>6, StartedFlow
<1> HIDE DEF t1
<1>8. n + 0 < SNMod /\ n + 0 = n /\ n + t.size < SNMod
  BY <1>1, SNFacts
<1>9. Flow(t, t1, n, Released(t, n)) /\ Sound(t1)
  <2>1. Flow(t, t1, n + 0, Released(t, n) \o <<>>)
    BY <1>5, <1>7, <1>8, FlowTrans
  <2>2. Released(t, n) \o <<>> = Released(t, n)
    BY <1>5 DEF Flow
  <2> QED BY <1>7, <1>8, <2>1, <2>2 DEF Flow
<1>10. SnSub(s, t1.head) \in 1 .. t1.size - 1 /\ idx = s % t1.size
  BY <1>1, <1>6, <1>7
<1>11. CASE t1.buf[idx] # None /\ Unlock(id, t1, Released(t, n))
  <2>1. idx \in Occupied(a)
    <3>1. s % t1.size \in 0 .. t1.size - 1
      BY <1>9, SoundFacts, SNFacts, ModRange
    <3> QED BY <1>7, <1>9, <1>10, <1>11, <3>1 DEF Occupied, Slots
  <2>2. a.buf[idx] \in SN /\ idx = a.buf[idx] % a.size /\ SnSub(a.buf[idx], a.head) < a.size
    <3>1. SnSub(a.buf[idx], a.head) \in 0 .. a.size - 1 /\ idx = a.buf[idx] % a.size
      BY <1>5, <2>1 DEF Windowed
    <3>2. a.size \in Nat /\ a.buf[idx] \in SN
      BY <1>6, <2>1, SoundFacts
    <3> QED BY <3>1, <3>2
  <2>3. SnSub(s, a.head) < a.size /\ s % a.size = idx
    BY <1>2, <1>6, <1>7, <1>10
  <2>4. a.buf[idx] = s
    BY <1>2, <1>6, <2>2, <2>3, SoundFacts, SlotIsUnique
  <2>5. n = 0
    <3> SUFFICES ASSUME n # 0 PROVE FALSE
      OBVIOUS
    <3>1. SnSub(s, t.head) >= t.size
      BY <1>1
    <3>2. idx \in Occupied(t) /\ a.buf[idx] = t.buf[idx]
      <4>1. n \in Nat
        BY <1>1, SNFacts
      <4> QED BY <2>1, <4>1, AdvanceValue DEF a
    <3>3. SnSub(s, t.head) \in 1 .. t.size - 1
      BY <2>4, <3>2 DEF Windowed
    <3> QED BY <1>2, <3>1, <3>3
  <2>6. Windowed(t1, 1)
    <3>1. a.size = t.size /\ a.head = t.head /\ Occupied(a) \subseteq Occupied(t)
          /\ \A i \in Occupied(a) : a.buf[i] = t.buf[i]
      <4>1. 0 \in Nat /\ (t.head + 0) % SNMod = t.head
        BY FlowRefl DEF Flow
      <4> QED BY <1>6, <2>5, <4>1, AdvanceValue DEF a
    <3>2. Windowed(a, 1)
      BY <3>1 DEF Windowed
    <3>3. Occupied(t1) = Occupied(a)
      BY <1>7 DEF Occupied, Slots
    <3> QED BY <1>7, <3>2, <3>3 DEF Windowed
  <2>7. Changes(id, t1) /\ out' = Released(t, n)
    BY <1>11 DEF Unlock, Changes
  <2> QED BY <1>1, <1>9, <2>6, <2>7 DEF Section
<1>12. CASE t1.buf[idx] = None /\ UnlockAtHead(id, t2, Released(t, n))
  <2>1. Flow(t1, t2, 0, <<>>) /\ Windowed(t2, 0)
    BY <1>7, <1>9, <1>10, <1>12, PutFlow
  <2> HIDE DEF t2
  <2>2. Flow(t, t2, n + 0, Released(t, n) \o <<>>)
    BY <1>8, <1>9, <2>1, FlowTrans
  <2>3. Released(t, n) \o <<>> = Released(t, n)
    BY <1>5 DEF Flow
  <2> QED BY <1>8, <1>12, <2>1, <2>2, <2>3, FlowAtHead
<1> QED BY <1>4, <1>11, <1>12

\* Every buffer is strictly inside its window when the lock is free.
Windows == \A t \in Live : Windowed(tid[t], 1)

\* A step of the receive path under the lock is a section.
LEMMA RxSection ==
  ASSUME Aligned, IInv, Windows, RxLocked
  PROVE  \E u : Section(rx.t, tid[rx.t], u)
<1> DEFINE t == tid[rx.t]
<1>1. rx.t \in Live /\ rx.sn \in SN
  <2>1. rx # Idle
    BY DEF RxLocked, RxPass, RxDropLate, RxInOrder, RxStore, RxBar, Idle
  <2> QED BY <2>1 DEF IInv, TypeOK
<1>2. Sound(t) /\ Windowed(t, 1)
  BY <1>1 DEF IInv, Windows
<1> HIDE DEF t
<1>3. 0 \in SN /\ Flow(t, t, 0, <<>>)
  BY <1>2, SNFacts, FlowRefl
<1>4. ASSUME Unlock(rx.t, t, <<>>) PROVE Section(rx.t, t, t)
  BY <1>2, <1>3, <1>4 DEF Section, Unlock, Changes
<1>5. CASE RxPass \/ RxDropLate
  <2>1. Unlock(rx.t, t, <<>>)
    BY <1>5 DEF RxPass, RxDropLate, t
  <2> QED BY <1>4, <2>1 DEF t
<1>6. CASE RxInOrder
  <2> DEFINE t1 == [t EXCEPT !.started = TRUE, !.head = SnInc(t.head)]
  <2>1. /\ rx.sn = t.head
        /\ IF t.nframes = 0 THEN Unlock(rx.t, t1, <<rx.sn>>) ELSE UnlockAtHead(rx.t, t1, <<rx.sn>>)
    BY <1>6 DEF RxInOrder, t
  <2>2. Flow(t, t1, 1, <<t.head>>) /\ Windowed(t1, 0)
    BY <1>2, InOrderFlow
  <2>3. t.nframes = 0 => Windowed(t1, 1)
    <3>1. ASSUME t.nframes = 0 PROVE Occupied(t) = {}
      <4>1. t \in TidRec /\ Cardinality(Occupied(t)) = 0
        BY <1>2, <3>1 DEF Sound, TidType
      <4> QED BY <4>1, OccupiedIsFinite, FS_EmptySet
    <3>2. t1.buf = t.buf /\ t1.size = t.size
      BY <1>2 DEF Sound, TidType, TidRec
    <3>3. Occupied(t1) = Occupied(t)
      BY <3>2 DEF Occupied, Slots
    <3> QED BY <3>1, <3>3 DEF Windowed
  <2> HIDE DEF t1
  <2>4. 1 \in SN /\ 1 + t.size < SNMod
    <3>1. PICK m \in Nat : m >= 2 /\ SNMod = 2 * m
      BY SNFacts
    <3>2. t.size <= m /\ t.size \in Nat
      BY <1>2, <3>1, SoundFacts
    <3> QED BY <3>1, <3>2, SNFacts
  <2>5. CASE t.nframes = 0
    <3>1. Changes(rx.t, t1) /\ out' = <<t.head>>
      BY <2>1, <2>5 DEF Unlock, Changes
    <3> QED BY <2>2, <2>3, <2>4, <2>5, <3>1 DEF Section, t
  <2>6. CASE t.nframes # 0
    <3>1. UnlockAtHead(rx.t, t1, <<t.head>>)
      BY <2>1, <2>6
    <3>2. \E u : Section(rx.t, t, u)
      BY <1>2, <2>2, <2>4, <3>1, FlowAtHead
    <3> QED BY <3>2 DEF t
  <2> QED BY <2>5, <2>6
<1>7. CASE RxStore
  <2>1. \E u : Section(rx.t, t, u)
    <3>1. rx.sn # t.head /\ ~SnLess(rx.sn, t.head)
      BY <1>7 DEF RxStore, t
    <3>2. LET n == PassesFor(t, rx.sn)
              t1 == [Advance(t, n) EXCEPT !.started = TRUE]
              idx == rx.sn % t.size
          IN \/ t1.buf[idx] # None /\ Unlock(rx.t, t1, Released(t, n))
             \/ t1.buf[idx] = None /\ UnlockAtHead(rx.t, Put(t1, idx, rx.sn), Released(t, n))
      BY <1>7, Zenon DEF RxStore, t
    <3> QED BY <1>1, <1>2, <3>1, <3>2, FlowStore
  <2> QED BY <2>1 DEF t
<1>8. CASE RxBar
  <2>1. CASE t.stopped
    <3>1. Unlock(rx.t, t, <<>>)
      BY <1>8, <2>1 DEF RxBar, t
    <3> QED BY <1>4, <3>1 DEF t
  <2>2. CASE ~t.stopped
    <3>1. UnlockFrom(rx.t, t, rx.sn)
      BY <1>8, <2>2 DEF RxBar, t
    <3>2. \E u : Section(rx.t, t, u)
      BY <1>1, <1>2, <3>1, FlowFrom
    <3> QED BY <3>2 DEF t
  <2> QED BY <2>1, <2>2
<1> QED BY <1>5, <1>6, <1>7, <1>8 DEF RxLocked

\* The other steps keep the frames and the heads of the objects that stay, or
\* empty the buffer of an object they stop, and hand over nothing.
Resting ==
  /\ \A t \in Live' : \/ Occupied(tid'[t]) = {}
                      \/ /\ t \in Live
                         /\ tid'[t].buf = tid[t].buf /\ tid'[t].size = tid[t].size
                         /\ tid'[t].head = tid[t].head
  /\ \A t \in Live : \/ tid'[t] = None
                     \/ tid'[t].stopped
                     \/ tid'[t].buf = tid[t].buf

\* All steps outside a section with frames rest.
LEMMA RestingStep ==
  ASSUME IInv,
         \/ \E sn \in SN, at \in {"data", "bar"} : RxDeref(sn, at)
         \/ \E t \in Tids : WorkRequeue(t) \/ WorkDone(t) \/ Reclaim(t)
         \/ \E t \in Tids : \E i \in AnySlot : Age(t, i)
         \/ CtlNext
         \/ \E ssn \in SN, size \in Sizes \cup {0} : Call(ssn, size)
  PROVE  Resting /\ out' = <<>>
<1> USE Facts
<1>1. ASSUME UNCHANGED tid PROVE Resting
  BY <1>1 DEF Resting, Live
<1>2. ASSUME NEW id \in Live, NEW u, u # None, Changes(id, u),
             u.buf = tid[id].buf, u.size = tid[id].size, u.head = tid[id].head
      PROVE  Resting
  <2>1. /\ DOMAIN tid' = Tids /\ Live' = Live /\ tid'[id] = u
        /\ \A t \in Tids : t # id => tid'[t] = tid[t]
    BY <1>2 DEF Changes, Live
  <2> QED BY <1>2, <2>1 DEF Resting
<1>3. CASE \E sn \in SN, at \in {"data", "bar"} : RxDeref(sn, at)
  BY <1>1, <1>3 DEF RxDeref
<1>4. CASE \E t \in Tids : WorkRequeue(t) \/ WorkDone(t)
  BY <1>1, <1>4 DEF WorkRequeue, WorkDone
<1>5. CASE \E ssn \in SN, size \in Sizes \cup {0} : Call(ssn, size)
  BY <1>1, <1>5 DEF Call
<1>6. ASSUME NEW t \in Tids, Reclaim(t) PROVE Resting /\ out' = <<>>
  <2>1. tid' = [tid EXCEPT ![t] = None] /\ out' = <<>>
    BY <1>6 DEF Reclaim
  <2>2. /\ Live' = Live \ {t} /\ tid'[t] = None
        /\ \A r \in Tids : r # t => tid'[r] = tid[r]
    BY <2>1 DEF Live
  <2> QED BY <2>1, <2>2 DEF Resting
<1>7. ASSUME NEW t \in Tids, NEW i, Age(t, i) PROVE Resting /\ out' = <<>>
  <2> DEFINE v == tid[t]
             a == v.aged \cup {i}
             u == [v EXCEPT !.aged = a]
  <2>1. t \in Live /\ Sound(v) /\ v \in TidRec /\ Changes(t, u) /\ out' = <<>>
    BY <1>7 DEF Age, Live, Sound, TidType, Changes
  <2> HIDE DEF a
  <2>2. u.buf = v.buf /\ u.size = v.size /\ u.head = v.head
    BY <2>1 DEF TidRec
  <2>3. u # None
    <3>1. i \in Nat
      BY <1>7, <2>1, OccupiedIsFinite, SizeIsPositive DEF Age, Slots, TidRec
    <3>2. a \in SUBSET Nat
      BY <2>1, <3>1 DEF a, TidRec
    <3>3. u \in TidRec
      BY <2>1, <3>2 DEF TidRec
    <3> QED BY <3>3, NoneTidAssumption
  <2> HIDE DEF u
  <2> QED BY <1>2, <2>1, <2>2, <2>3
<1>8. CASE Shutdown
  <2> DEFINE v == tid[ctl.t]
             gone == IF v.nframes = 0 THEN {} ELSE Occupied(v)
             w == Remove(v, gone)
             u == [w EXCEPT !.stopped = TRUE]
  <2>1. ctl.t \in Live /\ ctl.t \in Tids /\ Sound(v) /\ v \in TidRec
    BY <1>8 DEF Shutdown, IInv, CtlInv, Stopping, Sound, TidType
  <2>2. tid' = [tid EXCEPT ![ctl.t] = u] /\ out' = <<>>
    BY <1>8 DEF Shutdown, Unlock
  <2>3. gone \subseteq Occupied(v) /\ Occupied(v) \ gone = {}
    BY <2>1, OccupiedIsFinite, FS_EmptySet DEF Sound
  <2> HIDE DEF gone
  <2>4. Drained(v, w) /\ Occupied(w) = {}
    BY <2>1, <2>3, RemoveDrains
  <2> HIDE DEF w
  <2>5. w \in TidRec
    BY <2>4 DEF Drained, Sound, TidType
  <2>6. u \in TidRec /\ u.buf = w.buf /\ u.size = w.size /\ u.stopped = TRUE
    BY <2>5 DEF TidRec
  <2> HIDE DEF u
  <2>7. Occupied(u) = {} /\ u # None
    BY <2>4, <2>6, NoneTidAssumption DEF Occupied, Slots
  <2>8. /\ Live' = Live /\ tid'[ctl.t] = u
        /\ \A r \in Tids : r # ctl.t => tid'[r] = tid[r]
    BY <2>1, <2>2, <2>7 DEF Live
  <2>9. Resting
    BY <2>6, <2>7, <2>8 DEF Resting
  <2> QED BY <2>2, <2>9
<1>9. CASE CancelBegin \/ AllocFail
  BY <1>1, <1>9 DEF CancelBegin, AllocFail
<1>10. CASE CancelEnd
  <2> DEFINE v == tid[ctl.t]
             u == [v EXCEPT !.freed = TRUE]
  <2>1. ctl.t \in Live /\ v \in TidRec
    BY <1>10 DEF CancelEnd, IInv, CtlInv, Stopping, Sound, TidType
  <2>2. Changes(ctl.t, u) /\ out' = <<>>
    BY <1>10, Zenon DEF CancelEnd, Changes
  <2>3. u \in TidRec /\ u.buf = v.buf /\ u.size = v.size /\ u.head = v.head
    BY <2>1 DEF TidRec
  <2> HIDE DEF u
  <2>4. u # None
    BY <2>3, NoneTidAssumption
  <2> QED BY <1>2, <2>1, <2>2, <2>3, <2>4
<1>11. ASSUME NEW t \in Tids, Alloc(t) PROVE Resting /\ out' = <<>>
  <2> DEFINE u == NewTid(ctl.ssn, ctl.size)
  <2>1. tid[t] = None /\ tid' = [tid EXCEPT ![t] = u] /\ out' = <<>> /\ t \notin Live
    BY <1>11 DEF Alloc, Live
  <2>2. Occupied(u) = {}
    BY DEF NewTid, Occupied, Slots
  <2> HIDE DEF u
  <2>3. /\ Live' \subseteq Live \cup {t} /\ tid'[t] = u
        /\ \A r \in Tids : r # t => tid'[r] = tid[r]
    BY <2>1 DEF Live
  <2>4. Resting
    BY <2>1, <2>2, <2>3 DEF Resting
  <2> QED BY <2>1, <2>4
<1>12. out' = <<>>
  BY <1>6, <1>7, <1>11 DEF CtlNext, RxDeref, WorkRequeue, WorkDone, Call, Shutdown, Unlock,
     CancelBegin, CancelEnd, AllocFail
<1> QED BY <1>3, <1>4, <1>5, <1>6, <1>7, <1>8, <1>9, <1>10, <1>11, <1>12 DEF CtlNext

\* What every step is: a section of one object, a step that rests, or a stutter.
LEMMA StepKinds ==
  ASSUME Aligned, IInv, Windows, [Next]_vars
  PROVE  \/ \E id \in Live : \E u : Section(id, tid[id], u)
         \/ Resting /\ out' = <<>>
         \/ UNCHANGED vars
<1>1. CASE RxLocked
  <2>1. rx.t \in Live
    <3>1. rx # Idle
      BY <1>1 DEF RxLocked, RxPass, RxDropLate, RxInOrder, RxStore, RxBar, Idle
    <3> QED BY <3>1 DEF IInv, TypeOK
  <2> QED BY <1>1, <2>1, RxSection
<1>2. ASSUME NEW t \in Tids, WorkFire(t) PROVE \E id \in Live : \E u : Section(id, tid[id], u)
  <2>1. t \in Live /\ Sound(tid[t]) /\ Windowed(tid[t], 1)
    BY <1>2 DEF WorkFire, IInv, Live, Windows
  <2>2. CheckRelease(t, tid[t])
    BY <1>2 DEF WorkFire
  <2> QED BY <2>1, <2>2, FlowCheckRelease
<1>3. 0 \in SN /\ StartSNs \subseteq SN
  BY SNFacts, StartAssumption
<1>4. CASE \/ \E sn \in SN, at \in {"data", "bar"} : RxDeref(sn, at)
           \/ \E t \in Tids : WorkRequeue(t) \/ WorkDone(t) \/ Reclaim(t)
           \/ \E t \in Tids : \E i \in AnySlot : Age(t, i)
           \/ CtlNext
           \/ \E ssn \in SN, size \in Sizes \cup {0} : Call(ssn, size)
  BY <1>4, RestingStep
<1>5. CASE Call(0, 0) \/ \E ssn \in StartSNs, size \in Sizes : Call(ssn, size)
  BY <1>3, <1>4, <1>5
<1> QED
  BY <1>1, <1>2, <1>4, <1>5 DEF Next, RxNext, WorkNext

\* What a section does, in terms of the state.
LEMMA SectionFacts ==
  ASSUME IInv, NEW id \in Live, NEW u, Section(id, tid[id], u)
  PROVE  /\ Live' = Live /\ tid'[id] = u /\ Windowed(u, 1)
         /\ \A t \in Live : t # id => tid'[t] = tid[t]
         /\ \E p \in SN : Flow(tid[id], u, p, out')
<1>1. PICK p \in SN : Flow(tid[id], u, p, out')
  BY DEF Section
<1>2. u # None
  BY <1>1, NoneTidAssumption DEF Flow, Sound, TidType
<1>3. Changes(id, u) /\ Windowed(u, 1)
  BY DEF Section
<1>4. DOMAIN tid = Tids /\ id \in Tids
  BY DEF IInv, TypeOK, Live
<1> QED BY <1>1, <1>2, <1>3, <1>4 DEF Changes, Live

\* The windows stay exact.
LEMMA NextWindows == Aligned => (IInv /\ Windows /\ [Next]_vars => Windows')
<1> SUFFICES ASSUME Aligned, IInv, Windows, [Next]_vars PROVE Windows'
  OBVIOUS
<1>1. CASE \E id \in Live : \E u : Section(id, tid[id], u)
  <2>1. PICK id \in Live : \E u : Section(id, tid[id], u)
    BY <1>1
  <2>2. PICK u : Section(id, tid[id], u)
    BY <2>1
  <2>3. Live' = Live /\ tid'[id] = u /\ Windowed(u, 1) /\ \A t \in Live : t # id => tid'[t] = tid[t]
    BY <2>2, SectionFacts
  <2> QED BY <2>3 DEF Windows
<1>2. CASE Resting
  <2> SUFFICES ASSUME NEW t \in Live' PROVE Windowed(tid'[t], 1)
    BY DEF Windows
  <2>1. CASE Occupied(tid'[t]) = {}
    BY <2>1 DEF Windowed
  <2>2. CASE /\ t \in Live /\ tid'[t].buf = tid[t].buf /\ tid'[t].size = tid[t].size
             /\ tid'[t].head = tid[t].head
    <3>1. Occupied(tid'[t]) = Occupied(tid[t])
      BY <2>2 DEF Occupied, Slots
    <3> QED BY <2>2, <3>1 DEF Windows, Windowed
  <2> QED BY <1>2, <2>1, <2>2 DEF Resting
<1>3. CASE UNCHANGED vars
  BY <1>3 DEF vars, Windows, Live
<1> QED BY <1>1, <1>2, <1>3, StepKinds

\* Every step releases in order and keeps what it does not release.
LEMMA NextInOrder == Aligned => (IInv /\ Windows /\ [Next]_vars => [InOrderStep /\ KeptStep]_vars)
<1> SUFFICES ASSUME Aligned, IInv, Windows, [Next]_vars, ~UNCHANGED vars
             PROVE  InOrderStep /\ KeptStep
  OBVIOUS
<1>1. CASE \E id \in Live : \E u : Section(id, tid[id], u)
  <2>1. PICK id \in Live : \E u : Section(id, tid[id], u)
    BY <1>1
  <2>2. PICK u : Section(id, tid[id], u)
    BY <2>1
  <2>3. Live' = Live /\ tid'[id] = u /\ \A t \in Live : t # id => tid'[t] = tid[t]
    BY <2>2, SectionFacts
  <2>4. PICK p \in SN : Flow(tid[id], u, p, out')
    BY <2>2, SectionFacts
  <2>5. Sound(tid[id])
    BY DEF IInv
  <2>6. SnSub(u.head, tid[id].head) = p
    <3>1. u.head = (tid[id].head + p) % SNMod /\ tid[id].head \in SN
      BY <2>4, <2>5, SoundFacts DEF Flow
    <3>2. SnSub((tid[id].head + p) % SNMod, tid[id].head) = p
      BY <3>1, DistanceOf
    <3> QED BY <3>1, <3>2, Zenon
  <2>7. InOrderStep
    <3> SUFFICES ASSUME NEW t \in Live, tid'[t] # tid[t]
                 PROVE  /\ \A i, j \in DOMAIN out' : i < j =>
                             SnSub(out'[i], tid[t].head) < SnSub(out'[j], tid[t].head)
                        /\ \A i \in DOMAIN out' :
                             SnSub(out'[i], tid[t].head) < SnSub(tid'[t].head, tid[t].head)
      BY DEF InOrderStep
    <3>1. t = id
      BY <2>3
    <3> QED BY <2>3, <2>4, <2>6, <3>1 DEF Flow
  <2>8. KeptStep
    <3> SUFFICES ASSUME NEW t \in Live, NEW i \in Occupied(tid[t])
                 PROVE  \/ tid'[t].buf[i] = tid[t].buf[i]
                        \/ \E k \in DOMAIN out' : out'[k] = tid[t].buf[i]
      BY DEF KeptStep
    <3>1. CASE t = id
      BY <2>3, <2>4, <3>1 DEF Flow
    <3>2. CASE t # id
      BY <2>3, <3>2
    <3> QED BY <3>1, <3>2
  <2> QED BY <2>7, <2>8
<1>2. CASE Resting /\ out' = <<>>
  BY <1>2 DEF Resting, InOrderStep, KeptStep
<1> QED BY <1>1, <1>2, StepKinds

\* With window sizes that divide the sequence space, Windows holds of every
\* reachable state.
THEOREM WindowInvariance == Aligned /\ Spec => []Windows
<1> SUFFICES ASSUME Aligned PROVE Spec => []Windows
  OBVIOUS
<1>1. Init => Windows
  BY DEF Init, Windows, Live
<1>2. IInv /\ Windows /\ [Next]_vars => Windows'
  BY NextWindows
<1> QED BY <1>1, <1>2, Invariance, PTL DEF Spec

\* Every buffered frame sits in the slot of its number, strictly inside the
\* window, and nframes counts the frames, whatever the interleaving of receive
\* path, timeout and stop (agg-rx.c:16-53, 205-239).
THEOREM WindowIsExact == Aligned /\ Spec => []WindowInv
<1>1. IInv /\ Windows => WindowInv
  BY DEF IInv, Sound, Windows, Windowed, WindowInv
<1> QED BY <1>1, WindowInvariance, Invariance, PTL

\* Frames leave in the order of their numbers, each once and only while the
\* head passes it, and none leaves the buffer of a running session otherwise.
THEOREM ReleaseIsInOrder == Aligned /\ Spec => InOrderRelease
<1> SUFFICES ASSUME Aligned PROVE Spec => InOrderRelease
  OBVIOUS
<1>1. IInv /\ Windows /\ [Next]_vars => [InOrderStep /\ KeptStep]_vars
  BY NextInOrder
<1>2. Spec => []Windows
  BY WindowInvariance
<1> QED BY <1>1, <1>2, Invariance, PTL DEF Spec, InOrderRelease

=============================================================================
