----------------------------- MODULE CoreProofs -----------------------------
(***************************************************************************)
(* Theorems about what the shared library of the driver does by itself:    *)
(* the worker threads (Worker) for any set of callers, and what Messages   *)
(* says of time counters, descriptors, wake-ups and images for any inputs. *)
(***************************************************************************)
EXTENDS Worker, Messages, FiniteSetTheorems, WellFoundedInduction, TLAPS

(***************************************************************************)
(* The worker threads.                                                     *)
(***************************************************************************)

\* What the control context knows about the thread while it is at each point.
CtlInv ==
  /\ ctl = "parking" => shouldPark
  /\ ctl = "zero" => shouldPark /\ pc = "parked"
  /\ ctl = "idle" /\ shouldPark => pc = "parked"
  /\ ctl \in {"schedule", "join"} => ~shouldPark
  /\ ctl = "gone" => pc = "exit"
  /\ ~task => ctl = "gone"

IInv == TypeOK /\ NoLostWakeup /\ CtlInv

\* The invariant holds when the worker has been set up.
LEMMA InitIInv == Init => IInv
  BY DEF Init, IInv, TypeOK, NoLostWakeup, CtlInv, Contexts

\* The steps of the thread preserve it.
LEMMA ThreadIInv == IInv /\ Thread => IInv'
<1> SUFFICES ASSUME IInv, Thread PROVE IInv'
  OBVIOUS
<1> USE DEF IInv, TypeOK, NoLostWakeup, CtlInv
<1>1. CASE Top
  BY <1>1 DEF Top
<1>2. CASE CheckPark
  BY <1>2 DEF CheckPark
<1>3. CASE Unparked
  BY <1>3 DEF Unparked
<1>4. CASE TestScheduled
  BY <1>4 DEF TestScheduled
<1>5. CASE Woken
  BY <1>5 DEF Woken
<1>6. CASE SetRunning
  BY <1>6 DEF SetRunning
<1>7. CASE FnReturns
  BY <1>7 DEF FnReturns
<1>8. CASE ClearRunning
  BY <1>8 DEF ClearRunning
<1> QED
  BY <1>1, <1>2, <1>3, <1>4, <1>5, <1>6, <1>7, <1>8 DEF Thread

\* Setting the bit leaves its setter responsible for the wake-up.
LEMMA SetScheduledKeeps ==
  ASSUME IInv, NEW c \in Contexts, SetScheduled(c), UNCHANGED <<pc, tstate>>
  PROVE  NoLostWakeup' /\ call' \in [Contexts -> {"idle", "test", "wake"}]
<1>1. call \in [Contexts -> {"idle", "test", "wake"}]
  BY DEF IInv, TypeOK
<1>2. CASE scheduled
  <2>1. call' = call
    BY <1>2 DEF SetScheduled
  <2> QED BY <1>1, <1>2, <2>1 DEF IInv, NoLostWakeup
<1>3. CASE ~scheduled
  <2>1. call' = [call EXCEPT ![c] = "test"]
    BY <1>3 DEF SetScheduled
  <2>2. call'[c] = "test" /\ call' \in [Contexts -> {"idle", "test", "wake"}]
    BY <1>1, <2>1
  <2> QED BY <2>2 DEF NoLostWakeup
<1> QED BY <1>2, <1>3

\* The callers' steps preserve the invariant.
LEMMA CallIInv ==
  ASSUME IInv,
         (\E c \in Callers : Schedule(c)) \/ (\E c \in Contexts : CallNext(c))
  PROVE  IInv'
<1>1. ASSUME NEW c \in Callers, Schedule(c) PROVE IInv'
  <2>1. c \in Contexts /\ SetScheduled(c)
        /\ UNCHANGED <<running, task, pc, tstate, shouldPark, shouldStop, ctl>>
    BY <1>1 DEF Schedule, Contexts
  <2>2. NoLostWakeup' /\ call' \in [Contexts -> {"idle", "test", "wake"}]
    BY <2>1, SetScheduledKeeps
  <2>3. scheduled' = TRUE
    BY <2>1 DEF SetScheduled
  <2> QED BY <2>1, <2>2, <2>3 DEF IInv, TypeOK, CtlInv
<1>2. ASSUME NEW c \in Contexts, TestRunning(c) PROVE IInv'
  <2>1. UNCHANGED <<scheduled, running, task, pc, tstate, shouldPark, shouldStop, ctl>>
    BY <1>2 DEF TestRunning
  <2>2. /\ call' \in [Contexts -> {"idle", "test", "wake"}]
        /\ ~running => call'[c] = "wake"
    BY <1>2 DEF TestRunning, IInv, TypeOK
  <2>3. NoLostWakeup'
    BY <2>1, <2>2 DEF IInv, TypeOK, NoLostWakeup
  <2> QED BY <2>1, <2>2, <2>3 DEF IInv, TypeOK, CtlInv
<1>3. ASSUME NEW c \in Contexts, WakeUp(c) PROVE IInv'
  <2>1. UNCHANGED <<scheduled, running, task, pc, shouldPark, shouldStop, ctl>>
        /\ call' \in [Contexts -> {"idle", "test", "wake"}]
    BY <1>3 DEF WakeUp, IInv, TypeOK
  <2>2. tstate' # "interruptible" /\ tstate' \in {"running", "interruptible", "parked"}
    BY <1>3 DEF WakeUp, Wake, IInv, TypeOK
  <2> QED BY <2>1, <2>2 DEF IInv, TypeOK, NoLostWakeup, CtlInv
<1> QED BY <1>1, <1>2, <1>3 DEF CallNext

\* The steps of the control context preserve the invariant.
LEMMA ControlIInv == IInv /\ Control => IInv'
<1> SUFFICES ASSUME IInv, Control PROVE IInv'
  OBVIOUS
<1> USE DEF IInv, TypeOK, NoLostWakeup, CtlInv
<1>1. CASE Disable
  BY <1>1 DEF Disable, CtlIdle, Wake
<1>2. CASE ParkDone
  BY <1>2 DEF ParkDone
<1>3. CASE ClearState
  BY <1>3 DEF ClearState
<1>4. CASE Enable
  BY <1>4 DEF Enable, CtlIdle
<1>5. CASE EnableSchedules
  <2>1. Ctl \in Contexts /\ SetScheduled(Ctl) /\ ctl' = "idle" /\ ctl = "schedule"
        /\ UNCHANGED <<running, task, pc, tstate, shouldPark, shouldStop>>
    BY <1>5 DEF EnableSchedules, Contexts
  <2>2. NoLostWakeup' /\ call' \in [Contexts -> {"idle", "test", "wake"}]
    BY <2>1, SetScheduledKeeps
  <2>3. scheduled' = TRUE
    BY <2>1 DEF SetScheduled
  <2> QED BY <2>1, <2>2, <2>3
<1>6. CASE Teardown
  BY <1>6 DEF Teardown, CtlIdle, Wake
<1>7. CASE TeardownDone
  BY <1>7 DEF TeardownDone
<1>8. CASE Setup
  BY <1>8 DEF Setup
<1> QED
  BY <1>1, <1>2, <1>3, <1>4, <1>5, <1>6, <1>7, <1>8 DEF Control

\* Every step preserves the invariant.
LEMMA NextIInv == IInv /\ [Next]_vars => IInv'
<1> SUFFICES ASSUME IInv, [Next]_vars PROVE IInv'
  OBVIOUS
<1>1. CASE UNCHANGED vars
  BY <1>1 DEF vars, IInv, TypeOK, NoLostWakeup, CtlInv
<1>2. CASE Thread
  BY <1>2, ThreadIInv
<1>3. CASE (\E c \in Callers : Schedule(c)) \/ (\E c \in Contexts : CallNext(c))
  BY <1>3, CallIInv
<1>4. CASE Control
  BY <1>4, ControlIInv
<1> QED BY <1>1, <1>2, <1>3, <1>4 DEF Next

\* IInv holds of every reachable state.
LEMMA Invariance == Spec => []IInv
  BY InitIInv, NextIInv, PTL DEF Spec

-----------------------------------------------------------------------------
\* Whatever the number of callers, the thread never sleeps on a request unless
\* its maker is about to wake it (util.c:121-130, util.h:88-90).
THEOREM NoWakeupIsLost == Spec => []NoLostWakeup
<1>1. IInv => NoLostWakeup
  BY DEF IInv
<1> QED BY <1>1, Invariance, PTL

\* worker_disable returns only once the function has returned, and it does not
\* run again before worker_enable (util.h:98-99).
THEOREM DisabledWorkerIsQuiet == Spec => []DisabledIsQuiet
<1>1. IInv => DisabledIsQuiet
  BY DEF IInv, CtlInv, TypeOK, DisabledIsQuiet
<1> QED BY <1>1, Invariance, PTL

\* Every step of the worker is a step of WorkerAbs or changes nothing there.
LEMMA StepRefines == IInv /\ [Next]_vars => [Abs!Next]_(Abs!vars)
<1> SUFFICES ASSUME IInv, [Next]_vars PROVE [Abs!Next]_(Abs!vars)
  OBVIOUS
<1> USE DEF Abs!Next, Abs!vars, Abs!Request, Abs!Begin, Abs!End, Abs!Rest, Abs!Forget,
            Abs!Return, Abs!Renew
<1>1. CASE UNCHANGED vars
  BY <1>1 DEF vars
<1>2. CASE Thread
  <2>1. CASE Top
    BY <2>1 DEF Top
  <2>2. CASE CheckPark
    BY <2>2 DEF CheckPark
  <2>3. CASE Unparked
    BY <2>3 DEF Unparked
  <2>4. CASE TestScheduled
    <3>1. CASE scheduled
      BY <2>4, <3>1 DEF TestScheduled
    <3>2. CASE ~scheduled
      <4>1. scheduled' = scheduled
        BY <2>4, <3>2 DEF TestScheduled, IInv, TypeOK
      <4> QED BY <2>4, <3>2, <4>1 DEF TestScheduled
    <3> QED BY <3>1, <3>2
  <2>5. CASE Woken
    BY <2>5 DEF Woken
  <2>6. CASE SetRunning
    BY <2>6 DEF SetRunning
  <2>7. CASE FnReturns
    BY <2>7 DEF FnReturns
  <2>8. CASE ClearRunning
    BY <2>8 DEF ClearRunning
  <2> QED BY <1>2, <2>1, <2>2, <2>3, <2>4, <2>5, <2>6, <2>7, <2>8 DEF Thread
<1>3. CASE \E c \in Callers : Schedule(c)
  BY <1>3 DEF Schedule, SetScheduled
<1>4. CASE \E c \in Contexts : CallNext(c)
  BY <1>4 DEF CallNext, TestRunning, WakeUp
<1>5. CASE Control
  <2>1. CASE Disable
    BY <2>1 DEF Disable
  <2>2. CASE ParkDone
    BY <2>2 DEF ParkDone
  <2>3. CASE ClearState
    BY <2>3 DEF ClearState, IInv, CtlInv
  <2>4. CASE Enable
    BY <2>4 DEF Enable
  <2>5. CASE EnableSchedules
    BY <2>5 DEF EnableSchedules, SetScheduled
  <2>6. CASE Teardown
    BY <2>6 DEF Teardown
  <2>7. CASE TeardownDone
    BY <2>7 DEF TeardownDone
  <2>8. CASE Setup
    BY <2>8 DEF Setup, IInv, CtlInv
  <2> QED BY <1>5, <2>1, <2>2, <2>3, <2>4, <2>5, <2>6, <2>7, <2>8 DEF Control
<1> QED BY <1>1, <1>2, <1>3, <1>4, <1>5 DEF Next

\* The worker of util.c implements the safety part of the promise of WorkerAbs
\* for any number of callers: requests coalesce into the SCHEDULED bit, a run
\* begins only on a request and takes it, and none begins at rest.
THEOREM Refinement == Spec => Abs!Safe
<1>1. Init => Abs!Init
  BY DEF Init, Abs!Init
<1> QED BY <1>1, StepRefines, Invariance, PTL DEF Spec, Abs!Safe

(***************************************************************************)
(* Folds.  FoldLeft is a recursive function on the subsets of the indices  *)
(* of a sequence; such a function exists, and its values on the prefixes   *)
(* are those of a run through the sequence.  An operator is made a         *)
(* function, step, for this.                                               *)
(***************************************************************************)

\* A set of naturals has a least element.
LEMMA LeastNat ==
  ASSUME NEW S, S \subseteq Nat, S # {}
  PROVE  \E m \in S : \A k \in S : m <= k
<1> DEFINE R == StrictSubsetOrdering(Nat)
           T == {0 .. k : k \in S}
<1>1. IsWellFoundedOn(R, FiniteSubsetsOf(Nat))
  BY FS_StrictSubsetOrderingWellFounded
<1>2. \A k \in S : 0 .. k \subseteq Nat /\ IsFiniteSet(0 .. k)
  BY FS_Interval
<1>3. T \subseteq FiniteSubsetsOf(Nat) /\ T # {}
  BY <1>2 DEF FiniteSubsetsOf
<1>4. \E x \in T : \A y \in T : ~(<<y, x>> \in R)
  <2> HIDE DEF R, T
  <2> QED BY <1>1, <1>3, WFMin
<1>5. PICK m \in S : \A k \in S : ~(<<0 .. k, 0 .. m>> \in R)
  BY <1>4
<1>6. ASSUME NEW k \in S, ~(m <= k) PROVE FALSE
  <2>1. k \in Nat /\ m \in Nat /\ k < m
    BY <1>6
  <2>2. 0 .. k \subseteq 0 .. m /\ m \in 0 .. m /\ m \notin 0 .. k
    BY <2>1
  <2>3. <<0 .. k, 0 .. m>> \in R
    BY <1>2, <2>2 DEF StrictSubsetOrdering
  <2> QED BY <1>5, <2>3
<1> QED BY <1>6

\* A set closed under the successor has every natural number.
LEMMA Induct ==
  ASSUME NEW G, 0 \in G, \A k \in Nat : k \in G => k + 1 \in G
  PROVE  Nat \subseteq G
<1> DEFINE B == {k \in Nat : k \notin G}
<1> SUFFICES ASSUME B # {} PROVE FALSE
  OBVIOUS
<1>1. PICK m \in B : \A k \in B : m <= k
  <2>1. B \subseteq Nat
    OBVIOUS
  <2> HIDE DEF B
  <2> QED BY <2>1, LeastNat
<1>2. m \in Nat /\ m # 0
  BY <1>1
<1>3. m - 1 \in Nat /\ ~(m <= m - 1)
  BY <1>2
<1>4. m - 1 \in G
  BY <1>1, <1>3
<1> QED BY <1>1, <1>3, <1>4

\* The largest index of a set of indices is one of them.
LEMMA MaxIndex ==
  ASSUME NEW n \in Nat, NEW U \in SUBSET (1 .. n), U # {}
  PROVE  Max(U) \in U
<1> DEFINE S == {k \in Nat : \A j \in U : j <= k}
<1>1. n \in S
  OBVIOUS
<1>2. PICK m \in S : \A k \in S : m <= k
  <2>1. S \subseteq Nat /\ S # {}
    BY <1>1
  <2> HIDE DEF S
  <2> QED BY <2>1, LeastNat
<1>3. m \in U
  <2> SUFFICES ASSUME m \notin U PROVE FALSE
    OBVIOUS
  <2>1. m \in Nat /\ \A j \in U : j <= m - 1
    BY <1>2
  <2>2. m - 1 \in Nat
    <3>1. PICK j \in U : j \in 1 .. n
      OBVIOUS
    <3> QED BY <2>1, <3>1
  <2>3. m - 1 \in S
    BY <2>1, <2>2
  <2> QED BY <1>2, <2>1, <2>3
<1>4. \E x \in U : \A y \in U : x >= y
  BY <1>2, <1>3
<1> QED BY <1>4 DEF Max

\* it is the function behind a fold of n elements, with values in V.
IsFold(it, n, V, base, step) ==
  /\ it \in [SUBSET (1 .. n) -> V]
  /\ \A U \in SUBSET (1 .. n) :
       it[U] = IF U = {} THEN base ELSE step[<<Max(U), it[U \ {Max(U)}]>>]

\* There is one.
LEMMA FoldExists ==
  ASSUME NEW n \in Nat, NEW V, NEW base \in V, NEW step \in [(1 .. n) \X V -> V]
  PROVE  \E it : IsFold(it, n, V, base, step)
<1> DEFINE S == 1 .. n
           Body(it, U) == IF U = {} THEN base ELSE step[<<Max(U), it[U \ {Max(U)}]>>]
           Fits(it, k) == \A U \in SUBSET S : Cardinality(U) <= k => it[U] = Body(it, U)
           G == {k \in Nat : \E it \in [SUBSET S -> V] : Fits(it, k)}
<1>0. IsFiniteSet(S) /\ \A U \in SUBSET S : IsFiniteSet(U) /\ Cardinality(U) \in Nat
  <2>1. IsFiniteSet(S)
    BY FS_Interval
  <2> HIDE DEF S
  <2> QED BY <2>1, FS_Subset, FS_CardinalityType
<1>1. 0 \in G
  <2> DEFINE it == [U \in SUBSET S |-> base]
  <2>1. Fits(it, 0)
    <3> SUFFICES ASSUME NEW U \in SUBSET S, Cardinality(U) <= 0 PROVE it[U] = Body(it, U)
      OBVIOUS
    <3>1. U = {}
      BY <1>0, FS_EmptySet
    <3> QED BY <3>1
  <2>2. it \in [SUBSET S -> V]
    OBVIOUS
  <2> HIDE DEF it
  <2> QED BY <2>1, <2>2
<1>2. ASSUME NEW k \in Nat, k \in G PROVE k + 1 \in G
  <2>1. PICK it \in [SUBSET S -> V] : Fits(it, k)
    BY <1>2
  <2> DEFINE on == [U \in SUBSET S |-> Body(it, U)]
  <2>2. ASSUME NEW U \in SUBSET S, U # {}
        PROVE  /\ Max(U) \in S /\ U \ {Max(U)} \in SUBSET S
               /\ Cardinality(U \ {Max(U)}) = Cardinality(U) - 1
    BY <1>0, <2>2, FS_RemoveElement, MaxIndex
  <2>3. on \in [SUBSET S -> V]
    <3>1. \A U \in SUBSET S : U # {} => <<Max(U), it[U \ {Max(U)}]>> \in S \X V
      BY <2>2
    <3> QED BY <3>1
  <2>4. Fits(on, k + 1)
    <3> SUFFICES ASSUME NEW U \in SUBSET S, Cardinality(U) <= k + 1 PROVE on[U] = Body(on, U)
      OBVIOUS
    <3>1. CASE U = {}
      BY <3>1
    <3>2. CASE U # {}
      <4> DEFINE T == U \ {Max(U)}
      <4>1. T \in SUBSET S /\ Cardinality(T) <= k
        <5>1. Cardinality(U) \in Nat
          BY <1>0
        <5>2. T \in SUBSET S /\ Cardinality(T) = Cardinality(U) - 1
          BY <2>2, <3>2
        <5> HIDE DEF T
        <5> QED BY <5>1, <5>2
      <4>2. it[T] = on[T]
        BY <2>1, <4>1
      <4> QED BY <3>2, <4>2
    <3> QED BY <3>1, <3>2
  <2> HIDE DEF on, Fits
  <2> QED BY <2>3, <2>4
<1>3. Nat \subseteq G
  <2> HIDE DEF G
  <2> QED BY <1>1, <1>2, Induct
<1>4. PICK it \in [SUBSET S -> V] : Fits(it, Cardinality(S))
  BY <1>0, <1>3
<1>5. \A U \in SUBSET S : it[U] = Body(it, U)
  <2>1. \A U \in SUBSET S : Cardinality(U) <= Cardinality(S)
    BY <1>0, FS_Subset
  <2> QED BY <1>4, <2>1
<1> QED BY <1>5 DEF IsFold

\* The last index of a prefix, and what is left without it.
LEMMA Prefix ==
  ASSUME NEW n \in Nat
  PROVE  /\ 1 .. 0 = {} /\ {} \in SUBSET (1 .. n)
         /\ \A k \in 1 .. n : /\ 1 .. k \in SUBSET (1 .. n) /\ 1 .. k # {}
                              /\ Max(1 .. k) = k /\ (1 .. k) \ {k} = 1 .. (k - 1)
<1>1. 1 .. 0 = {}
  OBVIOUS
<1>2. ASSUME NEW k \in 1 .. n
      PROVE  /\ 1 .. k \in SUBSET (1 .. n) /\ 1 .. k # {}
             /\ Max(1 .. k) = k /\ (1 .. k) \ {k} = 1 .. (k - 1)
  <2>1. k \in 1 .. k /\ \A y \in 1 .. k : k >= y /\ y \in 1 .. n
    OBVIOUS
  <2>2. \A x \in 1 .. k : (\A y \in 1 .. k : x >= y) => x = k
    OBVIOUS
  <2>3. Max(1 .. k) = k
    BY <2>1, <2>2 DEF Max
  <2>4. \A j : j \in (1 .. k) \ {k} <=> j \in 1 .. (k - 1)
    OBVIOUS
  <2> QED BY <2>1, <2>3, <2>4
<1> QED BY <1>1, <1>2

\* Induction over a run: what holds at first and is passed on holds at the end.
LEMMA Run ==
  ASSUME NEW n \in Nat, NEW h, NEW W, h[0] \in W[0],
         \A k \in 1 .. n : h[k - 1] \in W[k - 1] => h[k] \in W[k]
  PROVE  \A k \in 0 .. n : h[k] \in W[k]
<1> DEFINE G == {k \in Nat : k <= n => h[k] \in W[k]}
<1>1. 0 \in G
  OBVIOUS
<1>2. ASSUME NEW k \in Nat, k \in G PROVE k + 1 \in G
  <2> SUFFICES ASSUME k + 1 <= n PROVE h[k + 1] \in W[k + 1]
    OBVIOUS
  <2>1. k + 1 \in 1 .. n /\ k + 1 - 1 = k /\ h[k] \in W[k]
    BY <1>2
  <2> QED BY <2>1
<1>3. Nat \subseteq G
  <2> HIDE DEF G
  <2> QED BY <1>1, <1>2, Induct
<1> QED BY <1>3

(***************************************************************************)
(* The survey.  SurveyAgrees is preserved by every event, for a state      *)
(* whose survey time has not passed the clock.                             *)
(***************************************************************************)
Times == [active : Nat, busy : Nat, tx : Nat, rx : Nat]
MibCounts == [busy : Nat, tx : Nat, rx : Nat, obss : Nat]
SurveyState ==
  [now : Nat, since : Nat, cur : Channels, air : Channels, main : Channels, works : {0, 1},
   mib : Nat, hwMib : Nat, hw : MibCounts, strayed : SUBSET Channels,
   chan : [Channels -> Times], told : [Channels -> Times], true : [Channels -> Times]]
Surveyed == {s \in SurveyState : s.since <= s.now /\ SurveyAgrees(s)}

\* A new survey has lost nothing.
LEMMA SurveyBegins == NewSurvey(Channels, 1) \in Surveyed
<1>1. 1 \in Channels
  BY HistoriesAssumption
<1>2. NewSurvey(Channels, 1) \in SurveyState
  BY <1>1 DEF NewSurvey, SurveyState, Times, MibCounts, NoTime, NoCount
<1>3. SurveyAgrees(NewSurvey(Channels, 1))
  BY <1>1 DEF NewSurvey, SurveyAgrees, Booked, NoTime, NoCount
<1> QED BY <1>2, <1>3 DEF Surveyed, NewSurvey

\* Time that passes is on the clock and in the counters.
LEMMA TickSurveys ==
  ASSUME NEW s \in Surveyed, NEW use \in {"idle", "tx", "rx", "obss"}
  PROVE  Tick(s, use) \in Surveyed
<1> DEFINE t == Tick(s, use)
<1>0. s \in SurveyState /\ SurveyAgrees(s) /\ s.since <= s.now
  BY DEF Surveyed
<1>1. /\ Counted(s.hw, use) \in MibCounts
      /\ \A c \in Channels :
           s.chan[c] \in Times /\ Spent(s.told[c], use) \in Times /\ Spent(s.true[c], use) \in Times
  <2>1. s.hw \in MibCounts /\ \A c \in Channels : s.chan[c] \in Times /\ s.told[c] \in Times
                                                 /\ s.true[c] \in Times
    BY <1>0 DEF SurveyState
  <2>2. Counted(s.hw, use) \in MibCounts
    BY <2>1 DEF Counted, MibCounts
  <2>3. \A time \in Times : Spent(time, use) \in Times
    BY DEF Spent, Times
  <2> QED BY <2>1, <2>2, <2>3
<1> DEFINE told == [s.told EXCEPT ![s.cur] = Spent(@, use)]
           true == [s.true EXCEPT ![s.air] = Spent(@, use)]
           strayed == IF s.air = s.cur THEN s.strayed ELSE s.strayed \cup {s.air, s.cur}
<1>2. /\ t \in SurveyState /\ t.chan = s.chan /\ t.cur = s.cur /\ t.since = s.since
      /\ t.now = s.now + 1 /\ t.hw = Counted(s.hw, use) /\ t.told = told /\ t.true = true
      /\ t.strayed = strayed
  <2>1. /\ s.cur \in Channels /\ s.air \in Channels /\ s.strayed \in SUBSET Channels
        /\ s.told \in [Channels -> Times] /\ s.true \in [Channels -> Times]
        /\ s.now + 1 \in Nat /\ s.hwMib + 1 \in Nat
    BY <1>0 DEF SurveyState
  <2>2. /\ told \in [Channels -> Times] /\ true \in [Channels -> Times]
        /\ strayed \in SUBSET Channels
    BY <1>1, <2>1
  <2>3. t = [s EXCEPT !.now = s.now + 1, !.hwMib = s.hwMib + 1, !.hw = Counted(s.hw, use),
                      !.told = told, !.true = true, !.strayed = strayed]
    BY <1>0 DEF Tick, SurveyState
  <2> HIDE DEF t, told, true, strayed
  <2> QED BY <1>0, <1>1, <2>1, <2>2, <2>3 DEF SurveyState
<1>3. SurveyAgrees(t)
  <2>1. Booked(t)
    <3> SUFFICES ASSUME NEW c \in Channels
                 PROVE  t.told[c] =
                          [active |-> t.chan[c].active + (IF c = t.cur THEN t.now - t.since ELSE 0),
                           busy |-> t.chan[c].busy + (IF c = t.cur THEN t.hw.busy ELSE 0),
                           tx |-> t.chan[c].tx + (IF c = t.cur THEN t.hw.tx ELSE 0),
                           rx |-> t.chan[c].rx + (IF c = t.cur THEN t.hw.rx + t.hw.obss ELSE 0)]
      BY DEF Booked
    <3>2. s.told[c] =
            [active |-> s.chan[c].active + (IF c = s.cur THEN s.now - s.since ELSE 0),
             busy |-> s.chan[c].busy + (IF c = s.cur THEN s.hw.busy ELSE 0),
             tx |-> s.chan[c].tx + (IF c = s.cur THEN s.hw.tx ELSE 0),
             rx |-> s.chan[c].rx + (IF c = s.cur THEN s.hw.rx + s.hw.obss ELSE 0)]
      BY <1>0 DEF SurveyAgrees, Booked
    <3>3. /\ s.now \in Nat /\ s.since \in Nat /\ s.hw \in MibCounts /\ s.chan[c] \in Times
          /\ DOMAIN s.told = Channels
      BY <1>0 DEF SurveyState
    <3> HIDE DEF t, true, strayed
    <3>4. CASE c = s.cur
      <4>1. t.told[c] = Spent(s.told[c], use)
        BY <1>2, <3>3, <3>4
      <4> HIDE DEF told
      <4> QED BY <1>2, <3>2, <3>3, <3>4, <4>1 DEF Spent, Counted, MibCounts, Times
    <3>5. CASE c # s.cur
      <4>1. t.told[c] = s.told[c]
        BY <1>2, <3>3, <3>5
      <4> HIDE DEF told
      <4> QED BY <1>2, <3>2, <3>3, <3>5, <4>1
    <3> QED BY <3>4, <3>5
  <2>2. ASSUME NEW c \in Channels, c \notin strayed PROVE t.true[c] = t.told[c]
    <3>1. s.true[c] = s.told[c]
      BY <1>0, <2>2 DEF SurveyAgrees
    <3>2. DOMAIN s.told = Channels /\ DOMAIN s.true = Channels
      BY <1>0 DEF SurveyState
    <3> HIDE DEF t
    <3> QED BY <1>2, <2>2, <3>1, <3>2
  <2> HIDE DEF t, strayed
  <2> QED BY <1>2, <2>1, <2>2 DEF SurveyAgrees
<1>4. t.since <= t.now
  BY <1>0 DEF Tick, SurveyState
<1> QED BY <1>2, <1>3, <1>4 DEF Surveyed

\* Bringing the survey up to date leaves nothing open.
LEMMA UpdateSurveys ==
  ASSUME NEW s \in Surveyed
  PROVE  /\ UpdateSurvey(s) \in Surveyed
         /\ UpdateSurvey(s).since = UpdateSurvey(s).now /\ UpdateSurvey(s).hw = NoCount
<1> DEFINE t == UpdateSurvey(s)
           spent == [active |-> s.chan[s.cur].active + (s.now - s.since),
                     busy |-> s.chan[s.cur].busy + s.hw.busy, tx |-> s.chan[s.cur].tx + s.hw.tx,
                     rx |-> s.chan[s.cur].rx + (s.hw.rx + s.hw.obss)]
<1>0. s \in SurveyState /\ SurveyAgrees(s) /\ s.since <= s.now
  BY DEF Surveyed
<1>1. /\ s.now \in Nat /\ s.since \in Nat /\ s.now - s.since \in Nat /\ s.cur \in Channels
      /\ s.chan \in [Channels -> Times] /\ s.hw \in MibCounts
  BY <1>0 DEF SurveyState
<1>2. PhyUpdateChannel(s.chan[s.cur], s.hw) =
        [active |-> s.chan[s.cur].active, busy |-> spent.busy, tx |-> spent.tx, rx |-> spent.rx]
  <2>1. s.chan[s.cur] \in Times
    BY <1>1
  <2>2. \A time \in Times, h \in MibCounts :
          LET new == PhyUpdateChannel(time, h)
          IN /\ new \in Times /\ new.active = time.active /\ new.busy = time.busy + h.busy
             /\ new.tx = time.tx + h.tx /\ new.rx = time.rx + (h.rx + h.obss)
    <3> TAKE time \in Times, h \in MibCounts
    <3> DEFINE new == PhyUpdateChannel(time, h)
    <3>1. new = [time EXCEPT !.busy = @ + h.busy, !.tx = @ + h.tx, !.rx = @ + h.rx + h.obss]
      BY DEF PhyUpdateChannel
    <3>2. /\ time.busy + h.busy \in Nat /\ time.tx + h.tx \in Nat
          /\ time.rx + h.rx + h.obss \in Nat
          /\ time.rx + h.rx + h.obss = time.rx + (h.rx + h.obss)
      BY DEF Times, MibCounts
    <3>3. PhyUpdateChannel(time, h) = new
      OBVIOUS
    <3> HIDE DEF new
    <3> QED BY <3>1, <3>2, <3>3 DEF Times
  <2>3. \A time \in Times : time = [active |-> time.active, busy |-> time.busy,
                                    tx |-> time.tx, rx |-> time.rx]
    BY DEF Times
  <2> QED BY <1>1, <2>1, <2>2, <2>3
<1>3. spent \in Times /\ NoCount \in MibCounts
  BY <1>1 DEF Times, MibCounts, NoCount
<1>4. /\ t \in SurveyState /\ t.since = t.now /\ t.hw = NoCount
      /\ t.chan = [s.chan EXCEPT ![s.cur] = spent] /\ t.told = s.told /\ t.cur = s.cur
      /\ t.now = s.now /\ t.true = s.true /\ t.strayed = s.strayed
  <2> DEFINE u == UpdateChannel(s)
             half == [active |-> s.chan[s.cur].active, busy |-> spent.busy, tx |-> spent.tx,
                      rx |-> spent.rx]
  <2>0. half \in Times
    BY <1>1 DEF Times, MibCounts
  <2>1. /\ u \in SurveyState /\ u.chan = [s.chan EXCEPT ![s.cur] = half] /\ u.hw = NoCount
        /\ u.told = s.told /\ u.cur = s.cur /\ u.now = s.now /\ u.since = s.since
        /\ u.true = s.true /\ u.strayed = s.strayed
    BY <1>0, <1>1, <1>2, <1>3, <2>0 DEF UpdateChannel, SurveyState
  <2>2. [u.chan EXCEPT ![u.cur].active = @ + (u.now - u.since)] = [s.chan EXCEPT ![s.cur] = spent]
    <3>1. \A f \in [Channels -> Times] :
            [f EXCEPT ![s.cur] = half] = [c \in Channels |-> IF c = s.cur THEN half ELSE f[c]]
      BY <1>1, <2>0
    <3> QED BY <1>1, <2>0, <2>1 DEF Times
  <2> HIDE DEF u, spent
  <2>3. t = [u EXCEPT !.chan = [s.chan EXCEPT ![s.cur] = spent], !.since = s.now]
    BY <2>1, <2>2 DEF u, UpdateSurvey, UpdateActive
  <2>4. [s.chan EXCEPT ![s.cur] = spent] \in [Channels -> Times]
    BY <1>1, <1>3
  <2> HIDE DEF t
  <2> QED BY <1>0, <1>1, <1>3, <2>1, <2>3, <2>4 DEF SurveyState
<1>5. Booked(t)
  <2>1. /\ t.chan = [s.chan EXCEPT ![s.cur] = spent] /\ t.told = s.told /\ t.cur = s.cur
        /\ t.now = s.now /\ t.since = t.now /\ t.hw = NoCount
    BY <1>4
  <2> SUFFICES ASSUME NEW c \in Channels
               PROVE  t.told[c] =
                        [active |-> t.chan[c].active + (IF c = t.cur THEN t.now - t.since ELSE 0),
                         busy |-> t.chan[c].busy + (IF c = t.cur THEN t.hw.busy ELSE 0),
                         tx |-> t.chan[c].tx + (IF c = t.cur THEN t.hw.tx ELSE 0),
                         rx |-> t.chan[c].rx + (IF c = t.cur THEN t.hw.rx + t.hw.obss ELSE 0)]
    BY DEF Booked
  <2>2. s.told[c] =
          [active |-> s.chan[c].active + (IF c = s.cur THEN s.now - s.since ELSE 0),
           busy |-> s.chan[c].busy + (IF c = s.cur THEN s.hw.busy ELSE 0),
           tx |-> s.chan[c].tx + (IF c = s.cur THEN s.hw.tx ELSE 0),
           rx |-> s.chan[c].rx + (IF c = s.cur THEN s.hw.rx + s.hw.obss ELSE 0)]
    BY <1>0 DEF SurveyAgrees, Booked
  <2>3. s.chan[c] \in Times
    BY <1>1
  <2>4. CASE c = s.cur
    <3>1. t.chan[c] = spent
      BY <1>1, <2>1, <2>4
    <3> QED BY <1>1, <2>1, <2>2, <2>4, <3>1 DEF NoCount, Times, MibCounts
  <2>5. CASE c # s.cur
    <3>1. t.chan[c] = s.chan[c]
      BY <1>1, <2>1, <2>5
    <3> QED BY <2>1, <2>2, <2>3, <2>5, <3>1 DEF Times
  <2> QED BY <2>4, <2>5
<1>6. SurveyAgrees(t)
  <2> HIDE DEF t
  <2> QED BY <1>0, <1>4, <1>5 DEF SurveyAgrees
<1> QED BY <1>1, <1>4, <1>6 DEF Surveyed

\* A switch of channel that starts from an up to date survey.
LEMMA TuneSurveys ==
  ASSUME NEW s \in Surveyed, s.since = s.now, s.hw = NoCount,
         NEW c \in Channels, NEW off \in BOOLEAN, NEW end \in {"ok", "lost", "late"}
  PROVE  Tune(s, c, off, end) \in Surveyed
<1> DEFINE main == IF off THEN s.main ELSE c
           air == IF end = "lost" THEN s.air ELSE c
           chan == [s.chan EXCEPT ![c] = IF c # main THEN NoTime ELSE @]
           told == [s.told EXCEPT ![c] = IF c # main THEN NoTime ELSE @]
           true == [s.true EXCEPT ![c] = IF c # main THEN NoTime ELSE @]
           strayed == IF c # main THEN s.strayed \ {c} ELSE s.strayed
           tuned == [s EXCEPT !.cur = c, !.main = main, !.air = air, !.chan = chan, !.told = told,
                              !.true = true, !.strayed = strayed]
           t == Tune(s, c, off, end)
<1>0. s \in SurveyState /\ SurveyAgrees(s) /\ Booked(s)
  BY DEF Surveyed, SurveyAgrees
<1>1. /\ s.chan \in [Channels -> Times] /\ s.told \in [Channels -> Times]
      /\ s.true \in [Channels -> Times] /\ s.strayed \in SUBSET Channels
      /\ s.now \in Nat /\ s.main \in Channels /\ s.air \in Channels
      /\ NoTime \in Times /\ NoCount \in MibCounts
  BY <1>0 DEF SurveyState, NoTime, NoCount, Times, MibCounts
<1>2. /\ main \in Channels /\ air \in Channels /\ chan \in [Channels -> Times]
      /\ told \in [Channels -> Times] /\ true \in [Channels -> Times]
      /\ strayed \in SUBSET Channels
  BY <1>1
<1>3. s.told = s.chan
  <2>1. \A d \in Channels : s.told[d] = s.chan[d]
    <3> TAKE d \in Channels
    <3>1. s.chan[d] \in Times /\ s.told[d] \in Times
      BY <1>1
    <3>2. s.told[d] = [active |-> s.chan[d].active, busy |-> s.chan[d].busy,
                       tx |-> s.chan[d].tx, rx |-> s.chan[d].rx]
      <4>1. s.told[d] =
              [active |-> s.chan[d].active + (IF d = s.cur THEN s.now - s.since ELSE 0),
               busy |-> s.chan[d].busy + (IF d = s.cur THEN s.hw.busy ELSE 0),
               tx |-> s.chan[d].tx + (IF d = s.cur THEN s.hw.tx ELSE 0),
               rx |-> s.chan[d].rx + (IF d = s.cur THEN s.hw.rx + s.hw.obss ELSE 0)]
        BY <1>0 DEF Booked
      <4> QED BY <1>1, <3>1, <4>1 DEF NoCount, Times
    <3> QED BY <3>1, <3>2 DEF Times
  <2> QED BY <1>1, <2>1
<1>4. told = chan /\ \A d \in Channels \ strayed : true[d] = told[d]
  <2>1. \A d \in Channels \ s.strayed : s.true[d] = s.told[d]
    BY <1>0 DEF SurveyAgrees
  <2>2. told = chan
    BY <1>3
  <2>3. ASSUME NEW d \in Channels \ strayed PROVE true[d] = told[d]
    BY <1>1, <2>1, <2>3
  <2> HIDE DEF told, true, chan, strayed
  <2> QED BY <2>2, <2>3
<1> HIDE DEF main, air, chan, told, true, strayed
<1>5. /\ tuned \in SurveyState /\ tuned.since = tuned.now /\ tuned.hw = NoCount
      /\ tuned.chan = chan /\ tuned.told = chan /\ tuned.true = true /\ tuned.now = s.now
      /\ tuned.strayed = strayed
  BY <1>0, <1>1, <1>2, <1>4 DEF SurveyState
<1>6. t = IF end = "ok" THEN ResetCounters([tuned EXCEPT !.now = @ + 1]) ELSE tuned
  BY <1>0 DEF Tune, SurveyState, main, air, chan, told, true, strayed
<1> HIDE DEF tuned
<1>7. /\ t \in SurveyState /\ t.since = t.now /\ t.hw = NoCount /\ t.chan = chan
      /\ t.told = chan /\ t.true = true /\ t.strayed = strayed
  <2>1. s.now + 1 \in Nat
    BY <1>1
  <2> HIDE DEF t
  <2>2. CASE end = "ok"
    <3>1. t = [tuned EXCEPT !.now = s.now + 1, !.since = s.now + 1, !.hw = NoCount]
      BY <1>5, <1>6, <2>2 DEF ResetCounters, SurveyState
    <3> QED BY <1>1, <1>5, <2>1, <3>1 DEF SurveyState
  <2>3. CASE end # "ok"
    BY <1>5, <1>6, <2>3
  <2> QED BY <2>2, <2>3
<1>8. Booked(t)
  <2> SUFFICES ASSUME NEW d \in Channels
               PROVE  t.told[d] =
                        [active |-> t.chan[d].active + (IF d = t.cur THEN t.now - t.since ELSE 0),
                         busy |-> t.chan[d].busy + (IF d = t.cur THEN t.hw.busy ELSE 0),
                         tx |-> t.chan[d].tx + (IF d = t.cur THEN t.hw.tx ELSE 0),
                         rx |-> t.chan[d].rx + (IF d = t.cur THEN t.hw.rx + t.hw.obss ELSE 0)]
    BY DEF Booked
  <2>1. chan[d] \in Times /\ t.now \in Nat
    BY <1>2, <1>7 DEF SurveyState
  <2>2. t.now - t.since = 0
    BY <1>7, <2>1
  <2>3. chan[d] = [active |-> chan[d].active + 0, busy |-> chan[d].busy + 0,
                   tx |-> chan[d].tx + 0, rx |-> chan[d].rx + 0]
    BY <2>1 DEF Times
  <2> HIDE DEF t
  <2> QED BY <1>7, <2>1, <2>2, <2>3 DEF NoCount
<1>9. t.now \in Nat /\ t.since <= t.now /\ SurveyAgrees(t)
  <2> HIDE DEF t
  <2> QED BY <1>4, <1>7, <1>8 DEF SurveyState, SurveyAgrees
<1> QED BY <1>7, <1>9 DEF Surveyed

\* Every event keeps the account.
LEMMA StepSurveys ==
  ASSUME NEW s \in Surveyed, NEW e \in SurveyEvent(Channels)
  PROVE  SurveyStep(s, e) \in Surveyed
<1>1. CASE e.ev = "tick"
  <2>1. e.use \in {"idle", "tx", "rx", "obss"}
    BY <1>1 DEF SurveyEvent
  <2> QED BY <1>1, <2>1, TickSurveys DEF SurveyStep
<1>2. CASE e.ev = "work"
  <2> DEFINE u == UpdateSurvey(s)
  <2>1. u \in Surveyed /\ u \in SurveyState
    BY UpdateSurveys DEF Surveyed
  <2>2. SurveyStep(s, e) = IF s.works = 1 THEN [MibStats(u) EXCEPT !.works = 0]
                           ELSE [u EXCEPT !.works = 1]
    BY <1>2 DEF SurveyStep, MacWork
  <2> HIDE DEF u
  <2>3. [MibStats(u) EXCEPT !.works = 0] \in Surveyed
    <3> DEFINE t == [MibStats(u) EXCEPT !.works = 0]
    <3>1. t = [u EXCEPT !.mib = u.mib + u.hwMib, !.hwMib = 0, !.works = 0]
      BY <2>1 DEF MibStats, SurveyState
    <3> HIDE DEF t
    <3>2. u.mib + u.hwMib \in Nat
      BY <2>1 DEF SurveyState
    <3>3. /\ t \in SurveyState /\ t.now = u.now /\ t.since = u.since /\ t.cur = u.cur
          /\ t.chan = u.chan /\ t.told = u.told /\ t.true = u.true /\ t.hw = u.hw
          /\ t.strayed = u.strayed
      BY <2>1, <3>1, <3>2 DEF SurveyState
    <3>4. t \in Surveyed
      BY <2>1, <3>3 DEF Surveyed, SurveyAgrees, Booked
    <3> QED BY <3>4 DEF t
  <2>4. [u EXCEPT !.works = 1] \in Surveyed
    <3> DEFINE t == [u EXCEPT !.works = 1]
    <3>1. /\ t \in SurveyState /\ t.now = u.now /\ t.since = u.since /\ t.cur = u.cur
          /\ t.chan = u.chan /\ t.told = u.told /\ t.true = u.true /\ t.hw = u.hw
          /\ t.strayed = u.strayed
      BY <2>1 DEF SurveyState
    <3> HIDE DEF t
    <3>2. t \in Surveyed
      BY <2>1, <3>1 DEF Surveyed, SurveyAgrees, Booked
    <3> QED BY <3>2 DEF t
  <2> QED BY <2>2, <2>3, <2>4
<1>3. CASE e.ev = "get"
  BY <1>3, UpdateSurveys DEF SurveyStep, GetSurvey
<1>4. CASE e.ev = "set"
  <2>1. e.chan \in Channels /\ e.off \in BOOLEAN /\ e.end \in {"ok", "lost", "late"}
    BY <1>4 DEF SurveyEvent
  <2>2. Tune(UpdateSurvey(s), e.chan, e.off, e.end) \in Surveyed
    BY <2>1, UpdateSurveys, TuneSurveys
  <2> QED BY <1>4, <2>2 DEF SurveyStep, SetChannel
<1>5. e.ev \in {"tick", "work", "get", "set"}
  BY DEF SurveyEvent
<1> QED BY <1>1, <1>2, <1>3, <1>4, <1>5

\* A history of a radio is a run through its events.
LEMMA SurveyRuns ==
  ASSUME NEW es \in Seq(SurveyEvent(Channels))
  PROVE  \E h : /\ h[0] = NewSurvey(Channels, 1)
                /\ \A k \in 1 .. Len(es) : h[k] = SurveyStep(h[k - 1], es[k])
                /\ Survey(Channels, 1, es) = h[Len(es)]
<1> DEFINE n == Len(es)
           base == NewSurvey(Channels, 1)
           step == [p \in (1 .. n) \X Surveyed |-> SurveyStep(p[2], es[p[1]])]
           Body(f) == [U \in SUBSET (1 .. n) |->
                         IF U = {} THEN base ELSE SurveyStep(f[U \ {Max(U)}], es[Max(U)])]
           it == CHOOSE f : f = Body(f)
           h == [k \in 0 .. n |-> it[1 .. k]]
<1>1. n \in Nat /\ DOMAIN es = 1 .. n /\ \A k \in 1 .. n : es[k] \in SurveyEvent(Channels)
  OBVIOUS
<1>2. base \in Surveyed /\ step \in [(1 .. n) \X Surveyed -> Surveyed]
  BY <1>1, SurveyBegins, StepSurveys
<1>3. PICK f : IsFold(f, n, Surveyed, base, step)
  <2> HIDE DEF step, base, n
  <2> QED BY <1>1, <1>2, FoldExists
<1>4. \A U \in SUBSET (1 .. n) : U # {} => Max(U) \in 1 .. n /\ U \ {Max(U)} \in SUBSET (1 .. n)
  BY <1>1, MaxIndex
<1>5. f \in [SUBSET (1 .. n) -> Surveyed] /\ f = Body(f)
  BY <1>3, <1>4 DEF IsFold
<1>6. it = Body(it)
  BY <1>5
<1>7. Survey(Channels, 1, es) = it[1 .. n]
  BY <1>1 DEF Survey, FoldLeft, MapThenFoldSet
<1> HIDE DEF it, base, n
<1>8. h[0] = base
  BY <1>1, <1>6, Prefix
<1>9. ASSUME NEW k \in 1 .. n PROVE h[k] = SurveyStep(h[k - 1], es[k])
  <2>1. k \in 0 .. n /\ k - 1 \in 0 .. n
    BY <1>1
  <2>2. it[1 .. k] = SurveyStep(it[1 .. (k - 1)], es[k])
    <3>1. /\ 1 .. k \in SUBSET (1 .. n) /\ 1 .. k # {}
          /\ Max(1 .. k) = k /\ (1 .. k) \ {k} = 1 .. (k - 1)
      BY <1>1, Prefix
    <3>2. \A U \in SUBSET (1 .. n) :
            U # {} => it[U] = SurveyStep(it[U \ {Max(U)}], es[Max(U)])
      BY <1>6
    <3>3. it[1 .. k] = SurveyStep(it[(1 .. k) \ {Max(1 .. k)}], es[Max(1 .. k)])
      BY <3>1, <3>2
    <3> QED BY <3>1, <3>3
  <2>3. h[k] = it[1 .. k] /\ h[k - 1] = it[1 .. (k - 1)]
    BY <2>1
  <2> HIDE DEF h
  <2> QED BY <2>2, <2>3
<1>10. h[n] = it[1 .. n]
  BY <1>1
<1> HIDE DEF h
<1> QED BY <1>7, <1>8, <1>9, <1>10 DEF n, base

\* Its account agrees.
LEMMA HistorySurveys ==
  ASSUME NEW es \in Seq(SurveyEvent(Channels))
  PROVE  Survey(Channels, 1, es) \in Surveyed
<1> DEFINE n == Len(es)
           W == [k \in 0 .. n |-> Surveyed]
<1>1. n \in Nat /\ \A k \in 1 .. n : es[k] \in SurveyEvent(Channels)
  OBVIOUS
<1>2. PICK h : /\ h[0] = NewSurvey(Channels, 1)
               /\ \A k \in 1 .. n : h[k] = SurveyStep(h[k - 1], es[k])
               /\ Survey(Channels, 1, es) = h[n]
  BY SurveyRuns
<1> HIDE DEF n
<1>3. \A k \in 0 .. n : h[k] \in W[k]
  <2>1. h[0] \in W[0]
    BY <1>1, <1>2, SurveyBegins
  <2>2. ASSUME NEW k \in 1 .. n, h[k - 1] \in W[k - 1] PROVE h[k] \in W[k]
    <3>1. k - 1 \in 0 .. n /\ k \in 0 .. n
      BY <1>1
    <3>2. h[k - 1] \in Surveyed
      BY <2>2, <3>1
    <3> QED BY <1>1, <1>2, <3>1, <3>2, StepSurveys
  <2> HIDE DEF W
  <2> QED BY <1>1, <2>1, <2>2, Run
<1> QED BY <1>1, <1>2, <1>3
(***************************************************************************)
(* Airtime.  What a counter has gained since it was read is what is still  *)
(* to be told, as long as it has not run round.                            *)
(***************************************************************************)
Dirs == {"tx", "rx"}
AirTimes == [Queues4 -> [Dirs -> Nat]]
AirCounts == [Queues4 -> [Dirs -> 0 .. AirMod - 1]]
PollState == [last : AirCounts, hw : AirCounts, sum : AirTimes, true : AirTimes]
Owed(p) ==
  \A q \in Queues4 : \A d \in Dirs : p.true[q][d] = p.sum[q][d] + Delta(p.hw[q][d], p.last[q][d])
Polled == {p \in PollState : Owed(p)}

\* The remainder of a number below twice the size of the counter.
LEMMA CounterMod ==
  ASSUME NEW x \in Nat, x < 2 * AirMod
  PROVE  x % AirMod = IF x < AirMod THEN x ELSE x - AirMod
<1>1. AirMod \in Nat \ {0}
  BY AirAssumption
<1>2. CASE x < AirMod
  BY <1>1, <1>2
<1>3. CASE x >= AirMod
  <2>1. PICK r \in Nat : r = x % AirMod
    BY <1>1
  <2>2. r \in 0 .. AirMod - 1 /\ x = AirMod * (x \div AirMod) + r
    BY <1>1, <2>1
  <2>3. x \div AirMod \in Nat
    BY <1>1
  <2>4. x \div AirMod = 1
    <3>1. CASE x \div AirMod = 0
      BY <1>1, <1>3, <2>2, <3>1
    <3>2. CASE x \div AirMod >= 2
      <4>1. AirMod * (x \div AirMod) >= AirMod * 2
        BY <1>1, <2>3, <3>2
      <4>2. x >= AirMod * 2
        BY <1>1, <2>2, <2>3, <4>1
      <4> QED BY <1>1, <4>2
    <3> QED BY <2>3, <3>1, <3>2
  <2> QED BY <1>1, <1>3, <2>1, <2>2, <2>4
<1> QED BY <1>1, <1>2, <1>3

\* How far a counter is from its last reading.
LEMMA Distance ==
  ASSUME NEW x \in 0 .. AirMod - 1, NEW y \in 0 .. AirMod - 1
  PROVE  /\ Delta(x, y) \in 0 .. AirMod - 1
         /\ Delta(x, y) = IF x >= y THEN x - y ELSE x - y + AirMod
<1>1. AirMod \in Nat \ {0}
  BY AirAssumption
<1>2. x + AirMod - y \in Nat /\ x + AirMod - y < 2 * AirMod
  BY <1>1
<1> QED BY <1>1, <1>2, CounterMod DEF Delta

\* More of it, before it comes round.
LEMMA DistanceGrows ==
  ASSUME NEW x \in 0 .. AirMod - 1, NEW y \in 0 .. AirMod - 1, NEW n \in Nat,
         Delta(x, y) + n < AirMod
  PROVE  /\ (x + n) % AirMod \in 0 .. AirMod - 1
         /\ Delta((x + n) % AirMod, y) = Delta(x, y) + n
<1>1. AirMod \in Nat \ {0}
  BY AirAssumption
<1>2. /\ Delta(x, y) \in 0 .. AirMod - 1
      /\ Delta(x, y) = IF x >= y THEN x - y ELSE x - y + AirMod
  BY Distance
<1>3. x + n \in Nat /\ x + n < 2 * AirMod
  BY <1>1, <1>2
<1>4. (x + n) % AirMod = IF x + n < AirMod THEN x + n ELSE x + n - AirMod
  <2>1. PICK s \in Nat : s = x + n /\ s < 2 * AirMod
    BY <1>3
  <2>2. s % AirMod = IF s < AirMod THEN s ELSE s - AirMod
    BY <2>1, CounterMod
  <2> QED BY <1>1, <2>1, <2>2
<1>5. PICK z \in 0 .. AirMod - 1 :
        z = (x + n) % AirMod /\ z = IF x + n < AirMod THEN x + n ELSE x + n - AirMod
  BY <1>1, <1>3, <1>4
<1>6. Delta(z, y) = IF z >= y THEN z - y ELSE z - y + AirMod
  BY Distance
<1>7. Delta(z, y) = Delta(x, y) + n
  BY <1>1, <1>2, <1>5, <1>6
<1> QED BY <1>5, <1>7

\* At first, and when the counters are cleared, nothing is owed.
LEMMA PollBegins == NewPoll \in Polled /\ NoAir \in AirCounts /\ NoAir \in AirTimes
<1>1. AirMod \in Nat \ {0} /\ 0 \in 0 .. AirMod - 1
  BY AirAssumption
<1>2. [tx |-> 0, rx |-> 0] \in [Dirs -> 0 .. AirMod - 1] /\ [tx |-> 0, rx |-> 0] \in [Dirs -> Nat]
  BY <1>1 DEF Dirs
<1>3. NoAir \in AirCounts /\ NoAir \in AirTimes
  BY <1>2 DEF NoAir, AirCounts, AirTimes
<1>4. \A q \in Queues4 : \A d \in Dirs : NoAir[q][d] = 0
  BY DEF NoAir, Dirs
<1>5. Delta(0, 0) = 0
  BY <1>1, Distance
<1>6. Owed(NewPoll)
  BY <1>4, <1>5 DEF Owed, NewPoll
<1> QED BY <1>3, <1>6 DEF Polled, PollState, NewPoll

\* Air time is counted, or would have run a counter round.
LEMMA AirPolls ==
  ASSUME NEW p \in Polled, NEW q \in Queues4, NEW dir \in Dirs, NEW n \in Nat
  PROVE  Air(p, q, dir, n) \in Polled
<1>0. p \in PollState /\ Owed(p) /\ AirMod \in Nat \ {0}
  BY AirAssumption DEF Polled
<1> SUFFICES ASSUME p.true[q][dir] + n < p.sum[q][dir] + AirMod PROVE Air(p, q, dir, n) \in Polled
  <2>1. p.true[q][dir] + n \in Nat /\ p.sum[q][dir] + AirMod \in Nat
    BY <1>0 DEF PollState, AirTimes
  <2> QED BY <2>1 DEF Air
<1> DEFINE hw == [p.hw EXCEPT ![q] = [p.hw[q] EXCEPT ![dir] = (p.hw[q][dir] + n) % AirMod]]
           true == [p.true EXCEPT ![q] = [p.true[q] EXCEPT ![dir] = p.true[q][dir] + n]]
           t == [p EXCEPT !.hw = hw, !.true = true]
<1>1. /\ p.hw \in AirCounts /\ p.last \in AirCounts /\ p.sum \in AirTimes /\ p.true \in AirTimes
  BY <1>0 DEF PollState
<1>2. Air(p, q, dir, n) = t
  <2>1. ~(p.true[q][dir] + n >= p.sum[q][dir] + AirMod)
    BY <1>0, <1>1 DEF AirTimes
  <2> QED BY <1>0, <2>1 DEF Air, PollState
<1>3. /\ p.hw[q][dir] \in 0 .. AirMod - 1 /\ p.last[q][dir] \in 0 .. AirMod - 1
      /\ p.true[q][dir] \in Nat /\ p.sum[q][dir] \in Nat
      /\ p.true[q][dir] = p.sum[q][dir] + Delta(p.hw[q][dir], p.last[q][dir])
  BY <1>0, <1>1 DEF AirCounts, AirTimes, Owed
<1>4. /\ (p.hw[q][dir] + n) % AirMod \in 0 .. AirMod - 1
      /\ Delta((p.hw[q][dir] + n) % AirMod, p.last[q][dir]) = Delta(p.hw[q][dir], p.last[q][dir]) + n
  <2>1. Delta(p.hw[q][dir], p.last[q][dir]) \in 0 .. AirMod - 1
    BY <1>3, Distance
  <2>2. Delta(p.hw[q][dir], p.last[q][dir]) + n < AirMod
    BY <1>0, <1>3, <2>1
  <2> QED BY <1>3, <2>2, DistanceGrows
<1>5. hw \in AirCounts /\ true \in AirTimes
  <2>1. [p.hw[q] EXCEPT ![dir] = (p.hw[q][dir] + n) % AirMod] \in [Dirs -> 0 .. AirMod - 1]
    BY <1>1, <1>4 DEF AirCounts
  <2>2. [p.true[q] EXCEPT ![dir] = p.true[q][dir] + n] \in [Dirs -> Nat]
    BY <1>1, <1>3 DEF AirTimes
  <2> QED BY <1>1, <2>1, <2>2 DEF AirCounts, AirTimes
<1>6. t \in PollState /\ t.hw = hw /\ t.true = true /\ t.sum = p.sum /\ t.last = p.last
  BY <1>0, <1>5 DEF PollState
<1>7. ASSUME NEW r \in Queues4, NEW d \in Dirs
      PROVE  true[r][d] = p.sum[r][d] + Delta(hw[r][d], p.last[r][d])
  <2>1. p.true[r][d] = p.sum[r][d] + Delta(p.hw[r][d], p.last[r][d])
    BY <1>0 DEF Owed
  <2>2. CASE r = q /\ d = dir
    <3>1. true[r][d] = p.true[q][dir] + n /\ hw[r][d] = (p.hw[q][dir] + n) % AirMod
      BY <1>1, <2>2 DEF AirCounts, AirTimes
    <3>2. Delta(p.hw[q][dir], p.last[q][dir]) \in 0 .. AirMod - 1
      BY <1>3, Distance
    <3> QED BY <1>0, <1>3, <1>4, <2>2, <3>1, <3>2
  <2>3. CASE ~(r = q /\ d = dir)
    <3>1. true[r][d] = p.true[r][d] /\ hw[r][d] = p.hw[r][d]
      BY <1>1, <2>3 DEF AirCounts, AirTimes
    <3> QED BY <2>1, <3>1
  <2> QED BY <2>2, <2>3
<1> HIDE DEF hw, true, t
<1>8. Owed(t)
  BY <1>6, <1>7 DEF Owed
<1> QED BY <1>2, <1>6, <1>8 DEF Polled

\* Cleared counters owe nothing beyond what was told.
LEMMA ClearedOwesNothing ==
  ASSUME NEW p, p.true = p.sum, p.hw = NoAir, p.last = NoAir, p \in PollState
  PROVE  p \in Polled
<1>1. AirMod \in Nat \ {0} /\ 0 \in 0 .. AirMod - 1
  BY AirAssumption
<1>2. Delta(0, 0) = 0
  BY <1>1, Distance
<1>3. \A q \in Queues4 : \A d \in Dirs : NoAir[q][d] = 0 /\ p.sum[q][d] \in Nat
  BY DEF NoAir, Dirs, PollState, AirTimes
<1> QED BY <1>2, <1>3 DEF Polled, Owed

\* A poll tells what is owed.
LEMMA PollPolls == ASSUME NEW p \in Polled PROVE Poll(p) \in Polled
<1>0. p \in PollState /\ Owed(p) /\ AirMod \in Nat \ {0}
  BY AirAssumption DEF Polled
<1>1. /\ p.hw \in AirCounts /\ p.last \in AirCounts /\ p.sum \in AirTimes /\ p.true \in AirTimes
  BY <1>0 DEF PollState
<1> DEFINE told == [q \in Queues4 |-> [d \in {"tx", "rx"} |->
                     p.sum[q][d] + Delta(p.hw[q][d], p.last[q][d])]]
           read == [p EXCEPT !.last = p.hw, !.sum = told]
<1>2. told = p.true
  <2>1. \A q \in Queues4 : told[q] = p.true[q]
    <3> TAKE q \in Queues4
    <3>1. p.true[q] \in [Dirs -> Nat]
      BY <1>1 DEF AirTimes
    <3>2. told[q] = [d \in Dirs |-> p.sum[q][d] + Delta(p.hw[q][d], p.last[q][d])]
      BY DEF Dirs
    <3>3. \A d \in Dirs : p.true[q][d] = p.sum[q][d] + Delta(p.hw[q][d], p.last[q][d])
      BY <1>0 DEF Owed
    <3> QED BY <3>1, <3>2, <3>3
  <2> QED BY <1>1, <2>1 DEF AirTimes
<1>3. Poll(p) = IF Clear(p) THEN ClearAir(read) ELSE read
  BY DEF Poll
<1> HIDE DEF told
<1>4. read \in PollState /\ read.sum = p.true /\ read.true = p.true
      /\ read.hw = p.hw /\ read.last = p.hw
  BY <1>0, <1>1, <1>2 DEF PollState
<1> HIDE DEF read
<1>5. read \in Polled
  <2>1. ASSUME NEW q \in Queues4, NEW d \in Dirs
        PROVE  p.true[q][d] = p.true[q][d] + Delta(p.hw[q][d], p.hw[q][d])
    <3>1. p.hw[q][d] \in 0 .. AirMod - 1 /\ p.true[q][d] \in Nat
      BY <1>1 DEF AirCounts, AirTimes
    <3>2. PICK x \in 0 .. AirMod - 1 : x = p.hw[q][d]
      BY <3>1
    <3>3. Delta(x, x) = 0
      BY <1>0, Distance
    <3> QED BY <3>1, <3>2, <3>3
  <2> QED BY <1>4, <2>1 DEF Owed, Polled
<1>6. ClearAir(read) \in Polled
  <2> DEFINE t == ClearAir(read)
  <2>1. t \in PollState /\ t.true = t.sum /\ t.hw = NoAir /\ t.last = NoAir
    BY <1>4, PollBegins DEF ClearAir, PollState
  <2> HIDE DEF t
  <2>2. t \in Polled
    BY <2>1, ClearedOwesNothing
  <2> QED BY <2>2 DEF t
<1> QED BY <1>3, <1>5, <1>6

\* Every event keeps the account.
LEMMA StepPolls == ASSUME NEW p \in Polled, NEW e \in PollEvent PROVE PollStep(p, e) \in Polled
<1>1. CASE e.ev = "air"
  <2>1. e.q \in Queues4 /\ e.dir \in Dirs /\ e.n \in Nat
    BY <1>1 DEF PollEvent, Dirs
  <2> QED BY <1>1, <2>1, AirPolls DEF PollStep
<1>2. CASE e.ev = "poll"
  BY <1>2, PollPolls DEF PollStep
<1>3. CASE e.ev = "assoc"
  <2> DEFINE t == Assoc(p)
  <2>1. p \in PollState
    BY DEF Polled
  <2>2. t \in PollState /\ t.true = t.sum /\ t.hw = NoAir /\ t.last = NoAir
    <3> DEFINE u == ClearAir(p)
    <3>1. u \in PollState /\ u.sum = p.sum /\ u.hw = NoAir /\ u.last = NoAir
      BY <2>1, PollBegins DEF ClearAir, PollState
    <3>2. t = [u EXCEPT !.true = p.sum] /\ p.sum \in AirTimes
      BY <2>1 DEF Assoc, PollState
    <3> HIDE DEF u, t
    <3> QED BY <3>1, <3>2 DEF PollState
  <2> HIDE DEF t
  <2>3. t \in Polled
    BY <2>2, ClearedOwesNothing
  <2> QED BY <1>3, <2>3 DEF PollStep, t
<1>4. e.ev \in {"air", "poll", "assoc"}
  BY DEF PollEvent
<1> QED BY <1>1, <1>2, <1>3, <1>4

\* A history of a station is a run through its events.
LEMMA PollRuns ==
  ASSUME NEW es \in Seq(PollEvent)
  PROVE  \E h : /\ h[0] = NewPoll
                /\ \A k \in 1 .. Len(es) : h[k] = PollStep(h[k - 1], es[k])
                /\ Airtime(es) = h[Len(es)]
<1> DEFINE n == Len(es)
           base == NewPoll
           step == [p \in (1 .. n) \X Polled |-> PollStep(p[2], es[p[1]])]
           Body(f) == [U \in SUBSET (1 .. n) |->
                         IF U = {} THEN base ELSE PollStep(f[U \ {Max(U)}], es[Max(U)])]
           it == CHOOSE f : f = Body(f)
           h == [k \in 0 .. n |-> it[1 .. k]]
<1>1. n \in Nat /\ DOMAIN es = 1 .. n /\ \A k \in 1 .. n : es[k] \in PollEvent
  OBVIOUS
<1>2. base \in Polled /\ step \in [(1 .. n) \X Polled -> Polled]
  BY <1>1, PollBegins, StepPolls
<1>3. PICK f : IsFold(f, n, Polled, base, step)
  <2> HIDE DEF step, base, n
  <2> QED BY <1>1, <1>2, FoldExists
<1>4. \A U \in SUBSET (1 .. n) : U # {} => Max(U) \in 1 .. n /\ U \ {Max(U)} \in SUBSET (1 .. n)
  BY <1>1, MaxIndex
<1>5. f \in [SUBSET (1 .. n) -> Polled] /\ f = Body(f)
  BY <1>3, <1>4 DEF IsFold
<1>6. it = Body(it)
  BY <1>5
<1>7. Airtime(es) = it[1 .. n]
  BY <1>1 DEF Airtime, FoldLeft, MapThenFoldSet
<1> HIDE DEF it, base, n
<1>8. h[0] = base
  BY <1>1, <1>6, Prefix
<1>9. ASSUME NEW k \in 1 .. n PROVE h[k] = PollStep(h[k - 1], es[k])
  <2>1. k \in 0 .. n /\ k - 1 \in 0 .. n
    BY <1>1
  <2>2. it[1 .. k] = PollStep(it[1 .. (k - 1)], es[k])
    <3>1. /\ 1 .. k \in SUBSET (1 .. n) /\ 1 .. k # {}
          /\ Max(1 .. k) = k /\ (1 .. k) \ {k} = 1 .. (k - 1)
      BY <1>1, Prefix
    <3>2. \A U \in SUBSET (1 .. n) :
            U # {} => it[U] = PollStep(it[U \ {Max(U)}], es[Max(U)])
      BY <1>6
    <3>3. it[1 .. k] = PollStep(it[(1 .. k) \ {Max(1 .. k)}], es[Max(1 .. k)])
      BY <3>1, <3>2
    <3> QED BY <3>1, <3>3
  <2>3. h[k] = it[1 .. k] /\ h[k - 1] = it[1 .. (k - 1)]
    BY <2>1
  <2> HIDE DEF h
  <2> QED BY <2>2, <2>3
<1>10. h[n] = it[1 .. n]
  BY <1>1
<1> HIDE DEF h
<1> QED BY <1>7, <1>8, <1>9, <1>10 DEF n, base

\* Its account agrees.
LEMMA HistoryPolls ==
  ASSUME NEW es \in Seq(PollEvent)
  PROVE  Airtime(es) \in Polled
<1> DEFINE n == Len(es)
           W == [k \in 0 .. n |-> Polled]
<1>1. n \in Nat /\ \A k \in 1 .. n : es[k] \in PollEvent
  OBVIOUS
<1>2. PICK h : /\ h[0] = NewPoll
               /\ \A k \in 1 .. n : h[k] = PollStep(h[k - 1], es[k])
               /\ Airtime(es) = h[n]
  BY PollRuns
<1> HIDE DEF n
<1>3. \A k \in 0 .. n : h[k] \in W[k]
  <2>1. h[0] \in W[0]
    BY <1>1, <1>2, PollBegins
  <2>2. ASSUME NEW k \in 1 .. n, h[k - 1] \in W[k - 1] PROVE h[k] \in W[k]
    <3>1. k - 1 \in 0 .. n /\ k \in 0 .. n
      BY <1>1
    <3>2. h[k - 1] \in Polled
      BY <2>2, <3>1
    <3> QED BY <1>1, <1>2, <3>1, <3>2, StepPolls
  <2> HIDE DEF W
  <2> QED BY <1>1, <2>1, <2>2, Run
<1> QED BY <1>1, <1>2, <1>3

(***************************************************************************)
(* The descriptor of a frame.                                              *)
(***************************************************************************)
\* What it says of the frame.
LEMMA Txwi ==
  ASSUME NEW i \in TxFrame, NEW d, d = WriteTxwi(i)
  PROVE  /\ d.toHost <=> i.pid >= PidFirst
         /\ d.amsdu => i.amsdu /\ ~d.toHost /\ ~d.fixed /\ ~d.snValid
         /\ d.fixed => d.baDisable /\ d.format = "802.11" /\ d.rate = TxRateVal(i)
         /\ d.bip => ~d.protect
         /\ d.queue = QueueOf(i).q
<1>1. /\ i.encap \in BOOLEAN /\ i.amsdu \in BOOLEAN /\ i.injected \in BOOLEAN /\ i.pid \in Nat
      /\ i.mcast \in BOOLEAN /\ i.minRate \in BOOLEAN /\ PidFirst = 3 /\ i.robust \in BOOLEAN
  BY DEF TxFrame, PidFirst
<1> DEFINE h == IF i.encap THEN Header8023(i) ELSE Header80211(i)
<1>2. /\ d.queue = QueueOf(i).q /\ d.rate = (IF h.fixed THEN TxRateVal(i) ELSE [mode |-> 0, idx |-> 0])
      /\ d.format = h.format /\ d.fixed = h.fixed /\ d.bip = h.bip /\ d.snValid = h.snValid
      /\ d.baDisable = h.fixed
  BY DEF WriteTxwi
<1>3. /\ d.toHost <=> i.pid >= PidFirst
      /\ d.toHost => ~(i.pid < PidFirst)
  <2>1. d.toHost = (i.pid >= PidFirst)
    BY DEF WriteTxwi
  <2>2. i.pid >= PidFirst => ~(i.pid < PidFirst)
    BY <1>1
  <2> QED BY <2>1, <2>2, Zenon
<1>4. d.amsdu => i.amsdu /\ i.pid < PidFirst /\ ~(~i.encap /\ i.injected) /\ ~h.fixed
  BY DEF WriteTxwi
<1>5. d.protect => ~(~i.encap /\ Bip(i))
  BY DEF WriteTxwi
<1>6. CASE i.encap
  <2>1. h.fixed = FALSE /\ h.bip = FALSE /\ h.snValid = FALSE
    BY <1>6 DEF Header8023
  <2> HIDE DEF h
  <2> QED BY <1>2, <1>3, <1>4, <2>1, Zenon
<1>7. CASE ~i.encap
  <2>1. h.snValid = i.injected /\ h.bip = Bip(i) /\ h.format = "802.11"
    BY <1>7 DEF Header80211
  <2>2. h.fixed \in BOOLEAN /\ Bip(i) \in BOOLEAN
    BY <1>1, <1>7 DEF Header80211, Bip
  <2> HIDE DEF h
  <2> QED BY <1>2, <1>3, <1>4, <1>5, <1>7, <2>1, Zenon
<1> QED BY <1>6, <1>7

\* Data goes to the queue of its access category, the rest elsewhere.
LEMMA Queue ==
  ASSUME NEW i \in TxFrame
  PROVE  QueueOf(i).q < LmacAltx <=> i.changed = "none" /\ i.qid < PsdQueue
<1>1. /\ i.changed \in {"none", "inband", "beacon"} /\ i.qid \in Nat /\ i.ac \in 0 .. 3
      /\ i.wmm \in 0 .. 3
  BY DEF TxFrame
<1>2. CASE i.changed = "inband"
  BY <1>1, <1>2 DEF QueueOf, LmacAltx
<1>3. CASE i.changed = "beacon"
  BY <1>1, <1>3 DEF QueueOf, LmacAltx, LmacBcn
<1>4. CASE i.changed = "none" /\ i.qid >= PsdQueue
  BY <1>1, <1>4 DEF QueueOf, LmacAltx, PsdQueue
<1>5. CASE i.changed = "none" /\ i.qid < PsdQueue
  <2>1. QueueOf(i).q = (IF i.vif THEN i.wmm ELSE 0) * 4 + LmacMapping(i.ac)
    BY <1>1, <1>5 DEF QueueOf, PsdQueue
  <2>2. (IF i.vif THEN i.wmm ELSE 0) \in 0 .. 3
    BY <1>1
  <2> QED BY <1>1, <1>5, <2>1, <2>2 DEF LmacMapping, LmacAltx
<1> QED BY <1>1, <1>2, <1>3, <1>4, <1>5 DEF PsdQueue

\* The frame on the wire fills whole words.
LEMMA Wire ==
  ASSUME NEW i \in TxFrame
  PROVE  WireBytes(i) % 4 = 0 /\ WireBytes(i) >= HdrBytes(i) + 8
<1>1. PICK n \in Nat : n = i.len + 64
  BY DEF TxFrame
<1>2. HdrBytes(i) = n
  BY <1>1 DEF HdrBytes, SdioTxdSize
<1>3. PICK w \in Int : w = (n + 4 + 3) \div 4 /\ 4 * w > n + 3
  OBVIOUS
<1>4. WireBytes(i) = 4 * w + 4
  BY <1>1, <1>2, <1>3 DEF WireBytes, RoundUp4
<1>5. (4 * w + 4) % 4 = 0
  BY <1>3
<1> QED BY <1>1, <1>2, <1>3, <1>4, <1>5

\* The hardware values of the rates are all different.
LEMMA Values ==
  /\ Len(HwValues) = 12 /\ DOMAIN HwValues = 1 .. 12
  /\ \A k \in 1 .. 12 : HwValues[k] \in 0 .. 15 /\ (k <= 4 => HwValues[k] = k - 1)
  /\ \A k, l \in 1 .. 12 : HwValues[k] = HwValues[l] => k = l
  BY DEF HwValues

\* The rates of a band.
LEMMA RatesOfBand ==
  /\ Len(BitRates(2)) = 12 /\ DOMAIN BitRates(2) = 1 .. 12
  /\ \A k \in 1 .. 12 : BitRates(2)[k] = HwValues[k]
  /\ \A band \in {5, 6} :
       /\ Len(BitRates(band)) = 8 /\ DOMAIN BitRates(band) = 1 .. 8
       /\ \A k \in 1 .. 8 : BitRates(band)[k] = HwValues[k + 4]
<1>1. BitRates(2) = HwValues
  BY DEF BitRates
<1>2. ASSUME NEW band \in {5, 6}
      PROVE  /\ Len(BitRates(band)) = 8 /\ DOMAIN BitRates(band) = 1 .. 8
             /\ \A k \in 1 .. 8 : BitRates(band)[k] = HwValues[k + 4]
  <2>1. BitRates(band) = SubSeq(HwValues, 5, 12)
    BY DEF BitRates
  <2>2. HwValues \in Seq(0 .. 15)
    BY DEF HwValues
  <2> QED BY <2>1, <2>2, Values
<1> QED BY <1>1, <1>2, Values

\* The number a status event's value stands for is that of a rate.
LEMMA RateNumber ==
  ASSUME NEW band \in {2, 5, 6}, NEW idx \in Nat, NEW cck \in BOOLEAN
  PROVE  GetRate(band, idx, cck) \in 0 .. 11
<1> DEFINE offset == IF band = 2 /\ ~cck THEN 4 ELSE 0
           want == IF cck /\ (idx \div 4) % 2 = 1 THEN idx - 4 ELSE idx
           found == {k \in DOMAIN BitRates(band) : k > offset /\ BitRates(band)[k] = want}
           first == CHOOSE k \in found : \A l \in found : k <= l
<1>1. found \subseteq 1 .. 12
  <2>1. DOMAIN BitRates(band) \subseteq 1 .. 12
    BY RatesOfBand
  <2> QED BY <2>1
<1>2. GetRate(band, idx, cck) = IF (cck /\ band # 2) \/ found = {} THEN 0 ELSE first - 1
  BY DEF GetRate
<1>3. found # {} => first \in 1 .. 12
  <2> HIDE DEF found
  <2>1. found \subseteq Nat
    BY <1>1
  <2>2. found # {} => \E k \in found : \A l \in found : k <= l
    BY <2>1, LeastNat
  <2> QED BY <1>1, <2>2
<1> HIDE DEF first, found
<1> QED BY <1>2, <1>3

\* The value of a rate stands for that rate.
LEMMA RateOfValue ==
  ASSUME NEW band \in {2, 5, 6}, NEW b \in 0 .. Len(BitRates(band)) - 1,
         NEW cck \in BOOLEAN, cck <=> band = 2 /\ b < 4
  PROVE  GetRate(band, BitRates(band)[b + 1], cck) = b
<1> DEFINE idx == BitRates(band)[b + 1]
           offset == IF band = 2 /\ ~cck THEN 4 ELSE 0
           want == IF cck /\ (idx \div 4) % 2 = 1 THEN idx - 4 ELSE idx
           found == {k \in DOMAIN BitRates(band) : k > offset /\ BitRates(band)[k] = want}
           first == CHOOSE k \in found : \A l \in found : k <= l
<1>1. /\ DOMAIN BitRates(band) = 1 .. Len(BitRates(band)) /\ Len(BitRates(band)) \in {8, 12}
      /\ b + 1 \in 1 .. Len(BitRates(band))
  BY RatesOfBand
<1>2. \A k, l \in DOMAIN BitRates(band) : BitRates(band)[k] = BitRates(band)[l] => k = l
  <2> SUFFICES ASSUME NEW k \in DOMAIN BitRates(band), NEW l \in DOMAIN BitRates(band),
                      BitRates(band)[k] = BitRates(band)[l]
               PROVE  k = l
    OBVIOUS
  <2>1. PICK n \in {0, 4} : \A j \in DOMAIN BitRates(band) :
          j \in Nat /\ j + n \in 1 .. 12 /\ BitRates(band)[j] = HwValues[j + n]
    <3>1. CASE band = 2
      <4>1. \A j \in DOMAIN BitRates(2) :
              j \in Nat /\ j + 0 \in 1 .. 12 /\ BitRates(2)[j] = HwValues[j + 0]
        <5> TAKE j \in DOMAIN BitRates(2)
        <5>1. j \in 1 .. 12
          BY RatesOfBand
        <5>2. BitRates(2)[j] = HwValues[j]
          BY <5>1, RatesOfBand
        <5>3. j + 0 = j
          BY <5>1
        <5> QED BY <5>1, <5>2, <5>3
      <4> QED BY <3>1, <4>1
    <3>2. CASE band \in {5, 6}
      <4>1. \A j \in DOMAIN BitRates(band) :
              j \in Nat /\ j + 4 \in 1 .. 12 /\ BitRates(band)[j] = HwValues[j + 4]
        <5> TAKE j \in DOMAIN BitRates(band)
        <5>1. j \in 1 .. 8
          BY <3>2, RatesOfBand
        <5>2. BitRates(band)[j] = HwValues[j + 4]
          BY <3>2, <5>1, RatesOfBand
        <5> QED BY <5>1, <5>2
      <4> QED BY <4>1
    <3> QED BY <3>1, <3>2
  <2>2. HwValues[k + n] = HwValues[l + n] /\ k + n \in 1 .. 12 /\ l + n \in 1 .. 12
    BY <2>1
  <2>3. k + n = l + n
    BY <2>2, Values
  <2> QED BY <2>1, <2>3
<1>3. want = idx
  <2>1. cck => idx = b /\ b \in 0 .. 3
    BY <1>1, RatesOfBand, Values
  <2>2. \A x \in 0 .. 3 : (x \div 4) % 2 # 1
    OBVIOUS
  <2> HIDE DEF idx
  <2> QED BY <2>1, <2>2
<1>4. b + 1 > offset
  BY <1>1
<1>5. found = {b + 1}
  <2>1. b + 1 \in found
    BY <1>1, <1>3, <1>4
  <2>2. \A k \in found : k = b + 1
    BY <1>1, <1>2, <1>3
  <2> HIDE DEF found
  <2> QED BY <2>1, <2>2
<1>6. GetRate(band, idx, cck) = IF (cck /\ band # 2) \/ found = {} THEN 0 ELSE first - 1
  BY DEF GetRate
<1>7. first = b + 1
  <2> HIDE DEF found
  <2> QED BY <1>1, <1>5
<1> HIDE DEF first, found
<1> QED BY <1>5, <1>6, <1>7

\* The lowest of a set of bits.
LEMMA Lowest == ASSUME NEW S \in SUBSET Nat PROVE LowestBit(S) \in Nat
<1>1. CASE S = {}
  BY <1>1 DEF LowestBit
<1>2. CASE S # {}
  <2>1. \E b \in S : \A c \in S : b <= c
    BY <1>2, LeastNat
  <2> QED BY <1>2, <2>1 DEF LowestBit
<1> QED BY <1>1, <1>2

\* A fixed rate is one of its band, and reads back as the rate it was taken from.
LEMMA FixedRate ==
  ASSUME NEW i \in TxFrame, NEW d, d.rate = TxRateVal(i) PROVE RateReadsBack(i, d)
<1> DEFINE band == IF i.vif THEN i.band ELSE 2
           offset == IF band # 2 THEN 4 ELSE 0
           low == IF i.vif THEN LowestBit(i.basic) ELSE 0
           used == IF offset + low >= 12 THEN offset ELSE offset + low
           b == used - offset
           cck == used < 4
           n == Len(BitRates(band))
<1>1. i.vif \in BOOLEAN /\ i.band \in {2, 5, 6} /\ i.basic \in SUBSET Nat
  BY DEF TxFrame
<1>2. band \in {2, 5, 6} /\ low \in Nat /\ offset \in {0, 4} /\ (offset = 0 <=> band = 2)
  BY <1>1, Lowest
<1>3. n = 12 - offset
  <2>1. band = 2 => n = 12 /\ offset = 0
    BY RatesOfBand
  <2>2. band \in {5, 6} => n = 8 /\ offset = 4
    BY RatesOfBand
  <2> HIDE DEF n, band, offset
  <2> QED BY <1>2, <2>1, <2>2
<1>4. TxRateVal(i) = [mode |-> IF used < 4 THEN 0 ELSE 1, idx |-> HwValues[used + 1]]
  BY DEF TxRateVal
<1> HIDE DEF low, offset, band, n
<1>5. /\ used \in 0 .. 11 /\ b \in 0 .. n - 1 /\ b = IF low \in 0 .. n - 1 THEN low ELSE 0
      /\ cck \in BOOLEAN /\ (cck <=> band = 2 /\ b < 4) /\ (band # 2 => ~cck)
  BY <1>2, <1>3
<1>6. BitRates(band)[b + 1] = HwValues[used + 1]
  <2>1. CASE band = 2
    <3>1. b + 1 \in 1 .. 12 /\ b + 1 = used + 1
      BY <1>2, <1>3, <1>5, <2>1
    <3> QED BY <2>1, <3>1, RatesOfBand
  <2>2. CASE band \in {5, 6}
    <3>1. b + 1 \in 1 .. 8 /\ (b + 1) + 4 = used + 1
      BY <1>2, <1>3, <1>5, <2>2
    <3> HIDE DEF b, used
    <3>2. BitRates(band)[b + 1] = HwValues[(b + 1) + 4]
      BY <2>2, <3>1, RatesOfBand
    <3> QED BY <3>1, <3>2
  <2> QED BY <1>2, <2>1, <2>2
<1> HIDE DEF used, b, cck
<1>7. GetRate(band, BitRates(band)[b + 1], cck) = b
  BY <1>2, <1>5, RateOfValue DEF n
<1>8. d.rate.idx = HwValues[used + 1] /\ d.rate.mode = (IF cck THEN 0 ELSE 1)
  BY <1>4 DEF cck
<1>9. GetRate(band, d.rate.idx, d.rate.mode = 0) = b
  <2>1. (d.rate.mode = 0) = cck
    BY <1>5, <1>8
  <2> QED BY <1>6, <1>7, <1>8, <2>1
<1>10. band # 2 => d.rate.mode = 1
  BY <1>5, <1>8
<1>11. b = IF i.vif /\ LowestBit(i.basic) \in DOMAIN [k \in 0 .. n - 1 |-> k]
           THEN LowestBit(i.basic) ELSE 0
  <2>1. i.vif => low = LowestBit(i.basic)
    BY DEF low
  <2>2. ~i.vif => low = 0
    BY DEF low
  <2> QED BY <1>5, <2>1, <2>2
<1> QED BY <1>9, <1>10, <1>11 DEF RateReadsBack, band, n

\* What a status event says of the rate is in its range.
TxsFits(rate) ==
  rate.mcs \in Nat /\ rate.mcs <= MaxMcs(rate.mode) /\ rate.nss \in 1 .. 8
LEMMA Txs ==
  ASSUME NEW rate, TxsFits(rate), NEW t \in TxsEvent
  PROVE  TxsFits(FillTxs(rate, t))
<1>1. t.mode \in 0 .. 15 /\ t.idx \in Nat /\ t.nsts \in 0 .. 7 /\ t.band \in {2, 5, 6}
  BY DEF TxsEvent
<1>2. CASE ~TxsKnown(t)
  BY <1>2 DEF FillTxs
<1>3. CASE TxsKnown(t)
  <2>1. /\ FillTxs(rate, t).mode = t.mode /\ FillTxs(rate, t).nss = TxsNss(t)
        /\ FillTxs(rate, t).mcs
             = IF t.mode \in {0, 1} THEN GetRate(t.band, t.idx, t.mode = 0) ELSE t.idx
    BY <1>3 DEF FillTxs
  <2>2. TxsNss(t) \in 1 .. 8
    BY <1>1 DEF TxsNss
  <2>3. CASE t.mode \in {0, 1}
    <3>1. GetRate(t.band, t.idx, t.mode = 0) \in 0 .. 11
      BY <1>1, RateNumber
    <3>2. MaxMcs(t.mode) = 255
      BY <2>3 DEF MaxMcs
    <3> QED BY <2>1, <2>2, <2>3, <3>1, <3>2 DEF TxsFits
  <2>4. CASE t.mode \notin {0, 1}
    BY <1>1, <1>3, <2>1, <2>2, <2>4 DEF TxsFits, TxsKnown
  <2> QED BY <2>3, <2>4
<1> QED BY <1>2, <1>3

(***************************************************************************)
(* Runs.  A step that is a function has a run through its indices, and the *)
(* pieces of a sequence of sequences are put together one by one.          *)
(***************************************************************************)

\* h is the run of n steps, with values in V, that starts at base.
IsRun(h, n, V, base, step) ==
  h \in [0 .. n -> V] /\ h[0] = base /\ \A k \in 1 .. n : h[k] = step[<<k, h[k - 1]>>]

\* There is one.
LEMMA RunExists ==
  ASSUME NEW n \in Nat, NEW V, NEW base \in V, NEW step \in [(1 .. n) \X V -> V]
  PROVE  \E h : IsRun(h, n, V, base, step)
<1>1. PICK it : IsFold(it, n, V, base, step)
  BY FoldExists
<1> DEFINE h == [k \in 0 .. n |-> it[1 .. k]]
<1>2. \A k \in 0 .. n : 1 .. k \in SUBSET (1 .. n)
  OBVIOUS
<1>3. h \in [0 .. n -> V]
  BY <1>1, <1>2 DEF IsFold
<1>4. h[0] = base
  <2>1. 1 .. 0 = {} /\ {} \in SUBSET (1 .. n) /\ 0 \in 0 .. n
    BY Prefix
  <2>2. it[{}] = base
    BY <1>1, <2>1 DEF IsFold
  <2> QED BY <2>1, <2>2
<1>5. ASSUME NEW k \in 1 .. n PROVE h[k] = step[<<k, h[k - 1]>>]
  <2>1. /\ 1 .. k \in SUBSET (1 .. n) /\ 1 .. k # {}
        /\ Max(1 .. k) = k /\ (1 .. k) \ {k} = 1 .. (k - 1)
    BY Prefix
  <2>2. it[1 .. k] = step[<<k, it[1 .. (k - 1)]>>]
    BY <1>1, <2>1 DEF IsFold
  <2>3. h[k] = it[1 .. k] /\ h[k - 1] = it[1 .. (k - 1)]
    OBVIOUS
  <2> HIDE DEF h
  <2> QED BY <2>2, <2>3
<1> HIDE DEF h
<1> QED BY <1>3, <1>4, <1>5 DEF IsRun

\* The pieces of a sequence of sequences.
Pieces(h, bs, n, V) ==
  /\ h \in [0 .. n -> Seq(V)] /\ h[0] = <<>> /\ FlattenSeq(bs) = h[n]
  /\ \A k \in 1 .. n : h[k] = h[k - 1] \o bs[k]
LEMMA Flattens ==
  ASSUME NEW V, NEW n \in Nat, NEW bs \in [1 .. n -> Seq(V)]
  PROVE  \E h : Pieces(h, bs, n, V)
<1> DEFINE step == [p \in (1 .. n) \X Seq(V) |-> p[2] \o bs[p[1]]]
<1>0. Len(bs) = n
  OBVIOUS
<1>1. step \in [(1 .. n) \X Seq(V) -> Seq(V)] /\ <<>> \in Seq(V)
  <2>1. ASSUME NEW p \in (1 .. n) \X Seq(V) PROVE p[2] \o bs[p[1]] \in Seq(V)
    <3>1. p[2] \in Seq(V) /\ bs[p[1]] \in Seq(V)
      OBVIOUS
    <3> QED BY <3>1
  <2> QED BY <2>1
<1>2. PICK h : IsRun(h, n, Seq(V), <<>>, step)
  <2> DEFINE S == Seq(V)
             base == <<>>
  <2>1. base \in S /\ step \in [(1 .. n) \X S -> S]
    BY <1>1
  <2> HIDE DEF step, S, base
  <2>2. \E h : IsRun(h, n, S, base, step)
    BY <2>1, RunExists
  <2> QED BY <2>2 DEF S, base
<1> HIDE DEF step
<1>6. /\ h \in [0 .. n -> Seq(V)] /\ h[0] = <<>>
      /\ \A k \in 1 .. n : h[k] = step[<<k, h[k - 1]>>]
  BY <1>2 DEF IsRun
<1> USE DEF step
<1>3. \A k \in 1 .. n : h[k] = h[k - 1] \o bs[k]
  <2> TAKE k \in 1 .. n
  <2>1. h[k - 1] \in Seq(V)
    BY <1>6
  <2>2. <<k, h[k - 1]>> \in (1 .. n) \X Seq(V)
    BY <2>1
  <2>3. step[<<k, h[k - 1]>>] = h[k - 1] \o bs[k]
    BY <2>2
  <2> HIDE DEF step
  <2> QED BY <1>6, <2>3
<1> HIDE DEF step
<1>4. CASE n = 0
  <2>1. bs = <<>>
    BY <1>4
  <2>2. FlattenSeq(bs) = bs
    BY <1>0, <1>4 DEF FlattenSeq
  <2>3. Pieces(h, bs, n, V)
    BY <1>6, <1>3, <1>4, <2>1, <2>2 DEF Pieces
  <2> QED BY <2>3
<1>5. CASE n # 0
  <2> DEFINE Body(f) == [i \in 1 .. n |-> IF i = 1 THEN bs[i] ELSE f[i - 1] \o bs[i]]
             f == CHOOSE f : f = Body(f)
             g == [i \in 1 .. n |-> h[i]]
  <2>1. g = Body(g)
    <3>1. ASSUME NEW i \in 1 .. n
          PROVE  h[i] = IF i = 1 THEN bs[i] ELSE g[i - 1] \o bs[i]
      <4>1. CASE i = 1
        <5>1. bs[i] \in Seq(V) /\ i - 1 = 0
          BY <4>1
        <5>2. h[i] = <<>> \o bs[i]
          BY <1>6, <1>3, <4>1, <5>1
        <5>3. <<>> \o bs[i] = bs[i]
          BY <5>1
        <5> QED BY <4>1, <5>2, <5>3
      <4>2. CASE i # 1
        <5>1. i - 1 \in 1 .. n
          BY <4>2
        <5>2. g[i - 1] = h[i - 1]
          BY <5>1
        <5> QED BY <1>3, <4>2, <5>2
      <4> QED BY <4>1, <4>2
    <3> QED BY <3>1
  <2>2. f = Body(f)
    <3> HIDE DEF g
    <3> QED BY <2>1
  <2>3. FlattenSeq(bs) = f[n]
    BY <1>0, <1>5 DEF FlattenSeq
  <2> HIDE DEF f, g
  <2> DEFINE G == {k \in Nat : k \in 1 .. n => f[k] = h[k]}
  <2>4. Nat \subseteq G
    <3>1. 0 \in G
      OBVIOUS
    <3>2. ASSUME NEW k \in Nat, k \in G PROVE k + 1 \in G
      <4> SUFFICES ASSUME k + 1 \in 1 .. n PROVE f[k + 1] = h[k + 1]
        OBVIOUS
      <4>0. PICK j \in 1 .. n : j = k + 1 /\ j - 1 = k
        OBVIOUS
      <4>1. f[j] = IF j = 1 THEN bs[j] ELSE f[j - 1] \o bs[j]
        BY <2>2
      <4>2. h[j] = h[j - 1] \o bs[j] /\ bs[j] \in Seq(V)
        BY <1>3
      <4>3. CASE k = 0
        <5>1. h[j] = <<>> \o bs[j]
          BY <1>6, <4>0, <4>2, <4>3
        <5>2. <<>> \o bs[j] = bs[j]
          BY <4>2
        <5> QED BY <4>0, <4>1, <4>3, <5>1, <5>2
      <4>4. CASE k # 0
        <5>1. k \in 1 .. n /\ j # 1
          BY <4>0, <4>4
        <5>2. f[j - 1] = h[j - 1]
          BY <3>2, <4>0, <5>1
        <5> QED BY <4>0, <4>1, <4>2, <5>1, <5>2
      <4> QED BY <4>3, <4>4
    <3> HIDE DEF G
    <3> QED BY <3>1, <3>2, Induct
  <2>5. f[n] = h[n]
    <3>1. n \in G /\ n \in 1 .. n
      BY <1>5, <2>4
    <3> QED BY <3>1
  <2>6. Pieces(h, bs, n, V)
    BY <1>6, <1>3, <2>3, <2>5 DEF Pieces
  <2> QED BY <2>6
<1> QED BY <1>4, <1>5

(***************************************************************************)
(* Sleep.  The commands of one interface each set one thing, and a         *)
(* sequence of them has each of its commands once for every interface.     *)
(***************************************************************************)
Triggers == {"magic", "disconnect", "lost", "scan", "bitmap"}
SleepFlags == {"gtk", "arp", "nd", "mode", "scan"}
SleepFw ==
  [gtk : BOOLEAN, arp : BOOLEAN, nd : BOOLEAN, mode : BOOLEAN, pats : SUBSET Nat,
   wow : {"none", "on", "off"}, trigger : SUBSET Triggers, scan : BOOLEAN]
SleepState(n) == [fw : [1 .. n -> SleepFw], sched : BOOLEAN]
WowCmd == [cmd : {"on", "off"}, trigger : SUBSET Triggers]
PatCmd == [index : Nat, on : BOOLEAN]
SleepCmd(n) ==
  [vif : 1 .. n, what : SleepFlags \cup {"request"}, to : BOOLEAN]
    \cup [vif : 1 .. n, what : {"pats"}, to : PatCmd]
    \cup [vif : 1 .. n, what : {"wow"}, to : WowCmd]

\* What a command is.
LEMMA SleepCmds ==
  ASSUME NEW n \in Nat, NEW c \in SleepCmd(n)
  PROVE  /\ c.vif \in 1 .. n /\ c.what \in SleepFlags \cup {"request", "pats", "wow"}
         /\ c.what \in SleepFlags \cup {"request"} => c.to \in BOOLEAN
         /\ c.what = "pats" => c.to \in PatCmd
         /\ c.what = "wow" => c.to \in WowCmd
  BY DEF SleepCmd, SleepFlags

\* What it does, to its interface only.
Effect(t, fw, c, v) ==
  /\ \A f \in SleepFlags :
       t[v][f] = IF c.vif = v /\ c.what = f THEN c.to ELSE fw[v][f]
  /\ t[v].pats = IF c.vif = v /\ c.what = "pats"
                 THEN IF c.to.on THEN fw[v].pats \cup {c.to.index}
                      ELSE fw[v].pats \ {c.to.index}
                 ELSE fw[v].pats
  /\ t[v].wow = IF c.vif = v /\ c.what = "wow" THEN c.to.cmd ELSE fw[v].wow
LEMMA Obeys ==
  ASSUME NEW n \in Nat, NEW fw \in [1 .. n -> SleepFw], NEW c \in SleepCmd(n),
         NEW t, t = Obeyed(fw, c)
  PROVE  t \in [1 .. n -> SleepFw] /\ \A v \in 1 .. n : Effect(t, fw, c, v)
<1>1. /\ c.vif \in 1 .. n /\ c.what \in SleepFlags \cup {"request", "pats", "wow"}
      /\ c.what \in SleepFlags \cup {"request"} => c.to \in BOOLEAN
      /\ c.what = "pats" => c.to \in PatCmd
      /\ c.what = "wow" => c.to \in WowCmd
  BY SleepCmds
<1>2. ASSUME NEW new \in SleepFw,
             \A f \in SleepFlags : new[f] = IF c.what = f THEN c.to ELSE fw[c.vif][f],
             new.pats = IF c.what = "pats"
                        THEN IF c.to.on THEN fw[c.vif].pats \cup {c.to.index}
                             ELSE fw[c.vif].pats \ {c.to.index}
                        ELSE fw[c.vif].pats,
             new.wow = IF c.what = "wow" THEN c.to.cmd ELSE fw[c.vif].wow,
             t = [fw EXCEPT ![c.vif] = new]
      PROVE  t \in [1 .. n -> SleepFw] /\ \A v \in 1 .. n : Effect(t, fw, c, v)
  <2>1. t \in [1 .. n -> SleepFw]
    BY <1>1, <1>2
  <2>2. \A v \in 1 .. n : t[v] = IF c.vif = v THEN new ELSE fw[v]
    BY <1>1, <1>2
  <2> QED BY <1>2, <2>1, <2>2 DEF Effect
<1> DEFINE old == fw[c.vif]
<1>3. old \in SleepFw
  BY <1>1
<1>4. CASE c.what = "wow"
  <2> DEFINE new == [old EXCEPT !.wow = c.to.cmd, !.trigger = c.to.trigger]
  <2>1. t = [fw EXCEPT ![c.vif] = new]
    <3>1. t = [fw EXCEPT ![c.vif].wow = c.to.cmd, ![c.vif].trigger = c.to.trigger]
      BY <1>4 DEF Obeyed
    <3> QED BY <1>1, <1>3, <3>1 DEF SleepFw
  <2>2. c.to.cmd \in {"on", "off"} /\ c.to.trigger \in SUBSET Triggers
    BY <1>1, <1>4 DEF WowCmd
  <2>3. /\ new \in SleepFw /\ new.pats = old.pats /\ new.wow = c.to.cmd
        /\ \A f \in SleepFlags : new[f] = old[f]
    BY <1>3, <2>2 DEF SleepFw, SleepFlags
  <2> HIDE DEF new
  <2> QED BY <1>2, <1>4, <2>1, <2>3 DEF SleepFlags
<1>5. CASE c.what = "pats"
  <2> DEFINE pats == IF c.to.on THEN old.pats \cup {c.to.index} ELSE old.pats \ {c.to.index}
             new == [old EXCEPT !.pats = pats]
  <2>1. t = [fw EXCEPT ![c.vif] = new]
    BY <1>5 DEF Obeyed
  <2>2. pats \in SUBSET Nat
    <3>1. c.to.index \in Nat /\ old.pats \in SUBSET Nat
      BY <1>1, <1>3, <1>5 DEF PatCmd, SleepFw
    <3> QED BY <3>1
  <2>3. /\ new \in SleepFw /\ new.pats = pats /\ new.wow = old.wow
        /\ \A f \in SleepFlags : new[f] = old[f]
    <3> HIDE DEF pats
    <3> QED BY <1>3, <2>2 DEF SleepFw, SleepFlags
  <2> HIDE DEF new
  <2> QED BY <1>2, <1>5, <2>1, <2>3 DEF SleepFlags
<1>6. CASE c.what = "request"
  <2>1. t = fw
    BY <1>6 DEF Obeyed
  <2> QED BY <1>6, <2>1 DEF SleepFlags, Effect
<1>7. CASE c.what \in SleepFlags
  <2> DEFINE new == [old EXCEPT ![c.what] = c.to]
  <2>1. t = [fw EXCEPT ![c.vif] = new]
    BY <1>7 DEF Obeyed, SleepFlags
  <2>2. c.to \in BOOLEAN
    BY <1>1, <1>7
  <2>3. /\ new \in SleepFw /\ new.pats = old.pats /\ new.wow = old.wow
        /\ \A f \in SleepFlags : new[f] = IF c.what = f THEN c.to ELSE old[f]
    <3>1. CASE c.what = "gtk"
      BY <1>3, <2>2, <3>1 DEF SleepFw, SleepFlags
    <3>2. CASE c.what = "arp"
      BY <1>3, <2>2, <3>2 DEF SleepFw, SleepFlags
    <3>3. CASE c.what = "nd"
      BY <1>3, <2>2, <3>3 DEF SleepFw, SleepFlags
    <3>4. CASE c.what = "mode"
      BY <1>3, <2>2, <3>4 DEF SleepFw, SleepFlags
    <3>5. CASE c.what = "scan"
      BY <1>3, <2>2, <3>5 DEF SleepFw, SleepFlags
    <3> QED BY <1>7, <3>1, <3>2, <3>3, <3>4, <3>5 DEF SleepFlags
  <2> HIDE DEF new
  <2> QED BY <1>2, <1>7, <2>1, <2>3 DEF SleepFlags
<1> QED BY <1>1, <1>4, <1>5, <1>6, <1>7

\* A sequence of commands is a run of the firmware.
LEMMA ObeyRuns ==
  ASSUME NEW n \in Nat, NEW cs \in Seq(SleepCmd(n)), NEW st \in SleepState(n), NEW lost
  PROVE  \E h : /\ h \in [0 .. Len(cs) -> SleepState(n)] /\ h[0] = st
                /\ \A k \in 1 .. Len(cs) : h[k] = SleepStep(h[k - 1], cs[k], k \in lost)
                /\ Obey(st, cs, lost) = h[Len(cs)]
<1> DEFINE N == Len(cs)
           V == SleepState(n)
           step == [p \in (1 .. N) \X V |-> SleepStep(p[2], cs[p[1]], p[1] \in lost)]
           id == [k \in DOMAIN cs |-> k]
           Body(f) == [U \in SUBSET (DOMAIN id) |->
                         IF U = {} THEN st
                         ELSE SleepStep(f[U \ {Max(U)}], cs[id[Max(U)]], id[Max(U)] \in lost)]
           it == CHOOSE f : f = Body(f)
           h == [k \in 0 .. N |-> it[1 .. k]]
<1>1. N \in Nat /\ DOMAIN cs = 1 .. N /\ DOMAIN id = 1 .. N /\ \A k \in 1 .. N : id[k] = k
  OBVIOUS
<1>2. ASSUME NEW s \in V, NEW k \in 1 .. N PROVE SleepStep(s, cs[k], k \in lost) \in V
  <2>1. s.fw \in [1 .. n -> SleepFw] /\ s.sched \in BOOLEAN /\ cs[k] \in SleepCmd(n)
    BY DEF SleepState
  <2>2. Obeyed(s.fw, cs[k]) \in [1 .. n -> SleepFw]
    BY <2>1, Obeys
  <2>3. cs[k].what = "scan" => cs[k].to \in BOOLEAN
    BY <2>1, SleepCmds DEF SleepFlags
  <2> QED BY <2>1, <2>2, <2>3 DEF SleepStep, SleepState
<1>3. step \in [(1 .. N) \X V -> V]
  BY <1>2
<1>4. PICK f : IsFold(f, N, V, st, step)
  <2> HIDE DEF step, N, V
  <2> QED BY <1>1, <1>3, FoldExists DEF V
<1>5. \A U \in SUBSET (1 .. N) : U # {} => Max(U) \in 1 .. N /\ U \ {Max(U)} \in SUBSET (1 .. N)
  BY <1>1, MaxIndex
<1>6. f \in [SUBSET (1 .. N) -> V] /\ f = Body(f)
  <2>1. \A U \in SUBSET (1 .. N) : U # {} =>
          step[<<Max(U), f[U \ {Max(U)}]>>] = SleepStep(f[U \ {Max(U)}], cs[Max(U)], Max(U) \in lost)
    BY <1>4, <1>5 DEF IsFold
  <2> HIDE DEF step
  <2>2. \A U \in SUBSET (1 .. N) : U # {} => id[Max(U)] = Max(U)
    BY <1>1, <1>5
  <2>3. ASSUME NEW U \in SUBSET (1 .. N)
        PROVE  f[U] = IF U = {} THEN st
                      ELSE SleepStep(f[U \ {Max(U)}], cs[id[Max(U)]], id[Max(U)] \in lost)
    <3>1. CASE U = {}
      BY <1>4, <3>1 DEF IsFold
    <3>2. CASE U # {}
      <4>1. f[U] = step[<<Max(U), f[U \ {Max(U)}]>>]
        BY <1>4, <3>2 DEF IsFold
      <4> HIDE DEF id
      <4> QED BY <2>1, <2>2, <3>2, <4>1
    <3> QED BY <3>1, <3>2
  <2>4. f \in [SUBSET (1 .. N) -> V]
    BY <1>4 DEF IsFold
  <2> QED BY <1>1, <2>3, <2>4
<1>7. it = Body(it)
  BY <1>6
<1>8. Obey(st, cs, lost) = it[1 .. N]
  BY <1>1 DEF Obey, FoldLeft, MapThenFoldSet
<1> HIDE DEF it, N
<1>9. \A U \in SUBSET (1 .. N) :
        it[U] = IF U = {} THEN st
                ELSE SleepStep(it[U \ {Max(U)}], cs[Max(U)], Max(U) \in lost)
  <2> TAKE U \in SUBSET (1 .. N)
  <2>1. U # {} => id[Max(U)] = Max(U)
    BY <1>1, <1>5
  <2>2. it[U] = IF U = {} THEN st
                ELSE SleepStep(it[U \ {Max(U)}], cs[id[Max(U)]], id[Max(U)] \in lost)
    BY <1>1, <1>7
  <2> HIDE DEF id
  <2> QED BY <2>1, <2>2
<1>10. h[0] = st
  <2>1. 1 .. 0 = {} /\ {} \in SUBSET (1 .. N) /\ 0 \in 0 .. N
    BY <1>1, Prefix
  <2> QED BY <1>9, <2>1
<1>11. ASSUME NEW k \in 1 .. N PROVE h[k] = SleepStep(h[k - 1], cs[k], k \in lost)
  <2>1. /\ 1 .. k \in SUBSET (1 .. N) /\ 1 .. k # {}
        /\ Max(1 .. k) = k /\ (1 .. k) \ {k} = 1 .. (k - 1)
    BY <1>1, Prefix
  <2>2. it[1 .. k] = SleepStep(it[(1 .. k) \ {Max(1 .. k)}], cs[Max(1 .. k)], Max(1 .. k) \in lost)
    BY <1>9, <2>1
  <2>3. k \in 0 .. N /\ k - 1 \in 0 .. N
    BY <1>1
  <2>4. h[k] = it[1 .. k] /\ h[k - 1] = it[1 .. (k - 1)]
    BY <2>3
  <2> HIDE DEF h
  <2> QED BY <2>1, <2>2, <2>4
<1>12. h[N] = it[1 .. N]
  BY <1>1
<1>13. h \in [0 .. N -> V]
  <2> DEFINE W == [k \in 0 .. N |-> V]
  <2>1. \A k \in 0 .. N : h[k] \in W[k]
    <3>1. h[0] \in W[0]
      BY <1>1, <1>10
    <3>2. ASSUME NEW k \in 1 .. N, h[k - 1] \in W[k - 1] PROVE h[k] \in W[k]
      <4>1. k \in 0 .. N /\ k - 1 \in 0 .. N
        BY <1>1
      <4>2. h[k - 1] \in V
        BY <3>2, <4>1
      <4> HIDE DEF h, V
      <4> QED BY <1>2, <1>11, <4>1, <4>2
    <3> HIDE DEF W, h, V
    <3> QED BY <1>1, <3>1, <3>2, Run
  <2> HIDE DEF V
  <2> QED BY <2>1
<1> HIDE DEF h
<1> QED BY <1>8, <1>10, <1>11, <1>12, <1>13 DEF N

\* All the commands are of a suspend, or all of a resume.
Uniform(cs, on) ==
  \A k \in 1 .. Len(cs) :
    /\ cs[k].what \in SleepFlags => cs[k].to = on
    /\ cs[k].what = "pats" => cs[k].to.on = on
    /\ cs[k].what = "wow" => cs[k].to.cmd = IF on THEN "on" ELSE "off"

\* One of the first k commands came through, and the patterns of those that did.
Came(cs, lost, k, v, f) == \E j \in 1 .. k : j \notin lost /\ cs[j].vif = v /\ cs[j].what = f
CamePats(cs, lost, k, v) ==
  {i \in Nat : \E j \in 1 .. k : /\ j \notin lost /\ cs[j].vif = v /\ cs[j].what = "pats"
                                /\ cs[j].to.index = i}
Obeyed1(cs, lost, k, on, s, st) ==
  /\ \A v \in DOMAIN st.fw :
       /\ \A f \in SleepFlags :
            s.fw[v][f] = IF Came(cs, lost, k, v, f) THEN on ELSE st.fw[v][f]
       /\ s.fw[v].pats = IF on THEN st.fw[v].pats \cup CamePats(cs, lost, k, v)
                         ELSE st.fw[v].pats \ CamePats(cs, lost, k, v)
       /\ s.fw[v].wow = IF Came(cs, lost, k, v, "wow") THEN IF on THEN "on" ELSE "off"
                        ELSE st.fw[v].wow
  /\ s.sched = IF \E j \in 1 .. k : cs[j].what = "scan" THEN on ELSE st.sched

\* What came through is what the firmware has.
LEMMA ObeyEffect ==
  ASSUME NEW n \in Nat, NEW cs \in Seq(SleepCmd(n)), NEW st \in SleepState(n), NEW lost,
         NEW on \in BOOLEAN, Uniform(cs, on)
  PROVE  Obeyed1(cs, lost, Len(cs), on, Obey(st, cs, lost), st)
<1> DEFINE N == Len(cs)
           V == SleepState(n)
           W == [k \in 0 .. N |-> {s \in V : Obeyed1(cs, lost, k, on, s, st)}]
<1>1. N \in Nat /\ DOMAIN cs = 1 .. N /\ \A k \in 1 .. N : cs[k] \in SleepCmd(n)
  OBVIOUS
<1>2. st.fw \in [1 .. n -> SleepFw] /\ DOMAIN st.fw = 1 .. n /\ st.sched \in BOOLEAN
  BY DEF SleepState
<1>3. PICK h : /\ h \in [0 .. N -> V] /\ h[0] = st
               /\ \A k \in 1 .. N : h[k] = SleepStep(h[k - 1], cs[k], k \in lost)
               /\ Obey(st, cs, lost) = h[N]
  BY ObeyRuns
<1>4. Obeyed1(cs, lost, 0, on, st, st)
  <2>1. \A v, f : ~Came(cs, lost, 0, v, f)
    BY DEF Came
  <2>2. \A v : CamePats(cs, lost, 0, v) = {}
    BY DEF CamePats
  <2>3. ~\E j \in 1 .. 0 : cs[j].what = "scan"
    OBVIOUS
  <2> QED BY <2>1, <2>2, <2>3 DEF Obeyed1
<1>5. ASSUME NEW k \in 1 .. N, NEW s \in V, Obeyed1(cs, lost, k - 1, on, s, st),
             NEW t, t = SleepStep(s, cs[k], k \in lost)
      PROVE  Obeyed1(cs, lost, k, on, t, st)
  <2> DEFINE c == cs[k]
  <2>0. /\ c \in SleepCmd(n) /\ s.fw \in [1 .. n -> SleepFw] /\ s.sched \in BOOLEAN
        /\ t.fw = (IF k \in lost THEN s.fw ELSE Obeyed(s.fw, c))
        /\ t.sched = (IF c.what = "scan" THEN c.to ELSE s.sched)
    BY <1>1, <1>5 DEF SleepState, SleepStep
  <2>1. /\ c.what \in SleepFlags => c.to = on
        /\ c.what = "pats" => c.to.on = on
        /\ c.what = "wow" => c.to.cmd = IF on THEN "on" ELSE "off"
    BY <1>1 DEF Uniform
  <2>2. c.what = "pats" => c.to.index \in Nat
    BY <2>0, SleepCmds DEF PatCmd
  <2>3. \A j : j \in 1 .. k <=> j \in 1 .. (k - 1) \/ j = k
    BY <1>1
  <2>4. \A v, f : Came(cs, lost, k, v, f) <=>
                    Came(cs, lost, k - 1, v, f) \/ (k \notin lost /\ c.vif = v /\ c.what = f)
    BY <2>3 DEF Came
  <2>5. \A v : CamePats(cs, lost, k, v) =
                 CamePats(cs, lost, k - 1, v)
                   \cup (IF k \notin lost /\ c.vif = v /\ c.what = "pats" THEN {c.to.index} ELSE {})
    BY <2>2, <2>3 DEF CamePats
  <2>6. (\E j \in 1 .. k : cs[j].what = "scan") <=>
          (\E j \in 1 .. (k - 1) : cs[j].what = "scan") \/ c.what = "scan"
    BY <2>3
  <2> HIDE DEF c
  <2>7. t.sched = IF \E j \in 1 .. k : cs[j].what = "scan" THEN on ELSE st.sched
    BY <1>5, <2>0, <2>1, <2>6 DEF Obeyed1, SleepFlags
  <2>8. ASSUME NEW v \in 1 .. n
        PROVE  /\ \A f \in SleepFlags :
                    t.fw[v][f] = IF Came(cs, lost, k, v, f) THEN on ELSE st.fw[v][f]
               /\ t.fw[v].pats = IF on THEN st.fw[v].pats \cup CamePats(cs, lost, k, v)
                                 ELSE st.fw[v].pats \ CamePats(cs, lost, k, v)
               /\ t.fw[v].wow = IF Came(cs, lost, k, v, "wow") THEN IF on THEN "on" ELSE "off"
                                ELSE st.fw[v].wow
    <3>1. /\ \A f \in SleepFlags :
               s.fw[v][f] = IF Came(cs, lost, k - 1, v, f) THEN on ELSE st.fw[v][f]
          /\ s.fw[v].pats = IF on THEN st.fw[v].pats \cup CamePats(cs, lost, k - 1, v)
                            ELSE st.fw[v].pats \ CamePats(cs, lost, k - 1, v)
          /\ s.fw[v].wow = IF Came(cs, lost, k - 1, v, "wow") THEN IF on THEN "on" ELSE "off"
                           ELSE st.fw[v].wow
      BY <1>2, <1>5 DEF Obeyed1
    <3>2. CASE k \in lost
      <4>1. /\ \A f : Came(cs, lost, k, v, f) <=> Came(cs, lost, k - 1, v, f)
            /\ CamePats(cs, lost, k, v) = CamePats(cs, lost, k - 1, v)
        BY <2>4, <2>5, <3>2
      <4>2. t.fw = s.fw
        BY <2>0, <3>2
      <4> QED BY <3>1, <4>1, <4>2
    <3>3. CASE k \notin lost
      <4>1. /\ \A f \in SleepFlags :
                 t.fw[v][f] = IF c.vif = v /\ c.what = f THEN c.to ELSE s.fw[v][f]
            /\ t.fw[v].pats = IF c.vif = v /\ c.what = "pats"
                              THEN IF c.to.on THEN s.fw[v].pats \cup {c.to.index}
                                   ELSE s.fw[v].pats \ {c.to.index}
                              ELSE s.fw[v].pats
            /\ t.fw[v].wow = IF c.vif = v /\ c.what = "wow" THEN c.to.cmd ELSE s.fw[v].wow
        <5>1. Effect(Obeyed(s.fw, c), s.fw, c, v)
          BY <2>0, Obeys
        <5>2. t.fw = Obeyed(s.fw, c)
          BY <2>0, <3>3
        <5>3. Effect(t.fw, s.fw, c, v)
          BY <5>1, <5>2
        <5> QED BY <5>3 DEF Effect
      <4>2. \A f \in SleepFlags :
              t.fw[v][f] = IF Came(cs, lost, k, v, f) THEN on ELSE st.fw[v][f]
        BY <2>1, <2>4, <3>1, <3>3, <4>1
      <4>3. t.fw[v].pats = IF on THEN st.fw[v].pats \cup CamePats(cs, lost, k, v)
                           ELSE st.fw[v].pats \ CamePats(cs, lost, k, v)
        <5>1. CASE c.vif = v /\ c.what = "pats"
          <6>1. CamePats(cs, lost, k, v) = CamePats(cs, lost, k - 1, v) \cup {c.to.index}
            BY <2>5, <3>3, <5>1
          <6> QED BY <2>1, <3>1, <4>1, <5>1, <6>1
        <5>2. CASE ~(c.vif = v /\ c.what = "pats")
          <6>1. CamePats(cs, lost, k, v) = CamePats(cs, lost, k - 1, v)
            BY <2>5, <5>2
          <6> QED BY <3>1, <4>1, <5>2, <6>1
        <5> QED BY <5>1, <5>2
      <4>4. t.fw[v].wow = IF Came(cs, lost, k, v, "wow") THEN IF on THEN "on" ELSE "off"
                          ELSE st.fw[v].wow
        BY <2>1, <2>4, <3>1, <3>3, <4>1
      <4> QED BY <4>2, <4>3, <4>4
    <3> QED BY <3>2, <3>3
  <2> QED BY <1>2, <2>7, <2>8 DEF Obeyed1
<1>6. \A k \in 0 .. N : h[k] \in W[k]
  <2>1. h[0] \in W[0]
    BY <1>1, <1>3, <1>4
  <2>2. ASSUME NEW k \in 1 .. N, h[k - 1] \in W[k - 1] PROVE h[k] \in W[k]
    <3>1. k \in 0 .. N /\ k - 1 \in 0 .. N
      BY <1>1
    <3>2. h[k - 1] \in V /\ Obeyed1(cs, lost, k - 1, on, h[k - 1], st) /\ h[k] \in V
      BY <1>3, <2>2, <3>1
    <3> HIDE DEF N, V
    <3>3. h[k] = SleepStep(h[k - 1], cs[k], k \in lost)
      BY <1>3
    <3>4. Obeyed1(cs, lost, k, on, h[k], st)
      BY <1>5, <3>2, <3>3
    <3> QED BY <3>1, <3>2, <3>4
  <2> HIDE DEF W
  <2> QED BY <1>1, <2>1, <2>2, Run
<1>7. N \in 0 .. N
  BY <1>1
<1> QED BY <1>3, <1>6, <1>7

\* Where a sequence has the commands of one kind for an interface.
CmdsAt(cs, v, f) == {k \in 1 .. Len(cs) : cs[k].vif = v /\ cs[k].what = f}
Once(cs, v, f) == \E k : CmdsAt(cs, v, f) = {k}
PatsAt(cs, v) == {i \in Nat : \E k \in CmdsAt(cs, v, "pats") : cs[k].to.index = i}
OneEach(cs, v, wowlan, nd) ==
  /\ \A f \in {"gtk", "arp", "mode", "wow"} : Once(cs, v, f)
  /\ IF wowlan.nd THEN Once(cs, v, "scan") ELSE CmdsAt(cs, v, "scan") = {}
  /\ IF nd THEN Once(cs, v, "nd") ELSE CmdsAt(cs, v, "nd") = {}
  /\ PatsAt(cs, v) = 0 .. wowlan.patterns - 1
Only(cs, v) == \A k \in 1 .. Len(cs) : cs[k].vif = v

\* One sequence after another.
Joined(u, s, t) ==
  /\ Len(u) = Len(s) + Len(t)
  /\ \A k \in 1 .. Len(s) : u[k] = s[k]
  /\ \A k \in 1 .. Len(t) : u[Len(s) + k] = t[k]
LEMMA Concat ==
  ASSUME NEW C, NEW s \in Seq(C), NEW t \in Seq(C)
  PROVE  s \o t \in Seq(C) /\ Joined(s \o t, s, t)
<1> DEFINE u == s \o t
<1>1. u \in Seq(C) /\ Len(u) = Len(s) + Len(t) /\ Len(s) \in Nat /\ Len(t) \in Nat
  OBVIOUS
<1>2. \A k \in 1 .. Len(s) + Len(t) : u[k] = IF k <= Len(s) THEN s[k] ELSE t[k - Len(s)]
  OBVIOUS
<1>3. ASSUME NEW k \in 1 .. Len(t) PROVE u[Len(s) + k] = t[k]
  <2>1. PICK m \in 1 .. Len(s) + Len(t) : m = Len(s) + k /\ m > Len(s) /\ m - Len(s) = k
    BY <1>1
  <2>2. u[m] = t[m - Len(s)]
    BY <1>1, <1>2, <2>1
  <2> QED BY <2>1, <2>2
<1>4. ASSUME NEW k \in 1 .. Len(s) PROVE u[k] = s[k]
  <2>1. k \in 1 .. Len(s) + Len(t) /\ k <= Len(s)
    BY <1>1
  <2> QED BY <1>2, <2>1
<1> HIDE DEF u
<1>5. u \in Seq(C) /\ Joined(u, s, t)
  BY <1>1, <1>3, <1>4 DEF Joined
<1> QED BY <1>5 DEF u

\* The commands of one interface, each at its place.
Places(cs, v, on, wowlan, p, q) ==
  /\ Len(cs) = 4 + p + q
  /\ cs[1] = Cmd(v, "gtk", on) /\ cs[2] = Cmd(v, "arp", on) /\ cs[3] = Cmd(v, "mode", on)
  /\ \A j \in 1 .. p : cs[3 + j] = Cmd(v, "pats", [index |-> j - 1, on |-> on])
  /\ q = 2 => cs[4 + p] = Cmd(v, "request", TRUE) /\ cs[5 + p] = Cmd(v, "scan", on)
  /\ cs[4 + p + q] = Cmd(v, "wow", [cmd |-> IF on THEN "on" ELSE "off",
                                    trigger |-> Trigger(wowlan)])
LEMMA IterPlaces ==
  ASSUME NEW n \in Nat, NEW v \in 1 .. n, NEW on \in BOOLEAN, NEW wowlan \in WowConfig,
         NEW cs, cs = SuspendIter(v, on, wowlan)
  PROVE  /\ cs \in Seq(SleepCmd(n))
         /\ Places(cs, v, on, wowlan, wowlan.patterns, IF wowlan.nd THEN 2 ELSE 0)
<1> DEFINE p == wowlan.patterns
           q == IF wowlan.nd THEN 2 ELSE 0
           C == SleepCmd(n)
           a == <<Cmd(v, "gtk", on), Cmd(v, "arp", on), Cmd(v, "mode", on)>>
           pats == WowPatterns(v, on, wowlan)
           last == Cmd(v, "wow", [cmd |-> IF on THEN "on" ELSE "off", trigger |-> Trigger(wowlan)])
           scan == IF wowlan.nd THEN <<Cmd(v, "request", TRUE), Cmd(v, "scan", on)>> ELSE <<>>
           ctrl == scan \o <<last>>
<1>1. p \in Nat /\ wowlan.nd \in BOOLEAN
  BY DEF WowConfig
<1>2. \A to \in BOOLEAN : \A f \in SleepFlags \cup {"request"} : Cmd(v, f, to) \in C
  BY DEF Cmd, SleepCmd
<1>3. a \in Seq(C) /\ Len(a) = 3
  BY <1>2 DEF SleepFlags
<1>4. pats \in Seq(C) /\ Len(pats) = p
      /\ \A j \in 1 .. p : pats[j] = Cmd(v, "pats", [index |-> j - 1, on |-> on])
  <2>1. pats = [k \in 1 .. p |-> Cmd(v, "pats", [index |-> k - 1, on |-> on])]
    BY DEF WowPatterns
  <2>2. ASSUME NEW k \in 1 .. p PROVE Cmd(v, "pats", [index |-> k - 1, on |-> on]) \in C
    <3>1. k - 1 \in Nat
      BY <1>1
    <3>2. [index |-> k - 1, on |-> on] \in PatCmd
      BY <3>1 DEF PatCmd
    <3> QED BY <3>2 DEF Cmd, SleepCmd
  <2> HIDE DEF pats, p, C
  <2> QED BY <1>1, <2>1, <2>2
<1>5. last \in C
  <2>1. Trigger(wowlan) \in SUBSET Triggers
    BY DEF Trigger, Triggers
  <2>2. [cmd |-> IF on THEN "on" ELSE "off", trigger |-> Trigger(wowlan)] \in WowCmd
    BY <2>1 DEF WowCmd
  <2> QED BY <2>2 DEF Cmd, SleepCmd
<1>6. scan \in Seq(C) /\ Len(scan) = q
      /\ (wowlan.nd => scan[1] = Cmd(v, "request", TRUE) /\ scan[2] = Cmd(v, "scan", on))
  <2>1. Cmd(v, "request", TRUE) \in C /\ Cmd(v, "scan", on) \in C
    BY <1>2 DEF SleepFlags
  <2> HIDE DEF C
  <2>2. CASE wowlan.nd
    <3> DEFINE x == Cmd(v, "request", TRUE)
               y == Cmd(v, "scan", on)
    <3>1. scan = <<x, y>> /\ q = 2
      BY <2>2
    <3> HIDE DEF x, y, scan, q
    <3>2. x \in C /\ y \in C
      BY <2>1 DEF x, y
    <3>3. scan \in Seq(C) /\ Len(scan) = 2 /\ scan[1] = x /\ scan[2] = y
      BY <3>1, <3>2
    <3> QED BY <3>1, <3>3 DEF x, y
  <2>3. CASE ~wowlan.nd
    <3>1. scan = <<>> /\ q = 0
      BY <2>3
    <3>2. <<>> \in Seq(C) /\ Len(<<>>) = 0
      OBVIOUS
    <3> HIDE DEF scan, q
    <3>3. scan \in Seq(C) /\ Len(scan) = q
      BY <3>1, <3>2, Zenon
    <3> QED BY <2>3, <3>3, Zenon
  <2> QED BY <2>2, <2>3
<1> HIDE DEF last, scan, pats, a, C
<1>7. ctrl \in Seq(C) /\ Len(ctrl) = q + 1 /\ ctrl[q + 1] = last
      /\ (wowlan.nd => ctrl[1] = Cmd(v, "request", TRUE) /\ ctrl[2] = Cmd(v, "scan", on))
  <2>1. <<last>> \in Seq(C) /\ Len(<<last>>) = 1 /\ <<last>>[1] = last
    BY <1>5
  <2>2. ctrl \in Seq(C) /\ Joined(ctrl, scan, <<last>>)
    BY <1>6, <2>1, Concat
  <2> HIDE DEF ctrl
  <2>3. ctrl[Len(scan) + 1] = last
    BY <2>1, <2>2 DEF Joined
  <2>4. Len(ctrl) = q + 1 /\ ctrl[q + 1] = last
    BY <1>6, <2>1, <2>2, <2>3 DEF Joined
  <2>5. ASSUME wowlan.nd PROVE ctrl[1] = scan[1] /\ ctrl[2] = scan[2]
    <3>1. 1 \in 1 .. Len(scan) /\ 2 \in 1 .. Len(scan)
      BY <1>6, <2>5
    <3> QED BY <2>2, <3>1 DEF Joined
  <2> QED BY <1>6, <2>2, <2>4, <2>5
<1>8. cs = (a \o pats) \o ctrl
  <2>1. WowCtrl(v, on, wowlan) = ctrl
    BY DEF WowCtrl, scan, last
  <2> QED BY <2>1 DEF SuspendIter, a, pats
<1> HIDE DEF ctrl
<1> DEFINE b == a \o pats
<1>9. b \in Seq(C) /\ Len(b) = 3 + p /\ b[1] = a[1] /\ b[2] = a[2] /\ b[3] = a[3]
      /\ \A j \in 1 .. p : b[3 + j] = pats[j]
  <2>1. b \in Seq(C) /\ Joined(b, a, pats)
    BY <1>3, <1>4, Concat
  <2> HIDE DEF b
  <2> QED BY <1>1, <1>3, <1>4, <2>1 DEF Joined
<1> HIDE DEF b
<1>10. cs \in Seq(C) /\ Len(cs) = (3 + p) + (q + 1)
       /\ (\A k \in 1 .. 3 + p : cs[k] = b[k])
       /\ \A k \in 1 .. q + 1 : cs[(3 + p) + k] = ctrl[k]
  <2>1. cs = b \o ctrl
    BY <1>8 DEF b
  <2>2. cs \in Seq(C) /\ Joined(cs, b, ctrl)
    BY <1>7, <1>9, <2>1, Concat
  <2> QED BY <1>7, <1>9, <2>2 DEF Joined
<1>11. /\ 4 + p = (3 + p) + 1 /\ 5 + p = (3 + p) + 2 /\ 4 + p + q = (3 + p) + (q + 1)
       /\ 1 \in 1 .. 3 + p /\ 2 \in 1 .. 3 + p /\ 3 \in 1 .. 3 + p
       /\ \A j \in 1 .. p : 3 + j \in 1 .. 3 + p
       /\ 1 \in 1 .. q + 1 /\ q + 1 \in 1 .. q + 1 /\ (wowlan.nd => 2 \in 1 .. q + 1)
  BY <1>1
<1>12. a[1] = Cmd(v, "gtk", on) /\ a[2] = Cmd(v, "arp", on) /\ a[3] = Cmd(v, "mode", on)
  BY DEF a
<1> HIDE DEF p, q
<1>13. /\ cs[1] = Cmd(v, "gtk", on) /\ cs[2] = Cmd(v, "arp", on) /\ cs[3] = Cmd(v, "mode", on)
       /\ \A j \in 1 .. p : cs[3 + j] = Cmd(v, "pats", [index |-> j - 1, on |-> on])
  <2>1. cs[1] = b[1] /\ cs[2] = b[2] /\ cs[3] = b[3]
    BY <1>10, <1>11
  <2>2. ASSUME NEW j \in 1 .. p PROVE cs[3 + j] = Cmd(v, "pats", [index |-> j - 1, on |-> on])
    <3>1. cs[3 + j] = b[3 + j]
      BY <1>10, <1>11
    <3>2. b[3 + j] = pats[j]
      BY <1>9
    <3> QED BY <1>4, <3>1, <3>2
  <2> QED BY <1>9, <1>12, <2>1, <2>2
<1>14. wowlan.nd => cs[4 + p] = Cmd(v, "request", TRUE) /\ cs[5 + p] = Cmd(v, "scan", on)
  BY <1>7, <1>10, <1>11
<1>15. cs[4 + p + q] = last /\ Len(cs) = 4 + p + q
  BY <1>7, <1>10, <1>11
<1>16. q = 2 => wowlan.nd
  BY DEF q
<1>17. Places(cs, v, on, wowlan, p, q)
  BY <1>13, <1>14, <1>15, <1>16 DEF Places, last
<1> QED BY <1>10, <1>17 DEF p, q, C

\* Each is there once, for this interface and in this direction.
KindAt(k, p, e) ==
  IF k = 1 THEN "gtk" ELSE IF k = 2 THEN "arp" ELSE IF k = 3 THEN "mode"
  ELSE IF k <= 3 + p THEN "pats" ELSE IF k = e THEN "wow"
  ELSE IF k = 4 + p THEN "request" ELSE "scan"
LEMMA IterEach ==
  ASSUME NEW n \in Nat, NEW v \in 1 .. n, NEW on \in BOOLEAN, NEW wowlan \in WowConfig,
         NEW cs, cs = SuspendIter(v, on, wowlan)
  PROVE  /\ cs \in Seq(SleepCmd(n)) /\ Only(cs, v) /\ Uniform(cs, on)
         /\ OneEach(cs, v, wowlan, FALSE)
<1>1. PICK p \in Nat, q \in {0, 2} :
        /\ p = wowlan.patterns /\ (q = 2 <=> wowlan.nd)
        /\ cs \in Seq(SleepCmd(n)) /\ Places(cs, v, on, wowlan, p, q)
  <2> DEFINE q == IF wowlan.nd THEN 2 ELSE 0
  <2>1. /\ cs \in Seq(SleepCmd(n))
        /\ Places(cs, v, on, wowlan, wowlan.patterns, q)
    BY IterPlaces
  <2>2. wowlan.patterns \in Nat /\ wowlan.nd \in BOOLEAN
    BY DEF WowConfig
  <2>3. q \in {0, 2} /\ (q = 2 <=> wowlan.nd)
    BY <2>2
  <2> HIDE DEF q
  <2> QED BY <2>1, <2>2, <2>3
<1>2. PICK e \in Nat : e = 4 + p + q
  OBVIOUS
<1>3. Len(cs) = e
  BY <1>1, <1>2 DEF Places
<1>4. ASSUME NEW k \in 1 .. e
      PROVE  /\ cs[k].vif = v /\ cs[k].what = KindAt(k, p, e)
             /\ cs[k].what \in SleepFlags => cs[k].to = on
             /\ cs[k].what = "pats" => cs[k].to = [index |-> k - 4, on |-> on]
             /\ cs[k].what = "wow" => cs[k].to.cmd = IF on THEN "on" ELSE "off"
  <2>1. CASE k \in {1, 2, 3}
    <3>1. KindAt(k, p, e) \in {"gtk", "arp", "mode"} /\ cs[k] = Cmd(v, KindAt(k, p, e), on)
      BY <1>1, <2>1 DEF Places, KindAt
    <3> QED BY <3>1 DEF Cmd, SleepFlags
  <2>2. CASE k \in 4 .. 3 + p
    <3>1. PICK j \in 1 .. p : j = k - 3 /\ k = 3 + j /\ j - 1 = k - 4
      BY <2>2
    <3>2. cs[k] = Cmd(v, "pats", [index |-> k - 4, on |-> on])
      BY <1>1, <3>1 DEF Places
    <3>3. KindAt(k, p, e) = "pats"
      BY <2>2 DEF KindAt
    <3> QED BY <3>2, <3>3 DEF Cmd, SleepFlags
  <2>3. CASE k = e
    <3>1. KindAt(k, p, e) = "wow"
      BY <1>2, <2>3 DEF KindAt
    <3>2. cs[k] = Cmd(v, "wow", [cmd |-> IF on THEN "on" ELSE "off", trigger |-> Trigger(wowlan)])
      BY <1>1, <1>2, <2>3 DEF Places
    <3> QED BY <3>1, <3>2 DEF Cmd, SleepFlags
  <2>4. CASE q = 2 /\ k = 4 + p
    <3>1. KindAt(k, p, e) = "request"
      BY <1>2, <2>4 DEF KindAt
    <3>2. cs[k] = Cmd(v, "request", TRUE)
      BY <1>1, <2>4 DEF Places
    <3> QED BY <3>1, <3>2 DEF Cmd, SleepFlags
  <2>5. CASE q = 2 /\ k = 5 + p
    <3>1. KindAt(k, p, e) = "scan"
      BY <1>2, <2>5 DEF KindAt
    <3>2. cs[k] = Cmd(v, "scan", on)
      BY <1>1, <2>5 DEF Places
    <3> QED BY <3>1, <3>2 DEF Cmd, SleepFlags
  <2>6. CASE q = 0
    <3>1. k \in {1, 2, 3} \/ k \in 4 .. 3 + p \/ k = e
      BY <1>2, <2>6
    <3> QED BY <2>1, <2>2, <2>3, <3>1
  <2>7. CASE q = 2
    <3>1. e = 6 + p
      BY <1>2, <2>7
    <3>2. k \in {1, 2, 3} \/ k \in 4 .. 3 + p \/ k = e \/ k = 4 + p \/ k = 5 + p
      BY <3>1
    <3> QED BY <2>1, <2>2, <2>3, <2>4, <2>5, <2>7, <3>2
  <2> QED BY <2>6, <2>7
<1>5. Only(cs, v)
  BY <1>3, <1>4 DEF Only
<1>6. Uniform(cs, on)
  <2>1. ASSUME NEW k \in 1 .. e, cs[k].what = "pats" PROVE cs[k].to.on = on
    <3>1. cs[k].to = [index |-> k - 4, on |-> on]
      BY <1>4, <2>1
    <3> QED BY <3>1
  <2> QED BY <1>3, <1>4, <2>1 DEF Uniform
<1>7. \A f : CmdsAt(cs, v, f) = {k \in 1 .. e : KindAt(k, p, e) = f}
  BY <1>3, <1>4 DEF CmdsAt
<1>8. CmdsAt(cs, v, "gtk") = {1} /\ CmdsAt(cs, v, "arp") = {2} /\ CmdsAt(cs, v, "mode") = {3}
  BY <1>2, <1>7 DEF KindAt
<1>9. CmdsAt(cs, v, "wow") = {e}
  BY <1>2, <1>7 DEF KindAt
<1>10. CmdsAt(cs, v, "scan") = IF q = 2 THEN {5 + p} ELSE {}
  BY <1>2, <1>7 DEF KindAt
<1>11. CmdsAt(cs, v, "nd") = {}
  BY <1>7 DEF KindAt
<1>12. CmdsAt(cs, v, "pats") = 4 .. 3 + p
  <2>1. \A k \in 1 .. e : KindAt(k, p, e) = "pats" <=> k > 3 /\ k <= 3 + p
    BY DEF KindAt
  <2>2. \A k : k \in 4 .. 3 + p <=> k \in 1 .. e /\ k > 3 /\ k <= 3 + p
    BY <1>2
  <2> QED BY <1>7, <2>1, <2>2
<1>13. PatsAt(cs, v) = 0 .. p - 1
  <2>1. \A k \in 4 .. 3 + p : cs[k].to.index = k - 4
    <3> TAKE k \in 4 .. 3 + p
    <3>1. k \in 1 .. e /\ cs[k].what = "pats"
      BY <1>2, <1>12 DEF CmdsAt
    <3>2. cs[k].to = [index |-> k - 4, on |-> on]
      BY <1>4, <3>1
    <3> QED BY <3>2
  <2>2. \A i \in Nat : (\E k \in 4 .. 3 + p : cs[k].to.index = i) <=> i \in 0 .. p - 1
    <3>1. \A i \in 0 .. p - 1 : i + 4 \in 4 .. 3 + p /\ (i + 4) - 4 = i
      OBVIOUS
    <3>2. \A k \in 4 .. 3 + p : k - 4 \in 0 .. p - 1
      OBVIOUS
    <3> QED BY <2>1, <3>1, <3>2
  <2> QED BY <1>12, <2>2 DEF PatsAt
<1> QED BY <1>1, <1>5, <1>6, <1>8, <1>9, <1>10, <1>11, <1>13 DEF OneEach, Once

\* Where the commands of two sequences are when one follows the other.
Behind(s, K) == {Len(s) + k : k \in K}
Appended(u, s, t) ==
  /\ \A k \in 1 .. Len(s) : u[k] = s[k]
  /\ \A k \in 1 .. Len(t) : u[Len(s) + k] = t[k]
  /\ \A j \in 1 .. Len(u) : j \in 1 .. Len(s) \/ \E k \in 1 .. Len(t) : j = Len(s) + k
  /\ \A v, f : CmdsAt(u, v, f) = CmdsAt(s, v, f) \cup Behind(s, CmdsAt(t, v, f))
LEMMA Appends ==
  ASSUME NEW C, NEW s \in Seq(C), NEW t \in Seq(C)
  PROVE  Appended(s \o t, s, t)
<1>0. PICK u : u = s \o t
  OBVIOUS
<1>1. Joined(u, s, t) /\ Len(s) \in Nat /\ Len(t) \in Nat
  BY <1>0, Concat
<1>2. /\ Len(u) = Len(s) + Len(t)
      /\ \A k \in 1 .. Len(s) : u[k] = s[k]
      /\ \A k \in 1 .. Len(t) : u[Len(s) + k] = t[k]
  BY <1>1 DEF Joined
<1>3. \A j \in 1 .. Len(u) : j \in 1 .. Len(s) \/ \E k \in 1 .. Len(t) : j = Len(s) + k
  <2> SUFFICES ASSUME NEW j \in 1 .. Len(u), j \notin 1 .. Len(s)
               PROVE  \E k \in 1 .. Len(t) : j = Len(s) + k
    OBVIOUS
  <2>1. j - Len(s) \in 1 .. Len(t) /\ j = Len(s) + (j - Len(s))
    BY <1>1, <1>2
  <2> QED BY <2>1
<1>4. /\ \A k \in 1 .. Len(s) : k \in 1 .. Len(u)
      /\ \A k \in 1 .. Len(t) : Len(s) + k \in 1 .. Len(u)
  BY <1>1, <1>2
<1>5. ASSUME NEW v, NEW f PROVE CmdsAt(u, v, f) = CmdsAt(s, v, f) \cup Behind(s, CmdsAt(t, v, f))
  <2>1. ASSUME NEW j \in CmdsAt(u, v, f)
        PROVE  j \in CmdsAt(s, v, f) \cup Behind(s, CmdsAt(t, v, f))
    <3>1. j \in 1 .. Len(u) /\ u[j].vif = v /\ u[j].what = f
      BY DEF CmdsAt
    <3>2. CASE j \in 1 .. Len(s)
      BY <1>2, <3>1, <3>2 DEF CmdsAt
    <3>3. ASSUME NEW k \in 1 .. Len(t), j = Len(s) + k PROVE j \in Behind(s, CmdsAt(t, v, f))
      BY <1>2, <3>1, <3>3 DEF CmdsAt, Behind
    <3> QED BY <1>3, <3>1, <3>2, <3>3
  <2>2. ASSUME NEW j \in CmdsAt(s, v, f) PROVE j \in CmdsAt(u, v, f)
    BY <1>2, <1>4 DEF CmdsAt
  <2>3. ASSUME NEW k \in CmdsAt(t, v, f) PROVE Len(s) + k \in CmdsAt(u, v, f)
    <3>1. k \in 1 .. Len(t) /\ t[k].vif = v /\ t[k].what = f
      BY DEF CmdsAt
    <3>2. Len(s) + k \in 1 .. Len(u) /\ u[Len(s) + k] = t[k]
      BY <1>2, <1>4, <3>1
    <3> QED BY <3>1, <3>2 DEF CmdsAt
  <2> QED BY <2>1, <2>2, <2>3 DEF Behind
<1> QED BY <1>0, <1>2, <1>3, <1>5 DEF Appended

\* One with nothing of an interface leaves the other as it is, before or behind it.
Nothing(cs, v) == \A k \in 1 .. Len(cs) : cs[k].vif # v
LEMMA AppendsEach ==
  ASSUME NEW u, NEW s, NEW t, Appended(u, s, t), NEW v, NEW wowlan, NEW nd, NEW on
  PROVE  /\ Nothing(t, v) /\ OneEach(s, v, wowlan, nd) => OneEach(u, v, wowlan, nd)
         /\ Nothing(s, v) /\ OneEach(t, v, wowlan, nd) => OneEach(u, v, wowlan, nd)
         /\ Nothing(s, v) /\ Nothing(t, v) => Nothing(u, v)
         /\ Uniform(s, on) /\ Uniform(t, on) => Uniform(u, on)
<1>1. /\ \A k \in 1 .. Len(s) : u[k] = s[k]
      /\ \A k \in 1 .. Len(t) : u[Len(s) + k] = t[k]
      /\ \A j \in 1 .. Len(u) : j \in 1 .. Len(s) \/ \E k \in 1 .. Len(t) : j = Len(s) + k
  BY DEF Appended
<1>2. \A f : CmdsAt(u, v, f) = CmdsAt(s, v, f) \cup Behind(s, CmdsAt(t, v, f))
  BY DEF Appended
<1>3. ASSUME Nothing(t, v), OneEach(s, v, wowlan, nd) PROVE OneEach(u, v, wowlan, nd)
  <2>1. \A f : CmdsAt(u, v, f) = CmdsAt(s, v, f)
    <3>1. \A f : CmdsAt(t, v, f) = {}
      BY <1>3 DEF Nothing, CmdsAt
    <3>2. Behind(s, {}) = {}
      BY DEF Behind
    <3> QED BY <1>2, <3>1, <3>2
  <2>2. PatsAt(u, v) = PatsAt(s, v)
    <3>1. \A k \in CmdsAt(s, v, "pats") : u[k] = s[k]
      BY <1>1 DEF CmdsAt
    <3> QED BY <2>1, <3>1 DEF PatsAt
  <2> QED BY <1>3, <2>1, <2>2 DEF OneEach, Once
<1>4. ASSUME Nothing(s, v), OneEach(t, v, wowlan, nd) PROVE OneEach(u, v, wowlan, nd)
  <2>1. \A f : CmdsAt(u, v, f) = Behind(s, CmdsAt(t, v, f))
    <3>1. \A f : CmdsAt(s, v, f) = {}
      BY <1>4 DEF Nothing, CmdsAt
    <3> QED BY <1>2, <3>1
  <2>2. PatsAt(u, v) = PatsAt(t, v)
    <3>1. \A k \in CmdsAt(t, v, "pats") : u[Len(s) + k] = t[k]
      BY <1>1 DEF CmdsAt
    <3>2. ASSUME NEW i PROVE (\E k \in CmdsAt(u, v, "pats") : u[k].to.index = i)
                               <=> \E k \in CmdsAt(t, v, "pats") : t[k].to.index = i
      <4>1. CmdsAt(u, v, "pats") = Behind(s, CmdsAt(t, v, "pats"))
        BY <2>1
      <4>2. (\E k \in CmdsAt(u, v, "pats") : u[k].to.index = i)
              <=> \E k \in CmdsAt(t, v, "pats") : u[Len(s) + k].to.index = i
        BY <4>1 DEF Behind
      <4> QED BY <3>1, <4>2
    <3> QED BY <3>2 DEF PatsAt
  <2>3. ASSUME NEW f, NEW k, CmdsAt(t, v, f) = {k} PROVE CmdsAt(u, v, f) = {Len(s) + k}
    <3>1. Behind(s, {k}) = {Len(s) + k}
      BY DEF Behind
    <3> QED BY <2>1, <2>3, <3>1
  <2>4. ASSUME NEW f, CmdsAt(t, v, f) = {} PROVE CmdsAt(u, v, f) = {}
    <3>1. Behind(s, {}) = {}
      BY DEF Behind
    <3> QED BY <2>1, <2>4, <3>1
  <2>5. \A f : Once(t, v, f) => Once(u, v, f)
    BY <2>3 DEF Once
  <2> QED BY <1>4, <2>2, <2>4, <2>5 DEF OneEach
<1>5. Nothing(s, v) /\ Nothing(t, v) => Nothing(u, v)
  BY <1>1 DEF Nothing
<1>6. ASSUME Uniform(s, on), Uniform(t, on) PROVE Uniform(u, on)
  <2> SUFFICES ASSUME NEW j \in 1 .. Len(u)
               PROVE  /\ u[j].what \in SleepFlags => u[j].to = on
                      /\ u[j].what = "pats" => u[j].to.on = on
                      /\ u[j].what = "wow" => u[j].to.cmd = IF on THEN "on" ELSE "off"
    BY DEF Uniform
  <2>1. CASE j \in 1 .. Len(s)
    BY <1>1, <1>6, <2>1 DEF Uniform
  <2>2. ASSUME NEW k \in 1 .. Len(t), j = Len(s) + k
        PROVE  /\ u[j].what \in SleepFlags => u[j].to = on
               /\ u[j].what = "pats" => u[j].to.on = on
               /\ u[j].what = "wow" => u[j].to.cmd = IF on THEN "on" ELSE "off"
    <3>1. u[j] = t[k]
      BY <1>1, <2>2
    <3> QED BY <1>6, <3>1 DEF Uniform
  <2> QED BY <1>1, <2>1, <2>2
<1> QED BY <1>3, <1>4, <1>5, <1>6

\* Going to sleep has one command more.
LEMMA IterNdEach ==
  ASSUME NEW n \in Nat, NEW v \in 1 .. n, NEW wowlan \in WowConfig,
         NEW cs, cs = SuspendIterNd(v, wowlan)
  PROVE  /\ cs \in Seq(SleepCmd(n)) /\ Only(cs, v) /\ Uniform(cs, TRUE)
         /\ OneEach(cs, v, wowlan, TRUE)
<1>1. PICK t : t = SuspendIter(v, TRUE, wowlan)
  OBVIOUS
<1>2. /\ t \in Seq(SleepCmd(n)) /\ Only(t, v) /\ Uniform(t, TRUE)
      /\ OneEach(t, v, wowlan, FALSE)
  BY <1>1, IterEach
<1>3. PICK c : c = Cmd(v, "nd", TRUE)
  OBVIOUS
<1>4. c \in SleepCmd(n) /\ c.vif = v /\ c.what = "nd" /\ c.to = TRUE
  BY <1>3 DEF Cmd, SleepCmd, SleepFlags
<1>5. PICK s : s = <<c>>
  OBVIOUS
<1>6. s \in Seq(SleepCmd(n)) /\ Len(s) = 1 /\ s[1] = c
  <2> HIDE DEF SleepCmd
  <2> QED BY <1>4, <1>5
<1>7. cs = s \o t
  BY <1>1, <1>3, <1>5 DEF SuspendIterNd
<1>8. cs \in Seq(SleepCmd(n))
  BY <1>2, <1>6, <1>7, Concat
<1>9. Appended(cs, s, t)
  BY <1>2, <1>6, <1>7, Appends
<1>10. Uniform(s, TRUE)
  BY <1>4, <1>6 DEF Uniform
<1>11. Uniform(cs, TRUE)
  BY <1>2, <1>9, <1>10, AppendsEach
<1>12. Only(cs, v)
  <2>1. \A k \in 1 .. Len(s) : s[k].vif = v
    BY <1>4, <1>6
  <2>2. \A k \in 1 .. Len(t) : t[k].vif = v
    BY <1>2 DEF Only
  <2>3. /\ \A k \in 1 .. Len(s) : cs[k] = s[k]
        /\ \A k \in 1 .. Len(t) : cs[Len(s) + k] = t[k]
        /\ \A j \in 1 .. Len(cs) : j \in 1 .. Len(s) \/ \E k \in 1 .. Len(t) : j = Len(s) + k
    BY <1>9 DEF Appended
  <2> SUFFICES ASSUME NEW j \in 1 .. Len(cs) PROVE cs[j].vif = v
    BY DEF Only
  <2>4. CASE j \in 1 .. Len(s)
    BY <2>1, <2>3, <2>4
  <2>5. ASSUME NEW k \in 1 .. Len(t), j = Len(s) + k PROVE cs[j].vif = v
    BY <2>2, <2>3, <2>5
  <2> QED BY <2>3, <2>4, <2>5
<1>13. \A f : CmdsAt(s, v, f) = IF f = "nd" THEN {1} ELSE {}
  BY <1>4, <1>6 DEF CmdsAt
<1>14. \A f : CmdsAt(cs, v, f) = CmdsAt(s, v, f) \cup Behind(s, CmdsAt(t, v, f))
  BY <1>9 DEF Appended
<1>15. \A k : Behind(s, {k}) = {Len(s) + k}
  BY DEF Behind
<1>16. Behind(s, {}) = {}
  BY DEF Behind
<1>17. \A f : f # "nd" => (Once(t, v, f) => Once(cs, v, f))
  <2>1. ASSUME NEW f, f # "nd", NEW k, CmdsAt(t, v, f) = {k} PROVE CmdsAt(cs, v, f) = {Len(s) + k}
    <3>1. CmdsAt(s, v, f) = {}
      BY <1>13, <2>1
    <3> QED BY <1>14, <1>15, <2>1, <3>1
  <2> QED BY <2>1 DEF Once
<1>18. Once(cs, v, "nd")
  <2>1. CmdsAt(t, v, "nd") = {}
    BY <1>2 DEF OneEach
  <2>2. CmdsAt(cs, v, "nd") = {1}
    BY <1>13, <1>14, <1>16, <2>1
  <2> QED BY <2>2 DEF Once
<1>19. ~wowlan.nd => CmdsAt(cs, v, "scan") = {}
  <2>1. ~wowlan.nd => CmdsAt(t, v, "scan") = {}
    BY <1>2 DEF OneEach
  <2> QED BY <1>13, <1>14, <1>16, <2>1
<1>20. PatsAt(cs, v) = PatsAt(t, v)
  <2>1. CmdsAt(cs, v, "pats") = Behind(s, CmdsAt(t, v, "pats"))
    BY <1>13, <1>14
  <2>2. \A k \in CmdsAt(t, v, "pats") : cs[Len(s) + k] = t[k]
    BY <1>9 DEF Appended, CmdsAt
  <2>3. ASSUME NEW i PROVE (\E k \in CmdsAt(cs, v, "pats") : cs[k].to.index = i)
                             <=> \E k \in CmdsAt(t, v, "pats") : t[k].to.index = i
    <3>1. (\E k \in CmdsAt(cs, v, "pats") : cs[k].to.index = i)
            <=> \E k \in CmdsAt(t, v, "pats") : cs[Len(s) + k].to.index = i
      BY <2>1 DEF Behind
    <3> QED BY <2>2, <3>1
  <2> QED BY <2>3 DEF PatsAt
<1> QED BY <1>2, <1>8, <1>11, <1>12, <1>17, <1>18, <1>19, <1>20 DEF OneEach

\* All interfaces have theirs.
AllEach(cs, n, wowlan, nd, on) ==
  cs \in Seq(SleepCmd(n)) /\ Uniform(cs, on) /\ \A v \in 1 .. n : OneEach(cs, v, wowlan, nd)
LEMMA FlattenEach ==
  ASSUME NEW n \in Nat, NEW wowlan, NEW nd, NEW on, NEW bs \in [1 .. n -> Seq(SleepCmd(n))],
         \A k \in 1 .. n : /\ Only(bs[k], k) /\ Uniform(bs[k], on)
                           /\ OneEach(bs[k], k, wowlan, nd)
  PROVE  AllEach(FlattenSeq(bs), n, wowlan, nd, on)
<1> DEFINE C == SleepCmd(n)
<1>0. PICK h : Pieces(h, bs, n, SleepCmd(n))
  BY Flattens
<1>1. /\ h \in [0 .. n -> Seq(C)] /\ h[0] = <<>> /\ FlattenSeq(bs) = h[n]
      /\ \A k \in 1 .. n : h[k] = h[k - 1] \o bs[k]
  BY <1>0 DEF Pieces
<1> DEFINE Ok(m) == /\ Uniform(h[m], on)
                    /\ \A v \in 1 .. m : OneEach(h[m], v, wowlan, nd)
                    /\ \A v \in 1 .. n : v > m => Nothing(h[m], v)
           W == [m \in 0 .. n |-> {s \in {h[m]} : Ok(m)}]
<1>2. Ok(0)
  <2>1. Len(h[0]) = 0
    BY <1>1
  <2>2. Uniform(h[0], on)
    BY <2>1 DEF Uniform
  <2>3. \A v : Nothing(h[0], v)
    BY <2>1 DEF Nothing
  <2>4. \A v \in 1 .. 0 : OneEach(h[0], v, wowlan, nd)
    OBVIOUS
  <2> QED BY <2>2, <2>3, <2>4
<1>3. ASSUME NEW m \in 1 .. n, Ok(m - 1) PROVE Ok(m)
  <2>1. m - 1 \in 0 .. n /\ h[m - 1] \in Seq(C) /\ bs[m] \in Seq(C)
    <3>1. m - 1 \in 0 .. n
      OBVIOUS
    <3>2. bs[m] \in Seq(C)
      OBVIOUS
    <3> HIDE DEF C
    <3>3. h[m - 1] \in Seq(C)
      BY <1>1, <3>1
    <3> QED BY <3>1, <3>2, <3>3
  <2>2. h[m] = h[m - 1] \o bs[m]
    BY <1>1
  <2>3. Appended(h[m], h[m - 1], bs[m])
    BY <2>1, <2>2, Appends
  <2>4. Only(bs[m], m) /\ Uniform(bs[m], on) /\ OneEach(bs[m], m, wowlan, nd)
    OBVIOUS
  <2>5. \A v : v # m => Nothing(bs[m], v)
    BY <2>4 DEF Only, Nothing
  <2>6. Uniform(h[m], on)
    BY <1>3, <2>3, <2>4, AppendsEach
  <2>7. ASSUME NEW v \in 1 .. m PROVE OneEach(h[m], v, wowlan, nd)
    <3>1. CASE v = m
      <4>1. Nothing(h[m - 1], m)
        BY <1>3
      <4> QED BY <2>3, <2>4, <3>1, <4>1, AppendsEach
    <3>2. CASE v # m
      <4>1. v \in 1 .. m - 1
        BY <3>2
      <4>2. OneEach(h[m - 1], v, wowlan, nd) /\ Nothing(bs[m], v)
        BY <1>3, <2>5, <3>2, <4>1
      <4> QED BY <2>3, <4>2, AppendsEach
    <3> QED BY <3>1, <3>2
  <2>8. ASSUME NEW v \in 1 .. n, v > m PROVE Nothing(h[m], v)
    <3>1. v > m - 1 /\ v # m
      BY <2>8
    <3>2. Nothing(h[m - 1], v) /\ Nothing(bs[m], v)
      BY <1>3, <2>5, <3>1
    <3> QED BY <2>3, <3>2, AppendsEach
  <2> QED BY <2>6, <2>7, <2>8
<1> HIDE DEF Ok
<1>4. \A m \in 0 .. n : h[m] \in W[m]
  <2>1. h[0] \in W[0]
    BY <1>2
  <2>2. ASSUME NEW m \in 1 .. n, h[m - 1] \in W[m - 1] PROVE h[m] \in W[m]
    <3>1. m - 1 \in 0 .. n /\ m \in 0 .. n
      OBVIOUS
    <3>2. Ok(m - 1)
      BY <2>2, <3>1
    <3> QED BY <1>3, <3>1, <3>2
  <2> HIDE DEF W
  <2> QED BY <2>1, <2>2, Run
<1>5. Ok(n) /\ h[n] \in Seq(C)
  BY <1>1, <1>4
<1> QED BY <1>1, <1>5 DEF Ok, AllEach

\* The commands of a suspend and of a resume.
LEMMA CmdsEach ==
  ASSUME NEW n \in Nat, NEW wowlan \in WowConfig
  PROVE  /\ AllEach(SuspendCmds(n, wowlan), n, wowlan, TRUE, TRUE)
         /\ AllEach(ResumeCmds(n, wowlan), n, wowlan, FALSE, FALSE)
<1>1. AllEach(SuspendCmds(n, wowlan), n, wowlan, TRUE, TRUE)
  <2> DEFINE bs == [k \in 1 .. n |-> SuspendIterNd(k, wowlan)]
  <2>1. \A k \in 1 .. n : /\ SuspendIterNd(k, wowlan) \in Seq(SleepCmd(n))
                          /\ Only(SuspendIterNd(k, wowlan), k)
                          /\ Uniform(SuspendIterNd(k, wowlan), TRUE)
                          /\ OneEach(SuspendIterNd(k, wowlan), k, wowlan, TRUE)
    BY IterNdEach
  <2>2. /\ bs \in [1 .. n -> Seq(SleepCmd(n))]
        /\ \A k \in 1 .. n : /\ Only(bs[k], k) /\ Uniform(bs[k], TRUE)
                             /\ OneEach(bs[k], k, wowlan, TRUE)
    BY <2>1
  <2>3. SuspendCmds(n, wowlan) = FlattenSeq(bs)
    BY DEF SuspendCmds
  <2> HIDE DEF bs
  <2>4. AllEach(FlattenSeq(bs), n, wowlan, TRUE, TRUE)
    BY <2>2, FlattenEach
  <2> QED BY <2>3, <2>4
<1>2. AllEach(ResumeCmds(n, wowlan), n, wowlan, FALSE, FALSE)
  <2> DEFINE bs == [k \in 1 .. n |-> ResumeIter(k, wowlan)]
  <2>1. \A k \in 1 .. n : /\ SuspendIter(k, FALSE, wowlan) \in Seq(SleepCmd(n))
                          /\ Only(SuspendIter(k, FALSE, wowlan), k)
                          /\ Uniform(SuspendIter(k, FALSE, wowlan), FALSE)
                          /\ OneEach(SuspendIter(k, FALSE, wowlan), k, wowlan, FALSE)
    BY IterEach
  <2>2. /\ bs \in [1 .. n -> Seq(SleepCmd(n))]
        /\ \A k \in 1 .. n : /\ Only(bs[k], k) /\ Uniform(bs[k], FALSE)
                             /\ OneEach(bs[k], k, wowlan, FALSE)
    BY <2>1 DEF ResumeIter
  <2>3. ResumeCmds(n, wowlan) = FlattenSeq(bs)
    BY DEF ResumeCmds
  <2> HIDE DEF bs
  <2>4. AllEach(FlattenSeq(bs), n, wowlan, FALSE, FALSE)
    BY <2>2, FlattenEach
  <2> QED BY <2>3, <2>4
<1> QED BY <1>1, <1>2

\* What came through and what was lost, of a command that is there once.
LEMMA CameOrLost ==
  ASSUME NEW C, NEW cs \in Seq(C), NEW lost, NEW v, NEW f
  PROVE  /\ Came(cs, lost, Len(cs), v, f) <=> \E k \in CmdsAt(cs, v, f) : k \notin lost
         /\ <<v, f>> \in LostOf(cs, lost) <=> \E k \in CmdsAt(cs, v, f) : k \in lost
         /\ Once(cs, v, f) => (Came(cs, lost, Len(cs), v, f) <=> <<v, f>> \notin LostOf(cs, lost))
<1>1. Came(cs, lost, Len(cs), v, f) <=> \E k \in CmdsAt(cs, v, f) : k \notin lost
  BY DEF Came, CmdsAt
<1>2. <<v, f>> \in LostOf(cs, lost) <=> \E k \in CmdsAt(cs, v, f) : k \in lost
  <2>1. DOMAIN cs = 1 .. Len(cs)
    OBVIOUS
  <2>2. <<v, f>> \in LostOf(cs, lost)
          <=> \E k \in lost \cap (1 .. Len(cs)) : <<v, f>> = <<cs[k].vif, cs[k].what>>
    BY <2>1 DEF LostOf
  <2> QED BY <2>2 DEF CmdsAt
<1>3. ASSUME NEW k, CmdsAt(cs, v, f) = {k}
      PROVE  Came(cs, lost, Len(cs), v, f) <=> <<v, f>> \notin LostOf(cs, lost)
  BY <1>1, <1>2, <1>3
<1> QED BY <1>1, <1>2, <1>3 DEF Once

\* A suspend and a resume.
Undone(i, asleep, awake) ==
  LET set == LostOf(SuspendCmds(i.vifs, i.wowlan), i.lost)
      undo == LostOf(ResumeCmds(i.vifs, i.wowlan), i.later)
  IN /\ asleep.sched = (i.wowlan.nd /\ i.vifs > 0) /\ ~awake.sched
     /\ \A v \in 1 .. i.vifs :
          /\ \A f \in {"gtk", "arp", "nd", "mode"} : asleep.fw[v][f] <=> <<v, f>> \notin set
          /\ asleep.fw[v].scan <=> i.wowlan.nd /\ <<v, "scan">> \notin set
          /\ \A f \in {"gtk", "arp", "mode", "scan"} : awake.fw[v][f] => <<v, f>> \in undo
          /\ <<v, "pats">> \notin set => Cardinality(asleep.fw[v].pats) = i.wowlan.patterns
          /\ <<v, "pats">> \notin undo => awake.fw[v].pats = {}
          /\ <<v, "wow">> \notin undo => awake.fw[v].wow = "off"
          /\ awake.fw[v].nd = asleep.fw[v].nd
LEMMA SleepsAndWakes ==
  ASSUME NEW i \in SleepInput,
         NEW asleep, asleep = FellAsleep(i.vifs, i.wowlan, i.lost),
         NEW awake, awake = WokeUp(asleep, i.vifs, i.wowlan, i.later)
  PROVE  Undone(i, asleep, awake)
<1>1. PICK n \in Nat, w \in WowConfig : n = i.vifs /\ w = i.wowlan
  BY DEF SleepInput
<1>2. PICK cs, rs : cs = SuspendCmds(n, w) /\ rs = ResumeCmds(n, w)
  OBVIOUS
<1>3. AllEach(cs, n, w, TRUE, TRUE) /\ AllEach(rs, n, w, FALSE, FALSE)
  BY <1>2, CmdsEach
<1>4. /\ cs \in Seq(SleepCmd(n)) /\ rs \in Seq(SleepCmd(n))
      /\ Uniform(cs, TRUE) /\ Uniform(rs, FALSE)
      /\ \A v \in 1 .. n : OneEach(cs, v, w, TRUE) /\ OneEach(rs, v, w, FALSE)
  BY <1>3 DEF AllEach
<1>5. PICK st : st = [fw |-> [v \in 1 .. n |-> Awake], sched |-> FALSE]
  OBVIOUS
<1>6. st \in SleepState(n)
  BY <1>5 DEF SleepState, Awake, SleepFw
<1>7. asleep = Obey(st, cs, i.lost) /\ awake = Obey(asleep, rs, i.later)
  BY <1>1, <1>2, <1>5 DEF FellAsleep, WokeUp
<1>8. asleep \in SleepState(n)
  <2>1. PICK h : /\ h \in [0 .. Len(cs) -> SleepState(n)]
                 /\ Obey(st, cs, i.lost) = h[Len(cs)]
    BY <1>4, <1>6, ObeyRuns
  <2>2. Len(cs) \in 0 .. Len(cs)
    BY <1>4
  <2> QED BY <1>7, <2>1, <2>2
<1>9. Obeyed1(cs, i.lost, Len(cs), TRUE, asleep, st)
  BY <1>4, <1>6, <1>7, ObeyEffect
<1>10. Obeyed1(rs, i.later, Len(rs), FALSE, awake, asleep)
  BY <1>4, <1>7, <1>8, ObeyEffect
<1>11. DOMAIN st.fw = 1 .. n /\ DOMAIN asleep.fw = 1 .. n /\ st.sched = FALSE
  BY <1>5, <1>8 DEF SleepState
<1>12. ASSUME NEW v \in 1 .. n, NEW f \in SleepFlags
       PROVE  /\ asleep.fw[v][f] = IF Came(cs, i.lost, Len(cs), v, f) THEN TRUE ELSE FALSE
              /\ awake.fw[v][f] = IF Came(rs, i.later, Len(rs), v, f) THEN FALSE
                                  ELSE asleep.fw[v][f]
  <2>1. st.fw[v][f] = FALSE
    BY <1>5 DEF Awake, SleepFlags
  <2>2. asleep.fw[v][f] = IF Came(cs, i.lost, Len(cs), v, f) THEN TRUE ELSE st.fw[v][f]
    BY <1>9, <1>11 DEF Obeyed1
  <2>3. awake.fw[v][f] = IF Came(rs, i.later, Len(rs), v, f) THEN FALSE ELSE asleep.fw[v][f]
    BY <1>10, <1>11 DEF Obeyed1
  <2> QED BY <2>1, <2>2, <2>3
<1>13. ASSUME NEW v \in 1 .. n
       PROVE  /\ asleep.fw[v].pats = CamePats(cs, i.lost, Len(cs), v)
              /\ awake.fw[v].pats = asleep.fw[v].pats \ CamePats(rs, i.later, Len(rs), v)
              /\ Came(rs, i.later, Len(rs), v, "wow") => awake.fw[v].wow = "off"
  <2>1. st.fw[v].pats = {}
    BY <1>5 DEF Awake
  <2>2. asleep.fw[v].pats = st.fw[v].pats \cup CamePats(cs, i.lost, Len(cs), v)
    BY <1>9, <1>11 DEF Obeyed1
  <2>3. awake.fw[v].pats = asleep.fw[v].pats \ CamePats(rs, i.later, Len(rs), v)
    BY <1>10, <1>11 DEF Obeyed1
  <2>4. Came(rs, i.later, Len(rs), v, "wow") => awake.fw[v].wow = "off"
    BY <1>10, <1>11 DEF Obeyed1
  <2> QED BY <2>1, <2>2, <2>3, <2>4
<1>14. ASSUME NEW v \in 1 .. n
       PROVE  /\ PatsAt(cs, v) = 0 .. w.patterns - 1 /\ PatsAt(rs, v) = 0 .. w.patterns - 1
              /\ CamePats(cs, i.lost, Len(cs), v) \subseteq PatsAt(cs, v)
              /\ <<v, "pats">> \notin LostOf(cs, i.lost)
                   => CamePats(cs, i.lost, Len(cs), v) = PatsAt(cs, v)
              /\ <<v, "pats">> \notin LostOf(rs, i.later)
                   => CamePats(rs, i.later, Len(rs), v) = PatsAt(rs, v)
  <2>1. PatsAt(cs, v) = 0 .. w.patterns - 1 /\ PatsAt(rs, v) = 0 .. w.patterns - 1
    BY <1>4 DEF OneEach
  <2>2. ASSUME NEW s \in Seq(SleepCmd(n)), NEW lost
        PROVE  /\ CamePats(s, lost, Len(s), v) \subseteq PatsAt(s, v)
               /\ <<v, "pats">> \notin LostOf(s, lost)
                    => CamePats(s, lost, Len(s), v) = PatsAt(s, v)
    <3>1. CamePats(s, lost, Len(s), v) \subseteq PatsAt(s, v)
      BY DEF CamePats, PatsAt, CmdsAt
    <3>2. ASSUME <<v, "pats">> \notin LostOf(s, lost)
          PROVE  PatsAt(s, v) \subseteq CamePats(s, lost, Len(s), v)
      <4>1. \A k \in CmdsAt(s, v, "pats") : k \notin lost
        BY <3>2, CameOrLost
      <4> QED BY <4>1 DEF CamePats, PatsAt, CmdsAt
    <3> QED BY <3>1, <3>2
  <2> QED BY <1>4, <2>1, <2>2
<1>15. ASSUME NEW v \in 1 .. n, NEW f, Once(cs, v, f)
       PROVE  Came(cs, i.lost, Len(cs), v, f) <=> <<v, f>> \notin LostOf(cs, i.lost)
  BY <1>4, <1>15, CameOrLost
<1>16. ASSUME NEW v \in 1 .. n, NEW f, Once(rs, v, f)
       PROVE  Came(rs, i.later, Len(rs), v, f) <=> <<v, f>> \notin LostOf(rs, i.later)
  BY <1>4, <1>16, CameOrLost
<1>17. ASSUME NEW v \in 1 .. n, NEW s \in Seq(SleepCmd(n)), NEW lost, NEW f, CmdsAt(s, v, f) = {}
       PROVE  ~Came(s, lost, Len(s), v, f)
  BY <1>17, CameOrLost
<1>18. w.patterns \in Nat /\ w.nd \in BOOLEAN
  BY DEF WowConfig
<1>19. ASSUME NEW v \in 1 .. n
       PROVE  /\ \A f \in {"gtk", "arp", "nd", "mode"} :
                   asleep.fw[v][f] <=> <<v, f>> \notin LostOf(cs, i.lost)
              /\ asleep.fw[v].scan <=> w.nd /\ <<v, "scan">> \notin LostOf(cs, i.lost)
              /\ \A f \in {"gtk", "arp", "mode", "scan"} :
                   awake.fw[v][f] => <<v, f>> \in LostOf(rs, i.later)
              /\ awake.fw[v].nd = asleep.fw[v].nd
  <2>1. OneEach(cs, v, w, TRUE) /\ OneEach(rs, v, w, FALSE)
    BY <1>4
  <2>2. ASSUME NEW f \in {"gtk", "arp", "nd", "mode"}
        PROVE  asleep.fw[v][f] <=> <<v, f>> \notin LostOf(cs, i.lost)
    <3>1. f \in SleepFlags /\ Once(cs, v, f)
      BY <2>1 DEF OneEach, SleepFlags
    <3> QED BY <1>12, <1>15, <3>1
  <2>3. asleep.fw[v]["scan"] <=> w.nd /\ <<v, "scan">> \notin LostOf(cs, i.lost)
    <3>1. "scan" \in SleepFlags
      BY DEF SleepFlags
    <3>2. CASE w.nd
      <4>1. Once(cs, v, "scan")
        BY <2>1, <3>2 DEF OneEach
      <4> QED BY <1>12, <1>15, <3>1, <3>2, <4>1
    <3>3. CASE ~w.nd
      <4>1. CmdsAt(cs, v, "scan") = {}
        BY <2>1, <3>3 DEF OneEach
      <4>2. ~Came(cs, i.lost, Len(cs), v, "scan")
        BY <1>4, <1>17, <4>1
      <4> QED BY <1>12, <3>1, <3>3, <4>2
    <3> QED BY <3>2, <3>3
  <2>4. ASSUME NEW f \in {"gtk", "arp", "mode", "scan"}, awake.fw[v][f]
        PROVE  <<v, f>> \in LostOf(rs, i.later)
    <3>1. f \in SleepFlags
      BY DEF SleepFlags
    <3>2. ~Came(rs, i.later, Len(rs), v, f) /\ asleep.fw[v][f]
      BY <1>12, <2>4, <3>1
    <3>3. f = "scan" => w.nd
      BY <2>3, <3>2
    <3>4. Once(rs, v, f)
      BY <2>1, <3>3 DEF OneEach
    <3> QED BY <1>16, <3>2, <3>4
  <2>5. awake.fw[v]["nd"] = asleep.fw[v]["nd"]
    <3>1. "nd" \in SleepFlags /\ CmdsAt(rs, v, "nd") = {}
      BY <2>1 DEF OneEach, SleepFlags
    <3>2. ~Came(rs, i.later, Len(rs), v, "nd")
      BY <1>4, <1>17, <3>1
    <3> QED BY <1>12, <3>1, <3>2
  <2> QED BY <2>2, <2>3, <2>4, <2>5
<1>20. ASSUME NEW v \in 1 .. n
       PROVE  /\ <<v, "pats">> \notin LostOf(cs, i.lost)
                   => Cardinality(asleep.fw[v].pats) = w.patterns
              /\ <<v, "pats">> \notin LostOf(rs, i.later) => awake.fw[v].pats = {}
              /\ <<v, "wow">> \notin LostOf(rs, i.later) => awake.fw[v].wow = "off"
  <2>1. Cardinality(0 .. w.patterns - 1) = w.patterns
    BY <1>18, FS_Interval
  <2>2. Once(rs, v, "wow")
    BY <1>4 DEF OneEach
  <2>3. <<v, "pats">> \notin LostOf(cs, i.lost) => asleep.fw[v].pats = 0 .. w.patterns - 1
    BY <1>13, <1>14
  <2>4. <<v, "pats">> \notin LostOf(rs, i.later) => awake.fw[v].pats = {}
    BY <1>13, <1>14
  <2>5. <<v, "wow">> \notin LostOf(rs, i.later) => awake.fw[v].wow = "off"
    BY <1>13, <1>16, <2>2
  <2> QED BY <2>1, <2>3, <2>4, <2>5
<1>21. asleep.sched = (w.nd /\ n > 0) /\ ~awake.sched
  <2>1. /\ asleep.sched = IF \E j \in 1 .. Len(cs) : cs[j].what = "scan" THEN TRUE ELSE FALSE
        /\ awake.sched = IF \E j \in 1 .. Len(rs) : rs[j].what = "scan" THEN FALSE
                         ELSE asleep.sched
    BY <1>9, <1>10, <1>11 DEF Obeyed1
  <2>2. ASSUME NEW j \in 1 .. Len(cs), cs[j].what = "scan" PROVE w.nd /\ n > 0
    <3>1. cs[j] \in SleepCmd(n)
      BY <1>4
    <3>2. cs[j].vif \in 1 .. n
      BY <3>1, SleepCmds
    <3>3. j \in CmdsAt(cs, cs[j].vif, "scan")
      BY <2>2 DEF CmdsAt
    <3>4. w.nd
      BY <1>4, <1>18, <3>2, <3>3 DEF OneEach
    <3> QED BY <3>2, <3>4
  <2>3. ASSUME w.nd, n > 0
        PROVE  /\ \E j \in 1 .. Len(cs) : cs[j].what = "scan"
               /\ \E j \in 1 .. Len(rs) : rs[j].what = "scan"
    <3>1. 1 \in 1 .. n
      BY <2>3
    <3>2. Once(cs, 1, "scan") /\ Once(rs, 1, "scan")
      BY <1>4, <2>3, <3>1 DEF OneEach
    <3> QED BY <3>2 DEF Once, CmdsAt
  <2> QED BY <2>1, <2>2, <2>3
<1>22. /\ cs = SuspendCmds(i.vifs, i.wowlan) /\ rs = ResumeCmds(i.vifs, i.wowlan)
       /\ n = i.vifs /\ w.nd = i.wowlan.nd /\ w.patterns = i.wowlan.patterns
  BY <1>1, <1>2
<1> QED
  <2> DEFINE set == LostOf(cs, i.lost)
             undo == LostOf(rs, i.later)
  <2>1. ASSUME NEW v \in 1 .. n
        PROVE  /\ \A f \in {"gtk", "arp", "nd", "mode"} : asleep.fw[v][f] <=> <<v, f>> \notin set
               /\ asleep.fw[v].scan <=> w.nd /\ <<v, "scan">> \notin set
               /\ \A f \in {"gtk", "arp", "mode", "scan"} : awake.fw[v][f] => <<v, f>> \in undo
               /\ awake.fw[v].nd = asleep.fw[v].nd
    BY <1>19
  <2>2. /\ asleep.sched = (w.nd /\ n > 0) /\ ~awake.sched
        /\ \A v \in 1 .. n :
             /\ \A f \in {"gtk", "arp", "nd", "mode"} : asleep.fw[v][f] <=> <<v, f>> \notin set
             /\ asleep.fw[v].scan <=> w.nd /\ <<v, "scan">> \notin set
             /\ \A f \in {"gtk", "arp", "mode", "scan"} : awake.fw[v][f] => <<v, f>> \in undo
             /\ <<v, "pats">> \notin set => Cardinality(asleep.fw[v].pats) = w.patterns
             /\ <<v, "pats">> \notin undo => awake.fw[v].pats = {}
             /\ <<v, "wow">> \notin undo => awake.fw[v].wow = "off"
             /\ awake.fw[v].nd = asleep.fw[v].nd
    BY <1>20, <1>21, <2>1
  <2> QED BY <1>22, <2>2, Zenon DEF Undone


(***************************************************************************)
(* Firmware.  Commands reach the device one by one, so that what it has    *)
(* after a list of them follows from what it had before the last.          *)
(***************************************************************************)
Mems == UNION {[S -> Nat] : S \in SUBSET Nat}
DeviceState == [mem : Mems, at : Nat, left : Nat, over : BOOLEAN, short : BOOLEAN, started : BOOLEAN]
Announce == [cmd : {"patch_start", "target_address"}, addr : Nat, len : Nat]
Scatter == [cmd : {"scatter"}, from : Nat, len : Nat]
Begin == [cmd : {"start"}, addr : Nat, option : BOOLEAN] \cup [cmd : {"finish"}]
FwCmd == Announce \cup Scatter \cup Begin

\* A command leaves the device in a state it may be in.
LEMMA DeviceSteps ==
  ASSUME NEW dev \in DeviceState, NEW m \in FwCmd
  PROVE  /\ DeviceStep(dev, m) \in DeviceState
         /\ m \in Announce => DeviceStep(dev, m) = [dev EXCEPT !.at = m.addr, !.left = m.len]
         /\ m \in Scatter =>
              DeviceStep(dev, m) = [dev EXCEPT !.mem = Put(dev.mem, dev.at, m.from, m.len),
                                       !.at = dev.at + m.len,
                                       !.left = IF dev.left >= m.len THEN dev.left - m.len ELSE 0,
                                       !.over = dev.over \/ m.len > dev.left \/ m.len > MaxLen]
         /\ m \in Begin => DeviceStep(dev, m) = [dev EXCEPT !.started = TRUE,
                                                    !.short = dev.short \/ dev.left > 0]
<1>1. CASE m \in Announce
  <2>1. m.cmd \in {"patch_start", "target_address"} /\ m.addr \in Nat /\ m.len \in Nat
        /\ m \notin Scatter /\ m \notin Begin
    BY <1>1 DEF Announce, Scatter, Begin
  <2>2. DeviceStep(dev, m) = [dev EXCEPT !.at = m.addr, !.left = m.len]
    BY <2>1 DEF DeviceStep
  <2>3. [dev EXCEPT !.at = m.addr, !.left = m.len] \in DeviceState
    BY <2>1 DEF DeviceState
  <2> QED BY <2>1, <2>2, <2>3
<1>2. CASE m \in Scatter
  <2>1. m.cmd = "scatter" /\ m.from \in Nat /\ m.len \in Nat /\ m \notin Announce /\ m \notin Begin
    BY <1>2 DEF Announce, Scatter, Begin
  <2> DEFINE left == IF dev.left >= m.len THEN dev.left - m.len ELSE 0
             over == dev.over \/ m.len > dev.left \/ m.len > MaxLen
             mem == Put(dev.mem, dev.at, m.from, m.len)
             on == [dev EXCEPT !.mem = mem, !.at = dev.at + m.len, !.left = left, !.over = over]
  <2>2. DeviceStep(dev, m) = on
    BY <2>1 DEF DeviceStep, DeviceState
  <2>3. mem \in Mems
    <3>1. PICK S \in SUBSET Nat : dev.mem \in [S -> Nat]
      BY DEF DeviceState, Mems
    <3> DEFINE to == dev.at .. dev.at + m.len - 1
               T == S \cup to
    <3>2. dev.at \in Nat /\ T \in SUBSET Nat
      <4>1. dev.at \in Nat
        BY DEF DeviceState
      <4>2. to \subseteq Nat
        BY <2>1, <4>1
      <4> QED BY <4>1, <4>2
    <3>3. mem = [a \in T |-> IF a \in to THEN m.from + (a - dev.at) ELSE dev.mem[a]]
      BY <3>1 DEF Put
    <3>4. ASSUME NEW a \in T PROVE (IF a \in to THEN m.from + (a - dev.at) ELSE dev.mem[a]) \in Nat
      BY <2>1, <3>1, <3>2
    <3>5. mem \in [T -> Nat]
      BY <3>3, <3>4
    <3> QED BY <3>2, <3>5 DEF Mems
  <2>4. left \in Nat /\ over \in BOOLEAN /\ dev.at + m.len \in Nat
    BY <2>1 DEF DeviceState
  <2> HIDE DEF left, over, mem
  <2>5. on \in DeviceState
    BY <2>3, <2>4 DEF DeviceState
  <2> QED BY <2>1, <2>2, <2>5 DEF mem, left, over
<1>3. CASE m \in Begin
  <2>1. m.cmd \in {"start", "finish"} /\ m \notin Announce /\ m \notin Scatter
    BY <1>3 DEF Announce, Scatter, Begin
  <2>2. DeviceStep(dev, m) = [dev EXCEPT !.started = TRUE, !.short = dev.short \/ dev.left > 0]
    BY <2>1 DEF DeviceStep
  <2>3. [dev EXCEPT !.started = TRUE, !.short = dev.short \/ dev.left > 0] \in DeviceState
    BY DEF DeviceState
  <2> QED BY <2>1, <2>2, <2>3
<1> QED BY <1>1, <1>2, <1>3 DEF FwCmd

\* A list of commands is a run of the device.
DeviceRun(h, ms) ==
  /\ h \in [0 .. Len(ms) -> DeviceState] /\ h[0] = NewDevice
  /\ \A k \in 1 .. Len(ms) : h[k] = DeviceStep(h[k - 1], ms[k])
LEMMA DeviceRuns ==
  ASSUME NEW ms \in Seq(FwCmd)
  PROVE  \E h : DeviceRun(h, ms) /\ Device(ms) = h[Len(ms)]
<1> DEFINE n == Len(ms)
           step == [p \in (1 .. n) \X DeviceState |-> DeviceStep(p[2], ms[p[1]])]
           Body(f) == [U \in SUBSET (1 .. n) |->
                         IF U = {} THEN NewDevice ELSE DeviceStep(f[U \ {Max(U)}], ms[Max(U)])]
           it == CHOOSE f : f = Body(f)
           h == [k \in 0 .. n |-> it[1 .. k]]
<1>1. n \in Nat /\ DOMAIN ms = 1 .. n /\ \A k \in 1 .. n : ms[k] \in FwCmd
  OBVIOUS
<1>2. NewDevice \in DeviceState /\ step \in [(1 .. n) \X DeviceState -> DeviceState]
  <2>1. [a \in {} |-> 0] \in [{} -> Nat] /\ {} \in SUBSET Nat
    OBVIOUS
  <2>2. NewDevice \in DeviceState
    BY <2>1 DEF NewDevice, DeviceState, Mems
  <2>3. \A p \in (1 .. n) \X DeviceState : DeviceStep(p[2], ms[p[1]]) \in DeviceState
    BY <1>1, DeviceSteps
  <2> QED BY <2>2, <2>3
<1>3. PICK f : IsFold(f, n, DeviceState, NewDevice, step)
  <2> HIDE DEF step, n
  <2> QED BY <1>1, <1>2, FoldExists
<1>4. \A U \in SUBSET (1 .. n) : U # {} => Max(U) \in 1 .. n /\ U \ {Max(U)} \in SUBSET (1 .. n)
  BY <1>1, MaxIndex
<1>5. f \in [SUBSET (1 .. n) -> DeviceState] /\ f = Body(f)
  BY <1>3, <1>4 DEF IsFold
<1>6. it = Body(it)
  BY <1>5
<1>7. Device(ms) = it[1 .. n]
  BY <1>1 DEF Device, FoldLeft, MapThenFoldSet
<1> HIDE DEF it, n
<1>8. h[0] = NewDevice
  BY <1>1, <1>6, Prefix
<1>9. ASSUME NEW k \in 1 .. n PROVE h[k] = DeviceStep(h[k - 1], ms[k])
  <2>1. k \in 0 .. n /\ k - 1 \in 0 .. n
    BY <1>1
  <2>2. it[1 .. k] = DeviceStep(it[1 .. (k - 1)], ms[k])
    <3>1. /\ 1 .. k \in SUBSET (1 .. n) /\ 1 .. k # {}
          /\ Max(1 .. k) = k /\ (1 .. k) \ {k} = 1 .. (k - 1)
      BY <1>1, Prefix
    <3>2. \A U \in SUBSET (1 .. n) :
            U # {} => it[U] = DeviceStep(it[U \ {Max(U)}], ms[Max(U)])
      BY <1>6
    <3>3. it[1 .. k] = DeviceStep(it[(1 .. k) \ {Max(1 .. k)}], ms[Max(1 .. k)])
      BY <3>1, <3>2
    <3> QED BY <3>1, <3>3
  <2>3. h[k] = it[1 .. k] /\ h[k - 1] = it[1 .. (k - 1)]
    BY <2>1
  <2> HIDE DEF h
  <2> QED BY <2>2, <2>3
<1>10. h[n] = it[1 .. n] /\ h = [k \in 0 .. n |-> h[k]]
  BY <1>1
<1> HIDE DEF h
<1>11. \A k \in 0 .. n : h[k] \in DeviceState
  <2> DEFINE W == [k \in 0 .. n |-> DeviceState]
  <2>1. h[0] \in W[0]
    BY <1>1, <1>2, <1>8
  <2>2. ASSUME NEW k \in 1 .. n, h[k - 1] \in W[k - 1] PROVE h[k] \in W[k]
    <3>1. k - 1 \in 0 .. n /\ k \in 0 .. n
      BY <1>1
    <3>2. h[k - 1] \in DeviceState /\ ms[k] \in FwCmd
      BY <1>1, <2>2, <3>1
    <3>3. DeviceStep(h[k - 1], ms[k]) \in DeviceState
      BY <3>2, DeviceSteps
    <3> QED BY <1>9, <3>1, <3>3
  <2>3. \A k \in 0 .. n : h[k] \in W[k]
    <3> HIDE DEF W
    <3> QED BY <1>1, <2>1, <2>2, Run
  <2> QED BY <2>3
<1>12. h \in [0 .. n -> DeviceState]
  BY <1>10, <1>11
<1> QED BY <1>7, <1>8, <1>9, <1>10, <1>12 DEF DeviceRun, n

\* What the device has after one more command.
LEMMA OneMore ==
  /\ Device(<<>>) = NewDevice
  /\ \A ms \in Seq(FwCmd) : /\ Device(ms) \in DeviceState
                            /\ \A m \in FwCmd : Device(Append(ms, m)) = DeviceStep(Device(ms), m)
<1>1. Device(<<>>) = NewDevice
  <2>1. <<>> \in Seq(FwCmd) /\ Len(<<>>) = 0
    OBVIOUS
  <2> QED BY <2>1, DeviceRuns DEF DeviceRun
<1>2. ASSUME NEW ms \in Seq(FwCmd)
      PROVE  /\ Device(ms) \in DeviceState
             /\ \A m \in FwCmd : Device(Append(ms, m)) = DeviceStep(Device(ms), m)
  <2> DEFINE n == Len(ms)
  <2>1. n \in Nat /\ n \in 0 .. n
    OBVIOUS
  <2>2. PICK h : DeviceRun(h, ms) /\ Device(ms) = h[n]
    BY DeviceRuns
  <2>3. ASSUME NEW m \in FwCmd PROVE Device(Append(ms, m)) = DeviceStep(Device(ms), m)
    <3> DEFINE ns == Append(ms, m)
    <3>1. ns \in Seq(FwCmd) /\ Len(ns) = n + 1 /\ ns[n + 1] = m /\ \A k \in 1 .. n : ns[k] = ms[k]
      OBVIOUS
    <3> HIDE DEF ns, n
    <3>2. PICK g : DeviceRun(g, ns) /\ Device(ns) = g[n + 1]
      BY <3>1, DeviceRuns
    <3> DEFINE W == [k \in 0 .. n |-> {h[k]}]
    <3>3. \A k \in 0 .. n : g[k] \in W[k]
      <4>1. g[0] \in W[0]
        BY <2>1, <2>2, <3>2 DEF DeviceRun
      <4>2. ASSUME NEW k \in 1 .. n, g[k - 1] \in W[k - 1] PROVE g[k] \in W[k]
        <5>1. k - 1 \in 0 .. n /\ k \in 0 .. n /\ k \in 1 .. n + 1
          BY <2>1
        <5>2. g[k - 1] = h[k - 1]
          BY <4>2, <5>1
        <5>3. h[k] = DeviceStep(h[k - 1], ms[k])
          BY <2>2 DEF DeviceRun, n
        <5>4. g[k] = DeviceStep(g[k - 1], ns[k])
          BY <3>1, <3>2, <5>1 DEF DeviceRun
        <5> QED BY <3>1, <5>1, <5>2, <5>3, <5>4
      <4> HIDE DEF W
      <4> QED BY <2>1, <4>1, <4>2, Run
    <3>4. g[n] = h[n]
      BY <2>1, <3>3
    <3>5. g[n + 1] = DeviceStep(g[n], m)
      <4>1. n + 1 \in 1 .. Len(ns) /\ n + 1 - 1 = n
        BY <2>1, <3>1
      <4> QED BY <3>1, <3>2, <4>1 DEF DeviceRun
    <3> QED BY <2>2, <3>2, <3>4, <3>5 DEF ns
  <2> QED BY <2>1, <2>2, <2>3 DEF DeviceRun
<1> QED BY <1>1, <1>2

\* The pieces of a part cover it, and each but the last begins where there is more.
LEMMA Ceiling ==
  ASSUME NEW len \in Nat
  PROVE  LET c == Ceil(len, MaxLen)
         IN /\ c \in Nat /\ c * MaxLen \in Nat /\ len <= c * MaxLen
            /\ \A k \in 1 .. c : /\ (k - 1) * MaxLen \in Nat /\ (k - 1) * MaxLen < len
                                 /\ k * MaxLen = (k - 1) * MaxLen + MaxLen
<1> DEFINE c == Ceil(len, MaxLen)
<1>1. MaxLen \in Nat /\ MaxLen > 0
  BY MaxLenAssumption
<1>2. c \in Int /\ MaxLen * c <= len + MaxLen - 1 /\ len + MaxLen - 1 < MaxLen * c + MaxLen
  <2> DEFINE a == len + MaxLen - 1
  <2>1. a \in Nat
    BY <1>1
  <2>2. a \div MaxLen \in Int /\ MaxLen * (a \div MaxLen) <= a /\ a < MaxLen * (a \div MaxLen) + MaxLen
    <3> HIDE DEF a
    <3> QED BY <1>1, <2>1
  <2> QED BY <2>2 DEF Ceil
<1> HIDE DEF c
<1>3. c \in Nat
  <2>1. ASSUME c < 0 PROVE FALSE
    <3>1. c + 1 <= 0
      BY <1>2, <2>1
    <3>2. MaxLen * (c + 1) <= 0
      BY <1>1, <1>2, <3>1
    <3>3. MaxLen * (c + 1) = MaxLen * c + MaxLen
      BY <1>1, <1>2
    <3> QED BY <1>1, <1>2, <3>2, <3>3
  <2> QED BY <1>2, <2>1
<1>4. c * MaxLen = MaxLen * c /\ c * MaxLen \in Nat
  BY <1>1, <1>3
<1>5. ASSUME NEW k \in 1 .. c
      PROVE  /\ (k - 1) * MaxLen \in Nat /\ (k - 1) * MaxLen < len
             /\ k * MaxLen = (k - 1) * MaxLen + MaxLen
  <2>1. k - 1 \in Nat /\ k \in Nat /\ k <= c
    BY <1>3
  <2>2. (k - 1) * MaxLen \in Nat /\ k * MaxLen = (k - 1) * MaxLen + MaxLen
    BY <1>1, <2>1
  <2>3. k * MaxLen <= c * MaxLen
    BY <1>1, <1>3, <2>1
  <2> QED BY <1>1, <1>2, <1>4, <2>2, <2>3
<1> QED BY <1>1, <1>2, <1>3, <1>4, <1>5 DEF c

\* What is sent are commands.
LEMMA ScatterCmds ==
  ASSUME NEW from \in Nat, NEW len \in Nat PROVE SendFirmware(from, len) \in Seq(FwCmd)
<1> DEFINE c == Ceil(len, MaxLen)
           Chunk(k) == [cmd |-> "scatter", from |-> from + (k - 1) * MaxLen,
                        len |-> Shorter(MaxLen, len - (k - 1) * MaxLen)]
           sf == SendFirmware(from, len)
<1>1. c \in Nat /\ \A k \in 1 .. c : (k - 1) * MaxLen \in Nat /\ (k - 1) * MaxLen < len
  BY Ceiling
<1>2. sf = [k \in 1 .. c |-> Chunk(k)]
  BY DEF SendFirmware
<1> HIDE DEF c
<1>3. ASSUME NEW k \in 1 .. c PROVE Chunk(k) \in FwCmd
  <2> DEFINE o == (k - 1) * MaxLen
  <2>1. o \in Nat /\ o < len
    BY <1>1
  <2> HIDE DEF o
  <2>2. from + o \in Nat /\ Shorter(MaxLen, len - o) \in Nat
    BY <2>1, MaxLenAssumption DEF Shorter
  <2>3. [cmd |-> "scatter", from |-> from + o, len |-> Shorter(MaxLen, len - o)] \in FwCmd
    BY <2>2 DEF FwCmd, Scatter
  <2> QED BY <2>3 DEF o
<1> HIDE DEF Chunk, sf
<1>4. sf \in Seq(FwCmd)
  BY <1>1, <1>2, <1>3
<1> QED BY <1>4 DEF sf
LEMMA DownloadCmds ==
  ASSUME NEW r, r.addr \in Nat, r.len \in Nat, NEW from \in Nat
  PROVE  Download(r, from) \in Seq(FwCmd)
<1> DEFINE m == InitDownload(r)
           sf == SendFirmware(from, r.len)
<1>1. m \in FwCmd
  BY DEF InitDownload, Announce, FwCmd
<1>2. sf \in Seq(FwCmd)
  BY ScatterCmds
<1> HIDE DEF m, sf
<1>3. <<m>> \o sf \in Seq(FwCmd)
  BY <1>1, <1>2
<1> QED BY <1>3 DEF Download, m, sf

\* A piece behind another one makes a longer piece.
LEMMA Puts ==
  ASSUME NEW mem \in Mems, NEW at \in Nat, NEW from \in Nat, NEW n \in Nat, NEW l \in Nat
  PROVE  /\ Put(mem, at, from, 0) = mem
         /\ Put(Put(mem, at, from, n), at + n, from + n, l) = Put(mem, at, from, n + l)
<1>0. PICK S \in SUBSET Nat : mem \in [S -> Nat]
  BY DEF Mems
<1>1. Put(mem, at, from, 0) = mem
  <2>1. at .. at + 0 - 1 = {}
    OBVIOUS
  <2> QED BY <1>0, <2>1 DEF Put
<1>2. Put(Put(mem, at, from, n), at + n, from + n, l) = Put(mem, at, from, n + l)
  <2> DEFINE A == at .. at + n - 1
             B == at + n .. at + n + l - 1
             C == at .. at + (n + l) - 1
             one == [a \in S \cup A |-> IF a \in A THEN from + (a - at) ELSE mem[a]]
             two == [a \in (S \cup A) \cup B |-> IF a \in B THEN from + n + (a - (at + n)) ELSE one[a]]
             all == [a \in S \cup C |-> IF a \in C THEN from + (a - at) ELSE mem[a]]
  <2>1. C = A \cup B
    OBVIOUS
  <2>2. Put(mem, at, from, n) = one
    BY <1>0 DEF Put
  <2>3. Put(one, at + n, from + n, l) = two
    BY DEF Put
  <2>4. Put(mem, at, from, n + l) = all
    BY <1>0 DEF Put
  <2>5. two = all
    <3>1. (S \cup A) \cup B = S \cup C
      BY <2>1
    <3>2. ASSUME NEW a \in S \cup C
          PROVE  (IF a \in B THEN from + n + (a - (at + n)) ELSE one[a])
                   = (IF a \in C THEN from + (a - at) ELSE mem[a])
      <4>1. CASE a \in B
        <5>1. a \in Int /\ a \in C
          BY <2>1, <4>1
        <5>2. from + n + (a - (at + n)) = from + (a - at)
          BY <5>1
        <5> QED BY <4>1, <5>1, <5>2
      <4>2. CASE a \notin B
        <5>1. a \in S \cup A /\ (a \in A <=> a \in C)
          BY <2>1, <4>2
        <5>2. one[a] = IF a \in A THEN from + (a - at) ELSE mem[a]
          BY <5>1
        <5> HIDE DEF one, A, B, C
        <5> QED BY <4>2, <5>1, <5>2
      <4> QED BY <4>1, <4>2
    <3> HIDE DEF A, B, C, one
    <3> QED BY <3>1, <3>2
  <2> QED BY <2>2, <2>3, <2>4, <2>5
<1> QED BY <1>1, <1>2

\* Nothing has started the device, and it has not got more than was announced.
Quiet(ms) ==
  /\ ms \in Seq(FwCmd) /\ \A k \in 1 .. Len(ms) : ms[k].cmd \notin Starts
  /\ \A k \in 0 .. Len(ms) : /\ ~Device(SubSeq(ms, 1, k)).over
                             /\ ~Device(SubSeq(ms, 1, k)).started

\* A prefix of a longer list is the list or a prefix of it.
LEMMA Beginnings ==
  ASSUME NEW ms \in Seq(FwCmd), NEW m \in FwCmd
  PROVE  /\ Append(ms, m) \in Seq(FwCmd) /\ Len(Append(ms, m)) = Len(ms) + 1
         /\ SubSeq(Append(ms, m), 1, Len(ms) + 1) = Append(ms, m)
         /\ \A k \in 0 .. Len(ms) : SubSeq(Append(ms, m), 1, k) = SubSeq(ms, 1, k)
         /\ \A k \in 1 .. Len(ms) : Append(ms, m)[k] = ms[k]
         /\ Append(ms, m)[Len(ms) + 1] = m
         /\ SubSeq(ms, 1, Len(ms)) = ms
<1> DEFINE n == Len(ms)
           ns == Append(ms, m)
<1>1. /\ n \in Nat /\ ns \in Seq(FwCmd) /\ Len(ns) = n + 1 /\ ns[n + 1] = m
      /\ \A k \in 1 .. n : ns[k] = ms[k]
  OBVIOUS
<1>2. SubSeq(ms, 1, n) = ms
  OBVIOUS
<1> HIDE DEF ns
<1>3. SubSeq(ns, 1, n + 1) = ns
  BY <1>1
<1>4. ASSUME NEW k \in 0 .. n PROVE SubSeq(ns, 1, k) = SubSeq(ms, 1, k)
  <2>1. k \in Nat /\ k <= n
    BY <1>1
  <2>2. SubSeq(ns, 1, k) = [i \in 1 .. k |-> ns[i]]
    BY <1>1, <2>1
  <2>3. SubSeq(ms, 1, k) = [i \in 1 .. k |-> ms[i]]
    BY <2>1
  <2>4. \A i \in 1 .. k : ns[i] = ms[i]
    BY <1>1, <2>1
  <2> QED BY <2>2, <2>3, <2>4
<1> QED BY <1>1, <1>2, <1>3, <1>4 DEF ns

LEMMA StaysQuiet ==
  ASSUME NEW ms, Quiet(ms), NEW m \in FwCmd, m.cmd \notin Starts,
         ~DeviceStep(Device(ms), m).over, ~DeviceStep(Device(ms), m).started
  PROVE  Quiet(Append(ms, m))
<1> DEFINE n == Len(ms)
           ns == Append(ms, m)
<1>1. ms \in Seq(FwCmd) /\ n \in Nat
  BY DEF Quiet
<1>2. /\ ns \in Seq(FwCmd) /\ Len(ns) = n + 1 /\ SubSeq(ns, 1, n + 1) = ns
      /\ \A k \in 0 .. n : SubSeq(ns, 1, k) = SubSeq(ms, 1, k)
      /\ \A k \in 1 .. n : ns[k] = ms[k]
      /\ ns[n + 1] = m
  BY <1>1, Beginnings
<1>3. Device(ns) = DeviceStep(Device(ms), m)
  BY <1>1, OneMore
<1> HIDE DEF ns
<1>4. ASSUME NEW k \in 1 .. n + 1 PROVE ns[k].cmd \notin Starts
  <2>1. k \in 1 .. n \/ k = n + 1
    BY <1>1
  <2> QED BY <1>2, <2>1 DEF Quiet
<1>5. ASSUME NEW k \in 0 .. n + 1
      PROVE  ~Device(SubSeq(ns, 1, k)).over /\ ~Device(SubSeq(ns, 1, k)).started
  <2>1. k \in 0 .. n \/ k = n + 1
    BY <1>1
  <2> QED BY <1>2, <1>3, <2>1 DEF Quiet
<1> QED BY <1>2, <1>4, <1>5 DEF Quiet, ns

\* A list that is quiet leaves the device quiet.
LEMMA QuietDevice ==
  ASSUME NEW ms, Quiet(ms)
  PROVE  /\ Device(ms) \in DeviceState /\ ~Device(ms).over /\ ~Device(ms).started
         /\ ms \in Seq(FwCmd)
<1>1. ms \in Seq(FwCmd) /\ Len(ms) \in 0 .. Len(ms) /\ SubSeq(ms, 1, Len(ms)) = ms
  BY DEF Quiet
<1> QED BY <1>1, OneMore DEF Quiet

\* Announcing a part.
LEMMA Announces ==
  ASSUME NEW ms, Quiet(ms), NEW r, r.addr \in Nat, r.len \in Nat
  PROVE  /\ Quiet(Append(ms, InitDownload(r)))
         /\ Device(Append(ms, InitDownload(r)))
              = [Device(ms) EXCEPT !.at = r.addr, !.left = r.len]
<1> DEFINE m == InitDownload(r)
           d == Device(ms)
<1>1. m \in Announce /\ m \in FwCmd /\ m.cmd \notin Starts /\ m.addr = r.addr /\ m.len = r.len
  BY DEF InitDownload, Announce, FwCmd, Starts
<1>2. d \in DeviceState /\ ~d.over /\ ~d.started /\ ms \in Seq(FwCmd)
  BY QuietDevice
<1> HIDE DEF m, d
<1>3. DeviceStep(d, m) = [d EXCEPT !.at = r.addr, !.left = r.len]
  <2>1. DeviceStep(d, m) = [d EXCEPT !.at = m.addr, !.left = m.len]
    BY <1>1, <1>2, DeviceSteps
  <2> QED BY <1>1, <2>1
<1>4. ~DeviceStep(d, m).over /\ ~DeviceStep(d, m).started
  BY <1>2, <1>3 DEF DeviceState
<1> QED BY <1>1, <1>2, <1>3, <1>4, StaysQuiet, OneMore DEF m, d

\* Sending a piece of what was announced.
LEMMA Scatters ==
  ASSUME NEW ms, Quiet(ms), NEW from \in Nat, NEW len \in Nat,
         len <= Device(ms).left, len <= MaxLen
  PROVE  LET m == [cmd |-> "scatter", from |-> from, len |-> len]
             d == Device(ms)
         IN /\ Quiet(Append(ms, m))
            /\ Device(Append(ms, m)) = [d EXCEPT !.mem = Put(d.mem, d.at, from, len),
                                                 !.at = d.at + len, !.left = d.left - len]
<1> DEFINE m == [cmd |-> "scatter", from |-> from, len |-> len]
           d == Device(ms)
           on == [d EXCEPT !.mem = Put(d.mem, d.at, from, len), !.at = d.at + len, !.left = d.left - len]
<1>1. m \in Scatter /\ m \in FwCmd /\ m.cmd \notin Starts /\ m.from = from /\ m.len = len
  BY DEF Scatter, FwCmd, Starts
<1>2. d \in DeviceState /\ ~d.over /\ ~d.started /\ ms \in Seq(FwCmd) /\ len <= d.left
  BY QuietDevice
<1>3. MaxLen \in Nat
  BY MaxLenAssumption
<1> HIDE DEF m, d
<1>4. DeviceStep(d, m) = on
  <2> DEFINE left == IF d.left >= m.len THEN d.left - m.len ELSE 0
             over == d.over \/ m.len > d.left \/ m.len > MaxLen
             mem == Put(d.mem, d.at, m.from, m.len)
  <2>1. DeviceStep(d, m) = [d EXCEPT !.mem = mem, !.at = d.at + m.len, !.left = left, !.over = over]
    BY <1>1, <1>2, DeviceSteps
  <2>2. left = d.left - len /\ over = FALSE /\ d.over = FALSE
    BY <1>1, <1>2, <1>3 DEF DeviceState
  <2>3. mem = Put(d.mem, d.at, from, len) /\ d.at + m.len = d.at + len
    BY <1>1
  <2> HIDE DEF left, over, mem
  <2> QED BY <1>2, <2>1, <2>2, <2>3 DEF DeviceState
<1>5. ~on.over /\ ~on.started
  BY <1>2 DEF DeviceState
<1> HIDE DEF on
<1> QED BY <1>1, <1>2, <1>4, <1>5, StaysQuiet, OneMore DEF m, d, on

\* s and the first p elements of t.
Grown(s, t, p) == [i \in 1 .. Len(s) + p |-> IF i <= Len(s) THEN s[i] ELSE t[i - Len(s)]]
LEMMA Growing ==
  ASSUME NEW V, NEW s \in Seq(V), NEW t \in Seq(V)
  PROVE  /\ Grown(s, t, 0) = s /\ Grown(s, t, Len(t)) = s \o t
         /\ \A p \in 1 .. Len(t) : Grown(s, t, p) = Append(Grown(s, t, p - 1), t[p])
<1> DEFINE n == Len(s)
<1>1. n \in Nat /\ Len(t) \in Nat
  OBVIOUS
<1>2. Grown(s, t, 0) = s
  <2>1. s = [i \in 1 .. n |-> s[i]] /\ n + 0 = n
    OBVIOUS
  <2>2. \A i \in 1 .. n : i <= n
    BY <1>1
  <2> QED BY <2>1, <2>2 DEF Grown
<1>3. Grown(s, t, Len(t)) = s \o t
  <2> DEFINE u == s \o t
  <2>1. u \in Seq(V) /\ Len(u) = n + Len(t) /\ \A i \in 1 .. n + Len(t) : u[i] = IF i <= n THEN s[i] ELSE t[i - n]
    OBVIOUS
  <2> HIDE DEF u
  <2>2. u = [i \in 1 .. n + Len(t) |-> u[i]]
    BY <2>1
  <2>3. u = [i \in 1 .. n + Len(t) |-> IF i <= n THEN s[i] ELSE t[i - n]]
    BY <2>1, <2>2
  <2> QED BY <2>3 DEF Grown, u
<1>4. ASSUME NEW p \in 1 .. Len(t) PROVE Grown(s, t, p) = Append(Grown(s, t, p - 1), t[p])
  <2> DEFINE g == Grown(s, t, p - 1)
  <2>1. p - 1 \in Nat /\ t[p] \in V /\ n + (p - 1) \in Nat
    BY <1>1
  <2>2. \A i \in 1 .. n + (p - 1) : (IF i <= n THEN s[i] ELSE t[i - n]) \in V
    <3> TAKE i \in 1 .. n + (p - 1)
    <3>1. i <= n => s[i] \in V
      BY <1>1
    <3>2. ~(i <= n) => i - n \in 1 .. Len(t)
      BY <1>1
    <3> QED BY <3>1, <3>2
  <2>3. g \in Seq(V) /\ Len(g) = n + (p - 1)
    <3> DEFINE q == n + (p - 1)
               E(i) == IF i <= n THEN s[i] ELSE t[i - n]
    <3>1. g = [i \in 1 .. q |-> E(i)]
      BY DEF Grown
    <3>2. q \in Nat /\ \A i \in 1 .. q : E(i) \in V
      BY <2>1, <2>2
    <3> HIDE DEF q, E, g
    <3>3. g \in Seq(V) /\ Len(g) = q
      BY <3>1, <3>2
    <3> QED BY <3>3 DEF q
  <2>4. \A i \in 1 .. n + (p - 1) : g[i] = IF i <= n THEN s[i] ELSE t[i - n]
    BY DEF Grown
  <2> HIDE DEF g
  <2>5. Append(g, t[p]) = [i \in 1 .. n + p |-> IF i <= n + (p - 1) THEN g[i] ELSE t[p]]
    <3>1. n + (p - 1) + 1 = n + p
      BY <1>1, <2>1
    <3> QED BY <2>1, <2>3, <3>1
  <2>6. ASSUME NEW i \in 1 .. n + p
        PROVE  (IF i <= n + (p - 1) THEN g[i] ELSE t[p]) = (IF i <= n THEN s[i] ELSE t[i - n])
    <3>1. CASE i <= n + (p - 1)
      BY <1>1, <2>1, <2>4, <3>1
    <3>2. CASE ~(i <= n + (p - 1))
      <4>1. i = n + p /\ i - n = p /\ ~(i <= n)
        BY <1>1, <2>1, <3>2
      <4> QED BY <3>2, <4>1
    <3> QED BY <3>1, <3>2
  <2>7. Grown(s, t, p) = [i \in 1 .. n + p |-> IF i <= n THEN s[i] ELSE t[i - n]]
    BY DEF Grown
  <2> QED BY <2>5, <2>6, <2>7 DEF g
<1> QED BY <1>2, <1>3, <1>4

\* The pieces of a part are put one behind the other.
LEMMA Sends ==
  ASSUME NEW ms, Quiet(ms), NEW from \in Nat
  PROVE  LET d == Device(ms)
             ns == ms \o SendFirmware(from, d.left)
         IN /\ Quiet(ns)
            /\ Device(ns) = [d EXCEPT !.mem = Put(d.mem, d.at, from, d.left),
                                      !.at = d.at + d.left, !.left = 0]
<1> DEFINE d == Device(ms)
           at == d.at
           len == d.left
           c == Ceil(len, MaxLen)
           t == SendFirmware(from, len)
           Ends(p) == Shorter(len, p * MaxLen)
           Now(q) == [d EXCEPT !.mem = Put(d.mem, at, from, q), !.at = at + q, !.left = len - q]
           G == {p \in Nat : p <= c => Quiet(Grown(ms, t, p)) /\ Device(Grown(ms, t, p)) = Now(Ends(p))}
<1>1. d \in DeviceState /\ ~d.over /\ ~d.started /\ ms \in Seq(FwCmd)
  BY QuietDevice
<1>2. at \in Nat /\ len \in Nat /\ d.mem \in Mems
  BY <1>1 DEF DeviceState
<1>3. MaxLen \in Nat /\ MaxLen > 0
  BY MaxLenAssumption
<1> HIDE DEF d
<1>4. /\ c \in Nat /\ c * MaxLen \in Nat /\ len <= c * MaxLen
      /\ \A k \in 1 .. c : /\ (k - 1) * MaxLen \in Nat /\ (k - 1) * MaxLen < len
                           /\ k * MaxLen = (k - 1) * MaxLen + MaxLen
  BY <1>2, Ceiling
<1> DEFINE Chunk(k) == [cmd |-> "scatter", from |-> from + (k - 1) * MaxLen,
                        len |-> Shorter(MaxLen, len - (k - 1) * MaxLen)]
<1> HIDE DEF c, at, len
<1>5. t = [k \in 1 .. c |-> Chunk(k)]
  BY DEF SendFirmware, c
<1>6. ASSUME NEW k \in 1 .. c
      PROVE  LET o == (k - 1) * MaxLen
                 l == Shorter(MaxLen, len - o)
             IN /\ o \in Nat /\ l \in Nat /\ Chunk(k) \in FwCmd /\ l <= MaxLen /\ l <= len - o
                /\ Chunk(k) = [cmd |-> "scatter", from |-> from + o, len |-> l]
                /\ Ends(k - 1) = o /\ Ends(k) = o + l
  <2> DEFINE o == (k - 1) * MaxLen
             l == Shorter(MaxLen, len - o)
  <2>1. o \in Nat /\ o < len /\ k * MaxLen = o + MaxLen
    BY <1>4
  <2>2. Ends(k) = Shorter(len, o + MaxLen) /\ Ends(k - 1) = Shorter(len, o)
    BY <2>1
  <2>3. Chunk(k) = [cmd |-> "scatter", from |-> from + o, len |-> l]
    OBVIOUS
  <2> HIDE DEF o
  <2>4. /\ l \in Nat /\ l <= MaxLen /\ l <= len - o
        /\ Shorter(len, o) = o /\ Shorter(len, o + MaxLen) = o + l
    BY <1>2, <1>3, <2>1 DEF Shorter
  <2>5. from + o \in Nat
    BY <2>1
  <2>6. Chunk(k) \in FwCmd
    <3> HIDE DEF l, Chunk
    <3> QED BY <2>3, <2>4, <2>5 DEF FwCmd, Scatter
  <2> HIDE DEF l, Ends, Chunk
  <2> QED BY <2>1, <2>2, <2>3, <2>4, <2>6 DEF o, l
<1>7. t \in Seq(FwCmd) /\ Len(t) = c /\ \A k \in 1 .. c : t[k] = Chunk(k)
  <2>1. \A k \in 1 .. c : Chunk(k) \in FwCmd
    BY <1>6
  <2> HIDE DEF t, Chunk
  <2> QED BY <1>4, <1>5, <2>1
<1> HIDE DEF t
<1>8. /\ Grown(ms, t, 0) = ms /\ Grown(ms, t, c) = ms \o t
      /\ \A p \in 1 .. c : Grown(ms, t, p) = Append(Grown(ms, t, p - 1), t[p])
  <2>1. /\ Grown(ms, t, 0) = ms /\ Grown(ms, t, Len(t)) = ms \o t
        /\ \A p \in 1 .. Len(t) : Grown(ms, t, p) = Append(Grown(ms, t, p - 1), t[p])
    <3>1. ms \in Seq(FwCmd) /\ t \in Seq(FwCmd)
      BY <1>1, <1>7
    <3> QED BY <3>1, Growing, SMT
  <2> QED BY <1>7, <2>1
<1>9. 0 \in G
  <2>1. Ends(0) = 0
    BY <1>2, <1>3 DEF Shorter
  <2>2. Put(d.mem, at, from, 0) = d.mem
    BY <1>2, Puts
  <2>3. Now(0) = d
    <3>1. at + 0 = d.at /\ len - 0 = d.left
      BY <1>2 DEF at, len
    <3>2. [d EXCEPT !.mem = d.mem, !.at = d.at, !.left = d.left] = d
      BY <1>1 DEF DeviceState
    <3> QED BY <2>2, <3>1, <3>2
  <2> QED BY <1>8, <2>1, <2>3 DEF d
<1>10. ASSUME NEW p \in Nat, p \in G PROVE p + 1 \in G
  <2> SUFFICES ASSUME p + 1 <= c
               PROVE  /\ Quiet(Grown(ms, t, p + 1))
                      /\ Device(Grown(ms, t, p + 1)) = Now(Ends(p + 1))
    OBVIOUS
  <2> DEFINE k == p + 1
             o == (k - 1) * MaxLen
             l == Shorter(MaxLen, len - o)
             g == Grown(ms, t, p)
  <2>1. k \in 1 .. c /\ k - 1 = p /\ p <= c
    BY <1>4
  <2>2. /\ o \in Nat /\ l \in Nat /\ l <= MaxLen /\ l <= len - o
        /\ Chunk(k) = [cmd |-> "scatter", from |-> from + o, len |-> l]
        /\ Ends(p) = o /\ Ends(k) = o + l
    BY <1>6, <2>1
  <2>3. Quiet(g) /\ Device(g) = Now(o)
    BY <1>10, <2>1, <2>2
  <2>4. Grown(ms, t, k) = Append(g, Chunk(k))
    BY <1>7, <1>8, <2>1
  <2> HIDE DEF g, o, l, k, Ends, Chunk
  <2>5. /\ Now(o).left = len - o /\ Now(o).at = at + o /\ Now(o).mem = Put(d.mem, at, from, o)
    BY <1>1 DEF DeviceState
  <2>6. /\ Quiet(Append(g, Chunk(k)))
        /\ Device(Append(g, Chunk(k)))
             = [Now(o) EXCEPT !.mem = Put(Put(d.mem, at, from, o), at + o, from + o, l),
                              !.at = at + o + l, !.left = len - o - l]
    <3>1. from + o \in Nat /\ at + o + l = (at + o) + l
      BY <1>2, <2>2
    <3> DEFINE e == Device(g)
    <3>2. e = Now(o) /\ e.left = len - o /\ e.at = at + o /\ e.mem = Put(d.mem, at, from, o)
      BY <2>3, <2>5
    <3> HIDE DEF Now
    <3>3. /\ Quiet(Append(g, Chunk(k)))
          /\ Device(Append(g, Chunk(k)))
               = [e EXCEPT !.mem = Put(e.mem, e.at, from + o, l), !.at = e.at + l, !.left = e.left - l]
      <4> DEFINE m == [cmd |-> "scatter", from |-> from + o, len |-> l]
      <4>1. l <= e.left /\ l <= MaxLen /\ l \in Nat
        BY <2>2, <3>2
      <4>2. /\ Quiet(Append(g, m))
            /\ Device(Append(g, m))
                 = [e EXCEPT !.mem = Put(e.mem, e.at, from + o, l), !.at = e.at + l, !.left = e.left - l]
        BY <2>3, <3>1, <4>1, Scatters
      <4>3. Chunk(k) = m
        BY <2>2
      <4> HIDE DEF e, m
      <4> QED BY <4>2, <4>3
    <3> HIDE DEF e
    <3> QED BY <3>1, <3>2, <3>3
  <2>7. Put(Put(d.mem, at, from, o), at + o, from + o, l) = Put(d.mem, at, from, o + l)
    BY <1>2, <2>2, Puts
  <2>8. at + o + l = at + (o + l) /\ len - o - l = len - (o + l)
    BY <1>2, <2>2
  <2>9. Device(Append(g, Chunk(k))) = Now(o + l)
    BY <1>1, <2>6, <2>7, <2>8 DEF DeviceState
  <2> QED BY <2>2, <2>4, <2>6, <2>9 DEF k
<1>11. c \in G
  <2>1. Nat \subseteq G
    <3> HIDE DEF G
    <3> QED BY <1>9, <1>10, Induct
  <2> QED BY <1>4, <2>1
<1>12. Ends(c) = len
  BY <1>2, <1>4 DEF Shorter
<1>13. Quiet(ms \o t) /\ Device(ms \o t) = Now(len)
  <2>1. Quiet(Grown(ms, t, c)) /\ Device(Grown(ms, t, c)) = Now(Ends(c))
    BY <1>4, <1>11
  <2> HIDE DEF Now, Ends
  <2> QED BY <1>8, <1>12, <2>1
<1>14. len - len = 0
  BY <1>2
<1> QED BY <1>13, <1>14 DEF d, at, len, t

\* A part that is downloaded is put in its place.
LEMMA Downloads ==
  ASSUME NEW ms, Quiet(ms), NEW r, r.addr \in Nat, r.len \in Nat, NEW from \in Nat
  PROVE  LET ns == ms \o Download(r, from)
         IN /\ Quiet(ns) /\ Device(ns).left = 0 /\ Device(ns).short = Device(ms).short
            /\ Device(ns).mem = Put(Device(ms).mem, r.addr, from, r.len)
<1> DEFINE m == InitDownload(r)
           os == Append(ms, m)
           sf == SendFirmware(from, r.len)
           d == Device(ms)
           e == Device(os)
<1>1. d \in DeviceState /\ ms \in Seq(FwCmd)
  BY QuietDevice
<1>2. Quiet(os) /\ e = [d EXCEPT !.at = r.addr, !.left = r.len]
  BY Announces
<1>3. e.at = r.addr /\ e.left = r.len /\ e.mem = d.mem /\ e.short = d.short /\ e \in DeviceState
  BY <1>1, <1>2 DEF DeviceState
<1>4. /\ Quiet(os \o sf)
      /\ Device(os \o sf) = [e EXCEPT !.mem = Put(d.mem, r.addr, from, r.len),
                                      !.at = r.addr + r.len, !.left = 0]
  <2> DEFINE tf == SendFirmware(from, e.left)
  <2>1. /\ Quiet(os \o tf)
        /\ Device(os \o tf) = [e EXCEPT !.mem = Put(e.mem, e.at, from, e.left),
                                        !.at = e.at + e.left, !.left = 0]
    <3> HIDE DEF os
    <3> QED BY <1>2, Sends
  <2>2. tf = sf
    BY <1>3
  <2> HIDE DEF tf, sf, e, d, os
  <2> QED BY <1>3, <2>1, <2>2
<1>5. ms \o Download(r, from) = os \o sf
  <2>1. sf \in Seq(FwCmd)
    BY ScatterCmds
  <2>2. m \in FwCmd
    BY DEF InitDownload, Announce, FwCmd
  <2> HIDE DEF m, sf
  <2>3. ms \o (<<m>> \o sf) = Append(ms, m) \o sf
    BY <1>1, <2>1, <2>2
  <2> QED BY <2>3 DEF Download, m, sf
<1> HIDE DEF e
<1>6. Device(os \o sf).left = 0 /\ Device(os \o sf).short = d.short
      /\ Device(os \o sf).mem = Put(d.mem, r.addr, from, r.len)
  BY <1>3, <1>4 DEF DeviceState
<1> QED BY <1>4, <1>5, <1>6

\* The device has the parts in J, each in its place, and nothing else.
Filled(mem, rs, J, from) ==
  /\ mem \in Mems /\ DOMAIN mem = UNION {Area(rs[k]) : k \in J}
  /\ \A k \in J : \A a \in Area(rs[k]) : mem[a] = from[k] + (a - rs[k].addr)

\* One part more, which goes where no other is.
LEMMA Fills ==
  ASSUME NEW mem, NEW rs, NEW J, NEW from, Filled(mem, rs, J, from),
         NEW k, rs[k].addr \in Nat, rs[k].len \in Nat, from[k] \in Nat,
         \A j \in J : j # k /\ Area(rs[j]) \cap Area(rs[k]) = {},
         Put(mem, rs[k].addr, from[k], rs[k].len) \in Mems
  PROVE  Filled(Put(mem, rs[k].addr, from[k], rs[k].len), rs, J \cup {k}, from)
<1> DEFINE A == Area(rs[k])
           on == Put(mem, rs[k].addr, from[k], rs[k].len)
<1>1. on = [a \in DOMAIN mem \cup A |-> IF a \in A THEN from[k] + (a - rs[k].addr) ELSE mem[a]]
  BY DEF Put, Area
<1>2. DOMAIN on = UNION {Area(rs[j]) : j \in J \cup {k}}
  <2> HIDE DEF A, on
  <2>1. DOMAIN on = DOMAIN mem \cup A
    BY <1>1
  <2> QED BY <2>1 DEF Filled, A
<1>3. ASSUME NEW j \in J \cup {k}, NEW a \in Area(rs[j])
      PROVE  on[a] = from[j] + (a - rs[j].addr)
  <2>1. CASE j = k
    <3>1. a \in A
      BY <2>1
    <3> HIDE DEF A, on
    <3> QED BY <1>1, <2>1, <3>1
  <2>2. CASE j # k
    <3>1. j \in J /\ a \notin A
      BY <2>2
    <3>2. a \in DOMAIN mem /\ mem[a] = from[j] + (a - rs[j].addr)
      BY <3>1 DEF Filled
    <3> HIDE DEF A, on
    <3> QED BY <1>1, <3>1, <3>2
  <2> QED BY <2>1, <2>2
<1> HIDE DEF on
<1>4. on \in Mems
  BY DEF on
<1> QED BY <1>2, <1>3, <1>4 DEF Filled, on

\* The parts in K are sent one after the other.
SentParts(h, n, rs, K, from) ==
  /\ h[0] = <<>> /\ K \subseteq 1 .. n /\ Apart(rs, K)
  /\ \A k \in 1 .. n : /\ rs[k].addr \in Nat /\ rs[k].len \in Nat /\ from[k] \in Nat
                       /\ h[k] = IF k \in K THEN h[k - 1] \o Download(rs[k], from[k]) ELSE h[k - 1]
LEMMA Installs ==
  ASSUME NEW n \in Nat, NEW h, NEW rs, NEW K, NEW from, SentParts(h, n, rs, K, from)
  PROVE  /\ Quiet(h[n]) /\ Device(h[n]).left = 0 /\ ~Device(h[n]).short
         /\ Filled(Device(h[n]).mem, rs, K, from)
<1> DEFINE J(k) == K \cap (1 .. k)
           Good1(k) == /\ Quiet(h[k]) /\ Device(h[k]).left = 0 /\ ~Device(h[k]).short
                       /\ Filled(Device(h[k]).mem, rs, J(k), from)
           G == {k \in Nat : k <= n => Good1(k)}
<1>1. 0 \in G
  <2>1. Device(<<>>) = NewDevice /\ NewDevice \in DeviceState
    <3>1. <<>> \in Seq(FwCmd) /\ Device(<<>>) = NewDevice
      BY OneMore
    <3>2. Device(<<>>) \in DeviceState
      BY <3>1, OneMore
    <3> QED BY <3>1, <3>2
  <2>2. h[0] = <<>> /\ J(0) = {}
    BY DEF SentParts
  <2>3. Quiet(<<>>)
    <3>1. <<>> \in Seq(FwCmd) /\ Len(<<>>) = 0 /\ SubSeq(<<>>, 1, 0) = <<>>
      OBVIOUS
    <3>2. ~NewDevice.over /\ ~NewDevice.started
      BY DEF NewDevice
    <3>3. \A k \in 0 .. 0 : SubSeq(<<>>, 1, k) = <<>>
      BY <3>1
    <3>4. \A k \in 1 .. 0 : FALSE
      OBVIOUS
    <3> QED BY <2>1, <3>1, <3>2, <3>3, <3>4 DEF Quiet
  <2>4. NewDevice.left = 0 /\ ~NewDevice.short /\ NewDevice.mem = [a \in {} |-> 0]
    BY DEF NewDevice
  <2>5. Filled(NewDevice.mem, rs, {}, from)
    <3>1. NewDevice.mem \in Mems
      BY <2>1 DEF DeviceState
    <3> QED BY <2>4, <3>1 DEF Filled
  <2>6. Good1(0)
    <3> HIDE DEF J
    <3> QED BY <2>1, <2>2, <2>3, <2>4, <2>5
  <2> QED BY <2>6
<1>2. ASSUME NEW k \in Nat, k \in G PROVE k + 1 \in G
  <2> SUFFICES ASSUME k + 1 <= n PROVE Good1(k + 1)
    OBVIOUS
  <2>0. k + 1 \in 1 .. n /\ k + 1 - 1 = k /\ k <= n
    OBVIOUS
  <2> DEFINE r == rs[k + 1]
             f == from[k + 1]
             d == Device(h[k])
             e == Device(h[k + 1])
  <2>1. Good1(k)
    BY <1>2, <2>0
  <2>2. /\ r.addr \in Nat /\ r.len \in Nat /\ f \in Nat
        /\ h[k + 1] = IF k + 1 \in K THEN h[k] \o Download(r, f) ELSE h[k]
    BY <2>0 DEF SentParts
  <2>3. CASE k + 1 \in K
    <3>1. J(k + 1) = J(k) \cup {k + 1}
      BY <2>3
    <3>2. /\ Quiet(h[k + 1]) /\ e.left = 0 /\ e.short = d.short
          /\ e.mem = Put(d.mem, r.addr, f, r.len)
      <4>1. Quiet(h[k]) /\ d.left = 0 /\ h[k + 1] = h[k] \o Download(r, f)
        BY <2>1, <2>2, <2>3
      <4> DEFINE ns == h[k] \o Download(r, f)
      <4>2. /\ Quiet(ns) /\ Device(ns).left = 0 /\ Device(ns).short = d.short
            /\ Device(ns).mem = Put(d.mem, r.addr, f, r.len)
        <5>1. Quiet(h[k]) /\ r.addr \in Nat /\ r.len \in Nat /\ f \in Nat
          BY <2>2, <4>1
        <5> HIDE DEF r, f
        <5> QED BY <5>1, Downloads
      <4> QED BY <4>1, <4>2
    <3>3. e.mem \in Mems
      BY <3>2, QuietDevice DEF DeviceState
    <3>4. \A j \in J(k) : j # k + 1 /\ Area(rs[j]) \cap Area(rs[k + 1]) = {}
      <4>1. \A j \in J(k) : j \in K /\ j # k + 1
        OBVIOUS
      <4> HIDE DEF J
      <4> QED BY <2>3, <4>1 DEF SentParts, Apart
    <3>5. Filled(e.mem, rs, J(k) \cup {k + 1}, from)
      <4> HIDE DEF J, e, d
      <4> QED BY <2>1, <2>2, <3>2, <3>3, <3>4, Fills DEF d
    <3> QED BY <2>1, <3>1, <3>2, <3>5
  <2>4. CASE k + 1 \notin K
    <3>1. J(k + 1) = J(k) /\ h[k + 1] = h[k]
      BY <2>2, <2>4
    <3> HIDE DEF J
    <3> QED BY <2>1, <3>1
  <2> QED BY <2>3, <2>4
<1>3. n \in G
  <2>1. Nat \subseteq G
    <3> HIDE DEF G
    <3> QED BY <1>1, <1>2, Induct
  <2> QED BY <2>1
<1>4. Good1(n) /\ J(n) = K
  <2>1. J(n) = K
    BY DEF SentParts
  <2> HIDE DEF Good1, J
  <2> QED BY <1>3, <2>1
<1> HIDE DEF J
<1> QED BY <1>4

\* The parts, then the command that starts them, up to the one that fails.
LEMMA Arriving ==
  ASSUME NEW n \in Nat, NEW h, NEW rs, NEW K, NEW from, SentParts(h, n, rs, K, from),
         NEW m \in Begin, NEW fails \in Nat \ {0}
  PROVE  Arrives(rs, K, from, fails, Until(Append(h[n], m), fails))
<1> DEFINE ms == h[n]
           l == Len(ms)
           all == Append(ms, m)
           out == Until(all, fails)
           d == Device(ms)
<1>1. /\ Quiet(ms) /\ d.left = 0 /\ ~d.short /\ Filled(d.mem, rs, K, from)
      /\ d \in DeviceState /\ ~d.over /\ ~d.started /\ ms \in Seq(FwCmd) /\ l \in Nat
  BY Installs, QuietDevice
<1>2. m \in FwCmd /\ m.cmd \in Starts
  BY DEF FwCmd, Begin, Starts
<1> HIDE DEF ms
<1>3. /\ Len(all) = l + 1 /\ SubSeq(all, 1, l + 1) = all
      /\ \A k \in 0 .. l : SubSeq(all, 1, k) = SubSeq(ms, 1, k)
      /\ \A k \in 1 .. l : all[k] = ms[k]
      /\ all[l + 1] = m
  BY <1>1, <1>2, Beginnings
<1>4. CASE fails <= l
  <2>1. out = SubSeq(ms, 1, fails)
    BY <1>1, <1>3, <1>4 DEF Until, Shorter
  <2>2. Len(out) = fails /\ \A k \in 1 .. fails : out[k] = ms[k]
    BY <1>1, <1>4, <2>1
  <2>3. ~Device(out).over /\ ~Device(out).started
    BY <1>1, <1>4, <2>1 DEF Quiet
  <2>4. \A k \in 1 .. fails : out[k].cmd \notin Starts
    BY <1>1, <1>4, <2>2 DEF Quiet
  <2>5. Len(out) \in 1 .. fails /\ ~(Len(out) < fails)
    BY <1>1, <1>4, <2>2
  <2>6. \A k \in 1 .. Len(out) : out[k].cmd \in Starts <=> k = Len(out) /\ Device(out).started
    BY <2>2, <2>3, <2>4
  <2> HIDE DEF out
  <2>7. Arrives(rs, K, from, fails, out)
    BY <2>3, <2>5, <2>6, Zenon DEF Arrives
  <2> QED BY <2>7 DEF out, all, ms
<1>5. CASE fails > l
  <2>1. out = all
    BY <1>1, <1>3, <1>5 DEF Until, Shorter
  <2> DEFINE e == Device(all)
  <2>2. e = [d EXCEPT !.started = TRUE, !.short = d.short \/ d.left > 0]
    <3>1. e = DeviceStep(d, m)
      BY <1>1, <1>2, OneMore
    <3> HIDE DEF d, e
    <3> QED BY <1>1, <1>2, <3>1, DeviceSteps
  <2>3. e.started /\ ~e.short /\ ~e.over /\ e.mem = d.mem
    <3> HIDE DEF d, e
    <3> QED BY <1>1, <2>2 DEF DeviceState
  <2>4. \A k \in 1 .. l + 1 : all[k].cmd \in Starts <=> k = l + 1
    <3> TAKE k \in 1 .. l + 1
    <3>1. CASE k = l + 1
      BY <1>2, <1>3, <3>1
    <3>2. CASE k # l + 1
      <4>1. k \in 1 .. l
        BY <1>1, <3>2
      <4> QED BY <1>1, <1>3, <3>2, <4>1 DEF Quiet
    <3> QED BY <3>1, <3>2
  <2>5. /\ DOMAIN d.mem = UNION {Area(rs[k]) : k \in K}
        /\ \A k \in K : \A a \in Area(rs[k]) : d.mem[a] = from[k] + (a - rs[k].addr)
    BY <1>1 DEF Filled
  <2>6. Len(all) \in 1 .. fails
    BY <1>1, <1>3, <1>5
  <2> HIDE DEF all, d, e, out
  <2>7. \A k \in 1 .. Len(all) : all[k].cmd \in Starts <=> k = Len(all) /\ e.started
    BY <1>3, <2>3, <2>4
  <2>8. /\ ~e.short /\ DOMAIN e.mem = UNION {Area(rs[k]) : k \in K}
        /\ \A k \in K : \A a \in Area(rs[k]) : e.mem[a] = from[k] + (a - rs[k].addr)
    BY <2>3, <2>5
  <2>9. Arrives(rs, K, from, fails, all)
    BY <2>3, <2>6, <2>7, <2>8, Zenon DEF Arrives, e
  <2> QED BY <2>1, <2>9 DEF out, all, ms
<1> QED BY <1>1, <1>4, <1>5 DEF ms

\* Where the parts of a file end.
LEMMA Ends ==
  ASSUME NEW rs \in Seq(Region)
  PROVE  /\ FileEnds(rs)[0] = 0
         /\ \A k \in 1 .. Len(rs) : FileEnds(rs)[k] = FileEnds(rs)[k - 1] + rs[k].len
<1> DEFINE n == Len(rs)
           step == [p \in (1 .. n) \X Nat |-> p[2] + rs[p[1]].len]
           Body(f) == [k \in 0 .. n |-> IF k = 0 THEN 0 ELSE f[k - 1] + rs[k].len]
           ends == CHOOSE f : f = Body(f)
<1>1. n \in Nat /\ \A k \in 1 .. n : rs[k].len \in Nat
  <2>1. \A k \in 1 .. n : rs[k] \in Region
    OBVIOUS
  <2> QED BY <2>1 DEF Region
<1>2. PICK h : IsRun(h, n, Nat, 0, step)
  <2>1. step \in [(1 .. n) \X Nat -> Nat]
    BY <1>1
  <2> HIDE DEF step, n
  <2> QED BY <1>1, <2>1, RunExists
<1>3. h = Body(h)
  <2>1. h \in [0 .. n -> Nat] /\ h[0] = 0 /\ \A k \in 1 .. n : h[k] = step[<<k, h[k - 1]>>]
    BY <1>2 DEF IsRun
  <2>2. ASSUME NEW k \in 0 .. n PROVE h[k] = IF k = 0 THEN 0 ELSE h[k - 1] + rs[k].len
    <3>1. CASE k # 0
      <4>1. k \in 1 .. n /\ h[k - 1] \in Nat
        BY <1>1, <2>1, <3>1
      <4> QED BY <2>1, <3>1, <4>1
    <3> QED BY <2>1, <3>1
  <2> QED BY <2>1, <2>2
<1>4. ends = Body(ends)
  BY <1>3
<1>5. FileEnds(rs) = ends
  BY DEF FileEnds
<1> HIDE DEF ends
<1>6. ends[0] = 0
  BY <1>1, <1>4
<1>7. ASSUME NEW k \in 1 .. n PROVE ends[k] = ends[k - 1] + rs[k].len
  <2>1. k \in 0 .. n /\ k # 0
    BY <1>1
  <2> QED BY <1>4, <2>1
<1> QED BY <1>5, <1>6, <1>7

\* The loop over the regions of an image is a run through them.
SendState == [offset : Nat, override : Nat, msgs : Seq(FwCmd)]
Unsent == [offset |-> 0, override |-> 0, msgs |-> <<>>]
LEMMA SendsRegion ==
  ASSUME NEW st \in SendState, NEW r \in Region PROVE SendRegion(st, r) \in SendState
<1>1. /\ r.addr \in Nat /\ r.len \in Nat /\ r.nonDl \in BOOLEAN
      /\ st.offset \in Nat /\ st.override \in Nat /\ st.msgs \in Seq(FwCmd)
  BY DEF Region, SendState
<1>2. st.msgs \o Download(r, st.offset) \in Seq(FwCmd)
  <2>1. Download(r, st.offset) \in Seq(FwCmd)
    BY <1>1, DownloadCmds
  <2> QED BY <1>1, <2>1
<1>3. st.offset + r.len \in Nat /\ (IF ~r.nonDl /\ r.override THEN r.addr ELSE st.override) \in Nat
      /\ (IF r.nonDl THEN st.msgs ELSE st.msgs \o Download(r, st.offset)) \in Seq(FwCmd)
  BY <1>1, <1>2
<1> QED BY <1>3 DEF SendRegion, SendState

LEMMA RamRuns ==
  ASSUME NEW rs \in Seq(Region)
  PROVE  \E h : /\ h \in [0 .. Len(rs) -> SendState] /\ h[0] = Unsent
                /\ \A k \in 1 .. Len(rs) : h[k] = SendRegion(h[k - 1], rs[k])
                /\ SendRamFirmware(rs) = Append(h[Len(rs)].msgs, StartFirmware(h[Len(rs)].override))
<1> DEFINE n == Len(rs)
           step == [p \in (1 .. n) \X SendState |-> SendRegion(p[2], rs[p[1]])]
           Body(f) == [U \in SUBSET (1 .. n) |->
                         IF U = {} THEN Unsent ELSE SendRegion(f[U \ {Max(U)}], rs[Max(U)])]
           it == CHOOSE f : f = Body(f)
           h == [k \in 0 .. n |-> it[1 .. k]]
<1>1. n \in Nat /\ DOMAIN rs = 1 .. n /\ \A k \in 1 .. n : rs[k] \in Region
  OBVIOUS
<1>2. Unsent \in SendState /\ step \in [(1 .. n) \X SendState -> SendState]
  <2>1. Unsent \in SendState
    <3>1. <<>> \in Seq(FwCmd)
      OBVIOUS
    <3> QED BY <3>1 DEF Unsent, SendState
  <2>2. \A p \in (1 .. n) \X SendState : SendRegion(p[2], rs[p[1]]) \in SendState
    BY <1>1, SendsRegion
  <2> QED BY <2>1, <2>2
<1>3. PICK f : IsFold(f, n, SendState, Unsent, step)
  <2> HIDE DEF step, n
  <2> QED BY <1>1, <1>2, FoldExists
<1>4. \A U \in SUBSET (1 .. n) : U # {} => Max(U) \in 1 .. n /\ U \ {Max(U)} \in SUBSET (1 .. n)
  BY <1>1, MaxIndex
<1>5. f \in [SUBSET (1 .. n) -> SendState] /\ f = Body(f)
  BY <1>3, <1>4 DEF IsFold
<1>6. it = Body(it)
  BY <1>5
<1>7. SendRamFirmware(rs) = Append(it[1 .. n].msgs, StartFirmware(it[1 .. n].override))
  BY <1>1 DEF SendRamFirmware, FoldLeft, MapThenFoldSet, Unsent
<1> HIDE DEF it, n
<1>8. h[0] = Unsent
  BY <1>1, <1>6, Prefix
<1>9. ASSUME NEW k \in 1 .. n PROVE h[k] = SendRegion(h[k - 1], rs[k])
  <2>1. k \in 0 .. n /\ k - 1 \in 0 .. n
    BY <1>1
  <2>2. it[1 .. k] = SendRegion(it[1 .. (k - 1)], rs[k])
    <3>1. /\ 1 .. k \in SUBSET (1 .. n) /\ 1 .. k # {}
          /\ Max(1 .. k) = k /\ (1 .. k) \ {k} = 1 .. (k - 1)
      BY <1>1, Prefix
    <3>2. \A U \in SUBSET (1 .. n) :
            U # {} => it[U] = SendRegion(it[U \ {Max(U)}], rs[Max(U)])
      BY <1>6
    <3>3. it[1 .. k] = SendRegion(it[(1 .. k) \ {Max(1 .. k)}], rs[Max(1 .. k)])
      BY <3>1, <3>2
    <3> QED BY <3>1, <3>3
  <2>3. h[k] = it[1 .. k] /\ h[k - 1] = it[1 .. (k - 1)]
    BY <2>1
  <2> HIDE DEF h
  <2> QED BY <2>2, <2>3
<1>10. h[n] = it[1 .. n] /\ h = [k \in 0 .. n |-> h[k]]
  BY <1>1
<1> HIDE DEF h
<1>11. \A k \in 0 .. n : h[k] \in SendState
  <2> DEFINE W == [k \in 0 .. n |-> SendState]
  <2>1. h[0] \in W[0]
    BY <1>1, <1>2, <1>8
  <2>2. ASSUME NEW k \in 1 .. n, h[k - 1] \in W[k - 1] PROVE h[k] \in W[k]
    <3>1. k - 1 \in 0 .. n /\ k \in 0 .. n
      BY <1>1
    <3>2. h[k - 1] \in SendState /\ rs[k] \in Region
      BY <1>1, <2>2, <3>1
    <3>3. SendRegion(h[k - 1], rs[k]) \in SendState
      BY <3>2, SendsRegion
    <3> QED BY <1>9, <3>1, <3>3
  <2>3. \A k \in 0 .. n : h[k] \in W[k]
    <3> HIDE DEF W
    <3> QED BY <1>1, <2>1, <2>2, Run
  <2> QED BY <2>3
<1>12. h \in [0 .. n -> SendState]
  BY <1>10, <1>11
<1> QED BY <1>7, <1>8, <1>9, <1>10, <1>12 DEF n

\* An image arrives.
LEMMA RamArrives ==
  ASSUME NEW rs \in RamInput, NEW fails \in Nat \ {0}
  PROVE  Arrives(rs, Loaded(rs), [k \in DOMAIN rs |-> FileEnds(rs)[k - 1]], fails,
                 Until(SendRamFirmware(rs), fails))
<1> DEFINE n == Len(rs)
           K == Loaded(rs)
           ends == FileEnds(rs)
           from == [k \in DOMAIN rs |-> ends[k - 1]]
<1>1. /\ rs \in Seq(Region) /\ Apart(rs, K) /\ n \in Nat /\ DOMAIN rs = 1 .. n
      /\ \A k \in 1 .. n : rs[k] \in Region
  BY DEF RamInput
<1>2. PICK h : /\ h \in [0 .. n -> SendState] /\ h[0] = Unsent
               /\ \A k \in 1 .. n : h[k] = SendRegion(h[k - 1], rs[k])
               /\ SendRamFirmware(rs) = Append(h[n].msgs, StartFirmware(h[n].override))
  BY <1>1, RamRuns
<1>3. ends[0] = 0 /\ \A k \in 1 .. n : ends[k] = ends[k - 1] + rs[k].len
  BY <1>1, Ends
<1>4. K \subseteq 1 .. n /\ \A k \in 1 .. n : k \in K <=> ~rs[k].nonDl
  BY <1>1 DEF Loaded
<1> HIDE DEF n, K, ends
<1>5. \A k \in 0 .. n : h[k].offset = ends[k]
  <2> DEFINE W == [k \in 0 .. n |-> {st \in SendState : st.offset = ends[k]}]
  <2>1. h[0] \in W[0]
    BY <1>1, <1>2, <1>3 DEF Unsent
  <2>2. ASSUME NEW k \in 1 .. n, h[k - 1] \in W[k - 1] PROVE h[k] \in W[k]
    <3>1. k - 1 \in 0 .. n /\ k \in 0 .. n
      BY <1>1
    <3>2. h[k - 1].offset = ends[k - 1]
      BY <2>2, <3>1
    <3>3. h[k].offset = h[k - 1].offset + rs[k].len
      <4>1. h[k] = SendRegion(h[k - 1], rs[k])
        BY <1>2
      <4> QED BY <4>1 DEF SendRegion
    <3>4. h[k] \in SendState
      BY <1>2, <3>1
    <3> QED BY <1>3, <3>1, <3>2, <3>3, <3>4
  <2>3. \A k \in 0 .. n : h[k] \in W[k]
    <3> HIDE DEF W
    <3> QED BY <1>1, <2>1, <2>2, Run
  <2> QED BY <2>3
<1> DEFINE g == [k \in 0 .. n |-> h[k].msgs]
<1>6. SentParts(g, n, rs, K, from)
  <2>1. g[0] = <<>>
    BY <1>1, <1>2 DEF Unsent
  <2>2. ASSUME NEW k \in 1 .. n
        PROVE  /\ rs[k].addr \in Nat /\ rs[k].len \in Nat /\ from[k] \in Nat
               /\ g[k] = IF k \in K THEN g[k - 1] \o Download(rs[k], from[k]) ELSE g[k - 1]
    <3>1. k - 1 \in 0 .. n /\ k \in 0 .. n
      BY <1>1
    <3>2. h[k - 1].offset = ends[k - 1] /\ h[k - 1] \in SendState
      BY <1>2, <1>5, <3>1
    <3>3. from[k] = h[k - 1].offset /\ from[k] \in Nat
      BY <1>1, <3>2 DEF SendState
    <3>4. g[k] = h[k].msgs /\ g[k - 1] = h[k - 1].msgs
      BY <3>1
    <3>5. rs[k].addr \in Nat /\ rs[k].len \in Nat
      BY <1>1 DEF Region
    <3> HIDE DEF g, from
    <3>6. h[k].msgs = IF rs[k].nonDl THEN h[k - 1].msgs
                      ELSE h[k - 1].msgs \o Download(rs[k], h[k - 1].offset)
      <4>1. h[k] = SendRegion(h[k - 1], rs[k])
        BY <1>2
      <4> QED BY <4>1 DEF SendRegion
    <3> QED BY <1>4, <3>3, <3>4, <3>5, <3>6
  <2> HIDE DEF g, from
  <2> QED BY <1>1, <1>4, <2>1, <2>2 DEF SentParts
<1>7. g[n] = h[n].msgs /\ h[n].override \in Nat
  <2>1. n \in 0 .. n /\ h[n] \in SendState
    BY <1>1, <1>2
  <2> QED BY <2>1 DEF SendState
<1>8. StartFirmware(h[n].override) \in Begin
  BY <1>7 DEF StartFirmware, Begin
<1>9. Arrives(rs, K, from, fails, Until(Append(g[n], StartFirmware(h[n].override)), fails))
  <2> HIDE DEF g, from
  <2> QED BY <1>1, <1>6, <1>8, Arriving
<1> HIDE DEF g
<1> QED BY <1>2, <1>7, <1>9 DEF K, ends

\* A patch arrives.
LEMMA PatchArrives ==
  ASSUME NEW ss \in PatchInput, NEW fails \in Nat \ {0}
  PROVE  Arrives(ss, DOMAIN ss, [k \in DOMAIN ss |-> ss[k].offs], fails,
                 Until(LoadPatchMsgs(ss), fails))
<1> DEFINE n == Len(ss)
           from == [k \in DOMAIN ss |-> ss[k].offs]
           bs == [k \in DOMAIN ss |-> Download(ss[k], ss[k].offs)]
           m == [cmd |-> "finish"]
<1>1. /\ ss \in Seq(Section) /\ Apart(ss, DOMAIN ss) /\ n \in Nat /\ DOMAIN ss = 1 .. n
      /\ \A k \in 1 .. n : ss[k].addr \in Nat /\ ss[k].len \in Nat /\ ss[k].offs \in Nat
  <2>1. ss \in Seq(Section) /\ Apart(ss, DOMAIN ss)
    BY DEF PatchInput
  <2>2. n \in Nat /\ DOMAIN ss = 1 .. n /\ \A k \in 1 .. n : ss[k] \in Section
    BY <2>1
  <2> QED BY <2>1, <2>2 DEF Section
<1> HIDE DEF n
<1>2. bs \in [1 .. n -> Seq(FwCmd)]
  BY <1>1, DownloadCmds
<1>3. PICK h : Pieces(h, bs, n, FwCmd)
  <2> HIDE DEF bs
  <2> QED BY <1>1, <1>2, Flattens
<1>4. SentParts(h, n, ss, 1 .. n, from)
  <2>1. \A k \in 1 .. n : bs[k] = Download(ss[k], from[k]) /\ from[k] \in Nat
    BY <1>1
  <2> HIDE DEF bs, from
  <2> QED BY <1>1, <1>3, <2>1 DEF SentParts, Pieces
<1>5. m \in Begin
  BY DEF Begin
<1>6. Arrives(ss, 1 .. n, from, fails, Until(Append(h[n], m), fails))
  <2> HIDE DEF from, m
  <2> QED BY <1>1, <1>4, <1>5, Arriving
<1>7. LoadPatchMsgs(ss) = Append(h[n], m)
  BY <1>3 DEF LoadPatchMsgs, Pieces
<1> QED BY <1>1, <1>6, <1>7

(***************************************************************************)
(* The messages.  What has been built is from an input that may be given,  *)
(* and agrees with it as the lemmas above say.                             *)
(***************************************************************************)
MsgInv ==
  /\ msg.kind = "survey" => msg.out \in Surveyed
  /\ msg.kind = "airtime" => msg.out \in Polled
  /\ msg.kind = "tx" => msg.in \in TxFrame /\ msg.out = WriteTxwi(msg.in)
  /\ msg.kind = "beacon" => msg.in \in TxFrame /\ msg.out = BeaconReq(msg.in, 40, 60)
  /\ msg.kind = "txs" => TxsFits(msg.out)
  /\ msg.kind = "sleep" => Undone(msg.in, msg.out.asleep, msg.out.awake)
  /\ msg.kind = "ram" =>
       /\ msg.in.regions \in RamInput /\ msg.in.fails \in Nat \ {0}
       /\ msg.out = Until(SendRamFirmware(msg.in.regions), msg.in.fails)
  /\ msg.kind = "patch" =>
       /\ msg.in.regions \in PatchInput /\ msg.in.fails \in Nat \ {0}
       /\ msg.out = Until(LoadPatchMsgs(msg.in.regions), msg.in.fails)

\* What is built is a record with its kind.
LEMMA Kinds ==
  ASSUME NEW kind, NEW input, NEW output, Make(kind, input, output)
  PROVE  msg'.kind = kind /\ msg'.in = input /\ msg'.out = output
  BY DEF Make

\* Every call keeps to it.
LEMMA MsgNextInv == MsgNext => MsgInv'
<1> SUFFICES ASSUME MsgNext PROVE MsgInv'
  OBVIOUS
<1>1. CASE Done
  BY <1>1 DEF Done, None, MsgInv
<1>2. CASE SurveyTime
  <2>1. PICK es \in Surveys : Make("survey", es, Survey(Channels, 1, es))
    BY <1>2 DEF SurveyTime
  <2>2. Survey(Channels, 1, es) \in Surveyed
    BY HistorySurveys, HistoriesAssumption
  <2> QED BY <2>1, <2>2, Kinds DEF MsgInv
<1>3. CASE StationTime
  <2>1. PICK es \in Polls : Make("airtime", es, Airtime(es))
    BY <1>3 DEF StationTime
  <2>2. Airtime(es) \in Polled
    BY HistoryPolls, HistoriesAssumption
  <2> QED BY <2>1, <2>2, Kinds DEF MsgInv
<1>4. CASE SendFrame
  <2>1. PICK i \in TxFrames : Make("tx", i, WriteTxwi(i))
    BY <1>4 DEF SendFrame
  <2>2. i \in TxFrame
    BY FramesAssumption
  <2> QED BY <2>1, <2>2, Kinds DEF MsgInv
<1>5. CASE SendBeacon
  <2>1. PICK i \in TxFrames : Make("beacon", i, BeaconReq(i, 40, 60))
    BY <1>5 DEF SendBeacon
  <2>2. i \in TxFrame
    BY FramesAssumption
  <2> QED BY <2>1, <2>2, Kinds DEF MsgInv
<1>6. CASE StatusEvent
  <2>1. PICK t \in TxsEvents, old \in TxsEvents : Make("txs", t, FillTxs(FillTxs(FirstRate, old), t))
    BY <1>6 DEF StatusEvent
  <2>2. TxsFits(FirstRate)
    BY DEF TxsFits, MaxMcs, FirstRate
  <2>3. TxsFits(FillTxs(FillTxs(FirstRate, old), t))
    BY <2>2, Txs, FramesAssumption
  <2> QED BY <2>1, <2>3, Kinds DEF MsgInv
<1>7. CASE StaUpdate \/ HdrTrans \/ BlockAck \/ SetPower \/ HwScan \/ SchedScan
  <2>1. msg'.kind \in {"sta", "trans", "ba", "power", "scan", "sched"}
    BY <1>7, Kinds DEF StaUpdate, HdrTrans, BlockAck, SetPower, HwScan, SchedScan
  <2> QED BY <2>1 DEF MsgInv
<1>8. CASE Rnr \/ SetDomain \/ RateLimits \/ ChannelLimit
  <2>1. msg'.kind \in {"rnr", "domain", "limits", "target"}
    BY <1>8, Kinds DEF Rnr, SetDomain, RateLimits, ChannelLimit
  <2> QED BY <2>1 DEF MsgInv
<1>9. CASE \/ ReceiveFrames \/ AckLevel \/ Filters
           \/ Country \/ Transfer \/ Packet \/ LinkEvent \/ Dump
  <2>1. msg'.kind \in {"rx", "signal", "filter", "regd", "transfer", "packet", "link", "dump"}
    BY <1>9, Kinds DEF ReceiveFrames, AckLevel, Filters, Country, Transfer, Packet, LinkEvent, Dump
  <2> QED BY <2>1 DEF MsgInv
<1>10. CASE SleepAndWake
  <2> DEFINE Slept(i) == FellAsleep(i.vifs, i.wowlan, i.lost)
             Woken1(i) == WokeUp(Slept(i), i.vifs, i.wowlan, i.later)
  <2>0. PICK i \in Sleeps : Make("sleep", i, [asleep |-> Slept(i), awake |-> Woken1(i)])
    BY <1>10 DEF SleepAndWake
  <2>1. PICK asleep, awake :
          /\ asleep = FellAsleep(i.vifs, i.wowlan, i.lost)
          /\ awake = WokeUp(asleep, i.vifs, i.wowlan, i.later)
          /\ Make("sleep", i, [asleep |-> asleep, awake |-> awake])
    BY <2>0
  <2> HIDE DEF Slept, Woken1
  <2>2. Undone(i, asleep, awake)
    BY <2>1, SleepsAssumption, SleepsAndWakes
  <2>3. /\ msg'.kind = "sleep" /\ msg'.in = i
        /\ msg'.out = [asleep |-> asleep, awake |-> awake]
    BY <2>1, Kinds
  <2> QED BY <2>2, <2>3 DEF MsgInv
<1>11. CASE RamImage
  <2>1. PICK rs \in Images, fails \in Fails :
          Make("ram", [regions |-> rs, fails |-> fails], Until(SendRamFirmware(rs), fails))
    BY <1>11 DEF RamImage
  <2>2. rs \in RamInput /\ fails \in Nat \ {0}
    BY ImagesAssumption
  <2>3. /\ msg'.kind = "ram" /\ msg'.in = [regions |-> rs, fails |-> fails]
        /\ msg'.out = Until(SendRamFirmware(rs), fails)
    BY <2>1, Kinds
  <2> QED BY <2>2, <2>3 DEF MsgInv
<1>12. CASE PatchImage
  <2>1. PICK ss \in Patches, fails \in Fails :
          Make("patch", [regions |-> ss, fails |-> fails], Until(LoadPatchMsgs(ss), fails))
    BY <1>12 DEF PatchImage
  <2>2. ss \in PatchInput /\ fails \in Nat \ {0}
    BY ImagesAssumption
  <2>3. /\ msg'.kind = "patch" /\ msg'.in = [regions |-> ss, fails |-> fails]
        /\ msg'.out = Until(LoadPatchMsgs(ss), fails)
    BY <2>1, Kinds
  <2> QED BY <2>2, <2>3 DEF MsgInv
<1> QED BY <1>1, <1>2, <1>3, <1>4, <1>5, <1>6, <1>7, <1>8, <1>9, <1>10, <1>11, <1>12 DEF MsgNext

\* It holds of every message.
LEMMA MsgInvariant == MsgSpec => []MsgInv
<1>1. MsgInit => MsgInv
  BY DEF MsgInit, None, MsgInv
<1>2. MsgInv /\ [MsgNext]_msg => MsgInv'
  <2>1. UNCHANGED msg /\ MsgInv => MsgInv'
    BY DEF MsgInv
  <2> QED BY <2>1, MsgNextInv
<1> QED BY <1>1, <1>2, PTL DEF MsgSpec

(***************************************************************************)
(* TimeIsCountedOnce: whatever the history of switches of channel, of      *)
(* readings, of associations and of what happens on the air, and however   *)
(* long, the airtime of every station has each unit of time once, and the  *)
(* survey has it once under the channel the driver takes the chip to be    *)
(* on, which is the right one for every channel no failed switch led       *)
(* astray (mac80211.c, mt792x_mac.c, mt7921/mac.c).                        *)
(***************************************************************************)
THEOREM TimeStaysCounted == MsgSpec => []TimeIsCountedOnce
<1>1. MsgInv => TimeIsCountedOnce
  BY DEF MsgInv, TimeIsCountedOnce, Of, Surveyed, Polled, Owed, Dirs
<1> QED BY <1>1, MsgInvariant, PTL

(***************************************************************************)
(* DescriptorAgrees: for a frame of any kind, length and flags, the        *)
(* descriptor asks for what the frame needs, a fixed rate is of its band   *)
(* and reads back from the status event as the rate it was, and the rate   *)
(* of any status event is in its range (connac_mac.c).                     *)
(***************************************************************************)
THEOREM DescriptorsAgree == MsgSpec => []DescriptorAgrees
<1>1. ASSUME MsgInv PROVE DescriptorAgrees
  <2>1. ASSUME Of({"tx", "beacon"})
        PROVE  LET i == msg.in
                   d == IF Of({"tx"}) THEN msg.out ELSE WriteTxwi(i)
               IN /\ d.toHost <=> i.pid >= PidFirst
                  /\ d.amsdu => i.amsdu /\ ~d.toHost /\ ~d.fixed /\ ~d.snValid
                  /\ d.fixed => d.baDisable /\ d.format = "802.11" /\ RateReadsBack(i, d)
                  /\ d.bip => ~d.protect
                  /\ d.queue < LmacAltx <=> i.changed = "none" /\ i.qid < PsdQueue
                  /\ WireBytes(i) % 4 = 0 /\ WireBytes(i) >= HdrBytes(i) + 8
    <3> DEFINE i == msg.in
               d == IF Of({"tx"}) THEN msg.out ELSE WriteTxwi(i)
    <3>1. i \in TxFrame /\ d = WriteTxwi(i)
      BY <1>1, <2>1 DEF MsgInv, Of
    <3> HIDE DEF i, d
    <3>2. /\ d.toHost <=> i.pid >= PidFirst
          /\ d.amsdu => i.amsdu /\ ~d.toHost /\ ~d.fixed /\ ~d.snValid
          /\ d.fixed => d.baDisable /\ d.format = "802.11" /\ d.rate = TxRateVal(i)
          /\ d.bip => ~d.protect
          /\ d.queue = QueueOf(i).q
      BY <3>1, Txwi
    <3>3. d.rate = TxRateVal(i) => RateReadsBack(i, d)
      BY <3>1, FixedRate
    <3>4. d.queue < LmacAltx <=> i.changed = "none" /\ i.qid < PsdQueue
      BY <3>1, <3>2, Queue
    <3>5. WireBytes(i) % 4 = 0 /\ WireBytes(i) >= HdrBytes(i) + 8
      BY <3>1, Wire
    <3>6. /\ d.toHost <=> i.pid >= PidFirst
          /\ d.amsdu => i.amsdu /\ ~d.toHost /\ ~d.fixed /\ ~d.snValid
          /\ d.fixed => d.baDisable /\ d.format = "802.11" /\ RateReadsBack(i, d)
          /\ d.bip => ~d.protect
          /\ d.queue < LmacAltx <=> i.changed = "none" /\ i.qid < PsdQueue
          /\ WireBytes(i) % 4 = 0 /\ WireBytes(i) >= HdrBytes(i) + 8
      BY <3>2, <3>3, <3>4, <3>5, Zenon
    <3> QED BY <3>6, Zenon DEF i, d
  <2>2. LET once == CheckAggr({}, msg.out, TRUE, TRUE)
        IN CheckAggr(once.asked, msg.out, TRUE, TRUE).start = {}
    BY DEF CheckAggr
  <2>3. (Of({"beacon"}) /\ ~msg.out.err) => msg.out.pktLen <= 512 /\ msg.out.tim < 512
    <3> SUFFICES ASSUME Of({"beacon"}), ~msg.out.err
                 PROVE  msg.out.pktLen <= 512 /\ msg.out.tim < 512
      OBVIOUS
    <3>1. msg.in \in TxFrame /\ msg.out = BeaconReq(msg.in, 40, 60)
      BY <1>1 DEF MsgInv, Of
    <3>2. msg.in.len \in Nat
      BY <3>1 DEF TxFrame
    <3> QED BY <3>1, <3>2 DEF BeaconReq, TxdSize
  <2>4. Of({"txs"}) => msg.out.mcs <= MaxMcs(msg.out.mode) /\ msg.out.nss \in 1 .. 8
    BY <1>1 DEF MsgInv, Of, TxsFits
  <2> QED BY <2>1, <2>2, <2>3, <2>4, Zenon DEF DescriptorAgrees
<1> QED BY <1>1, MsgInvariant, PTL

(***************************************************************************)
(* SleepIsUndone: for any number of interfaces and patterns, and whichever *)
(* commands are lost, the suspend sets up what wake on WLAN needs and the  *)
(* resume takes back all but the neighbour discovery filter and what a     *)
(* lost command was to clear (connac_mcu.c, mt7921/main.c).                *)
(***************************************************************************)
THEOREM SleepsAreUndone == MsgSpec => []SleepIsUndone
<1>1. MsgInv => SleepIsUndone
  BY DEF MsgInv, SleepIsUndone, Of, Undone
<1> QED BY <1>1, MsgInvariant, PTL

(***************************************************************************)
(* ImageArrives: for an image of any number of parts of any length, none   *)
(* over another, pieces of any length, and whichever command fails, the    *)
(* device is started by the last command only, with every part in its      *)
(* place and nothing else, and never gets more than was announced          *)
(* (connac_mcu.c).                                                         *)
(***************************************************************************)
THEOREM ImagesArrive == MsgSpec => []ImageArrives
<1>1. ASSUME MsgInv PROVE ImageArrives
  <2> DEFINE rs == msg.in.regions
  <2>1. CASE Of({"ram"})
    <3>1. Arrives(rs, Loaded(rs), [k \in DOMAIN rs |-> FileEnds(rs)[k - 1]], msg.in.fails, msg.out)
      BY <1>1, <2>1, RamArrives DEF MsgInv, Of
    <3>2. ~Of({"patch"})
      BY <2>1 DEF Of
    <3> QED BY <3>1, <3>2, Zenon DEF ImageArrives
  <2>2. CASE Of({"patch"})
    <3>1. Arrives(rs, DOMAIN rs, [k \in DOMAIN rs |-> rs[k].offs], msg.in.fails, msg.out)
      BY <1>1, <2>2, PatchArrives DEF MsgInv, Of
    <3>2. ~Of({"ram"})
      BY <2>2 DEF Of
    <3> QED BY <3>1, <3>2, Zenon DEF ImageArrives
  <2> QED BY <2>1, <2>2, Zenon DEF ImageArrives
<1> QED BY <1>1, MsgInvariant, PTL
=============================================================================
