------------------------------- MODULE Worker -------------------------------
(***************************************************************************)
(* The worker thread of util.c and util.h: the SCHEDULED and RUNNING bits, *)
(* the thread's loop, the callers of worker_schedule (USB completions,     *)
(* other workers, mac80211) and the context that disables, enables and     *)
(* tears the worker down.  Each atomic bit operation, each write of the    *)
(* task state and each wake-up is a step of its own.                       *)
(***************************************************************************)
EXTENDS Naturals

CONSTANTS
  Callers,    \* contexts that call worker_schedule
  Ctl         \* the context that enables, disables and tears down

ASSUME CtlAssumption == Ctl \notin Callers

VARIABLES
  scheduled, running,   \* the bits of w->state
  task,                 \* w->task # NULL
  pc,                   \* where the thread is in its loop
  tstate,               \* the task state of the thread
  shouldPark, shouldStop,
  call,                 \* where each caller is in worker_schedule
  ctl                   \* where the control context is

vars == <<scheduled, running, task, pc, tstate, shouldPark, shouldStop, call, ctl>>

Contexts == Callers \cup {Ctl}

\* Types, and the RUNNING bit is set exactly around the call of w->fn.
TypeOK ==
  /\ {scheduled, running, task, shouldPark, shouldStop} \subseteq BOOLEAN
  /\ pc \in {"top", "park", "test", "sleep", "set", "fn", "clear", "parked", "exit"}
  /\ tstate \in {"running", "interruptible", "parked"}
  /\ call \in [Contexts -> {"idle", "test", "wake"}]
  /\ ctl \in {"idle", "parking", "zero", "schedule", "join", "gone"}
  /\ running <=> pc \in {"fn", "clear"}

-----------------------------------------------------------------------------
(* The thread: __standalone_mt76_worker_fn.                                *)

Top ==
  /\ pc = "top"
  /\ \/ shouldStop /\ pc' = "exit" /\ UNCHANGED tstate
     \/ ~shouldStop /\ pc' = "park" /\ tstate' = "interruptible"
  /\ UNCHANGED <<scheduled, running, task, shouldPark, shouldStop, call, ctl>>

CheckPark ==
  /\ pc = "park"
  /\ \/ shouldPark /\ pc' = "parked" /\ tstate' = "parked"
     \/ ~shouldPark /\ pc' = "test" /\ UNCHANGED tstate
  /\ UNCHANGED <<scheduled, running, task, shouldPark, shouldStop, call, ctl>>

\* kthread_parkme returns.
Unparked ==
  /\ pc = "parked" /\ ~shouldPark
  /\ pc' = "top" /\ tstate' = "running"
  /\ UNCHANGED <<scheduled, running, task, shouldPark, shouldStop, call, ctl>>

TestScheduledKeeps ==   \* mutant: test_bit for test_and_clear_bit
  /\ pc = "test"
  /\ pc' = IF scheduled THEN "set" ELSE "sleep"
  /\ UNCHANGED <<scheduled, running, task, tstate, shouldPark, shouldStop, call, ctl>>

TestScheduled ==
  /\ pc = "test"
  /\ scheduled' = FALSE
  /\ pc' = IF scheduled THEN "set" ELSE "sleep"
  /\ UNCHANGED <<running, task, tstate, shouldPark, shouldStop, call, ctl>>

\* schedule() returns once the task state is TASK_RUNNING again.
Woken ==
  /\ pc = "sleep" /\ tstate = "running"
  /\ pc' = "top"
  /\ UNCHANGED <<scheduled, running, task, tstate, shouldPark, shouldStop, call, ctl>>

SetRunning ==
  /\ pc = "set"
  /\ running' = TRUE /\ tstate' = "running" /\ pc' = "fn"
  /\ UNCHANGED <<scheduled, task, shouldPark, shouldStop, call, ctl>>

FnReturns ==
  /\ pc = "fn" /\ pc' = "clear"
  /\ UNCHANGED <<scheduled, running, task, tstate, shouldPark, shouldStop, call, ctl>>

ClearRunning ==
  /\ pc = "clear"
  /\ running' = FALSE /\ pc' = "top"
  /\ UNCHANGED <<scheduled, task, tstate, shouldPark, shouldStop, call, ctl>>

Thread == Top \/ CheckPark \/ Unparked \/ TestScheduled \/ Woken \/ SetRunning
          \/ FnReturns \/ ClearRunning

-----------------------------------------------------------------------------
(* worker_schedule.                                                        *)

\* wake_up_process
Wake == tstate' = IF tstate = "interruptible" THEN "running" ELSE tstate

\* test_and_set_bit(SCHEDULED): nothing more to do when it was set.
SetScheduled(c) ==
  /\ task /\ call[c] = "idle"
  /\ scheduled' = TRUE
  /\ call' = IF scheduled THEN call ELSE [call EXCEPT ![c] = "test"]

Schedule(c) ==
  /\ ~shouldStop          \* sources of requests are stopped before a teardown
  /\ SetScheduled(c)
  /\ UNCHANGED <<running, task, pc, tstate, shouldPark, shouldStop, ctl>>

TestRunningSwapped(c) ==   \* mutant: wakes the running thread only
  /\ call[c] = "test"
  /\ call' = [call EXCEPT ![c] = IF running THEN "wake" ELSE "idle"]
  /\ UNCHANGED <<scheduled, running, task, pc, tstate, shouldPark, shouldStop, ctl>>

TestRunning(c) ==
  /\ call[c] = "test"
  /\ call' = [call EXCEPT ![c] = IF running THEN "idle" ELSE "wake"]
  /\ UNCHANGED <<scheduled, running, task, pc, tstate, shouldPark, shouldStop, ctl>>

WakeUp(c) ==
  /\ call[c] = "wake"
  /\ call' = [call EXCEPT ![c] = "idle"]
  /\ Wake
  /\ UNCHANGED <<scheduled, running, task, pc, shouldPark, shouldStop, ctl>>

-----------------------------------------------------------------------------
(* worker_disable, _enable, _teardown and _setup, one at a time.           *)

CtlIdle == ctl = "idle" /\ call[Ctl] = "idle"

\* kthread_park refuses a thread that is asked to park already.
Disable ==
  /\ CtlIdle
  /\ shouldPark' = TRUE
  /\ \/ shouldPark /\ ctl' = "zero" /\ UNCHANGED tstate
     \/ ~shouldPark /\ ctl' = "parking" /\ Wake
  /\ UNCHANGED <<scheduled, running, task, pc, shouldStop, call>>

ParkDoneEarly ==   \* mutant: does not wait until the thread has parked
  /\ ctl = "parking"
  /\ ctl' = "zero"
  /\ UNCHANGED <<scheduled, running, task, pc, tstate, shouldPark, shouldStop, call>>

ParkDone ==
  /\ ctl = "parking" /\ pc = "parked"
  /\ ctl' = "zero"
  /\ UNCHANGED <<scheduled, running, task, pc, tstate, shouldPark, shouldStop, call>>

ClearState ==
  /\ ctl = "zero"
  /\ scheduled' = FALSE /\ running' = FALSE
  /\ ctl' = "idle"
  /\ UNCHANGED <<task, pc, tstate, shouldPark, shouldStop, call>>

Enable ==
  /\ CtlIdle
  /\ shouldPark' = FALSE
  /\ ctl' = "schedule"
  /\ UNCHANGED <<scheduled, running, task, pc, tstate, shouldStop, call>>

EnableSchedules ==
  /\ ctl = "schedule"
  /\ SetScheduled(Ctl)
  /\ ctl' = "idle"
  /\ UNCHANGED <<running, task, pc, tstate, shouldPark, shouldStop>>

\* kthread_stop unparks, wakes and joins.
Teardown ==
  /\ CtlIdle
  /\ \A c \in Contexts : call[c] = "idle"
  /\ shouldStop' = TRUE /\ shouldPark' = FALSE
  /\ ctl' = "join"
  /\ Wake
  /\ UNCHANGED <<scheduled, running, task, pc, call>>

TeardownDone ==
  /\ ctl = "join" /\ pc = "exit"
  /\ task' = FALSE
  /\ ctl' = "gone"
  /\ UNCHANGED <<scheduled, running, pc, tstate, shouldPark, shouldStop, call>>

\* The next probe: a worker with cleared state and a new thread.
Setup ==
  /\ ctl = "gone"
  /\ scheduled' = FALSE /\ running' = FALSE /\ task' = TRUE
  /\ pc' = "top" /\ tstate' = "running"
  /\ shouldPark' = FALSE /\ shouldStop' = FALSE
  /\ ctl' = "idle"
  /\ UNCHANGED call

-----------------------------------------------------------------------------
Init ==
  /\ scheduled = FALSE /\ running = FALSE /\ task = TRUE
  /\ pc = "top" /\ tstate = "running"
  /\ shouldPark = FALSE /\ shouldStop = FALSE
  /\ call = [c \in Contexts |-> "idle"]
  /\ ctl = "idle"

CallNext(c) == TestRunning(c) \/ WakeUp(c)

Control == Disable \/ ParkDone \/ ClearState \/ Enable \/ EnableSchedules
           \/ Teardown \/ TeardownDone \/ Setup

Next ==
  \/ Thread
  \/ \E c \in Callers : Schedule(c)
  \/ \E c \in Contexts : CallNext(c)
  \/ Control

Spec == Init /\ [][Next]_vars

\* The scheduler runs the thread, w->fn returns, and a caller that entered
\* worker_schedule leaves it (it holds no lock and does not sleep).
FairSpec == Spec /\ WF_vars(Thread) /\ \A c \in Contexts : WF_vars(CallNext(c))

-----------------------------------------------------------------------------
\* A request is never slept on: a thread that sleeps with SCHEDULED set is about
\* to be woken by the caller that set the bit.
NoLostWakeup ==
  pc = "sleep" /\ tstate = "interruptible" /\ scheduled =>
    \E c \in Contexts : call[c] \in {"test", "wake"}

\* Between the return of worker_disable and the next worker_enable (and after
\* worker_teardown) the function does not run and its RUNNING bit is clear, so
\* a request made meanwhile is not lost to a stale bit.
DisabledIsQuiet ==
  (ctl = "idle" /\ shouldPark) \/ ~task => pc \in {"parked", "exit"} /\ ~running

\* The promise of WorkerAbs.
Abs == INSTANCE WorkerAbs WITH pending <- scheduled,
                               busy <- pc \in {"set", "fn"},
                               enabled <- pc \notin {"parked", "exit"}

\* Requests coalesce but each is followed by a run, and none runs at rest.
KeepsPromise == Abs!Spec
=============================================================================
