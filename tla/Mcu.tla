-------------------------------- MODULE Mcu --------------------------------
(***************************************************************************)
(* Commands to the firmware: mcu.c with the message and response functions *)
(* of the mt7921 USB driver, the firmware that may answer late or never,   *)
(* and the chip reset of mt7921/mac.c and mt7921/usb.c, which sends        *)
(* commands itself.  mcu.mutex lets one command be sent at a time; the     *)
(* reset, and many of its callers, hold dev->mutex around it.              *)
(***************************************************************************)
EXTENDS Naturals, Sequences, FiniteSets

CONSTANTS
  Clients,    \* contexts that send commands, besides the reset
  Reset,      \* the reset work
  NumSeqs,    \* 16: the size of the sequence number field
  MaxEvents,  \* bound: commands still to be answered, and events not read
  Tries,      \* bound: how often the reset loads the firmware (10)
  Nobody

Senders == Clients \cup {Reset}

ASSUME SenderAssumption == Reset \notin Clients /\ Nobody \notin Senders
ASSUME SeqAssumption == NumSeqs \in Nat /\ NumSeqs > 2
ASSUME BoundAssumption == {MaxEvents, Tries} \subseteq Nat \ {0}

VARIABLES
  msgSeq,       \* dev->mcu.msg_seq, masked
  at,           \* where each sender is
  mcuLock,      \* the owner of mcu.mutex
  seq,          \* the number it waits for, or 0
  devLock,      \* the owner of dev->mutex
  fw,           \* commands the firmware may still answer
  resQ,         \* dev->mcu.res_q
  rx,           \* the receive queues run
  mcuReset,     \* STATE_MCU_RESET
  wanted,       \* reset_work is queued
  full,         \* dev->hw_full_reset
  phase,        \* "init": hw_init_done is not set yet; "suspend": pm->suspended
  step, tries   \* where the reset is, and how many loads of the firmware failed

command == <<msgSeq, at, seq, mcuLock, fw>>
reset == <<mcuReset, full, step, tries>>
mcuVars == <<command, devLock, resQ, rx, wanted, phase, reset>>

\* A command, and the event that answers it: its number, who sent it (Nobody once the
\* sender has left), and how many commands were sent since: numbers, of which 0 is
\* left out, come back after Cycle commands, and that is as far as we count.
Cycle == NumSeqs - 1
Event == [seq : 1..Cycle, of : Senders \cup {Nobody}, age : 0..Cycle]

McuTypeOK ==
  /\ msgSeq \in 0..Cycle
  /\ at \in [Senders -> {"idle", "lock", "send", "wait", "ok", "failed"}]
  /\ seq \in 0..Cycle
  /\ mcuLock \in Senders \cup {Nobody} /\ devLock \in Senders \cup {Nobody}
  /\ fw \subseteq Event /\ resQ \in Seq(Event)
  /\ rx \in BOOLEAN /\ mcuReset \in BOOLEAN /\ wanted \in BOOLEAN /\ full \in BOOLEAN
  /\ phase \in {"init", "run", "suspend"}
  /\ step \in {"idle", "dev", "mark", "purge", "stop", "clear", "resume", "load", "loading",
             "hung"}
  /\ tries \in 0..Tries

Goto(c, to) == at' = [at EXCEPT ![c] = to]

-----------------------------------------------------------------------------
(* A command: skb_send_and_get_msg.                                        *)

\* A context calls, some after they took dev->mutex.
Call(c) ==
  /\ c \in Clients /\ at[c] = "idle"
  /\ Goto(c, "lock")
  /\ \/ devLock = Nobody /\ devLock' = c
     \/ UNCHANGED devLock
  /\ UNCHANGED <<msgSeq, seq, mcuLock, fw, resQ, rx, wanted, phase, reset>>

Lock(c) ==
  /\ at[c] = "lock" /\ mcuLock = Nobody
  /\ mcuLock' = c
  /\ Goto(c, "send")
  /\ UNCHANGED <<msgSeq, seq, fw, devLock, resQ, rx, wanted, phase, reset>>

Older(r) == [r EXCEPT !.age = IF @ < Cycle THEN @ + 1 ELSE @]
Left(c, r) == IF r.of = c THEN [r EXCEPT !.of = Nobody] ELSE r

\* Each command takes the next number but 0.
NextSeq == IF (msgSeq + 1) % NumSeqs = 0 THEN 1 ELSE (msgSeq + 1) % NumSeqs

\* The message is filled in and sent, or the bulk transfer fails: then too the number
\* is used up.
Send(c) ==
  /\ at[c] = "send"
  /\ msgSeq' = NextSeq
  /\ LET aged == {Older(r) : r \in fw}
         Sent(of) == aged \cup {r \in {[seq |-> NextSeq, of |-> of, age |-> 0]} :
                                   Cardinality(fw) + Len(resQ) < MaxEvents}
     IN  \/ /\ seq' = NextSeq          \* wait_resp
            /\ fw' = Sent(c)
            /\ Goto(c, "wait")
         \/ fw' = Sent(Nobody) /\ Goto(c, "ok") /\ UNCHANGED seq
         \/ fw' = aged /\ Goto(c, "failed") /\ UNCHANGED seq
  /\ resQ' = [i \in DOMAIN resQ |-> Older(resQ[i])]
  /\ UNCHANGED <<mcuLock, devLock, rx, wanted, phase, reset>>

Finish(c, to) ==
  /\ Goto(c, to)
  /\ seq' = 0
  /\ fw' = {Left(c, r) : r \in fw}

\* parse_response: an event with another number is dropped, and the wait goes on.
MatchesAny(c, r) == TRUE                \* mutant: takes what comes
Matches(c, r) == r.seq = seq

Take(c) ==
  /\ at[c] = "wait" /\ resQ # <<>>
  /\ \/ Matches(c, Head(resQ)) /\ Finish(c, "ok")
     \/ ~Matches(c, Head(resQ)) /\ UNCHANGED <<at, seq, fw>>
  /\ resQ' = [i \in DOMAIN Tail(resQ) |-> IF at'[c] = "ok" THEN Left(c, Tail(resQ)[i])
                                                           ELSE Tail(resQ)[i]]
  /\ UNCHANGED <<msgSeq, mcuLock, devLock, rx, wanted, phase, reset>>

\* mt792x_reset: not before the driver is initialised, nor while the device is suspended
\* or a reset in progress.
Request == wanted' = (wanted \/ (phase = "run" /\ ~full))

\* Without an answer the command fails with -ETIMEDOUT and asks for a reset.
NoAnswer(c) ==
  /\ at[c] = "wait"
  /\ Finish(c, "failed")
  /\ resQ' = [i \in DOMAIN resQ |-> Left(c, resQ[i])]
  /\ Request
  /\ UNCHANGED <<msgSeq, mcuLock, devLock, rx, phase, reset>>

SendsAgain(c) ==   \* mutant: a command without an answer is repeated without end
  /\ at[c] = "wait"
  /\ Finish(c, "send")
  /\ resQ' = [i \in DOMAIN resQ |-> Left(c, resQ[i])]
  /\ UNCHANGED <<msgSeq, mcuLock, devLock, rx, wanted, phase, reset>>

TimesOut(c) == NoAnswer(c)

\* The wait ends at once while STATE_MCU_RESET is set and no event is there.
CutShort(c) == mcuReset /\ resQ = <<>> /\ NoAnswer(c)

Returning(c) == at[c] \in {"ok", "failed"}

\* mcu.mutex is released, and then dev->mutex by a caller that had taken it.
Return(c) ==
  /\ c \in Clients /\ Returning(c)
  /\ Goto(c, "idle")
  /\ mcuLock' = Nobody
  /\ devLock' = IF devLock = c THEN Nobody ELSE devLock
  /\ UNCHANGED <<msgSeq, seq, fw, resQ, rx, wanted, phase, reset>>

\* The firmware answers, in any order; rx_event queues the event.
Answer(r) ==
  /\ r \in fw /\ rx
  /\ fw' = fw \ {r}
  /\ resQ' = Append(resQ, r)
  /\ UNCHANGED <<msgSeq, at, seq, mcuLock, devLock, rx, wanted, phase, reset>>

\* It never will.
Ignore(r) ==
  /\ r \in fw
  /\ fw' = fw \ {r}
  /\ UNCHANGED <<msgSeq, at, seq, mcuLock, devLock, resQ, rx, wanted, phase, reset>>

-----------------------------------------------------------------------------
(* The reset: mac_reset_work and mac_reset.                                *)

To(from, to) == step = from /\ step' = to

\* The firmware crashed: other code calls mt792x_reset.
Crash ==
  /\ ~wanted /\ Request /\ wanted'
  /\ UNCHANGED <<command, devLock, resQ, rx, phase, reset>>

\* init_reset, of the only context there is before the device is registered.
InitReset ==
  /\ phase = "init" /\ \A c \in Senders : at[c] = "idle"
  /\ resQ' = <<>> /\ fw' = {} /\ rx' = TRUE
  /\ UNCHANGED <<msgSeq, at, seq, mcuLock, devLock, wanted, phase, reset>>

\* hw_init_done, also of a device that is suspended; suspend, and its failure or resume:
\* these two call mt792x_reset on an error.
Pass ==
  /\ phase' \in {"run", "suspend"} \ {phase}
  /\ wanted' \in {wanted, wanted \/ (phase = "suspend" /\ ~full)}
  /\ UNCHANGED <<command, devLock, resQ, rx, reset>>

Begin ==
  /\ To("idle", "dev") /\ wanted
  /\ wanted' = FALSE /\ full' = TRUE
  /\ UNCHANGED <<command, devLock, resQ, rx, phase, mcuReset, tries>>

LockDev ==
  /\ To("dev", "mark") /\ devLock = Nobody
  /\ devLock' = Reset
  /\ UNCHANGED <<command, resQ, rx, wanted, phase, mcuReset, full, tries>>

\* The bus does not answer: mac_reset returns at once, without an error, and the work
\* leaves hw_full_reset set: no more resets are taken (module Lifecycle goes on from here).
BusHung ==
  /\ To("mark", "hung")
  /\ devLock' = Nobody
  /\ UNCHANGED <<command, resQ, rx, wanted, phase, mcuReset, full, tries>>

Mark ==
  /\ To("mark", "purge")
  /\ mcuReset' = TRUE
  /\ UNCHANGED <<command, devLock, resQ, rx, wanted, phase, full, tries>>

Purge ==
  /\ To("purge", "stop")
  /\ resQ' = <<>>
  /\ UNCHANGED <<command, devLock, rx, wanted, phase, mcuReset, full, tries>>

StopRx ==
  /\ To("stop", "clear")
  /\ rx' = FALSE
  /\ UNCHANGED <<command, devLock, resQ, wanted, phase, mcuReset, full, tries>>

\* wfsys_reset: the firmware forgets what it was asked.  The flag is cleared when no
\* client can be in its wait any more but for those that came since.
Clear ==
  /\ To("clear", "resume")
  /\ fw' = {}
  /\ mcuReset' = FALSE
  /\ UNCHANGED <<msgSeq, at, seq, mcuLock, devLock, resQ, rx, wanted, phase, full, tries>>

ResumeRx ==
  /\ To("resume", "load")
  /\ rx' = TRUE
  /\ UNCHANGED <<command, devLock, resQ, wanted, phase, mcuReset, full, tries>>

\* run_firmware: commands of the reset's own.
Load ==
  /\ To("load", "loading")
  /\ Goto(Reset, "lock")
  /\ UNCHANGED <<msgSeq, seq, mcuLock, fw, devLock, resQ, rx, wanted, phase, mcuReset, full,
                 tries>>

\* mac_reset returns, and the work tries again or is over: the firmware runs, or "chip
\* reset failed".
Again == tries + 1 < Tries /\ tries' = tries + 1 /\ step' = "dev" /\ UNCHANGED <<full, phase>>
Awake == phase' = IF phase = "suspend" THEN "run" ELSE phase
OverOnly ==   \* mutant: a failed reset stays in progress
  tries' = 0 /\ step' = "idle" /\ full' = (at[Reset] # "ok") /\ Awake
Over == tries' = 0 /\ step' = "idle" /\ full' = FALSE /\ Awake

\* resume_rx, mcu_power_on or dma_init fails.  Queues that could not be resumed are as
\* good as a firmware that never answers.
StartFails ==
  /\ step \in {"resume", "load"}
  /\ Again \/ (tries + 1 = Tries /\ Over)
  /\ devLock' = Nobody /\ rx' = TRUE
  /\ UNCHANGED <<command, resQ, wanted, mcuReset>>

LoadEnds ==
  /\ step = "loading" /\ Returning(Reset)
  /\ (at[Reset] # "ok" /\ Again) \/ ((at[Reset] = "ok" \/ tries + 1 = Tries) /\ Over)
  /\ Goto(Reset, "idle")
  /\ mcuLock' = Nobody /\ devLock' = Nobody
  /\ UNCHANGED <<msgSeq, seq, fw, resQ, rx, wanted, mcuReset>>

ResetWork == Begin \/ LockDev \/ BusHung \/ Mark \/ Purge \/ StopRx \/ Clear
             \/ ResumeRx \/ Load \/ StartFails \/ LoadEnds

-----------------------------------------------------------------------------
McuInit ==
  /\ msgSeq = 0
  /\ at = [c \in Senders |-> "idle"]
  /\ mcuLock = Nobody /\ devLock = Nobody /\ seq = 0
  /\ fw = {} /\ resQ = <<>> /\ rx = TRUE
  /\ mcuReset = FALSE /\ wanted = FALSE /\ full = FALSE
  /\ phase = "init"
  /\ step = "idle" /\ tries = 0

Step(c) == Send(c) \/ Take(c) \/ CutShort(c) \/ Return(c)

McuNext ==
  \/ \E c \in Senders : Call(c) \/ Lock(c) \/ Step(c) \/ TimesOut(c)
  \/ \E r \in fw : Answer(r) \/ Ignore(r)
  \/ Crash \/ InitReset \/ Pass \/ ResetWork

McuSpec == McuInit /\ [][McuNext]_mcuVars

\* Contexts are scheduled, time passes, and the mutexes are handed over in turn.
FairMcuSpec ==
  /\ McuSpec
  /\ \A c \in Senders : WF_mcuVars(Step(c) \/ TimesOut(c)) /\ SF_mcuVars(Lock(c))
  /\ SF_mcuVars(LockDev) /\ WF_mcuVars(ResetWork)

-----------------------------------------------------------------------------
\* A command never succeeds with the answer to another one, however late that is
\* and across resets, unless all sequence numbers were used since.
AnswerStep ==
  \A c \in Senders : at[c] = "wait" /\ at'[c] = "ok" =>
    Head(resQ).of = c \/ Head(resQ).age = Cycle
OwnAnswer == [][McuTypeOK' /\ AnswerStep]_mcuVars

\* Every command returns, also those the reset waits for to get dev->mutex.
CallsReturn == \A c \in Senders : at[c] = "lock" ~> Returning(c)

\* A command without an answer leaves a reset requested or in progress, but during the
\* initialisation and while the device is suspended; and then the chip is reset, or the
\* bus is found hung and the device left to a reset of its own, however many resets
\* failed before.
TimeoutAsks ==
  \A c \in Senders : at[c] = "wait" /\ at'[c] = "failed" => wanted' \/ full \/ phase # "run"
ChipReset == step \in {"resume", "load", "loading"}
TimeoutResets ==
  [][TimeoutAsks]_mcuVars /\ (wanted \/ full ~> ChipReset \/ step = "hung")
=============================================================================
