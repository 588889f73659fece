----------------------------- MODULE Lifecycle -----------------------------
(* The life of one USB device: probe, the init work, the network interface,  *)
(* chip resets, a bus that hangs, suspend and disconnect (mt7921/usb.c,      *)
(* mt792x_usb.c, mt7921/init.c, mt7921/mac.c, mt792x_core.c, mac80211.c),    *)
(* with the firmware load that two works share (mt7921/mcu.c, connac_mcu.c). *)
(* Contexts: the USB core (one call of the driver at a time), mac80211 (one  *)
(* call at a time), init_work, reset_work and usb_reset_work.                *)
EXTENDS Naturals

CONSTANTS
  ResetTries,  \* tries of reset_work: 10 in the code
  InitTries,   \* STANDALONE_MT792x_MCU_INIT_RETRY_COUNT
  MaxFaults    \* bound: steps that fail, commands lost, firmware hangs

ASSUME LifeAssumption ==
  ResetTries \in Nat \ {0} /\ InitTries \in Nat \ {0} /\ MaxFaults \in Nat

VARIABLES
  core,    \* the call the USB core makes of the driver, or its last one
  net,     \* the interface: "down", "up", "stopping"
  bits,    \* phy.state and the flags of the device
  stage,   \* where init_work and reset_work are
  tries,   \* failed tries of each
  again,   \* reset_work was queued again while it runs
  fw,      \* "off", "ready", or "hung": it answers no more
  sem,     \* the firmware's patch semaphore is ours
  usb,     \* usb_reset_work queued, usb_reset_pending, a reset the USB core
           \* has queued, and one it refused because the device was asleep
  faults

lifeVars == <<core, net, bits, stage, tries, again, fw, sem, usb, faults>>

Works == {"init", "reset"}
Bits == {"INITIALIZED", "REGISTERED", "RUNNING", "RESET",
         "hw_init_done", "hw_full_reset", "suspended", "bus_hung"}
Loading == {"sem", "patch", "release", "release_err", "ram", "config"}
Cores == {"unbound", "bound", "wait_init", "unregister", "free", "flush", "asleep"}
Steps == {"idle", "queued", "loaded", "failed", "extras", "deep_sleep", "check", "stop",
          "hung", "finish", "iter"} \cup Loading
NoUsb == [work |-> FALSE, pending |-> FALSE, queued |-> FALSE, lost |-> FALSE]

MayFail == faults < MaxFaults
Fault == faults' = faults + 1
At(w, p) == stage' = [stage EXCEPT ![w] = p]

\* Mutant: accepted as soon as the device is initialized.
AcceptsEarly == "INITIALIZED" \in bits /\ {"hw_full_reset", "suspended"} \cap bits = {}

\* A request for a reset is taken up.
Accepts == "hw_init_done" \in bits /\ {"hw_full_reset", "suspended"} \cap bits = {}

\* Queues reset_work, p being where the works are; stop cancels it, and while it
\* does nothing can queue it.
Queues(p) ==
  IF net = "stopping" \/ p["reset"] = "queued" THEN stage' = p /\ again' = again
  ELSE IF p["reset"] = "idle" THEN stage' = [p EXCEPT !["reset"] = "queued"] /\ again' = again
  ELSE stage' = p /\ again' = TRUE

Requests(p, accepted) == IF accepted THEN Queues(p) ELSE stage' = p /\ again' = again

-----------------------------------------------------------------------------
(* The firmware load, run by a work w.                                      *)
SemGet(w) ==
  /\ stage[w] = "sem"
  /\ fw' = "off"
  /\ \/ ~sem /\ sem' = TRUE /\ At(w, "patch") /\ UNCHANGED faults
     \/ ~sem /\ At(w, "ram") /\ UNCHANGED <<sem, faults>>        \* PATCH_IS_DL
     \/ sem /\ At(w, "failed") /\ UNCHANGED <<sem, faults>>
     \/ MayFail /\ Fault /\ At(w, "failed") /\ UNCHANGED sem
  /\ UNCHANGED <<core, net, bits, tries, again, usb>>

\* A region is refused, the file is missing or wrong, or all were sent.
SendPatch(w) ==
  /\ stage[w] = "patch"
  /\ \/ At(w, "release") /\ UNCHANGED faults
     \/ MayFail /\ Fault /\ At(w, "release_err")
  /\ UNCHANGED <<core, net, bits, tries, again, fw, sem, usb>>

SemRelease(w) ==
  /\ stage[w] \in {"release", "release_err"}
  /\ \/ /\ sem' = FALSE
        /\ At(w, IF stage[w] = "release" THEN "ram" ELSE "failed")
        /\ UNCHANGED faults
     \/ MayFail /\ Fault /\ At(w, "failed") /\ UNCHANGED sem
  /\ UNCHANGED <<core, net, bits, tries, again, fw, usb>>

LoadRam(w) ==
  /\ stage[w] = "ram"
  /\ \/ fw' = "ready" /\ At(w, "config") /\ UNCHANGED faults
     \/ MayFail /\ Fault /\ At(w, "failed") /\ UNCHANGED fw
  /\ UNCHANGED <<core, net, bits, tries, again, sem, usb>>

\* The EEPROM and MAC set-up; the reset starts the phy too, whether or not an
\* interface is up.
Configure(w) ==
  /\ stage[w] = "config"
  /\ \/ /\ fw = "ready"
        /\ At(w, "loaded")
        /\ bits' = IF w = "reset" THEN bits \cup {"RUNNING"} ELSE bits
        /\ UNCHANGED faults
     \/ fw # "ready" /\ At(w, "failed") /\ UNCHANGED <<bits, faults>>
     \/ fw = "ready" /\ MayFail /\ Fault /\ At(w, "failed") /\ UNCHANGED bits
  /\ UNCHANGED <<core, net, tries, again, fw, sem, usb>>

Load(w) == SemGet(w) \/ SendPatch(w) \/ SemRelease(w) \/ LoadRam(w) \/ Configure(w)

\* The whole chip is reset: its semaphore is free.  It may not come back.
WfsysReset ==
  \/ fw' = "off" /\ sem' = FALSE /\ UNCHANGED faults
  \/ MayFail /\ Fault /\ UNCHANGED <<fw, sem>>

-----------------------------------------------------------------------------
(* init_work.                                                               *)
InitBegin ==
  /\ stage["init"] = "queued"
  /\ At("init", "sem")
  /\ bits' = bits \cup {"INITIALIZED"}
  /\ UNCHANGED <<core, net, tries, again, fw, sem, usb, faults>>

\* init_reset; after the last try the work ends, and the device stays as it is.
InitFailed ==
  /\ stage["init"] = "failed"
  /\ WfsysReset
  /\ tries' = [tries EXCEPT !["init"] = @ + 1]
  /\ At("init", IF tries["init"] + 1 < InitTries THEN "sem" ELSE "idle")
  /\ UNCHANGED <<core, net, bits, again, usb>>

InitRegister ==
  /\ stage["init"] = "loaded"
  /\ \/ bits' = bits \cup {"REGISTERED"} /\ At("init", "extras") /\ UNCHANGED faults
     \/ MayFail /\ Fault /\ At("init", "idle") /\ UNCHANGED bits
  /\ UNCHANGED <<core, net, tries, again, fw, sem, usb>>

\* debugfs and thermal; then resets are accepted, and one last command is sent.
InitExtras ==
  /\ stage["init"] = "extras"
  /\ \/ bits' = bits \cup {"hw_init_done"} /\ At("init", "deep_sleep") /\ UNCHANGED faults
     \/ MayFail /\ Fault /\ At("init", "idle") /\ UNCHANGED bits
  /\ UNCHANGED <<core, net, tries, again, fw, sem, usb>>

InitEnd ==
  /\ stage["init"] = "deep_sleep"
  /\ LET p == [stage EXCEPT !["init"] = "idle"]
     IN \/ fw = "ready" /\ stage' = p /\ UNCHANGED <<again, faults>>
        \/ fw # "ready" /\ Requests(p, Accepts) /\ UNCHANGED faults
        \/ fw = "ready" /\ MayFail /\ Fault /\ Requests(p, Accepts)
  /\ UNCHANGED <<core, net, bits, tries, fw, sem, usb>>

InitWork == InitBegin \/ Load("init") \/ InitFailed \/ InitRegister \/ InitExtras \/ InitEnd

-----------------------------------------------------------------------------
(* reset_work, on the device's ordered queue.                               *)
ResetBegin ==
  /\ stage["reset"] = "queued"
  /\ At("reset", "check")
  /\ tries' = [tries EXCEPT !["reset"] = 0]
  /\ bits' = bits \cup {"RESET", "hw_full_reset"}
  /\ UNCHANGED <<core, net, again, fw, sem, usb, faults>>

\* Mutant: a bus error is only noted.
CheckBusQuiet ==
  /\ stage["reset"] = "check"
  /\ IF "bus_hung" \in bits THEN bits' = bits \ {"bus_hung"} /\ At("reset", "stop") /\ UNCHANGED faults
     ELSE \/ At("reset", "stop") /\ UNCHANGED <<bits, faults>>
          \/ MayFail /\ Fault /\ bits' = bits \cup {"bus_hung"} /\ At("reset", "hung")
  /\ UNCHANGED <<core, net, tries, again, fw, sem, usb>>

\* reset_on_bus_error: a bus found hung before is not looked at again.
CheckBus ==
  /\ stage["reset"] = "check"
  /\ IF "bus_hung" \in bits
     THEN bits' = bits \ {"bus_hung"} /\ At("reset", "stop") /\ UNCHANGED <<usb, faults>>
     ELSE \/ At("reset", "stop") /\ UNCHANGED <<bits, usb, faults>>
          \/ /\ MayFail /\ Fault
             /\ bits' = bits \cup {"bus_hung"}
             /\ usb' = [usb EXCEPT !.pending = TRUE, !.work = @ \/ ~usb.pending]
             /\ At("reset", "hung")
  /\ UNCHANGED <<core, net, tries, again, fw, sem>>

\* The queues are stopped, the chip reset, receiving resumed, the power and DMA
\* set up: any error but that of the chip reset ends the try.
StopChip ==
  /\ stage["reset"] = "stop"
  /\ bits' = bits \cup {"RESET"}
  /\ \/ WfsysReset /\ At("reset", "sem")
     \/ MayFail /\ Fault /\ fw' = "off" /\ sem' = FALSE /\ At("reset", "failed")
  /\ UNCHANGED <<core, net, tries, again, usb>>

\* RESET is cleared between two tries.
TryEnds ==
  /\ stage["reset"] \in {"loaded", "failed"}
  /\ bits' = bits \ {"RESET"}
  /\ IF stage["reset"] = "loaded" THEN At("reset", "finish") /\ UNCHANGED tries
     ELSE /\ tries' = [tries EXCEPT !["reset"] = @ + 1]
          /\ At("reset", IF tries["reset"] + 1 < ResetTries THEN "check" ELSE "finish")
  /\ UNCHANGED <<core, net, again, fw, sem, usb, faults>>

Again == IF again THEN "queued" ELSE "idle"

\* The early return: RESET and hw_full_reset stay set.
ResetHung ==
  /\ stage["reset"] = "hung"
  /\ At("reset", Again) /\ again' = FALSE
  /\ UNCHANGED <<core, net, bits, tries, fw, sem, usb, faults>>

\* Mutant: a reset that failed keeps refusing the next.
ResetFinishKeeps ==
  /\ stage["reset"] = "finish"
  /\ bits' = (bits \ {"RESET", "suspended"}) \
             (IF tries["reset"] < ResetTries THEN {"hw_full_reset"} ELSE {})
  /\ At("reset", "iter")
  /\ UNCHANGED <<core, net, tries, again, fw, sem, usb, faults>>

ResetFinish ==
  /\ stage["reset"] = "finish"
  /\ bits' = bits \ {"hw_full_reset", "RESET", "suspended"}
  /\ At("reset", "iter")
  /\ UNCHANGED <<core, net, tries, again, fw, sem, usb, faults>>

\* The interfaces are put back; a command that is lost asks for a reset again.
ResetIter ==
  /\ stage["reset"] = "iter"
  /\ again' = FALSE
  /\ \/ At("reset", Again) /\ UNCHANGED faults
     \/ /\ Accepts /\ net # "stopping"
        /\ IF fw = "ready" THEN MayFail /\ Fault ELSE UNCHANGED faults
        /\ At("reset", "queued")
  /\ UNCHANGED <<core, net, bits, tries, fw, sem, usb>>

ResetWork ==
  \/ ResetBegin \/ CheckBus \/ StopChip \/ Load("reset") \/ TryEnds
  \/ ResetHung \/ ResetFinish \/ ResetIter

-----------------------------------------------------------------------------
(* Commands, and the interface.                                             *)
Hang ==
  /\ fw = "ready" /\ MayFail /\ Fault
  /\ fw' = "hung"
  /\ UNCHANGED <<core, net, bits, stage, tries, again, sem, usb>>

\* A command of any caller is not answered, or the firmware dumped its core.
CommandLost ==
  /\ core \notin {"unbound", "free"} /\ Accepts
  /\ IF fw = "ready" THEN MayFail /\ Fault ELSE UNCHANGED faults
  /\ Requests(stage, Accepts)
  /\ UNCHANGED <<core, net, bits, tries, fw, sem, usb>>

Start ==
  /\ net = "down" /\ "REGISTERED" \in bits /\ core \in {"bound", "wait_init"}
  /\ \/ fw = "ready" /\ net' = "up" /\ bits' = bits \cup {"RUNNING"}
        /\ UNCHANGED <<stage, again, faults>>
     \/ /\ IF fw = "ready" THEN MayFail /\ Fault ELSE UNCHANGED faults
        /\ Requests(stage, Accepts) /\ UNCHANGED <<net, bits>>
  /\ UNCHANGED <<core, tries, fw, sem, usb>>

\* The user, or unregister_hw, takes the interface down: reset_work is cancelled.
Stop ==
  /\ net = "up" /\ core \in {"bound", "unregister"}
  /\ net' = "stopping"
  /\ stage' = [stage EXCEPT !["reset"] = IF @ = "queued" THEN "idle" ELSE @]
  /\ again' = FALSE
  /\ UNCHANGED <<core, bits, tries, fw, sem, usb, faults>>

\* Once it has returned; the last command may ask for another reset.
StopEnd ==
  /\ net = "stopping" /\ stage["reset"] = "idle"
  /\ net' = "down"
  /\ bits' = bits \ {"RUNNING"}
  /\ \/ fw = "ready" /\ UNCHANGED <<stage, faults>>
     \/ /\ IF fw = "ready" THEN MayFail /\ Fault ELSE UNCHANGED faults
        /\ stage' = [stage EXCEPT !["reset"] = IF Accepts THEN "queued" ELSE @]
  /\ UNCHANGED <<core, tries, again, fw, sem, usb>>

-----------------------------------------------------------------------------
(* The USB core.                                                            *)
LifeInit ==
  /\ core = "unbound" /\ net = "down" /\ bits = {}
  /\ stage = [w \in Works |-> "idle"] /\ tries = [w \in Works |-> 0] /\ again = FALSE
  /\ fw = "off" /\ sem = FALSE /\ usb = NoUsb /\ faults = 0

\* It fails without a trace, or queues init_work.
Probe ==
  /\ core = "unbound"
  /\ \/ core' = "bound" /\ At("init", "queued") /\ UNCHANGED faults
     \/ MayFail /\ Fault /\ UNCHANGED <<core, stage>>
  /\ bits' = {} /\ usb' = NoUsb /\ tries' = [w \in Works |-> 0]
  /\ fw' = "off" /\ sem' = FALSE
  /\ UNCHANGED <<net, again>>

UsbResetWork ==
  /\ usb.work /\ core # "unbound"
  /\ usb' = [usb EXCEPT !.work = FALSE, !.pending = FALSE, !.queued = TRUE]
  /\ UNCHANGED <<core, net, bits, stage, tries, again, fw, sem, faults>>

\* Unplugged, unbound by the user, or reset: the driver has no pre_reset.
Disconnect ==
  /\ core = "bound"
  /\ core' = "wait_init"
  /\ usb' = [usb EXCEPT !.work = FALSE, !.pending = FALSE, !.queued = FALSE]
  /\ stage' = [stage EXCEPT !["init"] = IF @ = "queued" THEN "idle" ELSE @]
  /\ UNCHANGED <<net, bits, tries, again, fw, sem, faults>>

\* A device that init_work has not touched is left allocated.
InitCancelled ==
  /\ core = "wait_init" /\ stage["init"] = "idle"
  /\ core' = IF "INITIALIZED" \in bits THEN "unregister" ELSE "unbound"
  /\ UNCHANGED <<net, bits, stage, tries, again, fw, sem, usb, faults>>

\* mac80211 has taken the interface down; the chip is reset, the queues freed.
Cleanup ==
  /\ core = "unregister" /\ net = "down"
  /\ core' = "free"
  /\ bits' = bits \ {"INITIALIZED"}
  /\ WfsysReset
  /\ UNCHANGED <<net, stage, tries, again, usb>>

\* Destroying the queue of reset_work drains it.
Free ==
  /\ core = "free" /\ stage["reset"] = "idle"
  /\ core' = "unbound" /\ bits' = {}
  /\ UNCHANGED <<net, stage, tries, again, fw, sem, usb, faults>>

Suspend ==
  /\ core = "bound" /\ core' = "flush"
  /\ bits' = bits \cup {"suspended"}
  /\ UNCHANGED <<net, stage, tries, again, fw, sem, usb, faults>>

\* The device is awake again after a failure of Suspend or Resume.
WokenUp(failed) ==
  /\ core' = "bound" /\ bits' = bits \ {"suspended"}
  /\ Requests(stage, failed /\ Accepts')

Flushed ==
  /\ core = "flush" /\ stage["reset"] = "idle"
  /\ \/ fw = "ready" /\ core' = "asleep" /\ UNCHANGED <<bits, stage, again, faults>>
     \/ fw # "ready" /\ WokenUp(TRUE) /\ UNCHANGED faults
     \/ fw = "ready" /\ MayFail /\ Fault /\ WokenUp(TRUE)
  /\ UNCHANGED <<net, tries, fw, sem, usb>>

Resume ==
  /\ core = "asleep"
  /\ \/ fw = "ready" /\ WokenUp(FALSE) /\ UNCHANGED faults
     \/ fw # "ready" /\ WokenUp(TRUE) /\ UNCHANGED faults
     \/ fw = "ready" /\ MayFail /\ Fault /\ WokenUp(TRUE)
  /\ UNCHANGED <<net, tries, fw, sem, usb>>

\* A device that sleeps is not reset, and nothing asks again.
CoreReset ==
  /\ usb.queued /\ core = "asleep"
  /\ usb' = [usb EXCEPT !.queued = FALSE, !.lost = TRUE]
  /\ UNCHANGED <<core, net, bits, stage, tries, again, fw, sem, faults>>

UsbCore == InitCancelled \/ Cleanup \/ Free \/ Flushed \/ Resume

LifeNext ==
  \/ InitWork \/ ResetWork \/ UsbResetWork \/ UsbCore
  \/ Probe \/ Disconnect \/ Suspend \/ CoreReset
  \/ Hang \/ CommandLost \/ Start \/ Stop \/ StopEnd

\* Works and the calls of the USB core go on; a reset that the USB core has queued
\* disconnects the device, and unregister_hw takes the interface down.
Fairness ==
  /\ WF_lifeVars(InitWork) /\ WF_lifeVars(ResetWork) /\ WF_lifeVars(UsbResetWork)
  /\ WF_lifeVars(UsbCore) /\ WF_lifeVars(StopEnd)
  /\ WF_lifeVars(core = "unregister" /\ Stop)
  /\ SF_lifeVars(usb.queued /\ Disconnect)

LifeSpec == LifeInit /\ [][LifeNext]_lifeVars /\ Fairness

-----------------------------------------------------------------------------
LifeTypeOK ==
  /\ core \in Cores
  /\ net \in {"down", "up", "stopping"} /\ bits \subseteq Bits
  /\ stage \in [Works -> Steps]
  /\ tries \in [Works -> 0 .. ResetTries + InitTries] /\ again \in BOOLEAN
  /\ fw \in {"off", "ready", "hung"} /\ sem \in BOOLEAN
  /\ usb \in [work : BOOLEAN, pending : BOOLEAN, queued : BOOLEAN, lost : BOOLEAN]
  /\ faults \in 0 .. MaxFaults

\* Neither work outlives the device, whatever asked for a reset while it went.
FreedIsQuiet == core = "unbound" => \A w \in Works : stage[w] = "idle"

\* Two works never load the firmware at the same time.
OneLoader == stage["init"] \in Loading => stage["reset"] \notin Loading \cup {"stop"}

\* The firmware is started only after its patch semaphore was given back.
ReadyIsReleased == fw = "ready" => ~sem

\* The works that load firmware come one after the other, and end before the device.
LoadsAreOrderly == LifeTypeOK /\ FreedIsQuiet /\ OneLoader /\ ReadyIsReleased

\* Once the bus was found hung, and resets are refused, a reset of the USB device
\* is on its way until the driver is unbound.
HungBusIsReset ==
  {"bus_hung", "hw_full_reset"} \subseteq bits /\ core \notin {"wait_init", "unregister", "free"} =>
    usb.work \/ usb.queued \/ usb.lost

\* A reset that was begun always ends with the driver accepting the next one, also
\* when all tries fail or the bus hangs.
EveryResetEnds ==
  stage["reset"] = "check" ~> (stage["reset"] = "idle" /\ "hw_full_reset" \notin bits) \/ usb.lost
=============================================================================
