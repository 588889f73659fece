----------------------------- MODULE DriverProofs -----------------------------
(***************************************************************************)
(* Theorems about the driver above the shared library: the works that load *)
(* and reset the device (Lifecycle) for any number of tries and of faults, *)
(* and what Messages says of power limits for any tables and any bounds.   *)
(***************************************************************************)
EXTENDS Lifecycle, CoreProofs

(***************************************************************************)
(* Lifecycle.                                                              *)
(***************************************************************************)

\* Resets are accepted once init_work has nothing left to load, and a device that
\* accepts them is one that disconnect takes apart.
InitIsFirst ==
  /\ "hw_init_done" \in bits => stage["init"] \in {"idle", "deep_sleep"}
  /\ stage["init"] \notin {"idle", "queued"} => "INITIALIZED" \in bits
  /\ "hw_init_done" \in bits /\ core # "free" => "INITIALIZED" \in bits
  /\ stage["reset"] # "idle" \/ "hw_full_reset" \in bits => "hw_init_done" \in bits
  /\ core \in {"unregister", "free", "unbound"} => stage["init"] = "idle"
  /\ core = "unbound" => "hw_init_done" \notin bits

\* A work has tries left until it gives up.
TriesLeft ==
  /\ stage["init"] \in {"queued", "failed"} \cup Loading => tries["init"] < InitTries
  /\ stage["reset"] \in {"check", "stop", "failed"} \cup Loading => tries["reset"] < ResetTries

\* RAM is downloaded without the semaphore.
RamIsReleased == (fw = "ready" \/ \E w \in Works : stage[w] = "ram") => ~sem

\* A reset that runs refuses others, until the interfaces are put back; a bus that
\* was found hung has ended the reset work.
ResetIsAlone ==
  /\ stage["reset"] \notin {"idle", "queued", "iter"} => "hw_full_reset" \in bits
  /\ stage["reset"] \in {"queued", "iter"} => "hw_full_reset" \notin bits
  /\ again => stage["reset"] = "iter"
  /\ "bus_hung" \in bits => "hw_full_reset" \in bits /\ stage["reset"] \in {"hung", "idle"}
  /\ usb.pending => usb.work

LifeInv == LifeTypeOK /\ InitIsFirst /\ TriesLeft /\ RamIsReleased /\ ResetIsAlone /\ HungBusIsReset

\* The invariant holds when no device has been plugged in.
LEMMA LifeInitInv == LifeInit => LifeInv
<1> SUFFICES ASSUME LifeInit PROVE LifeInv
  OBVIOUS
<1> USE LifeAssumption DEF LifeInit
<1>1. LifeTypeOK
  <2>1. stage \in [Works -> Steps]
    BY DEF Steps
  <2>2. tries \in [Works -> 0 .. ResetTries + InitTries] /\ faults \in 0 .. MaxFaults
    OBVIOUS
  <2>3. usb \in [work : BOOLEAN, pending : BOOLEAN, queued : BOOLEAN, lost : BOOLEAN]
    BY DEF NoUsb
  <2>4. core \in Cores /\ net \in {"down", "up", "stopping"} /\ bits \subseteq Bits
    BY DEF Cores
  <2>5. again \in BOOLEAN /\ fw \in {"off", "ready", "hung"} /\ sem \in BOOLEAN
    OBVIOUS
  <2> QED BY <2>1, <2>2, <2>3, <2>4, <2>5 DEF LifeTypeOK
<1>2. InitIsFirst /\ TriesLeft /\ RamIsReleased /\ ResetIsAlone /\ HungBusIsReset
  BY DEF InitIsFirst, TriesLeft, RamIsReleased, ResetIsAlone, HungBusIsReset, NoUsb, Works, Loading
<1> QED BY <1>1, <1>2 DEF LifeInv

\* The invariant gives the properties.
LEMMA LifeInvImplies == LifeInv => LoadsAreOrderly
<1> SUFFICES ASSUME LifeInv PROVE LoadsAreOrderly
  OBVIOUS
<1>1. FreedIsQuiet
  BY DEF LifeInv, LifeTypeOK, InitIsFirst, FreedIsQuiet, Works
<1>2. OneLoader
  BY DEF LifeInv, InitIsFirst, OneLoader, Loading
<1>3. ReadyIsReleased
  BY DEF LifeInv, RamIsReleased, ReadyIsReleased
<1> QED BY <1>1, <1>2, <1>3 DEF LifeInv, LoadsAreOrderly

\* The load keeps it, whichever work runs it.
LEMMA LoadLife ==
  ASSUME LifeInv, NEW w \in Works, Load(w)
  PROVE  LifeInv'
<1> USE LifeAssumption DEF LifeInv, LifeTypeOK, Works, InitIsFirst, TriesLeft, RamIsReleased,
    ResetIsAlone, HungBusIsReset, At, Fault, MayFail
<1>1. CASE SemGet(w)
  <2>1. LifeTypeOK'
    <3>1. stage' \in [Works -> Steps]
      BY <1>1 DEF SemGet, Steps, Loading
    <3>2. tries' \in [Works -> 0 .. ResetTries + InitTries] /\ faults' \in 0 .. MaxFaults
      BY <1>1 DEF SemGet, Loading
    <3>3. usb' \in [work : BOOLEAN, pending : BOOLEAN, queued : BOOLEAN, lost : BOOLEAN]
      BY <1>1 DEF SemGet
    <3>4. core' \in Cores /\ net' \in {"down", "up", "stopping"} /\ bits' \subseteq Bits
      BY <1>1 DEF SemGet, Bits
    <3>5. again' \in BOOLEAN /\ fw' \in {"off", "ready", "hung"} /\ sem' \in BOOLEAN
      BY <1>1 DEF SemGet
    <3> QED BY <3>1, <3>2, <3>3, <3>4, <3>5
  <2>2. InitIsFirst'
    BY <1>1 DEF SemGet, Loading
  <2>3. TriesLeft'
    BY <1>1 DEF SemGet, Loading
  <2>4. RamIsReleased'
    BY <1>1 DEF SemGet, Loading
  <2>5. ResetIsAlone'
    BY <1>1 DEF SemGet, Loading
  <2>6. HungBusIsReset'
    BY <1>1 DEF SemGet, Loading
  <2> QED BY <2>1, <2>2, <2>3, <2>4, <2>5, <2>6
<1>2. CASE SendPatch(w)
  <2>1. LifeTypeOK'
    BY <1>2 DEF SendPatch, Steps, Loading, Bits
  <2>2. InitIsFirst'
    BY <1>2 DEF SendPatch, Loading
  <2>3. TriesLeft'
    BY <1>2 DEF SendPatch, Loading
  <2>4. RamIsReleased'
    BY <1>2 DEF SendPatch, Loading
  <2>5. ResetIsAlone'
    BY <1>2 DEF SendPatch, Loading
  <2>6. HungBusIsReset'
    BY <1>2 DEF SendPatch, Loading
  <2> QED BY <2>1, <2>2, <2>3, <2>4, <2>5, <2>6
<1>3. CASE SemRelease(w)
  <2>1. LifeTypeOK'
    <3>1. stage' \in [Works -> Steps]
      BY <1>3 DEF SemRelease, Steps, Loading
    <3>2. tries' \in [Works -> 0 .. ResetTries + InitTries] /\ faults' \in 0 .. MaxFaults
      BY <1>3 DEF SemRelease, Loading
    <3>3. usb' \in [work : BOOLEAN, pending : BOOLEAN, queued : BOOLEAN, lost : BOOLEAN]
      BY <1>3 DEF SemRelease
    <3>4. core' \in Cores /\ net' \in {"down", "up", "stopping"} /\ bits' \subseteq Bits
      BY <1>3 DEF SemRelease, Bits
    <3>5. again' \in BOOLEAN /\ fw' \in {"off", "ready", "hung"} /\ sem' \in BOOLEAN
      BY <1>3 DEF SemRelease
    <3> QED BY <3>1, <3>2, <3>3, <3>4, <3>5
  <2>2. InitIsFirst'
    BY <1>3 DEF SemRelease, Loading
  <2>3. TriesLeft'
    BY <1>3 DEF SemRelease, Loading
  <2>4. RamIsReleased'
    BY <1>3 DEF SemRelease, Loading
  <2>5. ResetIsAlone'
    BY <1>3 DEF SemRelease, Loading
  <2>6. HungBusIsReset'
    BY <1>3 DEF SemRelease, Loading
  <2> QED BY <2>1, <2>2, <2>3, <2>4, <2>5, <2>6
<1>4. CASE LoadRam(w)
  <2>1. LifeTypeOK'
    BY <1>4 DEF LoadRam, Steps, Loading, Bits
  <2>2. InitIsFirst'
    BY <1>4 DEF LoadRam, Loading
  <2>3. TriesLeft'
    BY <1>4 DEF LoadRam, Loading
  <2>4. RamIsReleased'
    BY <1>4 DEF LoadRam, Loading
  <2>5. ResetIsAlone'
    BY <1>4 DEF LoadRam, Loading
  <2>6. HungBusIsReset'
    BY <1>4 DEF LoadRam, Loading
  <2> QED BY <2>1, <2>2, <2>3, <2>4, <2>5, <2>6
<1>5. CASE Configure(w)
  <2>1. LifeTypeOK'
    <3>1. stage' \in [Works -> Steps]
      BY <1>5 DEF Configure, Steps, Loading
    <3>2. tries' \in [Works -> 0 .. ResetTries + InitTries] /\ faults' \in 0 .. MaxFaults
      BY <1>5 DEF Configure, Loading
    <3>3. usb' \in [work : BOOLEAN, pending : BOOLEAN, queued : BOOLEAN, lost : BOOLEAN]
      BY <1>5 DEF Configure
    <3>4. core' \in Cores /\ net' \in {"down", "up", "stopping"} /\ bits' \subseteq Bits
      BY <1>5 DEF Configure, Bits
    <3>5. again' \in BOOLEAN /\ fw' \in {"off", "ready", "hung"} /\ sem' \in BOOLEAN
      BY <1>5 DEF Configure
    <3> QED BY <3>1, <3>2, <3>3, <3>4, <3>5
  <2>2. InitIsFirst'
    BY <1>5 DEF Configure, Loading
  <2>3. TriesLeft'
    BY <1>5 DEF Configure, Loading
  <2>4. RamIsReleased'
    BY <1>5 DEF Configure, Loading
  <2>5. ResetIsAlone'
    BY <1>5 DEF Configure, Loading
  <2>6. HungBusIsReset'
    BY <1>5 DEF Configure, Loading
  <2> QED BY <2>1, <2>2, <2>3, <2>4, <2>5, <2>6
<1> QED BY <1>1, <1>2, <1>3, <1>4, <1>5 DEF Load

\* What a request for a reset does to the work, from p on.
Open == "hw_full_reset" \notin bits /\ "hw_init_done" \in bits
Taken ==
  \/ stage'["reset"] = stage["reset"] /\ again' = again
  \/ Open /\ stage["reset"] = "idle" /\ stage'["reset"] = "queued" /\ again' = again
  \/ Open /\ stage["reset"] = "iter" /\ stage'["reset"] = "iter" /\ again' = TRUE

\* A request is refused, or the reset work is idle or at its end, and is queued.
LEMMA RequestTypes ==
  ASSUME LifeInv, NEW p \in [Works -> Steps], p["reset"] = stage["reset"],
         NEW a \in BOOLEAN, a => Open, Requests(p, a)
  PROVE  stage' \in [Works -> Steps] /\ stage'["init"] = p["init"] /\ Taken
<1>1. {"idle", "queued", "iter"} \subseteq Steps /\ {"init", "reset"} = Works
  BY DEF Steps, Works
<1>2. CASE stage' = p /\ again' = again
  BY <1>2 DEF Taken
<1>3. CASE a /\ p["reset"] = "idle" /\ stage' = [p EXCEPT !["reset"] = "queued"] /\ again' = again
  BY <1>1, <1>3 DEF Taken
<1>4. CASE a /\ p["reset"] \notin {"idle", "queued"} /\ stage' = p /\ again' = TRUE
  <2>1. p["reset"] \in Steps
    BY <1>1
  <2>2. p["reset"] = "iter"
    BY <1>4, <2>1 DEF LifeInv, ResetIsAlone, Steps, Open
  <2> QED BY <1>4, <2>2 DEF Taken
<1> QED BY <1>2, <1>3, <1>4 DEF Requests, Queues

\* Such a step keeps the invariant if nothing else changes that it speaks of.
LEMMA RequestKeeps ==
  ASSUME LifeInv, Taken, stage' \in [Works -> Steps],
         stage'["init"] = stage["init"] \/ (stage["init"] = "deep_sleep" /\ stage'["init"] = "idle"),
         bits' \in {bits, bits \ {"suspended"}},
         core' = core \/ (core \in {"flush", "asleep"} /\ core' = "bound"),
         UNCHANGED <<net, tries, fw, sem, usb>>, faults' \in 0 .. MaxFaults
  PROVE  LifeInv'
<1> USE DEF Works, Taken, Open
<1>1. LifeTypeOK'
  <2>1. core' \in Cores /\ bits' \subseteq Bits /\ again' \in BOOLEAN
    BY DEF LifeInv, LifeTypeOK, Cores
  <2> QED BY <2>1 DEF LifeInv, LifeTypeOK
<1>2. InitIsFirst'
  BY DEF LifeInv, LifeTypeOK, InitIsFirst
<1>3. TriesLeft'
  BY DEF LifeInv, LifeTypeOK, TriesLeft, Loading
<1>4. RamIsReleased'
  BY DEF LifeInv, RamIsReleased
<1>5. ResetIsAlone'
  BY DEF LifeInv, ResetIsAlone, Loading
<1>6. HungBusIsReset'
  BY DEF LifeInv, HungBusIsReset
<1> QED BY <1>1, <1>2, <1>3, <1>4, <1>5, <1>6 DEF LifeInv

\* The last command of init_work may ask for a reset.
LEMMA InitEndLife == LifeInv /\ InitEnd => LifeInv'
<1> SUFFICES ASSUME LifeInv, InitEnd PROVE LifeInv'
  OBVIOUS
<1> DEFINE p == [stage EXCEPT !["init"] = "idle"]
<1>1. p \in [Works -> Steps] /\ p["reset"] = stage["reset"] /\ p["init"] = "idle"
  BY DEF LifeInv, LifeTypeOK, Works, Steps
<1>2. PICK a \in BOOLEAN : (a => Accepts) /\ Requests(p, a)
  BY DEF InitEnd, Requests
<1>3. a => Open
  BY <1>2 DEF Accepts, Open
<1>4. /\ UNCHANGED <<core, net, bits, tries, fw, sem, usb>> /\ faults' \in 0 .. MaxFaults
      /\ stage["init"] = "deep_sleep"
  BY LifeAssumption DEF InitEnd, LifeInv, LifeTypeOK, MayFail, Fault
<1> HIDE DEF p
<1>5. stage' \in [Works -> Steps] /\ stage'["init"] = "idle" /\ Taken
  BY <1>1, <1>2, <1>3, RequestTypes
<1>6. /\ bits' \in {bits, bits \ {"suspended"}} /\ core' = core
      /\ UNCHANGED <<net, tries, fw, sem, usb>>
  BY <1>4
<1> QED BY <1>4, <1>5, <1>6, RequestKeeps

\* init_work keeps it.
LEMMA InitWorkLife == LifeInv /\ InitWork => LifeInv'
<1> SUFFICES ASSUME LifeInv, InitWork PROVE LifeInv'
  OBVIOUS
<1> USE LifeAssumption DEF LifeInv, LifeTypeOK, Works, InitIsFirst, TriesLeft, RamIsReleased,
    ResetIsAlone, HungBusIsReset, At, Fault, MayFail
<1>1. CASE InitBegin
  <2>1. LifeTypeOK'
    BY <1>1 DEF InitBegin, Steps, Loading, Bits
  <2>2. InitIsFirst'
    BY <1>1 DEF InitBegin, Loading
  <2>3. TriesLeft'
    BY <1>1 DEF InitBegin, Loading
  <2>4. RamIsReleased'
    BY <1>1 DEF InitBegin, Loading
  <2>5. ResetIsAlone'
    BY <1>1 DEF InitBegin, Loading
  <2>6. HungBusIsReset'
    BY <1>1 DEF InitBegin, Loading
  <2> QED BY <2>1, <2>2, <2>3, <2>4, <2>5, <2>6
<1>2. CASE Load("init")
  BY <1>2, LoadLife
<1>3. CASE InitFailed
  <2>1. LifeTypeOK'
    <3>1. stage' \in [Works -> Steps]
      BY <1>3 DEF InitFailed, WfsysReset, Steps, Loading
    <3>2. tries' \in [Works -> 0 .. ResetTries + InitTries] /\ faults' \in 0 .. MaxFaults
      BY <1>3 DEF InitFailed, WfsysReset, Loading
    <3>3. usb' \in [work : BOOLEAN, pending : BOOLEAN, queued : BOOLEAN, lost : BOOLEAN]
      BY <1>3 DEF InitFailed, WfsysReset
    <3>4. core' \in Cores /\ net' \in {"down", "up", "stopping"} /\ bits' \subseteq Bits
      BY <1>3 DEF InitFailed, WfsysReset, Bits
    <3>5. again' \in BOOLEAN /\ fw' \in {"off", "ready", "hung"} /\ sem' \in BOOLEAN
      BY <1>3 DEF InitFailed, WfsysReset
    <3> QED BY <3>1, <3>2, <3>3, <3>4, <3>5
  <2>2. InitIsFirst'
    BY <1>3 DEF InitFailed, WfsysReset, Loading
  <2>3. TriesLeft'
    BY <1>3 DEF InitFailed, WfsysReset, Loading
  <2>4. RamIsReleased'
    BY <1>3 DEF InitFailed, WfsysReset, Loading
  <2>5. ResetIsAlone'
    BY <1>3 DEF InitFailed, WfsysReset, Loading
  <2>6. HungBusIsReset'
    BY <1>3 DEF InitFailed, WfsysReset, Loading
  <2> QED BY <2>1, <2>2, <2>3, <2>4, <2>5, <2>6
<1>4. CASE InitRegister
  <2>1. LifeTypeOK'
    <3>1. stage' \in [Works -> Steps]
      BY <1>4 DEF InitRegister, Steps, Loading
    <3>2. tries' \in [Works -> 0 .. ResetTries + InitTries] /\ faults' \in 0 .. MaxFaults
      BY <1>4 DEF InitRegister, Loading
    <3>3. usb' \in [work : BOOLEAN, pending : BOOLEAN, queued : BOOLEAN, lost : BOOLEAN]
      BY <1>4 DEF InitRegister
    <3>4. core' \in Cores /\ net' \in {"down", "up", "stopping"} /\ bits' \subseteq Bits
      BY <1>4 DEF InitRegister, Bits
    <3>5. again' \in BOOLEAN /\ fw' \in {"off", "ready", "hung"} /\ sem' \in BOOLEAN
      BY <1>4 DEF InitRegister
    <3> QED BY <3>1, <3>2, <3>3, <3>4, <3>5
  <2>2. InitIsFirst'
    BY <1>4 DEF InitRegister, Loading
  <2>3. TriesLeft'
    BY <1>4 DEF InitRegister, Loading
  <2>4. RamIsReleased'
    BY <1>4 DEF InitRegister, Loading
  <2>5. ResetIsAlone'
    BY <1>4 DEF InitRegister, Loading
  <2>6. HungBusIsReset'
    BY <1>4 DEF InitRegister, Loading
  <2> QED BY <2>1, <2>2, <2>3, <2>4, <2>5, <2>6
<1>5. CASE InitExtras
  <2>1. LifeTypeOK'
    <3>1. stage' \in [Works -> Steps]
      BY <1>5 DEF InitExtras, Steps, Loading
    <3>2. tries' \in [Works -> 0 .. ResetTries + InitTries] /\ faults' \in 0 .. MaxFaults
      BY <1>5 DEF InitExtras, Loading
    <3>3. usb' \in [work : BOOLEAN, pending : BOOLEAN, queued : BOOLEAN, lost : BOOLEAN]
      BY <1>5 DEF InitExtras
    <3>4. core' \in Cores /\ net' \in {"down", "up", "stopping"} /\ bits' \subseteq Bits
      BY <1>5 DEF InitExtras, Bits
    <3>5. again' \in BOOLEAN /\ fw' \in {"off", "ready", "hung"} /\ sem' \in BOOLEAN
      BY <1>5 DEF InitExtras
    <3> QED BY <3>1, <3>2, <3>3, <3>4, <3>5
  <2>2. InitIsFirst'
    BY <1>5 DEF InitExtras, Loading
  <2>3. TriesLeft'
    BY <1>5 DEF InitExtras, Loading
  <2>4. RamIsReleased'
    BY <1>5 DEF InitExtras, Loading
  <2>5. ResetIsAlone'
    BY <1>5 DEF InitExtras, Loading
  <2>6. HungBusIsReset'
    BY <1>5 DEF InitExtras, Loading
  <2> QED BY <2>1, <2>2, <2>3, <2>4, <2>5, <2>6
<1>6. CASE InitEnd
  BY <1>6, InitEndLife
<1> QED BY <1>1, <1>2, <1>3, <1>4, <1>5, <1>6 DEF InitWork

\* reset_work keeps it.
LEMMA ResetWorkLife == LifeInv /\ ResetWork => LifeInv'
<1> SUFFICES ASSUME LifeInv, ResetWork PROVE LifeInv'
  OBVIOUS
<1> USE LifeAssumption DEF LifeInv, LifeTypeOK, Works, InitIsFirst, TriesLeft, RamIsReleased,
    ResetIsAlone, HungBusIsReset, At, Fault, MayFail
<1>1. CASE ResetBegin
  <2>1. LifeTypeOK'
    BY <1>1 DEF ResetBegin, Steps, Loading, Bits
  <2>2. InitIsFirst'
    BY <1>1 DEF ResetBegin, Loading
  <2>3. TriesLeft'
    BY <1>1 DEF ResetBegin, Loading
  <2>4. RamIsReleased'
    BY <1>1 DEF ResetBegin, Loading
  <2>5. ResetIsAlone'
    BY <1>1 DEF ResetBegin, Loading
  <2>6. HungBusIsReset'
    BY <1>1 DEF ResetBegin, Loading
  <2> QED BY <2>1, <2>2, <2>3, <2>4, <2>5, <2>6
<1>2. CASE CheckBus
  <2>1. LifeTypeOK'
    <3>1. stage' \in [Works -> Steps]
      BY <1>2 DEF CheckBus, Steps, Loading
    <3>2. tries' \in [Works -> 0 .. ResetTries + InitTries] /\ faults' \in 0 .. MaxFaults
      BY <1>2 DEF CheckBus, Loading
    <3>3. usb' \in [work : BOOLEAN, pending : BOOLEAN, queued : BOOLEAN, lost : BOOLEAN]
      BY <1>2 DEF CheckBus
    <3>4. core' \in Cores /\ net' \in {"down", "up", "stopping"} /\ bits' \subseteq Bits
      BY <1>2 DEF CheckBus, Bits
    <3>5. again' \in BOOLEAN /\ fw' \in {"off", "ready", "hung"} /\ sem' \in BOOLEAN
      BY <1>2 DEF CheckBus
    <3> QED BY <3>1, <3>2, <3>3, <3>4, <3>5
  <2>2. InitIsFirst'
    BY <1>2 DEF CheckBus, Loading
  <2>3. TriesLeft'
    BY <1>2 DEF CheckBus, Loading
  <2>4. RamIsReleased'
    BY <1>2 DEF CheckBus, Loading
  <2>5. ResetIsAlone'
    BY <1>2 DEF CheckBus, Loading
  <2>6. HungBusIsReset'
    BY <1>2 DEF CheckBus, Loading
  <2> QED BY <2>1, <2>2, <2>3, <2>4, <2>5, <2>6
<1>3. CASE StopChip
  <2>1. LifeTypeOK'
    <3>1. stage' \in [Works -> Steps]
      BY <1>3 DEF StopChip, WfsysReset, Steps, Loading
    <3>2. tries' \in [Works -> 0 .. ResetTries + InitTries] /\ faults' \in 0 .. MaxFaults
      BY <1>3 DEF StopChip, WfsysReset, Loading
    <3>3. usb' \in [work : BOOLEAN, pending : BOOLEAN, queued : BOOLEAN, lost : BOOLEAN]
      BY <1>3 DEF StopChip, WfsysReset
    <3>4. core' \in Cores /\ net' \in {"down", "up", "stopping"} /\ bits' \subseteq Bits
      BY <1>3 DEF StopChip, WfsysReset, Bits
    <3>5. again' \in BOOLEAN /\ fw' \in {"off", "ready", "hung"} /\ sem' \in BOOLEAN
      BY <1>3 DEF StopChip, WfsysReset
    <3> QED BY <3>1, <3>2, <3>3, <3>4, <3>5
  <2>2. InitIsFirst'
    BY <1>3 DEF StopChip, WfsysReset, Loading
  <2>3. TriesLeft'
    BY <1>3 DEF StopChip, WfsysReset, Loading
  <2>4. RamIsReleased'
    BY <1>3 DEF StopChip, WfsysReset, Loading
  <2>5. ResetIsAlone'
    BY <1>3 DEF StopChip, WfsysReset, Loading
  <2>6. HungBusIsReset'
    BY <1>3 DEF StopChip, WfsysReset, Loading
  <2> QED BY <2>1, <2>2, <2>3, <2>4, <2>5, <2>6
<1>4. CASE Load("reset")
  BY <1>4, LoadLife
<1>5. CASE TryEnds
  <2>1. LifeTypeOK'
    BY <1>5 DEF TryEnds, Steps, Loading, Bits
  <2>2. InitIsFirst'
    BY <1>5 DEF TryEnds, Loading
  <2>3. TriesLeft'
    BY <1>5 DEF TryEnds, Loading
  <2>4. RamIsReleased'
    BY <1>5 DEF TryEnds, Loading
  <2>5. ResetIsAlone'
    BY <1>5 DEF TryEnds, Loading
  <2>6. HungBusIsReset'
    BY <1>5 DEF TryEnds, Loading
  <2> QED BY <2>1, <2>2, <2>3, <2>4, <2>5, <2>6
<1>6. CASE ResetHung
  <2>1. LifeTypeOK'
    BY <1>6 DEF ResetHung, Again, Steps, Loading, Bits
  <2>2. InitIsFirst'
    BY <1>6 DEF ResetHung, Again, Loading
  <2>3. TriesLeft'
    BY <1>6 DEF ResetHung, Again, Loading
  <2>4. RamIsReleased'
    BY <1>6 DEF ResetHung, Again, Loading
  <2>5. ResetIsAlone'
    BY <1>6 DEF ResetHung, Again, Loading
  <2>6. HungBusIsReset'
    BY <1>6 DEF ResetHung, Again, Loading
  <2> QED BY <2>1, <2>2, <2>3, <2>4, <2>5, <2>6
<1>7. CASE ResetFinish
  <2>1. LifeTypeOK'
    BY <1>7 DEF ResetFinish, Steps, Loading, Bits
  <2>2. InitIsFirst'
    BY <1>7 DEF ResetFinish, Loading
  <2>3. TriesLeft'
    BY <1>7 DEF ResetFinish, Loading
  <2>4. RamIsReleased'
    BY <1>7 DEF ResetFinish, Loading
  <2>5. ResetIsAlone'
    BY <1>7 DEF ResetFinish, Loading
  <2>6. HungBusIsReset'
    BY <1>7 DEF ResetFinish, Loading
  <2> QED BY <2>1, <2>2, <2>3, <2>4, <2>5, <2>6
<1>8. CASE ResetIter
  <2>1. LifeTypeOK'
    <3>1. stage' \in [Works -> Steps]
      BY <1>8 DEF ResetIter, Again, Accepts, Steps, Loading
    <3>2. tries' \in [Works -> 0 .. ResetTries + InitTries] /\ faults' \in 0 .. MaxFaults
      BY <1>8 DEF ResetIter, Again, Accepts, Loading
    <3>3. usb' \in [work : BOOLEAN, pending : BOOLEAN, queued : BOOLEAN, lost : BOOLEAN]
      BY <1>8 DEF ResetIter, Again, Accepts
    <3>4. core' \in Cores /\ net' \in {"down", "up", "stopping"} /\ bits' \subseteq Bits
      BY <1>8 DEF ResetIter, Again, Accepts, Bits
    <3>5. again' \in BOOLEAN /\ fw' \in {"off", "ready", "hung"} /\ sem' \in BOOLEAN
      BY <1>8 DEF ResetIter, Again, Accepts
    <3> QED BY <3>1, <3>2, <3>3, <3>4, <3>5
  <2>2. InitIsFirst'
    BY <1>8 DEF ResetIter, Again, Accepts, Loading
  <2>3. TriesLeft'
    BY <1>8 DEF ResetIter, Again, Accepts, Loading
  <2>4. RamIsReleased'
    BY <1>8 DEF ResetIter, Again, Accepts, Loading
  <2>5. ResetIsAlone'
    BY <1>8 DEF ResetIter, Again, Accepts, Loading
  <2>6. HungBusIsReset'
    BY <1>8 DEF ResetIter, Again, Accepts, Loading
  <2> QED BY <2>1, <2>2, <2>3, <2>4, <2>5, <2>6
<1> QED BY <1>1, <1>2, <1>3, <1>4, <1>5, <1>6, <1>7, <1>8 DEF ResetWork

\* A request from elsewhere keeps it.
LEMMA RequestLife ==
  ASSUME LifeInv, NEW a \in BOOLEAN, a => Open, Requests(stage, a), bits' \in {bits, bits \ {"suspended"}},
         core' = core \/ (core \in {"flush", "asleep"} /\ core' = "bound"),
         UNCHANGED <<net, tries, fw, sem, usb>>, faults' \in 0 .. MaxFaults
  PROVE  LifeInv'
<1>1. stage \in [Works -> Steps]
  BY DEF LifeInv, LifeTypeOK
<1>2. stage' \in [Works -> Steps] /\ stage'["init"] = stage["init"] /\ Taken
  BY <1>1, RequestTypes
<1> QED BY <1>2, RequestKeeps

\* A command that fails counts against the bound, or was sent to a hung firmware.
LEMMA FaultTypes ==
  ASSUME LifeInv, UNCHANGED faults \/ (MayFail /\ Fault)
  PROVE  faults' \in 0 .. MaxFaults
  BY LifeAssumption DEF LifeInv, LifeTypeOK, MayFail, Fault

\* Commands and the interface keep it.
LEMMA CommandLife ==
  ASSUME LifeInv, CommandLost \/ Start \/ Hang \/ Stop \/ StopEnd
  PROVE  LifeInv'
<1>1. faults' \in 0 .. MaxFaults
  BY FaultTypes DEF CommandLost, Start, Hang, Stop, StopEnd
<1>2. Accepts => Open
  BY DEF Accepts, Open
<1>3. CASE CommandLost \/ (Start /\ net' = net)
  <2>1. PICK a \in BOOLEAN : (a => Accepts) /\ Requests(stage, a)
    BY <1>3 DEF CommandLost, Start, Requests
  <2>2. UNCHANGED <<core, net, bits, tries, fw, sem, usb>>
    BY <1>3 DEF CommandLost, Start
  <2> QED BY <1>1, <1>2, <2>1, <2>2, RequestLife
<1>4. CASE Start /\ net' # net
  <2>1. bits' = bits \cup {"RUNNING"} /\ net' = "up"
        /\ UNCHANGED <<core, stage, tries, again, fw, sem, usb>>
    BY <1>4 DEF Start
  <2> QED BY <1>1, <2>1 DEF LifeInv, LifeTypeOK, Works, Bits, InitIsFirst, TriesLeft, RamIsReleased,
             ResetIsAlone, HungBusIsReset
<1>5. CASE Hang
  <2>1. fw' = "hung" /\ UNCHANGED <<core, net, bits, stage, tries, again, sem, usb>>
    BY <1>5 DEF Hang
  <2> QED BY <1>1, <2>1 DEF LifeInv, LifeTypeOK, Works, InitIsFirst, TriesLeft, RamIsReleased,
             ResetIsAlone, HungBusIsReset
<1>6. CASE Stop \/ StopEnd
  <2>1. stage' \in [Works -> Steps]
    BY <1>6 DEF Stop, StopEnd, LifeInv, LifeTypeOK, Works, Steps
  <2>2. /\ stage'["init"] = stage["init"]
        /\ \/ stage'["reset"] = stage["reset"] /\ (again' => again)
           \/ stage["reset"] = "queued" /\ stage'["reset"] = "idle" /\ ~again'
           \/ Accepts /\ stage["reset"] = "idle" /\ stage'["reset"] = "queued" /\ again' = again
    BY <1>6 DEF Stop, StopEnd, LifeInv, LifeTypeOK, Works, ResetIsAlone
  <2>3. /\ bits' \in {bits, bits \ {"RUNNING"}} /\ net' \in {"down", "stopping"}
        /\ UNCHANGED <<core, tries, fw, sem, usb>>
    BY <1>6 DEF Stop, StopEnd
  <2>4. again' \in BOOLEAN
    BY <1>6 DEF Stop, StopEnd, LifeInv, LifeTypeOK
  <2>5. LifeTypeOK'
    BY <1>1, <2>1, <2>3, <2>4 DEF LifeInv, LifeTypeOK
  <2>6. InitIsFirst' /\ TriesLeft' /\ RamIsReleased'
    BY <1>2, <2>2, <2>3 DEF LifeInv, InitIsFirst, TriesLeft, RamIsReleased, Loading, Works, Open
  <2>7. ResetIsAlone' /\ HungBusIsReset'
    BY <1>2, <2>2, <2>3 DEF LifeInv, ResetIsAlone, HungBusIsReset, Open
  <2> QED BY <2>5, <2>6, <2>7 DEF LifeInv
<1> QED BY <1>3, <1>4, <1>5, <1>6

\* The USB core keeps it.
LEMMA UsbCoreLife ==
  ASSUME LifeInv, UsbCore \/ UsbResetWork \/ Probe \/ Disconnect \/ Suspend \/ CoreReset
  PROVE  LifeInv'
<1> USE DEF Works
<1>1. faults' \in 0 .. MaxFaults
  BY FaultTypes DEF UsbCore, InitCancelled, Cleanup, Free, Flushed, Resume, UsbResetWork, Probe,
     Disconnect, Suspend, CoreReset, WfsysReset
<1>2. CASE InitCancelled
  <2>1. core = "wait_init" /\ stage["init"] = "idle"
        /\ core' \in {"unregister", "unbound"} /\ (core' = "unbound" => "INITIALIZED" \notin bits)
        /\ UNCHANGED <<net, bits, stage, tries, again, fw, sem, usb>>
    BY <1>2 DEF InitCancelled
  <2> QED BY <1>1, <2>1 DEF LifeInv, LifeTypeOK, Cores, InitIsFirst, TriesLeft, RamIsReleased,
             ResetIsAlone, HungBusIsReset
<1>3. CASE Cleanup
  <2>1. core = "unregister" /\ core' = "free" /\ bits' = bits \ {"INITIALIZED"}
        /\ WfsysReset /\ UNCHANGED <<net, stage, tries, again, usb>>
    BY <1>3 DEF Cleanup
  <2>2. (fw' = "off" /\ ~sem') \/ UNCHANGED <<fw, sem>>
    BY <2>1 DEF WfsysReset
  <2>3. LifeTypeOK'
    BY <1>1, <2>1, <2>2 DEF LifeInv, LifeTypeOK, Cores, WfsysReset
  <2>4. InitIsFirst' /\ TriesLeft' /\ RamIsReleased'
    BY <2>1, <2>2 DEF LifeInv, InitIsFirst, TriesLeft, RamIsReleased, Loading
  <2>5. ResetIsAlone' /\ HungBusIsReset'
    BY <2>1 DEF LifeInv, ResetIsAlone, HungBusIsReset
  <2> QED BY <2>3, <2>4, <2>5 DEF LifeInv
<1>4. CASE Free
  <2>1. core = "free" /\ stage["reset"] = "idle" /\ core' = "unbound" /\ bits' = {}
        /\ UNCHANGED <<net, stage, tries, again, fw, sem, usb>>
    BY <1>4 DEF Free
  <2> QED BY <1>1, <2>1 DEF LifeInv, LifeTypeOK, Cores, InitIsFirst, TriesLeft, RamIsReleased,
             ResetIsAlone, HungBusIsReset
<1>5. CASE (Flushed \/ Resume) /\ core' = "bound"
  <2>1. PICK a \in BOOLEAN : (a => Accepts') /\ Requests(stage, a)
    BY <1>5 DEF Flushed, Resume, WokenUp
  <2>2. /\ core \in {"flush", "asleep"} /\ bits' = bits \ {"suspended"}
        /\ UNCHANGED <<net, tries, fw, sem, usb>>
    BY <1>5 DEF Flushed, Resume, WokenUp
  <2>3. a => Open
    BY <2>1, <2>2 DEF Accepts, Open
  <2> QED BY <1>1, <1>5, <2>1, <2>2, <2>3, RequestLife
<1>6. CASE (Flushed /\ core' # "bound") \/ Suspend
  <2>1. core \in {"flush", "bound"} /\ core' \in {"flush", "asleep"}
        /\ bits' \in {bits, bits \cup {"suspended"}}
        /\ UNCHANGED <<net, stage, tries, again, fw, sem, usb>>
    BY <1>6 DEF Flushed, Suspend, WokenUp
  <2> QED BY <1>1, <2>1 DEF LifeInv, LifeTypeOK, Cores, Bits, InitIsFirst, TriesLeft, RamIsReleased,
             ResetIsAlone, HungBusIsReset
<1>7. CASE UsbResetWork \/ CoreReset
  <2>1. /\ usb' \in [work : BOOLEAN, pending : BOOLEAN, queued : BOOLEAN, lost : BOOLEAN]
        /\ usb'.pending => usb'.work
        /\ usb.work \/ usb.queued \/ usb.lost => usb'.work \/ usb'.queued \/ usb'.lost
    BY <1>7 DEF UsbResetWork, CoreReset, LifeInv, LifeTypeOK, ResetIsAlone
  <2>2. UNCHANGED <<core, net, bits, stage, tries, again, fw, sem>>
    BY <1>7 DEF UsbResetWork, CoreReset
  <2> QED BY <1>1, <2>1, <2>2 DEF LifeInv, LifeTypeOK, InitIsFirst, TriesLeft, RamIsReleased,
             ResetIsAlone, HungBusIsReset
<1>8. CASE Disconnect
  <2>1. /\ usb' \in [work : BOOLEAN, pending : BOOLEAN, queued : BOOLEAN, lost : BOOLEAN]
        /\ ~usb'.pending
    BY <1>8 DEF Disconnect, LifeInv, LifeTypeOK
  <2>2. /\ stage' \in [Works -> Steps] /\ stage'["reset"] = stage["reset"]
        /\ stage'["init"] = stage["init"] \/ (stage["init"] = "queued" /\ stage'["init"] = "idle")
    <3>1. stage \in [Works -> Steps] /\ "idle" \in Steps
      BY DEF LifeInv, LifeTypeOK, Steps
    <3>2. CASE stage["init"] = "queued" /\ stage' = [stage EXCEPT !["init"] = "idle"]
      BY <3>1, <3>2
    <3>3. CASE stage["init"] # "queued" /\ stage' = [stage EXCEPT !["init"] = stage["init"]]
      <4>1. stage' = stage
        BY <3>1, <3>3
      <4> QED BY <3>1, <4>1
    <3> QED BY <1>8, <3>1, <3>2, <3>3 DEF Disconnect
  <2>3. core = "bound" /\ core' = "wait_init" /\ UNCHANGED <<net, bits, tries, again, fw, sem>>
    BY <1>8 DEF Disconnect
  <2>4. LifeTypeOK'
    BY <1>1, <2>1, <2>2, <2>3 DEF LifeInv, LifeTypeOK, Cores
  <2>5. InitIsFirst' /\ TriesLeft' /\ RamIsReleased'
    BY <2>2, <2>3 DEF LifeInv, InitIsFirst, TriesLeft, RamIsReleased, Loading
  <2>6. ResetIsAlone' /\ HungBusIsReset'
    BY <2>1, <2>2, <2>3 DEF LifeInv, ResetIsAlone, HungBusIsReset
  <2> QED BY <2>4, <2>5, <2>6 DEF LifeInv
<1>9. CASE Probe
  <2>1. /\ stage["reset"] = "idle" /\ stage["init"] = "idle" /\ ~again
    BY <1>9 DEF Probe, LifeInv, InitIsFirst, ResetIsAlone
  <2>2. /\ bits' = {} /\ usb' = NoUsb /\ tries' = [w \in Works |-> 0]
        /\ fw' = "off" /\ sem' = FALSE /\ UNCHANGED <<net, again>> /\ core' \in {"bound", "unbound"}
    BY <1>9 DEF Probe
  <2>3. /\ stage' \in [Works -> Steps] /\ stage'["reset"] = "idle"
        /\ stage'["init"] = "idle" \/ (core' = "bound" /\ stage'["init"] = "queued")
    <3>1. stage \in [Works -> Steps] /\ "queued" \in Steps
      BY DEF LifeInv, LifeTypeOK, Steps
    <3>2. stage' = stage \/ (core' = "bound" /\ stage' = [stage EXCEPT !["init"] = "queued"])
      BY <1>9 DEF Probe, At
    <3>3. CASE stage' = stage
      BY <2>1, <3>1, <3>3
    <3>4. CASE core' = "bound" /\ stage' = [stage EXCEPT !["init"] = "queued"]
      BY <2>1, <3>1, <3>4
    <3> QED BY <3>2, <3>3, <3>4
  <2>4. tries' \in [Works -> 0 .. ResetTries + InitTries] /\ tries'["init"] < InitTries
    BY <2>2, LifeAssumption
  <2>5. usb' \in [work : BOOLEAN, pending : BOOLEAN, queued : BOOLEAN, lost : BOOLEAN]
    BY <2>2 DEF NoUsb
  <2>6. LifeTypeOK'
    BY <1>1, <2>2, <2>3, <2>4, <2>5 DEF LifeInv, LifeTypeOK, Cores
  <2>7. InitIsFirst' /\ TriesLeft' /\ RamIsReleased'
    BY <2>2, <2>3, <2>4 DEF InitIsFirst, TriesLeft, RamIsReleased, Loading
  <2>8. ResetIsAlone' /\ HungBusIsReset'
    BY <2>1, <2>2, <2>3 DEF ResetIsAlone, HungBusIsReset, NoUsb
  <2> QED BY <2>6, <2>7, <2>8 DEF LifeInv
<1> QED
  <2>1. Resume => core' = "bound"
    BY DEF Resume, WokenUp
  <2> QED BY <1>2, <1>3, <1>4, <1>5, <1>6, <1>7, <1>8, <1>9, <2>1 DEF UsbCore

\* Every step keeps it.
LEMMA LifeNextInv == LifeInv /\ [LifeNext]_lifeVars => LifeInv'
<1> SUFFICES ASSUME LifeInv, [LifeNext]_lifeVars PROVE LifeInv'
  OBVIOUS
<1>1. CASE InitWork
  BY <1>1, InitWorkLife
<1>2. CASE ResetWork
  BY <1>2, ResetWorkLife
<1>3. CASE UsbCore \/ UsbResetWork \/ Probe \/ Disconnect \/ Suspend \/ CoreReset
  BY <1>3, UsbCoreLife
<1>4. CASE CommandLost \/ Start \/ Hang \/ Stop \/ StopEnd
  BY <1>4, CommandLife
<1>5. CASE UNCHANGED lifeVars
  BY <1>5 DEF lifeVars, LifeInv, LifeTypeOK, InitIsFirst, TriesLeft, RamIsReleased, ResetIsAlone,
     HungBusIsReset
<1> QED BY <1>1, <1>2, <1>3, <1>4, <1>5 DEF LifeNext

LEMMA LifeInvariance == LifeSpec => []LifeInv
  BY LifeInitInv, LifeNextInv, PTL DEF LifeSpec

\* For any number of tries and faults: firmware is loaded by one work at a time, it
\* runs only once its patch semaphore was given back, and no work outlives the device
\* (init_work, reset_work and disconnect).
THEOREM LoadsStayOrderly == LifeSpec => []LoadsAreOrderly
  BY LifeInvariance, LifeInvImplies, PTL

\* A bus found hung has a reset of the USB device on its way, whatever else is asked
\* of the driver meanwhile (reset_on_bus_error and usb_reset_work).
THEOREM HungBusStaysWatched == LifeSpec => []HungBusIsReset
<1>1. LifeInv => HungBusIsReset
  BY DEF LifeInv
<1> QED BY <1>1, LifeInvariance, PTL

(***************************************************************************)
(* Power.  One array of a table, the walk along its run-length coded       *)
(* blocks, and the bounds of one channel.                                  *)
(***************************************************************************)
\* A number is the largest of a set, or the least.
IsMax(m, S) == m \in S /\ \A y \in S : y <= m
LEMMA MaxOf ==
  ASSUME NEW S, S \subseteq Int, NEW m, IsMax(m, S)
  PROVE  Max(S) = m
<1>1. m \in Int /\ \A y \in S : m >= y
  BY DEF IsMax
<1>2. \A x \in S : (\A y \in S : x >= y) => x = m
  BY <1>1 DEF IsMax
<1> QED BY <1>1, <1>2 DEF Max, IsMax

LEMMA MaxOfPowers ==
  ASSUME NEW S, S \subseteq Powers, S # {}
  PROVE  IsMax(Max(S), S)
<1> DEFINE U == {k \in 1 .. 256 : k - 129 \in S}
<1>1. U \in SUBSET (1 .. 256) /\ U # {}
  <2>1. PICK x \in S : TRUE
    OBVIOUS
  <2>2. x \in Int /\ x + 129 \in 1 .. 256 /\ (x + 129) - 129 = x
    BY <2>1 DEF Powers
  <2> QED BY <2>1, <2>2
<1>2. Max(U) \in U
  <2> DEFINE n == 256
  <2>1. n \in Nat /\ U \in SUBSET (1 .. n) /\ U # {}
    BY <1>1
  <2> HIDE DEF U, n
  <2> QED BY <2>1, MaxIndex
<1>3. \A k \in U : k <= Max(U)
  <2> DEFINE V == {k \in Nat : \A j \in U : j <= k}
  <2>1. V \subseteq Nat /\ 256 \in V
    OBVIOUS
  <2>2. PICK m \in V : \A k \in V : m <= k
    <3> HIDE DEF V
    <3> QED BY <2>1, LeastNat
  <2>3. m \in U
    <3> SUFFICES ASSUME m \notin U PROVE FALSE
      OBVIOUS
    <3>1. \A j \in U : j <= m - 1
      <4> TAKE j \in U
      <4>1. j \in Int /\ m \in Int /\ j <= m /\ j # m
        BY <2>2
      <4> QED BY <4>1
    <3>2. m - 1 \in Nat
      <4>1. PICK j \in U : TRUE
        BY <1>1
      <4>2. j \in Int /\ j >= 1 /\ j <= m - 1 /\ m \in Int
        BY <2>2, <3>1
      <4> QED BY <4>2
    <3> QED BY <2>2, <3>1, <3>2
  <2>4. \E x \in U : \A y \in U : x >= y
    BY <2>2, <2>3
  <2>5. \A y \in U : Max(U) >= y
    BY <2>4 DEF Max
  <2> QED BY <2>5
<1> DEFINE m == Max(U) - 129
<1>4. m \in S
  BY <1>2
<1>5. \A y \in S : y <= m
  <2> TAKE y \in S
  <2>1. y + 129 \in U
    BY DEF Powers
  <2>2. y + 129 <= Max(U)
    BY <1>3, <2>1
  <2>3. Max(U) \in Int /\ y \in Int
    BY <1>2 DEF Powers
  <2> QED BY <2>2, <2>3
<1>6. IsMax(m, S)
  BY <1>4, <1>5 DEF IsMax
<1>7. S \subseteq Int
  BY DEF Powers
<1>8. Max(S) = m
  <2> HIDE DEF m
  <2> QED BY <1>6, <1>7, MaxOf
<1> QED BY <1>6, <1>8

LEMMA MinOfNats ==
  ASSUME NEW S, S \subseteq Nat, S # {}
  PROVE  Min(S) \in S /\ \A y \in S : Min(S) <= y
<1>1. PICK m \in S : \A y \in S : m <= y
  BY LeastNat
<1>2. \A y \in S : m \in Nat /\ y \in Nat
  OBVIOUS
<1> QED BY <1>1, <1>2 DEF Min

\* What fits an s8 is what it was; the smaller of two s8 is under both.
LEMMA S8Of == \A x \in Powers : S8(x) = x
  BY DEF S8, Powers
LEMMA S8Under == \A x \in Int : S8(x) \in Powers /\ (x >= -128 => S8(x) <= x)
  BY DEF S8, Powers
LEMMA MinS8Of == 
  /\ \A x, y \in Powers : MinS8(x, y) = Smaller(x, y) /\ MinS8(x, y) \in Powers
  /\ \A x, y \in Int : /\ MinS8(x, y) \in Powers
                       /\ x >= -128 => MinS8(x, y) <= x
                       /\ y >= -128 => MinS8(x, y) <= y
<1>1. \A x, y \in Powers : MinS8(x, y) = Smaller(x, y) /\ MinS8(x, y) \in Powers
  BY S8Of DEF MinS8, Smaller
<1>2. ASSUME NEW x \in Int, NEW y \in Int
      PROVE  /\ MinS8(x, y) \in Powers
             /\ x >= -128 => MinS8(x, y) <= x
             /\ y >= -128 => MinS8(x, y) <= y
  <2>1. S8(x) \in Powers /\ S8(y) \in Powers /\ (x >= -128 => S8(x) <= x) /\ (y >= -128 => S8(y) <= y)
    BY S8Under
  <2>2. S8(x) \in Int /\ S8(y) \in Int
    BY <2>1 DEF Powers
  <2> HIDE DEF S8
  <2> QED BY <2>1, <2>2 DEF MinS8
<1> QED BY <1>1, <1>2
\* One array: the powers of its rates, and the largest of those that count.
Limit(t, entry) == Smaller(t.p.target, entry + t.p.delta)
Applied(t, old, new, size, base, data) ==
  /\ new.pwr \in [1 .. size -> Powers] /\ new.max \in Powers
  /\ \A q \in 1 .. size :
       new.pwr[q] = IF q - base \in 1 .. Len(data) THEN Limit(t, data[q - base])
                    ELSE old.pwr[q]
  /\ IsMax(new.max, {old.max} \cup {Limit(t, data[k]) : k \in {k \in DOMAIN data : data[k] < 126}})
LEMMA Applies ==
  ASSUME NEW t \in TableInput, NEW acc, NEW n \in Nat, acc.pwr \in [1 .. n -> Powers],
         acc.max \in Powers, NEW base \in Nat, NEW data \in Seq(Powers),
         \A k \in DOMAIN data : data[k] + t.p.delta \in Powers
  PROVE  Applied(t, acc, ApplyArray(acc, base, data, "rate", t.p), n, base, data)
<1> DEFINE pwr(i) == MinS8(EntryTarget("rate", i, t.p.target, t.p.chains), data[i + 1] + t.p.delta)
           idx == {i \in 0 .. Len(data) - 1 : Counts("rate", i, t.p.chains, data[i + 1])}
           counts == {k \in DOMAIN data : data[k] < 126}
           S == {acc.max} \cup {pwr(i) : i \in idx}
           T == {acc.max} \cup {Limit(t, data[k]) : k \in counts}
           new == ApplyArray(acc, base, data, "rate", t.p)
<1>1. t.p.target \in Powers /\ t.p.delta \in Powers
  BY DEF TableInput
<1>2. Len(data) \in Nat /\ DOMAIN data = 1 .. Len(data) /\ \A k \in 1 .. Len(data) : data[k] \in Powers
  OBVIOUS
<1>3. ASSUME NEW k \in 1 .. Len(data)
      PROVE  pwr(k - 1) = Limit(t, data[k]) /\ Limit(t, data[k]) \in Powers
  <2>1. k - 1 + 1 = k
    BY <1>2
  <2>2. data[k] + t.p.delta \in Powers
    BY <1>2
  <2>3. EntryTarget("rate", k - 1, t.p.target, t.p.chains) = t.p.target
    BY DEF EntryTarget
  <2>4. pwr(k - 1) = MinS8(t.p.target, data[k] + t.p.delta)
    BY <2>1, <2>3
  <2> QED BY <1>1, <2>2, <2>4, MinS8Of DEF Limit
<1>4. S = T
  <2>1. \A i : i \in idx <=> i + 1 \in counts /\ i \in Nat
    BY <1>2 DEF Counts
  <2>2. ASSUME NEW x \in S PROVE x \in T
    <3>1. ASSUME NEW i \in idx, x = pwr(i) PROVE x \in T
      <4>1. i + 1 \in counts /\ i \in Nat /\ (i + 1) - 1 = i
        <5> HIDE DEF pwr, counts, idx
        <5>1. i + 1 \in counts /\ i \in Nat
          BY <2>1
        <5> QED BY <5>1
      <4>2. i + 1 \in 1 .. Len(data)
        BY <1>2, <4>1
      <4>3. pwr((i + 1) - 1) = Limit(t, data[i + 1])
        BY <1>3, <4>2
      <4>4. x = Limit(t, data[i + 1])
        BY <3>1, <4>1, <4>3
      <4> HIDE DEF pwr, counts
      <4> QED BY <4>1, <4>4
    <3> QED BY <3>1
  <2>3. ASSUME NEW x \in T PROVE x \in S
    <3>1. ASSUME NEW k \in counts, x = Limit(t, data[k]) PROVE x \in S
      <4>1. k \in 1 .. Len(data) /\ k - 1 + 1 = k /\ k - 1 \in Nat
        BY <1>2
      <4>2. k - 1 \in idx
        BY <2>1, <4>1
      <4>3. x = pwr(k - 1)
        BY <1>3, <3>1, <4>1
      <4> HIDE DEF pwr, idx
      <4> QED BY <4>2, <4>3
    <3> QED BY <3>1
  <2> HIDE DEF S, T
  <2> QED BY <2>2, <2>3
<1>5. new.max = Max(S)
  BY DEF ApplyArray
<1>6. T \subseteq Powers /\ T # {}
  BY <1>2, <1>3
<1>7. IsMax(new.max, T) /\ new.max \in Powers
  <2> HIDE DEF T, S, new
  <2>1. IsMax(Max(T), T)
    BY <1>6, MaxOfPowers
  <2>2. IsMax(new.max, T)
    BY <1>4, <1>5, <2>1
  <2> QED BY <1>6, <2>2 DEF IsMax
<1>8. ASSUME NEW k \in 1 .. n
      PROVE  /\ new.pwr[k] = IF k - base \in 1 .. Len(data) THEN Limit(t, data[k - base])
                             ELSE acc.pwr[k]
             /\ new.pwr[k] \in Powers
  <2>1. new.pwr[k] = IF k - base \in 1 .. Len(data) THEN pwr(k - base - 1) ELSE acc.pwr[k]
    BY DEF ApplyArray
  <2>2. CASE k - base \in 1 .. Len(data)
    <3>1. pwr((k - base) - 1) = Limit(t, data[k - base]) /\ Limit(t, data[k - base]) \in Powers
      BY <1>3, <2>2
    <3> HIDE DEF pwr
    <3> QED BY <2>1, <2>2, <3>1
  <2>3. CASE k - base \notin 1 .. Len(data)
    BY <2>1, <2>3
  <2> QED BY <2>2, <2>3
<1>9. new.pwr \in [1 .. n -> Powers]
  <2>1. new.pwr = [k \in 1 .. n |-> new.pwr[k]]
    BY DEF ApplyArray
  <2> HIDE DEF new
  <2> QED BY <1>8, <2>1
<1> HIDE DEF new
<1> QED BY <1>7, <1>8, <1>9 DEF new, Applied

\* The rows of a table, one after the other.
LEMMA Cells ==
  ASSUME NEW n \in Nat, NEW m \in Nat, NEW r \in 0 .. n - 1, NEW k \in 1 .. m
  PROVE  /\ r * m + k \in 1 .. n * m /\ n * m \in Nat
         /\ \A i \in 0 .. n - 1 :
              /\ i * m \in Nat
              /\ (r * m + k) - i * m \in 1 .. m <=> r = i
              /\ r = i => (r * m + k) - i * m = k
<1>1. \A a, b \in Nat : a * m \in Nat /\ (a < b => a * m + m <= b * m)
  <2> TAKE a, b \in Nat
  <2>1. a * m \in Nat
    OBVIOUS
  <2>2. ASSUME a < b PROVE a * m + m <= b * m
    <3>1. PICK d \in Nat : b = a + 1 + d
      <4>1. b - a - 1 \in Nat /\ b = a + 1 + (b - a - 1)
        BY <2>2
      <4> QED BY <4>1
    <3>2. b * m = a * m + m + d * m /\ d * m \in Nat
      BY <3>1
    <3> QED BY <2>1, <3>2
  <2> QED BY <2>1, <2>2
<1>2. r \in Nat /\ k \in Nat /\ r < n /\ k >= 1 /\ k <= m
  OBVIOUS
<1>3. r * m \in Nat /\ n * m \in Nat /\ r * m + m <= n * m
  BY <1>1, <1>2
<1>4. ASSUME NEW i \in 0 .. n - 1
      PROVE  /\ i * m \in Nat
             /\ (r * m + k) - i * m \in 1 .. m <=> r = i
             /\ r = i => (r * m + k) - i * m = k
  <2>1. i \in Nat /\ i * m \in Nat /\ (r < i => r * m + m <= i * m) /\ (i < r => i * m + m <= r * m)
    BY <1>1, <1>2
  <2> DEFINE x == r * m
             y == i * m
  <2>2. /\ i \in Nat /\ y \in Nat /\ x \in Nat /\ (r < i => x + m <= y) /\ (i < r => y + m <= x)
        /\ (r = i => x = y)
    BY <1>3, <2>1
  <2> HIDE DEF x, y
  <2>3. ((x + k) - y \in 1 .. m <=> r = i) /\ (r = i => (x + k) - y = k)
    BY <1>2, <2>2
  <2> QED BY <2>1, <2>3 DEF x, y
<1>5. r * m + k \in 1 .. n * m
  <2>1. \A x, y \in Nat : x + m <= y => x + k \in 1 .. y
    BY <1>2
  <2> QED BY <1>3, <2>1
<1> QED BY <1>3, <1>4, <1>5

\* The same, of one cell and the row i.
CellOf(n, m, r, k, i) ==
  /\ r * m + k \in 1 .. n * m
  /\ (r * m + k) - i * m \in 1 .. m <=> r = i
  /\ r = i => (r * m + k) - i * m = k
LEMMA CellsOf ==
  ASSUME NEW n \in Nat, NEW m \in Nat
  PROVE  \A r, i \in 0 .. n - 1, k \in 1 .. m : CellOf(n, m, r, k, i)
<1> TAKE r, i \in 0 .. n - 1, k \in 1 .. m
<1> QED BY Cells DEF CellOf

LEMMA Reaching ==
  ASSUME NEW bs \in Seq(Block)
  PROVE  LET R == Reaches(bs)
         IN /\ R[0] = 0 /\ \A b \in 0 .. Len(bs) : R[b] \in Nat
            /\ \A b \in 1 .. Len(bs) : R[b] = R[b - 1] + Larger(1, bs[b].count)
            /\ \A a, b \in 0 .. Len(bs) : a <= b => R[a] <= R[b]
<1> DEFINE n == Len(bs)
           times(b) == Larger(1, bs[b].count)
           step == [p \in (1 .. n) \X Nat |-> p[2] + times(p[1])]
           Body(f) == [b \in 0 .. n |-> IF b = 0 THEN 0 ELSE f[b - 1] + Larger(1, bs[b].count)]
           R == CHOOSE f : f = Body(f)
<1>1. n \in Nat /\ \A b \in 1 .. n : times(b) \in Nat
  <2>1. \A b \in 1 .. n : bs[b] \in Block
    OBVIOUS
  <2>2. \A b \in 1 .. n : bs[b].count \in Int
    <3> TAKE b \in 1 .. n
    <3>1. bs[b].count \in Powers
      BY <2>1 DEF Block
    <3>2. \A x \in Powers : x \in Int
      BY DEF Powers
    <3> QED BY <3>1, <3>2
  <2> QED BY <2>2 DEF Larger
<1>2. PICK h : IsRun(h, n, Nat, 0, step)
  <2>1. step \in [(1 .. n) \X Nat -> Nat]
    BY <1>1
  <2> HIDE DEF step, n
  <2> QED BY <1>1, <2>1, RunExists
<1>3. h = Body(h) /\ \A b \in 0 .. n : h[b] \in Nat
  <2>1. h \in [0 .. n -> Nat] /\ h[0] = 0 /\ \A b \in 1 .. n : h[b] = step[<<b, h[b - 1]>>]
    BY <1>2 DEF IsRun
  <2>2. ASSUME NEW b \in 0 .. n PROVE h[b] = IF b = 0 THEN 0 ELSE h[b - 1] + times(b)
    <3>1. CASE b # 0
      <4> HIDE DEF times
      <4>1. b \in 1 .. n /\ b - 1 \in 0 .. n
        BY <1>1, <3>1
      <4>2. h[b - 1] \in Nat
        BY <2>1, <4>1
      <4> QED BY <2>1, <3>1, <4>1, <4>2
    <3> QED BY <2>1, <3>1
  <2> QED BY <2>1, <2>2
<1>4. R = Body(R)
  BY <1>3
<1>5. Reaches(bs) = R
  BY DEF Reaches
<1> HIDE DEF R, n
<1>6. R[0] = 0
  BY <1>1, <1>4
<1>7. ASSUME NEW b \in 1 .. n PROVE R[b] = R[b - 1] + times(b)
  <2>1. b \in 0 .. n /\ b # 0
    BY <1>1
  <2> QED BY <1>4, <2>1
<1>8. \A b \in 0 .. n : R[b] \in Nat
  <2> DEFINE W == [b \in 0 .. n |-> Nat]
  <2>1. ASSUME NEW b \in 1 .. n, R[b - 1] \in W[b - 1] PROVE R[b] \in W[b]
    <3>1. b - 1 \in 0 .. n /\ b \in 0 .. n
      BY <1>1
    <3> HIDE DEF times
    <3> QED BY <1>1, <1>7, <2>1, <3>1
  <2>2. R[0] \in W[0]
    BY <1>1, <1>6
  <2>3. \A b \in 0 .. n : R[b] \in W[b]
    <3> HIDE DEF W
    <3> QED BY <1>1, <2>1, <2>2, Run
  <2> QED BY <2>3
<1>9. ASSUME NEW a \in 0 .. n PROVE \A b \in 0 .. n : a <= b => R[a] <= R[b]
  <2> DEFINE W == [b \in 0 .. n |-> {x \in Nat : a <= b => R[a] <= x}]
  <2>1. ASSUME NEW b \in 1 .. n, R[b - 1] \in W[b - 1] PROVE R[b] \in W[b]
    <3>1. b - 1 \in 0 .. n /\ b \in 0 .. n /\ (a <= b => a <= b - 1 \/ a = b)
      BY <1>1
    <3>2. a <= b - 1 => R[a] <= R[b - 1]
      BY <2>1, <3>1
    <3>3. R[b] \in Nat /\ R[b - 1] \in Nat /\ R[b] = R[b - 1] + times(b) /\ times(b) \in Nat /\ R[a] \in Nat
      BY <1>1, <1>7, <1>8, <3>1
    <3>4. a <= b => R[a] <= R[b]
      <4> HIDE DEF times
      <4> QED BY <3>1, <3>2, <3>3
    <3> QED BY <3>1, <3>3, <3>4
  <2>2. R[0] \in W[0]
    BY <1>1, <1>6
  <2>3. \A b \in 0 .. n : R[b] \in W[b]
    <3> HIDE DEF W
    <3> QED BY <1>1, <2>1, <2>2, Run
  <2> QED BY <2>3
<1> QED BY <1>5, <1>6, <1>7, <1>8, <1>9 DEF n

\* What the walk has done before row i of a table with n rows: the rows up to
\* there have their limits, the others the target, and the block it is at is
\* the first that reaches the next row.
WalkState(size) == [at : Nat, cur : Int, acc : [pwr : [1 .. size -> Powers], max : Powers]]
Before(t, i) ==
  {RowLimit(t, c[1], c[2]) :
     c \in {c \in Rates(t) : c[1] < i /\ Covering(t, c[1]) # {} /\ Entry(t, c[1], c[2]) < 126}}
AtBlock(t, st, i) ==
  LET n == Len(t.dt.mcs)
      R == Reaches(t.dt.mcs)
  IN /\ st.at \in 1 .. n + 1 /\ R[st.at - 1] <= i
     /\ st.at <= n => R[st.at] = i + Larger(1, st.cur)
Walked(t, st, i, base) ==
  /\ st \in WalkState(t.dims.rows * t.dims.len) /\ AtBlock(t, st, i)
  /\ \A r \in 0 .. t.dims.rows - 1, k \in 1 .. t.dims.len :
       st.acc.pwr[r * t.dims.len + k] = IF r < i THEN RowLimit(t, r, k) ELSE t.p.target
  /\ IsMax(st.acc.max, {base} \cup Before(t, i))

\* The block the walk is at is the one that covers the row.
LEMMA AtCovers ==
  ASSUME NEW t \in TableInput, NEW st, NEW i \in Nat, AtBlock(t, st, i), st.cur \in Int
  PROVE  /\ st.at <= Len(t.dt.mcs) <=> Covering(t, i) # {}
         /\ st.at <= Len(t.dt.mcs) => Min(Covering(t, i)) = st.at
<1> DEFINE n == Len(t.dt.mcs)
           R == Reaches(t.dt.mcs)
           C == Covering(t, i)
<1>1. t.dt.mcs \in Seq(Block) /\ n \in Nat /\ DOMAIN t.dt.mcs = 1 .. n
  BY DEF TableInput
<1>2. /\ R[0] = 0 /\ \A b \in 0 .. n : R[b] \in Nat
      /\ \A b \in 1 .. n : R[b] = R[b - 1] + Larger(1, t.dt.mcs[b].count)
      /\ \A a, b \in 0 .. n : a <= b => R[a] <= R[b]
  BY <1>1, Reaching
<1>3. /\ st.at \in 1 .. n + 1 /\ R[st.at - 1] <= i
      /\ st.at <= n => R[st.at] = i + Larger(1, st.cur)
  BY DEF AtBlock
<1>4. \A b : b \in C <=> b \in 1 .. n /\ i < R[b]
  BY <1>1 DEF Covering
<1> HIDE DEF n, R, C
<1>5. CASE st.at <= n
  <2>1. st.at \in 1 .. n /\ st.at - 1 \in 0 .. n /\ st.at \in 0 .. n
    BY <1>1, <1>3, <1>5
  <2>2. R[st.at] > i
    <3>1. Larger(1, st.cur) \in Nat /\ Larger(1, st.cur) >= 1
      BY DEF Larger
    <3> HIDE DEF Larger
    <3> QED BY <1>3, <1>5, <3>1
  <2>3. st.at \in C
    BY <1>2, <1>4, <2>1, <2>2
  <2>4. ASSUME NEW b \in C PROVE st.at <= b
    <3> SUFFICES ASSUME ~(st.at <= b) PROVE FALSE
      OBVIOUS
    <3>1. b \in 0 .. n /\ b <= st.at - 1 /\ i < R[b]
      BY <1>1, <1>4, <2>1
    <3>2. R[b] <= R[st.at - 1]
      BY <1>2, <2>1, <3>1
    <3> QED BY <1>2, <1>3, <2>1, <3>1, <3>2
  <2>5. Min(C) = st.at
    <3>1. C \subseteq Nat /\ C # {}
      BY <1>1, <1>4, <2>3
    <3>2. Min(C) \in C /\ Min(C) <= st.at
      BY <2>3, <3>1, MinOfNats
    <3>3. Min(C) \in Nat /\ st.at \in Nat /\ st.at <= Min(C)
      BY <2>4, <2>3, <3>1, <3>2
    <3> QED BY <3>2, <3>3
  <2> QED BY <1>5, <2>3, <2>5 DEF n, C
<1>6. CASE ~(st.at <= n)
  <2>1. st.at = n + 1 /\ n \in 0 .. n /\ st.at - 1 = n
    BY <1>1, <1>3, <1>6
  <2>2. ASSUME NEW b \in C PROVE FALSE
    <3>1. b \in 0 .. n /\ b <= n /\ i < R[b]
      BY <1>1, <1>4
    <3>2. R[b] <= R[n] /\ R[n] <= i /\ R[n] \in Nat /\ R[b] \in Nat
      BY <1>2, <1>3, <2>1, <3>1
    <3> QED BY <3>1, <3>2
  <2>3. C = {}
    BY <2>2
  <2> QED BY <1>6, <2>3 DEF n, C
<1> QED BY <1>5, <1>6

\* The walk goes on to the block of the next row.
LEMMA AtNext ==
  ASSUME NEW t \in TableInput, NEW st, NEW i \in Nat, AtBlock(t, st, i), st.cur \in Int,
         NEW new,
         IF st.at > Len(t.dt.mcs) THEN new.at = st.at
         ELSE IF st.cur > 1 THEN new.at = st.at /\ new.cur = st.cur - 1
         ELSE /\ new.at = st.at + 1
              /\ new.cur = IF st.at < Len(t.dt.mcs) THEN t.dt.mcs[st.at + 1].count ELSE 0
  PROVE  AtBlock(t, new, i + 1)
<1> DEFINE n == Len(t.dt.mcs)
           R == Reaches(t.dt.mcs)
<1>1. t.dt.mcs \in Seq(Block) /\ n \in Nat
  BY DEF TableInput
<1>2. /\ R[0] = 0 /\ \A b \in 0 .. n : R[b] \in Nat
      /\ \A b \in 1 .. n : R[b] = R[b - 1] + Larger(1, t.dt.mcs[b].count)
  BY <1>1, Reaching
<1>3. /\ st.at \in 1 .. n + 1 /\ R[st.at - 1] <= i
      /\ st.at <= n => R[st.at] = i + Larger(1, st.cur)
  BY DEF AtBlock
<1> HIDE DEF n, R
<1>4. R[st.at - 1] \in Nat /\ R[st.at - 1] <= i + 1
  <2>1. st.at - 1 \in 0 .. n
    BY <1>1, <1>3
  <2>2. R[st.at - 1] \in Nat
    BY <1>2, <2>1
  <2> QED BY <1>3, <2>2
<1>5. CASE st.at > n
  <2>1. new.at = st.at
    BY <1>5 DEF n
  <2>2. ~(st.at <= n)
    BY <1>1, <1>3, <1>5
  <2> QED BY <1>3, <1>4, <2>1, <2>2 DEF AtBlock, n, R
<1>6. CASE st.at <= n /\ st.cur > 1
  <2>0. ~(st.at > n)
    BY <1>1, <1>3, <1>6
  <2>1. new.at = st.at /\ new.cur = st.cur - 1
    BY <2>0, <1>6 DEF n
  <2>2. R[st.at] = i + st.cur
    BY <1>3, <1>6 DEF Larger
  <2>3. R[new.at] = (i + 1) + Larger(1, new.cur)
    <3>1. Larger(1, new.cur) = st.cur - 1
      BY <1>6, <2>1 DEF Larger
    <3> QED BY <2>1, <2>2, <3>1
  <2> QED BY <1>3, <1>4, <2>1, <2>3 DEF AtBlock, n, R
<1>7. CASE st.at <= n /\ ~(st.cur > 1)
  <2>0. ~(st.at > n) /\ st.at \in 1 .. n /\ st.at + 1 - 1 = st.at
    BY <1>1, <1>3, <1>7
  <2>1. new.at = st.at + 1 /\ new.cur = IF st.at < n THEN t.dt.mcs[st.at + 1].count ELSE 0
    BY <2>0, <1>7 DEF n
  <2>2. R[st.at] = i + 1
    <3>1. Larger(1, st.cur) = 1
      BY <1>7 DEF Larger
    <3> QED BY <1>3, <1>7, <3>1
  <2>3. new.at \in 1 .. n + 1 /\ new.at - 1 = st.at
    BY <1>1, <2>0, <2>1
  <2>4. ASSUME new.at <= n PROVE R[new.at] = (i + 1) + Larger(1, new.cur)
    <3>1. st.at < n /\ new.at \in 1 .. n
      BY <1>1, <2>0, <2>1, <2>3, <2>4
    <3>2. new.cur = t.dt.mcs[new.at].count
      BY <2>1, <3>1
    <3> HIDE DEF Larger
    <3> QED BY <1>2, <2>2, <2>3, <3>1, <3>2
  <2>5. R[new.at - 1] <= i + 1
    BY <2>2, <2>3
  <2> QED BY <2>3, <2>4, <2>5 DEF AtBlock, n, R
<1> QED BY <1>1, <1>3, <1>5, <1>6, <1>7

\* A row leaves a state of the walk.
Walks(size) == {st \in WalkState(size) : st.at >= 1}
LEMMA WalkType ==
  ASSUME NEW t \in TableInput, NEW size \in Nat, NEW i \in Nat, NEW st \in Walks(size)
  PROVE  /\ ApplyRow(st, i, t.dims.len, t.dt.mcs, "rate", t.p) \in Walks(size)
         /\ st.at <= Len(t.dt.mcs) =>
              Applied(t, st.acc, ApplyArray(st.acc, i * t.dims.len, t.dt.mcs[st.at].row, "rate", t.p),
                      size, i * t.dims.len, t.dt.mcs[st.at].row)
<1> DEFINE m == t.dims.len
           bs == t.dt.mcs
           row == bs[st.at].row
           old == st.acc
           from == i * m
           acc == ApplyArray(old, from, row, "rate", t.p)
           new == ApplyRow(st, i, m, bs, "rate", t.p)
<1>1. /\ m \in Nat /\ bs \in Seq(Block) /\ Len(bs) \in Nat
      /\ \A b \in 1 .. Len(bs) : /\ bs[b] \in Block /\ Len(bs[b].row) = m
                                 /\ \A k \in 1 .. m : bs[b].row[k] + t.p.delta \in Powers
  <2>1. /\ m \in Nat /\ bs \in Seq(Block)
        /\ \A b \in DOMAIN bs : /\ Len(bs[b].row) = m
                                /\ \A k \in 1 .. m : bs[b].row[k] + t.p.delta \in Powers
    BY DEF TableInput
  <2> HIDE DEF bs, m
  <2> QED BY <2>1
<1>2. /\ st.at \in Nat /\ st.at >= 1 /\ st.cur \in Int /\ old.pwr \in [1 .. size -> Powers]
      /\ old.max \in Powers /\ st = [at |-> st.at, cur |-> st.cur, acc |-> st.acc]
  BY DEF WalkState, Walks
<1>3. CASE st.at > Len(bs)
  <2>1. new = st
    BY <1>3 DEF ApplyRow
  <2>2. ~(st.at <= Len(bs))
    BY <1>1, <1>2, <1>3
  <2> HIDE DEF new, acc
  <2>3. new \in Walks(size)
    BY <2>1
  <2> QED BY <2>2, <2>3 DEF new
<1>4. CASE ~(st.at > Len(bs))
  <2>1. st.at \in 1 .. Len(bs)
    BY <1>1, <1>2, <1>4
  <2>2. row \in Seq(Powers) /\ Len(row) = m /\ DOMAIN row = 1 .. m
        /\ \A k \in DOMAIN row : row[k] + t.p.delta \in Powers
    <3>1. bs[st.at] \in Block /\ Len(row) = m /\ \A k \in 1 .. m : row[k] + t.p.delta \in Powers
      BY <1>1, <2>1
    <3>2. row \in Seq(Powers)
      BY <3>1 DEF Block
    <3> HIDE DEF row
    <3> QED BY <3>1, <3>2
  <2>3. from \in Nat
    BY <1>1
  <2>4. Applied(t, old, acc, size, from, row)
    <3> HIDE DEF row, from, old
    <3> QED BY <1>2, <2>2, <2>3, Applies
  <2>5. acc \in [pwr : [1 .. size -> Powers], max : Powers]
    <3>1. acc = [pwr |-> acc.pwr, max |-> acc.max]
      BY DEF ApplyArray
    <3> HIDE DEF acc
    <3> QED BY <2>4, <3>1 DEF Applied
  <2>6. CASE st.cur > 1
    <3>1. new = [st EXCEPT !.acc = acc, !.cur = st.cur - 1]
      BY <1>4, <2>6 DEF ApplyRow
    <3>2. st.cur - 1 \in Int
      BY <1>2
    <3>3. new = [at |-> st.at, cur |-> st.cur - 1, acc |-> acc]
      <4> HIDE DEF new, acc
      <4> QED BY <1>2, <3>1
    <3>4. new \in Walks(size)
      <4> HIDE DEF new, acc
      <4> QED BY <1>2, <2>5, <3>2, <3>3 DEF WalkState, Walks
    <3> QED BY <2>4, <3>4
  <2>7. CASE ~(st.cur > 1)
    <3> DEFINE cur == IF st.at < Len(bs) THEN bs[st.at + 1].count ELSE 0
    <3>1. new = [at |-> st.at + 1, acc |-> acc, cur |-> cur]
      BY <1>4, <2>7 DEF ApplyRow
    <3>2. cur \in Int
      <4>1. CASE st.at < Len(bs)
        <5>1. bs[st.at + 1] \in Block
          BY <1>1, <2>1, <4>1
        <5>2. bs[st.at + 1].count \in Powers
          BY <5>1 DEF Block
        <5>3. \A x \in Powers : x \in Int
          BY DEF Powers
        <5> QED BY <4>1, <5>2, <5>3
      <4> QED BY <4>1
    <3>3. st.at + 1 \in Nat /\ st.at + 1 >= 1
      BY <1>2
    <3>4. new \in Walks(size)
      <4> HIDE DEF new, acc, cur
      <4> QED BY <2>5, <3>1, <3>2, <3>3 DEF WalkState, Walks
    <3> QED BY <2>4, <3>4
  <2> QED BY <2>6, <2>7
<1> QED BY <1>3, <1>4

\* One row of the walk.
LEMMA WalkStep ==
  ASSUME NEW t \in TableInput, t.dt.found, NEW base \in Powers, NEW i \in 0 .. t.dims.rows - 1,
         NEW st, Walked(t, st, i, base)
  PROVE  Walked(t, ApplyRow(st, i, t.dims.len, t.dt.mcs, "rate", t.p), i + 1, base)
<1> DEFINE n == t.dims.rows
           m == t.dims.len
           bs == t.dt.mcs
           acc == ApplyArray(st.acc, i * m, bs[st.at].row, "rate", t.p)
           new == ApplyRow(st, i, m, bs, "rate", t.p)
           C == Covering(t, i)
           row == bs[st.at].row
           WS == WalkState(n * m)
<1>1. /\ n \in Nat /\ m \in Nat /\ bs \in Seq(Block) /\ Len(bs) \in Nat /\ DOMAIN bs = 1 .. Len(bs)
      /\ t.p.target \in Powers
      /\ \A b \in 1 .. Len(bs) : /\ bs[b] \in Block /\ Len(bs[b].row) = m
                                 /\ \A k \in 1 .. m : bs[b].row[k] + t.p.delta \in Powers
  <2>1. /\ n \in Nat /\ m \in Nat /\ bs \in Seq(Block) /\ t.p.target \in Powers
        /\ \A b \in DOMAIN bs : /\ Len(bs[b].row) = m
                                /\ \A k \in 1 .. m : bs[b].row[k] + t.p.delta \in Powers
    BY DEF TableInput
  <2> HIDE DEF bs, n, m
  <2> QED BY <2>1
<1>2. /\ st \in WS /\ AtBlock(t, st, i) /\ IsMax(st.acc.max, {base} \cup Before(t, i))
      /\ \A r \in 0 .. n - 1, k \in 1 .. m :
           st.acc.pwr[r * m + k] = IF r < i THEN RowLimit(t, r, k) ELSE t.p.target
  BY DEF Walked
<1>3. /\ st.at \in Nat /\ st.cur \in Int /\ st.acc.pwr \in [1 .. n * m -> Powers]
      /\ st.acc.max \in Powers /\ st.acc \in [pwr : [1 .. n * m -> Powers], max : Powers]
  BY <1>2 DEF WalkState
<1>4. i \in Nat /\ i \in 0 .. n - 1 /\ st.at \in 1 .. Len(bs) + 1
  BY <1>1, <1>2 DEF AtBlock
<1>11. ASSUME NEW r \in 0 .. n - 1, NEW k \in 1 .. m
      PROVE  /\ r * m + k \in 1 .. n * m
             /\ (r * m + k) - i * m \in 1 .. m <=> r = i
             /\ r = i => (r * m + k) - i * m = k
  <2>1. n \in Nat /\ m \in Nat /\ i \in 0 .. n - 1
    BY <1>1, <1>4
  <2> HIDE DEF n, m
  <2>2. CellOf(n, m, r, k, i)
    BY <2>1, CellsOf, Zenon
  <2> QED BY <2>2, Zenon DEF CellOf
<1>12. st \in Walks(n * m)
  BY <1>2, <1>4 DEF Walks
<1>5. AtBlock(t, new, i + 1)
  <2>1. IF st.at > Len(bs) THEN new.at = st.at
        ELSE IF st.cur > 1 THEN new.at = st.at /\ new.cur = st.cur - 1
        ELSE /\ new.at = st.at + 1
             /\ new.cur = IF st.at < Len(bs) THEN bs[st.at + 1].count ELSE 0
    <3> HIDE DEF bs
    <3>1. st = [at |-> st.at, cur |-> st.cur, acc |-> st.acc]
      BY <1>2 DEF WalkState
    <3>2. CASE st.at > Len(bs)
      BY <3>2 DEF ApplyRow
    <3>3. CASE ~(st.at > Len(bs)) /\ st.cur > 1
      <4>1. new = [st EXCEPT !.acc = acc, !.cur = st.cur - 1]
        BY <3>3 DEF ApplyRow
      <4> HIDE DEF new, acc
      <4> QED BY <3>1, <3>3, <4>1
    <3>4. CASE ~(st.at > Len(bs)) /\ ~(st.cur > 1)
      BY <3>4 DEF ApplyRow
    <3> QED BY <3>2, <3>3, <3>4
  <2> HIDE DEF new
  <2> QED BY <1>2, <1>3, <1>4, <2>1, AtNext
<1>6. /\ st.at <= Len(bs) <=> C # {}
      /\ st.at <= Len(bs) => Min(C) = st.at
  <2> QED BY <1>2, <1>3, <1>4, AtCovers
<1>7. ASSUME NEW r \in 0 .. n - 1 
      PROVE  i + 1 \in Nat /\ (r < i + 1 <=> r < i \/ r = i)
  BY <1>4
<1> DEFINE Seen(j) == {c \in Rates(t) : c[1] < j /\ Covering(t, c[1]) # {} /\ Entry(t, c[1], c[2]) < 126}
           Lims(S) == {RowLimit(t, c[1], c[2]) : c \in S}
<1>8. /\ \A j : Before(t, j) = Lims(Seen(j))
      /\ \A j : \A c \in Seen(j) : c[1] \in 0 .. n - 1 /\ c[2] \in 1 .. m
      /\ \A c \in Rates(t) : c[1] \in 0 .. n - 1 /\ c[2] \in 1 .. m
  BY DEF Before, Rates
<1>9. CASE st.at > Len(bs)
  <2>1. new = st
    BY <1>9 DEF ApplyRow
  <2>2. C = {}
    BY <1>1, <1>4, <1>6, <1>9
  <2>3. ASSUME NEW r \in 0 .. n - 1, NEW k \in 1 .. m
        PROVE  new.acc.pwr[r * m + k] = IF r < i + 1 THEN RowLimit(t, r, k) ELSE t.p.target
    <3>1. r = i => RowLimit(t, r, k) = t.p.target
      BY <2>2 DEF RowLimit
    <3>2. r = i => ~(r < i)
      BY <1>4
    <3> HIDE DEF new, C, bs, n, m
    <3> QED BY <1>2, <1>7, <2>1, <3>1, <3>2
  <2>4. Before(t, i + 1) = Before(t, i)
    <3>1. Seen(i + 1) = Seen(i)
      <4>1. \A c \in Rates(t) : Covering(t, c[1]) # {} => c[1] # i
        BY <2>2
      <4> QED BY <1>7, <1>8, <4>1
    <3> QED BY <1>8, <3>1
  <2>5. new \in WS /\ IsMax(new.acc.max, {base} \cup Before(t, i + 1))
    <3> HIDE DEF new, WS
    <3> QED BY <1>2, <2>1, <2>4
  <2>6. Walked(t, new, i + 1, base)
    <3> HIDE DEF new
    <3> QED BY <1>5, <2>3, <2>5, Zenon DEF Walked
  <2> QED BY <2>6
<1>10. CASE ~(st.at > Len(bs))
  <2>1. st.at \in 1 .. Len(bs) /\ C # {} /\ Min(C) = st.at
    BY <1>1, <1>4, <1>6, <1>10
  <2>2. row \in Seq(Powers) /\ Len(row) = m /\ DOMAIN row = 1 .. m /\ \A k \in DOMAIN row : row[k] + t.p.delta \in Powers
    <3>1. bs[st.at] \in Block /\ Len(row) = m /\ \A k \in 1 .. m : row[k] + t.p.delta \in Powers
      BY <1>1, <2>1
    <3>2. row \in Seq(Powers)
      BY <3>1 DEF Block
    <3> HIDE DEF row
    <3> QED BY <3>1, <3>2
  <2> DEFINE size == n * m
             from == i * m
             counts == {k \in DOMAIN row : row[k] < 126}
  <2>3. size \in Nat /\ from \in Nat
    BY <1>1, <1>4
  <2>4. /\ acc.pwr \in [1 .. size -> Powers] /\ acc.max \in Powers
        /\ \A q \in 1 .. size :
             acc.pwr[q] = IF q - from \in 1 .. Len(row) THEN Limit(t, row[q - from])
                          ELSE st.acc.pwr[q]
        /\ IsMax(acc.max, {st.acc.max} \cup {Limit(t, row[k]) : k \in counts})
    <3>1. Applied(t, st.acc, acc, size, from, row)
      <4>1. st.at <= Len(bs)
        BY <2>1
      <4> QED BY <1>4, <1>12, <2>3, <4>1, WalkType
    <3> HIDE DEF acc, size, from, row
    <3> QED BY <3>1 DEF Applied
  <2>5. new.acc = acc /\ new \in WS
    <3>1. new.acc = acc
      <4>1. CASE st.cur > 1
        <5>1. new = [st EXCEPT !.acc = acc, !.cur = st.cur - 1]
          BY <1>10, <4>1 DEF ApplyRow
        <5>2. st = [at |-> st.at, cur |-> st.cur, acc |-> st.acc]
          BY <1>2 DEF WalkState
        <5> HIDE DEF new, acc
        <5> QED BY <5>1, <5>2
      <4>2. CASE ~(st.cur > 1)
        BY <1>10, <4>2 DEF ApplyRow
      <4> QED BY <4>1, <4>2
    <3>2. new \in Walks(size)
      <4> HIDE DEF size
      <4> QED BY <1>4, <1>12, <2>3, WalkType DEF size
    <3> HIDE DEF new
    <3> QED BY <3>1, <3>2 DEF Walks
  <2>6. ASSUME NEW k \in 1 .. m
        PROVE  RowLimit(t, i, k) = Limit(t, row[k]) /\ Entry(t, i, k) = row[k]
    BY <2>1 DEF RowLimit, Entry, Limit
  <2>7. ASSUME NEW r \in 0 .. n - 1, NEW k \in 1 .. m
        PROVE  new.acc.pwr[r * m + k] = IF r < i + 1 THEN RowLimit(t, r, k) ELSE t.p.target
    <3> DEFINE q == r * m + k
    <3>1. q \in 1 .. size /\ (q - from \in 1 .. m <=> r = i) /\ (r = i => q - from = k)
      <4> HIDE DEF n, m
      <4> QED BY <1>11, Zenon
    <3>2. st.acc.pwr[q] = IF r < i THEN RowLimit(t, r, k) ELSE t.p.target
      BY <1>2
    <3>3. acc.pwr[q] = IF q - from \in 1 .. m THEN Limit(t, row[q - from]) ELSE st.acc.pwr[q]
      BY <2>2, <2>4, <3>1
    <3>4. (r < i + 1 <=> r < i \/ r = i) /\ (r = i => RowLimit(t, r, k) = Limit(t, row[k]))
      BY <1>7, <2>6
    <3>5. acc.pwr[q] = IF r < i + 1 THEN RowLimit(t, r, k) ELSE t.p.target
      <4> HIDE DEF q, acc, from, row, size, n, m
      <4>1. CASE r = i
        BY <3>1, <3>3, <3>4, <4>1
      <4>2. CASE r # i
        BY <3>1, <3>2, <3>3, <3>4, <4>2
      <4> QED BY <4>1, <4>2
    <3> HIDE DEF acc, new
    <3> QED BY <2>5, <3>5
  <2>8. {st.acc.max} \cup {Limit(t, row[k]) : k \in counts} \subseteq {st.acc.max} \cup Before(t, i + 1)
    <3>1. ASSUME NEW k \in counts PROVE Limit(t, row[k]) \in Before(t, i + 1)
      <4>1. k \in 1 .. m /\ row[k] < 126
        <5> HIDE DEF row
        <5> QED BY <2>2
      <4>2. <<i, k>> \in Seen(i + 1)
        <5>1. <<i, k>> \in Rates(t) /\ i < i + 1
          BY <1>4, <4>1 DEF Rates
        <5>2. Entry(t, i, k) < 126
          BY <2>6, <4>1
        <5> QED BY <2>1, <5>1, <5>2
      <4>3. RowLimit(t, <<i, k>>[1], <<i, k>>[2]) = Limit(t, row[k])
        BY <2>6, <4>1
      <4> HIDE DEF row, counts, Seen
      <4> QED BY <1>8, <4>2, <4>3
    <3> HIDE DEF row, counts
    <3> QED BY <3>1
  <2>9. ASSUME NEW c \in Seen(i + 1)
        PROVE  RowLimit(t, c[1], c[2]) \in Before(t, i) \cup {Limit(t, row[k]) : k \in counts}
    <3>1. c \in Rates(t) /\ Covering(t, c[1]) # {} /\ Entry(t, c[1], c[2]) < 126
          /\ c[1] \in 0 .. n - 1 /\ c[2] \in 1 .. m /\ c[1] < i + 1
      BY <1>8
    <3>2. CASE c[1] < i
      <4>1. c \in Seen(i)
        BY <3>1, <3>2
      <4> HIDE DEF Seen
      <4> QED BY <1>8, <4>1
    <3>3. CASE c[1] = i
      <4>1. c[2] \in counts
        <5>1. Entry(t, i, c[2]) = row[c[2]] /\ Entry(t, i, c[2]) < 126
          BY <2>6, <3>1, <3>3
        <5> HIDE DEF row
        <5> QED BY <2>2, <3>1, <5>1
      <4>2. RowLimit(t, c[1], c[2]) = Limit(t, row[c[2]])
        BY <2>6, <3>1, <3>3
      <4> HIDE DEF counts, row
      <4> QED BY <4>1, <4>2
    <3> QED BY <1>7, <3>1, <3>2, <3>3
  <2>10. Before(t, i) \subseteq Before(t, i + 1)
    <3>1. Seen(i) \subseteq Seen(i + 1)
      BY <1>7, <1>8
    <3> HIDE DEF Seen
    <3> QED BY <1>8, <3>1
  <2>11. IsMax(new.acc.max, {base} \cup Before(t, i + 1))
    <3> DEFINE L == {Limit(t, row[k]) : k \in counts}
    <3>1. IsMax(acc.max, {st.acc.max} \cup L) /\ IsMax(st.acc.max, {base} \cup Before(t, i))
      BY <1>2, <2>4
    <3>2. /\ L \subseteq {st.acc.max} \cup Before(t, i + 1)
          /\ \A x \in Before(t, i + 1) : x \in Before(t, i) \cup L
      BY <1>8, <2>8, <2>9
    <3>3. new.acc.max = acc.max
      BY <2>5
    <3>4. \A x \in {base} \cup Before(t, i) : x <= st.acc.max
      BY <3>1 DEF IsMax
    <3>5. {base} \cup Before(t, i) \subseteq Int /\ st.acc.max \in Int /\ acc.max \in Int
      <4>1. \A x \in Powers : x \in Int
        BY DEF Powers
      <4>2. \A c \in Seen(i) : RowLimit(t, c[1], c[2]) \in Powers
        <5> TAKE c \in Seen(i)
        <5>1. c[1] \in 0 .. n - 1 /\ c[2] \in 1 .. m /\ c[1] < i
          BY <1>8
        <5>2. st.acc.pwr[c[1] * m + c[2]] = RowLimit(t, c[1], c[2])
          BY <1>2, <5>1
        <5>3. c[1] * m + c[2] \in 1 .. n * m
          <6> HIDE DEF n, m
          <6> QED BY <1>11, <5>1, Zenon
        <5> QED BY <1>3, <5>2, <5>3
      <4> HIDE DEF Seen, acc
      <4>3. Before(t, i) \subseteq Powers
        BY <1>8, <4>2
      <4> QED BY <1>3, <2>4, <4>1, <4>3
    <3>6. st.acc.max <= acc.max /\ acc.max \in {st.acc.max} \cup L /\ \A x \in L : x <= acc.max
      BY <3>1 DEF IsMax
    <3>7. acc.max \in {base} \cup Before(t, i + 1)
      <4>1. st.acc.max \in {base} \cup Before(t, i)
        BY <3>1 DEF IsMax
      <4> HIDE DEF acc, L
      <4> QED BY <2>10, <3>2, <3>6, <4>1
    <3>8. \A x \in {base} \cup Before(t, i + 1) : x <= acc.max
      <4> HIDE DEF acc, L
      <4> TAKE x \in {base} \cup Before(t, i + 1)
      <4>1. x \in {base} \cup Before(t, i) \/ x \in L
        BY <3>2
      <4>2. CASE x \in L
        BY <3>6, <4>2
      <4>3. CASE x \in {base} \cup Before(t, i)
        <5>1. x <= st.acc.max /\ x \in Int
          BY <3>4, <3>5, <4>3
        <5> QED BY <3>5, <3>6, <5>1
      <4> QED BY <4>1, <4>2, <4>3
    <3> HIDE DEF new, acc
    <3> QED BY <3>3, <3>7, <3>8 DEF IsMax
  <2>12. Walked(t, new, i + 1, base)
    <3> HIDE DEF new
    <3> QED BY <1>5, <2>5, <2>7, <2>11, Zenon DEF Walked
  <2> QED BY <2>12
<1> QED BY <1>1, <1>4, <1>9, <1>10

\* The walk is a run through the rows.
LEMMA TableWalk ==
  ASSUME NEW t \in TableInput, t.dt.found, NEW base \in Powers, t.dt.mcs # <<>>,
         NEW acc, acc = [pwr |-> Row(t.dims.rows * t.dims.len, t.p.target), max |-> base],
         NEW out, out = ApplyMultiArray(acc, t.dims.rows, t.dims.len, t.dt.mcs, "rate", t.p)
  PROVE  \E st : Walked(t, st, t.dims.rows, base) /\ out = st.acc
<1> DEFINE n == t.dims.rows
           m == t.dims.len
           size == n * m
           bs == t.dt.mcs
           V == Walks(size)
           s == [i \in 1 .. n |-> i - 1]
           Op(st, i) == ApplyRow(st, i, m, bs, "rate", t.p)
           first == [at |-> 1, cur |-> bs[1].count, acc |-> acc]
           step == [p \in (1 .. n) \X V |-> Op(p[2], s[p[1]])]
           Body(f) == [U \in SUBSET (1 .. n) |->
                         IF U = {} THEN first ELSE Op(f[U \ {Max(U)}], s[Max(U)])]
           it == CHOOSE f : f = Body(f)
           h == [k \in 0 .. n |-> it[1 .. k]]
<1>1. /\ n \in Nat /\ m \in Nat /\ size \in Nat /\ bs \in Seq(Block) /\ bs # <<>>
      /\ t.p.target \in Powers /\ DOMAIN s = 1 .. n /\ \A k \in 1 .. n : s[k] = k - 1
  BY DEF TableInput
<1>2. bs[1] \in Block /\ 1 \in 1 .. Len(bs) /\ bs[1].count \in Int /\ Len(bs) \in Nat
  <2> HIDE DEF bs
  <2>1. bs[1] \in Block /\ 1 \in 1 .. Len(bs) /\ Len(bs) \in Nat
    BY <1>1
  <2>2. bs[1].count \in Powers
    BY <2>1 DEF Block
  <2>3. \A x \in Powers : x \in Int
    BY DEF Powers
  <2> QED BY <2>1, <2>2, <2>3
<1>3. first \in V
  <2>1. acc \in [pwr : [1 .. size -> Powers], max : Powers]
    <3> HIDE DEF size
    <3>1. Row(size, t.p.target) \in [1 .. size -> Powers]
      BY <1>1 DEF Row
    <3> QED BY <3>1 DEF size
  <2> HIDE DEF size, bs
  <2> QED BY <1>2, <2>1 DEF Walks, WalkState
<1>4. step \in [(1 .. n) \X V -> V]
  <2>1. ASSUME NEW p \in (1 .. n) \X V PROVE Op(p[2], s[p[1]]) \in V
    <3>1. s[p[1]] \in Nat /\ p[2] \in V
      BY <1>1
    <3> HIDE DEF s, size
    <3>2. Op(p[2], s[p[1]]) \in Walks(size)
      BY <1>1, <3>1, WalkType
    <3> QED BY <3>2
  <2> HIDE DEF Op, V
  <2> QED BY <2>1
<1>5. PICK f : IsFold(f, n, V, first, step)
  <2> HIDE DEF step, n, V, first
  <2> QED BY <1>1, <1>3, <1>4, FoldExists
<1>6. \A U \in SUBSET (1 .. n) : U # {} => Max(U) \in 1 .. n /\ U \ {Max(U)} \in SUBSET (1 .. n)
  <2> HIDE DEF n
  <2> QED BY <1>1, MaxIndex
<1>7. f = Body(f)
  <2> HIDE DEF n, V, first, Op, s
  <2> QED BY <1>5, <1>6 DEF IsFold
<1>8. it = Body(it)
  BY <1>7
<1>9. out = it[1 .. n].acc
  <2>1. out = FoldLeft(LAMBDA st, i : ApplyRow(st, i, m, bs, "rate", t.p), first, s).acc
    BY <1>1 DEF ApplyMultiArray
  <2>2. FoldLeft(LAMBDA st, i : ApplyRow(st, i, m, bs, "rate", t.p), first, s) = it[1 .. n]
    BY <1>1 DEF FoldLeft, MapThenFoldSet
  <2> QED BY <2>1, <2>2
<1> HIDE DEF it, first, V, n, s
<1>10. h[0] = first
  BY <1>1, <1>8, Prefix
<1>11. ASSUME NEW k \in 1 .. n PROVE h[k] = Op(h[k - 1], k - 1)
  <2>1. k \in 0 .. n /\ k - 1 \in 0 .. n
    BY <1>1
  <2>2. it[1 .. k] = Op(it[1 .. (k - 1)], k - 1)
    <3>1. /\ 1 .. k \in SUBSET (1 .. n) /\ 1 .. k # {}
          /\ Max(1 .. k) = k /\ (1 .. k) \ {k} = 1 .. (k - 1)
      BY <1>1, Prefix
    <3> HIDE DEF Op
    <3>2. \A U \in SUBSET (1 .. n) : U # {} => it[U] = Op(it[U \ {Max(U)}], s[Max(U)])
      BY <1>8
    <3>3. it[1 .. k] = Op(it[(1 .. k) \ {Max(1 .. k)}], s[Max(1 .. k)])
      BY <3>1, <3>2
    <3> QED BY <1>1, <3>1, <3>3
  <2>3. h[k] = it[1 .. k] /\ h[k - 1] = it[1 .. (k - 1)]
    BY <2>1
  <2> HIDE DEF h, Op
  <2> QED BY <2>2, <2>3
<1>12. h[n] = it[1 .. n]
  BY <1>1
<1> HIDE DEF h
<1>13. \A k \in 0 .. n : Walked(t, h[k], k, base)
  <2> DEFINE W == [k \in 0 .. n |-> {st \in V : Walked(t, st, k, base)}]
  <2>1. Walked(t, first, 0, base)
    <3>1. first \in WalkState(size)
      BY <1>3 DEF V, Walks
    <3>2. AtBlock(t, first, 0)
      <4>1. /\ Reaches(bs)[0] = 0 /\ Reaches(bs)[1] = Reaches(bs)[0] + Larger(1, bs[1].count)
        <5> HIDE DEF bs
        <5> QED BY <1>1, <1>2, Reaching
      <4>2. Larger(1, bs[1].count) \in Int
        BY <1>2 DEF Larger
      <4>3. first.at = 1 /\ first.cur = bs[1].count
        BY DEF first
      <4> QED BY <1>2, <4>1, <4>2, <4>3 DEF AtBlock
    <3>3. ASSUME NEW r \in 0 .. n - 1, NEW k \in 1 .. m
          PROVE  first.acc.pwr[r * m + k] = IF r < 0 THEN RowLimit(t, r, k) ELSE t.p.target
      <4>1. r * m + k \in 1 .. size
        <5>1. n \in Nat /\ m \in Nat
          BY <1>1
        <5> HIDE DEF n, m
        <5> QED BY <5>1, Cells, Zenon
      <4>2. ~(r < 0)
        BY <1>1
      <4>3. first.acc.pwr = Row(size, t.p.target)
        BY DEF first, n
      <4> HIDE DEF size
      <4> QED BY <4>1, <4>2, <4>3 DEF Row
    <3>4. Before(t, 0) = {}
      <4>1. \A c \in Rates(t) : ~(c[1] < 0)
        BY <1>1 DEF Rates, n
      <4> QED BY <4>1 DEF Before
    <3>5. IsMax(first.acc.max, {base} \cup Before(t, 0))
      <4>1. \A x \in Powers : x <= x
        BY DEF Powers
      <4> QED BY <3>4, <4>1 DEF IsMax, first
    <3> QED BY <3>1, <3>2, <3>3, <3>5, Zenon DEF Walked, n
  <2>2. h[0] \in W[0]
    BY <1>1, <1>3, <1>10, <2>1
  <2>3. ASSUME NEW k \in 1 .. n, h[k - 1] \in W[k - 1] PROVE h[k] \in W[k]
    <3>1. k - 1 \in 0 .. n /\ k \in 0 .. n /\ k - 1 \in 0 .. n - 1 /\ (k - 1) + 1 = k /\ k - 1 \in Nat
      BY <1>1
    <3>2. h[k - 1] \in V /\ Walked(t, h[k - 1], k - 1, base)
      BY <2>3, <3>1
    <3>3. h[k] \in V
      <4> DEFINE st == h[k - 1]
      <4>1. st \in Walks(size) /\ size \in Nat
        BY <1>1, <3>2 DEF V
      <4> HIDE DEF st, size
      <4>2. ApplyRow(st, k - 1, m, bs, "rate", t.p) \in Walks(size)
        BY <3>1, <4>1, WalkType
      <4> QED BY <1>11, <4>2 DEF V, size, st
    <3>4. Walked(t, Op(h[k - 1], k - 1), (k - 1) + 1, base)
      <4>1. k - 1 \in 0 .. t.dims.rows - 1
        BY <3>1 DEF n
      <4> QED BY <3>2, <4>1, WalkStep
    <3>5. Walked(t, h[k], k, base)
      <4> HIDE DEF Op
      <4> QED BY <1>11, <3>1, <3>4
    <3> QED BY <3>1, <3>3, <3>5
  <2>4. \A k \in 0 .. n : h[k] \in W[k]
    <3> HIDE DEF W
    <3> QED BY <1>1, <2>2, <2>3, Run
  <2> QED BY <2>4
<1>14. Walked(t, h[n], n, base)
  BY <1>1, <1>13
<1> QED BY <1>9, <1>12, <1>14 DEF n

\* Every rate has the limit of its entry, and the largest of those that count
\* is reported.
LEMMA TableApplied ==
  ASSUME NEW t \in TableInput
  PROVE  TableIsApplied(t, RatePowerLimits(t.dt, t.dims, t.p))
<1> DEFINE n == t.dims.rows
           m == t.dims.len
           size == n * m
           one == [pwr |-> Row(t.dims.cck, t.p.target), max |-> -127]
           cck == ApplyArray(one, 0, t.dt.cck, "rate", t.p)
           two == [pwr |-> Row(size, t.p.target), max |-> cck.max]
           mcs == ApplyMultiArray(two, n, m, t.dt.mcs, "rate", t.p)
           out == RatePowerLimits(t.dt, t.dims, t.p)
           First == {CckLimit(t, k) : k \in {k \in DOMAIN t.dt.cck : t.dt.cck[k] < 126}}
<1>1. /\ n \in Nat /\ m \in Nat /\ t.dims.cck \in Nat /\ t.p.target \in Powers /\ t.dt.found \in BOOLEAN
      /\ t.dt.cck \in Seq(Powers) /\ \A k \in DOMAIN t.dt.cck : t.dt.cck[k] + t.p.delta \in Powers
      /\ t.dt.cck = <<>> \/ Len(t.dt.cck) = t.dims.cck
      /\ t.dt.mcs \in Seq(Block)
  BY DEF TableInput
<1>2. CASE ~t.dt.found
  <2>1. out.mcs = Row(n * m, t.p.target) /\ out.cck = Row(t.dims.cck, t.p.target)
        /\ out.max = t.p.target
    BY <1>2 DEF RatePowerLimits
  <2> HIDE DEF out
  <2>2. \A r \in 0 .. n - 1, k \in 1 .. m : out.mcs[r * m + k] = RowLimit(t, r, k)
    <3> TAKE r \in 0 .. n - 1, k \in 1 .. m
    <3>1. r * m + k \in 1 .. size
      <4>1. n \in Nat /\ m \in Nat
        BY <1>1
      <4> HIDE DEF n, m
      <4> QED BY <4>1, Cells, Zenon
    <3>2. RowLimit(t, r, k) = t.p.target
      BY <1>2 DEF RowLimit
    <3>3. Row(size, t.p.target)[r * m + k] = t.p.target
      <4> HIDE DEF size
      <4> QED BY <3>1 DEF Row
    <3> QED BY <2>1, <3>2, <3>3
  <2>3. \A k \in 1 .. t.dims.cck : out.cck[k] = CckLimit(t, k)
    BY <1>2, <2>1 DEF CckLimit, Row
  <2>4. TableIsApplied(t, out)
    BY <1>2, <2>1, <2>2, <2>3, Zenon DEF TableIsApplied
  <2> QED BY <2>4 DEF out
<1>3. CASE t.dt.found
  <2>1. out.cck = cck.pwr /\ out.mcs = mcs.pwr /\ (t.dt.path = <<>> => out.max = mcs.max)
    <3>1. \A a : ApplyMultiArray(a, t.dims.paths, 10, <<>>, "path", t.p) = a
      BY DEF ApplyMultiArray
    <3> QED BY <1>3, <3>1 DEF RatePowerLimits
  <2>2. Applied(t, one, cck, t.dims.cck, 0, t.dt.cck)
    <3>1. one.pwr \in [1 .. t.dims.cck -> Powers] /\ one.max \in Powers /\ 0 \in Nat
      BY <1>1 DEF Row, Powers
    <3> HIDE DEF one
    <3> QED BY <1>1, <3>1, Applies
  <2> HIDE DEF cck
  <2>3. cck.max \in Powers
    BY <2>2 DEF Applied
  <2>4. IsMax(cck.max, {-127} \cup First)
    <3>1. \A k \in DOMAIN t.dt.cck : CckLimit(t, k) = Limit(t, t.dt.cck[k])
      <4>1. ASSUME NEW k \in DOMAIN t.dt.cck PROVE t.dt.cck # <<>>
        OBVIOUS
      <4> QED BY <1>3, <4>1 DEF CckLimit, Limit
    <3>2. First = {Limit(t, t.dt.cck[k]) : k \in {k \in DOMAIN t.dt.cck : t.dt.cck[k] < 126}}
      BY <3>1
    <3> QED BY <2>2, <3>2 DEF Applied
  <2>5. \A k \in 1 .. t.dims.cck : cck.pwr[k] = CckLimit(t, k)
    <3> TAKE k \in 1 .. t.dims.cck
    <3>1. cck.pwr[k] = IF k - 0 \in 1 .. Len(t.dt.cck) THEN Limit(t, t.dt.cck[k - 0]) ELSE one.pwr[k]
      BY <2>2 DEF Applied
    <3>2. one.pwr[k] = t.p.target /\ k - 0 = k
      BY <1>1 DEF Row
    <3>3. CASE t.dt.cck = <<>>
      BY <3>1, <3>2, <3>3 DEF CckLimit
    <3>4. CASE t.dt.cck # <<>>
      <4>1. k \in 1 .. Len(t.dt.cck)
        BY <1>1, <3>4
      <4> HIDE DEF one
      <4> QED BY <1>3, <3>1, <3>2, <3>4, <4>1 DEF CckLimit, Limit
    <3> QED BY <3>3, <3>4
  <2>6. /\ \A r \in 0 .. n - 1, k \in 1 .. m : mcs.pwr[r * m + k] = RowLimit(t, r, k)
        /\ IsMax(mcs.max, {cck.max} \cup Before(t, n))
    <3>1. CASE t.dt.mcs = <<>>
      <4>1. mcs = two
        BY <3>1 DEF ApplyMultiArray
      <4>2. \A r : Covering(t, r) = {}
        BY <3>1 DEF Covering
      <4>3. Before(t, n) = {}
        BY <4>2 DEF Before
      <4>4. ASSUME NEW r \in 0 .. n - 1, NEW k \in 1 .. m
            PROVE  mcs.pwr[r * m + k] = RowLimit(t, r, k)
        <5>1. r * m + k \in 1 .. size
          <6>1. n \in Nat /\ m \in Nat
            BY <1>1
          <6> HIDE DEF n, m
          <6> QED BY <6>1, Cells, Zenon
        <5>2. RowLimit(t, r, k) = t.p.target
          BY <4>2 DEF RowLimit
        <5>3. Row(size, t.p.target)[r * m + k] = t.p.target
          <6> HIDE DEF size
          <6> QED BY <5>1 DEF Row
        <5>4. mcs.pwr = Row(size, t.p.target)
          BY <4>1
        <5> HIDE DEF mcs
        <5> QED BY <5>2, <5>3, <5>4
      <4>5. \A x \in Powers : x <= x
        BY DEF Powers
      <4>6. mcs.max = cck.max
        BY <4>1
      <4>7. IsMax(mcs.max, {cck.max} \cup Before(t, n))
        <5> HIDE DEF mcs
        <5> QED BY <2>3, <4>3, <4>5, <4>6 DEF IsMax
      <4> HIDE DEF mcs
      <4> QED BY <4>4, <4>7
    <3>2. CASE t.dt.mcs # <<>>
      <4>1. PICK st : Walked(t, st, t.dims.rows, cck.max) /\ mcs = st.acc
        BY <1>3, <2>3, <3>2, TableWalk
      <4> HIDE DEF mcs
      <4>2. ASSUME NEW r \in 0 .. n - 1, NEW k \in 1 .. m
            PROVE  mcs.pwr[r * m + k] = RowLimit(t, r, k)
        <5>1. r < n
          BY <1>1
        <5>2. st.acc.pwr[r * m + k] = IF r < n THEN RowLimit(t, r, k) ELSE t.p.target
          BY <4>1 DEF Walked
        <5> QED BY <4>1, <5>1, <5>2
      <4> QED BY <4>1, <4>2 DEF Walked
    <3> QED BY <3>1, <3>2
  <2>7. Limited(t) = First \cup Before(t, n)
    <3>1. \A c \in Rates(t) : c[1] < n
      BY <1>1 DEF Rates
    <3>2. {c \in Rates(t) : Covering(t, c[1]) # {} /\ Entry(t, c[1], c[2]) < 126}
            = {c \in Rates(t) : c[1] < n /\ Covering(t, c[1]) # {} /\ Entry(t, c[1], c[2]) < 126}
      BY <3>1
    <3> HIDE DEF n
    <3> QED BY <3>2 DEF Limited, Before
  <2> HIDE DEF mcs, First, out
  <2>8. IsMax(mcs.max, {-127} \cup Limited(t)) /\ {-127} \cup Limited(t) \subseteq Int
    <3> DEFINE S == {-127} \cup First
               B == Before(t, n)
    <3>1. IsMax(cck.max, S) /\ IsMax(mcs.max, {cck.max} \cup B) /\ {-127} \cup Limited(t) = S \cup B
      BY <2>4, <2>6, <2>7
    <3>2. S \subseteq Int
      <4>1. \A x \in Powers : x \in Int
        BY DEF Powers
      <4>2. ASSUME NEW k \in DOMAIN t.dt.cck PROVE CckLimit(t, k) \in Int
        <5>1. t.dt.cck[k] + t.p.delta \in Powers /\ t.p.target \in Powers
          BY <1>1
        <5>2. t.dt.cck[k] + t.p.delta \in Int /\ t.p.target \in Int
          BY <4>1, <5>1
        <5> QED BY <5>2 DEF CckLimit, Smaller
      <4>3. First \subseteq Int
        BY <4>2 DEF First
      <4> QED BY <4>3
    <3>3. B \subseteq Int
      <4>1. ASSUME NEW r \in 0 .. n - 1, NEW k \in 1 .. m PROVE RowLimit(t, r, k) \in Int
        <5>0. \A x \in Powers : x \in Int
          BY DEF Powers
        <5>1. CASE Covering(t, r) = {}
          BY <1>1, <5>0, <5>1 DEF RowLimit
        <5>2. CASE Covering(t, r) # {}
          <6>1. Covering(t, r) \subseteq Nat
            <7>1. DOMAIN t.dt.mcs = 1 .. Len(t.dt.mcs) /\ Len(t.dt.mcs) \in Nat
              BY <1>1
            <7> QED BY <7>1 DEF Covering
          <6>2. Min(Covering(t, r)) \in DOMAIN t.dt.mcs
            <7>1. Min(Covering(t, r)) \in Covering(t, r)
              BY <5>2, <6>1, MinOfNats
            <7> QED BY <7>1 DEF Covering
          <6>3. Entry(t, r, k) + t.p.delta \in Powers
            BY <6>2 DEF TableInput, Entry
          <6>4. Entry(t, r, k) + t.p.delta \in Int /\ t.p.target \in Int
            BY <1>1, <5>0, <6>3
          <6> QED BY <6>4 DEF RowLimit, Smaller
        <5> QED BY <5>1, <5>2
      <4>2. \A c \in Rates(t) : c[1] \in 0 .. n - 1 /\ c[2] \in 1 .. m
        BY DEF Rates
      <4> QED BY <4>1, <4>2 DEF Before
    <3> HIDE DEF S, B
    <3>4. cck.max \in Int /\ mcs.max \in Int /\ cck.max <= mcs.max
      BY <3>1, <3>2, <3>3 DEF IsMax
    <3>5. mcs.max \in S \cup B
      BY <3>1 DEF IsMax
    <3>6. \A x \in S \cup B : x <= mcs.max
      <4> TAKE x \in S \cup B
      <4>1. CASE x \in S
        <5>1. x <= cck.max /\ x \in Int
          BY <3>1, <3>2, <4>1 DEF IsMax
        <5> QED BY <3>4, <5>1
      <4>2. CASE x \in B
        BY <3>1, <4>2 DEF IsMax
      <4> QED BY <4>1, <4>2
    <3>7. IsMax(mcs.max, S \cup B) /\ S \cup B \subseteq Int
      BY <3>2, <3>3, <3>5, <3>6 DEF IsMax
    <3> QED BY <3>1, <3>7
  <2>9. Max({-127} \cup Limited(t)) = mcs.max
    BY <2>8, MaxOf
  <2>10. TableIsApplied(t, out)
    BY <1>3, <2>1, <2>5, <2>6, <2>9, Zenon DEF TableIsApplied
  <2> QED BY <2>10 DEF out
<1> QED BY <1>1, <1>2, <1>3

\* What a sequence is made of.
LEMMA Elements ==
  ASSUME NEW S, NEW s \in Seq(S)
  PROVE  Len(s) \in Nat /\ DOMAIN s = 1 .. Len(s) /\ \A k \in DOMAIN s : s[k] \in S
OBVIOUS

\* The user's limits are a run through them; the last of a range stands.
LEMMA SarRuns ==
  ASSUME NEW l \in LimitInput
  PROVE  LET frp == FoldLeft(InitSarPower, l.frp, l.specs)
         IN /\ frp \in [DOMAIN l.frp -> FreqRange] 
            /\ \A j \in DOMAIN l.specs :
                 l.specs[j].range = 1 /\ (\A i \in DOMAIN l.specs : i > j => l.specs[i].range # 1)
                   => frp[1].set /\ frp[1].power <= l.specs[j].quarter \div 2
<1> DEFINE ss == l.specs
           n == Len(ss)
           D == DOMAIN l.frp
           V == [D -> FreqRange]
           step == [p \in (1 .. n) \X V |-> InitSarPower(p[2], ss[p[1]])]
           Body(f) == [U \in SUBSET (1 .. n) |->
                         IF U = {} THEN l.frp ELSE InitSarPower(f[U \ {Max(U)}], ss[Max(U)])]
           it == CHOOSE f : f = Body(f)
           h == [k \in 0 .. n |-> it[1 .. k]]
<1>1. /\ ss \in Seq([range : Nat, quarter : Nat]) /\ n \in Nat /\ DOMAIN ss = 1 .. n
      /\ l.frp \in Seq(FreqRange) /\ l.frp \in V
      /\ \A k \in 1 .. n : ss[k].range \in D /\ ss[k].quarter \in Nat
  <2>1. /\ ss \in Seq([range : Nat, quarter : Nat]) /\ l.frp \in Seq(FreqRange)
        /\ \A k \in DOMAIN ss : ss[k].range \in D
    BY DEF LimitInput
  <2>2. n \in Nat /\ DOMAIN ss = 1 .. n /\ \A k \in 1 .. n : ss[k] \in [range : Nat, quarter : Nat]
    <3>1. ss \in Seq([range : Nat, quarter : Nat])
      BY <2>1
    <3> HIDE DEF ss
    <3>2. Len(ss) \in Nat /\ DOMAIN ss = 1 .. Len(ss)
          /\ \A k \in 1 .. Len(ss) : ss[k] \in [range : Nat, quarter : Nat]
      BY <3>1, Elements
    <3> QED BY <3>2
  <2>3. l.frp \in V
    <3> DEFINE q == l.frp
    <3>1. q \in Seq(FreqRange)
      BY <2>1
    <3> HIDE DEF q
    <3>2. q \in [DOMAIN q -> FreqRange]
      BY <3>1
    <3> QED BY <3>2 DEF q
  <2> QED BY <2>1, <2>2, <2>3
<1>2. ASSUME NEW f \in V, NEW k \in 1 .. n
      PROVE  /\ InitSarPower(f, ss[k]) \in V
             /\ ss[k].range = 1 => /\ InitSarPower(f, ss[k])[1].set
                                   /\ InitSarPower(f, ss[k])[1].power <= ss[k].quarter \div 2
             /\ ss[k].range # 1 => InitSarPower(f, ss[k])[1] = f[1]
  <2> DEFINE power == ss[k].quarter \div 2
             e == [set |-> TRUE, power |-> IF power > 127 \/ power < -127 THEN 127 ELSE power]
             r == ss[k].range
  <2>1. power \in Nat /\ r \in D
    <3>1. ss[k].range \in D /\ ss[k].quarter \in Nat
      BY <1>1
    <3> HIDE DEF D, ss
    <3>2. ss[k].quarter \div 2 \in Nat
      BY <3>1
    <3> QED BY <3>1, <3>2
  <2>2. e \in FreqRange /\ e.set /\ e.power <= power
    <3> HIDE DEF power
    <3> QED BY <2>1 DEF FreqRange, Powers
  <2>3. InitSarPower(f, ss[k]) = [f EXCEPT ![r] = e]
    BY DEF InitSarPower
  <2> HIDE DEF e, power, r, D
  <2>4. [f EXCEPT ![r] = e] \in V
    BY <2>1, <2>2
  <2>5. DOMAIN f = D
    OBVIOUS
  <2>6. r = 1 => [f EXCEPT ![r] = e][1] = e
    BY <2>1, <2>5
  <2>7. r # 1 => [f EXCEPT ![r] = e][1] = f[1]
    <3>1. CASE 1 \in D
      BY <2>1, <2>5, <3>1
    <3>2. 1 \in D
      <4>1. l.frp # <<>> /\ l.frp \in Seq(FreqRange)
        BY DEF LimitInput
      <4> QED BY <4>1 DEF D
    <3> QED BY <3>1, <3>2
  <2>8. /\ [f EXCEPT ![r] = e] \in V
        /\ r = 1 => [f EXCEPT ![r] = e][1].set /\ [f EXCEPT ![r] = e][1].power <= power
        /\ r # 1 => [f EXCEPT ![r] = e][1] = f[1]
    BY <2>2, <2>4, <2>6, <2>7
  <2> QED BY <2>3, <2>8, Zenon DEF power, r
<1>3. step \in [(1 .. n) \X V -> V]
  <2>1. \A p \in (1 .. n) \X V : InitSarPower(p[2], ss[p[1]]) \in V
    <3> HIDE DEF n, V, ss
    <3> QED BY <1>2
  <2> HIDE DEF n, V
  <2> QED BY <2>1
<1>4. PICK g : IsFold(g, n, V, l.frp, step)
  <2> HIDE DEF step, n, V
  <2> QED BY <1>1, <1>3, FoldExists
<1>5. \A U \in SUBSET (1 .. n) : U # {} => Max(U) \in 1 .. n /\ U \ {Max(U)} \in SUBSET (1 .. n)
  <2> HIDE DEF n
  <2> QED BY <1>1, MaxIndex
<1>6. g = Body(g)
  <2> HIDE DEF n, V, ss
  <2> QED BY <1>4, <1>5 DEF IsFold
<1>7. it = Body(it)
  BY <1>6
<1>8. FoldLeft(InitSarPower, l.frp, l.specs) = it[1 .. n]
  BY <1>1 DEF FoldLeft, MapThenFoldSet
<1> HIDE DEF it, n, V, ss
<1>10. h[0] = l.frp
  BY <1>1, <1>7, Prefix
<1>11. ASSUME NEW k \in 1 .. n PROVE h[k] = InitSarPower(h[k - 1], ss[k])
  <2>1. k \in 0 .. n /\ k - 1 \in 0 .. n
    BY <1>1
  <2>2. it[1 .. k] = InitSarPower(it[1 .. (k - 1)], ss[k])
    <3>1. /\ 1 .. k \in SUBSET (1 .. n) /\ 1 .. k # {}
          /\ Max(1 .. k) = k /\ (1 .. k) \ {k} = 1 .. (k - 1)
      BY <1>1, Prefix
    <3>2. \A U \in SUBSET (1 .. n) : U # {} => it[U] = InitSarPower(it[U \ {Max(U)}], ss[Max(U)])
      BY <1>7
    <3>3. it[1 .. k] = InitSarPower(it[(1 .. k) \ {Max(1 .. k)}], ss[Max(1 .. k)])
      BY <3>1, <3>2
    <3> QED BY <3>1, <3>3
  <2>3. h[k] = it[1 .. k] /\ h[k - 1] = it[1 .. (k - 1)]
    BY <2>1
  <2> HIDE DEF h
  <2> QED BY <2>2, <2>3
<1>12. h[n] = it[1 .. n]
  BY <1>1
<1> HIDE DEF h
<1> DEFINE Stands(f, k) ==
             \A j \in 1 .. k : ss[j].range = 1 /\ (\A i \in 1 .. k : i > j => ss[i].range # 1)
                                 => f[1].set /\ f[1].power <= ss[j].quarter \div 2
           W == [k \in 0 .. n |-> {f \in V : Stands(f, k)}]
<1>13. h[0] \in W[0]
  BY <1>1, <1>10
<1>14. ASSUME NEW k \in 1 .. n, h[k - 1] \in W[k - 1] PROVE h[k] \in W[k]
  <2>1. k - 1 \in 0 .. n /\ k \in 0 .. n /\ 1 .. k = (1 .. k - 1) \cup {k} /\ k \notin 1 .. k - 1
        /\ \A j \in 1 .. k - 1 : k > j
    BY <1>1
  <2>2. h[k - 1] \in V /\ Stands(h[k - 1], k - 1)
    BY <1>14, <2>1
  <2> DEFINE old == h[k - 1]
  <2> HIDE DEF old
  <2>3. /\ h[k] \in V
        /\ ss[k].range = 1 => h[k][1].set /\ h[k][1].power <= ss[k].quarter \div 2
        /\ ss[k].range # 1 => h[k][1] = old[1]
    BY <1>2, <1>11, <2>2 DEF old
  <2>4. ASSUME NEW j \in 1 .. k, ss[j].range = 1, \A i \in 1 .. k : i > j => ss[i].range # 1
        PROVE  h[k][1].set /\ h[k][1].power <= ss[j].quarter \div 2
    <3>1. CASE j = k
      BY <2>3, <2>4, <3>1
    <3>2. CASE j # k
      <4>1. j \in 1 .. k - 1 /\ ss[k].range # 1 /\ \A i \in 1 .. k - 1 : i > j => ss[i].range # 1
        BY <2>1, <2>4, <3>2
      <4>2. old[1].set /\ old[1].power <= ss[j].quarter \div 2
        BY <2>2, <2>4, <4>1 DEF old
      <4> QED BY <2>3, <4>1, <4>2
    <3> QED BY <3>1, <3>2
  <2> QED BY <2>1, <2>3, <2>4
<1>15. \A k \in 0 .. n : h[k] \in W[k]
  <2> HIDE DEF W
  <2> QED BY <1>1, <1>13, <1>14, Run
<1>16. h[n] \in V /\ Stands(h[n], n)
  BY <1>1, <1>15
<1> QED BY <1>1, <1>8, <1>12, <1>16 DEF n, V, ss

\* The smaller of two powers is under both.
LEMMA MinS8Least ==
  ASSUME NEW x \in Powers, NEW y \in Powers
  PROVE  /\ MinS8(x, y) \in Powers /\ MinS8(x, y) <= x /\ MinS8(x, y) <= y
         /\ x >= 0 /\ y >= 0 => MinS8(x, y) >= 0
<1>1. x \in Int /\ y \in Int /\ S8(x) = x /\ S8(y) = y
  BY S8Of DEF Powers
<1> HIDE DEF S8
<1>2. MinS8(x, y) = IF x <= y THEN x ELSE y
  BY <1>1 DEF MinS8
<1> QED BY <1>1, <1>2

\* The power of a channel is under each of its bounds.
LEMMA TargetBounded ==
  ASSUME NEW l \in LimitInput, NEW frp, frp = SetTxSarPwr(l.frp, l.specs, l.acpi)
  PROVE  TargetIsBounded(l, [frp |-> frp, target |-> ChanTarget(l.level, l.sband, 1, frp, 1)])
<1> DEFINE user == FoldLeft(InitSarPower, l.frp, l.specs)
           geo == GeoPower(l.acpi)
           power == TxPowerOf(l.level)
           reg == ChPower(l.sband, 1, power)
           target == ChanTarget(l.level, l.sband, 1, frp, 1)
<1>1. /\ l.level \in 0 .. 63 /\ l.frp \in Seq(FreqRange) /\ l.frp # <<>> /\ 1 \in DOMAIN l.frp
      /\ l.sband \in Seq([num : Nat, off : BOOLEAN, maxReg : 0 .. 63])
      /\ l.acpi.dyn \in BOOLEAN /\ l.acpi.geo \in BOOLEAN /\ l.acpi.limit \in Powers
      /\ l.acpi.offset \in Int /\ l.acpi.cap \in Powers
  <2>1. l.frp \in Seq(FreqRange) /\ l.frp # <<>>
    BY DEF LimitInput
  <2>2. 1 \in DOMAIN l.frp
    BY <2>1
  <2> QED BY <2>1, <2>2 DEF LimitInput
<1>2. /\ user \in [DOMAIN l.frp -> FreqRange]
      /\ \A j \in DOMAIN l.specs :
           l.specs[j].range = 1 /\ (\A i \in DOMAIN l.specs : i > j => l.specs[i].range # 1)
             => user[1].set /\ user[1].power <= l.specs[j].quarter \div 2
  BY SarRuns
<1>0. \A x \in Powers : x \in Int /\ x >= -128 /\ x <= 127
  BY DEF Powers
<1>3. geo \in Powers
  <2>1. S8(l.acpi.limit + l.acpi.offset) \in Powers
    <3>1. l.acpi.limit + l.acpi.offset \in Int
      BY <1>0, <1>1
    <3> QED BY <3>1, S8Under
  <2> HIDE DEF S8
  <2> QED BY <1>1, <2>1 DEF GeoPower, Smaller
<1>4. power \in Powers /\ power >= 0 /\ (l.level # 0 => power = 2 * l.level)
  <2> DEFINE x == l.level
  <2>1. x \in 0 .. 63
    BY <1>1
  <2> HIDE DEF x
  <2>2. LET p == IF x = 0 THEN 127 ELSE 2 * x
        IN p \in Powers /\ p >= 0 /\ (x # 0 => p = 2 * x)
    BY <2>1 DEF Powers
  <2> QED BY <2>2 DEF TxPowerOf, x
<1> HIDE DEF user, geo, power
\* SAR of the range, after both sources.
<1>5. /\ frp[1] \in FreqRange
      /\ l.acpi.dyn /\ frp[1].set => frp[1].power <= geo
      /\ \A j \in DOMAIN l.specs :
           l.specs[j].range = 1 /\ (\A i \in DOMAIN l.specs : i > j => l.specs[i].range # 1)
             => frp[1].set /\ frp[1].power <= l.specs[j].quarter \div 2
  <2>0. user[1] \in FreqRange /\ user[1].power \in Powers /\ user[1].set \in BOOLEAN
    <3>1. user[1] \in FreqRange
      BY <1>1, <1>2
    <3> QED BY <3>1 DEF FreqRange
  <2>1. frp = InitAcpiSarPower(user, l.acpi, l.specs = <<>>)
    BY DEF SetTxSarPwr, user
  <2>2. CASE ~l.acpi.dyn
    <3>1. frp = user
      BY <2>1, <2>2 DEF InitAcpiSarPower
    <3> QED BY <1>2, <2>0, <2>2, <3>1
  <2>3. CASE l.acpi.dyn
    <3> DEFINE default == l.specs = <<>>
               from == IF default THEN 127 ELSE user[1].power
    <3>1. frp[1] = IF ~(default \/ user[1].set) THEN user[1]
                   ELSE [set |-> TRUE, power |-> MinS8(from, geo)]
      <4>1. 1 \in DOMAIN user
        BY <1>1, <1>2
      <4> QED BY <2>1, <2>3, <4>1 DEF InitAcpiSarPower, geo
    <3>2. from \in Powers
      BY <2>0 DEF Powers
    <3>3. /\ MinS8(from, geo) \in Powers /\ MinS8(from, geo) <= geo /\ MinS8(from, geo) <= from
      <4> HIDE DEF from, default
      <4> QED BY <1>3, <3>2, MinS8Least
    <3> DEFINE v == MinS8(from, geo)
    <3> HIDE DEF v
    <3>4. frp[1] \in FreqRange
      BY <2>0, <3>1, <3>3 DEF FreqRange, v
    <3>5. frp[1].set => frp[1].power = v
      BY <3>1 DEF v
    <3>6. ASSUME NEW j \in DOMAIN l.specs, l.specs[j].range = 1,
                 \A i \in DOMAIN l.specs : i > j => l.specs[i].range # 1
          PROVE  frp[1].set /\ frp[1].power <= l.specs[j].quarter \div 2
      <4>1. user[1].set /\ user[1].power <= l.specs[j].quarter \div 2
        BY <1>2, <3>6
      <4>2. ~default
        OBVIOUS
      <4>3. frp[1] = [set |-> TRUE, power |-> v] /\ from = user[1].power
        BY <3>1, <4>1, <4>2 DEF v
      <4>4. v <= from /\ v \in Int /\ from \in Int
        BY <1>0, <3>2, <3>3 DEF v
      <4>5. l.specs[j].quarter \div 2 \in Int
        <5>1. l.specs \in Seq([range : Nat, quarter : Nat])
          BY DEF LimitInput
        <5> DEFINE s == l.specs
        <5>2. s[j].quarter \in Nat
          <6>1. s \in Seq([range : Nat, quarter : Nat]) /\ j \in DOMAIN s
            BY <5>1
          <6> HIDE DEF s
          <6>2. s[j] \in [range : Nat, quarter : Nat]
            BY <6>1, Elements
          <6> QED BY <6>2
        <5> HIDE DEF s
        <5>3. s[j].quarter \div 2 \in Int
          BY <5>2
        <5> QED BY <5>3 DEF s
      <4> HIDE DEF default, from
      <4> QED BY <4>1, <4>3, <4>4, <4>5
    <3> HIDE DEF from, default
    <3>7. frp[1].set => frp[1].power <= geo
      BY <3>3, <3>5 DEF v
    <3> QED BY <3>4, <3>6, <3>7
  <2> QED BY <1>1, <2>2, <2>3
\* The regulatory bound.
<1>6. /\ reg \in Powers /\ reg <= power /\ reg >= 0
      /\ \A k \in DOMAIN l.sband :
           l.sband[k].num = 1 /\ (\A j \in 1 .. k - 1 : l.sband[j].num # 1) /\ ~l.sband[k].off
             => reg <= 2 * l.sband[k].maxReg
  <2> DEFINE I == {i \in 1 .. Len(l.sband) : l.sband[i].num = 1}
             at == IF I # {} THEN Min(I) ELSE 0
  <2>1. reg = IF at = 0 \/ l.sband[at].off THEN power ELSE MinS8(2 * l.sband[at].maxReg, power)
    BY DEF ChPower, SelectInSeq, power
  <2>2. DOMAIN l.sband = 1 .. Len(l.sband) /\ Len(l.sband) \in Nat
        /\ \A k \in 1 .. Len(l.sband) : 2 * l.sband[k].maxReg \in Powers /\ 2 * l.sband[k].maxReg >= 0
    <3> DEFINE s == l.sband
    <3>1. s \in Seq([num : Nat, off : BOOLEAN, maxReg : 0 .. 63])
      BY <1>1
    <3> HIDE DEF s
    <3>2. \A k \in 1 .. Len(s) : s[k].maxReg \in 0 .. 63 /\ s[k].num \in Nat
      <4>1. \A k \in 1 .. Len(s) : s[k] \in [num : Nat, off : BOOLEAN, maxReg : 0 .. 63]
        BY <3>1, Elements
      <4> QED BY <4>1
    <3>3. \A x \in 0 .. 63 : 2 * x \in Powers /\ 2 * x >= 0
      BY DEF Powers
    <3>4. DOMAIN s = 1 .. Len(s) /\ Len(s) \in Nat
      BY <3>1
    <3> QED BY <3>2, <3>3, <3>4 DEF s
  <2>3. I # {} => at \in I /\ \A y \in I : at <= y
    <3>1. I \subseteq Nat
      BY <2>2
    <3> HIDE DEF I
    <3> QED BY <3>1, MinOfNats
  <2>4. ASSUME at # 0 PROVE at \in 1 .. Len(l.sband) /\ MinS8(2 * l.sband[at].maxReg, power) \in Powers
                            /\ MinS8(2 * l.sband[at].maxReg, power) <= power
                            /\ MinS8(2 * l.sband[at].maxReg, power) >= 0
                            /\ MinS8(2 * l.sband[at].maxReg, power) <= 2 * l.sband[at].maxReg
    <3>1. at \in 1 .. Len(l.sband)
      BY <2>3, <2>4
    <3> DEFINE bound == 2 * l.sband[at].maxReg
    <3>2. bound \in Powers /\ bound >= 0
      BY <2>2, <3>1
    <3> HIDE DEF at, bound
    <3>3. MinS8(bound, power) \in Powers /\ MinS8(bound, power) <= power
          /\ MinS8(bound, power) >= 0 /\ MinS8(bound, power) <= bound
      BY <1>4, <3>2, MinS8Least
    <3> QED BY <3>1, <3>3 DEF bound
  <2>5. ASSUME NEW k \in DOMAIN l.sband, l.sband[k].num = 1, \A j \in 1 .. k - 1 : l.sband[j].num # 1
        PROVE  at = k /\ at # 0
    <3>1. k \in I /\ k \in Nat /\ k # 0
      BY <2>2, <2>5
    <3>2. at \in I /\ at <= k
      BY <2>3, <3>1
    <3>3. at \in Nat /\ at >= 1 /\ l.sband[at].num = 1
      BY <2>2, <3>2
    <3> HIDE DEF at
    <3>4. ~(at \in 1 .. k - 1)
      BY <2>5, <3>3
    <3> QED BY <3>1, <3>2, <3>3, <3>4
  <2> HIDE DEF at, reg
  <2>6. reg \in Powers /\ reg <= power /\ reg >= 0
    BY <1>0, <1>4, <2>1, <2>4
  <2>7. ASSUME NEW k \in DOMAIN l.sband, l.sband[k].num = 1, \A j \in 1 .. k - 1 : l.sband[j].num # 1,
               ~l.sband[k].off
        PROVE  reg <= 2 * l.sband[k].maxReg
    <3>1. at = k /\ at # 0
      BY <2>5, <2>7
    <3> QED BY <2>1, <2>4, <2>7, <3>1
  <2> QED BY <2>6, <2>7
<1> HIDE DEF reg
<1>7. /\ target <= reg /\ target \in Int
      /\ frp[1].set => target <= frp[1].power
  <2>1. SarPower(frp, 1, reg) = IF 1 \in DOMAIN frp /\ frp[1].set THEN Smaller(frp[1].power, reg) ELSE reg
    BY <1>0, <1>6 DEF SarPower
  <2>2. 1 \in DOMAIN frp
    <3>1. DOMAIN frp = DOMAIN user
      BY DEF SetTxSarPwr, InitAcpiSarPower, user
    <3> QED BY <1>1, <1>2, <3>1
  <2>3. LET p == SarPower(frp, 1, reg)
        IN p \in Powers /\ p <= reg /\ (frp[1].set => p <= frp[1].power)
    BY <1>0, <1>5, <1>6, <2>1, <2>2 DEF Smaller, FreqRange
  <2>4. S8(SarPower(frp, 1, reg)) = SarPower(frp, 1, reg)
    BY <2>3, S8Of
  <2>5. target = S8(SarPower(frp, 1, reg))
    BY DEF ChanTarget, reg, power
  <2> HIDE DEF target
  <2> QED BY <1>0, <2>3, <2>4, <2>5
<1> HIDE DEF target
<1> DEFINE out == [frp |-> frp, target |-> target]
<1>8. out.frp = frp /\ out.target = target
  OBVIOUS
<1> HIDE DEF out
<1>9. l.level # 0 => target <= 2 * l.level
  <2>1. power \in Int /\ reg \in Int
    BY <1>0, <1>4, <1>6
  <2> QED BY <1>4, <1>6, <1>7, <2>1
<1>10. \A k \in DOMAIN l.sband :
         l.sband[k].num = 1 /\ (\A j \in 1 .. k - 1 : l.sband[j].num # 1) /\ ~l.sband[k].off
           => target <= 2 * l.sband[k].maxReg
  <2> SUFFICES ASSUME NEW k \in DOMAIN l.sband, l.sband[k].num = 1,
                      \A j \in 1 .. k - 1 : l.sband[j].num # 1, ~l.sband[k].off
               PROVE  target <= 2 * l.sband[k].maxReg
    OBVIOUS
  <2>1. reg <= 2 * l.sband[k].maxReg
    BY <1>6
  <2> DEFINE bound == 2 * l.sband[k].maxReg
  <2>2. bound \in Int
    <3> DEFINE s == l.sband
    <3>1. s \in Seq([num : Nat, off : BOOLEAN, maxReg : 0 .. 63]) /\ k \in DOMAIN s
      BY <1>1
    <3> HIDE DEF s
    <3>2. s[k] \in [num : Nat, off : BOOLEAN, maxReg : 0 .. 63]
      BY <3>1, Elements
    <3>3. s[k].maxReg \in Int
      BY <3>2
    <3> QED BY <3>3 DEF s
  <2> HIDE DEF bound
  <2>3. target <= bound
    BY <1>0, <1>6, <1>7, <2>1, <2>2 DEF bound
  <2> QED BY <2>3 DEF bound
<1>11. \A k \in DOMAIN l.specs :
         l.specs[k].range = 1 /\ (\A j \in DOMAIN l.specs : j > k => l.specs[j].range # 1)
           => target <= l.specs[k].quarter \div 2
  <2> SUFFICES ASSUME NEW k \in DOMAIN l.specs, l.specs[k].range = 1,
                      \A j \in DOMAIN l.specs : j > k => l.specs[j].range # 1
               PROVE  target <= l.specs[k].quarter \div 2
    OBVIOUS
  <2> DEFINE bound == l.specs[k].quarter \div 2
  <2>1. frp[1].set /\ frp[1].power <= bound
    BY <1>5
  <2>2. bound \in Int
    <3> DEFINE s == l.specs
    <3>1. s \in Seq([range : Nat, quarter : Nat]) /\ k \in DOMAIN s
      BY DEF LimitInput
    <3> HIDE DEF s
    <3>2. s[k] \in [range : Nat, quarter : Nat]
      BY <3>1, Elements
    <3>3. s[k].quarter \in Nat
      BY <3>2
    <3>4. s[k].quarter \div 2 \in Int
      BY <3>3
    <3> QED BY <3>4 DEF s
  <2> HIDE DEF bound
  <2>3. frp[1].power \in Int
    BY <1>0, <1>5 DEF FreqRange
  <2>4. target <= bound
    BY <1>7, <2>1, <2>2, <2>3
  <2> QED BY <2>4 DEF bound
<1>12. l.acpi.dyn /\ frp[1].set => target <= geo
  <2>1. frp[1].power \in Int
    BY <1>0, <1>5 DEF FreqRange
  <2> QED BY <1>0, <1>3, <1>5, <1>7, <2>1
<1>13. TargetIsBounded(l, out)
  BY <1>8, <1>9, <1>10, <1>11, <1>12, Zenon DEF TargetIsBounded, geo
<1> QED BY <1>13 DEF out, target

\* Each call builds messages of its own kind.
LEMMA KindOf ==
  ASSUME MsgNext
  PROVE  \/ Done
         \/ StaUpdate /\ msg'.kind = "sta"
         \/ HdrTrans /\ msg'.kind = "trans"
         \/ BlockAck /\ msg'.kind = "ba"
         \/ SetPower /\ msg'.kind = "power"
         \/ HwScan /\ msg'.kind = "scan"
         \/ SchedScan /\ msg'.kind = "sched"
         \/ Rnr /\ msg'.kind = "rnr"
         \/ SetDomain /\ msg'.kind = "domain"
         \/ RateLimits /\ msg'.kind = "limits"
         \/ ChannelLimit /\ msg'.kind = "target"
         \/ ReceiveFrames /\ msg'.kind = "rx"
         \/ Filters /\ msg'.kind = "filter"
         \/ Country /\ msg'.kind = "regd"
         \/ Transfer /\ msg'.kind = "transfer"
         \/ Packet /\ msg'.kind = "packet"
         \/ AckLevel /\ msg'.kind = "signal"
         \/ LinkEvent /\ msg'.kind = "link"
         \/ Dump /\ msg'.kind = "dump"
         \/ msg'.kind \in {"survey", "airtime", "tx", "beacon", "txs", "sleep", "ram", "patch"}
<1>1. StaUpdate => msg'.kind = "sta"
  BY Kinds DEF StaUpdate
<1>2. HdrTrans => msg'.kind = "trans"
  BY Kinds DEF HdrTrans
<1>3. BlockAck => msg'.kind = "ba"
  BY Kinds DEF BlockAck
<1>4. SetPower => msg'.kind = "power"
  BY Kinds DEF SetPower
<1>5. HwScan => msg'.kind = "scan"
  BY Kinds DEF HwScan
<1>6. SchedScan => msg'.kind = "sched"
  BY Kinds DEF SchedScan
<1>7. Rnr => msg'.kind = "rnr"
  BY Kinds DEF Rnr
<1>8. SetDomain => msg'.kind = "domain"
  BY Kinds DEF SetDomain
<1>9. RateLimits => msg'.kind = "limits"
  BY Kinds DEF RateLimits
<1>10. ChannelLimit => msg'.kind = "target"
  BY Kinds DEF ChannelLimit
<1>11. ReceiveFrames => msg'.kind = "rx"
  BY Kinds DEF ReceiveFrames
<1>12. Filters => msg'.kind = "filter"
  BY Kinds DEF Filters
<1>13. Country => msg'.kind = "regd"
  BY Kinds DEF Country
<1>14. /\ Transfer => msg'.kind = "transfer"
       /\ Packet => msg'.kind = "packet"
       /\ AckLevel => msg'.kind = "signal"
       /\ LinkEvent => msg'.kind = "link"
       /\ Dump => msg'.kind = "dump"
  BY Kinds DEF Transfer, Packet, AckLevel, LinkEvent, Dump
<1>15. SurveyTime \/ StationTime \/ SendFrame \/ SendBeacon \/ StatusEvent \/ SleepAndWake
         \/ RamImage \/ PatchImage =>
         msg'.kind \in {"survey", "airtime", "tx", "beacon", "txs", "sleep", "ram", "patch"}
  BY Kinds DEF SurveyTime, StationTime, SendFrame, SendBeacon, StatusEvent, SleepAndWake, RamImage,
               PatchImage
<1> QED BY <1>1, <1>2, <1>3, <1>4, <1>5, <1>6, <1>7, <1>8, <1>9, <1>10, <1>11, <1>12, <1>13, <1>14,
           <1>15 DEF MsgNext

(***************************************************************************)
(* The messages.  A power limit that was built is from a table that may be *)
(* given, and is bounded as the lemmas above say.                          *)
(***************************************************************************)
PowerInv ==
  /\ msg.kind = "limits" =>
       msg.in \in TableInput /\ msg.out = RatePowerLimits(msg.in.dt, msg.in.dims, msg.in.p)
  /\ msg.kind = "target" => TargetIsBounded(msg.in, msg.out)

\* Every call keeps to it.
LEMMA PowerNextInv == MsgNext => PowerInv'
<1> SUFFICES ASSUME MsgNext PROVE PowerInv'
  OBVIOUS
<1>1. CASE Done
  BY <1>1 DEF Done, None, PowerInv
<1>2. CASE RateLimits
  <2>1. PICK t \in Tables : Make("limits", t, RatePowerLimits(t.dt, t.dims, t.p))
    BY <1>2 DEF RateLimits
  <2>2. t \in TableInput
    BY PowersAssumption
  <2>3. /\ msg'.kind = "limits" /\ msg'.in = t
        /\ msg'.out = RatePowerLimits(t.dt, t.dims, t.p)
    BY <2>1, Kinds
  <2> QED BY <2>2, <2>3 DEF PowerInv
<1>3. CASE ChannelLimit
  <2>1. PICK l \in Limits :
          LET frp == SetTxSarPwr(l.frp, l.specs, l.acpi)
          IN Make("target", l, [frp |-> frp, target |-> ChanTarget(l.level, l.sband, 1, frp, 1)])
    BY <1>3 DEF ChannelLimit
  <2> DEFINE frp == SetTxSarPwr(l.frp, l.specs, l.acpi)
             out == [frp |-> frp, target |-> ChanTarget(l.level, l.sband, 1, frp, 1)]
  <2>2. l \in LimitInput
    BY PowersAssumption
  <2>3. TargetIsBounded(l, out)
    BY <2>1, <2>2, TargetBounded
  <2>4. msg'.kind = "target" /\ msg'.in = l /\ msg'.out = out
    BY <2>1, Kinds
  <2> QED BY <2>3, <2>4 DEF PowerInv
<1>4. CASE msg'.kind \notin {"limits", "target"}
  BY <1>4 DEF PowerInv
<1> QED BY <1>1, <1>2, <1>3, <1>4, KindOf

\* It holds of every message.
LEMMA PowerInvariant == MsgSpec => []PowerInv
<1>1. MsgInit => PowerInv
  BY DEF MsgInit, None, PowerInv
<1>2. PowerInv /\ [MsgNext]_msg => PowerInv'
  <2>1. UNCHANGED msg /\ PowerInv => PowerInv'
    BY DEF PowerInv
  <2> QED BY <2>1, PowerNextInv
<1> QED BY <1>1, <1>2, PTL DEF MsgSpec

\* The segments of the power message lie in it, none over another.
LEMMA SegmentsLie ==
  ASSUME NEW band
  PROVE  \A s \in SkuSegments(band) :
           s.at + s.n <= SkuLen /\ \A t \in SkuSegments(band) : ~Overlap(s, t)
<1> DEFINE Has(s) ==
      \/ s = Segment("cck", 0, 0, 4) \/ s = Segment("ofdm", 0, 4, 8) \/ s = Segment("mcs32", 0, 28, 1)
      \/ \E k \in 0 .. 1 : s = Segment("ht", k, 12 + 8 * k, 8)
      \/ \E k \in 0 .. 3 : s = Segment("vht", k, 29 + 12 * k, 10)
      \/ \E k \in 0 .. 6 : s = Segment("he", k, 77 + 12 * k, 12)
<1>1. \A s \in SkuSegments(band) : Has(s)
  BY DEF SkuSegments
\* The parts of the message: where each table begins and ends.
<1> DEFINE Lies(s) == \/ s.table = "cck" /\ s.row = 0 /\ s.at = 0 /\ s.n = 4
                      \/ s.table = "ofdm" /\ s.row = 0 /\ s.at = 4 /\ s.n = 8
                      \/ s.table = "ht" /\ s.row \in 0 .. 1 /\ s.at = 12 + 8 * s.row /\ s.n = 8
                      \/ s.table = "mcs32" /\ s.row = 0 /\ s.at = 28 /\ s.n = 1
                      \/ s.table = "vht" /\ s.row \in 0 .. 3 /\ s.at = 29 + 12 * s.row /\ s.n = 10
                      \/ s.table = "he" /\ s.row \in 0 .. 6 /\ s.at = 77 + 12 * s.row /\ s.n = 12
<1>2. ASSUME NEW s, Has(s)
      PROVE  Lies(s) /\ s = Segment(s.table, s.row, s.at, s.n)
  BY <1>2 DEF Segment
<1> HIDE DEF Has
<1>3. ASSUME NEW s, NEW t, Lies(s), Lies(t), s.at < t.at + t.n, t.at < s.at + s.n
      PROVE  s.table = t.table /\ s.row = t.row /\ s.at = t.at /\ s.n = t.n
  BY <1>3
<1>4. ASSUME NEW s, Lies(s) PROVE s.at + s.n <= SkuLen
  BY <1>4 DEF SkuLen
<1> HIDE DEF Lies
<1>5. ASSUME NEW s \in SkuSegments(band), NEW t \in SkuSegments(band) PROVE ~Overlap(s, t)
  <2>1. /\ Lies(s) /\ s = Segment(s.table, s.row, s.at, s.n)
        /\ Lies(t) /\ t = Segment(t.table, t.row, t.at, t.n)
    BY <1>1, <1>2
  <2> QED BY <1>3, <2>1 DEF Overlap
<1> QED BY <1>1, <1>2, <1>4, <1>5

(***************************************************************************)
(* PowerIsLimited: for tables of any number of rates, rows and blocks and  *)
(* any counts, no rate is allowed more than the target of its channel or   *)
(* its entry, and the power reported is the largest of what the tables     *)
(* limit; for any list of channels and of the user's SAR limits, the       *)
(* target is under each of its bounds (eeprom.c, mt76_connac_mcu.c).       *)
(***************************************************************************)
THEOREM PowerStaysLimited == MsgSpec => []PowerIsLimited
<1>1. ASSUME PowerInv PROVE PowerIsLimited
  <2>1. Of({"limits"}) => TableIsApplied(msg.in, msg.out)
    BY <1>1, TableApplied DEF PowerInv, Of
  <2>2. Of({"target"}) => TargetIsBounded(msg.in, msg.out)
    BY <1>1 DEF PowerInv, Of
  <2>3. \A b \in {2, 5, 6} : \A s \in SkuSegments(b) :
          s.at + s.n <= SkuLen /\ \A t \in SkuSegments(b) : ~Overlap(s, t)
    BY SegmentsLie
  <2> QED BY <2>1, <2>2, <2>3, Zenon DEF PowerIsLimited
<1> QED BY <1>1, PowerInvariant, PTL


(***************************************************************************)
(* Station records.  A record of any TLVs is what its appends make of it,  *)
(* and their bytes add up.                                                 *)
(***************************************************************************)

\* Adding up is a run through the numbers.
Sums(h, ns, n) ==
  /\ h \in [0 .. n -> Nat] /\ h[0] = 0
  /\ \A k \in 1 .. n : h[k] = h[k - 1] + ns[k]
LEMMA TotalRuns ==
  ASSUME NEW n \in Nat, NEW ns \in [1 .. n -> Nat]
  PROVE  \E h : Sums(h, ns, n) /\ Total(ns) = h[n]
<1> DEFINE step == [p \in (1 .. n) \X Nat |-> p[2] + ns[p[1]]]
           Body(f) == [U \in SUBSET (1 .. n) |->
                         IF U = {} THEN 0 ELSE f[U \ {Max(U)}] + ns[Max(U)]]
           it == CHOOSE f : f = Body(f)
           h == [k \in 0 .. n |-> it[1 .. k]]
<1>1. step \in [(1 .. n) \X Nat -> Nat] /\ 0 \in Nat /\ DOMAIN ns = 1 .. n
  <2>1. ASSUME NEW p \in (1 .. n) \X Nat PROVE p[2] + ns[p[1]] \in Nat
    <3>1. p[2] \in Nat /\ ns[p[1]] \in Nat
      OBVIOUS
    <3> QED BY <3>1
  <2> QED BY <2>1
<1>2. PICK g : IsFold(g, n, Nat, 0, step)
  <2> HIDE DEF step
  <2> QED BY <1>1, FoldExists
<1>3. \A U \in SUBSET (1 .. n) : U # {} => Max(U) \in 1 .. n /\ U \ {Max(U)} \in SUBSET (1 .. n)
  BY MaxIndex
<1>4. g = Body(g)
  <2>1. ASSUME NEW U \in SUBSET (1 .. n), U # {} PROVE g[U] = g[U \ {Max(U)}] + ns[Max(U)]
    <3> DEFINE T == U \ {Max(U)}
               m == Max(U)
    <3>1. m \in 1 .. n /\ T \in SUBSET (1 .. n)
      BY <1>3, <2>1
    <3>2. g[T] \in Nat /\ g[U] = step[<<m, g[T]>>]
      BY <1>2, <2>1, <3>1 DEF IsFold
    <3> HIDE DEF T, m
    <3>3. g[U] = g[T] + ns[m]
      BY <3>1, <3>2
    <3> QED BY <3>3 DEF T, m
  <2>2. g \in [SUBSET (1 .. n) -> Nat] /\ g[{}] = 0
    BY <1>2, Prefix DEF IsFold
  <2> HIDE DEF step
  <2> QED BY <2>1, <2>2
<1>5. it = Body(it)
  BY <1>4
<1>6. Total(ns) = it[1 .. n]
  BY <1>1 DEF Total, FoldLeft, MapThenFoldSet
<1> HIDE DEF it
<1>7. h[0] = 0
  BY <1>5, Prefix
<1>8. ASSUME NEW k \in 1 .. n PROVE h[k] = h[k - 1] + ns[k]
  <2>1. /\ 1 .. k \in SUBSET (1 .. n) /\ 1 .. k # {}
        /\ Max(1 .. k) = k /\ (1 .. k) \ {k} = 1 .. (k - 1)
    BY Prefix
  <2>2. \A U \in SUBSET (1 .. n) : U # {} => it[U] = it[U \ {Max(U)}] + ns[Max(U)]
    BY <1>5
  <2>3. it[1 .. k] = it[1 .. (k - 1)] + ns[k]
    BY <2>1, <2>2
  <2>4. h[k] = it[1 .. k] /\ h[k - 1] = it[1 .. (k - 1)]
    OBVIOUS
  <2> HIDE DEF h
  <2> QED BY <2>3, <2>4
<1>9. h[n] = it[1 .. n] /\ DOMAIN h = 0 .. n /\ h = [k \in 0 .. n |-> h[k]]
  OBVIOUS
<1> HIDE DEF h
<1> DEFINE W == [k \in 0 .. n |-> Nat]
<1>10. \A k \in 0 .. n : h[k] \in W[k]
  <2>1. h[0] \in W[0]
    BY <1>7
  <2>2. ASSUME NEW k \in 1 .. n, h[k - 1] \in W[k - 1] PROVE h[k] \in W[k]
    <3>1. h[k - 1] \in Nat /\ ns[k] \in Nat /\ k \in 0 .. n
      BY <2>2
    <3> QED BY <1>8, <3>1
  <2> HIDE DEF W
  <2> QED BY <2>1, <2>2, Run
<1>11. h \in [0 .. n -> Nat]
  BY <1>9, <1>10
<1> QED BY <1>6, <1>7, <1>8, <1>9, <1>11 DEF Sums

\* One sequence after another adds up to both.
LEMMA TotalJoins ==
  ASSUME NEW s \in Seq(Nat), NEW t \in Seq(Nat), NEW u \in Seq(Nat), Joined(u, s, t)
  PROVE  /\ Total(s) \in Nat /\ Total(t) \in Nat
         /\ Total(u) = Total(s) + Total(t)
<1> DEFINE p == Len(s)
           q == Len(t)
           n == Len(u)
<1>1. /\ p \in Nat /\ q \in Nat /\ n = p + q /\ n \in Nat
      /\ s \in [1 .. p -> Nat] /\ t \in [1 .. q -> Nat] /\ u \in [1 .. n -> Nat]
      /\ \A k \in 1 .. p : u[k] = s[k]
      /\ \A k \in 1 .. q : u[p + k] = t[k]
  BY DEF Joined
<1> HIDE DEF p, q, n
<1>2. PICK f : Sums(f, s, p) /\ Total(s) = f[p]
  BY <1>1, TotalRuns
<1>3. PICK g : Sums(g, t, q) /\ Total(t) = g[q]
  BY <1>1, TotalRuns
<1>4. PICK h : Sums(h, u, n) /\ Total(u) = h[n]
  BY <1>1, TotalRuns
<1>5. /\ f[0] = 0 /\ g[0] = 0 /\ h[0] = 0 /\ f[p] \in Nat /\ g[q] \in Nat
      /\ \A k \in 1 .. p : f[k] = f[k - 1] + s[k]
      /\ \A k \in 1 .. q : g[k] = g[k - 1] + t[k]
      /\ \A k \in 1 .. n : h[k] = h[k - 1] + u[k]
  <2>1. p \in 0 .. p /\ q \in 0 .. q
    BY <1>1
  <2> QED BY <1>2, <1>3, <1>4, <2>1 DEF Sums
<1>6. h[p] = f[p]
  <2> DEFINE W == [k \in 0 .. p |-> {f[k]}]
  <2>1. h[0] \in W[0]
    BY <1>1, <1>5
  <2>2. ASSUME NEW k \in 1 .. p, h[k - 1] \in W[k - 1] PROVE h[k] \in W[k]
    <3>1. h[k - 1] = f[k - 1] /\ k \in 1 .. n /\ k \in 0 .. p
      BY <1>1, <2>2
    <3>2. h[k] = f[k]
      BY <1>1, <1>5, <3>1
    <3> QED BY <3>1, <3>2
  <2> HIDE DEF W
  <2>3. \A k \in 0 .. p : h[k] \in W[k]
    BY <1>1, <2>1, <2>2, Run
  <2> USE DEF W
  <2> QED BY <1>1, <2>3
<1>7. h[p + q] = f[p] + g[q]
  <2> DEFINE hh == [k \in 0 .. q |-> h[p + k]]
             W == [k \in 0 .. q |-> {f[p] + g[k]}]
  <2>1. hh[0] \in W[0]
    BY <1>1, <1>5, <1>6
  <2>2. ASSUME NEW k \in 1 .. q, hh[k - 1] \in W[k - 1] PROVE hh[k] \in W[k]
    <3>1. h[p + (k - 1)] = f[p] + g[k - 1] /\ p + k \in 1 .. n /\ k \in 0 .. q /\ (p + k) - 1 = p + (k - 1)
      BY <1>1, <2>2
    <3>2. h[p + k] = h[p + (k - 1)] + t[k]
      BY <1>1, <1>5, <3>1
    <3>3. g[k - 1] \in Nat /\ t[k] \in Nat /\ g[k] = g[k - 1] + t[k]
      <4>1. k - 1 \in 0 .. q
        BY <1>1
      <4> QED BY <1>1, <1>3, <1>5, <4>1 DEF Sums
    <3>4. h[p + k] = f[p] + g[k]
      BY <1>5, <3>1, <3>2, <3>3
    <3> QED BY <3>1, <3>4
  <2> HIDE DEF W, hh
  <2>3. \A k \in 0 .. q : hh[k] \in W[k]
    BY <1>1, <2>1, <2>2, Run
  <2> USE DEF W, hh
  <2> QED BY <1>1, <2>3
<1> QED BY <1>1, <1>2, <1>3, <1>4, <1>5, <1>7

\* ts are TLVs of K, of the tags X, each once, in at most b bytes.
Sized(K) == \A t \in K : t.size \in Nat
TagsDiffer(ts) == \A j, k \in DOMAIN ts : ts[j].tag = ts[k].tag => j = k
Fits(ts, K, X, b) ==
  /\ ts \in Seq(K) /\ Tags(ts) = X /\ TagsDiffer(ts)
  /\ BytesOf(ts) \in Nat /\ BytesOf(ts) <= b

\* The sizes of TLVs are numbers.
LEMMA Sizes ==
  ASSUME NEW K, Sized(K), NEW ts \in Seq(K)
  PROVE  /\ [k \in DOMAIN ts |-> ts[k].size] \in Seq(Nat)
         /\ Len([k \in DOMAIN ts |-> ts[k].size]) = Len(ts)
         /\ BytesOf(ts) \in Nat
<1> DEFINE ns == [k \in DOMAIN ts |-> ts[k].size]
<1>1. DOMAIN ts = 1 .. Len(ts) /\ Len(ts) \in Nat /\ \A k \in DOMAIN ts : ts[k] \in K
  BY Elements
<1>2. ns \in [1 .. Len(ts) -> Nat]
  BY <1>1 DEF Sized
<1>3. ns \in Seq(Nat) /\ Len(ns) = Len(ts)
  <2> HIDE DEF ns
  <2> QED BY <1>1, <1>2
<1>4. \E h : Sums(h, ns, Len(ts)) /\ Total(ns) = h[Len(ts)]
  <2> HIDE DEF ns
  <2> QED BY <1>1, <1>2, TotalRuns
<1>5. Total(ns) \in Nat
  <2> HIDE DEF ns
  <2> QED BY <1>1, <1>4 DEF Sums
<1> QED BY <1>3, <1>5 DEF BytesOf

\* No TLV fits anywhere.
LEMMA FitsNone ==
  ASSUME NEW K, Sized(K)
  PROVE  Fits(<<>>, K, {}, 0) /\ BytesOf(<<>>) = 0
<1> DEFINE ns == [k \in DOMAIN <<>> |-> <<>>[k].size]
<1>1. ns \in [1 .. 0 -> Nat] /\ Tags(<<>>) = {} /\ TagsDiffer(<<>>)
  BY DEF Tags, TagsDiffer
<1>2. Total(ns) = 0
  <2> HIDE DEF ns
  <2>1. \E h : Sums(h, ns, 0) /\ Total(ns) = h[0]
    BY <1>1, TotalRuns
  <2> QED BY <2>1 DEF Sums
<1>3. BytesOf(<<>>) = 0
  BY <1>2 DEF BytesOf
<1> QED BY <1>1, <1>3 DEF Fits

\* One does.
LEMMA FitsOne ==
  ASSUME NEW K, Sized(K), NEW t \in K
  PROVE  Fits(<<t>>, K, {t.tag}, t.size) /\ BytesOf(<<t>>) = t.size
<1> DEFINE ts == <<t>>
           ns == [k \in DOMAIN ts |-> ts[k].size]
<1>1. ts \in Seq(K) /\ DOMAIN ts = {1} /\ ts[1] = t /\ t.size \in Nat
  BY DEF Sized
<1>2. ns \in [1 .. 1 -> Nat] /\ ns[1] = t.size
  BY <1>1
<1>3. Total(ns) = t.size
  <2> HIDE DEF ns
  <2>1. PICK h : Sums(h, ns, 1) /\ Total(ns) = h[1]
    BY <1>2, TotalRuns
  <2>2. h[0] = 0 /\ 1 \in 1 .. 1 /\ h[1] = h[0] + ns[1]
    BY <2>1 DEF Sums
  <2> QED BY <1>1, <1>2, <2>1, <2>2
<1>4. BytesOf(ts) = t.size
  BY <1>3 DEF BytesOf
<1> HIDE DEF ts
<1>5. Tags(ts) = {t.tag} /\ TagsDiffer(ts)
  BY <1>1 DEF Tags, TagsDiffer
<1>6. Fits(ts, K, {t.tag}, t.size)
  BY <1>1, <1>4, <1>5 DEF Fits
<1> QED BY <1>4, <1>6 DEF ts

\* Two that share no tag do, one after the other.
LEMMA FitsBoth ==
  ASSUME NEW K, Sized(K), NEW X, NEW Y, NEW a \in Nat, NEW b \in Nat, X \cap Y = {},
         NEW s, NEW t, Fits(s, K, X, a), Fits(t, K, Y, b)
  PROVE  Fits(s \o t, K, X \cup Y, a + b) /\ BytesOf(s \o t) = BytesOf(s) + BytesOf(t)
<1> DEFINE u == s \o t
           p == Len(s)
           ns == [k \in DOMAIN s |-> s[k].size]
           nt == [k \in DOMAIN t |-> t[k].size]
           nu == [k \in DOMAIN u |-> u[k].size]
<1>1. s \in Seq(K) /\ t \in Seq(K) /\ u \in Seq(K) /\ Joined(u, s, t)
  BY Concat DEF Fits
<1> HIDE DEF u
<1>2. /\ p \in Nat /\ Len(t) \in Nat /\ DOMAIN s = 1 .. p /\ DOMAIN t = 1 .. Len(t)
      /\ DOMAIN u = 1 .. p + Len(t)
  BY <1>1 DEF Joined
<1>3. /\ \A k \in DOMAIN s : k \in DOMAIN u /\ u[k] = s[k]
      /\ \A k \in DOMAIN t : p + k \in DOMAIN u /\ u[p + k] = t[k]
      /\ \A k \in DOMAIN u : k \in DOMAIN s \/ \E j \in DOMAIN t : k = p + j
  <2>1. ASSUME NEW k \in DOMAIN u, k \notin DOMAIN s PROVE \E j \in DOMAIN t : k = p + j
    <3>1. k - p \in DOMAIN t /\ k = p + (k - p)
      BY <1>2, <2>1
    <3> QED BY <3>1
  <2> QED BY <1>1, <1>2, <2>1 DEF Joined
<1>4. Tags(u) = X \cup Y
  <2>1. Tags(s) = X /\ Tags(t) = Y
    BY DEF Fits
  <2>2. \A k \in DOMAIN u : u[k].tag \in Tags(s) \cup Tags(t)
    BY <1>3 DEF Tags
  <2>3. Tags(s) \subseteq Tags(u) /\ Tags(t) \subseteq Tags(u)
    BY <1>3 DEF Tags
  <2>4. Tags(u) \subseteq Tags(s) \cup Tags(t)
    BY <2>2 DEF Tags
  <2> QED BY <2>1, <2>3, <2>4
<1>5. TagsDiffer(u)
  <2>1. /\ \A k \in DOMAIN s : s[k].tag \in X
        /\ \A k \in DOMAIN t : t[k].tag \in Y
        /\ TagsDiffer(s) /\ TagsDiffer(t)
    BY DEF Fits, Tags
  <2>2. ASSUME NEW j \in DOMAIN u, NEW k \in DOMAIN u, u[j].tag = u[k].tag PROVE j = k
    <3>1. CASE j \in DOMAIN s /\ k \in DOMAIN s
      BY <1>3, <2>1, <2>2, <3>1 DEF TagsDiffer
    <3>2. CASE j \notin DOMAIN s /\ k \notin DOMAIN s
      <4>1. PICK i \in DOMAIN t, l \in DOMAIN t : j = p + i /\ k = p + l
        BY <1>3, <3>2
      <4>2. t[i].tag = t[l].tag
        BY <1>3, <2>2, <4>1
      <4> QED BY <2>1, <4>1, <4>2 DEF TagsDiffer
    <3>3. CASE j \in DOMAIN s /\ k \notin DOMAIN s
      <4>1. u[j].tag \in X /\ u[k].tag \in Y
        BY <1>3, <2>1, <3>3
      <4> QED BY <2>2, <4>1
    <3>4. CASE j \notin DOMAIN s /\ k \in DOMAIN s
      <4>1. u[j].tag \in Y /\ u[k].tag \in X
        BY <1>3, <2>1, <3>4
      <4> QED BY <2>2, <4>1
    <3> QED BY <3>1, <3>2, <3>3, <3>4
  <2> QED BY <2>2 DEF TagsDiffer
<1>6. /\ ns \in Seq(Nat) /\ nt \in Seq(Nat) /\ nu \in Seq(Nat)
      /\ Len(ns) = p /\ Len(nt) = Len(t) /\ Len(nu) = Len(u)
  BY <1>1, Sizes
<1>7. Joined(nu, ns, nt)
  <2>1. /\ \A k \in 1 .. p : nu[k] = ns[k]
        /\ \A k \in 1 .. Len(t) : nu[p + k] = nt[k]
    BY <1>2, <1>3
  <2> HIDE DEF nu, ns, nt
  <2> QED BY <1>1, <1>2, <1>6, <2>1 DEF Joined
<1>8. Total(ns) \in Nat /\ Total(nt) \in Nat /\ Total(nu) = Total(ns) + Total(nt)
  <2> HIDE DEF nu, ns, nt
  <2> QED BY <1>6, <1>7, TotalJoins
<1>9. BytesOf(u) = BytesOf(s) + BytesOf(t)
  BY <1>8 DEF BytesOf
<1>10. Fits(u, K, X \cup Y, a + b)
  BY <1>1, <1>4, <1>5, <1>9 DEF Fits
<1> QED BY <1>9, <1>10 DEF u

\* The same, with the sum worked out.
LEMMA FitsNext ==
  ASSUME NEW K, Sized(K), NEW X, NEW Y, NEW a \in Nat, NEW b \in Nat, X \cap Y = {},
         NEW s, NEW t, Fits(s, K, X, a), Fits(t, K, Y, b), NEW c, c = a + b
  PROVE  Fits(s \o t, K, X \cup Y, c)
BY FitsBoth

\* What is appended on a condition.
LEMMA FitsWhen ==
  ASSUME NEW K, Sized(K), NEW X, NEW b \in Nat, NEW ts, Fits(ts, K, X, b), NEW cond \in BOOLEAN
  PROVE  Fits(When(cond, ts), K, IF cond THEN X ELSE {}, b)
<1>1. CASE cond
  BY <1>1 DEF When
<1>2. CASE ~cond
  <2>1. Fits(<<>>, K, {}, 0)
    BY FitsNone
  <2>2. Fits(<<>>, K, {}, b)
    BY <2>1 DEF Fits
  <2> QED BY <1>2, <2>2 DEF When
<1> QED BY <1>1, <1>2

\* There are as many tags as TLVs.
LEMMA FitsCount ==
  ASSUME NEW K, NEW X, NEW b, NEW ts, Fits(ts, K, X, b)
  PROVE  Cardinality(Tags(ts)) = Len(ts) /\ Len(ts) \in Nat
<1>1. Len(ts) \in Nat /\ DOMAIN ts = 1 .. Len(ts)
  BY Elements DEF Fits
<1> DEFINE f == [k \in 1 .. Len(ts) |-> ts[k].tag]
<1>2. f \in Bijection(1 .. Len(ts), Tags(ts))
  <2>1. f \in [1 .. Len(ts) -> Tags(ts)] /\ DOMAIN f = 1 .. Len(ts)
    BY <1>1 DEF Tags
  <2>2. \A j, k \in 1 .. Len(ts) : f[j] = f[k] => j = k
    BY <1>1 DEF Fits, TagsDiffer
  <2>3. \A x \in Tags(ts) : \E k \in 1 .. Len(ts) : f[k] = x
    BY <1>1 DEF Tags
  <2> HIDE DEF f
  <2>4. f \in Injection(1 .. Len(ts), Tags(ts))
    BY <2>1, <2>2 DEF Injection, IsInjective
  <2>5. f \in Surjection(1 .. Len(ts), Tags(ts))
    BY <2>1, <2>3 DEF Surjection
  <2> QED BY <2>4, <2>5 DEF Bijection
<1>3. IsFiniteSet(1 .. Len(ts)) /\ Cardinality(1 .. Len(ts)) = Len(ts)
  <2>1. \A n \in Nat : IsFiniteSet(1 .. n) /\ Cardinality(1 .. n) = n
    <3> TAKE n \in Nat
    <3>1. IsFiniteSet(1 .. n) /\ Cardinality(1 .. n) = IF 1 > n THEN 0 ELSE n - 1 + 1
      BY FS_Interval
    <3> QED BY <3>1
  <2> QED BY <1>1, <2>1
<1> HIDE DEF f
<1>4. Cardinality(1 .. Len(ts)) = Cardinality(Tags(ts))
  BY <1>2, <1>3, FS_Bijection DEF ExistsBijection
<1> QED BY <1>1, <1>3, <1>4

\* What a tag says, if K has one TLV of that tag.
LEMMA FitsSays ==
  ASSUME NEW K, NEW X, NEW b, NEW ts, Fits(ts, K, X, b), NEW v, v.tag \in X,
         \A t \in K : t.tag = v.tag => t = v
  PROVE  TlvOf(ts, v.tag) = v.says
<1>1. \A k \in DOMAIN ts : ts[k] \in K
  BY Elements DEF Fits
<1> DEFINE c == CHOOSE k \in DOMAIN ts : ts[k].tag = v.tag
<1>2. \E k \in DOMAIN ts : ts[k].tag = v.tag
  BY DEF Fits, Tags
<1>3. c \in DOMAIN ts /\ ts[c].tag = v.tag
  BY <1>2
<1>4. ts[c] = v
  BY <1>1, <1>3
<1> QED BY <1>4 DEF TlvOf

\* A sequence up to its k-th element.
UpTo(ts, k) == [j \in 1 .. k |-> ts[j]]
LEMMA UpToGrows ==
  ASSUME NEW K, NEW ts \in Seq(K)
  PROVE  /\ UpTo(ts, 0) = <<>> /\ UpTo(ts, Len(ts)) = ts
         /\ \A k \in 0 .. Len(ts) : UpTo(ts, k) \in Seq(K)
         /\ \A k \in 1 .. Len(ts) : Append(UpTo(ts, k - 1), ts[k]) = UpTo(ts, k)
<1>1. Len(ts) \in Nat /\ DOMAIN ts = 1 .. Len(ts) /\ \A k \in 1 .. Len(ts) : ts[k] \in K
  BY Elements
<1>2. \A k \in 0 .. Len(ts) : UpTo(ts, k) \in [1 .. k -> K]
  BY <1>1 DEF UpTo
<1>3. \A k \in 0 .. Len(ts) : UpTo(ts, k) \in Seq(K) /\ Len(UpTo(ts, k)) = k
  BY <1>1, <1>2
<1>4. ASSUME NEW k \in 1 .. Len(ts) PROVE Append(UpTo(ts, k - 1), ts[k]) = UpTo(ts, k)
  <2>1. k - 1 \in 0 .. Len(ts) /\ k - 1 \in Nat /\ (k - 1) + 1 = k /\ k \in 0 .. Len(ts)
    BY <1>1
  <2> DEFINE s == UpTo(ts, k - 1)
             u == Append(s, ts[k])
             v == UpTo(ts, k)
  <2>2. s \in Seq(K) /\ Len(s) = k - 1 /\ ts[k] \in K /\ v \in Seq(K) /\ Len(v) = k
    BY <1>1, <1>3, <2>1
  <2>3. \A j \in 1 .. k - 1 : s[j] = ts[j]
    BY DEF UpTo
  <2>4. \A j \in 1 .. k : v[j] = ts[j]
    BY DEF UpTo
  <2> HIDE DEF s, v
  <2>5. u \in Seq(K) /\ Len(u) = k /\ u[k] = ts[k] /\ \A j \in 1 .. k - 1 : u[j] = ts[j]
    BY <2>1, <2>2, <2>3
  <2>6. \A j \in 1 .. k : u[j] = v[j]
    BY <2>1, <2>4, <2>5
  <2> HIDE DEF u
  <2>7. u = v
    BY <2>1, <2>2, <2>5, <2>6
  <2> QED BY <2>7 DEF u, v, s
<1>5. UpTo(ts, 0) = <<>>
  BY DEF UpTo
<1>6. UpTo(ts, Len(ts)) = ts
  BY <1>1 DEF UpTo
<1> QED BY <1>3, <1>4, <1>5, <1>6

\* A record with the TLVs ts, and with the table holding us.
Record(muar, ts, table) == [muar |-> muar, num |-> Len(ts), tlvs |-> ts, table |-> table]
TableOf(us) == [open |-> TRUE, num |-> Len(us), len |-> 12 + BytesOf(us), tlvs |-> us]

\* What one append does to a record, and to its table.
LEMMA AddsOne ==
  ASSUME NEW x, NEW a \in Nat, NEW s, NEW y, NEW t
  PROVE  AddTlv([muar |-> x, num |-> a, tlvs |-> s, table |-> y], t)
           = [muar |-> x, num |-> a + 1, tlvs |-> Append(s, t), table |-> y]
<1> DEFINE m == [muar |-> x, num |-> a, tlvs |-> s, table |-> y]
           r == [muar |-> x, num |-> a + 1, tlvs |-> s, table |-> y]
           q == [muar |-> x, num |-> a + 1, tlvs |-> Append(s, t), table |-> y]
<1>1. [m EXCEPT !.num = @ + 1] = r
  OBVIOUS
<1>2. [r EXCEPT !.tlvs = Append(@, t)] = q
  <2>1. \A u : [r EXCEPT !.tlvs = u] = [muar |-> x, num |-> a + 1, tlvs |-> u, table |-> y]
    OBVIOUS
  <2>2. r.tlvs = s
    OBVIOUS
  <2>3. [r EXCEPT !.tlvs = Append(s, t)] = q
    BY <2>1
  <2> HIDE DEF r, q
  <2> QED BY <2>2, <2>3
<1> HIDE DEF m, r, q
<1>3. [[m EXCEPT !.num = @ + 1] EXCEPT !.tlvs = Append(@, t)] = q
  BY <1>1, <1>2, Zenon
<1>4. AddTlv(m, t) = [[m EXCEPT !.num = @ + 1] EXCEPT !.tlvs = Append(@, t)]
  BY DEF AddTlv
<1> QED BY <1>3, <1>4 DEF m, q

Nested(x, n, ts, a, b, s) ==
  [muar |-> x, num |-> n, tlvs |-> ts,
   table |-> [open |-> TRUE, num |-> a, len |-> b, tlvs |-> s]]
LEMMA AddsOneNested ==
  ASSUME NEW x, NEW n, NEW ts, NEW a \in Nat, NEW b \in Nat, NEW s, NEW t, t.size \in Nat
  PROVE  AddNestedTlv(Nested(x, n, ts, a, b, s), t)
           = Nested(x, n, ts, a + 1, b + t.size, Append(s, t))
<1>0. PICK o : o = TRUE
  OBVIOUS
<1> DEFINE old == [open |-> o, num |-> a, len |-> b, tlvs |-> s]
           old1 == [open |-> o, num |-> a + 1, len |-> b, tlvs |-> s]
           old2 == [open |-> o, num |-> a + 1, len |-> b + t.size, tlvs |-> s]
           new == [open |-> o, num |-> a + 1, len |-> b + t.size, tlvs |-> Append(s, t)]
           m == [muar |-> x, num |-> n, tlvs |-> ts, table |-> old]
<1>1. [old EXCEPT !.num = @ + 1] = old1
  OBVIOUS
<1>2. [old1 EXCEPT !.len = @ + t.size] = old2
  OBVIOUS
<1>3. [old2 EXCEPT !.tlvs = Append(@, t)] = new
  <2>1. \A u : [old2 EXCEPT !.tlvs = u] = [open |-> o, num |-> a + 1, len |-> b + t.size, tlvs |-> u]
    OBVIOUS
  <2>2. old2.tlvs = s
    OBVIOUS
  <2>3. [old2 EXCEPT !.tlvs = Append(s, t)] = new
    BY <2>1
  <2> HIDE DEF old2, new
  <2> QED BY <2>2, <2>3
<1>4. m.table = old /\ \A u : [m EXCEPT !.table = u] = [muar |-> x, num |-> n, tlvs |-> ts, table |-> u]
  <2> HIDE DEF old
  <2> QED OBVIOUS
<1> HIDE DEF old, old1, old2, new
<1>5. [[[old EXCEPT !.num = @ + 1] EXCEPT !.len = @ + t.size] EXCEPT !.tlvs = Append(@, t)] = new
  BY <1>1, <1>2, <1>3, Zenon
<1>6. [old EXCEPT !.num = @ + 1, !.len = @ + t.size, !.tlvs = Append(@, t)] = new
  <2>1. [old EXCEPT !.num = @ + 1, !.len = @ + t.size, !.tlvs = Append(@, t)]
          = [[[old EXCEPT !.num = @ + 1] EXCEPT !.len = @ + t.size] EXCEPT !.tlvs = Append(@, t)]
    OBVIOUS
  <2> QED BY <1>5, <2>1
<1> HIDE DEF m
<1>7. AddNestedTlv(m, t) = [m EXCEPT !.table = new]
  <2>1. AddNestedTlv(m, t)
          = [m EXCEPT !.table = [m.table EXCEPT !.num = @ + 1, !.len = @ + t.size,
                                                !.tlvs = Append(@, t)]]
    BY Zenon DEF AddNestedTlv
  <2>2. [m.table EXCEPT !.num = @ + 1, !.len = @ + t.size, !.tlvs = Append(@, t)] = new
    BY <1>4, <1>6
  <2> QED BY <2>1, <2>2
<1>8. AddNestedTlv(m, t) = [muar |-> x, num |-> n, tlvs |-> ts, table |-> new]
  BY <1>4, <1>7
<1> QED BY <1>0, <1>8 DEF m, old, new, Nested

\* Appending to the record counts what is appended.
LEMMA AddsAll ==
  ASSUME NEW K, NEW ts \in Seq(K), NEW x, NEW y
  PROVE  AddAll([muar |-> x, num |-> 0, tlvs |-> <<>>, table |-> y], ts) = Record(x, ts, y)
<1> DEFINE n == Len(ts)
           Made(a, s) == [muar |-> x, num |-> a, tlvs |-> s, table |-> y]
           V == {Made(p[1], p[2]) : p \in Nat \X Seq(K)}
           base == Made(0, <<>>)
<1> DEFINE step == [p \in (1 .. n) \X V |-> AddTlv(p[2], ts[p[1]])]
           Body(f) == [U \in SUBSET (1 .. n) |->
                         IF U = {} THEN base ELSE AddTlv(f[U \ {Max(U)}], ts[Max(U)])]
           it == CHOOSE f : f = Body(f)
           h == [k \in 0 .. n |-> it[1 .. k]]
<1>0. n \in Nat /\ DOMAIN ts = 1 .. n /\ \A k \in 1 .. n : ts[k] \in K
  BY Elements
<1>01. <<>> \in Seq(K)
  OBVIOUS
<1> HIDE DEF n
<1>02. \A a \in Nat, s \in Seq(K) : Made(a, s) \in V
  <2> TAKE a \in Nat, s \in Seq(K)
  <2>1. <<a, s>> \in Nat \X Seq(K) /\ <<a, s>>[1] = a /\ <<a, s>>[2] = s
    OBVIOUS
  <2> HIDE DEF Made
  <2> QED BY <2>1
<1>1. n \in Nat /\ base \in V /\ DOMAIN ts = 1 .. n
  <2> HIDE DEF V, Made
  <2> QED BY <1>0, <1>01, <1>02
<1>03. \A a \in Nat, s \in Seq(K), t \in K : AddTlv(Made(a, s), t) = Made(a + 1, Append(s, t))
  BY AddsOne
<1>2. ASSUME NEW k \in 1 .. n, NEW m \in V PROVE AddTlv(m, ts[k]) \in V
  <2>1. PICK a \in Nat, s \in Seq(K) : m = Made(a, s)
    <3>1. PICK p \in Nat \X Seq(K) : m = Made(p[1], p[2])
      OBVIOUS
    <3> QED BY <3>1
  <2>2. a + 1 \in Nat /\ Append(s, ts[k]) \in Seq(K) /\ ts[k] \in K
    BY <1>0
  <2> HIDE DEF V, Made
  <2> QED BY <1>02, <1>03, <2>1, <2>2
<1> HIDE DEF base, Made
<1>3. step \in [(1 .. n) \X V -> V]
  <2>1. ASSUME NEW p \in (1 .. n) \X V PROVE AddTlv(p[2], ts[p[1]]) \in V
    <3>1. p[1] \in 1 .. n /\ p[2] \in V
      OBVIOUS
    <3> QED BY <1>2, <3>1
  <2> HIDE DEF V
  <2> QED BY <2>1
<1>4. PICK g : IsFold(g, n, V, base, step)
  <2> HIDE DEF step, V
  <2> QED BY <1>1, <1>3, FoldExists
<1>5. g = Body(g)
  <2>1. ASSUME NEW U \in SUBSET (1 .. n), U # {}
        PROVE  g[U] = AddTlv(g[U \ {Max(U)}], ts[Max(U)])
    <3> DEFINE T == U \ {Max(U)}
               i == Max(U)
    <3>1. i \in 1 .. n /\ T \in SUBSET (1 .. n)
      BY <1>1, <2>1, MaxIndex
    <3> HIDE DEF T, i, V, step
    <3>2. g[T] \in V /\ g[U] = step[<<i, g[T]>>]
      BY <1>4, <2>1, <3>1 DEF IsFold, T, i
    <3> USE DEF step
    <3>3. g[U] = AddTlv(g[T], ts[i])
      BY <3>1, <3>2
    <3> QED BY <3>3 DEF T, i
  <2>2. g \in [SUBSET (1 .. n) -> V] /\ g[{}] = base
    <3> HIDE DEF V, step
    <3> QED BY <1>1, <1>4, Prefix DEF IsFold
  <2> HIDE DEF step, V
  <2> QED BY <2>1, <2>2
<1> HIDE DEF V, step
<1>6. it = Body(it)
  BY <1>5
<1>7. FoldLeft(AddTlv, base, ts) = it[1 .. n]
  BY <1>1 DEF FoldLeft, MapThenFoldSet
<1> HIDE DEF it
<1>8. h[0] = base
  BY <1>1, <1>6, Prefix
<1>9. ASSUME NEW k \in 1 .. n PROVE h[k] = AddTlv(h[k - 1], ts[k])
  <2>1. /\ 1 .. k \in SUBSET (1 .. n) /\ 1 .. k # {}
        /\ Max(1 .. k) = k /\ (1 .. k) \ {k} = 1 .. (k - 1)
    BY <1>1, Prefix
  <2>2. \A U \in SUBSET (1 .. n) : U # {} => it[U] = AddTlv(it[U \ {Max(U)}], ts[Max(U)])
    BY <1>6
  <2>3. it[1 .. k] = AddTlv(it[1 .. (k - 1)], ts[k])
    BY <2>1, <2>2
  <2>4. h[k] = it[1 .. k] /\ h[k - 1] = it[1 .. (k - 1)]
    BY <1>1
  <2> HIDE DEF h
  <2> QED BY <2>3, <2>4
<1>10. h[n] = it[1 .. n]
  BY <1>1
<1> HIDE DEF h
<1> DEFINE W == [k \in 0 .. n |-> {Made(k, UpTo(ts, k))}]
<1>11. h[0] \in W[0]
  BY <1>1, <1>8, UpToGrows DEF base
<1>12. ASSUME NEW k \in 1 .. n, h[k - 1] \in W[k - 1] PROVE h[k] \in W[k]
  <2>1. k - 1 \in 0 .. n /\ k \in 0 .. n /\ k - 1 \in Nat /\ (k - 1) + 1 = k
    BY <1>1
  <2>2. h[k - 1] = Made(k - 1, UpTo(ts, k - 1))
    BY <1>12, <2>1
  <2>3. /\ Append(UpTo(ts, k - 1), ts[k]) = UpTo(ts, k)
        /\ UpTo(ts, k - 1) \in Seq(K) /\ ts[k] \in K
    BY <1>0, <2>1, UpToGrows DEF n
  <2>4. h[k] = Made((k - 1) + 1, Append(UpTo(ts, k - 1), ts[k]))
    BY <1>03, <1>9, <2>1, <2>2, <2>3
  <2>5. h[k] = Made(k, UpTo(ts, k))
    BY <2>1, <2>3, <2>4
  <2> QED BY <2>1, <2>5
<1>13. \A k \in 0 .. n : h[k] \in W[k]
  <2> HIDE DEF W
  <2> QED BY <1>1, <1>11, <1>12, Run
<1>14. h[n] = Made(n, ts)
  <2>1. n \in 0 .. n
    BY <1>1
  <2>2. h[n] = Made(n, UpTo(ts, n))
    BY <1>13, <2>1
  <2> QED BY <2>2, UpToGrows DEF n
<1>15. FoldLeft(AddTlv, base, ts) = Made(n, ts)
  BY <1>7, <1>10, <1>14
<1> QED BY <1>15 DEF base, Made, n, AddAll, Record

\* Appending to the table counts what is appended, and its bytes.
LEMMA AddsAllNested ==
  ASSUME NEW K, Sized(K), NEW us \in Seq(K), NEW x, NEW ts
  PROVE  AddAllNested(Record(x, ts, NewTable), us) = Record(x, ts, TableOf(us))
<1> DEFINE n == Len(us)
           Made(a, b, s) == Nested(x, Len(ts), ts, a, b, s)
           V == {Made(p[1], p[2], p[3]) : p \in Nat \X Nat \X Seq(K)}
           base == Made(0, 12, <<>>)
           ns == [k \in DOMAIN us |-> us[k].size]
<1> DEFINE step == [p \in (1 .. n) \X V |-> AddNestedTlv(p[2], us[p[1]])]
           Body(f) == [U \in SUBSET (1 .. n) |->
                         IF U = {} THEN base ELSE AddNestedTlv(f[U \ {Max(U)}], us[Max(U)])]
           it == CHOOSE f : f = Body(f)
           h == [k \in 0 .. n |-> it[1 .. k]]
<1>0. n \in Nat /\ DOMAIN us = 1 .. n /\ \A k \in 1 .. n : us[k] \in K /\ us[k].size \in Nat
  BY Elements DEF Sized
<1>01. <<>> \in Seq(K) /\ ns \in [1 .. n -> Nat] /\ \A k \in 1 .. n : ns[k] = us[k].size
  BY <1>0
<1> HIDE DEF n, ns
<1>02. \A a \in Nat, b \in Nat, s \in Seq(K) : Made(a, b, s) \in V
  <2> TAKE a \in Nat, b \in Nat, s \in Seq(K)
  <2>1. /\ <<a, b, s>> \in Nat \X Nat \X Seq(K)
        /\ <<a, b, s>>[1] = a /\ <<a, b, s>>[2] = b /\ <<a, b, s>>[3] = s
    OBVIOUS
  <2> HIDE DEF Made
  <2> QED BY <2>1
<1>1. n \in Nat /\ base \in V /\ DOMAIN us = 1 .. n
  <2> HIDE DEF V, Made
  <2> QED BY <1>0, <1>01, <1>02
<1>03. \A a \in Nat, b \in Nat, s \in Seq(K), t \in K :
         AddNestedTlv(Made(a, b, s), t) = Made(a + 1, b + t.size, Append(s, t))
  <2> TAKE a \in Nat, b \in Nat, s \in Seq(K), t \in K
  <2>1. t.size \in Nat
    BY DEF Sized
  <2> QED BY <2>1, AddsOneNested
<1>2. ASSUME NEW k \in 1 .. n, NEW m \in V PROVE AddNestedTlv(m, us[k]) \in V
  <2>1. PICK a \in Nat, b \in Nat, s \in Seq(K) : m = Made(a, b, s)
    <3>1. PICK p \in Nat \X Nat \X Seq(K) : m = Made(p[1], p[2], p[3])
      OBVIOUS
    <3> QED BY <3>1
  <2>2. /\ a + 1 \in Nat /\ Append(s, us[k]) \in Seq(K) /\ b + us[k].size \in Nat
        /\ us[k] \in K
    BY <1>0
  <2> HIDE DEF V, Made
  <2>3. AddNestedTlv(Made(a, b, s), us[k]) = Made(a + 1, b + us[k].size, Append(s, us[k]))
    BY <1>03, <2>2
  <2>4. Made(a + 1, b + us[k].size, Append(s, us[k])) \in V
    BY <1>02, <2>2
  <2> QED BY <2>1, <2>3, <2>4, Zenon
<1> HIDE DEF base, Made
<1>3. step \in [(1 .. n) \X V -> V]
  <2>1. ASSUME NEW p \in (1 .. n) \X V PROVE AddNestedTlv(p[2], us[p[1]]) \in V
    <3>1. p[1] \in 1 .. n /\ p[2] \in V
      OBVIOUS
    <3> QED BY <1>2, <3>1
  <2> HIDE DEF V
  <2> QED BY <2>1
<1>4. PICK g : IsFold(g, n, V, base, step)
  <2> HIDE DEF step, V
  <2> QED BY <1>1, <1>3, FoldExists
<1>5. g = Body(g)
  <2>1. ASSUME NEW U \in SUBSET (1 .. n), U # {}
        PROVE  g[U] = AddNestedTlv(g[U \ {Max(U)}], us[Max(U)])
    <3> DEFINE T == U \ {Max(U)}
               i == Max(U)
    <3>1. i \in 1 .. n /\ T \in SUBSET (1 .. n)
      BY <1>1, <2>1, MaxIndex
    <3> HIDE DEF T, i, V, step
    <3>2. g[T] \in V /\ g[U] = step[<<i, g[T]>>]
      BY <1>4, <2>1, <3>1 DEF IsFold, T, i
    <3> USE DEF step
    <3>3. g[U] = AddNestedTlv(g[T], us[i])
      BY <3>1, <3>2
    <3> QED BY <3>3 DEF T, i
  <2>2. g \in [SUBSET (1 .. n) -> V] /\ g[{}] = base
    <3> HIDE DEF V, step
    <3> QED BY <1>1, <1>4, Prefix DEF IsFold
  <2> HIDE DEF step, V
  <2> QED BY <2>1, <2>2
<1> HIDE DEF V, step
<1>6. it = Body(it)
  BY <1>5
<1>7. FoldLeft(AddNestedTlv, base, us) = it[1 .. n]
  BY <1>1 DEF FoldLeft, MapThenFoldSet
<1> HIDE DEF it
<1>8. h[0] = base
  BY <1>1, <1>6, Prefix
<1>9. ASSUME NEW k \in 1 .. n PROVE h[k] = AddNestedTlv(h[k - 1], us[k])
  <2>1. /\ 1 .. k \in SUBSET (1 .. n) /\ 1 .. k # {}
        /\ Max(1 .. k) = k /\ (1 .. k) \ {k} = 1 .. (k - 1)
    BY <1>1, Prefix
  <2>2. \A U \in SUBSET (1 .. n) : U # {} => it[U] = AddNestedTlv(it[U \ {Max(U)}], us[Max(U)])
    BY <1>6
  <2>3. it[1 .. k] = AddNestedTlv(it[1 .. (k - 1)], us[k])
    BY <2>1, <2>2
  <2>4. h[k] = it[1 .. k] /\ h[k - 1] = it[1 .. (k - 1)]
    BY <1>1
  <2> HIDE DEF h
  <2> QED BY <2>3, <2>4
<1>10. h[n] = it[1 .. n]
  BY <1>1
<1> HIDE DEF h
<1>20. PICK q : Sums(q, ns, n) /\ Total(ns) = q[n]
  BY <1>0, <1>01, TotalRuns
<1>21. q[0] = 0 /\ (\A k \in 0 .. n : q[k] \in Nat)
       /\ \A k \in 1 .. n : q[k] = q[k - 1] + us[k].size
  BY <1>01, <1>20 DEF Sums
<1> DEFINE W == [k \in 0 .. n |-> {Made(k, 12 + q[k], UpTo(us, k))}]
<1>11. h[0] \in W[0]
  BY <1>1, <1>8, <1>21, UpToGrows DEF base
<1>12. ASSUME NEW k \in 1 .. n, h[k - 1] \in W[k - 1] PROVE h[k] \in W[k]
  <2>1. k - 1 \in 0 .. n /\ k \in 0 .. n /\ k - 1 \in Nat /\ (k - 1) + 1 = k
    BY <1>1
  <2>2. h[k - 1] = Made(k - 1, 12 + q[k - 1], UpTo(us, k - 1))
    BY <1>12, <2>1
  <2>3. /\ Append(UpTo(us, k - 1), us[k]) = UpTo(us, k)
        /\ UpTo(us, k - 1) \in Seq(K) /\ us[k] \in K
    BY <1>0, <2>1, UpToGrows DEF n
  <2>4. q[k - 1] \in Nat /\ 12 + q[k - 1] \in Nat /\ us[k].size \in Nat
        /\ (12 + q[k - 1]) + us[k].size = 12 + q[k]
    BY <1>0, <1>21, <2>1
  <2>5. h[k] = Made((k - 1) + 1, (12 + q[k - 1]) + us[k].size, Append(UpTo(us, k - 1), us[k]))
    <3> HIDE DEF Made
    <3>1. h[k] = AddNestedTlv(Made(k - 1, 12 + q[k - 1], UpTo(us, k - 1)), us[k])
      BY <1>9, <2>2, Zenon
    <3>2. AddNestedTlv(Made(k - 1, 12 + q[k - 1], UpTo(us, k - 1)), us[k])
            = Made((k - 1) + 1, (12 + q[k - 1]) + us[k].size, Append(UpTo(us, k - 1), us[k]))
      BY <1>03, <2>1, <2>3, <2>4, Zenon
    <3> QED BY <3>1, <3>2, Zenon
  <2>6. h[k] = Made(k, 12 + q[k], UpTo(us, k))
    BY <2>1, <2>3, <2>4, <2>5
  <2> QED BY <2>1, <2>6
<1>13. \A k \in 0 .. n : h[k] \in W[k]
  <2> HIDE DEF W
  <2> QED BY <1>1, <1>11, <1>12, Run
<1>14. h[n] = Made(n, 12 + q[n], us)
  <2>1. n \in 0 .. n
    BY <1>1
  <2>2. h[n] = Made(n, 12 + q[n], UpTo(us, n))
    BY <1>13, <2>1
  <2> QED BY <2>2, UpToGrows DEF n
<1>15. FoldLeft(AddNestedTlv, base, us) = Made(n, 12 + BytesOf(us), us)
  <2>1. BytesOf(us) = q[n]
    BY <1>20 DEF BytesOf, ns
  <2> QED BY <1>7, <1>10, <1>14, <2>1
<1> QED BY <1>15 DEF base, Made, n, AddAllNested, Record, Nested, NewTable, TableOf, HdrSize, StaSize

\* A set of TLVs is one of a larger set, and one number adds up to itself.
LEMMA FitsIn ==
  ASSUME NEW K, NEW L, K \subseteq L, NEW X, NEW b, NEW ts, Fits(ts, K, X, b)
  PROVE  Fits(ts, L, X, b)
<1>1. ts \in Seq(K) /\ Len(ts) \in Nat /\ DOMAIN ts = 1 .. Len(ts) /\ \A k \in DOMAIN ts : ts[k] \in K
  BY Elements DEF Fits
<1>2. ts = [k \in 1 .. Len(ts) |-> ts[k]]
  BY <1>1
<1>3. ts \in [1 .. Len(ts) -> L]
  BY <1>1, <1>2
<1>4. ts \in Seq(L)
  BY <1>1, <1>3
<1> QED BY <1>4 DEF Fits
LEMMA TotalOne ==
  ASSUME NEW n \in Nat
  PROVE  <<n>> \in Seq(Nat) /\ Total(<<n>>) = n
<1> DEFINE ns == <<n>>
<1>1. ns \in Seq(Nat) /\ ns \in [1 .. 1 -> Nat] /\ ns[1] = n
  OBVIOUS
<1> HIDE DEF ns
<1>2. PICK h : Sums(h, ns, 1) /\ Total(ns) = h[1]
  BY <1>1, TotalRuns
<1>3. h[0] = 0 /\ h[1] = h[0] + ns[1]
  <2>1. 1 \in 1 .. 1 /\ 1 - 1 = 0
    OBVIOUS
  <2> QED BY <1>2, <2>1 DEF Sums
<1> QED BY <1>1, <1>2, <1>3 DEF ns

\* The TLV of the table, and what comes before it.
TableTlv == Tlv("wtbl", Empty)
LEMMA FitsTable ==
  ASSUME NEW K, Sized(K), NEW X, "wtbl" \notin X, NEW a \in Nat, NEW ts, Fits(ts, K, X, a)
  PROVE  /\ Append(ts, TableTlv) = ts \o <<TableTlv>>
         /\ Sized(K \cup {TableTlv}) /\ TableTlv.tag = "wtbl" /\ TableTlv.size = 4
         /\ Fits(ts \o <<TableTlv>>, K \cup {TableTlv}, X \cup {"wtbl"}, a + 4)
         /\ BytesOf(ts \o <<TableTlv>>) = BytesOf(ts) + 4
<1> DEFINE w == TableTlv
           L == K \cup {w}
<1>1. w.tag = "wtbl" /\ w.size = 4
  BY DEF TableTlv, Tlv, StaSize
<1> HIDE DEF w
<1>2. Sized(L) /\ w \in L /\ K \subseteq L
  BY <1>1 DEF Sized
<1>3. Append(ts, w) = ts \o <<w>>
  BY DEF Fits
<1>4. Fits(ts, L, X, a)
  BY <1>2, FitsIn
<1>5. Fits(<<w>>, L, {"wtbl"}, 4) /\ BytesOf(<<w>>) = 4
  BY <1>1, <1>2, FitsOne
<1>6. Fits(ts \o <<w>>, L, X \cup {"wtbl"}, a + 4) /\ BytesOf(ts \o <<w>>) = BytesOf(ts) + BytesOf(<<w>>)
  <2> HIDE DEF L
  <2>1. X \cap {"wtbl"} = {}
    OBVIOUS
  <2> QED BY <1>2, <1>4, <1>5, <2>1, FitsBoth
<1> QED BY <1>1, <1>2, <1>3, <1>5, <1>6 DEF w

\* A reader finds the end of a record with its table.
LEMMA ReadsTable ==
  ASSUME NEW K, Sized(K), NEW X, "wtbl" \notin X, NEW a \in Nat, NEW ts, Fits(ts, K, X, a),
         NEW L, Sized(L), NEW Y, NEW b \in Nat, NEW us, Fits(us, L, Y, b), NEW x,
         20 + a + b <= StaMax, 12 + b <= WtblMax
  PROVE  Readable(Record(x, Append(ts, TableTlv), TableOf(us)))
<1> DEFINE w == TableTlv
           vs == ts \o <<w>>
           m == Record(x, vs, TableOf(us))
           n == Len(ts)
           len == 12 + BytesOf(us)
<1>1. /\ Append(ts, w) = vs /\ w.tag = "wtbl" /\ w.size = 4
      /\ Fits(vs, K \cup {w}, X \cup {"wtbl"}, a + 4) /\ BytesOf(vs) = BytesOf(ts) + 4
  BY FitsTable
<1>2. /\ BytesOf(ts) \in Nat /\ BytesOf(ts) <= a /\ BytesOf(us) \in Nat /\ BytesOf(us) <= b
      /\ ts \in Seq(K) /\ us \in Seq(L)
  BY DEF Fits
<1>3. /\ m.num = Len(vs) /\ m.tlvs = vs /\ m.table.open /\ m.table.num = Len(us)
      /\ m.table.tlvs = us /\ m.table.len = len
  BY DEF Record, TableOf
<1>4. Cardinality(Tags(vs)) = Len(vs) /\ Cardinality(Tags(us)) = Len(us) /\ n \in Nat
  BY <1>1, FitsCount
<1>5. vs \in Seq(K \cup {w}) /\ Joined(vs, ts, <<w>>)
  <2>1. ts \in Seq(K \cup {w}) /\ <<w>> \in Seq(K \cup {w})
    <3>1. Fits(ts, K \cup {w}, X, a)
      BY FitsIn
    <3> QED BY <3>1 DEF Fits
  <2> QED BY <2>1, Concat
<1> HIDE DEF w, vs, m
<1>6. Len(vs) = n + 1 /\ vs[n + 1] = w /\ \A k \in 1 .. n : vs[k] = ts[k]
  BY <1>4, <1>5 DEF Joined
<1>7. Last(vs) = w
  BY <1>6 DEF Last
<1>8. \A k \in 1 .. n : ts[k].tag # "wtbl" /\ ts[k].size \in Nat
  <2>1. \A k \in 1 .. n : ts[k] \in K /\ ts[k].tag \in X
    BY <1>2, Elements DEF Fits, Tags
  <2> QED BY <2>1 DEF Sized
<1> DEFINE fields == [k \in 1 .. m.num |-> LenField(m, m.tlvs[k])]
           sizes == [k \in DOMAIN ts |-> ts[k].size]
<1>9. Total(fields) = BytesOf(ts) + len
  <2>1. sizes \in Seq(Nat) /\ Len(sizes) = n
    BY <1>2, Sizes
  <2>2. len \in Nat
    BY <1>2
  <2>3. \A k \in 1 .. n : fields[k] = sizes[k] /\ fields[k] \in Nat
    <3> TAKE k \in 1 .. n
    <3>1. k \in 1 .. m.num /\ m.tlvs[k] = ts[k] /\ k \in DOMAIN ts
      BY <1>2, <1>3, <1>4, <1>6, Elements
    <3>2. fields[k] = ts[k].size
      BY <1>8, <3>1 DEF LenField
    <3> QED BY <1>8, <3>1, <3>2
  <2>4. fields[n + 1] = len
    <3>1. n + 1 \in 1 .. m.num /\ m.tlvs[n + 1] = w
      BY <1>3, <1>4, <1>6
    <3> QED BY <1>1, <1>3, <3>1 DEF LenField
  <2>5. fields \in Seq(Nat) /\ Len(fields) = n + 1
    <3>1. DOMAIN fields = 1 .. n + 1 /\ n + 1 \in Nat
      BY <1>3, <1>4, <1>6
    <3>2. \A k \in 1 .. n + 1 : fields[k] \in Nat
      <4> HIDE DEF fields, len
      <4>1. \A k \in 1 .. n + 1 : k \in 1 .. n \/ k = n + 1
        BY <1>4
      <4> QED BY <2>2, <2>3, <2>4, <4>1
    <3>3. fields = [k \in 1 .. n + 1 |-> fields[k]]
      BY <3>1
    <3> HIDE DEF fields
    <3>4. fields \in [1 .. n + 1 -> Nat]
      BY <3>2, <3>3
    <3> QED BY <3>1, <3>4
  <2> HIDE DEF fields, sizes, len
  <2>6. <<len>> \in Seq(Nat) /\ Total(<<len>>) = len
    BY <2>2, TotalOne
  <2>7. Joined(fields, sizes, <<len>>)
    <3>1. Len(<<len>>) = 1 /\ <<len>>[1] = len
      OBVIOUS
    <3>2. \A k \in 1 .. 1 : k = 1
      OBVIOUS
    <3> QED BY <2>1, <2>3, <2>4, <2>5, <3>1, <3>2 DEF Joined
  <2>8. Total(fields) = Total(sizes) + Total(<<len>>)
    BY <2>1, <2>5, <2>6, <2>7, TotalJoins
  <2> QED BY <2>6, <2>8 DEF BytesOf, sizes
<1>10. ReaderEnds(m) = 8 + BytesOf(ts) + len
  <2>1. ReaderEnds(m) = 8 + Total(fields)
    BY DEF ReaderEnds, HdrSize
  <2> QED BY <1>2, <1>9, <2>1
<1>11. MsgBytes(m) = 8 + (BytesOf(ts) + 4) + (8 + BytesOf(us))
  BY <1>1, <1>3 DEF MsgBytes, HdrSize
<1>12. StaSize.wtbl + HdrSize = 12 /\ StaMax \in Nat /\ WtblMax \in Nat
  BY DEF StaSize, HdrSize, StaMax, WtblMax, StaSpare, WtblSpare
<1>13. ReaderEnds(m) = MsgBytes(m) /\ MsgBytes(m) <= StaMax /\ len <= WtblMax
  BY <1>2, <1>10, <1>11, <1>12
<1>14. Readable(m)
  BY <1>1, <1>3, <1>4, <1>7, <1>12, <1>13 DEF Readable
<1> QED BY <1>1, <1>14 DEF m, w

\* And of one without.
LEMMA ReadsPlain ==
  ASSUME NEW K, Sized(K), NEW X, "wtbl" \notin X, NEW a \in Nat, NEW ts, Fits(ts, K, X, a),
         NEW x, 8 + a <= StaMax
  PROVE  Readable(Record(x, ts, NoTable))
<1> DEFINE m == Record(x, ts, NoTable)
           n == Len(ts)
<1>1. /\ m.num = n /\ m.tlvs = ts /\ ~m.table.open /\ m.table.num = 0 /\ m.table.tlvs = <<>>
  BY DEF Record, NoTable
<1> HIDE DEF m
<1>2. /\ ts \in Seq(K) /\ DOMAIN ts = 1 .. n /\ n \in Nat /\ BytesOf(ts) \in Nat /\ BytesOf(ts) <= a
      /\ \A k \in 1 .. n : ts[k].tag # "wtbl"
  BY Elements DEF Fits, Tags
<1>3. Cardinality(Tags(ts)) = n /\ Cardinality(Tags(<<>>)) = Len(<<>>)
  BY FitsCount, FitsNone
<1>4. [k \in 1 .. m.num |-> LenField(m, m.tlvs[k])] = [k \in DOMAIN ts |-> ts[k].size]
  BY <1>1, <1>2 DEF LenField
<1>5. ReaderEnds(m) = 8 + BytesOf(ts)
  BY <1>4 DEF ReaderEnds, HdrSize, BytesOf
<1>6. MsgBytes(m) = 8 + BytesOf(ts)
  BY <1>1, <1>2 DEF MsgBytes, HdrSize
<1>7. StaMax \in Nat
  BY DEF StaSize, HdrSize, StaMax, WtblMax, StaSpare, WtblSpare
<1>8. ReaderEnds(m) = MsgBytes(m) /\ MsgBytes(m) <= StaMax
  BY <1>2, <1>5, <1>6, <1>7
<1>9. Readable(m)
  BY <1>1, <1>3, <1>8 DEF Readable
<1> QED BY <1>9 DEF m

\* What a TLV is.
LEMMA TlvIs ==
  /\ \A tag, body : /\ Tlv(tag, body).tag = tag /\ Tlv(tag, body).says = body
                    /\ Tlv(tag, body).size = StaSize[tag]
                    /\ Wtbl(tag, body).tag = tag /\ Wtbl(tag, body).says = body
                    /\ Wtbl(tag, body).size = WtblSize[tag]
  /\ StaSize["basic"] = 20 /\ StaSize["ht"] = 8 /\ StaSize["vht"] = 16 /\ StaSize["apps"] = 12
  /\ StaSize["ba"] = 12 /\ StaSize["he"] = 28 /\ StaSize["hev2"] = 28 /\ StaSize["amsdu"] = 8
  /\ StaSize["state"] = 12 /\ StaSize["ra"] = 16 /\ StaSize["phy"] = 12 /\ StaSize["he6g"] = 8
  /\ WtblSize["generic"] = 20 /\ WtblSize["rx"] = 12 /\ WtblSize["ht"] = 12
  /\ WtblSize["vht"] = 12 /\ WtblSize["trans"] = 8 /\ WtblSize["smps"] = 8
  /\ WtblSize["ba"] = 28 /\ StaMax = 550 /\ WtblMax = 148
<1>1. \A tag, body : /\ Tlv(tag, body).tag = tag /\ Tlv(tag, body).says = body
                    /\ Tlv(tag, body).size = StaSize[tag]
                    /\ Wtbl(tag, body).tag = tag /\ Wtbl(tag, body).says = body
                    /\ Wtbl(tag, body).size = WtblSize[tag]
  BY DEF Tlv, Wtbl
<1>2. /\ StaSize["basic"] = 20 /\ StaSize["ht"] = 8 /\ StaSize["vht"] = 16 /\ StaSize["apps"] = 12
      /\ StaSize["ba"] = 12 /\ StaSize["he"] = 28 /\ StaSize["hev2"] = 28 /\ StaSize["amsdu"] = 8
      /\ StaSize["state"] = 12 /\ StaSize["ra"] = 16 /\ StaSize["phy"] = 12 /\ StaSize["he6g"] = 8
  BY DEF StaSize
<1>3. /\ WtblSize["generic"] = 20 /\ WtblSize["rx"] = 12 /\ WtblSize["ht"] = 12
      /\ WtblSize["vht"] = 12 /\ WtblSize["trans"] = 8 /\ WtblSize["smps"] = 8
      /\ WtblSize["ba"] = 28
  BY DEF WtblSize
<1>4. StaMax = 550 /\ WtblMax = 148
  BY DEF StaMax, WtblMax, HdrSize, StaSpare, WtblSpare
<1> HIDE DEF StaSize
<1> QED BY <1>1, <1>2, <1>3, <1>4

\* The TLVs of a station's record, and of its table.
Ht == Tlv("ht", Empty)
Vht == Tlv("vht", Empty)
Apps == Tlv("apps", Empty)
Amsdu == Tlv("amsdu", Empty)
He(i) == Tlv("he", [widths |-> HeWidths(i)])
HeV2(i) == Tlv("hev2", [widths |-> HeWidths(i)])
He6g == Tlv("he6g", Empty)
Phy(i) == Tlv("phy", [mode |-> PhyMode(i)])
Ra(i) == Tlv("ra", [mcs |-> i.ht])
StateTlv(i) == Tlv("state", [opmode |-> i.vht])
StaTlvs(i) == {BasicTlv(i), Ht, Vht, Apps, Amsdu, He(i), HeV2(i), He6g, Phy(i), Ra(i), StateTlv(i)}
TableHt(i) == Wtbl("ht", [from |-> IF i.ht THEN "ht" ELSE "he6g"])
TableVht == Wtbl("vht", Empty)
TableTlvs(i) == {WtblGeneric(i), WtblRx(i), WtblHdrTrans(i), TableHt(i), TableVht, WtblSmps(i)}
If(cond, X) == IF cond THEN X ELSE {}
LEMMA StaTlvsAre ==
  ASSUME NEW i
  PROVE  /\ Sized(StaTlvs(i)) /\ Sized(TableTlvs(i))
         /\ BasicTlv(i).tag = "basic" /\ BasicTlv(i).size = 20
         /\ Ht.tag = "ht" /\ Ht.size = 8 /\ Vht.tag = "vht" /\ Vht.size = 16
         /\ Apps.tag = "apps" /\ Apps.size = 12 /\ Amsdu.tag = "amsdu" /\ Amsdu.size = 8
         /\ He(i).tag = "he" /\ He(i).size = 28 /\ HeV2(i).tag = "hev2" /\ HeV2(i).size = 28
         /\ He6g.tag = "he6g" /\ He6g.size = 8 /\ Phy(i).tag = "phy" /\ Phy(i).size = 12
         /\ Ra(i).tag = "ra" /\ Ra(i).size = 16 /\ StateTlv(i).tag = "state" /\ StateTlv(i).size = 12
         /\ WtblGeneric(i).tag = "generic" /\ WtblGeneric(i).size = 20
         /\ WtblRx(i).tag = "rx" /\ WtblRx(i).size = 12
         /\ WtblHdrTrans(i).tag = "trans" /\ WtblHdrTrans(i).size = 8
         /\ TableHt(i).tag = "ht" /\ TableHt(i).size = 12 /\ TableVht.tag = "vht" /\ TableVht.size = 12
         /\ WtblSmps(i).tag = "smps" /\ WtblSmps(i).size = 8
<1>1. /\ BasicTlv(i).tag = "basic" /\ BasicTlv(i).size = 20
      /\ Ht.tag = "ht" /\ Ht.size = 8 /\ Vht.tag = "vht" /\ Vht.size = 16
      /\ Apps.tag = "apps" /\ Apps.size = 12 /\ Amsdu.tag = "amsdu" /\ Amsdu.size = 8
  BY TlvIs DEF BasicTlv, Ht, Vht, Apps, Amsdu
<1>2. /\ He(i).tag = "he" /\ He(i).size = 28 /\ HeV2(i).tag = "hev2" /\ HeV2(i).size = 28
      /\ He6g.tag = "he6g" /\ He6g.size = 8 /\ Phy(i).tag = "phy" /\ Phy(i).size = 12
      /\ Ra(i).tag = "ra" /\ Ra(i).size = 16 /\ StateTlv(i).tag = "state" /\ StateTlv(i).size = 12
  BY TlvIs DEF He, HeV2, He6g, Phy, Ra, StateTlv
<1>3. /\ WtblGeneric(i).tag = "generic" /\ WtblGeneric(i).size = 20
      /\ WtblRx(i).tag = "rx" /\ WtblRx(i).size = 12
      /\ WtblHdrTrans(i).tag = "trans" /\ WtblHdrTrans(i).size = 8
  <2>1. /\ \E body : WtblGeneric(i) = Wtbl("generic", body)
        /\ \E body : WtblRx(i) = Wtbl("rx", body)
        /\ \E body : WtblHdrTrans(i) = Wtbl("trans", body)
    BY Zenon DEF WtblGeneric, WtblRx, WtblHdrTrans
  <2> QED BY <2>1, TlvIs
<1>4. /\ TableHt(i).tag = "ht" /\ TableHt(i).size = 12 /\ TableVht.tag = "vht" /\ TableVht.size = 12
      /\ WtblSmps(i).tag = "smps" /\ WtblSmps(i).size = 8
  <2>1. /\ \E body : TableHt(i) = Wtbl("ht", body)
        /\ \E body : TableVht = Wtbl("vht", body)
        /\ \E body : WtblSmps(i) = Wtbl("smps", body)
    BY Zenon DEF TableHt, TableVht, WtblSmps
  <2> QED BY <2>1, TlvIs
<1>5. Sized(StaTlvs(i)) /\ Sized(TableTlvs(i))
  BY <1>1, <1>2, <1>3, <1>4 DEF Sized, StaTlvs, TableTlvs
<1> QED BY <1>1, <1>2, <1>3, <1>4, <1>5

\* The record of a station.
HeadTags(i) ==
  ((((If(i.ht, {"ht"}) \cup If(i.vht, {"vht"})) \cup If(i.type = "ap" /\ i.wme, {"apps"}))
     \cup If(i.ht \/ i.he, If(i.amsdu /\ i.type \in {"ap", "station"}, {"amsdu"})))
     \cup If(i.he, {"he", "hev2"})) \cup If(i.he /\ i.band = 6 /\ i.assoc, {"he6g"})
LastTags == {"phy", "ra", "state"}
LEMMA StaTlvFits ==
  ASSUME NEW i \in StaInput
  PROVE  Fits(StaTlv(i), StaTlvs(i), HeadTags(i) \cup LastTags, 148)
<1> DEFINE K == StaTlvs(i)
           s1 == When(i.ht, <<Ht>>)
           s2 == When(i.vht, <<Vht>>)
           s3 == Uapsd(i)
           s4 == When(i.ht \/ i.he, AmsduTlv(i))
           s5 == When(i.he, HeTlv(i) \o HeTlvV2(i))
           s6 == When(i.he /\ i.band = 6 /\ i.assoc, <<He6g>>)
           s7 == <<Phy(i), Ra(i), StateTlv(i)>>
           X1 == If(i.ht, {"ht"})
           X2 == If(i.vht, {"vht"})
           X3 == If(i.type = "ap" /\ i.wme, {"apps"})
           X4 == If(i.ht \/ i.he, If(i.amsdu /\ i.type \in {"ap", "station"}, {"amsdu"}))
           X5 == If(i.he, {"he", "hev2"})
           X6 == If(i.he /\ i.band = 6 /\ i.assoc, {"he6g"})
<1>0. /\ i.ht \in BOOLEAN /\ i.vht \in BOOLEAN /\ i.he \in BOOLEAN /\ i.amsdu \in BOOLEAN
      /\ i.wme \in BOOLEAN /\ i.assoc \in BOOLEAN
  BY DEF StaInput
<1>1. /\ Sized(K) /\ Ht \in K /\ Vht \in K /\ Apps \in K /\ Amsdu \in K /\ He(i) \in K /\ HeV2(i) \in K
      /\ He6g \in K /\ Phy(i) \in K /\ Ra(i) \in K /\ StateTlv(i) \in K
  BY StaTlvsAre DEF StaTlvs
<1> HIDE DEF K
<1>2. /\ Fits(<<Ht>>, K, {"ht"}, 8) /\ Fits(<<Vht>>, K, {"vht"}, 16) /\ Fits(<<Apps>>, K, {"apps"}, 12)
      /\ Fits(<<Amsdu>>, K, {"amsdu"}, 8) /\ Fits(<<He6g>>, K, {"he6g"}, 8)
  BY <1>1, FitsOne, StaTlvsAre
<1>3. /\ Fits(<<He(i)>>, K, {"he"}, 28) /\ Fits(<<HeV2(i)>>, K, {"hev2"}, 28)
      /\ Fits(<<Phy(i)>>, K, {"phy"}, 12) /\ Fits(<<Ra(i)>>, K, {"ra"}, 16)
      /\ Fits(<<StateTlv(i)>>, K, {"state"}, 12)
  <2>1. \A t \in K : Fits(<<t>>, K, {t.tag}, t.size)
    BY <1>1, FitsOne
  <2>2. /\ Fits(<<He(i)>>, K, {He(i).tag}, He(i).size)
        /\ Fits(<<HeV2(i)>>, K, {HeV2(i).tag}, HeV2(i).size)
        /\ Fits(<<Phy(i)>>, K, {Phy(i).tag}, Phy(i).size)
        /\ Fits(<<Ra(i)>>, K, {Ra(i).tag}, Ra(i).size)
        /\ Fits(<<StateTlv(i)>>, K, {StateTlv(i).tag}, StateTlv(i).size)
    BY <1>1, <2>1
  <2> QED BY <2>2, StaTlvsAre
<1>4. Fits(s1, K, X1, 8) /\ Fits(s2, K, X2, 16)
  BY <1>0, <1>1, <1>2, FitsWhen DEF If
<1>5. Fits(s3, K, X3, 12)
  <2>1. (i.type = "ap" /\ i.wme) \in BOOLEAN
    BY <1>0
  <2> QED BY <1>1, <1>2, <2>1, FitsWhen DEF If, Uapsd, Apps
<1>6. Fits(s4, K, X4, 8)
  <2> DEFINE c == i.amsdu /\ i.type \in {"ap", "station"}
             d == i.ht \/ i.he
  <2>1. c \in BOOLEAN /\ d \in BOOLEAN
    BY <1>0
  <2>2. AmsduTlv(i) = When(c, <<Amsdu>>)
    BY DEF AmsduTlv, Amsdu
  <2> HIDE DEF c, d
  <2>3. Fits(When(c, <<Amsdu>>), K, If(c, {"amsdu"}), 8)
    BY <1>1, <1>2, <2>1, FitsWhen DEF If
  <2>4. Fits(When(d, AmsduTlv(i)), K, If(d, If(c, {"amsdu"})), 8)
    BY <1>1, <2>1, <2>2, <2>3, FitsWhen DEF If
  <2> QED BY <2>4 DEF c, d
<1>7. Fits(s5, K, X5, 56)
  <2>1. HeTlv(i) = <<He(i)>> /\ HeTlvV2(i) = <<HeV2(i)>>
    BY DEF HeTlv, HeTlvV2, He, HeV2
  <2>2. Fits(<<He(i)>> \o <<HeV2(i)>>, K, {"he"} \cup {"hev2"}, 56)
    <3>1. {"he"} \cap {"hev2"} = {} /\ 56 = 28 + 28
      OBVIOUS
    <3> QED BY <1>1, <1>3, <3>1, FitsNext
  <2>3. {"he"} \cup {"hev2"} = {"he", "hev2"}
    OBVIOUS
  <2> QED BY <1>0, <1>1, <2>1, <2>2, <2>3, FitsWhen DEF If
<1>8. Fits(s6, K, X6, 8)
  <2>1. (i.he /\ i.band = 6 /\ i.assoc) \in BOOLEAN
    BY <1>0
  <2> QED BY <1>1, <1>2, <2>1, FitsWhen DEF If
<1>9. Fits(s7, K, LastTags, 40)
  <2>1. s7 = (<<Phy(i)>> \o <<Ra(i)>>) \o <<StateTlv(i)>>
    OBVIOUS
  <2>2. {"phy"} \cap {"ra"} = {} /\ ({"phy"} \cup {"ra"}) \cap {"state"} = {} /\ 28 = 12 + 16 /\ 40 = 28 + 12
    OBVIOUS
  <2>3. Fits(<<Phy(i)>> \o <<Ra(i)>>, K, {"phy"} \cup {"ra"}, 28)
    BY <1>1, <1>3, <2>2, FitsNext
  <2>4. Fits((<<Phy(i)>> \o <<Ra(i)>>) \o <<StateTlv(i)>>, K, ({"phy"} \cup {"ra"}) \cup {"state"}, 40)
    BY <1>1, <1>3, <2>2, <2>3, FitsNext
  <2>5. ({"phy"} \cup {"ra"}) \cup {"state"} = LastTags
    BY DEF LastTags
  <2> QED BY <2>1, <2>4, <2>5
<1>10. /\ X1 \subseteq {"ht"} /\ X2 \subseteq {"vht"} /\ X3 \subseteq {"apps"} /\ X4 \subseteq {"amsdu"}
       /\ X5 \subseteq {"he", "hev2"} /\ X6 \subseteq {"he6g"}
  BY DEF If
<1>11. StaTlv(i) = (((((s1 \o s2) \o s3) \o s4) \o s5) \o s6) \o s7
  BY DEF StaTlv, Ht, Vht, He6g, Phy, Ra, StateTlv
<1>12. HeadTags(i) = ((((X1 \cup X2) \cup X3) \cup X4) \cup X5) \cup X6
  BY DEF HeadTags
<1> HIDE DEF s1, s2, s3, s4, s5, s6, s7, X1, X2, X3, X4, X5, X6
<1> DEFINE t2 == s1 \o s2
           t3 == t2 \o s3
           t4 == t3 \o s4
           t5 == t4 \o s5
           t6 == t5 \o s6
           Y2 == X1 \cup X2
           Y3 == Y2 \cup X3
           Y4 == Y3 \cup X4
           Y5 == Y4 \cup X5
           Y6 == Y5 \cup X6
<1>13. /\ X1 \cap X2 = {} /\ Y2 \cap X3 = {} /\ Y3 \cap X4 = {} /\ Y4 \cap X5 = {}
       /\ Y5 \cap X6 = {} /\ Y6 \cap LastTags = {}
  BY <1>10 DEF LastTags
<1>21. Sized(K)
  BY <1>1
<1> HIDE DEF t2, t3, t4, t5, t6, Y2, Y3, Y4, Y5, Y6
<1>15. Fits(t2, K, Y2, 24)
  <2>1. X1 \cap X2 = {} /\ 24 = 8 + 16
    BY <1>13
  <2> QED BY <1>21, <1>4, <2>1, FitsNext DEF t2, Y2
<1>16. Fits(t3, K, Y3, 36)
  <2>1. Y2 \cap X3 = {} /\ 36 = 24 + 12
    BY <1>13
  <2> QED BY <1>21, <1>5, <1>15, <2>1, FitsNext DEF t3, Y3
<1>17. Fits(t4, K, Y4, 44)
  <2>1. Y3 \cap X4 = {} /\ 44 = 36 + 8
    BY <1>13
  <2> QED BY <1>21, <1>6, <1>16, <2>1, FitsNext DEF t4, Y4
<1>18. Fits(t5, K, Y5, 100)
  <2>1. Y4 \cap X5 = {} /\ 100 = 44 + 56
    BY <1>13
  <2> QED BY <1>21, <1>7, <1>17, <2>1, FitsNext DEF t5, Y5
<1>19. Fits(t6, K, Y6, 108)
  <2>1. Y5 \cap X6 = {} /\ 108 = 100 + 8
    BY <1>13
  <2> QED BY <1>21, <1>8, <1>18, <2>1, FitsNext DEF t6, Y6
<1>20. Fits(t6 \o s7, K, Y6 \cup LastTags, 148)
  <2>1. Y6 \cap LastTags = {} /\ 148 = 108 + 40
    BY <1>13
  <2> QED BY <1>21, <1>9, <1>19, <2>1, FitsNext
<1> QED BY <1>11, <1>12, <1>20 DEF K, t2, t3, t4, t5, t6, Y2, Y3, Y4, Y5, Y6

RecordTags(i) == If(i.sta, {"basic"}) \cup If(i.sta /\ i.enable, HeadTags(i) \cup LastTags)
RecordTlvs(i) ==
  When(i.sta \/ ~i.offload, <<BasicTlv(i)>>) \o When(i.sta /\ i.enable, StaTlv(i))
LEMMA RecordFits ==
  ASSUME NEW i \in StaInput
  PROVE  Fits(RecordTlvs(i), StaTlvs(i), RecordTags(i), 168)
<1> DEFINE K == StaTlvs(i)
           c == i.sta \/ ~i.offload
           d == i.sta /\ i.enable
           X == HeadTags(i) \cup LastTags
<1>1. c \in BOOLEAN /\ d \in BOOLEAN /\ c = i.sta
  BY DEF StaInput
<1>2. Sized(K) /\ BasicTlv(i) \in K
  BY StaTlvsAre DEF StaTlvs
<1>3. "basic" \notin X
  BY DEF HeadTags, LastTags, If
<1>4. Fits(StaTlv(i), K, X, 148)
  BY StaTlvFits
<1> HIDE DEF K, c, d, X
<1>5. Fits(<<BasicTlv(i)>>, K, {"basic"}, 20)
  BY <1>2, FitsOne, StaTlvsAre
<1>6. Fits(When(c, <<BasicTlv(i)>>), K, If(c, {"basic"}), 20)
  BY <1>1, <1>2, <1>5, FitsWhen DEF If
<1>7. Fits(When(d, StaTlv(i)), K, If(d, X), 148)
  BY <1>1, <1>2, <1>4, FitsWhen DEF If
<1>8. If(c, {"basic"}) \cap If(d, X) = {} /\ 168 = 20 + 148
  BY <1>3 DEF If
<1>9. Fits(When(c, <<BasicTlv(i)>>) \o When(d, StaTlv(i)), K, If(c, {"basic"}) \cup If(d, X), 168)
  BY <1>2, <1>6, <1>7, <1>8, FitsNext
<1>10. If(c, {"basic"}) = If(i.sta, {"basic"})
  BY <1>1
<1> QED BY <1>9, <1>10 DEF RecordTlvs, RecordTags, K, X, c, d

\* Two TLVs, one after the other.
LEMMA Pair == ASSUME NEW u, NEW v PROVE <<u>> \o <<v>> = <<u, v>>
<1> DEFINE K == {u, v}
<1>1. <<u>> \in Seq(K) /\ <<v>> \in Seq(K) /\ <<u, v>> \in Seq(K)
  OBVIOUS
<1>2. Joined(<<u>> \o <<v>>, <<u>>, <<v>>)
  BY <1>1, Concat
<1> DEFINE s == <<u>> \o <<v>>
<1>3. s \in Seq(K)
  BY <1>1
<1> HIDE DEF s
<1>4. Len(<<u>>) = 1 /\ Len(<<v>>) = 1 /\ <<u>>[1] = u /\ <<v>>[1] = v
  OBVIOUS
<1>5. Len(s) = 2 /\ s[1] = u /\ s[2] = v
  BY <1>2, <1>4 DEF Joined, s
<1>6. s = <<u, v>>
  BY <1>1, <1>3, <1>5
<1> QED BY <1>6 DEF s

RatesTags(i) == (If(i.ht \/ i.capa, {"ht"}) \cup If(i.vht \/ i.capa, {"vht"})) \cup {"smps"}
NestedTags(i) == If(i.enable, {"generic", "rx", "trans"} \cup If(i.sta, RatesTags(i)))
NestedTlvs(i) ==
  When(i.enable, WtblGenericTlv(i) \o <<WtblHdrTrans(i)>> \o When(i.sta, WtblHtTlv(i)))
LEMMA NestedFits ==
  ASSUME NEW i \in StaInput
  PROVE  Fits(NestedTlvs(i), TableTlvs(i), NestedTags(i), 72)
<1> DEFINE K == TableTlvs(i)
           c == i.ht \/ i.capa
           d == i.vht \/ i.capa
           s1 == When(c, <<TableHt(i)>>)
           s2 == When(d, <<TableVht>>)
           X1 == If(c, {"ht"})
           X2 == If(d, {"vht"})
           g == WtblGenericTlv(i) \o <<WtblHdrTrans(i)>>
           s3 == When(i.sta, WtblHtTlv(i))
           X3 == If(i.sta, RatesTags(i))
<1>1. c \in BOOLEAN /\ d \in BOOLEAN /\ i.sta \in BOOLEAN /\ i.enable \in BOOLEAN
  BY DEF StaInput
<1>2. /\ Sized(K) /\ WtblGeneric(i) \in K /\ WtblRx(i) \in K /\ WtblHdrTrans(i) \in K
      /\ TableHt(i) \in K /\ TableVht \in K /\ WtblSmps(i) \in K
  BY StaTlvsAre DEF TableTlvs
<1>3. Sized(K)
  BY <1>2
<1> HIDE DEF K, c, d
<1>4. \A t \in K : Fits(<<t>>, K, {t.tag}, t.size)
  BY <1>3, FitsOne
<1>5. /\ Fits(<<WtblGeneric(i)>>, K, {"generic"}, 20) /\ Fits(<<WtblRx(i)>>, K, {"rx"}, 12)
      /\ Fits(<<WtblHdrTrans(i)>>, K, {"trans"}, 8)
  <2>1. /\ Fits(<<WtblGeneric(i)>>, K, {WtblGeneric(i).tag}, WtblGeneric(i).size)
        /\ Fits(<<WtblRx(i)>>, K, {WtblRx(i).tag}, WtblRx(i).size)
        /\ Fits(<<WtblHdrTrans(i)>>, K, {WtblHdrTrans(i).tag}, WtblHdrTrans(i).size)
    BY <1>2, <1>4
  <2> QED BY <2>1, StaTlvsAre
<1>6. /\ Fits(<<TableHt(i)>>, K, {"ht"}, 12) /\ Fits(<<TableVht>>, K, {"vht"}, 12)
      /\ Fits(<<WtblSmps(i)>>, K, {"smps"}, 8)
  <2>1. /\ Fits(<<TableHt(i)>>, K, {TableHt(i).tag}, TableHt(i).size)
        /\ Fits(<<TableVht>>, K, {TableVht.tag}, TableVht.size)
        /\ Fits(<<WtblSmps(i)>>, K, {WtblSmps(i).tag}, WtblSmps(i).size)
    BY <1>2, <1>4
  <2> QED BY <2>1, StaTlvsAre
<1>7. Fits(g, K, {"generic", "rx", "trans"}, 40)
  <2>1. {"generic"} \cap {"rx"} = {} /\ 32 = 20 + 12
    OBVIOUS
  <2>2. Fits(<<WtblGeneric(i)>> \o <<WtblRx(i)>>, K, {"generic"} \cup {"rx"}, 32)
    BY <1>3, <1>5, <2>1, FitsNext
  <2>3. ({"generic"} \cup {"rx"}) \cap {"trans"} = {} /\ 40 = 32 + 8
    OBVIOUS
  <2>4. Fits((<<WtblGeneric(i)>> \o <<WtblRx(i)>>) \o <<WtblHdrTrans(i)>>, K,
             ({"generic"} \cup {"rx"}) \cup {"trans"}, 40)
    BY <1>3, <1>5, <2>2, <2>3, FitsNext
  <2>5. ({"generic"} \cup {"rx"}) \cup {"trans"} = {"generic", "rx", "trans"}
    OBVIOUS
  <2>6. <<WtblGeneric(i)>> \o <<WtblRx(i)>> = WtblGenericTlv(i)
    BY Pair DEF WtblGenericTlv
  <2> QED BY <2>4, <2>5, <2>6
<1>8. Fits(WtblHtTlv(i), K, RatesTags(i), 32)
  <2>1. Fits(s1, K, X1, 12) /\ Fits(s2, K, X2, 12)
    BY <1>1, <1>3, <1>6, FitsWhen DEF If
  <2>2. X1 \cap X2 = {} /\ (X1 \cup X2) \cap {"smps"} = {}
    BY DEF If
  <2>3. (s1 \o s2) \o <<WtblSmps(i)>> = WtblHtTlv(i) /\ RatesTags(i) = (X1 \cup X2) \cup {"smps"}
    BY DEF WtblHtTlv, RatesTags, TableHt, TableVht, c, d
  <2> HIDE DEF s1, s2, X1, X2
  <2>4. 24 = 12 + 12 /\ 32 = 24 + 8
    OBVIOUS
  <2>5. Fits(s1 \o s2, K, X1 \cup X2, 24)
    BY <1>3, <2>1, <2>2, <2>4, FitsNext
  <2>6. Fits((s1 \o s2) \o <<WtblSmps(i)>>, K, (X1 \cup X2) \cup {"smps"}, 32)
    BY <1>3, <1>6, <2>2, <2>4, <2>5, FitsNext
  <2> QED BY <2>3, <2>6
<1>9. Fits(s3, K, X3, 32)
  BY <1>1, <1>3, <1>8, FitsWhen DEF If
<1>10. {"generic", "rx", "trans"} \cap X3 = {} /\ 72 = 40 + 32
  BY DEF If, RatesTags
<1> DEFINE G == {"generic", "rx", "trans"}
<1> HIDE DEF g, s3, X3, G
<1>11. Fits(g \o s3, K, G \cup X3, 72)
  BY <1>3, <1>7, <1>9, <1>10, FitsNext DEF G
<1>12. Fits(When(i.enable, g \o s3), K, If(i.enable, G \cup X3), 72)
  BY <1>1, <1>3, <1>11, FitsWhen DEF If
<1> QED BY <1>12 DEF NestedTlvs, NestedTags, g, s3, X3, G, K

\* How the table is begun, and gets one TLV.
LEMMA AllocsTable ==
  ASSUME NEW K, NEW ts \in Seq(K), TableTlv \in K, NEW x
  PROVE  AllocWtblReq(Record(x, ts, NoTable)) = Record(x, Append(ts, TableTlv), NewTable)
<1> DEFINE vs == Append(ts, TableTlv)
<1>1. Len(ts) \in Nat /\ Len(vs) = Len(ts) + 1
  OBVIOUS
<1> HIDE DEF vs
<1>2. AddTlv(Record(x, ts, NoTable), TableTlv)
        = [muar |-> x, num |-> Len(ts) + 1, tlvs |-> vs, table |-> NoTable]
  BY <1>1, AddsOne DEF Record, vs
<1>3. \A n, y, z : [[muar |-> x, num |-> n, tlvs |-> vs, table |-> y] EXCEPT !.table = z]
                    = [muar |-> x, num |-> n, tlvs |-> vs, table |-> z]
  OBVIOUS
<1>4. AllocWtblReq(Record(x, ts, NoTable))
        = [[muar |-> x, num |-> Len(ts) + 1, tlvs |-> vs, table |-> NoTable] EXCEPT !.table = NewTable]
  BY <1>2, Zenon DEF AllocWtblReq, TableTlv
<1> QED BY <1>1, <1>3, <1>4, Zenon DEF Record, vs
LEMMA AddsToTable ==
  ASSUME NEW x, NEW ts, NEW t, t.size \in Nat
  PROVE  AddNestedTlv(Record(x, ts, NewTable), t) = Record(x, ts, TableOf(<<t>>))
<1>1. Record(x, ts, NewTable) = Nested(x, Len(ts), ts, 0, 12, <<>>)
  <2>1. StaSize.wtbl + HdrSize = 12 /\ Len(<<>>) = 0
    BY DEF StaSize, HdrSize
  <2> QED BY <2>1, Zenon DEF Record, Nested, NewTable
<1>2. AddNestedTlv(Nested(x, Len(ts), ts, 0, 12, <<>>), t)
        = Nested(x, Len(ts), ts, 0 + 1, 12 + t.size, Append(<<>>, t))
  <2>1. \A a \in Nat, b \in Nat : \A n, s :
          AddNestedTlv(Nested(x, n, ts, a, b, s), t)
            = Nested(x, n, ts, a + 1, b + t.size, Append(s, t))
    BY AddsOneNested
  <2> QED BY <2>1
<1>3. BytesOf(<<t>>) = t.size
  <2>1. Sized({t}) /\ t \in {t}
    BY DEF Sized
  <2> QED BY <2>1, FitsOne
<1>4. 0 + 1 = 1 /\ Append(<<>>, t) = <<t>> /\ Len(<<t>>) = 1
  OBVIOUS
<1>5. Nested(x, Len(ts), ts, 1, 12 + t.size, <<t>>) = Record(x, ts, TableOf(<<t>>))
  BY <1>3, <1>4, Zenon DEF Nested, Record, TableOf
<1> QED BY <1>1, <1>2, <1>4, <1>5

\* The three messages.
LEMMA StaMsgIs ==
  ASSUME NEW i \in StaInput
  PROVE  StaCmdMsg(i) = Record(IF i.sta THEN i.omac ELSE 14, Append(RecordTlvs(i), TableTlv),
                               TableOf(NestedTlvs(i)))
<1> DEFINE x == IF i.sta THEN i.omac ELSE 14
           ts == RecordTlvs(i)
           us == NestedTlvs(i)
           L == StaTlvs(i) \cup {TableTlv}
<1>1. ts \in Seq(L) /\ TableTlv \in L
  <2>1. Fits(ts, L, RecordTags(i), 168)
    BY RecordFits, FitsIn
  <2> QED BY <2>1 DEF Fits
<1>2. us \in Seq(TableTlvs(i)) /\ Sized(TableTlvs(i))
  BY NestedFits, StaTlvsAre DEF Fits
<1> HIDE DEF ts, us, L
<1>3. AllocStaReq(i.sta, i.omac) = [muar |-> x, num |-> 0, tlvs |-> <<>>, table |-> NoTable]
  BY DEF AllocStaReq
<1> HIDE DEF x
<1>4. AddAll(AllocStaReq(i.sta, i.omac), ts) = Record(x, ts, NoTable)
  BY <1>1, <1>3, AddsAll
<1>5. AllocWtblReq(Record(x, ts, NoTable)) = Record(x, Append(ts, TableTlv), NewTable)
  BY <1>1, AllocsTable
<1>6. AddAllNested(Record(x, Append(ts, TableTlv), NewTable), us)
        = Record(x, Append(ts, TableTlv), TableOf(us))
  BY <1>2, AddsAllNested
<1>7. StaCmdMsg(i) = AddAllNested(AllocWtblReq(AddAll(AllocStaReq(i.sta, i.omac), ts)), us)
  BY Zenon DEF StaCmdMsg, ts, us, RecordTlvs, NestedTlvs
<1> QED BY <1>4, <1>5, <1>6, <1>7 DEF x, ts, us
LEMMA OneNestedIs ==
  ASSUME NEW wcidSta, NEW omac, NEW t, t.size \in Nat
  PROVE  AddNestedTlv(AllocWtblReq(AllocStaReq(wcidSta, omac)), t)
           = Record(IF wcidSta THEN omac ELSE 14, Append(<<>>, TableTlv), TableOf(<<t>>))
<1> DEFINE x == IF wcidSta THEN omac ELSE 14
<1>1. AllocStaReq(wcidSta, omac) = Record(x, <<>>, NoTable)
  BY DEF AllocStaReq, Record
<1> HIDE DEF x
<1>2. AllocWtblReq(Record(x, <<>>, NoTable)) = Record(x, Append(<<>>, TableTlv), NewTable)
  <2>1. <<>> \in Seq({TableTlv}) /\ TableTlv \in {TableTlv}
    OBVIOUS
  <2> QED BY <2>1, AllocsTable
<1> QED BY <1>1, <1>2, AddsToTable DEF x

\* Which tags are in a station's record, and what they say.
LEMMA RecordSays ==
  ASSUME NEW i \in StaInput, NEW vs, NEW us,
         Fits(vs, StaTlvs(i) \cup {TableTlv}, RecordTags(i) \cup {"wtbl"}, 172),
         Fits(us, TableTlvs(i), NestedTags(i), 72)
  PROVE  /\ "basic" \in Tags(vs) <=> i.sta
         /\ i.sta => TlvOf(vs, "basic") = BasicTlv(i).says
         /\ "generic" \in Tags(us) <=> i.enable
         /\ i.enable => TlvOf(us, "generic") = WtblGeneric(i).says
         /\ "he" \in Tags(vs) => /\ TlvOf(vs, "he") = He(i).says
                                 /\ TlvOf(vs, "hev2") = HeV2(i).says
         /\ i.sta /\ i.enable =>
              /\ TlvOf(vs, "phy") = Phy(i).says
              /\ "ht" \in Tags(vs) <=> i.ht
              /\ "vht" \in Tags(vs) <=> i.vht
              /\ "he" \in Tags(vs) <=> i.he
              /\ "ht" \in Tags(us) <=> i.ht \/ i.capa
<1> DEFINE K == StaTlvs(i) \cup {TableTlv}
           X == RecordTags(i) \cup {"wtbl"}
           L == TableTlvs(i)
           Y == NestedTags(i)
<1>1. Tags(vs) = X /\ Tags(us) = Y
  BY DEF Fits
<1>2. TableTlv.tag = "wtbl"
  BY TlvIs DEF TableTlv
<1>3. /\ \A t \in K : t.tag = BasicTlv(i).tag => t = BasicTlv(i)
      /\ \A t \in K : t.tag = He(i).tag => t = He(i)
      /\ \A t \in K : t.tag = HeV2(i).tag => t = HeV2(i)
      /\ \A t \in K : t.tag = Phy(i).tag => t = Phy(i)
  <2>1. \A t \in K : \/ t = BasicTlv(i) \/ t = Ht \/ t = Vht \/ t = Apps \/ t = Amsdu \/ t = He(i)
                     \/ t = HeV2(i) \/ t = He6g \/ t = Phy(i) \/ t = Ra(i) \/ t = StateTlv(i)
                     \/ t = TableTlv
    BY DEF StaTlvs
  <2>2. /\ BasicTlv(i).tag = "basic" /\ Ht.tag = "ht" /\ Vht.tag = "vht" /\ Apps.tag = "apps"
        /\ Amsdu.tag = "amsdu" /\ He(i).tag = "he" /\ HeV2(i).tag = "hev2" /\ He6g.tag = "he6g"
        /\ Phy(i).tag = "phy" /\ Ra(i).tag = "ra" /\ StateTlv(i).tag = "state"
    BY StaTlvsAre
  <2> HIDE DEF K
  <2>3. \A t \in K : t.tag = BasicTlv(i).tag => t = BasicTlv(i)
    BY <1>2, <2>1, <2>2
  <2>4. \A t \in K : t.tag = He(i).tag => t = He(i)
    BY <1>2, <2>1, <2>2
  <2>5. \A t \in K : t.tag = HeV2(i).tag => t = HeV2(i)
    BY <1>2, <2>1, <2>2
  <2>6. \A t \in K : t.tag = Phy(i).tag => t = Phy(i)
    BY <1>2, <2>1, <2>2
  <2> QED BY <2>3, <2>4, <2>5, <2>6
<1>4. \A t \in L : t.tag = WtblGeneric(i).tag => t = WtblGeneric(i)
  BY StaTlvsAre DEF TableTlvs
<1>5. /\ i.sta \in BOOLEAN /\ i.enable \in BOOLEAN /\ i.ht \in BOOLEAN /\ i.vht \in BOOLEAN
      /\ i.he \in BOOLEAN /\ i.capa \in BOOLEAN
  BY DEF StaInput
<1>6. /\ "ht" \in HeadTags(i) <=> i.ht
      /\ "vht" \in HeadTags(i) <=> i.vht
      /\ "he" \in HeadTags(i) <=> i.he
      /\ "hev2" \in HeadTags(i) <=> i.he
      /\ "basic" \notin HeadTags(i)
  BY <1>5 DEF HeadTags, If
<1>7. /\ "basic" \in X <=> i.sta
      /\ "he" \in X <=> i.sta /\ i.enable /\ i.he
      /\ "hev2" \in X <=> i.sta /\ i.enable /\ i.he
      /\ i.sta /\ i.enable =>
           /\ "phy" \in X
           /\ "ht" \in X <=> i.ht
           /\ "vht" \in X <=> i.vht
  BY <1>5, <1>6 DEF RecordTags, LastTags, If
<1>8. /\ "generic" \in Y <=> i.enable
      /\ i.sta /\ i.enable => ("ht" \in Y <=> i.ht \/ i.capa)
  BY <1>5 DEF NestedTags, RatesTags, If
<1>9. /\ BasicTlv(i).tag = "basic" /\ He(i).tag = "he" /\ HeV2(i).tag = "hev2"
      /\ Phy(i).tag = "phy" /\ WtblGeneric(i).tag = "generic"
  BY StaTlvsAre
<1> HIDE DEF K, X, L, Y
<1>10. ASSUME NEW v, v.tag \in X, \A t \in K : t.tag = v.tag => t = v PROVE TlvOf(vs, v.tag) = v.says
  BY <1>10, FitsSays DEF K, X
<1>11. i.sta => TlvOf(vs, "basic") = BasicTlv(i).says
  <2>1. "basic" \in X => TlvOf(vs, BasicTlv(i).tag) = BasicTlv(i).says
    BY <1>3, <1>9, <1>10
  <2> QED BY <1>7, <1>9, <2>1
<1>12. "he" \in X => TlvOf(vs, "he") = He(i).says /\ TlvOf(vs, "hev2") = HeV2(i).says
  <2>1. "he" \in X => TlvOf(vs, He(i).tag) = He(i).says
    BY <1>3, <1>9, <1>10
  <2>2. "hev2" \in X => TlvOf(vs, HeV2(i).tag) = HeV2(i).says
    BY <1>3, <1>9, <1>10
  <2> QED BY <1>7, <1>9, <2>1, <2>2
<1>13. "phy" \in X => TlvOf(vs, "phy") = Phy(i).says
  <2>1. "phy" \in X => TlvOf(vs, Phy(i).tag) = Phy(i).says
    BY <1>3, <1>9, <1>10
  <2> QED BY <1>9, <2>1
<1>14. i.enable => TlvOf(us, "generic") = WtblGeneric(i).says
  <2>1. i.enable => TlvOf(us, WtblGeneric(i).tag) = WtblGeneric(i).says
    BY <1>4, <1>8, <1>9, FitsSays DEF L, Y
  <2> QED BY <1>9, <2>1
<1> QED BY <1>1, <1>7, <1>8, <1>11, <1>12, <1>13, <1>14

\* So it can be read, and what it says twice agrees.
LEMMA StaRecordAgrees ==
  ASSUME NEW i \in StaInput
  PROVE  Readable(StaCmdMsg(i)) /\ StaAgrees(i, StaCmdMsg(i))
<1> DEFINE x == IF i.sta THEN i.omac ELSE 14
           ts == RecordTlvs(i)
           vs == Append(ts, TableTlv)
           us == NestedTlvs(i)
           m == StaCmdMsg(i)
<1>1. Fits(ts, StaTlvs(i), RecordTags(i), 168) /\ Fits(us, TableTlvs(i), NestedTags(i), 72)
  BY RecordFits, NestedFits
<1>2. "wtbl" \notin RecordTags(i)
  BY DEF RecordTags, HeadTags, LastTags, If
<1>3. m = Record(x, vs, TableOf(us))
  BY StaMsgIs
<1>4. Sized(StaTlvs(i)) /\ Sized(TableTlvs(i))
  BY StaTlvsAre
<1> HIDE DEF x, ts, us, m
<1>5. Readable(Record(x, vs, TableOf(us)))
  <2>1. 20 + 168 + 72 <= StaMax /\ 12 + 72 <= WtblMax
    BY TlvIs
  <2> QED BY <1>1, <1>2, <1>4, <2>1, ReadsTable
<1>6. Fits(vs, StaTlvs(i) \cup {TableTlv}, RecordTags(i) \cup {"wtbl"}, 172)
  <2>1. \A a \in Nat : Fits(ts, StaTlvs(i), RecordTags(i), a) =>
          /\ Append(ts, TableTlv) = ts \o <<TableTlv>>
          /\ Fits(ts \o <<TableTlv>>, StaTlvs(i) \cup {TableTlv}, RecordTags(i) \cup {"wtbl"}, a + 4)
    <3> HIDE DEF vs
    <3>1. \A K, X : \A a \in Nat : Sized(K) /\ "wtbl" \notin X /\ Fits(ts, K, X, a) =>
            /\ Append(ts, TableTlv) = ts \o <<TableTlv>>
            /\ Fits(ts \o <<TableTlv>>, K \cup {TableTlv}, X \cup {"wtbl"}, a + 4)
      BY FitsTable
    <3> QED BY <1>2, <1>4, <3>1, Zenon
  <2>2. PICK a \in Nat : a = 168
    OBVIOUS
  <2>3. Fits(ts, StaTlvs(i), RecordTags(i), a)
    BY <1>1, <2>2, Zenon
  <2>4. /\ Append(ts, TableTlv) = ts \o <<TableTlv>>
        /\ Fits(ts \o <<TableTlv>>, StaTlvs(i) \cup {TableTlv}, RecordTags(i) \cup {"wtbl"}, a + 4)
    BY <2>1, <2>3, Zenon
  <2>5. a + 4 = 172
    BY <2>2
  <2> QED BY <2>4, <2>5, Zenon DEF vs
<1>7. m.tlvs = vs /\ m.table.tlvs = us /\ m.muar = x
  BY <1>3 DEF Record, TableOf
<1>8. /\ BasicTlv(i).says.aid = AidOf(i) /\ BasicTlv(i).says.peer = "sta"
      /\ i.sta => WtblGeneric(i).says.aid = AidOf(i) /\ WtblGeneric(i).says.peer = "sta"
      /\ WtblGeneric(i).says.muar = x
      /\ He(i).says.widths = HeWidths(i) /\ HeV2(i).says.widths = HeWidths(i)
      /\ Phy(i).says.mode = PhyMode(i)
  <2>1. BasicTlv(i).says.aid = AidOf(i) /\ BasicTlv(i).says.peer = "sta"
    BY DEF BasicTlv, Tlv
  <2>2. He(i).says.widths = HeWidths(i) /\ HeV2(i).says.widths = HeWidths(i) /\ Phy(i).says.mode = PhyMode(i)
    BY DEF He, HeV2, Phy, Tlv
  <2>3. CASE i.sta
    BY <2>1, <2>2, <2>3 DEF WtblGeneric, Wtbl, x
  <2>4. CASE ~i.sta
    BY <2>1, <2>2, <2>4 DEF WtblGeneric, Wtbl, x
  <2> QED BY <2>3, <2>4
<1>9. i.capa <=> i.band = 6 /\ i.he
  BY DEF StaInput
<1>10. /\ "ht" \in PhyMode(i) <=> i.ht
       /\ "vht" \in PhyMode(i) <=> i.vht
       /\ "he" \in PhyMode(i) <=> i.he
  <2>1. i.vht => i.band # 2
    BY DEF StaInput
  <2>2. i.ht \in BOOLEAN /\ i.vht \in BOOLEAN /\ i.he \in BOOLEAN
    BY DEF StaInput
  <2> QED BY <2>1, <2>2 DEF PhyMode
<1> HIDE DEF vs
<1>11. StaAgrees(i, m)
  <2>1. /\ "basic" \in Tags(vs) <=> i.sta
        /\ i.sta => TlvOf(vs, "basic") = BasicTlv(i).says
        /\ "generic" \in Tags(us) <=> i.enable
        /\ i.enable => TlvOf(us, "generic") = WtblGeneric(i).says
        /\ "he" \in Tags(vs) => /\ TlvOf(vs, "he") = He(i).says
                                /\ TlvOf(vs, "hev2") = HeV2(i).says
        /\ i.sta /\ i.enable =>
             /\ TlvOf(vs, "phy") = Phy(i).says
             /\ "ht" \in Tags(vs) <=> i.ht
             /\ "vht" \in Tags(vs) <=> i.vht
             /\ "he" \in Tags(vs) <=> i.he
             /\ "ht" \in Tags(us) <=> i.ht \/ i.capa
    BY <1>1, <1>6, RecordSays
  <2>2. (i.sta /\ i.enable) => TlvOf(vs, "basic").aid = TlvOf(us, "generic").aid
                              /\ TlvOf(vs, "basic").peer = TlvOf(us, "generic").peer
    BY <1>8, <2>1
  <2>3. "generic" \in Tags(us) => TlvOf(us, "generic").muar = x
    BY <1>8, <2>1
  <2>4. i.sta /\ i.enable =>
          /\ \A c \in {"ht", "vht", "he"} : c \in TlvOf(vs, "phy").mode <=> c \in Tags(vs)
          /\ "ht" \in Tags(us) <=> "ht" \in Tags(vs) \/ (i.band = 6 /\ "he" \in Tags(vs))
    BY <1>8, <1>9, <1>10, <2>1
  <2>5. "he" \in Tags(vs) => TlvOf(vs, "he").widths = TlvOf(vs, "hev2").widths
    BY <1>8, <2>1
  <2> QED BY <1>7, <2>1, <2>2, <2>3, <2>4, <2>5 DEF StaAgrees, SaysHt
<1> QED BY <1>3, <1>5, <1>11 DEF m

\* The record with the header translation only.
LEMMA TransReads ==
  ASSUME NEW i
  PROVE  Readable(HdrTransMsg(i))
<1> DEFINE t == WtblHdrTrans(i)
           x == IF i.sta THEN i.omac ELSE 14
<1>1. t.size = 8
  BY StaTlvsAre
<1>2. HdrTransMsg(i) = Record(x, Append(<<>>, TableTlv), TableOf(<<t>>))
  BY <1>1, OneNestedIs DEF HdrTransMsg
<1> HIDE DEF t, x
<1>3. Sized({}) /\ Sized({t}) /\ t \in {t} /\ "wtbl" \notin {}
  BY <1>1 DEF Sized
<1>4. Fits(<<>>, {}, {}, 0) /\ Fits(<<t>>, {t}, {t.tag}, 8)
  BY <1>1, <1>3, FitsNone, FitsOne
<1>5. 20 + 0 + 8 <= StaMax /\ 12 + 8 <= WtblMax
  BY TlvIs
<1>6. Readable(Record(x, Append(<<>>, TableTlv), TableOf(<<t>>)))
  BY <1>3, <1>4, <1>5, ReadsTable
<1> QED BY <1>2, <1>6

\* The two of a block ack session.
LEMMA BaRecordsAgree ==
  ASSUME NEW b \in BaInput
  PROVE  /\ Readable(StaBaMsgs(b)[1]) /\ Readable(StaBaMsgs(b)[2])
         /\ BaAgrees(b, StaBaMsgs(b))
<1> DEFINE t == WtblBaTlv(b)
           u == StaBaTlv(b)
           m1 == Record(b.omac, Append(<<>>, TableTlv), TableOf(<<t>>))
           m2 == Record(b.omac, <<u>>, NoTable)
           ms == StaBaMsgs(b)
<1>1. t.size = 28 /\ u.size = 12 /\ u.tag = "ba"
  BY TlvIs DEF WtblBaTlv, StaBaTlv
<1>2. AddNestedTlv(AllocWtblReq(AllocStaReq(TRUE, b.omac)), t) = m1
  <2>1. \A c : AddNestedTlv(AllocWtblReq(AllocStaReq(c, b.omac)), t)
                = Record(IF c THEN b.omac ELSE 14, Append(<<>>, TableTlv), TableOf(<<t>>))
    BY <1>1, OneNestedIs
  <2> HIDE DEF t
  <2>2. AddNestedTlv(AllocWtblReq(AllocStaReq(TRUE, b.omac)), t)
          = Record(IF TRUE THEN b.omac ELSE 14, Append(<<>>, TableTlv), TableOf(<<t>>))
    BY <2>1, Zenon
  <2> QED BY <2>2, Zenon
<1>3. AddTlv(AllocStaReq(TRUE, b.omac), u) = m2
  <2>1. AllocStaReq(TRUE, b.omac) = [muar |-> b.omac, num |-> 0, tlvs |-> <<>>, table |-> NoTable]
    BY Zenon DEF AllocStaReq
  <2>2. AddTlv([muar |-> b.omac, num |-> 0, tlvs |-> <<>>, table |-> NoTable], u)
          = [muar |-> b.omac, num |-> 0 + 1, tlvs |-> Append(<<>>, u), table |-> NoTable]
    <3>1. \A a \in Nat : \A s, y :
            AddTlv([muar |-> b.omac, num |-> a, tlvs |-> s, table |-> y], u)
              = [muar |-> b.omac, num |-> a + 1, tlvs |-> Append(s, u), table |-> y]
      BY AddsOne
    <3> QED BY <3>1
  <2>3. 0 + 1 = 1 /\ Append(<<>>, u) = <<u>> /\ Len(<<u>>) = 1
    OBVIOUS
  <2> QED BY <2>1, <2>2, <2>3, Zenon DEF Record
<1>4. ms = <<m1, m2>>
  BY <1>2, <1>3, Zenon DEF StaBaMsgs
<1> HIDE DEF m1, m2, t, u, ms
<1>5. ms[1] = m1 /\ ms[2] = m2
  BY <1>4
<1>6. Sized({}) /\ Sized({t}) /\ t \in {t} /\ Sized({u}) /\ u \in {u} /\ "wtbl" \notin {}
      /\ "wtbl" \notin {u.tag}
  BY <1>1 DEF Sized
<1>7. /\ Fits(<<>>, {}, {}, 0) /\ Fits(<<t>>, {t}, {t.tag}, 28)
      /\ Fits(<<u>>, {u}, {u.tag}, 12)
  BY <1>1, <1>6, FitsNone, FitsOne
<1>8. 20 + 0 + 28 <= StaMax /\ 12 + 28 <= WtblMax /\ 8 + 12 <= StaMax
  BY TlvIs
<1>9. Readable(m1)
  BY <1>6, <1>7, <1>8, ReadsTable DEF m1
<1>10. Readable(m2)
  BY <1>6, <1>7, <1>8, ReadsPlain DEF m2
<1>11. m1.table.tlvs[1] = t /\ m2.tlvs[1] = u
  BY DEF m1, m2, Record, TableOf
<1>12. BaAgrees(b, ms)
  <2> DEFINE r == IF b.tx THEN "originator" ELSE "recipient"
             w == IF b.enable THEN b.size ELSE 0
             e == IF b.enable THEN {b.tid} ELSE {}
  <2> SUFFICES ASSUME NEW on, on = (b.tx /\ b.enable) PROVE BaAgrees(b, ms)
    OBVIOUS
  <2>1. /\ t = Wtbl("ba", [role |-> r, tid |-> b.tid, win |-> w, en |-> on])
        /\ u = Tlv("ba", [role |-> r, tid |-> b.tid, win |-> b.size, en |-> e])
    BY Zenon DEF t, u, WtblBaTlv, StaBaTlv
  <2> HIDE DEF r, w, e
  <2>2. /\ t.says = [role |-> r, tid |-> b.tid, win |-> w, en |-> on]
        /\ u.says = [role |-> r, tid |-> b.tid, win |-> b.size, en |-> e]
    BY <2>1, TlvIs
  <2>3. /\ t.says.role = r /\ t.says.tid = b.tid /\ t.says.win = w /\ t.says.en = on
        /\ u.says.role = r /\ u.says.tid = b.tid /\ u.says.win = b.size /\ u.says.en = e
    BY <2>2
  <2>4. b.tx \in BOOLEAN /\ b.enable \in BOOLEAN
    BY DEF BaInput
  <2>5. b.enable => w = b.size /\ e = {b.tid} /\ (on <=> b.tx)
    BY <2>4, Zenon DEF w, e
  <2>6. ~b.enable => w = 0 /\ e = {} /\ ~on
    BY <2>4, Zenon DEF w, e
  <2>7. /\ ms[1].table.tlvs[1].says = t.says /\ ms[2].tlvs[1].says = u.says
    BY <1>5, <1>11
  <2> QED BY <2>3, <2>5, <2>6, <2>7, Zenon DEF BaAgrees
<1> QED BY <1>5, <1>9, <1>10, <1>12 DEF ms

(***************************************************************************)
(* The invariant of the records: each kept message is the record of its    *)
(* input, and agrees as the lemmas above say.                              *)
(***************************************************************************)
LEMMA RecordsNext == RecordsAgree /\ MsgNext => RecordsAgree'
<1> SUFFICES ASSUME RecordsAgree, MsgNext PROVE RecordsAgree'
  OBVIOUS
<1>1. CASE Done
  BY <1>1 DEF Done, None, RecordsAgree, Of
<1>2. CASE StaUpdate
  <2>1. PICK i \in Stas : Make("sta", i, StaCmdMsg(i))
    BY <1>2 DEF StaUpdate
  <2>2. i \in StaInput
    BY RecordsAssumption
  <2>3. Readable(StaCmdMsg(i)) /\ StaAgrees(i, StaCmdMsg(i))
    BY <2>2, StaRecordAgrees
  <2>4. msg'.kind = "sta" /\ msg'.in = i /\ msg'.out = StaCmdMsg(i)
    BY <2>1, Kinds
  <2> QED BY <2>3, <2>4 DEF RecordsAgree, Of
<1>3. CASE HdrTrans
  <2>1. PICK i \in Stas : Make("trans", i, HdrTransMsg(i))
    BY <1>3 DEF HdrTrans
  <2>2. Readable(HdrTransMsg(i))
    BY TransReads
  <2>3. msg'.kind = "trans" /\ msg'.in = i /\ msg'.out = HdrTransMsg(i)
    BY <2>1, Kinds
  <2> QED BY <2>2, <2>3 DEF RecordsAgree, Of
<1>4. CASE BlockAck
  <2>1. PICK b \in Bas : Make("ba", b, StaBaMsgs(b))
    BY <1>4 DEF BlockAck
  <2>2. b \in BaInput
    BY RecordsAssumption
  <2>3. /\ Readable(StaBaMsgs(b)[1]) /\ Readable(StaBaMsgs(b)[2])
        /\ BaAgrees(b, StaBaMsgs(b))
    BY <2>2, BaRecordsAgree
  <2>4. msg'.kind = "ba" /\ msg'.in = b /\ msg'.out = StaBaMsgs(b)
    BY <2>1, Kinds
  <2> QED BY <2>3, <2>4 DEF RecordsAgree, Of
<1>5. CASE msg'.kind \notin {"sta", "trans", "ba"}
  BY <1>5 DEF RecordsAgree, Of
<1> QED BY <1>1, <1>2, <1>3, <1>4, <1>5, KindOf

(***************************************************************************)
(* RecordsAgree: whatever mac80211 knows of a station, whatever its block  *)
(* ack sessions, a reader of the record finds its end within the buffer,   *)
(* each TLV once and the table last, and what two TLVs both say of the     *)
(* station is the same (standalone_mt76_connac_mcu.c).                     *)
(***************************************************************************)
THEOREM RecordsStayAgreed == MsgSpec => []RecordsAgree
<1>1. MsgInit => RecordsAgree
  BY DEF MsgInit, None, RecordsAgree, Of
<1>2. RecordsAgree /\ [MsgNext]_msg => RecordsAgree'
  <2>1. UNCHANGED msg /\ RecordsAgree => RecordsAgree'
    BY DEF RecordsAgree, Of
  <2> QED BY <2>1, RecordsNext
<1> QED BY <1>1, <1>2, PTL DEF MsgSpec
=============================================================================
