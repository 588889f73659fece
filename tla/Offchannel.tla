----------------------------- MODULE Offchannel -----------------------------
(* Leaving the channel: remain on channel (ROC) for mac80211, the ROC that   *)
(* protects a join, and hardware scans (mt7921/main.c, mt7921/mcu.c,         *)
(* connac_mcu.c, mt792x_core.c), with the chip reset's part (mt7921/mac.c).  *)
(* Contexts: mac80211 (its callbacks run one at a time), the receive worker  *)
(* with the events of the firmware, roc_timer, roc_work, scan_work and       *)
(* reset_work.  dev->mutex is held while set_roc waits for the grant.        *)
EXTENDS Naturals, Sequences, FiniteSets

CONSTANTS
  MaxRocs,   \* bound: ROCs asked for, also the number of tokens (u8 in the code)
  MaxScans,  \* bound: scans asked for
  MaxResets  \* bound: chip resets

ASSUME OffAssumption == MaxRocs \in Nat /\ MaxScans \in Nat /\ MaxResets \in Nat

VARIABLES
  roc,      \* STATE_ROC, roc_grant, roc_token_id
  timer,    \* roc_timer is armed
  work,     \* roc_work: queued, and what it runs
  ctl,      \* mac80211's callback: "idle", "wait", "abort", "send", and its type
  join,     \* between mgd_prepare_tx and mgd_complete_tx
  rx,       \* the receive worker is between the grant and the timer
  granted,  \* grants on their way from the firmware
  mac,      \* mac80211's ROC: "none", "asked", "ready"
  silent,   \* a ROC of mac80211 was ended without a word to it
  scan,     \* HW_SCANNING
  fwscan,   \* the firmware scans
  done,     \* SCAN_DONE events on their way, on the list, and scan_work queued
  macscan,  \* mac80211's scan: "none", "starting", "open", "early"
  twice,    \* a scan was completed that mac80211 did not have
  reset,    \* reset_work: "idle", "dead" (the chip is lost), and how many there were
  scans     \* scans asked for

rocVars == <<roc, timer, work, join, rx, granted, mac, silent>>
scanVars == <<scan, fwscan, done, macscan, twice, scans>>
vars == <<roc, timer, work, ctl, join, rx, granted, mac, silent,
          scan, fwscan, done, macscan, twice, reset, scans>>

Types == {"roc", "join"}
Idle == [pc |-> "idle", type |-> "roc"]
Mutex == ctl.pc \notin {"wait", "send"} /\ reset.pc # "dead"    \* nobody holds it

Init ==
  /\ roc = [bit |-> FALSE, grant |-> FALSE, token |-> 0]
  /\ timer = FALSE /\ work = [queued |-> FALSE, pc |-> "idle"]
  /\ ctl = Idle /\ join = FALSE /\ rx = FALSE /\ granted = <<>>
  /\ mac = "none" /\ silent = FALSE
  /\ scan = FALSE /\ fwscan = FALSE
  /\ done = [sent |-> 0, list |-> 0, work |-> FALSE]
  /\ macscan = "none" /\ twice = FALSE
  /\ reset = [pc |-> "idle", n |-> 0] /\ scans = 0

-----------------------------------------------------------------------------
(* Remain on channel.                                                       *)
\* set_roc up to the wait; a failure of the command clears the bit again.
SetRoc(type) ==
  IF roc.bit THEN UNCHANGED <<roc, ctl>>
  ELSE /\ roc.token < MaxRocs
       /\ \E sent \in BOOLEAN :
            /\ roc' = [bit |-> sent, grant |-> FALSE, token |-> roc.token + 1]
            /\ ctl' = IF sent THEN [pc |-> "wait", type |-> type] ELSE ctl

RemainOnChannel ==
  /\ ctl.pc = "idle" /\ mac = "none" /\ Mutex
  /\ SetRoc("roc")
  /\ mac' = IF ctl'.pc = "wait" THEN "asked" ELSE "none"
  /\ UNCHANGED <<timer, work, join, rx, granted, silent, reset>> /\ UNCHANGED scanVars

\* Whether it was busy is not looked at.
MgdPrepareTx ==
  /\ ctl.pc = "idle" /\ ~join /\ Mutex
  /\ join' = TRUE
  /\ SetRoc("join")
  /\ UNCHANGED <<timer, work, rx, granted, mac, silent, reset>> /\ UNCHANGED scanVars

\* The firmware grants the last ROC it was asked for, or never does.
FwGrants ==
  /\ ctl.pc = "wait" /\ roc.token \notin {granted[i].token : i \in DOMAIN granted}
  /\ Len(granted) < 2
  /\ granted' = Append(granted, [token |-> roc.token, type |-> ctl.type])
  /\ UNCHANGED <<roc, timer, work, ctl, join, rx, mac, silent, reset>> /\ UNCHANGED scanVars

\* roc_event does not look at the token; the timer is armed afterwards.
RocEvent ==
  /\ ~rx /\ granted # <<>>
  /\ mac' = IF Head(granted).type = "roc" /\ mac = "asked" THEN "ready" ELSE mac
  /\ roc' = [roc EXCEPT !.grant = TRUE]
  /\ granted' = Tail(granted) /\ rx' = TRUE
  /\ UNCHANGED <<timer, work, ctl, join, silent, reset>> /\ UNCHANGED scanVars

RocEventArms ==
  /\ rx /\ rx' = FALSE /\ timer' = TRUE
  /\ UNCHANGED <<roc, work, ctl, join, granted, mac, silent, reset>> /\ UNCHANGED scanVars

RocGranted ==
  /\ ctl.pc = "wait" /\ roc.grant
  /\ ctl' = Idle
  /\ UNCHANGED rocVars /\ UNCHANGED scanVars /\ UNCHANGED reset

\* Mutant: a ROC that was not granted in time is left to the timer.
RocTimesOutStays ==
  /\ ctl.pc = "wait" /\ ~roc.grant
  /\ ctl' = Idle
  /\ mac' = IF ctl.type = "roc" THEN "none" ELSE mac
  /\ UNCHANGED <<roc, timer, work, join, rx, granted, silent, reset>> /\ UNCHANGED scanVars

\* Aborted; remain_on_channel returns the error.
RocTimesOut ==
  /\ ctl.pc = "wait" /\ ~roc.grant
  /\ ctl' = Idle
  /\ roc' = [roc EXCEPT !.bit = FALSE]
  /\ mac' = IF ctl.type = "roc" THEN "none" ELSE mac
  /\ UNCHANGED <<timer, work, join, rx, granted, silent, reset>> /\ UNCHANGED scanVars

RocTimer ==
  /\ timer /\ timer' = FALSE
  /\ work' = [work EXCEPT !.queued = TRUE]
  /\ UNCHANGED <<roc, ctl, join, rx, granted, mac, silent, reset>> /\ UNCHANGED scanVars

\* Under the mutex; a ROC that has ended is left alone.
RocWork ==
  /\ work.queued /\ work.pc = "idle" /\ Mutex
  /\ work' = [queued |-> FALSE, pc |-> IF roc.bit THEN "expired" ELSE "idle"]
  /\ roc' = [roc EXCEPT !.bit = FALSE]
  /\ UNCHANGED <<timer, ctl, join, rx, granted, mac, silent, reset>> /\ UNCHANGED scanVars

\* Outside the mutex, whoever asked for the ROC.
RocExpired ==
  /\ work.pc = "expired"
  /\ work' = [work EXCEPT !.pc = "idle"]
  /\ mac' = "none"
  /\ UNCHANGED <<roc, timer, ctl, join, rx, granted, silent, reset>> /\ UNCHANGED scanVars

\* abort_roc: the timer and the work are cancelled before the mutex is taken.
AbortRoc(type) ==
  /\ ctl.pc = "idle" /\ work.pc = "idle"
  /\ timer' = FALSE /\ work' = [work EXCEPT !.queued = FALSE]
  /\ ctl' = [pc |-> "abort", type |-> type]

CancelRoc ==
  /\ mac # "none"
  /\ AbortRoc("roc")
  /\ UNCHANGED <<roc, join, rx, granted, mac, silent, reset>> /\ UNCHANGED scanVars

MgdCompleteTx ==
  /\ join
  /\ AbortRoc("join")
  /\ UNCHANGED <<roc, join, rx, granted, mac, silent, reset>> /\ UNCHANGED scanVars

\* The bit may be that of another ROC: then mac80211 is not told of its end.
RocAborted ==
  /\ ctl.pc = "abort" /\ Mutex /\ ctl' = Idle
  /\ roc' = [roc EXCEPT !.bit = FALSE]
  /\ IF ctl.type = "roc" THEN mac' = "none" /\ UNCHANGED <<join, silent>>
     ELSE /\ join' = FALSE
          /\ silent' = (silent \/ mac # "none") /\ UNCHANGED mac
  /\ UNCHANGED <<timer, work, rx, granted, reset>> /\ UNCHANGED scanVars

\* sta_remove, of any station: without waiting for the work.
StaRemoveAborts ==
  /\ ctl.pc = "idle" /\ roc.bit /\ Mutex
  /\ roc' = [roc EXCEPT !.bit = FALSE]
  /\ timer' = FALSE /\ work' = [work EXCEPT !.queued = FALSE]
  /\ silent' = (silent \/ mac # "none")
  /\ UNCHANGED <<ctl, join, rx, granted, mac, reset>> /\ UNCHANGED scanVars

Roc ==
  \/ RocEvent \/ RocEventArms \/ RocGranted \/ RocTimesOut
  \/ RocTimer \/ RocWork \/ RocExpired \/ RocAborted

-----------------------------------------------------------------------------
(* Hardware scans.                                                          *)
\* mac80211 is told that its scan is over.
Complete ==
  /\ macscan' = IF macscan = "starting" THEN "early" ELSE "none"
  /\ twice' = (twice \/ macscan \in {"none", "early"})

\* hw_scan holds the mutex; the bit is set before the command is sent.
HwScan ==
  /\ ctl.pc = "idle" /\ Mutex /\ macscan = "none" /\ scans < MaxScans /\ ~scan
  /\ scans' = scans + 1
  /\ scan' = TRUE /\ macscan' = "starting"
  /\ ctl' = [pc |-> "send", type |-> "roc"]
  /\ UNCHANGED <<fwscan, done, twice, reset>> /\ UNCHANGED rocVars

\* Its result is returned to mac80211, which then has a scan or not.
HwScanSent ==
  /\ ctl.pc = "send" /\ ctl' = Idle
  /\ \/ /\ fwscan' = TRUE /\ UNCHANGED scan
        /\ macscan' = IF macscan = "early" THEN "none" ELSE "open"
     \/ scan' = FALSE /\ macscan' = "none" /\ UNCHANGED fwscan
  /\ UNCHANGED <<done, twice, reset, scans>> /\ UNCHANGED rocVars

\* A scan ends by itself, or was cancelled; so may a scheduled scan have.
FwScanDone ==
  /\ fwscan /\ reset.pc # "dead" /\ fwscan' = FALSE
  /\ done' = [done EXCEPT !.sent = @ + 1]
  /\ UNCHANGED <<scan, macscan, twice, reset, scans, ctl>> /\ UNCHANGED rocVars

ScanEvent ==
  /\ done.sent > 0
  /\ done' = [sent |-> done.sent - 1, list |-> done.list + 1, work |-> TRUE]
  /\ UNCHANGED <<scan, fwscan, macscan, twice, reset, scans, ctl>> /\ UNCHANGED rocVars

\* Mutant: the scan is completed whether or not one is running.
ScanWorkAlways ==
  /\ done.work /\ done.list > 0
  /\ done' = [done EXCEPT !.list = @ - 1, !.work = done.list > 1]
  /\ scan' = FALSE /\ Complete
  /\ UNCHANGED <<fwscan, reset, scans, ctl>> /\ UNCHANGED rocVars

\* For each event of the list, whichever scan it is of; without the mutex.
ScanWork ==
  /\ done.work /\ done.list > 0
  /\ done' = [done EXCEPT !.list = @ - 1, !.work = done.list > 1]
  /\ scan' = FALSE
  /\ IF scan THEN Complete ELSE UNCHANGED <<macscan, twice>>
  /\ UNCHANGED <<fwscan, reset, scans, ctl>> /\ UNCHANGED rocVars

\* The firmware sends its event for a scan that was cancelled, too.
CancelHwScan ==
  /\ ctl.pc = "idle" /\ Mutex /\ macscan = "open"
  /\ scan' = FALSE
  /\ IF scan THEN Complete ELSE UNCHANGED <<macscan, twice>>
  /\ UNCHANGED <<fwscan, done, reset, scans, ctl>> /\ UNCHANGED rocVars

-----------------------------------------------------------------------------
(* The chip reset: the firmware forgets the scan and all it had to send.    *)
ResetChip ==
  /\ reset.pc = "idle" /\ Mutex /\ reset.n < MaxResets
  /\ reset' = [pc |-> "dead", n |-> reset.n + 1]
  /\ fwscan' = FALSE /\ done' = [done EXCEPT !.sent = 0] /\ granted' = <<>>
  /\ UNCHANGED <<roc, timer, work, ctl, join, rx, mac, silent>>
  /\ UNCHANGED <<scan, macscan, twice, scans>>

\* The firmware runs again, and the mutex is released.
ResetDone ==
  /\ reset.pc = "dead"
  /\ reset' = [reset EXCEPT !.pc = "complete"]
  /\ UNCHANGED ctl /\ UNCHANGED rocVars /\ UNCHANGED scanVars

\* Mutant: the bit is cleared without a word to mac80211.
ResetScanQuiet ==
  /\ reset.pc = "complete"
  /\ reset' = [reset EXCEPT !.pc = "idle"]
  /\ scan' = FALSE
  /\ UNCHANGED <<fwscan, done, macscan, twice, scans, ctl>> /\ UNCHANGED rocVars

\* Then a scan is aborted, also one that was begun since.
ResetScan ==
  /\ reset.pc = "complete"
  /\ reset' = [reset EXCEPT !.pc = "idle"]
  /\ scan' = FALSE
  /\ IF scan THEN Complete ELSE UNCHANGED <<macscan, twice>>
  /\ UNCHANGED <<fwscan, done, scans, ctl>> /\ UNCHANGED rocVars

ScanStep == HwScanSent \/ FwScanDone \/ ScanEvent \/ ScanWork \/ ResetDone \/ ResetScan

Next ==
  \/ Roc \/ ScanStep
  \/ RemainOnChannel \/ MgdPrepareTx \/ CancelRoc \/ MgdCompleteTx \/ StaRemoveAborts
  \/ FwGrants \/ HwScan \/ CancelHwScan \/ ResetChip

\* Timers fire, works and workers run, and a running firmware ends its scans.
Fairness ==
  /\ WF_vars(RocEvent \/ RocEventArms) /\ WF_vars(RocGranted \/ RocTimesOut)
  /\ WF_vars(RocTimer) /\ SF_vars(RocWork) /\ WF_vars(RocExpired) /\ SF_vars(RocAborted)
  /\ WF_vars(HwScanSent) /\ WF_vars(FwScanDone) /\ WF_vars(ScanEvent) /\ WF_vars(ScanWork)
  /\ WF_vars(ResetDone) /\ WF_vars(ResetScan)

Spec == Init /\ [][Next]_vars /\ Fairness

-----------------------------------------------------------------------------
TypeOK ==
  /\ roc \in [bit : BOOLEAN, grant : BOOLEAN, token : 0 .. MaxRocs]
  /\ timer \in BOOLEAN /\ join \in BOOLEAN /\ rx \in BOOLEAN /\ silent \in BOOLEAN
  /\ work \in [queued : BOOLEAN, pc : {"idle", "expired"}]
  /\ ctl \in [pc : {"idle", "wait", "abort", "send"}, type : Types]
  /\ granted \in Seq([token : 1 .. MaxRocs, type : Types])
  /\ mac \in {"none", "asked", "ready"} /\ macscan \in {"none", "starting", "open", "early"}
  /\ scan \in BOOLEAN /\ fwscan \in BOOLEAN /\ twice \in BOOLEAN
  /\ done \in [sent : Nat, list : Nat, work : BOOLEAN]
  /\ reset \in [pc : {"idle", "dead", "complete"}, n : 0 .. MaxResets] /\ scans \in 0 .. MaxScans

\* STATE_ROC is never left set with nobody to clear it, whatever order the grant,
\* the timer, an abort and a time-out come in: every later ROC would be refused.
RocBitIsTemporary ==
  /\ TypeOK
  /\ roc.bit => ctl.pc \in {"wait", "abort"} \/ rx \/ timer \/ work.queued

\* mac80211 is told of the end of every ROC it has asked for, but for one that was
\* ended for a join or for the removal of a station.
EveryRocEnds == mac # "none" ~> mac = "none" \/ silent

\* scan_work, a cancellation and the chip reset never complete a scan twice.
ScanCompletesOnce == ~twice

\* Every scan that was accepted is completed, over cancellations and chip resets.
EveryScanEnds == macscan = "open" ~> macscan = "none"

\* Nothing mac80211 has asked the radio for stays open.
EveryRequestEnds == EveryRocEnds /\ EveryScanEnds
=============================================================================
