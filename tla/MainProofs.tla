----------------------------- MODULE MainProofs -----------------------------
(***************************************************************************)
(* Theorems about the two components of mt7921/main.c: Offchannel, for any  *)
(* number of requests and of resets, and FwTables, for any interfaces,      *)
(* peers, keys and number of faults.                                        *)
(***************************************************************************)
EXTENDS Offchannel, FwTables, FiniteSetTheorems, WellFoundedInduction, TLAPS

(* Offchannel.                                                              *)

\* A granted ROC does not depend on the callback that waited for it: the receive
\* worker is about to arm the timer, or the timer and its work are on their way.
GrantIsTimed ==
  /\ roc.bit => ctl.pc \in {"wait", "abort"} \/ rx \/ timer \/ work.queued
  /\ roc.bit /\ roc.grant => ctl.pc = "abort" \/ rx \/ timer \/ work.queued
  /\ ctl.pc = "wait" => roc.token \in 1 .. MaxRocs

\* HW_SCANNING is set only for a scan that mac80211 has, or is about to have.
ScanIsKnown == ~twice /\ (scan => macscan \in {"starting", "open"})

IInv == TypeOK /\ GrantIsTimed /\ ScanIsKnown

LEMMA InitIInv == Init => IInv
<1> SUFFICES ASSUME Init PROVE IInv
  OBVIOUS
<1>1. granted \in Seq([token : 1 .. MaxRocs, type : Types])
  BY DEF Init
<1>2. TypeOK
  <2>1. /\ roc \in [bit : BOOLEAN, grant : BOOLEAN, token : 0 .. MaxRocs]
        /\ work \in [queued : BOOLEAN, pc : {"idle", "expired"}]
        /\ ctl \in [pc : {"idle", "wait", "abort", "send"}, type : Types]
    BY OffAssumption DEF Init, Idle, Types
  <2>2. /\ done \in [sent : Nat, list : Nat, work : BOOLEAN]
        /\ reset \in [pc : {"idle", "dead", "complete"}, n : 0 .. MaxResets]
        /\ scans \in 0 .. MaxScans
    BY OffAssumption DEF Init
  <2>3. /\ {timer, join, rx, silent, scan, fwscan, twice} \subseteq BOOLEAN
        /\ mac = "none" /\ macscan = "none"
    BY DEF Init
  <2> QED BY <1>1, <2>1, <2>2, <2>3 DEF TypeOK
<1>3. GrantIsTimed /\ ScanIsKnown
  BY DEF Init, GrantIsTimed, ScanIsKnown, Idle
<1> QED BY <1>2, <1>3 DEF IInv

\* What each step leaves alone keeps what is said of it.
LEMMA RocVarsKept ==
  ASSUME IInv, UNCHANGED rocVars,
         ctl' = ctl \/ (ctl.pc \in {"idle", "send"} /\ ctl'.pc \in {"idle", "send"})
  PROVE GrantIsTimed'
<1>1. UNCHANGED <<roc, timer, work, rx>>
  BY DEF rocVars
<1> QED BY <1>1 DEF IInv, GrantIsTimed

LEMMA ScanVarsKept ==
  ASSUME IInv, UNCHANGED scanVars
  PROVE ScanIsKnown'
  BY DEF IInv, ScanIsKnown, scanVars

-----------------------------------------------------------------------------
(* Remain on channel.                                                       *)

\* A request under way is typed, waits, and has a token of its own.
LEMMA SetRocKeeps ==
  ASSUME IInv, NEW type \in Types, SetRoc(type), ctl.pc = "idle",
         UNCHANGED <<timer, work, rx>>
  PROVE /\ GrantIsTimed'
        /\ roc' \in [bit : BOOLEAN, grant : BOOLEAN, token : 0 .. MaxRocs]
        /\ ctl' \in [pc : {"idle", "wait", "abort", "send"}, type : Types]
<1> USE OffAssumption DEF IInv, TypeOK, GrantIsTimed
<1>1. CASE roc.bit
  BY <1>1 DEF SetRoc
<1>2. CASE ~roc.bit
  <2>1. roc.token < MaxRocs
    BY <1>2 DEF SetRoc
  <2>2. PICK sent \in BOOLEAN :
          /\ roc' = [bit |-> sent, grant |-> FALSE, token |-> roc.token + 1]
          /\ ctl' = IF sent THEN [pc |-> "wait", type |-> type] ELSE ctl
    BY <1>2 DEF SetRoc
  <2>3. roc.token + 1 \in 1 .. MaxRocs
    BY <2>1
  <2> QED BY <2>2, <2>3
<1> QED BY <1>1, <1>2

\* remain_on_channel and mgd_prepare_tx.
LEMMA RequestIInv == IInv /\ (RemainOnChannel \/ MgdPrepareTx) => IInv'
<1> SUFFICES ASSUME IInv, RemainOnChannel \/ MgdPrepareTx PROVE IInv'
  OBVIOUS
<1>1. PICK type \in Types : SetRoc(type)
  BY DEF RemainOnChannel, MgdPrepareTx, Types
<1>2. /\ ctl.pc = "idle" /\ UNCHANGED <<timer, work, rx, granted, silent, reset>>
      /\ UNCHANGED scanVars
      /\ join' \in BOOLEAN /\ mac' \in {"none", "asked", "ready"}
  BY DEF RemainOnChannel, MgdPrepareTx, IInv, TypeOK
<1>3. ScanIsKnown'
  BY <1>2, ScanVarsKept
<1>4. /\ GrantIsTimed'
      /\ roc' \in [bit : BOOLEAN, grant : BOOLEAN, token : 0 .. MaxRocs]
      /\ ctl' \in [pc : {"idle", "wait", "abort", "send"}, type : Types]
  BY <1>1, <1>2, SetRocKeeps
<1>5. TypeOK'
  BY <1>2, <1>4 DEF IInv, TypeOK, scanVars
<1> QED BY <1>3, <1>4, <1>5 DEF IInv

\* The firmware's grant, and uni_roc_event on its way to the timer.
LEMMA GrantIInv == IInv /\ (FwGrants \/ RocEvent \/ RocEventArms) => IInv'
<1> SUFFICES ASSUME IInv PROVE FwGrants \/ RocEvent \/ RocEventArms => IInv'
  OBVIOUS
<1> USE DEF IInv, TypeOK
<1>1. FwGrants => IInv'
  <2> SUFFICES ASSUME FwGrants PROVE IInv'
    OBVIOUS
  <2>1. [token |-> roc.token, type |-> ctl.type] \in [token : 1 .. MaxRocs, type : Types]
    BY DEF FwGrants, GrantIsTimed
  <2>2. granted' \in Seq([token : 1 .. MaxRocs, type : Types])
    BY <2>1 DEF FwGrants
  <2>3. GrantIsTimed' /\ ScanIsKnown'
    BY ScanVarsKept DEF FwGrants, GrantIsTimed
  <2> QED BY <2>2, <2>3 DEF FwGrants, scanVars
<1>2. RocEvent => IInv'
  <2> SUFFICES ASSUME RocEvent PROVE IInv'
    OBVIOUS
  <2>1. granted' \in Seq([token : 1 .. MaxRocs, type : Types])
    BY DEF RocEvent
  <2>2. GrantIsTimed' /\ ScanIsKnown'
    BY ScanVarsKept DEF RocEvent, GrantIsTimed
  <2>3. roc' \in [bit : BOOLEAN, grant : BOOLEAN, token : 0 .. MaxRocs]
        /\ mac' \in {"none", "asked", "ready"}
    BY DEF RocEvent
  <2> QED BY <2>1, <2>2, <2>3 DEF RocEvent, scanVars
<1>3. RocEventArms => IInv'
  BY ScanVarsKept DEF RocEventArms, GrantIsTimed, scanVars
<1> QED BY <1>1, <1>2, <1>3

\* The end of the wait, the timer and its work.
LEMMA RocEndsIInv == IInv /\ (RocGranted \/ RocTimesOut \/ RocTimer \/ RocWork \/ RocExpired) => IInv'
<1> SUFFICES ASSUME IInv
             PROVE RocGranted \/ RocTimesOut \/ RocTimer \/ RocWork \/ RocExpired => IInv'
  OBVIOUS
<1>1. RocGranted => IInv'
  BY ScanVarsKept DEF RocGranted, IInv, TypeOK, GrantIsTimed, Idle, Types, rocVars, scanVars
<1>2. RocTimesOut => IInv'
  <2> SUFFICES ASSUME RocTimesOut PROVE IInv'
    OBVIOUS
  <2>1. /\ roc' \in [bit : BOOLEAN, grant : BOOLEAN, token : 0 .. MaxRocs]
        /\ ctl' \in [pc : {"idle", "wait", "abort", "send"}, type : Types]
        /\ mac' \in {"none", "asked", "ready"}
    BY DEF RocTimesOut, IInv, TypeOK, Idle, Types
  <2>2. UNCHANGED <<timer, work, join, rx, granted, silent, scan, fwscan, done, macscan,
                    twice, reset, scans>>
    BY DEF RocTimesOut, scanVars
  <2>3. TypeOK'
    BY <2>1, <2>2 DEF IInv, TypeOK
  <2>4. GrantIsTimed'
    BY DEF RocTimesOut, IInv, TypeOK, GrantIsTimed, Idle, Types
  <2>5. ScanIsKnown'
    BY ScanVarsKept DEF RocTimesOut
  <2> QED BY <2>3, <2>4, <2>5 DEF IInv
<1>3. RocTimer => IInv'
  <2> SUFFICES ASSUME RocTimer PROVE IInv'
    OBVIOUS
  <2>1. /\ work' \in [queued : BOOLEAN, pc : {"idle", "expired"}]
        /\ timer' \in BOOLEAN
    BY DEF RocTimer, IInv, TypeOK
  <2>2. UNCHANGED <<roc, ctl, join, rx, granted, mac, silent, scan, fwscan, done,
                    macscan, twice, reset, scans>>
    BY DEF RocTimer, scanVars
  <2>3. TypeOK'
    BY <2>1, <2>2 DEF IInv, TypeOK
  <2>4. GrantIsTimed'
    BY DEF RocTimer, IInv, TypeOK, GrantIsTimed
  <2>5. ScanIsKnown'
    BY ScanVarsKept DEF RocTimer
  <2> QED BY <2>3, <2>4, <2>5 DEF IInv
<1>4. RocWork => IInv'
  <2> SUFFICES ASSUME RocWork PROVE IInv'
    OBVIOUS
  <2>1. /\ roc' \in [bit : BOOLEAN, grant : BOOLEAN, token : 0 .. MaxRocs]
        /\ work' \in [queued : BOOLEAN, pc : {"idle", "expired"}]
    BY DEF RocWork, IInv, TypeOK
  <2>2. UNCHANGED <<timer, ctl, join, rx, granted, mac, silent, scan, fwscan, done,
                    macscan, twice, reset, scans>>
    BY DEF RocWork, scanVars
  <2>3. TypeOK'
    BY <2>1, <2>2 DEF IInv, TypeOK
  <2>4. GrantIsTimed'
    BY DEF RocWork, IInv, TypeOK, GrantIsTimed
  <2>5. ScanIsKnown'
    BY ScanVarsKept DEF RocWork
  <2> QED BY <2>3, <2>4, <2>5 DEF IInv
<1>5. RocExpired => IInv'
  <2> SUFFICES ASSUME RocExpired PROVE IInv'
    OBVIOUS
  <2>1. /\ work' \in [queued : BOOLEAN, pc : {"idle", "expired"}]
        /\ mac' \in {"none", "asked", "ready"}
    BY DEF RocExpired, IInv, TypeOK
  <2>2. UNCHANGED <<roc, timer, ctl, join, rx, granted, silent, scan, fwscan, done,
                    macscan, twice, reset, scans>>
    BY DEF RocExpired, scanVars
  <2>3. TypeOK'
    BY <2>1, <2>2 DEF IInv, TypeOK
  <2>4. GrantIsTimed'
    BY DEF RocExpired, IInv, TypeOK, GrantIsTimed
  <2>5. ScanIsKnown'
    BY ScanVarsKept DEF RocExpired
  <2> QED BY <2>3, <2>4, <2>5 DEF IInv
<1> QED BY <1>1, <1>2, <1>3, <1>4, <1>5

\* cancel_remain_on_channel, mgd_complete_tx and sta_remove.
LEMMA AbortIInv == IInv /\ (CancelRoc \/ MgdCompleteTx \/ RocAborted \/ StaRemoveAborts) => IInv'
<1> SUFFICES ASSUME IInv
             PROVE CancelRoc \/ MgdCompleteTx \/ RocAborted \/ StaRemoveAborts => IInv'
  OBVIOUS
<1>1. CancelRoc => IInv'
  <2> SUFFICES ASSUME CancelRoc PROVE IInv'
    OBVIOUS
  <2>1. /\ work' \in [queued : BOOLEAN, pc : {"idle", "expired"}]
        /\ ctl' \in [pc : {"idle", "wait", "abort", "send"}, type : Types]
        /\ timer' \in BOOLEAN
    BY DEF CancelRoc, IInv, TypeOK, AbortRoc, Types
  <2>2. UNCHANGED <<roc, join, rx, granted, mac, silent, scan, fwscan, done, macscan,
                    twice, reset, scans>>
    BY DEF CancelRoc, AbortRoc, scanVars
  <2>3. TypeOK'
    BY <2>1, <2>2 DEF IInv, TypeOK
  <2>4. GrantIsTimed'
    BY DEF CancelRoc, IInv, TypeOK, GrantIsTimed, AbortRoc, Types
  <2>5. ScanIsKnown'
    BY ScanVarsKept DEF CancelRoc
  <2> QED BY <2>3, <2>4, <2>5 DEF IInv
<1>2. MgdCompleteTx => IInv'
  <2> SUFFICES ASSUME MgdCompleteTx PROVE IInv'
    OBVIOUS
  <2>1. /\ work' \in [queued : BOOLEAN, pc : {"idle", "expired"}]
        /\ ctl' \in [pc : {"idle", "wait", "abort", "send"}, type : Types]
        /\ timer' \in BOOLEAN
    BY DEF MgdCompleteTx, IInv, TypeOK, AbortRoc, Types
  <2>2. UNCHANGED <<roc, join, rx, granted, mac, silent, scan, fwscan, done, macscan,
                    twice, reset, scans>>
    BY DEF MgdCompleteTx, AbortRoc, scanVars
  <2>3. TypeOK'
    BY <2>1, <2>2 DEF IInv, TypeOK
  <2>4. GrantIsTimed'
    BY DEF MgdCompleteTx, IInv, TypeOK, GrantIsTimed, AbortRoc, Types
  <2>5. ScanIsKnown'
    BY ScanVarsKept DEF MgdCompleteTx
  <2> QED BY <2>3, <2>4, <2>5 DEF IInv
<1>3. RocAborted => IInv'
  <2> SUFFICES ASSUME RocAborted PROVE IInv'
    OBVIOUS
  <2>1. /\ roc' \in [bit : BOOLEAN, grant : BOOLEAN, token : 0 .. MaxRocs]
        /\ ctl' \in [pc : {"idle", "wait", "abort", "send"}, type : Types]
        /\ mac' \in {"none", "asked", "ready"}
        /\ join' \in BOOLEAN /\ silent' \in BOOLEAN
    BY DEF RocAborted, IInv, TypeOK, Idle, Types
  <2>2. UNCHANGED <<timer, work, rx, granted, scan, fwscan, done, macscan, twice, reset,
                    scans>>
    BY DEF RocAborted, scanVars
  <2>3. TypeOK'
    BY <2>1, <2>2 DEF IInv, TypeOK
  <2>4. GrantIsTimed'
    BY DEF RocAborted, IInv, TypeOK, GrantIsTimed, Idle, Types
  <2>5. ScanIsKnown'
    BY ScanVarsKept DEF RocAborted
  <2> QED BY <2>3, <2>4, <2>5 DEF IInv
<1>4. StaRemoveAborts => IInv'
  <2> SUFFICES ASSUME StaRemoveAborts PROVE IInv'
    OBVIOUS
  <2>1. /\ roc' \in [bit : BOOLEAN, grant : BOOLEAN, token : 0 .. MaxRocs]
        /\ work' \in [queued : BOOLEAN, pc : {"idle", "expired"}]
        /\ silent' \in BOOLEAN
        /\ timer' \in BOOLEAN
    BY DEF StaRemoveAborts, IInv, TypeOK
  <2>2. UNCHANGED <<ctl, join, rx, granted, mac, scan, fwscan, done, macscan, twice,
                    reset, scans>>
    BY DEF StaRemoveAborts, scanVars
  <2>3. TypeOK'
    BY <2>1, <2>2 DEF IInv, TypeOK
  <2>4. GrantIsTimed'
    BY DEF StaRemoveAborts, IInv, TypeOK, GrantIsTimed
  <2>5. ScanIsKnown'
    BY ScanVarsKept DEF StaRemoveAborts
  <2> QED BY <2>3, <2>4, <2>5 DEF IInv
<1> QED BY <1>1, <1>2, <1>3, <1>4

-----------------------------------------------------------------------------
(* Scans and the reset.                                                     *)

\* The events of scans keep their type.
LEMMA DoneTyped ==
  ASSUME done \in [sent : Nat, list : Nat, work : BOOLEAN]
  PROVE /\ [done EXCEPT !.sent = 0] \in [sent : Nat, list : Nat, work : BOOLEAN]
        /\ [done EXCEPT !.sent = @ + 1] \in [sent : Nat, list : Nat, work : BOOLEAN]
        /\ done.list > 0 =>
             [done EXCEPT !.list = @ - 1, !.work = done.list > 1] \in [sent : Nat, list : Nat, work : BOOLEAN]
<1>1. done.sent \in Nat /\ done.list \in Nat /\ done.work \in BOOLEAN
  OBVIOUS
<1>2. [done EXCEPT !.sent = 0] = [sent |-> 0, list |-> done.list, work |-> done.work]
  OBVIOUS
<1>3. [done EXCEPT !.sent = @ + 1]
        = [sent |-> done.sent + 1, list |-> done.list, work |-> done.work]
  OBVIOUS
<1>4. ASSUME NEW n \in Nat, NEW b \in BOOLEAN
      PROVE [done EXCEPT !.list = n, !.work = b] \in [sent : Nat, list : Nat, work : BOOLEAN]
  OBVIOUS
<1>5. done.list > 0 => done.list - 1 \in Nat
  BY <1>1
<1>6. (done.list > 1) \in BOOLEAN
  OBVIOUS
<1>7. [done EXCEPT !.sent = 0] \in [sent : Nat, list : Nat, work : BOOLEAN] /\ [done EXCEPT !.sent = @ + 1] \in [sent : Nat, list : Nat, work : BOOLEAN]
  BY <1>1, <1>2, <1>3
<1>8. ASSUME done.list > 0
      PROVE [done EXCEPT !.list = @ - 1, !.work = done.list > 1] \in [sent : Nat, list : Nat, work : BOOLEAN]
  BY <1>4, <1>5, <1>6, <1>8
<1> QED BY <1>7, <1>8

\* A scan is completed, if one runs, and the bit cleared.
LEMMA CompleteKeeps ==
  ASSUME IInv, scan' = FALSE, IF scan THEN Complete ELSE UNCHANGED <<macscan, twice>>
  PROVE ScanIsKnown' /\ macscan' \in {"none", "starting", "open", "early"} /\ twice' \in BOOLEAN
  BY DEF IInv, TypeOK, ScanIsKnown, Complete

\* hw_scan and the answer to its command, scan_work, cancel_hw_scan.
LEMMA ScanIInv ==
  IInv /\ (HwScan \/ HwScanSent \/ FwScanDone \/ ScanEvent \/ ScanWork \/ CancelHwScan) => IInv'
<1> SUFFICES ASSUME IInv
             PROVE HwScan \/ HwScanSent \/ FwScanDone \/ ScanEvent \/ ScanWork \/ CancelHwScan
                     => IInv'
  OBVIOUS
<1>1. HwScan => IInv'
  <2> SUFFICES ASSUME HwScan PROVE IInv'
    OBVIOUS
  <2>1. /\ ctl' \in [pc : {"idle", "wait", "abort", "send"}, type : Types]
        /\ scans' \in 0 .. MaxScans
        /\ scan' \in BOOLEAN
        /\ macscan' \in {"none", "starting", "open", "early"}
    BY OffAssumption DEF HwScan, IInv, TypeOK, Types
  <2>2. UNCHANGED <<roc, timer, work, join, rx, granted, mac, silent, fwscan, done,
                    twice, reset>>
    BY DEF HwScan, rocVars
  <2>3. TypeOK'
    BY <2>1, <2>2 DEF IInv, TypeOK
  <2>4. GrantIsTimed'
    BY RocVarsKept DEF HwScan, Idle
  <2>5. ScanIsKnown'
    BY DEF HwScan, IInv, TypeOK, ScanIsKnown
  <2> QED BY <2>3, <2>4, <2>5 DEF IInv
<1>2. HwScanSent => IInv'
  <2> SUFFICES ASSUME HwScanSent PROVE IInv'
    OBVIOUS
  <2>1. /\ ctl' \in [pc : {"idle", "wait", "abort", "send"}, type : Types]
        /\ macscan' \in {"none", "starting", "open", "early"}
        /\ scan' \in BOOLEAN /\ fwscan' \in BOOLEAN
    BY DEF HwScanSent, IInv, TypeOK, Idle, Types
  <2>2. UNCHANGED <<roc, timer, work, join, rx, granted, mac, silent, done, twice, reset,
                    scans>>
    BY DEF HwScanSent, rocVars
  <2>3. TypeOK'
    BY <2>1, <2>2 DEF IInv, TypeOK
  <2>4. GrantIsTimed'
    BY RocVarsKept DEF HwScanSent, Idle
  <2>5. ScanIsKnown'
    BY DEF HwScanSent, IInv, TypeOK, ScanIsKnown
  <2> QED BY <2>3, <2>4, <2>5 DEF IInv
<1>3. FwScanDone => IInv'
  <2> SUFFICES ASSUME FwScanDone PROVE IInv'
    OBVIOUS
  <2>1. /\ done' \in [sent : Nat, list : Nat, work : BOOLEAN]
        /\ fwscan' \in BOOLEAN
    <3>1. done' = [done EXCEPT !.sent = @ + 1] /\ fwscan' = FALSE
      BY DEF FwScanDone
    <3>2. done \in [sent : Nat, list : Nat, work : BOOLEAN]
      BY DEF IInv, TypeOK
    <3> QED BY <3>1, <3>2, DoneTyped
  <2>2. UNCHANGED <<roc, timer, work, ctl, join, rx, granted, mac, silent, scan, macscan,
                    twice, reset, scans>>
    BY DEF FwScanDone, rocVars
  <2>3. TypeOK'
    BY <2>1, <2>2 DEF IInv, TypeOK
  <2>4. GrantIsTimed'
    BY RocVarsKept DEF FwScanDone, Idle
  <2>5. ScanIsKnown'
    BY DEF FwScanDone, IInv, TypeOK, ScanIsKnown
  <2> QED BY <2>3, <2>4, <2>5 DEF IInv
<1>4. ScanEvent => IInv'
  <2> SUFFICES ASSUME ScanEvent PROVE IInv'
    OBVIOUS
  <2>1. /\ done' \in [sent : Nat, list : Nat, work : BOOLEAN]
    BY DEF ScanEvent, IInv, TypeOK
  <2>2. UNCHANGED <<roc, timer, work, ctl, join, rx, granted, mac, silent, scan, fwscan,
                    macscan, twice, reset, scans>>
    BY DEF ScanEvent, rocVars
  <2>3. TypeOK'
    BY <2>1, <2>2 DEF IInv, TypeOK
  <2>4. GrantIsTimed'
    BY RocVarsKept DEF ScanEvent, Idle
  <2>5. ScanIsKnown'
    BY DEF ScanEvent, IInv, TypeOK, ScanIsKnown
  <2> QED BY <2>3, <2>4, <2>5 DEF IInv
<1>5. ScanWork => IInv'
  <2> SUFFICES ASSUME ScanWork PROVE IInv'
    OBVIOUS
  <2>1. /\ done' \in [sent : Nat, list : Nat, work : BOOLEAN]
        /\ macscan' \in {"none", "starting", "open", "early"}
        /\ twice' \in BOOLEAN
        /\ scan' \in BOOLEAN
    <3>1. done' = [done EXCEPT !.list = @ - 1, !.work = done.list > 1] /\ done.list > 0
      BY DEF ScanWork
    <3>2. done \in [sent : Nat, list : Nat, work : BOOLEAN]
      BY DEF IInv, TypeOK
    <3>3. done' \in [sent : Nat, list : Nat, work : BOOLEAN]
      BY <3>1, <3>2, DoneTyped
    <3> QED BY <3>3, CompleteKeeps DEF ScanWork
  <2>2. UNCHANGED <<roc, timer, work, ctl, join, rx, granted, mac, silent, fwscan, reset,
                    scans>>
    BY DEF ScanWork, rocVars
  <2>3. TypeOK'
    BY <2>1, <2>2 DEF IInv, TypeOK
  <2>4. GrantIsTimed'
    BY RocVarsKept DEF ScanWork, Idle
  <2>5. ScanIsKnown'
    BY CompleteKeeps DEF ScanWork
  <2> QED BY <2>3, <2>4, <2>5 DEF IInv
<1>6. CancelHwScan => IInv'
  <2> SUFFICES ASSUME CancelHwScan PROVE IInv'
    OBVIOUS
  <2>1. /\ macscan' \in {"none", "starting", "open", "early"}
        /\ twice' \in BOOLEAN
        /\ scan' \in BOOLEAN
    BY DEF CancelHwScan, IInv, TypeOK, Complete
  <2>2. UNCHANGED <<roc, timer, work, ctl, join, rx, granted, mac, silent, fwscan, done,
                    reset, scans>>
    BY DEF CancelHwScan, rocVars
  <2>3. TypeOK'
    BY <2>1, <2>2 DEF IInv, TypeOK
  <2>4. GrantIsTimed'
    BY RocVarsKept DEF CancelHwScan, Idle
  <2>5. ScanIsKnown'
    BY CompleteKeeps DEF CancelHwScan
  <2> QED BY <2>3, <2>4, <2>5 DEF IInv
<1> QED BY <1>1, <1>2, <1>3, <1>4, <1>5, <1>6

\* mac_reset_work.
LEMMA ResetIInv == IInv /\ (ResetChip \/ ResetDone \/ ResetScan) => IInv'
<1> SUFFICES ASSUME IInv PROVE ResetChip \/ ResetDone \/ ResetScan => IInv'
  OBVIOUS
<1>1. ResetChip => IInv'
  <2> SUFFICES ASSUME ResetChip PROVE IInv'
    OBVIOUS
  <2>1. /\ reset' \in [pc : {"idle", "dead", "complete"}, n : 0 .. MaxResets]
        /\ done' \in [sent : Nat, list : Nat, work : BOOLEAN]
        /\ granted' \in Seq([token : 1 .. MaxRocs, type : Types])
        /\ fwscan' \in BOOLEAN
    <3>1. /\ reset' = [pc |-> "dead", n |-> reset.n + 1] /\ reset.n < MaxResets
          /\ done' = [done EXCEPT !.sent = 0]
          /\ granted' = <<>> /\ fwscan' = FALSE
      BY DEF ResetChip
    <3>2. /\ done \in [sent : Nat, list : Nat, work : BOOLEAN]
          /\ reset \in [pc : {"idle", "dead", "complete"}, n : 0 .. MaxResets]
      BY DEF IInv, TypeOK
    <3>3. reset' \in [pc : {"idle", "dead", "complete"}, n : 0 .. MaxResets]
      BY <3>1, <3>2, OffAssumption
    <3>4. granted' \in Seq([token : 1 .. MaxRocs, type : Types]) /\ fwscan' \in BOOLEAN
      <4>1. <<>> \in Seq([token : 1 .. MaxRocs, type : Types])
        OBVIOUS
      <4> QED BY <3>1, <4>1, Zenon
    <3>5. done' \in [sent : Nat, list : Nat, work : BOOLEAN]
      BY <3>1, <3>2, DoneTyped
    <3> QED BY <3>3, <3>4, <3>5
  <2>2. UNCHANGED <<roc, timer, work, ctl, join, rx, mac, silent, scan, macscan, twice,
                    scans>>
    BY DEF ResetChip, rocVars
  <2>3. TypeOK'
    BY <2>1, <2>2 DEF IInv, TypeOK
  <2>4. GrantIsTimed'
    BY DEF ResetChip, IInv, TypeOK, GrantIsTimed
  <2>5. ScanIsKnown'
    BY DEF ResetChip, IInv, TypeOK, ScanIsKnown
  <2> QED BY <2>3, <2>4, <2>5 DEF IInv
<1>2. ResetDone => IInv'
  BY RocVarsKept, ScanVarsKept DEF ResetDone, IInv, TypeOK, rocVars, scanVars
<1>3. ResetScan => IInv'
  <2> SUFFICES ASSUME ResetScan PROVE IInv'
    OBVIOUS
  <2>1. /\ reset' \in [pc : {"idle", "dead", "complete"}, n : 0 .. MaxResets]
        /\ macscan' \in {"none", "starting", "open", "early"}
        /\ twice' \in BOOLEAN
        /\ scan' \in BOOLEAN
    BY DEF ResetScan, IInv, TypeOK, Complete
  <2>2. UNCHANGED <<roc, timer, work, ctl, join, rx, granted, mac, silent, fwscan, done,
                    scans>>
    BY DEF ResetScan, rocVars
  <2>3. TypeOK'
    BY <2>1, <2>2 DEF IInv, TypeOK
  <2>4. GrantIsTimed'
    BY RocVarsKept DEF ResetScan, Idle
  <2>5. ScanIsKnown'
    BY CompleteKeeps DEF ResetScan
  <2> QED BY <2>3, <2>4, <2>5 DEF IInv
<1> QED BY <1>1, <1>2, <1>3

-----------------------------------------------------------------------------
LEMMA NextIInv == IInv /\ [Next]_vars => IInv'
<1> SUFFICES ASSUME IInv, [Next]_vars PROVE IInv'
  OBVIOUS
<1>1. CASE RemainOnChannel \/ MgdPrepareTx
  BY <1>1, RequestIInv
<1>2. CASE FwGrants \/ RocEvent \/ RocEventArms
  BY <1>2, GrantIInv
<1>3. CASE RocGranted \/ RocTimesOut \/ RocTimer \/ RocWork \/ RocExpired
  BY <1>3, RocEndsIInv
<1>4. CASE CancelRoc \/ MgdCompleteTx \/ RocAborted \/ StaRemoveAborts
  BY <1>4, AbortIInv
<1>5. CASE HwScan \/ HwScanSent \/ FwScanDone \/ ScanEvent \/ ScanWork \/ CancelHwScan
  BY <1>5, ScanIInv
<1>6. CASE ResetChip \/ ResetDone \/ ResetScan
  BY <1>6, ResetIInv
<1>7. CASE UNCHANGED vars
  BY <1>7 DEF vars, IInv, TypeOK, GrantIsTimed, ScanIsKnown
<1> QED BY <1>1, <1>2, <1>3, <1>4, <1>5, <1>6, <1>7 DEF Next, Roc, ScanStep

LEMMA Invariance == Spec => []IInv
  BY InitIInv, NextIInv, PTL DEF Spec

\* However grant, timer, time-out, abort and reset are ordered, STATE_ROC has somebody
\* to clear it: no ROC is refused for ever (set_roc, roc_work, roc_abort_sync).
THEOREM RocBitStaysTemporary == Spec => []RocBitIsTemporary
<1>1. IInv => RocBitIsTemporary
  BY DEF IInv, GrantIsTimed, RocBitIsTemporary
<1> QED BY <1>1, Invariance, PTL

\* scan_work, a cancellation and a reset never complete a scan that mac80211 does not
\* have, however many events of earlier scans are still listed.
THEOREM ScansCompleteOnce == Spec => []ScanCompletesOnce
<1>1. IInv => ScanCompletesOnce
  BY DEF IInv, ScanIsKnown, ScanCompletesOnce
<1> QED BY <1>1, Invariance, PTL

-----------------------------------------------------------------------------
(* FwTables.                                                                *)

\* The entries that are marked, and all that a command may be about.
VifKeys == {"dev", "bss", "mon"}
StaKeys == {"rec", "ba"}
Keys == ((VifKeys \cup {"own"}) \X VifIdx) \cup ((StaKeys \cup {"key"}) \X StaIdx)

BssStates == {"off", "idle", "up"}

\* The states of the firmware.
Fw == [dev : SUBSET VifIdx, bss : [VifIdx -> BssStates],
       mon : SUBSET VifIdx, rec : [StaIdx -> Stas \cup {None}],
       key : SUBSET (StaIdx \X Stas), ba : SUBSET StaIdx,
       dirty : SUBSET Keys,
       hung : BOOLEAN, faults : 0 .. MaxFaults, err : BOOLEAN]

IsUp(v) == vif[v].up
OfOthers(i) == \A v \in Vifs : IsUp(v) => vif[v].idx # i

\* What mac80211 keeps to: the order of its callbacks about a peer, and one AP
\* for each STATION interface.
PeersInOrder ==
  /\ \A s \in Live :
       /\ IsUp(Home[s])
       /\ s \in Tdls => vif[Home[s]].assoc
       /\ sta[s].st = "leaving" => wcid[sta[s].idx] = None
       /\ sta[s].st = "assoc" => sta[s].conn
       /\ sta[s].conn /\ sta[s].st # "assoc" /\ Home[s] \notin APs /\ s \notin Tdls =>
            vif[Home[s]].assoc
  /\ \A s, t \in Live \ Tdls : Home[s] = Home[t] /\ Home[s] \notin APs => s = t
  /\ \A v \in Vifs : vif[v].tear => vif[v].assoc /\ v \notin APs
  /\ wiped \subseteq {s \in Live : sta[s].conn}
  /\ rst.left \subseteq {v \in Vifs : IsUp(v)}

Connected(v) == \E s \in Peers(v) : sta[s].conn

\* The BSS of an interface, whether or not a disconnect is asked for.
BssAgrees(v) ==
  LET i == vif[v].idx
  IN <<"bss", i>> \notin fw.dirty =>
       /\ v \in APs /\ vif[v].assoc => fw.bss[i] = "up"
       /\ v \in APs /\ ~vif[v].assoc => fw.bss[i] \in {"off", "idle"}
       /\ v \notin APs /\ ~Connected(v) => fw.bss[i] = "idle"
       /\ v \notin APs /\ Connected(v) /\ v \notin disc /\ ~vif[v].tear => fw.bss[i] = "up"

VifAgrees(v) ==
  LET i == vif[v].idx
  IN /\ <<"dev", i>> \notin fw.dirty => i \in fw.dev
     /\ <<"mon", i>> \notin fw.dirty => (i \in fw.mon <=> vif[v].assoc)
     /\ BssAgrees(v)

\* The record is right as soon as it is known, also when a later command about
\* it has failed.
RecAgrees(s) ==
  LET i == sta[s].idx
  IN /\ fw.rec[i] \in {None, s}
     /\ <<"rec", i>> \notin fw.dirty => fw.rec[i] = s
     /\ fw.rec[i] = s /\ <<"ba", i>> \notin fw.dirty => (i \in fw.ba <=> sta[s].ba)
     /\ \A t \in Stas : <<i, t>> \in fw.key => t = s

StaType == sta \in [Stas -> [st : {"gone", "none", "assoc", "leaving"},
                             idx : {0} \cup StaIdx, conn : BOOLEAN, ba : BOOLEAN]]
VifType == vif \in [Vifs -> [up : BOOLEAN, idx : VifIdx, assoc : BOOLEAN, tear : BOOLEAN,
                             wep : Stas \cup {None}]]

DriverType ==
  /\ VifType /\ StaType
  /\ mask \subseteq {0} \cup StaIdx
  /\ wcid \in [Wcids -> Vifs \cup Stas \cup {None}]
  /\ rst \in [on : BOOLEAN, left : SUBSET Vifs]
  /\ disc \subseteq Vifs \ APs /\ wiped \subseteq Stas

\* Indices have one owner, who is published unless it is leaving.
IndicesOwned ==
  /\ \A s, t \in Live : s # t => sta[s].idx # sta[t].idx
  /\ \A s \in Live : sta[s].idx \in mask /\ sta[s].idx \in StaIdx
  /\ \A i \in StaIdx : wcid[i] # None => wcid[i] \in Live /\ sta[wcid[i]].idx = i
  /\ \A u, v \in Vifs : vif[u].up /\ vif[v].up /\ u # v => vif[u].idx # vif[v].idx
  /\ \A v \in Vifs : vif[v].up => wcid[Reserved - vif[v].idx] = v

\* What the driver and mac80211 keep, whatever the firmware answers.
DriverInv == DriverType /\ IndicesOwned /\ PeersInOrder /\ WipedPeersGo

FwInv ==
  /\ fw \in Fw /\ ~fw.err
  /\ \A i \in VifIdx : OfOthers(i) /\ <<"mon", i>> \notin fw.dirty => i \notin fw.mon
  /\ \A v \in Vifs : IsUp(v) => VifAgrees(v)
  /\ \A s \in Live : RecAgrees(s)

TablesInv == DriverInv /\ FwInv

-----------------------------------------------------------------------------
(* What a command may do, failed or not.                                    *)

SameTables(f, r) ==
  /\ r.dev = f.dev /\ r.bss = f.bss /\ r.mon = f.mon
  /\ r.rec = f.rec /\ r.key = f.key /\ r.ba = f.ba

Outcome(f, key, g, r) ==
  /\ r \in Fw
  /\ \/ r.err /\ SameTables(f, r) /\ r.dirty = f.dirty \cup {key}
     \/ ~r.err /\ SameTables(g, r) /\ r.dirty = g.dirty

\* An answer that is not the command's effect leaves the tables and a dirty entry.
LEMMA AnswersAre ==
  \A f, g \in Fw, key \in Keys : g.faults = f.faults =>
    \A r \in Answers(f, key, g) : Outcome(f, key, g, r)
<1> SUFFICES ASSUME NEW f \in Fw, NEW g \in Fw, NEW key \in Keys, g.faults = f.faults,
                    NEW r \in Answers(f, key, g)
             PROVE Outcome(f, key, g, r)
  OBVIOUS
<1> DEFINE fails(h) == [h EXCEPT !.err = TRUE, !.dirty = @ \cup {key}]
<1>1. \A h \in Fw : /\ fails(h) \in Fw /\ fails(h).err /\ SameTables(h, fails(h))
                    /\ fails(h).dirty = h.dirty \cup {key}
  <2> TAKE h \in Fw
  <2>1. h.dirty \cup {key} \in SUBSET Keys
    BY DEF Fw
  <2> QED BY <2>1 DEF Fw, SameTables
<1>2. CASE r = Fails(f, key)
  BY <1>1, <1>2 DEF Outcome, Fails
<1>3. CASE r = [g EXCEPT !.err = FALSE]
  <2>1. r \in Fw /\ ~r.err /\ SameTables(g, r) /\ r.dirty = g.dirty
    BY <1>3 DEF Fw, SameTables
  <2> QED BY <2>1 DEF Outcome
<1>4. CASE MayFail(f) /\ r \in {Fails(OneFault(f), key),
                               [Fails(OneFault(f), key) EXCEPT !.hung = TRUE]}
  <2> DEFINE h == OneFault(f)
  <2>1. h \in Fw /\ SameTables(f, h) /\ h.dirty = f.dirty
    BY <1>4, FwAssumption DEF Fw, OneFault, MayFail, SameTables
  <2> HIDE DEF h
  <2>2. /\ fails(h) \in Fw /\ fails(h).err /\ SameTables(f, fails(h))
        /\ fails(h).dirty = f.dirty \cup {key}
    BY <1>1, <2>1 DEF SameTables
  <2>3. CASE r = fails(h)
    BY <2>2, <2>3 DEF Outcome
  <2> DEFINE w == fails(h)
  <2> HIDE DEF w
  <2>4. CASE r = [w EXCEPT !.hung = TRUE]
    <3>1. w \in Fw /\ w.err /\ SameTables(f, w) /\ w.dirty = f.dirty \cup {key}
      BY <2>2 DEF w
    <3>2. r \in Fw /\ r.err /\ SameTables(w, r) /\ r.dirty = w.dirty
      BY <3>1, <2>4 DEF Fw, SameTables
    <3> QED BY <3>1, <3>2 DEF Outcome, SameTables
  <2> QED BY <1>4, <2>3, <2>4 DEF Fails, h, w
<1> QED BY <1>2, <1>3, <1>4 DEF Answers

\* The same of a command that sets its entry.
LEMMA SendIs ==
  \A f, g \in Fw, key \in Keys : g.faults = f.faults =>
    \A r \in Send(f, key, g) :
      /\ r \in Fw
      /\ \/ r.err /\ SameTables(f, r) /\ r.dirty = f.dirty \cup {key}
         \/ ~r.err /\ SameTables(g, r) /\ r.dirty = g.dirty \ {key}
<1> SUFFICES ASSUME NEW f \in Fw, NEW g \in Fw, NEW key \in Keys, g.faults = f.faults,
                    NEW r \in Send(f, key, g)
             PROVE /\ r \in Fw
                   /\ \/ r.err /\ SameTables(f, r) /\ r.dirty = f.dirty \cup {key}
                      \/ ~r.err /\ SameTables(g, r) /\ r.dirty = g.dirty \ {key}
  OBVIOUS
<1> DEFINE h == [g EXCEPT !.dirty = @ \ {key}]
<1>1. h \in Fw /\ h.faults = f.faults /\ SameTables(g, h) /\ h.dirty = g.dirty \ {key}
  BY DEF Fw, SameTables
<1>2. r \in Answers(f, key, h)
  BY DEF Send
<1> HIDE DEF h
<1>3. Outcome(f, key, h, r)
  BY <1>1, <1>2, AnswersAre
<1> QED BY <1>1, <1>3 DEF Outcome, SameTables

\* A command about an interface, and one about a peer.
SameVif(f, r, j) ==
  /\ j \in r.dev <=> j \in f.dev
  /\ r.bss[j] = f.bss[j]
  /\ j \in r.mon <=> j \in f.mon
  /\ \A k \in VifKeys : <<k, j>> \in r.dirty <=> <<k, j>> \in f.dirty

SameRec(f, r, j) ==
  /\ r.rec[j] = f.rec[j]
  /\ \A t \in Stas : <<j, t>> \in r.key <=> <<j, t>> \in f.key
  /\ j \in r.ba <=> j \in f.ba
  /\ \A k \in StaKeys : <<k, j>> \in r.dirty <=> <<k, j>> \in f.dirty

VifSide(f, r, i) ==
  /\ r \in Fw
  /\ \A j \in StaIdx : SameRec(f, r, j)
  /\ \A j \in VifIdx : j # i => SameVif(f, r, j)

StaSide(f, r, i) ==
  /\ r \in Fw
  /\ \A j \in VifIdx : SameVif(f, r, j)
  /\ \A j \in StaIdx : j # i => SameRec(f, r, j)

LEMMA SidesAreTransitive ==
  /\ \A f, g, r \in Fw, i \in VifIdx :
       VifSide(f, g, i) /\ VifSide(g, r, i) => VifSide(f, r, i)
  /\ \A f, g, r \in Fw, i \in StaIdx :
       StaSide(f, g, i) /\ StaSide(g, r, i) => StaSide(f, r, i)
  BY DEF VifSide, StaSide, SameVif, SameRec

\* A command with the key k of an interface changes the dirty mark of that entry
\* alone, and the tables only if it was carried out.
LEMMA VifSendIs ==
  \A f, g \in Fw, i \in VifIdx, k \in VifKeys :
    g.faults = f.faults /\ g.dirty = f.dirty /\ VifSide(f, g, i) =>
      \A r \in Send(f, <<k, i>>, g) :
        /\ VifSide(f, r, i)
        /\ \A l \in VifKeys : l # k => (<<l, i>> \in r.dirty <=> <<l, i>> \in f.dirty)
        /\ r.err => <<k, i>> \in r.dirty /\ SameTables(f, r)
        /\ ~r.err => <<k, i>> \notin r.dirty /\ SameTables(g, r)
<1> TAKE f, g \in Fw, i \in VifIdx, k \in VifKeys
<1> HAVE g.faults = f.faults /\ g.dirty = f.dirty /\ VifSide(f, g, i)
<1> TAKE r \in Send(f, <<k, i>>, g)
<1>1. <<k, i>> \in Keys
  BY DEF Keys
<1>2. /\ r \in Fw
      /\ \/ r.err /\ SameTables(f, r) /\ r.dirty = f.dirty \cup {<<k, i>>}
         \/ ~r.err /\ SameTables(g, r) /\ r.dirty = g.dirty \ {<<k, i>>}
  BY <1>1, SendIs
<1>3. \A l, j : <<l, j>> # <<k, i>> => (<<l, j>> \in r.dirty <=> <<l, j>> \in f.dirty)
  BY <1>2
<1>4. \A j \in StaIdx : SameRec(f, r, j)
  <2>1. \A l \in StaKeys : l # k
    BY DEF StaKeys, VifKeys
  <2>2. \A j \in StaIdx, l \in StaKeys : <<l, j>> \in r.dirty <=> <<l, j>> \in f.dirty
    BY <1>3, <2>1
  <2> QED BY <1>2, <2>2 DEF VifSide, SameRec, SameTables
<1>5. \A j \in VifIdx : j # i => SameVif(f, r, j)
  <2>1. \A j \in VifIdx, l \in VifKeys :
          j # i => (<<l, j>> \in r.dirty <=> <<l, j>> \in f.dirty)
    BY <1>3
  <2> QED BY <1>2, <2>1 DEF VifSide, SameVif, SameTables
<1>6. \A l \in VifKeys : l # k => (<<l, i>> \in r.dirty <=> <<l, i>> \in f.dirty)
  BY <1>3
<1> QED BY <1>2, <1>4, <1>5, <1>6 DEF VifSide

LEMMA DevInfoDoes ==
  \A f \in Fw, i \in VifIdx, on \in BOOLEAN : \A r \in DevInfo(f, i, on) :
    /\ VifSide(f, r, i) /\ r.bss = f.bss /\ r.mon = f.mon
    /\ \A l \in {"bss", "mon"} : <<l, i>> \in r.dirty <=> <<l, i>> \in f.dirty
    /\ r.err => <<"dev", i>> \in r.dirty
    /\ ~r.err => <<"dev", i>> \notin r.dirty /\ (i \in r.dev <=> on)
<1> TAKE f \in Fw, i \in VifIdx, on \in BOOLEAN
<1> TAKE r \in DevInfo(f, i, on)
<1> DEFINE g == [f EXCEPT !.dev = IF on THEN @ \cup {i} ELSE @ \ {i}]
<1>1. g \in Fw /\ g.faults = f.faults /\ g.dirty = f.dirty
  BY DEF Fw
<1>2. /\ g.bss = f.bss /\ g.mon = f.mon /\ g.rec = f.rec /\ g.key = f.key /\ g.ba = f.ba
      /\ g.dev = IF on THEN f.dev \cup {i} ELSE f.dev \ {i}
  BY DEF Fw
<1>3. r \in Send(f, <<"dev", i>>, g)
  BY Zenon DEF DevInfo
<1> HIDE DEF g
<1>4. VifSide(f, g, i)
  BY <1>1, <1>2 DEF VifSide, SameVif, SameRec
<1>5. /\ VifSide(f, r, i)
      /\ \A l \in VifKeys : l # "dev" => (<<l, i>> \in r.dirty <=> <<l, i>> \in f.dirty)
      /\ r.err => <<"dev", i>> \in r.dirty /\ SameTables(f, r)
      /\ ~r.err => <<"dev", i>> \notin r.dirty /\ SameTables(g, r)
  <2>1. "dev" \in VifKeys
    BY DEF VifKeys
  <2> QED BY <1>1, <1>3, <1>4, <2>1, VifSendIs, Zenon
<1> QED BY <1>2, <1>5 DEF VifKeys, SameTables

LEMMA BssStateDoes ==
  \A f \in Fw, i \in VifIdx, st \in BssStates : \A r \in BssState(f, i, st) :
    /\ VifSide(f, r, i) /\ r.dev = f.dev /\ r.mon = f.mon
    /\ \A l \in {"dev", "mon"} : <<l, i>> \in r.dirty <=> <<l, i>> \in f.dirty
    /\ r.err => <<"bss", i>> \in r.dirty
    /\ ~r.err => <<"bss", i>> \notin r.dirty /\ r.bss[i] = st
<1> TAKE f \in Fw, i \in VifIdx, st \in BssStates
<1> TAKE r \in BssState(f, i, st)
<1> DEFINE g == [f EXCEPT !.bss[i] = st]
<1>1. g \in Fw /\ g.faults = f.faults /\ g.dirty = f.dirty
  BY DEF Fw
<1>2. /\ g.dev = f.dev /\ g.mon = f.mon /\ g.rec = f.rec /\ g.key = f.key /\ g.ba = f.ba
      /\ g.bss[i] = st /\ \A j \in VifIdx : j # i => g.bss[j] = f.bss[j]
  BY DEF Fw
<1>3. r \in Send(f, <<"bss", i>>, g)
  BY Zenon DEF BssState
<1> HIDE DEF g
<1>4. VifSide(f, g, i)
  BY <1>1, <1>2 DEF VifSide, SameVif, SameRec
<1>5. /\ VifSide(f, r, i)
      /\ \A l \in VifKeys : l # "bss" => (<<l, i>> \in r.dirty <=> <<l, i>> \in f.dirty)
      /\ r.err => <<"bss", i>> \in r.dirty /\ SameTables(f, r)
      /\ ~r.err => <<"bss", i>> \notin r.dirty /\ SameTables(g, r)
  <2>1. "bss" \in VifKeys
    BY DEF VifKeys
  <2> QED BY <1>1, <1>3, <1>4, <2>1, VifSendIs, Zenon
<1> QED BY <1>2, <1>5 DEF VifKeys, SameTables

LEMMA BssPmDoes ==
  \A f \in Fw, i \in VifIdx, on \in BOOLEAN : \A r \in BssPm(f, i, on) :
    /\ VifSide(f, r, i) /\ r.dev = f.dev /\ r.bss = f.bss
    /\ \A l \in {"dev", "bss"} : <<l, i>> \in r.dirty <=> <<l, i>> \in f.dirty
    /\ r.err => <<"mon", i>> \in r.dirty
    /\ ~r.err => <<"mon", i>> \notin r.dirty /\ (i \in r.mon <=> on)
<1> TAKE f \in Fw, i \in VifIdx, on \in BOOLEAN
<1> TAKE r \in BssPm(f, i, on)
<1> DEFINE g == [f EXCEPT !.mon = IF on THEN @ \cup {i} ELSE @ \ {i}]
<1>1. g \in Fw /\ g.faults = f.faults /\ g.dirty = f.dirty
  BY DEF Fw
<1>2. /\ g.bss = f.bss /\ g.dev = f.dev /\ g.rec = f.rec /\ g.key = f.key /\ g.ba = f.ba
      /\ g.mon = IF on THEN f.mon \cup {i} ELSE f.mon \ {i}
  BY DEF Fw
<1>3. r \in Send(f, <<"mon", i>>, g)
  BY Zenon DEF BssPm
<1> HIDE DEF g
<1>4. VifSide(f, g, i)
  BY <1>1, <1>2 DEF VifSide, SameVif, SameRec
<1>5. /\ VifSide(f, r, i)
      /\ \A l \in VifKeys : l # "mon" => (<<l, i>> \in r.dirty <=> <<l, i>> \in f.dirty)
      /\ r.err => <<"mon", i>> \in r.dirty /\ SameTables(f, r)
      /\ ~r.err => <<"mon", i>> \notin r.dirty /\ SameTables(g, r)
  <2>1. "mon" \in VifKeys
    BY DEF VifKeys
  <2> QED BY <1>1, <1>3, <1>4, <2>1, VifSendIs, Zenon
<1> QED BY <1>2, <1>5 DEF VifKeys, SameTables

\* A repeated command sets its entry to what it is.
LEMMA SendAgain ==
  \A f \in Fw, i \in VifIdx, k \in VifKeys : \A r \in Send(f, <<k, i>>, f) :
    /\ VifSide(f, r, i) /\ SameTables(f, r)
    /\ \A l \in VifKeys : l # k => (<<l, i>> \in r.dirty <=> <<l, i>> \in f.dirty)
    /\ r.err <=> <<k, i>> \in r.dirty
<1> TAKE f \in Fw, i \in VifIdx, k \in VifKeys
<1> TAKE r \in Send(f, <<k, i>>, f)
<1>1. VifSide(f, f, i)
  BY DEF VifSide, SameVif, SameRec
<1> QED BY <1>1, VifSendIs

\* Without the marks, a command does all or nothing.
LEMMA UnmarkedIs ==
  ASSUME NEW f \in Fw, NEW g \in Fw, NEW S,
         \A q \in S : q \in Fw /\ (SameTables(f, q) \/ SameTables(g, q))
  PROVE  \A r \in Unmarked(f, S) :
           r \in Fw /\ r.dirty = f.dirty /\ (SameTables(f, r) \/ SameTables(g, r))
<1> TAKE r \in Unmarked(f, S)
<1>1. PICK q \in S : r = [q EXCEPT !.dirty = f.dirty]
  BY DEF Unmarked
<1>2. q \in Fw /\ (SameTables(f, q) \/ SameTables(g, q))
  BY <1>1
<1> QED BY <1>1, <1>2 DEF Fw, SameTables

LEMMA OwnRecDoes ==
  \A f \in Fw, i \in VifIdx : \A r \in OwnRec(f, i) :
    VifSide(f, r, i) /\ SameTables(f, r) /\ r.dirty = f.dirty
<1> TAKE f \in Fw, i \in VifIdx
<1> TAKE r \in OwnRec(f, i)
<1>1. <<"own", i>> \in Keys
  BY DEF Keys
<1>2. \A q \in Answers(f, <<"own", i>>, f) : q \in Fw /\ SameTables(f, q)
  BY <1>1, AnswersAre DEF Outcome
<1>3. r \in Unmarked(f, Answers(f, <<"own", i>>, f))
  BY Zenon DEF OwnRec
<1>4. r \in Fw /\ r.dirty = f.dirty /\ SameTables(f, r)
  BY <1>2, <1>3, UnmarkedIs
<1> QED BY <1>4 DEF VifSide, SameVif, SameRec, SameTables

\* Device first, then the BSS, which is left as it was or is idle.
LEMMA UniAddDevDoes ==
  \A f \in Fw, i \in VifIdx : \A r \in UniAddDev(f, i, TRUE) :
    /\ VifSide(f, r, i) /\ r.mon = f.mon
    /\ <<"mon", i>> \in r.dirty <=> <<"mon", i>> \in f.dirty
    /\ <<"dev", i>> \notin r.dirty => i \in r.dev
    /\ \/ /\ r.bss[i] = f.bss[i]
          /\ <<"bss", i>> \in r.dirty <=> <<"bss", i>> \in f.dirty
       \/ <<"bss", i>> \in r.dirty
       \/ r.bss[i] = "idle"
    /\ ~r.err => {<<"dev", i>>, <<"bss", i>>} \cap r.dirty = {} /\ r.bss[i] = "idle"
<1> TAKE f \in Fw, i \in VifIdx
<1> TAKE r \in UniAddDev(f, i, TRUE)
<1>1. PICK g \in DevInfo(f, i, TRUE) : IF g.err THEN r = g ELSE r \in BssState(g, i, "idle")
  BY DEF UniAddDev, IfOk
<1>2. /\ VifSide(f, g, i) /\ g.bss = f.bss /\ g.mon = f.mon
      /\ \A l \in {"bss", "mon"} : <<l, i>> \in g.dirty <=> <<l, i>> \in f.dirty
      /\ g.err => <<"dev", i>> \in g.dirty
      /\ ~g.err => <<"dev", i>> \notin g.dirty /\ i \in g.dev
  BY DevInfoDoes
<1>3. CASE g.err
  BY <1>1, <1>2, <1>3
<1>4. CASE ~g.err
  <2>1. g \in Fw /\ r \in BssState(g, i, "idle") /\ "idle" \in BssStates
    BY <1>1, <1>2, <1>4 DEF VifSide, BssStates
  <2>2. /\ VifSide(g, r, i) /\ r.dev = g.dev /\ r.mon = g.mon
        /\ \A l \in {"dev", "mon"} : <<l, i>> \in r.dirty <=> <<l, i>> \in g.dirty
        /\ r.err => <<"bss", i>> \in r.dirty
        /\ ~r.err => <<"bss", i>> \notin r.dirty /\ r.bss[i] = "idle"
    BY <2>1, BssStateDoes
  <2>3. VifSide(f, r, i)
    BY <1>2, <2>1, <2>2, SidesAreTransitive DEF VifSide
  <2> QED BY <1>2, <1>4, <2>2, <2>3
<1> QED BY <1>3, <1>4

LEMMA UniRemoveDevDoes ==
  \A f \in Fw, i \in VifIdx : \A r \in UniAddDev(f, i, FALSE) :
    /\ VifSide(f, r, i) /\ r.mon = f.mon
    /\ <<"mon", i>> \in r.dirty <=> <<"mon", i>> \in f.dirty
<1> TAKE f \in Fw, i \in VifIdx
<1> TAKE r \in UniAddDev(f, i, FALSE)
<1>1. PICK g \in BssState(f, i, "off") : IF g.err THEN r = g ELSE r \in DevInfo(g, i, FALSE)
  BY DEF UniAddDev, IfOk
<1>2. /\ VifSide(f, g, i) /\ g.mon = f.mon
      /\ \A l \in {"dev", "mon"} : <<l, i>> \in g.dirty <=> <<l, i>> \in f.dirty
  <2>1. "off" \in BssStates
    BY DEF BssStates
  <2> QED BY <2>1, BssStateDoes, Zenon
<1>3. CASE g.err
  BY <1>1, <1>2, <1>3
<1>4. CASE ~g.err
  <2>1. g \in Fw /\ r \in DevInfo(g, i, FALSE)
    BY <1>1, <1>2, <1>4 DEF VifSide
  <2>2. /\ VifSide(g, r, i) /\ r.mon = g.mon
        /\ <<"mon", i>> \in r.dirty <=> <<"mon", i>> \in g.dirty
    BY <2>1, DevInfoDoes
  <2>3. VifSide(f, r, i)
    BY <1>2, <2>1, <2>2, SidesAreTransitive DEF VifSide
  <2> QED BY <1>2, <2>2, <2>3
<1> QED BY <1>3, <1>4

\* What the BSS of v is after uni_add_bss.
BssAfter(v, on) == IF on THEN "up" ELSE IF v \in APs THEN "off" ELSE "idle"

LEMMA UniAddBssDoes ==
  \A f \in Fw, i \in VifIdx, v \in Vifs, on \in BOOLEAN : \A r \in UniAddBss(f, v, i, on) :
    /\ VifSide(f, r, i) /\ r.dev = f.dev /\ r.mon = f.mon
    /\ \A l \in {"dev", "mon"} : <<l, i>> \in r.dirty <=> <<l, i>> \in f.dirty
    /\ <<"bss", i>> \notin r.dirty => r.bss[i] = BssAfter(v, on)
    /\ r.err <=> <<"bss", i>> \in r.dirty
<1> TAKE f \in Fw, i \in VifIdx, v \in Vifs, on \in BOOLEAN
<1> TAKE r \in UniAddBss(f, v, i, on)
<1>0. BssAfter(v, on) \in BssStates
  BY DEF BssAfter, BssStates
<1>1. PICK g \in BssState(f, i, BssAfter(v, on)) : IF g.err THEN r = g ELSE r \in BssParams(g, i)
  <2>1. r \in IfOk(BssState(f, i, BssAfter(v, on)), LAMBDA g : BssParams(g, i))
    BY Zenon DEF UniAddBss, BssAfter
  <2> QED BY <2>1 DEF IfOk
<1>2. /\ VifSide(f, g, i) /\ g.dev = f.dev /\ g.mon = f.mon
      /\ \A l \in {"dev", "mon"} : <<l, i>> \in g.dirty <=> <<l, i>> \in f.dirty
      /\ g.err => <<"bss", i>> \in g.dirty
      /\ ~g.err => <<"bss", i>> \notin g.dirty /\ g.bss[i] = BssAfter(v, on)
  BY <1>0, BssStateDoes
<1>3. CASE g.err
  BY <1>1, <1>2, <1>3
<1>4. CASE ~g.err
  <2>1. g \in Fw /\ r \in Send(g, <<"bss", i>>, g) /\ "bss" \in VifKeys
    BY <1>1, <1>2, <1>4 DEF VifSide, BssParams, VifKeys
  <2>2. /\ VifSide(g, r, i) /\ SameTables(g, r)
        /\ \A l \in VifKeys : l # "bss" => (<<l, i>> \in r.dirty <=> <<l, i>> \in g.dirty)
        /\ r.err <=> <<"bss", i>> \in r.dirty
    BY <2>1, SendAgain, Zenon
  <2>3. VifSide(f, r, i)
    BY <1>2, <2>1, <2>2, SidesAreTransitive DEF VifSide
  <2> QED BY <1>2, <1>4, <2>2, <2>3 DEF SameTables, VifKeys
<1> QED BY <1>3, <1>4

LEMMA BeaconFilterDoes ==
  \A f \in Fw, i \in VifIdx, on \in BOOLEAN : \A r \in BeaconFilter(f, i, on) :
    /\ VifSide(f, r, i) /\ r.dev = f.dev /\ r.bss = f.bss
    /\ \A l \in {"dev", "bss"} : <<l, i>> \in r.dirty <=> <<l, i>> \in f.dirty
    /\ <<"mon", i>> \notin r.dirty => (i \in r.mon <=> on)
<1> TAKE f \in Fw, i \in VifIdx, on \in BOOLEAN
<1> TAKE r \in BeaconFilter(f, i, on)
<1>1. PICK g \in BssPm(f, i, on) : IF g.err THEN r = g ELSE r \in Send(g, <<"mon", i>>, g)
  BY DEF BeaconFilter, IfOk
<1>2. /\ VifSide(f, g, i) /\ g.dev = f.dev /\ g.bss = f.bss
      /\ \A l \in {"dev", "bss"} : <<l, i>> \in g.dirty <=> <<l, i>> \in f.dirty
      /\ g.err => <<"mon", i>> \in g.dirty
      /\ ~g.err => <<"mon", i>> \notin g.dirty /\ (i \in g.mon <=> on)
  BY BssPmDoes
<1>3. CASE g.err
  BY <1>1, <1>2, <1>3
<1>4. CASE ~g.err
  <2>1. g \in Fw /\ r \in Send(g, <<"mon", i>>, g) /\ "mon" \in VifKeys
    BY <1>1, <1>2, <1>4 DEF VifSide, VifKeys
  <2>2. /\ VifSide(g, r, i) /\ SameTables(g, r)
        /\ \A l \in VifKeys : l # "mon" => (<<l, i>> \in r.dirty <=> <<l, i>> \in g.dirty)
        /\ r.err => <<"mon", i>> \in r.dirty
    BY <2>1, SendAgain, Zenon
  <2>3. VifSide(f, r, i)
    BY <1>2, <2>1, <2>2, SidesAreTransitive DEF VifSide
  <2> QED BY <1>2, <1>4, <2>2, <2>3 DEF SameTables, VifKeys
<1> QED BY <1>3, <1>4

-----------------------------------------------------------------------------
(* Commands about a peer's entry.                                           *)

\* A command with the key k of an entry that the firmware has; of one it has not
\* the command changes nothing, or fails.
LEMMA KnownIs ==
  \A f, g \in Fw, i \in StaIdx, k \in StaKeys :
    g.faults = f.faults /\ g.dirty = f.dirty /\ StaSide(f, g, i) =>
      \A r \in Known(f, i, <<k, i>>, g) :
        /\ StaSide(f, r, i)
        /\ \A l \in StaKeys : l # k => (<<l, i>> \in r.dirty <=> <<l, i>> \in f.dirty)
        /\ r.err => <<k, i>> \in r.dirty /\ SameTables(f, r)
        /\ ~r.err /\ f.rec[i] = None => SameTables(f, r) /\ r.dirty = f.dirty
        /\ ~r.err /\ f.rec[i] # None => SameTables(g, r) /\ <<k, i>> \notin r.dirty
<1> TAKE f, g \in Fw, i \in StaIdx, k \in StaKeys
<1> HAVE g.faults = f.faults /\ g.dirty = f.dirty /\ StaSide(f, g, i)
<1> TAKE r \in Known(f, i, <<k, i>>, g)
<1>1. <<k, i>> \in Keys
  BY DEF Keys
<1>2. /\ r \in Fw
      /\ r.dirty \in {f.dirty, f.dirty \cup {<<k, i>>}, f.dirty \ {<<k, i>>}}
      /\ SameTables(f, r) \/ SameTables(g, r)
      /\ r.err => r.dirty = f.dirty \cup {<<k, i>>} /\ SameTables(f, r)
      /\ ~r.err /\ f.rec[i] = None => SameTables(f, r) /\ r.dirty = f.dirty
      /\ ~r.err /\ f.rec[i] # None => SameTables(g, r) /\ r.dirty = f.dirty \ {<<k, i>>}
  <2>1. CASE f.rec[i] = None
    <3>1. r \in Answers(f, <<k, i>>, f)
      BY <2>1 DEF Known
    <3>2. Outcome(f, <<k, i>>, f, r)
      BY <1>1, <3>1, AnswersAre
    <3> QED BY <2>1, <3>2 DEF Outcome
  <2>2. CASE f.rec[i] # None
    <3>1. r \in Send(f, <<k, i>>, g)
      BY <2>2 DEF Known
    <3>2. /\ r \in Fw
          /\ \/ r.err /\ SameTables(f, r) /\ r.dirty = f.dirty \cup {<<k, i>>}
             \/ ~r.err /\ SameTables(g, r) /\ r.dirty = g.dirty \ {<<k, i>>}
      BY <1>1, <3>1, SendIs
    <3> QED BY <2>2, <3>2
  <2> QED BY <2>1, <2>2
<1>3. \A l, j : <<l, j>> # <<k, i>> => (<<l, j>> \in r.dirty <=> <<l, j>> \in f.dirty)
  BY <1>2
<1>4. \A j \in VifIdx : SameVif(f, r, j)
  <2>1. \A l \in VifKeys : l # k
    BY DEF StaKeys, VifKeys
  <2>2. \A j \in VifIdx, l \in VifKeys : <<l, j>> \in r.dirty <=> <<l, j>> \in f.dirty
    BY <1>3, <2>1
  <2> QED BY <1>2, <2>2 DEF StaSide, SameVif, SameTables
<1>5. \A j \in StaIdx : j # i => SameRec(f, r, j)
  <2>1. \A j \in StaIdx, l \in StaKeys :
          j # i => (<<l, j>> \in r.dirty <=> <<l, j>> \in f.dirty)
    BY <1>3
  <2> QED BY <1>2, <2>1 DEF StaSide, SameRec, SameTables
<1>6. \A l \in StaKeys : l # k => (<<l, i>> \in r.dirty <=> <<l, i>> \in f.dirty)
  BY <1>3
<1> QED BY <1>2, <1>4, <1>5, <1>6 DEF StaSide

\* A new record, or none: keys and sessions of the entry go with it.
LEMMA StaCmdSets ==
  \A f \in Fw, i \in StaIdx, s \in Stas, enable, newly \in BOOLEAN :
    newly \/ ~enable => \A r \in StaCmd(f, i, s, enable, newly) :
      /\ StaSide(f, r, i)
      /\ ~r.err /\ enable =>
           /\ r.rec[i] = s /\ i \notin r.ba
           /\ \A t \in Stas : <<i, t>> \notin r.key
<1> TAKE f \in Fw, i \in StaIdx, s \in Stas, enable, newly \in BOOLEAN
<1> HAVE newly \/ ~enable
<1> TAKE r \in StaCmd(f, i, s, enable, newly)
<1> DEFINE clean == [f EXCEPT !.rec[i] = IF enable THEN s ELSE None,
                              !.key = @ \ {k \in @ : k[1] = i}, !.ba = @ \ {i}]
           g == [clean EXCEPT !.dirty = @ \ {<<"ba", i>>}]
<1>1. /\ clean \in Fw /\ clean.faults = f.faults /\ clean.dirty = f.dirty
      /\ clean.dev = f.dev /\ clean.bss = f.bss /\ clean.mon = f.mon
      /\ clean.rec = [f.rec EXCEPT ![i] = IF enable THEN s ELSE None]
      /\ clean.key = f.key \ {k \in f.key : k[1] = i}
      /\ clean.ba = f.ba \ {i}
  BY DEF Fw
<1>2. r \in Send(f, <<"rec", i>>, g)
  BY Zenon DEF StaCmd
<1> HIDE DEF clean
<1>3. /\ g \in Fw /\ g.faults = f.faults /\ SameTables(clean, g)
      /\ g.dirty = f.dirty \ {<<"ba", i>>}
  BY <1>1 DEF Fw, SameTables
<1> HIDE DEF g
<1>4. <<"rec", i>> \in Keys
  BY DEF Keys, StaKeys
<1>5. /\ r \in Fw
      /\ \/ r.err /\ SameTables(f, r) /\ r.dirty = f.dirty \cup {<<"rec", i>>}
         \/ ~r.err /\ SameTables(g, r) /\ r.dirty = g.dirty \ {<<"rec", i>>}
  BY <1>2, <1>3, <1>4, SendIs
<1>6. \A l, j : <<l, j>> \notin {<<"rec", i>>, <<"ba", i>>} =>
                  (<<l, j>> \in r.dirty <=> <<l, j>> \in f.dirty)
  BY <1>3, <1>5
<1>7. \A j \in VifIdx : SameVif(f, r, j)
  <2>1. \A j \in VifIdx, l \in VifKeys : <<l, j>> \in r.dirty <=> <<l, j>> \in f.dirty
    BY <1>6 DEF VifKeys
  <2> QED BY <1>1, <1>3, <1>5, <2>1 DEF SameVif, SameTables
<1>8. \A j \in StaIdx : j # i => SameRec(f, r, j)
  <2>1. \A j \in StaIdx, l \in StaKeys :
          j # i => (<<l, j>> \in r.dirty <=> <<l, j>> \in f.dirty)
    BY <1>6
  <2>2. \A j \in StaIdx : j # i =>
          /\ clean.rec[j] = f.rec[j] /\ (j \in clean.ba <=> j \in f.ba)
          /\ \A t \in Stas : <<j, t>> \in clean.key <=> <<j, t>> \in f.key
    BY <1>1 DEF Fw
  <2> QED BY <1>3, <1>5, <2>1, <2>2 DEF SameRec, SameTables
<1>9. ~r.err /\ enable =>
        /\ r.rec[i] = s /\ i \notin r.ba
        /\ \A t \in Stas : <<i, t>> \notin r.key
  <2>1. enable => clean.rec[i] = s
    BY <1>1 DEF Fw
  <2>2. \A t \in Stas : <<i, t>> \notin clean.key
    BY <1>1
  <2>3. i \notin clean.ba
    BY <1>1
  <2>4. ~r.err => r.rec = clean.rec /\ r.key = clean.key /\ r.ba = clean.ba
    BY <1>3, <1>5, Zenon DEF SameTables
  <2> QED BY <2>1, <2>2, <2>3, <2>4
<1> QED BY <1>5, <1>7, <1>8, <1>9 DEF StaSide

\* A record that is updated keeps what it is; one that is not there is not set.
LEMMA StaCmdUpdates ==
  \A f \in Fw, i \in StaIdx, s \in Stas : \A r \in StaCmd(f, i, s, TRUE, FALSE) :
    /\ StaSide(f, r, i) /\ SameTables(f, r)
    /\ <<"ba", i>> \in r.dirty <=> <<"ba", i>> \in f.dirty
    /\ <<"rec", i>> \notin r.dirty => <<"rec", i>> \notin f.dirty \/ f.rec[i] # None
<1> TAKE f \in Fw, i \in StaIdx, s \in Stas
<1> TAKE r \in StaCmd(f, i, s, TRUE, FALSE)
<1>1. r \in Known(f, i, <<"rec", i>>, f) /\ "rec" \in StaKeys /\ StaSide(f, f, i)
  BY Zenon DEF StaCmd, StaKeys, StaSide, SameVif, SameRec
<1>2. /\ StaSide(f, r, i)
      /\ \A l \in StaKeys : l # "rec" => (<<l, i>> \in r.dirty <=> <<l, i>> \in f.dirty)
      /\ r.err => <<"rec", i>> \in r.dirty /\ SameTables(f, r)
      /\ ~r.err /\ f.rec[i] = None => SameTables(f, r) /\ r.dirty = f.dirty
      /\ ~r.err /\ f.rec[i] # None => SameTables(f, r) /\ <<"rec", i>> \notin r.dirty
  BY <1>1, KnownIs, Zenon
<1> QED BY <1>2 DEF StaKeys

LEMMA AddKeyDoes ==
  \A f \in Fw, i \in StaIdx, s \in Stas : \A r \in AddKey(f, i, s) :
    /\ StaSide(f, r, i) /\ r.rec = f.rec /\ r.ba = f.ba
    /\ r.key \in {f.key, f.key \cup {<<i, s>>}}
    /\ r.dirty = f.dirty
<1> TAKE f \in Fw, i \in StaIdx, s \in Stas
<1> TAKE r \in AddKey(f, i, s)
<1> DEFINE g == [f EXCEPT !.key = @ \cup {<<i, s>>}]
           S == Known(f, i, <<"key", i>>, g)
<1>1. g \in Fw /\ g.faults = f.faults
  BY DEF Fw
<1>2. /\ g.dev = f.dev /\ g.bss = f.bss /\ g.mon = f.mon /\ g.rec = f.rec /\ g.ba = f.ba
      /\ g.key = f.key \cup {<<i, s>>}
  BY DEF Fw
<1>3. r \in Unmarked(f, S)
  BY Zenon DEF AddKey
<1> HIDE DEF g
<1>4. <<"key", i>> \in Keys
  BY DEF Keys
<1>5. \A q \in S : q \in Fw /\ (SameTables(f, q) \/ SameTables(g, q))
  <2> TAKE q \in S
  <2>1. CASE f.rec[i] = None
    BY <1>4, <2>1, AnswersAre DEF Known, Outcome
  <2>2. CASE f.rec[i] # None
    BY <1>1, <1>4, <2>2, SendIs DEF Known
  <2> QED BY <2>1, <2>2
<1> HIDE DEF S
<1>6. r \in Fw /\ r.dirty = f.dirty /\ (SameTables(f, r) \/ SameTables(g, r))
  BY <1>1, <1>3, <1>5, UnmarkedIs
<1>7. /\ r.dev = f.dev /\ r.bss = f.bss /\ r.mon = f.mon /\ r.rec = f.rec /\ r.ba = f.ba
      /\ r.key \in {f.key, f.key \cup {<<i, s>>}}
  BY <1>2, <1>6 DEF SameTables
<1> QED BY <1>6, <1>7 DEF StaSide, SameVif, SameRec

\* Two commands about the session, the second with its effect.
LEMMA StaBaDoes ==
  \A f \in Fw, i \in StaIdx, on \in BOOLEAN : \A r \in StaBa(f, i, on) :
    /\ StaSide(f, r, i) /\ r.rec = f.rec /\ r.key = f.key
    /\ <<"rec", i>> \in r.dirty <=> <<"rec", i>> \in f.dirty
    /\ f.rec[i] # None /\ <<"ba", i>> \notin r.dirty => (i \in r.ba <=> on)
<1> TAKE f \in Fw, i \in StaIdx, on \in BOOLEAN
<1> TAKE r \in StaBa(f, i, on)
<1> DEFINE set(h) == [h EXCEPT !.ba = IF on THEN @ \cup {i} ELSE @ \ {i}]
<1>0. "ba" \in StaKeys /\ "rec" \in StaKeys /\ "ba" # "rec" /\ StaSide(f, f, i)
  BY Zenon DEF StaKeys, StaSide, SameVif, SameRec
<1>1. r \in IfOk(Known(f, i, <<"ba", i>>, f), LAMBDA h : Known(h, i, <<"ba", i>>, set(h)))
  BY Zenon DEF StaBa
<1>2. PICK h \in Known(f, i, <<"ba", i>>, f) :
             IF h.err THEN r = h ELSE r \in Known(h, i, <<"ba", i>>, set(h))
  BY <1>1 DEF IfOk
<1>3. /\ StaSide(f, h, i)
      /\ \A l \in StaKeys : l # "ba" => (<<l, i>> \in h.dirty <=> <<l, i>> \in f.dirty)
      /\ h.err => <<"ba", i>> \in h.dirty /\ SameTables(f, h)
      /\ ~h.err /\ f.rec[i] = None => SameTables(f, h) /\ h.dirty = f.dirty
      /\ ~h.err /\ f.rec[i] # None => SameTables(f, h) /\ <<"ba", i>> \notin h.dirty
  BY <1>0, KnownIs, Zenon
<1>4. h \in Fw /\ SameTables(f, h)
  BY <1>3 DEF StaSide
<1>5. CASE h.err
  BY <1>0, <1>2, <1>3, <1>4, <1>5 DEF SameTables
<1>6. CASE ~h.err
  <2> DEFINE g == set(h)
  <2>1. g \in Fw /\ g.faults = h.faults /\ g.dirty = h.dirty
    BY <1>4 DEF Fw
  <2>2. /\ g.dev = h.dev /\ g.bss = h.bss /\ g.mon = h.mon /\ g.rec = h.rec /\ g.key = h.key
        /\ g.ba = IF on THEN h.ba \cup {i} ELSE h.ba \ {i}
    BY <1>4 DEF Fw
  <2>3. r \in Known(h, i, <<"ba", i>>, g)
    BY <1>2, <1>6
  <2> HIDE DEF g
  <2>4. StaSide(h, g, i)
    BY <1>4, <2>1, <2>2 DEF StaSide, SameVif, SameRec
  <2>5. /\ StaSide(h, r, i)
        /\ \A l \in StaKeys : l # "ba" => (<<l, i>> \in r.dirty <=> <<l, i>> \in h.dirty)
        /\ r.err => <<"ba", i>> \in r.dirty /\ SameTables(h, r)
        /\ ~r.err /\ h.rec[i] = None => SameTables(h, r) /\ r.dirty = h.dirty
        /\ ~r.err /\ h.rec[i] # None => SameTables(g, r) /\ <<"ba", i>> \notin r.dirty
    BY <1>0, <1>4, <2>1, <2>3, <2>4, KnownIs, Zenon
  <2>6. StaSide(f, r, i)
    BY <1>3, <1>4, <2>5, SidesAreTransitive DEF StaSide
  <2>7. r.rec = f.rec /\ r.key = f.key
    <3>1. SameTables(h, r) \/ SameTables(g, r)
      BY <2>5
    <3> QED BY <1>4, <2>2, <3>1 DEF SameTables
  <2>8. <<"rec", i>> \in r.dirty <=> <<"rec", i>> \in f.dirty
    BY <1>0, <1>3, <2>5
  <2>9. f.rec[i] # None /\ <<"ba", i>> \notin r.dirty => (i \in r.ba <=> on)
    <3> HAVE f.rec[i] # None /\ <<"ba", i>> \notin r.dirty
    <3>1. r.ba = g.ba
      BY <1>4, <2>5 DEF SameTables
    <3> QED BY <2>2, <3>1
  <2> QED BY <2>6, <2>7, <2>8, <2>9
<1> QED BY <1>5, <1>6

-----------------------------------------------------------------------------
(* The driver's side.                                                       *)

LEMMA IndexFacts ==
  /\ VifIdx \subseteq Nat /\ StaIdx \subseteq Nat /\ 0 \in VifIdx
  /\ \A i \in VifIdx : Reserved - i \in Wcids /\ Reserved - i \notin StaIdx
  /\ \A i, j \in VifIdx : i # j => Reserved - i # Reserved - j
  /\ StaIdx \subseteq Wcids
  BY FwAssumption DEF VifIdx, StaIdx, Reserved, Wcids

\* Every non-empty set of natural numbers has a least element.
LEMMA LeastIsIn ==
  ASSUME NEW S, S \subseteq Nat, S # {}
  PROVE  Least(S) \in S
<1> DEFINE R == StrictSubsetOrdering(Nat)
           T == {0 .. k : k \in S}
<1>1. IsWellFoundedOn(R, FiniteSubsetsOf(Nat))
  BY FS_StrictSubsetOrderingWellFounded
<1>2. \A k \in S : 0 .. k \subseteq Nat /\ IsFiniteSet(0 .. k)
  BY FS_Interval
<1>3. T \subseteq FiniteSubsetsOf(Nat) /\ T # {}
  BY <1>2 DEF FiniteSubsetsOf
<1>4. \E x \in T : \A y \in T : ~(<<y, x>> \in R)
  <2> HIDE DEF R, T
  <2> QED BY <1>1, <1>3, WFMin
<1>5. PICK m \in S : \A k \in S : ~(<<0 .. k, 0 .. m>> \in R)
  BY <1>4
<1>6. ASSUME NEW k \in S, ~(m <= k) PROVE FALSE
  <2>1. k \in Nat /\ m \in Nat /\ k < m
    BY <1>6
  <2>2. 0 .. k \subseteq 0 .. m /\ m \in 0 .. m /\ m \notin 0 .. k
    BY <2>1
  <2>3. <<0 .. k, 0 .. m>> \in R
    BY <1>2, <2>2 DEF StrictSubsetOrdering
  <2> QED BY <1>5, <2>3
<1>7. \E i \in S : \A j \in S : i <= j
  BY <1>6
<1> QED BY <1>7 DEF Least

\* An interface gets an index, and the entry of that index, that no other has.
LEMMA AddInterfaceDriver ==
  ASSUME DriverInv, NEW v \in Vifs, AddInterface(v)
  PROVE  DriverInv'
<1> DEFINE free == VifIdx \ {vif[u].idx : u \in {w \in Vifs : vif[w].up}}
           i == Least(free)
<1>1. i \in free
  <2>1. free \subseteq Nat /\ free # {}
    BY IndexFacts DEF AddInterface
  <2> HIDE DEF free
  <2> QED BY <2>1, LeastIsIn
<1>2. i \in VifIdx /\ \A u \in Vifs : vif[u].up => vif[u].idx # i
  BY <1>1
<1>3. /\ ~vif[v].up /\ UNCHANGED <<sta, mask, rst, disc, wiped>>
      /\ \/ UNCHANGED <<vif, wcid>>
         \/ /\ vif' = [vif EXCEPT ![v] = [NoVif EXCEPT !.up = TRUE, !.idx = i]]
            /\ wcid' = [wcid EXCEPT ![Reserved - i] = v]
  BY DEF AddInterface
<1> HIDE DEF i
<1>4. CASE UNCHANGED <<vif, wcid>>
  BY <1>3, <1>4 DEF DriverInv, DriverType, VifType, StaType, IndicesOwned, PeersInOrder, WipedPeersGo, Live,
     IsUp
<1>5. CASE /\ vif' = [vif EXCEPT ![v] = [NoVif EXCEPT !.up = TRUE, !.idx = i]]
           /\ wcid' = [wcid EXCEPT ![Reserved - i] = v]
  <2>1. /\ vif'[v].up /\ vif'[v].idx = i /\ ~vif'[v].assoc /\ ~vif'[v].tear
        /\ \A u \in Vifs : u # v => vif'[u] = vif[u]
        /\ VifType'
    BY <1>2, <1>5 DEF DriverInv, DriverType, VifType, StaType, NoVif
  <2>2. /\ wcid'[Reserved - i] = v
        /\ \A j \in Wcids : j # Reserved - i => wcid'[j] = wcid[j]
        /\ wcid' \in [Wcids -> Vifs \cup Stas \cup {None}]
    BY <1>2, <1>5, IndexFacts DEF DriverInv, DriverType, VifType, StaType
  <2>3. DriverType'
    BY <1>3, <2>1, <2>2 DEF DriverInv, DriverType, VifType, StaType
  <2>4. Live' = Live /\ \A s \in Live : Home[s] # v
    BY <1>3, FwAssumption DEF Live, DriverInv, PeersInOrder, IsUp
  <2>5. \A j \in StaIdx : wcid'[j] = wcid[j]
    BY <1>2, <2>2, IndexFacts
  <2>6. \A u \in Vifs : u # v /\ vif[u].up => wcid'[Reserved - vif[u].idx] = u
    <3> SUFFICES ASSUME NEW u \in Vifs, u # v, vif[u].up
                 PROVE wcid'[Reserved - vif[u].idx] = u
      OBVIOUS
    <3>1. vif[u].idx \in VifIdx /\ vif[u].idx # i /\ wcid[Reserved - vif[u].idx] = u
      BY <1>2 DEF DriverInv, DriverType, VifType, StaType, IndicesOwned
    <3> QED BY <1>2, <2>2, <3>1, IndexFacts
  <2>7. IndicesOwned'
    BY <1>2, <1>3, <2>1, <2>2, <2>4, <2>5, <2>6 DEF DriverInv, IndicesOwned
  <2>8. PeersInOrder'
    <3>1. \A s \in Live : vif'[Home[s]] = vif[Home[s]] /\ sta[s].idx \in StaIdx
      BY <2>1, <2>4, FwAssumption DEF Live, DriverInv, IndicesOwned
    <3>2. wiped \subseteq {s \in Live : sta[s].conn} /\ rst.left \subseteq {u \in Vifs : vif[u].up}
      BY DEF DriverInv, PeersInOrder, IsUp
    <3>3. rst.left \subseteq {u \in Vifs : vif'[u].up}
      BY <2>1, <3>2
    <3>4. \A u \in Vifs : vif'[u].tear => vif'[u].assoc /\ u \notin APs
      BY <2>1 DEF DriverInv, PeersInOrder
    <3> QED BY <1>3, <2>1, <2>4, <2>5, <3>1, <3>2, <3>3, <3>4 DEF DriverInv, PeersInOrder, IsUp
  <2>9. WipedPeersGo'
    <3>1. \A s \in wiped : s \in Live /\ Home[s] # v /\ Home[s] \in Vifs
      BY <2>4, FwAssumption DEF DriverInv, PeersInOrder, Live
    <3> QED BY <1>3, <2>1, <3>1 DEF DriverInv, WipedPeersGo
  <2> QED BY <2>3, <2>7, <2>8, <2>9 DEF DriverInv
<1> QED BY <1>3, <1>4, <1>5

\* The interface is put down with its entry: it has no peer and no request.
LEMMA RemoveInterfaceDriver ==
  ASSUME DriverInv, NEW v \in Vifs, RemoveInterface(v)
  PROVE  DriverInv'
<1> DEFINE i == vif[v].idx
<1>1. /\ vif[v].up /\ OfVif(v) = {} /\ UNCHANGED <<sta, mask, wiped>>
      /\ wcid' = [wcid EXCEPT ![Reserved - i] = None]
      /\ vif' = [vif EXCEPT ![v] = NoVif]
      /\ disc' = disc \ {v}
      /\ rst' = [rst EXCEPT !.left = @ \ {v}]
  BY DEF RemoveInterface
<1>2. i \in VifIdx
  BY DEF DriverInv, DriverType, VifType, StaType
<1>3. /\ ~vif'[v].up /\ ~vif'[v].assoc /\ ~vif'[v].tear
      /\ \A u \in Vifs : u # v => vif'[u] = vif[u]
      /\ VifType'
  BY <1>1, IndexFacts DEF DriverInv, DriverType, VifType, StaType, NoVif
<1> HIDE DEF i
<1>4. /\ \A j \in Wcids : j # Reserved - i => wcid'[j] = wcid[j]
      /\ wcid' \in [Wcids -> Vifs \cup Stas \cup {None}]
  BY <1>1, <1>2, IndexFacts DEF DriverInv, DriverType, VifType, StaType
<1>5. rst' \in [on : BOOLEAN, left : SUBSET Vifs] /\ rst'.left = rst.left \ {v}
  BY <1>1 DEF DriverInv, DriverType, VifType, StaType
<1>6. DriverType'
  BY <1>1, <1>3, <1>4, <1>5 DEF DriverInv, DriverType, VifType, StaType
<1>7. Live' = Live /\ \A s \in Live : Home[s] # v /\ Home[s] \in Vifs
  BY <1>1, FwAssumption DEF Live, OfVif
<1>8. \A j \in StaIdx : wcid'[j] = wcid[j]
  BY <1>2, <1>4, IndexFacts
<1>9. IndicesOwned'
  <2>1. \A u \in Vifs : u # v /\ vif[u].up => wcid'[Reserved - vif[u].idx] = u
    <3> SUFFICES ASSUME NEW u \in Vifs, u # v, vif[u].up
                 PROVE wcid'[Reserved - vif[u].idx] = u
      OBVIOUS
    <3>1. vif[u].idx \in VifIdx /\ vif[u].idx # i /\ wcid[Reserved - vif[u].idx] = u
      BY <1>1 DEF DriverInv, DriverType, VifType, StaType, IndicesOwned, i
    <3> QED BY <1>2, <1>4, <3>1, IndexFacts
  <2> QED BY <1>1, <1>3, <1>7, <1>8, <2>1 DEF DriverInv, IndicesOwned
<1>10. PeersInOrder'
  <2>1. \A s \in Live : vif'[Home[s]] = vif[Home[s]] /\ sta[s].idx \in StaIdx
    BY <1>3, <1>7 DEF DriverInv, IndicesOwned
  <2>2. rst'.left \subseteq {u \in Vifs : vif'[u].up}
    BY <1>3, <1>5 DEF DriverInv, PeersInOrder, IsUp
  <2>3. \A u \in Vifs : vif'[u].tear => vif'[u].assoc /\ u \notin APs
    BY <1>3 DEF DriverInv, PeersInOrder
  <2> QED BY <1>1, <1>7, <1>8, <2>1, <2>2, <2>3 DEF DriverInv, PeersInOrder, IsUp
<1>11. WipedPeersGo'
  <2>1. \A s \in wiped : s \in Live
    BY DEF DriverInv, PeersInOrder
  <2> QED BY <1>1, <1>3, <1>5, <1>7, <2>1 DEF DriverInv, WipedPeersGo
<1> QED BY <1>6, <1>9, <1>10, <1>11 DEF DriverInv

\* The peer gets an index that the mask says nobody has, and is published, or the
\* index is taken and nobody has it.
LEMMA StaAddDriver ==
  ASSUME DriverInv, NEW s \in Stas, StaAdd(s)
  PROVE  DriverInv'
<1> DEFINE v == Home[s]
           i == Least(FreeIdx)
<1>1. i \in FreeIdx
  <2>1. FreeIdx \subseteq Nat /\ FreeIdx # {}
    BY IndexFacts DEF StaAdd, FreeIdx
  <2> QED BY <2>1, LeastIsIn
<1>2. i \in StaIdx /\ i \notin mask
  BY <1>1 DEF FreeIdx
<1>3. /\ sta[s].st = "gone" /\ vif[v].up /\ v \in Vifs
      /\ s \in Tdls \/ v \in APs => vif[v].assoc
      /\ s \notin Tdls /\ v \notin APs => Peers(v) = {}
      /\ mask' = mask \cup {i}
      /\ UNCHANGED <<rst, disc, wiped>>
      /\ StaAddSends(s, i)
  BY FwAssumption DEF StaAdd
<1>a. vif' = vif \/ vif' = [vif EXCEPT ![v].wep = IF v \in APs THEN @ ELSE s]
  BY <1>3 DEF StaAddSends
<1>b. VifType
  BY DEF DriverInv, DriverType, VifType, StaType
<1>4. \A u \in Vifs : /\ vif'[u].up = vif[u].up /\ vif'[u].idx = vif[u].idx
                      /\ vif'[u].assoc = vif[u].assoc /\ vif'[u].tear = vif[u].tear
  BY <1>a, <1>b DEF VifType
<1>5. VifType'
  BY <1>3, <1>a, <1>b DEF VifType
<1>6. \/ UNCHANGED <<sta, wcid>>
      \/ /\ sta' = [sta EXCEPT ![s] = [NoSta EXCEPT !.st = "none", !.idx = i]]
         /\ wcid' = [wcid EXCEPT ![i] = s]
  BY <1>3 DEF StaAddSends
<1>7. mask' \subseteq {0} \cup StaIdx
  BY <1>2, <1>3 DEF DriverInv, DriverType, VifType, StaType
<1>8. s \notin Live
  BY <1>3 DEF Live
<1> HIDE DEF i
<1>9. CASE UNCHANGED <<sta, wcid>>
  <2>1. Live' = Live /\ \A t \in Live : Home[t] \in Vifs
    BY <1>9, FwAssumption DEF Live
  <2>2. DriverType'
    BY <1>3, <1>5, <1>7, <1>9 DEF DriverInv, DriverType, VifType, StaType
  <2>3. IndicesOwned'
    BY <1>3, <1>4, <1>9, <2>1 DEF DriverInv, IndicesOwned
  <2>4. PeersInOrder'
    BY <1>3, <1>4, <1>9, <2>1 DEF DriverInv, PeersInOrder, IsUp
  <2>5. WipedPeersGo'
    BY <1>3, <1>4, <1>9, FwAssumption DEF DriverInv, DriverType, VifType, StaType, WipedPeersGo
  <2> QED BY <2>2, <2>3, <2>4, <2>5 DEF DriverInv
<1>10. CASE /\ sta' = [sta EXCEPT ![s] = [NoSta EXCEPT !.st = "none", !.idx = i]]
            /\ wcid' = [wcid EXCEPT ![i] = s]
  <2>1. /\ sta'[s].st = "none" /\ sta'[s].idx = i /\ ~sta'[s].conn /\ ~sta'[s].ba
        /\ \A t \in Stas : t # s => sta'[t] = sta[t]
        /\ StaType'
    BY <1>2, <1>10 DEF DriverInv, DriverType, VifType, StaType, NoSta
  <2>2. /\ wcid'[i] = s /\ \A j \in Wcids : j # i => wcid'[j] = wcid[j]
        /\ wcid' \in [Wcids -> Vifs \cup Stas \cup {None}]
    BY <1>2, <1>10, IndexFacts DEF DriverInv, DriverType, VifType, StaType
  <2>3. DriverType'
    BY <1>3, <1>5, <1>7, <2>1, <2>2 DEF DriverInv, DriverType, VifType, StaType
  <2>4. Live' = Live \cup {s} /\ \A t \in Live' : Home[t] \in Vifs
    BY <2>1, FwAssumption DEF Live
  <2>5. \A t \in Live : t # s /\ sta'[t] = sta[t] /\ sta[t].idx # i /\ sta[t].idx \in StaIdx
                        /\ wcid'[sta[t].idx] = wcid[sta[t].idx]
    BY <1>2, <1>8, <2>1, <2>2, IndexFacts DEF DriverInv, IndicesOwned, Live
  <2>6. IndicesOwned'
    <3>1. \A t, u \in Live' : t # u => sta'[t].idx # sta'[u].idx
      BY <2>1, <2>4, <2>5 DEF DriverInv, IndicesOwned
    <3>2. \A t \in Live' : sta'[t].idx \in mask' /\ sta'[t].idx \in StaIdx
      BY <1>2, <1>3, <2>1, <2>4, <2>5 DEF DriverInv, IndicesOwned
    <3>3. \A j \in StaIdx : wcid'[j] # None => wcid'[j] \in Live' /\ sta'[wcid'[j]].idx = j
      BY <2>1, <2>2, <2>4, <2>5, IndexFacts DEF DriverInv, IndicesOwned
    <3>4. \A u \in Vifs : vif[u].up => wcid'[Reserved - vif[u].idx] = u
      <4> SUFFICES ASSUME NEW u \in Vifs, vif[u].up
                   PROVE wcid'[Reserved - vif[u].idx] = u
        OBVIOUS
      <4>1. vif[u].idx \in VifIdx /\ wcid[Reserved - vif[u].idx] = u
        BY DEF DriverInv, DriverType, VifType, StaType, IndicesOwned
      <4> QED BY <1>2, <2>2, <4>1, IndexFacts
    <3> QED BY <1>4, <3>1, <3>2, <3>3, <3>4 DEF DriverInv, IndicesOwned
  <2>7. PeersInOrder'
    <3>1. \A t, u \in Live' \ Tdls : Home[t] = Home[u] /\ Home[t] \notin APs => t = u
      <4>1. s \notin Tdls /\ v \notin APs => \A t \in Live \ Tdls : Home[t] # v
        BY <1>3 DEF Peers, OfVif, Live
      <4> QED BY <2>4, <4>1 DEF DriverInv, PeersInOrder
    <3>2. wiped' \subseteq {t \in Live' : sta'[t].conn}
      BY <1>3, <2>4, <2>5 DEF DriverInv, PeersInOrder
    <3>3. \A t \in Live :
            /\ IsUp(Home[t])'
            /\ t \in Tdls => vif'[Home[t]].assoc
            /\ sta'[t].st = "leaving" => wcid'[sta'[t].idx] = None
            /\ sta'[t].st = "assoc" => sta'[t].conn
            /\ sta'[t].conn /\ sta'[t].st # "assoc" /\ Home[t] \notin APs /\ t \notin Tdls =>
                 vif'[Home[t]].assoc
      BY <1>4, <2>4, <2>5 DEF DriverInv, PeersInOrder, IsUp
    <3>4. /\ IsUp(v)' /\ (s \in Tdls => vif'[v].assoc)
          /\ sta'[s].st = "none" /\ ~sta'[s].conn
      BY <1>3, <1>4, <2>1 DEF IsUp
    <3>5. /\ \A u \in Vifs : vif'[u].tear => vif'[u].assoc /\ u \notin APs
          /\ rst'.left \subseteq {u \in Vifs : IsUp(u)'}
      BY <1>3, <1>4 DEF DriverInv, PeersInOrder, IsUp
    <3> QED BY <2>4, <3>1, <3>2, <3>3, <3>4, <3>5 DEF PeersInOrder
  <2>8. WipedPeersGo'
    <3>1. \A t \in wiped : t \in Live /\ Home[t] \in Vifs /\ sta'[t] = sta[t]
      BY <2>4, <2>5 DEF DriverInv, PeersInOrder
    <3> QED BY <1>3, <1>4, <3>1 DEF DriverInv, WipedPeersGo
  <2> QED BY <2>3, <2>6, <2>7, <2>8 DEF DriverInv
<1> QED BY <1>6, <1>9, <1>10

\* Actions that change the state of one peer, which stays where it is, and what is
\* published of it.
LEMMA PeerMoves ==
  ASSUME DriverInv, NEW s \in Live,
         StaType', \A t \in Stas : t # s => sta'[t] = sta[t],
         sta'[s].idx = sta[s].idx, sta'[s].st # "gone", sta[s].conn => sta'[s].conn,
         sta'[s].st = "assoc" => sta'[s].conn,
         sta'[s].conn /\ sta'[s].st # "assoc" /\ Home[s] \notin APs /\ s \notin Tdls =>
           vif[Home[s]].assoc,
         sta'[s].st = "assoc" /\ s \in wiped /\ Home[s] \notin APs => sta[s].st = "assoc",
         sta'[s].st = "leaving" => wcid' = [wcid EXCEPT ![sta[s].idx] = None],
         sta'[s].st # "leaving" => wcid' = wcid,
         UNCHANGED <<vif, mask, rst, disc, wiped>>
  PROVE  DriverInv'
<1>1. s \in Stas /\ sta[s].idx \in StaIdx
  BY DEF DriverInv, IndicesOwned, Live
<1>3. /\ wcid' \in [Wcids -> Vifs \cup Stas \cup {None}]
      /\ \A j \in Wcids : j # sta[s].idx => wcid'[j] = wcid[j]
      /\ wcid'[sta[s].idx] \in {wcid[sta[s].idx], None}
      /\ sta'[s].st = "leaving" => wcid'[sta[s].idx] = None
  BY <1>1, IndexFacts DEF DriverInv, DriverType, VifType, StaType
<1>4. DriverType'
  BY <1>3 DEF DriverInv, DriverType, VifType, StaType
<1>5. Live' = Live
  BY <1>1 DEF Live, StaType
<1>6. \A t \in Live : sta'[t].idx = sta[t].idx /\ sta[t].idx \in StaIdx
                      /\ (t # s => sta[t].idx # sta[s].idx /\ sta'[t] = sta[t])
  BY DEF DriverInv, IndicesOwned, Live
<1>7. IndicesOwned'
  <2>1. \A j \in StaIdx : wcid'[j] # None => wcid'[j] \in Live /\ sta'[wcid'[j]].idx = j
    <3>1. \A j \in StaIdx : wcid'[j] # None => wcid'[j] = wcid[j]
      BY <1>3, IndexFacts
    <3> QED BY <1>6, <3>1 DEF DriverInv, IndicesOwned
  <2>2. \A u \in Vifs : vif[u].up => wcid'[Reserved - vif[u].idx] = u
    <3> SUFFICES ASSUME NEW u \in Vifs, vif[u].up
                 PROVE wcid'[Reserved - vif[u].idx] = u
      OBVIOUS
    <3>1. vif[u].idx \in VifIdx /\ wcid[Reserved - vif[u].idx] = u
      BY DEF DriverInv, DriverType, VifType, StaType, IndicesOwned
    <3> QED BY <1>1, <1>3, <3>1, IndexFacts
  <2> QED BY <1>5, <1>6, <2>1, <2>2 DEF DriverInv, IndicesOwned
<1>8. PeersInOrder'
  <2>1. \A t \in Live :
          /\ IsUp(Home[t])
          /\ t \in Tdls => vif[Home[t]].assoc
          /\ sta'[t].st = "leaving" => wcid'[sta'[t].idx] = None
          /\ sta'[t].st = "assoc" => sta'[t].conn
          /\ sta'[t].conn /\ sta'[t].st # "assoc" /\ Home[t] \notin APs /\ t \notin Tdls =>
               vif[Home[t]].assoc
    <3> TAKE t \in Live
    <3>1. CASE t = s
      BY <1>3, <3>1 DEF DriverInv, PeersInOrder
    <3>2. CASE t # s
      <4>1. sta'[t] = sta[t] /\ wcid'[sta[t].idx] = wcid[sta[t].idx]
        BY <1>3, <1>6, <3>2, IndexFacts
      <4> QED BY <4>1 DEF DriverInv, PeersInOrder
    <3> QED BY <3>1, <3>2
  <2>2. wiped \subseteq {t \in Live : sta'[t].conn}
    BY <1>6 DEF DriverInv, PeersInOrder
  <2> QED BY <1>5, <2>1, <2>2 DEF DriverInv, PeersInOrder, IsUp
<1>9. WipedPeersGo'
  BY DEF DriverInv, DriverType, VifType, StaType, WipedPeersGo
<1> QED BY <1>4, <1>7, <1>8, <1>9 DEF DriverInv

\* The callbacks of a peer that neither add nor remove it.
LEMMA PeerMovesDriver ==
  ASSUME DriverInv, NEW s \in Stas,
         \/ StaAssoc(s) \/ StaDisassoc(s) \/ PreRcuRemove(s)
         \/ AmpduRx(s, TRUE) \/ AmpduRx(s, FALSE)
  PROVE  DriverInv'
<1>1. StaType /\ (sta[s].st # "gone" => s \in Live)
  BY DEF DriverInv, DriverType, Live
<1>2. s \in wiped => sta[s].conn
  BY DEF DriverInv, PeersInOrder
<1>3. CASE StaAssoc(s)
  <2>1. /\ sta[s].st = "none" /\ (sta[s].conn => Home[s] \in APs)
        /\ sta' = [sta EXCEPT ![s].st = "assoc", ![s].conn = TRUE]
        /\ UNCHANGED <<vif, mask, wcid, rst, disc, wiped>>
    BY <1>3, Zenon DEF StaAssoc
  <2>2. /\ StaType' /\ sta'[s].st = "assoc" /\ sta'[s].conn /\ sta'[s].idx = sta[s].idx
        /\ \A t \in Stas : t # s => sta'[t] = sta[t]
    BY <1>1, <2>1 DEF StaType
  <2> QED BY <1>1, <1>2, <2>1, <2>2, PeerMoves
<1>4. CASE StaDisassoc(s)
  <2>1. /\ sta[s].st = "assoc" /\ vif[Home[s]].assoc
        /\ sta' = [sta EXCEPT ![s].st = "none"]
        /\ UNCHANGED <<vif, mask, wcid, rst, disc, wiped>>
    BY <1>4, Zenon DEF StaDisassoc
  <2>2. /\ StaType' /\ sta'[s].st = "none" /\ sta'[s].conn = sta[s].conn
        /\ sta'[s].idx = sta[s].idx
        /\ \A t \in Stas : t # s => sta'[t] = sta[t]
    BY <1>1, <2>1 DEF StaType
  <2> QED BY <1>1, <1>2, <2>1, <2>2, PeerMoves
<1>5. CASE PreRcuRemove(s)
  <2>1. /\ sta[s].st = "none" /\ wcid' = [wcid EXCEPT ![sta[s].idx] = None]
        /\ sta' = [sta EXCEPT ![s].st = "leaving"]
        /\ UNCHANGED <<vif, mask, rst, disc, wiped>>
    BY <1>5, Zenon DEF PreRcuRemove
  <2>2. /\ StaType' /\ sta'[s].st = "leaving" /\ sta'[s].conn = sta[s].conn
        /\ sta'[s].idx = sta[s].idx
        /\ \A t \in Stas : t # s => sta'[t] = sta[t]
    BY <1>1, <2>1 DEF StaType
  <2>3. sta[s].conn /\ Home[s] \notin APs /\ s \notin Tdls => vif[Home[s]].assoc
    BY <1>1, <2>1 DEF DriverInv, PeersInOrder
  <2> QED BY <1>1, <1>2, <2>1, <2>2, <2>3, PeerMoves
<1>6. ASSUME NEW on \in BOOLEAN, AmpduRx(s, on) PROVE DriverInv'
  <2>1. /\ sta[s].st = "assoc" /\ sta' = [sta EXCEPT ![s].ba = on]
        /\ UNCHANGED <<vif, mask, wcid, rst, disc, wiped>>
    BY <1>6, Zenon DEF AmpduRx
  <2>2. /\ StaType' /\ sta'[s].st = "assoc" /\ sta'[s].conn = sta[s].conn
        /\ sta'[s].idx = sta[s].idx
        /\ \A t \in Stas : t # s => sta'[t] = sta[t]
    BY <1>1, <2>1 DEF StaType
  <2>3. sta[s].conn
    BY <1>1, <2>1 DEF DriverInv, PeersInOrder
  <2> QED BY <1>1, <1>2, <2>1, <2>2, <2>3, PeerMoves
<1> QED BY <1>3, <1>4, <1>5, <1>6

\* The index of a peer is free only when nothing of it is left.
LEMMA StaRemoveDriver ==
  ASSUME DriverInv, NEW s \in Stas, StaRemove(s)
  PROVE  DriverInv'
<1> DEFINE v == Home[s]
           i == sta[s].idx
<1>1. /\ sta[s].st = "leaving" /\ s \in Live /\ v \in Vifs
      /\ vif' = [vif EXCEPT ![v].wep = IF v \in APs THEN @ ELSE None]
      /\ mask' = mask \ {i} /\ sta' = [sta EXCEPT ![s] = NoSta] /\ wiped' = wiped \ {s}
      /\ UNCHANGED <<wcid, rst, disc>>
  BY FwAssumption DEF StaRemove, Live
<1>2. /\ VifType'
      /\ \A u \in Vifs : /\ vif'[u].up = vif[u].up /\ vif'[u].idx = vif[u].idx
                         /\ vif'[u].assoc = vif[u].assoc /\ vif'[u].tear = vif[u].tear
  BY <1>1 DEF DriverInv, DriverType, VifType
<1>3. /\ StaType' /\ sta'[s].st = "gone"
      /\ \A t \in Stas : t # s => sta'[t] = sta[t]
  BY <1>1 DEF DriverInv, DriverType, StaType, NoSta
<1>4. DriverType'
  BY <1>1, <1>2, <1>3 DEF DriverInv, DriverType
<1>5. Live' = Live \ {s}
  BY <1>3 DEF Live
<1>6. \A t \in Live' : /\ t \in Live /\ t # s /\ sta'[t] = sta[t] /\ Home[t] \in Vifs
                       /\ sta[t].idx # i
  BY <1>1, <1>3, <1>5, FwAssumption DEF DriverInv, IndicesOwned, Live
<1>7. IndicesOwned'
  <2>1. \A j \in StaIdx : wcid[j] # None => wcid[j] \in Live' /\ sta'[wcid[j]].idx = j
    <3> SUFFICES ASSUME NEW j \in StaIdx, wcid[j] # None
                 PROVE wcid[j] \in Live' /\ sta'[wcid[j]].idx = j
      OBVIOUS
    <3>1. wcid[j] \in Live /\ sta[wcid[j]].idx = j
      BY DEF DriverInv, IndicesOwned
    <3>2. wcid[j] # s
      BY <1>1, <3>1 DEF DriverInv, PeersInOrder
    <3> QED BY <1>5, <1>6, <3>1, <3>2
  <2>2. \A t \in Live' : sta'[t].idx \in mask' /\ sta'[t].idx \in StaIdx
    BY <1>1, <1>6 DEF DriverInv, IndicesOwned
  <2>3. \A t, u \in Live' : t # u => sta'[t].idx # sta'[u].idx
    BY <1>6 DEF DriverInv, IndicesOwned
  <2> QED BY <1>1, <1>2, <2>1, <2>2, <2>3 DEF DriverInv, IndicesOwned
<1>8. PeersInOrder'
  <2>1. wiped' \subseteq {t \in Live' : sta'[t].conn}
    BY <1>1, <1>3, <1>5 DEF DriverInv, DriverType, PeersInOrder
  <2>2. \A t, u \in Live' \ Tdls : Home[t] = Home[u] /\ Home[t] \notin APs => t = u
    BY <1>6 DEF DriverInv, PeersInOrder
  <2>3. \A t \in Live' :
          /\ IsUp(Home[t])'
          /\ t \in Tdls => vif'[Home[t]].assoc
          /\ sta'[t].st = "leaving" => wcid'[sta'[t].idx] = None
          /\ sta'[t].st = "assoc" => sta'[t].conn
          /\ sta'[t].conn /\ sta'[t].st # "assoc" /\ Home[t] \notin APs /\ t \notin Tdls =>
               vif'[Home[t]].assoc
    BY <1>1, <1>2, <1>6 DEF DriverInv, PeersInOrder, IsUp
  <2>4. /\ \A u \in Vifs : vif'[u].tear => vif'[u].assoc /\ u \notin APs
        /\ rst'.left \subseteq {u \in Vifs : IsUp(u)'}
    BY <1>1, <1>2 DEF DriverInv, PeersInOrder, IsUp
  <2> QED BY <2>1, <2>2, <2>3, <2>4 DEF PeersInOrder
<1>9. WipedPeersGo'
  <2>1. \A t \in wiped' : t \in wiped /\ sta'[t] = sta[t] /\ Home[t] \in Vifs
    BY <1>1, <1>3, FwAssumption DEF DriverInv, DriverType
  <2> QED BY <1>1, <1>2, <2>1 DEF DriverInv, WipedPeersGo
<1> QED BY <1>4, <1>7, <1>8, <1>9 DEF DriverInv

\* Actions that associate an interface, or have it disconnected.
LEMMA VifMoves ==
  ASSUME DriverInv, NEW v \in Vifs, VifType', \A u \in Vifs : u # v => vif'[u] = vif[u],
         vif'[v].up = vif[v].up, vif'[v].idx = vif[v].idx, vif'[v].tear => vif'[v].assoc /\ v \notin APs,
         vif[v].assoc /\ ~vif'[v].assoc => OfVif(v) = {},
         \/ disc' = disc /\ (vif[v].tear => vif'[v].tear \/ OfVif(v) = {})
         \/ /\ disc' = disc \ {v}
            /\ vif[v].assoc \/ \A s \in Peers(v) : sta[s].st # "assoc"
            /\ vif'[v].assoc = vif[v].assoc /\ vif'[v].tear = vif[v].assoc,
         UNCHANGED <<sta, mask, wcid, rst, wiped>>
  PROVE  DriverInv'
<1>1. \A u \in Vifs : vif'[u].up = vif[u].up /\ vif'[u].idx = vif[u].idx
  OBVIOUS
<1>2. DriverType'
  BY DEF DriverInv, DriverType, StaType
<1>3. Live' = Live /\ \A s \in Live : Home[s] \in Vifs
  BY FwAssumption DEF Live
<1>4. IndicesOwned'
  BY <1>1, <1>3 DEF DriverInv, IndicesOwned
<1>5. \A s \in Live : vif[Home[s]].assoc => vif'[Home[s]].assoc
  BY <1>3 DEF OfVif, Live
<1>6. PeersInOrder'
  <2>1. \A u \in Vifs : vif'[u].tear => vif'[u].assoc /\ u \notin APs
    BY DEF DriverInv, PeersInOrder
  <2> QED BY <1>1, <1>3, <1>5, <2>1 DEF DriverInv, PeersInOrder, IsUp
<1>7. WipedPeersGo'
  <2> SUFFICES ASSUME NEW s \in wiped, Home[s] \notin APs, sta[s].st = "assoc"
               PROVE Home[s] \in rst.left \cup disc' \/ vif'[Home[s]].tear
    BY DEF WipedPeersGo
  <2>1. s \in Live /\ Home[s] \in Vifs
    BY <1>3 DEF DriverInv, PeersInOrder
  <2>2. Home[s] \in rst.left \cup disc \/ vif[Home[s]].tear
    BY DEF DriverInv, WipedPeersGo
  <2>3. CASE Home[s] # v
    BY <2>1, <2>2, <2>3
  <2>4. CASE Home[s] = v
    <3>0. vif[v].tear => vif[v].assoc
      BY DEF DriverInv, PeersInOrder
    <3>1. s \in OfVif(v)
      BY <2>1, <2>4 DEF OfVif, Live
    <3>2. CASE s \in Tdls
      <4>1. vif[v].assoc
        BY <2>1, <2>4, <3>2 DEF DriverInv, PeersInOrder
      <4> QED BY <2>2, <2>4, <3>1, <4>1
    <3>3. CASE s \notin Tdls
      BY <2>2, <2>4, <3>0, <3>1, <3>3 DEF Peers
    <3> QED BY <3>2, <3>3
  <2> QED BY <2>3, <2>4
<1> QED BY <1>2, <1>4, <1>6, <1>7 DEF DriverInv

LEMMA VifMovesDriver ==
  ASSUME DriverInv, NEW v \in Vifs,
         BssInfoChanged(v) \/ StartAp(v) \/ StopAp(v) \/ Disconnect(v)
  PROVE  DriverInv'
<1>1. VifType /\ (vif[v].tear => vif[v].assoc /\ v \notin APs) /\ disc \cap APs = {}
  BY DEF DriverInv, DriverType, PeersInOrder
<1>2. CASE BssInfoChanged(v)
  <2>1. /\ vif[v].assoc => OfVif(v) = {}
        /\ vif' = [vif EXCEPT ![v].assoc = ~@, ![v].tear = @ /\ ~vif[v].assoc]
        /\ UNCHANGED <<sta, mask, wcid, rst, disc, wiped>>
    BY <1>2, Zenon DEF BssInfoChanged
  <2>2. /\ VifType' /\ vif'[v].up = vif[v].up /\ vif'[v].idx = vif[v].idx
        /\ vif'[v].assoc = ~vif[v].assoc /\ vif'[v].tear = (vif[v].tear /\ ~vif[v].assoc)
        /\ \A u \in Vifs : u # v => vif'[u] = vif[u]
    BY <1>1, <2>1 DEF VifType
  <2>3. vif[v].tear => vif'[v].tear \/ OfVif(v) = {}
    BY <1>1, <2>1
  <2>4. vif'[v].tear => vif'[v].assoc /\ v \notin APs
    BY <1>1, <2>2
  <2> QED BY <2>1, <2>2, <2>3, <2>4, VifMoves
<1>3. CASE StartAp(v)
  <2>1. PICK b \in BOOLEAN : vif' = [vif EXCEPT ![v].assoc = b]
    <3>1. PICK f : vif' = [vif EXCEPT ![v].assoc = ~f.err]
      BY <1>3, Zenon DEF StartAp
    <3> QED BY <3>1
  <2>2. ~vif[v].assoc /\ UNCHANGED <<sta, mask, wcid, rst, disc, wiped>>
    BY <1>3, Zenon DEF StartAp
  <2>3. /\ VifType' /\ vif'[v].up = vif[v].up /\ vif'[v].idx = vif[v].idx
        /\ vif'[v].tear = vif[v].tear /\ \A u \in Vifs : u # v => vif'[u] = vif[u]
    BY <1>1, <2>1 DEF VifType
  <2> QED BY <1>1, <2>2, <2>3, VifMoves
<1>4. CASE StopAp(v)
  <2>1. /\ OfVif(v) = {} /\ vif' = [vif EXCEPT ![v].assoc = FALSE] /\ v \in APs
        /\ UNCHANGED <<sta, mask, wcid, rst, disc, wiped>>
    BY <1>4, Zenon DEF StopAp
  <2>2. ~vif[v].tear
    BY <1>1, <2>1
  <2>3. /\ VifType' /\ vif'[v].up = vif[v].up /\ vif'[v].idx = vif[v].idx
        /\ vif'[v].tear = vif[v].tear /\ \A u \in Vifs : u # v => vif'[u] = vif[u]
    BY <1>1, <2>1 DEF VifType
  <2> QED BY <1>1, <2>1, <2>2, <2>3, VifMoves
<1>5. CASE Disconnect(v)
  <2>1. /\ vif[v].assoc \/ \A s \in Peers(v) : sta[s].st # "assoc"
        /\ disc' = disc \ {v} /\ vif' = [vif EXCEPT ![v].tear = vif[v].assoc] /\ v \in disc
        /\ UNCHANGED <<sta, mask, wcid, rst, wiped>>
    BY <1>5, Zenon DEF Disconnect
  <2>2. /\ VifType' /\ vif'[v].up = vif[v].up /\ vif'[v].idx = vif[v].idx
        /\ vif'[v].assoc = vif[v].assoc /\ vif'[v].tear = vif[v].assoc
        /\ \A u \in Vifs : u # v => vif'[u] = vif[u]
    BY <1>1, <2>1 DEF VifType
  <2> QED BY <1>1, <2>1, <2>2, VifMoves
<1> QED BY <1>2, <1>3, <1>4, <1>5

\* The reset work: who was associated is remembered, and each STATION interface
\* is asked to disconnect.
LEMMA ResetDriver ==
  ASSUME DriverInv, Reset
  PROVE  DriverInv'
<1>1. CASE ResetDev
  <2>1. /\ rst' = [on |-> TRUE, left |-> {v \in Vifs : vif[v].up}]
        /\ wiped' = {s \in Stas : sta[s].st = "assoc"}
        /\ UNCHANGED <<vif, sta, mask, wcid, disc>>
    BY <1>1, Zenon DEF ResetDev
  <2>2. /\ rst' \in [on : BOOLEAN, left : SUBSET Vifs] /\ rst'.left = {v \in Vifs : vif[v].up}
        /\ wiped' \subseteq Stas
    BY <2>1
  <2>3. DriverType' /\ IndicesOwned'
    BY <2>1, <2>2 DEF DriverInv, DriverType, VifType, StaType, IndicesOwned, Live
  <2>4. \A s \in wiped' : s \in Live /\ sta[s].conn /\ IsUp(Home[s]) /\ Home[s] \in Vifs
    BY <2>1, FwAssumption DEF DriverInv, PeersInOrder, Live
  <2>5. PeersInOrder'
    BY <2>1, <2>2, <2>4 DEF DriverInv, PeersInOrder, Live, IsUp
  <2>6. WipedPeersGo'
    BY <2>2, <2>4 DEF WipedPeersGo, IsUp
  <2> QED BY <2>3, <2>5, <2>6 DEF DriverInv
<1>2. CASE ResetEnd
  <2>1. /\ rst' = [rst EXCEPT !.on = FALSE]
        /\ UNCHANGED <<vif, sta, mask, wcid, disc, wiped>>
    BY <1>2, Zenon DEF ResetEnd
  <2>2. rst' \in [on : BOOLEAN, left : SUBSET Vifs] /\ rst'.left = rst.left
    BY <2>1 DEF DriverInv, DriverType
  <2> QED BY <2>1, <2>2 DEF DriverInv, DriverType, VifType, StaType, IndicesOwned, Live,
          PeersInOrder, WipedPeersGo, IsUp
<1>3. ASSUME NEW v \in Vifs, ResetIter(v) PROVE DriverInv'
  <2>1. /\ rst' = [rst EXCEPT !.left = @ \ {v}]
        /\ disc' = IF v \in APs THEN disc ELSE disc \cup {v}
        /\ UNCHANGED <<vif, sta, mask, wcid, wiped>>
    BY <1>3, Zenon DEF ResetIter
  <2>2. rst' \in [on : BOOLEAN, left : SUBSET Vifs] /\ rst'.left = rst.left \ {v}
    BY <2>1 DEF DriverInv, DriverType
  <2>3. DriverType' /\ IndicesOwned'
    BY <2>1, <2>2 DEF DriverInv, DriverType, VifType, StaType, IndicesOwned, Live
  <2>4. PeersInOrder'
    BY <2>1, <2>2 DEF DriverInv, PeersInOrder, Live, IsUp
  <2>5. WipedPeersGo'
    BY <2>1, <2>2 DEF DriverInv, WipedPeersGo
  <2> QED BY <2>3, <2>4, <2>5 DEF DriverInv
<1> QED BY <1>1, <1>2, <1>3 DEF Reset

LEMMA DriverStep ==
  ASSUME DriverInv, TablesNext
  PROVE  DriverInv'
<1>1. ASSUME NEW v \in Vifs, Mac80211(v) PROVE DriverInv'
  BY <1>1, AddInterfaceDriver, RemoveInterfaceDriver, VifMovesDriver DEF Mac80211
<1>2. ASSUME NEW s \in Stas, Mac80211Sta(s) PROVE DriverInv'
  <2>1. CASE SetKey(s)
    <3>1. UNCHANGED <<vif, sta, mask, wcid, rst, disc, wiped>>
      BY <2>1, Zenon DEF SetKey
    <3> QED BY <3>1 DEF DriverInv, DriverType, VifType, StaType, IndicesOwned, Live,
            PeersInOrder, WipedPeersGo, IsUp
  <2> QED BY <1>2, <2>1, StaAddDriver, StaRemoveDriver, PeerMovesDriver DEF Mac80211Sta
<1> QED BY <1>1, <1>2, ResetDriver DEF TablesNext

-----------------------------------------------------------------------------
(* The firmware's side.                                                     *)

LEMMA DoneIs ==
  \A f \in Fw : /\ Done(f) \in Fw /\ ~Done(f).err
                /\ SameTables(f, Done(f)) /\ Done(f).dirty = f.dirty
  BY DEF Done, Fw, SameTables

\* What a handler leaves on is marked, and nothing else changes.
LEMMA LeftOnIs ==
  \A f \in Fw, i \in VifIdx : \A S \in SUBSET {<<"bss", i>>, <<"mon", i>>} :
    /\ LeftOn(f, S) \in Fw /\ LeftOn(f, S).err = f.err /\ SameTables(f, LeftOn(f, S))
    /\ LeftOn(f, S).dirty = f.dirty \cup S
    /\ VifSide(f, LeftOn(f, S), i)
<1> TAKE f \in Fw, i \in VifIdx
<1> TAKE S \in SUBSET {<<"bss", i>>, <<"mon", i>>}
<1> DEFINE r == LeftOn(f, S)
<1>1. S \subseteq Keys /\ \A l \in StaKeys : l # "bss" /\ l # "mon"
  BY DEF Keys, VifKeys, StaKeys
<1>2. /\ r \in Fw /\ r.err = f.err /\ SameTables(f, r) /\ r.dirty = f.dirty \cup S
  BY <1>1 DEF LeftOn, Fw, SameTables
<1> HIDE DEF r
<1>3. \A l, j : (l # "bss" /\ l # "mon") \/ j # i => (<<l, j>> \in r.dirty <=> <<l, j>> \in f.dirty)
  BY <1>2
<1>4. VifSide(f, r, i)
  BY <1>1, <1>2, <1>3 DEF VifSide, SameVif, SameRec, SameTables
<1> QED BY <1>2, <1>4 DEF r

\* Sides are sides of the tables and marks, whatever else the firmware does.
LEMMA SidesOfDone ==
  /\ \A f, g \in Fw, i \in VifIdx : VifSide(f, g, i) => VifSide(f, Done(g), i)
  /\ \A f, g \in Fw, i \in StaIdx : StaSide(f, g, i) => StaSide(f, Done(g), i)
  BY DoneIs DEF VifSide, StaSide, SameVif, SameRec, SameTables

\* The two together.
LEMMA DoneLeftOn ==
  \A f, g \in Fw, i \in VifIdx : \A S \in SUBSET {<<"bss", i>>, <<"mon", i>>} :
    VifSide(f, g, i) =>
      LET r == LeftOn(Done(g), S)
      IN /\ r \in Fw /\ ~r.err /\ VifSide(f, r, i) /\ SameTables(g, r)
         /\ r.dirty = g.dirty \cup S
<1> TAKE f, g \in Fw, i \in VifIdx
<1> TAKE S \in SUBSET {<<"bss", i>>, <<"mon", i>>}
<1> HAVE VifSide(f, g, i)
<1>1. /\ Done(g) \in Fw /\ ~Done(g).err /\ SameTables(g, Done(g)) /\ Done(g).dirty = g.dirty
      /\ VifSide(f, Done(g), i)
  BY DoneIs, SidesOfDone
<1> DEFINE h == Done(g)
<1> HIDE DEF h
<1>2. /\ LeftOn(h, S) \in Fw /\ LeftOn(h, S).err = h.err /\ SameTables(h, LeftOn(h, S))
      /\ LeftOn(h, S).dirty = h.dirty \cup S /\ VifSide(h, LeftOn(h, S), i)
  BY <1>1, LeftOnIs DEF h
<1>3. VifSide(f, LeftOn(h, S), i)
  BY <1>1, <1>2, SidesAreTransitive DEF h
<1> QED BY <1>1, <1>2, <1>3 DEF h, SameTables

LEMMA SameIsReflexive ==
  \A f, j : SameVif(f, f, j) /\ SameRec(f, f, j)
  BY DEF SameVif, SameRec

\* What a step does not touch agrees as before.
LEMMA VifKept ==
  FwInv => \A u \in Vifs :
    /\ IsUp(u) /\ SameVif(fw, fw', vif[u].idx)
    /\ vif'[u].idx = vif[u].idx /\ vif'[u].assoc = vif[u].assoc /\ vif'[u].tear = vif[u].tear
    /\ Connected(u)' <=> Connected(u)
    /\ u \in disc => u \in disc'
    => VifAgrees(u)'
<1> SUFFICES ASSUME FwInv, NEW u \in Vifs, IsUp(u), SameVif(fw, fw', vif[u].idx),
                    vif'[u].idx = vif[u].idx, vif'[u].assoc = vif[u].assoc,
                    vif'[u].tear = vif[u].tear, Connected(u)' <=> Connected(u),
                    u \in disc => u \in disc'
             PROVE VifAgrees(u)'
  BY Zenon
<1>1. VifAgrees(u)
  BY DEF FwInv
<1>2. \A k \in VifKeys : <<k, vif[u].idx>> \in fw'.dirty <=> <<k, vif[u].idx>> \in fw.dirty
  BY DEF SameVif
<1>3. {"dev", "bss", "mon"} \subseteq VifKeys
  BY DEF VifKeys
<1> QED BY <1>1, <1>2, <1>3 DEF VifAgrees, BssAgrees, SameVif

LEMMA RecKept ==
  FwInv => \A s \in Live :
    /\ sta'[s].idx = sta[s].idx /\ sta'[s].ba = sta[s].ba
    /\ SameRec(fw, fw', sta[s].idx)
    => RecAgrees(s)'
<1> SUFFICES ASSUME FwInv, NEW s \in Live, sta'[s].idx = sta[s].idx, sta'[s].ba = sta[s].ba,
                    SameRec(fw, fw', sta[s].idx)
             PROVE RecAgrees(s)'
  BY Zenon
<1>1. RecAgrees(s)
  BY DEF FwInv
<1>2. {"rec", "ba"} \subseteq StaKeys
  BY DEF StaKeys
<1> QED BY <1>1, <1>2 DEF RecAgrees, SameRec

\* Commands about one interface that stays, with or without some about its peers.
LEMMA VifCommand ==
  ASSUME TablesInv, NEW v \in Vifs, IsUp(v),
         \A u \in Vifs : vif'[u].up = vif[u].up /\ vif'[u].idx = vif[u].idx,
         \A u \in Vifs : u # v => /\ vif'[u].assoc = vif[u].assoc
                                  /\ vif'[u].tear = vif[u].tear
                                  /\ Connected(u)' <=> Connected(u)
                                  /\ u \in disc => u \in disc',
         fw' \in Fw, ~fw'.err,
         \A j \in VifIdx : j # vif[v].idx => SameVif(fw, fw', j),
         VifAgrees(v)', \A s \in Live' : RecAgrees(s)'
  PROVE  FwInv'
<1>1. \A u \in Vifs : IsUp(u)' => VifAgrees(u)'
  <2> SUFFICES ASSUME NEW u \in Vifs, IsUp(u)', u # v PROVE VifAgrees(u)'
    OBVIOUS
  <2>1. IsUp(u) /\ vif[u].idx \in VifIdx /\ vif[u].idx # vif[v].idx
    BY DEF TablesInv, DriverInv, DriverType, VifType, IndicesOwned, IsUp
  <2>2. SameVif(fw, fw', vif[u].idx)
    BY <2>1
  <2> QED BY <2>1, <2>2, VifKept DEF TablesInv
<1>2. \A i \in VifIdx : OfOthers(i)' /\ <<"mon", i>> \notin fw'.dirty => i \notin fw'.mon
  <2> SUFFICES ASSUME NEW i \in VifIdx, OfOthers(i)', <<"mon", i>> \notin fw'.dirty
               PROVE i \notin fw'.mon
    OBVIOUS
  <2>1. OfOthers(i) /\ i # vif[v].idx
    BY DEF OfOthers, IsUp
  <2>2. SameVif(fw, fw', i)
    BY <2>1
  <2>3. <<"mon", i>> \notin fw.dirty /\ (i \in fw'.mon <=> i \in fw.mon)
    BY <2>2 DEF SameVif, VifKeys
  <2> QED BY <2>1, <2>3 DEF TablesInv, FwInv
<1> QED BY <1>1, <1>2 DEF FwInv

\* Commands about peers alone, or none.
LEMMA PeerCommand ==
  ASSUME TablesInv,
         \A u \in Vifs : /\ vif'[u].up = vif[u].up /\ vif'[u].idx = vif[u].idx
                         /\ vif'[u].assoc = vif[u].assoc /\ vif'[u].tear = vif[u].tear
                         /\ Connected(u)' <=> Connected(u)
                         /\ u \in disc => u \in disc',
         fw' \in Fw, ~fw'.err,
         \A j \in VifIdx : SameVif(fw, fw', j),
         \A s \in Live' : RecAgrees(s)'
  PROVE  FwInv'
<1>1. \A u \in Vifs : IsUp(u)' => VifAgrees(u)'
  <2> SUFFICES ASSUME NEW u \in Vifs, IsUp(u)' PROVE VifAgrees(u)'
    OBVIOUS
  <2>1. IsUp(u) /\ vif[u].idx \in VifIdx
    BY DEF TablesInv, DriverInv, DriverType, VifType, IsUp
  <2>2. SameVif(fw, fw', vif[u].idx)
    BY <2>1
  <2> QED BY <2>1, <2>2, VifKept DEF TablesInv
<1>2. \A i \in VifIdx : OfOthers(i)' /\ <<"mon", i>> \notin fw'.dirty => i \notin fw'.mon
  <2> SUFFICES ASSUME NEW i \in VifIdx, OfOthers(i)', <<"mon", i>> \notin fw'.dirty
               PROVE i \notin fw'.mon
    OBVIOUS
  <2>1. OfOthers(i)
    BY DEF OfOthers, IsUp
  <2>2. <<"mon", i>> \notin fw.dirty /\ (i \in fw'.mon <=> i \in fw.mon)
    BY DEF SameVif, VifKeys
  <2> QED BY <2>1, <2>2 DEF TablesInv, FwInv
<1> QED BY <1>1, <1>2 DEF FwInv

\* The records of the peers are those of before when only a VIF's tables change.
LEMMA RecsKept ==
  ASSUME TablesInv, UNCHANGED sta, \A j \in StaIdx : SameRec(fw, fw', j)
  PROVE  /\ \A s \in Live' : RecAgrees(s)'
         /\ \A u \in Vifs : Connected(u)' <=> Connected(u)
<1>1. \A s \in Live' : s \in Live /\ sta[s].idx \in StaIdx
  BY DEF Live, TablesInv, DriverInv, IndicesOwned
<1>2. \A s \in Live' : RecAgrees(s)'
  BY <1>1, RecKept DEF TablesInv
<1>3. \A u \in Vifs : Connected(u)' <=> Connected(u)
  BY DEF Connected, Peers, OfVif
<1> QED BY <1>2, <1>3

\* An index that comes into use has no monitor left, or is marked.
LEMMA AddInterfaceFw ==
  ASSUME TablesInv, NEW v \in Vifs, AddInterface(v)
  PROVE  FwInv'
<1> DEFINE free == VifIdx \ {vif[u].idx : u \in {w \in Vifs : vif[w].up}}
           i == Least(free)
<1>1. i \in free
  <2>1. free \subseteq Nat /\ free # {}
    BY IndexFacts DEF AddInterface
  <2> HIDE DEF free
  <2> QED BY <2>1, LeastIsIn
<1>2. i \in VifIdx /\ OfOthers(i)
  BY <1>1 DEF OfOthers, IsUp
<1>3. PICK f \in UniAddDev(fw, i, TRUE) :
        /\ fw' = Done(f)
        /\ IF f.err THEN UNCHANGED vif
           ELSE vif' = [vif EXCEPT ![v] = [NoVif EXCEPT !.up = TRUE, !.idx = i]]
  BY DEF AddInterface
<1>4. ~vif[v].up /\ UNCHANGED <<sta, disc>>
  BY Zenon DEF AddInterface
<1> HIDE DEF i
<1>5. /\ VifSide(fw, f, i) /\ f.mon = fw.mon
      /\ <<"mon", i>> \in f.dirty <=> <<"mon", i>> \in fw.dirty
      /\ ~f.err => /\ {<<"dev", i>>, <<"bss", i>>} \cap f.dirty = {} /\ f.bss[i] = "idle"
                   /\ i \in f.dev
  <2>1. fw \in Fw
    BY DEF TablesInv, FwInv
  <2> QED BY <1>2, <1>3, <2>1, UniAddDevDoes
<1>6. f \in Fw /\ fw \in Fw
  BY <1>5 DEF VifSide, TablesInv, FwInv
<1>7. /\ fw' \in Fw /\ ~fw'.err /\ VifSide(fw, fw', i)
      /\ fw'.mon = fw.mon /\ fw'.bss = f.bss /\ fw'.dev = f.dev /\ fw'.dirty = f.dirty
  BY <1>2, <1>3, <1>5, <1>6, DoneIs, SidesOfDone DEF SameTables
<1>8. \A s \in Live' : RecAgrees(s)'
  BY <1>4, <1>7, RecsKept DEF VifSide
<1>9. (f.err => vif' = vif) /\ \A u \in Vifs : u # v => vif'[u] = vif[u]
  BY <1>3 DEF TablesInv, DriverInv, DriverType, VifType
<1>10. \A u \in Vifs : IsUp(u)' => VifAgrees(u)'
  <2> SUFFICES ASSUME NEW u \in Vifs, IsUp(u)' PROVE VifAgrees(u)'
    OBVIOUS
  <2>1. CASE u = v
    <3>1. ~f.err
      BY <1>4, <1>9, <2>1 DEF IsUp
    <3>2. vif'[v].idx = i /\ ~vif'[v].assoc /\ ~vif'[v].tear
      <4> DEFINE new == [NoVif EXCEPT !.up = TRUE, !.idx = i]
      <4>1. new.idx = i /\ ~new.assoc /\ ~new.tear
        BY DEF NoVif
      <4>2. vif' = [vif EXCEPT ![v] = new]
        BY <1>3, <3>1
      <4> HIDE DEF new
      <4>3. vif'[v] = new
        BY <4>2 DEF TablesInv, DriverInv, DriverType, VifType
      <4> QED BY <4>1, <4>3
    <3>3. ~Connected(v)'
      <4>1. \A s \in Stas : Home[s] = v => s \notin Live
        BY <1>4 DEF TablesInv, DriverInv, PeersInOrder, IsUp
      <4> QED BY <1>4, <4>1 DEF Connected, Peers, OfVif, Live
    <3>4. <<"mon", i>> \notin fw'.dirty => i \notin fw'.mon
      BY <1>2, <1>5, <1>7 DEF TablesInv, FwInv
    <3>5. i \in fw'.dev /\ fw'.bss[i] = "idle"
      BY <1>5, <1>7, <3>1
    <3> QED BY <2>1, <3>2, <3>3, <3>4, <3>5 DEF VifAgrees, BssAgrees
  <2>2. CASE u # v
    <3>1. IsUp(u) /\ vif[u].idx \in VifIdx /\ vif'[u] = vif[u]
      BY <1>9, <2>2 DEF IsUp, TablesInv, DriverInv, DriverType, VifType
    <3>2. SameVif(fw, fw', vif[u].idx)
      BY <1>2, <1>7, <3>1 DEF OfOthers, VifSide
    <3>3. Connected(u)' <=> Connected(u)
      BY <1>4, <1>7, RecsKept DEF VifSide
    <3> QED BY <1>4, <3>1, <3>2, <3>3, VifKept DEF TablesInv
  <2> QED BY <2>1, <2>2
<1>11. \A j \in VifIdx : OfOthers(j)' /\ <<"mon", j>> \notin fw'.dirty => j \notin fw'.mon
  <2> SUFFICES ASSUME NEW j \in VifIdx, OfOthers(j)', <<"mon", j>> \notin fw'.dirty
               PROVE j \notin fw'.mon
    OBVIOUS
  <2>1. OfOthers(j)
    BY <1>4, <1>9 DEF OfOthers, IsUp
  <2>2. <<"mon", j>> \notin fw.dirty
    <3>1. CASE j = i
      BY <1>5, <1>7, <3>1
    <3>2. CASE j # i
      BY <1>7, <3>2 DEF VifSide, SameVif, VifKeys
    <3> QED BY <3>1, <3>2
  <2> QED BY <1>7, <2>1, <2>2 DEF TablesInv, FwInv
<1> QED BY <1>7, <1>8, <1>10, <1>11 DEF FwInv

\* An index that is given back keeps what its interface left, which is no monitor.
LEMMA RemoveInterfaceFw ==
  ASSUME TablesInv, NEW v \in Vifs, RemoveInterface(v)
  PROVE  FwInv'
<1> DEFINE i == vif[v].idx
<1>1. /\ vif[v].up /\ ~vif[v].assoc /\ UNCHANGED sta
      /\ vif' = [vif EXCEPT ![v] = NoVif] /\ disc' = disc \ {v}
  BY Zenon DEF RemoveInterface
<1>2. PICK f \in UniAddDev(fw, i, FALSE) : fw' = Done(f)
  BY DEF RemoveInterface
<1>3. i \in VifIdx /\ fw \in Fw
  BY DEF TablesInv, DriverInv, DriverType, VifType, FwInv
<1>4. /\ VifSide(fw, f, i) /\ f.mon = fw.mon
      /\ <<"mon", i>> \in f.dirty <=> <<"mon", i>> \in fw.dirty
  BY <1>2, <1>3, UniRemoveDevDoes
<1>5. f \in Fw
  BY <1>4 DEF VifSide
<1>6. /\ fw' \in Fw /\ ~fw'.err /\ VifSide(fw, fw', i)
      /\ fw'.mon = fw.mon /\ fw'.dirty = f.dirty
  BY <1>2, <1>3, <1>4, <1>5, DoneIs, SidesOfDone DEF SameTables
<1>7. \A u \in Vifs : u # v => vif'[u] = vif[u] /\ vif[u].idx \in VifIdx
  BY <1>1 DEF TablesInv, DriverInv, DriverType, VifType
<1>8. /\ \A s \in Live' : RecAgrees(s)'
      /\ \A u \in Vifs : Connected(u)' <=> Connected(u)
  BY <1>1, <1>6, RecsKept DEF VifSide
<1>9. \A u \in Vifs : IsUp(u)' => VifAgrees(u)'
  <2> SUFFICES ASSUME NEW u \in Vifs, IsUp(u)' PROVE VifAgrees(u)'
    OBVIOUS
  <2>1. u # v
    BY <1>1 DEF IsUp, NoVif, TablesInv, DriverInv, DriverType, VifType
  <2>2. IsUp(u) /\ vif[u].idx # i
    BY <1>1, <1>7, <2>1 DEF IsUp, TablesInv, DriverInv, IndicesOwned
  <2>3. SameVif(fw, fw', vif[u].idx)
    BY <1>6, <1>7, <2>1, <2>2 DEF VifSide
  <2> QED BY <1>1, <1>7, <1>8, <2>1, <2>2, <2>3, VifKept DEF TablesInv
<1>10. \A j \in VifIdx : OfOthers(j)' /\ <<"mon", j>> \notin fw'.dirty => j \notin fw'.mon
  <2> SUFFICES ASSUME NEW j \in VifIdx, OfOthers(j)', <<"mon", j>> \notin fw'.dirty
               PROVE j \notin fw'.mon
    OBVIOUS
  <2>1. CASE j = i
    <3>1. VifAgrees(v)
      BY <1>1 DEF TablesInv, FwInv, IsUp
    <3> QED BY <1>1, <1>4, <1>6, <2>1, <3>1 DEF VifAgrees
  <2>2. CASE j # i
    <3>1. OfOthers(j)
      BY <1>7, <2>2 DEF OfOthers, IsUp
    <3>2. <<"mon", j>> \notin fw.dirty
      BY <1>6, <2>2 DEF VifSide, SameVif, VifKeys
    <3> QED BY <1>6, <3>1, <3>2 DEF TablesInv, FwInv
  <2> QED BY <2>1, <2>2
<1> QED BY <1>6, <1>8, <1>9, <1>10 DEF FwInv

\* The commands of an interface that is associated, or left, or started.
LEMMA BssInfoChangedFw ==
  ASSUME TablesInv, NEW v \in Vifs, BssInfoChanged(v)
  PROVE  FwInv'
<1> DEFINE i == vif[v].idx
           on == ~vif[v].assoc
<1>1. /\ vif[v].up /\ v \notin APs /\ UNCHANGED <<sta, disc>>
      /\ vif' = [vif EXCEPT ![v].assoc = on, ![v].tear = @ /\ ~vif[v].assoc]
  BY Zenon DEF BssInfoChanged
<1>2. PICK f \in BeaconFilter(fw, i, on) : fw' = Done(f)
  BY DEF BssInfoChanged
<1>3. /\ i \in VifIdx /\ fw \in Fw /\ on \in BOOLEAN
      /\ vif[v].tear => vif[v].assoc
      /\ vif[v].assoc => OfVif(v) = {}
  BY Zenon DEF TablesInv, DriverInv, DriverType, VifType, FwInv, PeersInOrder, BssInfoChanged
<1>4. /\ VifSide(fw, f, i) /\ f.dev = fw.dev /\ f.bss = fw.bss
      /\ \A l \in {"dev", "bss"} : <<l, i>> \in f.dirty <=> <<l, i>> \in fw.dirty
      /\ <<"mon", i>> \notin f.dirty => (i \in f.mon <=> on)
  <2> HIDE DEF i, on
  <2> QED BY <1>2, <1>3, BeaconFilterDoes, Zenon
<1>5. f \in Fw
  BY <1>4 DEF VifSide
<1>6. /\ fw' \in Fw /\ ~fw'.err /\ VifSide(fw, fw', i)
      /\ fw'.dev = fw.dev /\ fw'.bss = fw.bss /\ fw'.mon = f.mon /\ fw'.dirty = f.dirty
  BY <1>2, <1>3, <1>4, <1>5, DoneIs, SidesOfDone DEF SameTables
<1>7. /\ \A u \in Vifs : vif'[u].up = vif[u].up /\ vif'[u].idx = vif[u].idx
      /\ \A u \in Vifs : u # v => vif'[u] = vif[u]
      /\ vif'[v].assoc = on
  BY <1>1 DEF TablesInv, DriverInv, DriverType, VifType
<1>8. /\ \A s \in Live' : RecAgrees(s)'
      /\ \A u \in Vifs : Connected(u)' <=> Connected(u)
  BY <1>1, <1>6, RecsKept DEF VifSide
<1>9. VifAgrees(v)'
  <2>1. VifAgrees(v)
    BY <1>1 DEF TablesInv, FwInv, IsUp
  <2>2. ~vif'[v].tear => ~vif[v].tear \/ ~Connected(v)
    BY <1>1, <1>3 DEF TablesInv, DriverInv, DriverType, VifType, Connected, Peers
  <2> QED BY <1>1, <1>4, <1>6, <1>7, <1>8, <2>1, <2>2 DEF VifAgrees, BssAgrees
<1>10. \A j \in VifIdx : j # i => SameVif(fw, fw', j)
  BY <1>6 DEF VifSide
<1> HIDE DEF i
<1> QED BY <1>1, <1>6, <1>7, <1>8, <1>9, <1>10, VifCommand DEF IsUp, i

LEMMA StartApFw ==
  ASSUME TablesInv, NEW v \in Vifs, StartAp(v)
  PROVE  FwInv'
<1> DEFINE i == vif[v].idx
           set(h) == IF h.err /\ <<"bss", i>> \notin h.dirty
                     THEN {<<"bss", i>>, <<"mon", i>>} ELSE {}
           monitored(h) == IfOk(BssPm(h, i, TRUE), LAMBDA g : OwnRec(g, i))
<1>1. vif[v].up /\ v \in APs /\ ~vif[v].assoc /\ UNCHANGED <<sta, disc>>
  BY Zenon DEF StartAp
<1>2. PICK f \in IfOk(UniAddBss(fw, v, i, TRUE), monitored) :
        fw' = LeftOn(Done(f), set(f)) /\ vif' = [vif EXCEPT ![v].assoc = ~f.err]
  BY DEF StartAp
<1>3. PICK g \in UniAddBss(fw, v, i, TRUE) : IF g.err THEN f = g ELSE f \in monitored(g)
  <2> HIDE DEF monitored
  <2> QED BY <1>2 DEF IfOk
<1>4. i \in VifIdx /\ fw \in Fw
  BY DEF TablesInv, DriverInv, DriverType, VifType, FwInv
<1>5. /\ VifSide(fw, g, i) /\ g.dev = fw.dev /\ g.mon = fw.mon
      /\ \A l \in {"dev", "mon"} : <<l, i>> \in g.dirty <=> <<l, i>> \in fw.dirty
      /\ <<"bss", i>> \notin g.dirty => g.bss[i] = "up"
      /\ g.err <=> <<"bss", i>> \in g.dirty
  <2>1. /\ VifSide(fw, g, i) /\ g.dev = fw.dev /\ g.mon = fw.mon
        /\ \A l \in {"dev", "mon"} : <<l, i>> \in g.dirty <=> <<l, i>> \in fw.dirty
        /\ <<"bss", i>> \notin g.dirty => g.bss[i] = BssAfter(v, TRUE)
        /\ g.err <=> <<"bss", i>> \in g.dirty
    BY <1>3, <1>4, UniAddBssDoes, Zenon
  <2> QED BY <2>1 DEF BssAfter
<1>6. g \in Fw
  BY <1>5 DEF VifSide
\* Without an error all is set; with one, the BSS is marked or its command failed,
\* and the monitoring is set at most when its command was reached.
<1>7. /\ VifSide(fw, f, i) /\ f.dev = fw.dev
      /\ <<"dev", i>> \in f.dirty <=> <<"dev", i>> \in fw.dirty
      /\ <<"bss", i>> \notin f.dirty => f.bss[i] = "up"
      /\ ~f.err => <<"mon", i>> \notin f.dirty /\ i \in f.mon
      /\ f.err /\ <<"mon", i>> \notin f.dirty /\ <<"bss", i>> \in f.dirty =>
           <<"mon", i>> \notin fw.dirty /\ f.mon = fw.mon
  <2>1. CASE g.err
    BY <1>3, <1>5, <2>1
  <2>2. CASE ~g.err
    <3>1. PICK h \in BssPm(g, i, TRUE) : IF h.err THEN f = h ELSE f \in OwnRec(h, i)
      BY <1>3, <2>2 DEF IfOk
    <3>2. /\ VifSide(g, h, i) /\ h.dev = g.dev /\ h.bss = g.bss
          /\ \A l \in {"dev", "bss"} : <<l, i>> \in h.dirty <=> <<l, i>> \in g.dirty
          /\ h.err => <<"mon", i>> \in h.dirty
          /\ ~h.err => <<"mon", i>> \notin h.dirty /\ (i \in h.mon <=> TRUE)
      BY <1>4, <1>6, <3>1, BssPmDoes
    <3>3. h \in Fw /\ VifSide(fw, h, i)
      BY <1>4, <1>5, <1>6, <3>2, SidesAreTransitive DEF VifSide
    <3>5. CASE h.err
      BY <1>5, <3>1, <3>2, <3>3, <3>5
    <3>6. CASE ~h.err
      <4>1. /\ VifSide(h, f, i) /\ SameTables(h, f)
            /\ \A l \in {"dev", "bss", "mon"} : <<l, i>> \in f.dirty <=> <<l, i>> \in h.dirty
        BY <1>4, <3>1, <3>3, <3>6, OwnRecDoes
      <4>2. VifSide(fw, f, i)
        BY <1>4, <3>3, <4>1, SidesAreTransitive DEF VifSide
      <4> QED BY <1>5, <2>2, <3>2, <3>6, <4>1, <4>2 DEF SameTables
    <3> QED BY <3>5, <3>6
  <2> QED BY <2>1, <2>2
<1>8. f \in Fw /\ f.err \in BOOLEAN /\ set(f) \in SUBSET {<<"bss", i>>, <<"mon", i>>}
  BY <1>7 DEF VifSide, Fw
<1>9. /\ fw' \in Fw /\ ~fw'.err /\ VifSide(fw, fw', i)
      /\ fw'.dev = fw.dev /\ fw'.bss = f.bss /\ fw'.mon = f.mon
      /\ fw'.dirty = f.dirty \cup set(f)
  <2> HIDE DEF i, set
  <2> QED BY <1>2, <1>4, <1>7, <1>8, DoneLeftOn DEF SameTables
<1>10. /\ \A u \in Vifs : vif'[u].up = vif[u].up /\ vif'[u].idx = vif[u].idx
       /\ \A u \in Vifs : u # v => vif'[u] = vif[u]
       /\ vif'[v].assoc = ~f.err
  BY <1>2 DEF TablesInv, DriverInv, DriverType, VifType
<1>11. /\ \A s \in Live' : RecAgrees(s)'
       /\ \A u \in Vifs : Connected(u)' <=> Connected(u)
  BY <1>1, <1>9, RecsKept DEF VifSide
<1>12. VifAgrees(v)'
  <2>1. VifAgrees(v)
    BY <1>1 DEF TablesInv, FwInv, IsUp
  <2>2. /\ <<"dev", i>> \in fw'.dirty <=> <<"dev", i>> \in fw.dirty
        /\ f.err => /\ <<"bss", i>> \in fw'.dirty
                    /\ <<"mon", i>> \notin fw'.dirty =>
                         <<"mon", i>> \notin fw.dirty /\ f.mon = fw.mon
        /\ ~f.err => fw'.dirty = f.dirty
    BY <1>7, <1>9
  <2> QED BY <1>1, <1>7, <1>9, <1>10, <2>1, <2>2 DEF VifAgrees, BssAgrees
<1>13. \A j \in VifIdx : j # i => SameVif(fw, fw', j)
  BY <1>9 DEF VifSide
<1> QED BY <1>1, <1>9, <1>10, <1>11, <1>12, <1>13, VifCommand DEF IsUp

LEMMA StopApFw ==
  ASSUME TablesInv, NEW v \in Vifs, StopAp(v)
  PROVE  FwInv'
<1> DEFINE i == vif[v].idx
           set(h) == IF h.err THEN {<<"bss", i>>} ELSE {}
<1>1. /\ vif[v].up /\ v \in APs /\ vif[v].assoc /\ UNCHANGED <<sta, disc>>
      /\ vif' = [vif EXCEPT ![v].assoc = FALSE]
  BY Zenon DEF StopAp
<1>2. PICK f \in IfOk(BssPm(fw, i, FALSE), LAMBDA g : UniAddBss(g, v, i, FALSE)) :
        fw' = LeftOn(Done(f), set(f))
  BY DEF StopAp
<1>3. PICK g \in BssPm(fw, i, FALSE) : IF g.err THEN f = g ELSE f \in UniAddBss(g, v, i, FALSE)
  BY <1>2 DEF IfOk
<1>4. i \in VifIdx /\ fw \in Fw
  BY DEF TablesInv, DriverInv, DriverType, VifType, FwInv
<1>5. /\ VifSide(fw, g, i) /\ g.dev = fw.dev /\ g.bss = fw.bss
      /\ \A l \in {"dev", "bss"} : <<l, i>> \in g.dirty <=> <<l, i>> \in fw.dirty
      /\ g.err => <<"mon", i>> \in g.dirty
      /\ ~g.err => <<"mon", i>> \notin g.dirty /\ (i \in g.mon <=> FALSE)
  BY <1>3, <1>4, BssPmDoes
<1>6. g \in Fw
  BY <1>5 DEF VifSide
<1>7. /\ VifSide(fw, f, i) /\ f.dev = fw.dev
      /\ <<"dev", i>> \in f.dirty <=> <<"dev", i>> \in fw.dirty
      /\ \/ f.err /\ <<"mon", i>> \in f.dirty
         \/ i \notin f.mon /\ (<<"bss", i>> \notin f.dirty => f.bss[i] = "off")
  <2>1. CASE g.err
    BY <1>3, <1>5, <2>1
  <2>2. CASE ~g.err
    <3>1. f \in UniAddBss(g, v, i, FALSE)
      BY <1>3, <2>2
    <3>2. /\ VifSide(g, f, i) /\ f.dev = g.dev /\ f.mon = g.mon
          /\ \A l \in {"dev", "mon"} : <<l, i>> \in f.dirty <=> <<l, i>> \in g.dirty
          /\ <<"bss", i>> \notin f.dirty => f.bss[i] = BssAfter(v, FALSE)
      <4> DEFINE on == FALSE
      <4>1. on \in BOOLEAN /\ f \in UniAddBss(g, v, i, on) /\ on = FALSE
        BY <3>1
      <4> HIDE DEF i, on
      <4>2. /\ VifSide(g, f, i) /\ f.dev = g.dev /\ f.mon = g.mon
            /\ \A l \in {"dev", "mon"} : <<l, i>> \in f.dirty <=> <<l, i>> \in g.dirty
            /\ <<"bss", i>> \notin f.dirty => f.bss[i] = BssAfter(v, on)
        BY <1>4, <1>6, <4>1, UniAddBssDoes
      <4> QED BY <4>1, <4>2
    <3>3. f \in Fw
      BY <3>2 DEF VifSide
    <3>4. VifSide(fw, f, i)
      BY <1>4, <1>5, <1>6, <3>2, <3>3, SidesAreTransitive
    <3> QED BY <1>1, <1>5, <2>2, <3>2, <3>4 DEF BssAfter
  <2> QED BY <2>1, <2>2
<1>8. f \in Fw /\ set(f) \in SUBSET {<<"bss", i>>, <<"mon", i>>}
  BY <1>7 DEF VifSide
<1>9. /\ fw' \in Fw /\ ~fw'.err /\ VifSide(fw, fw', i)
      /\ fw'.dev = fw.dev /\ fw'.bss = f.bss /\ fw'.mon = f.mon
      /\ fw'.dirty = f.dirty \cup set(f)
  <2> HIDE DEF i, set
  <2> QED BY <1>2, <1>4, <1>7, <1>8, DoneLeftOn DEF SameTables
<1>10. /\ \A u \in Vifs : vif'[u].up = vif[u].up /\ vif'[u].idx = vif[u].idx
       /\ \A u \in Vifs : u # v => vif'[u] = vif[u]
       /\ ~vif'[v].assoc
  BY <1>1 DEF TablesInv, DriverInv, DriverType, VifType
<1>11. /\ \A s \in Live' : RecAgrees(s)'
       /\ \A u \in Vifs : Connected(u)' <=> Connected(u)
  BY <1>1, <1>9, RecsKept DEF VifSide
<1>12. VifAgrees(v)'
  <2>1. VifAgrees(v)
    BY <1>1 DEF TablesInv, FwInv, IsUp
  <2>2. /\ <<"dev", i>> \in fw'.dirty <=> <<"dev", i>> \in fw.dirty
        /\ \/ {<<"mon", i>>, <<"bss", i>>} \subseteq fw'.dirty
           \/ i \notin f.mon /\ (<<"bss", i>> \notin fw'.dirty => f.bss[i] = "off")
    BY <1>7, <1>9
  <2> QED BY <1>1, <1>7, <1>9, <1>10, <2>1, <2>2 DEF VifAgrees, BssAgrees
<1>13. \A j \in VifIdx : j # i => SameVif(fw, fw', j)
  BY <1>9 DEF VifSide
<1> QED BY <1>1, <1>9, <1>10, <1>11, <1>12, <1>13, VifCommand DEF IsUp

\* Handled at once, or ignored by an interface that has no peer with a record.
LEMMA DisconnectFw ==
  ASSUME TablesInv, NEW v \in Vifs, Disconnect(v)
  PROVE  FwInv'
<1>1. /\ vif[v].assoc \/ \A s \in Peers(v) : sta[s].st # "assoc"
      /\ disc' = disc \ {v} /\ vif' = [vif EXCEPT ![v].tear = vif[v].assoc]
      /\ UNCHANGED <<sta, fw>>
  BY Zenon DEF Disconnect
<1>2. /\ \A u \in Vifs : /\ vif'[u].up = vif[u].up /\ vif'[u].idx = vif[u].idx
                         /\ vif'[u].assoc = vif[u].assoc
      /\ \A u \in Vifs : u # v => vif'[u] = vif[u]
      /\ vif'[v].tear = vif[v].assoc
  BY <1>1 DEF TablesInv, DriverInv, DriverType, VifType
<1>3. /\ \A s \in Live' : RecAgrees(s)'
      /\ \A u \in Vifs : Connected(u)' <=> Connected(u)
  BY <1>1, SameIsReflexive, RecsKept
<1>4. \A j \in VifIdx : SameVif(fw, fw', j)
  BY <1>1, SameIsReflexive
<1>5. fw' \in Fw /\ ~fw'.err
  BY <1>1 DEF TablesInv, FwInv
<1>6. CASE IsUp(v)
  <2>1. VifAgrees(v)
    BY <1>6 DEF TablesInv, FwInv
  <2>2. ~vif[v].assoc => ~Connected(v)
    <3>1. v \notin APs
      BY DEF Disconnect, TablesInv, DriverInv, DriverType
    <3>2. \A s \in Peers(v) : s \in Live /\ s \notin Tdls /\ Home[s] = v
      BY DEF Peers, OfVif, Live
    <3> QED BY <1>1, <3>1, <3>2 DEF TablesInv, DriverInv, PeersInOrder, Connected
  <2>3. v \in APs \/ ~vif[v].tear \/ vif[v].assoc
    BY DEF TablesInv, DriverInv, PeersInOrder
  <2>4. VifAgrees(v)'
    BY <1>1, <1>2, <1>3, <2>1, <2>2, <2>3 DEF VifAgrees, BssAgrees
  <2> QED BY <1>1, <1>2, <1>3, <1>4, <1>5, <1>6, <2>4, VifCommand
<1>7. CASE ~IsUp(v)
  <2>1. \A u \in Vifs : IsUp(u)' => VifAgrees(u)'
    <3> SUFFICES ASSUME NEW u \in Vifs, IsUp(u)' PROVE VifAgrees(u)'
      OBVIOUS
    <3>1. u # v /\ IsUp(u) /\ vif[u].idx \in VifIdx
      BY <1>2, <1>7 DEF IsUp, TablesInv, DriverInv, DriverType, VifType
    <3> QED BY <1>1, <1>2, <1>3, <1>4, <3>1, VifKept DEF TablesInv
  <2>2. \A i \in VifIdx : OfOthers(i)' <=> OfOthers(i)
    BY <1>2 DEF OfOthers, IsUp
  <2> QED BY <1>1, <1>3, <1>5, <2>1, <2>2 DEF FwInv, TablesInv
<1> QED BY <1>6, <1>7

\* The interface is put back with an idle BSS; that of an AP is brought up again,
\* and marked when the AP is not started.
LEMMA ResetIterFw ==
  ASSUME TablesInv, NEW v \in Vifs, ResetIter(v)
  PROVE  FwInv'
<1> DEFINE i == vif[v].idx
           bss(h) == Then(UniAddBss(h, v, i, TRUE), LAMBDA g : OwnRec(g, i))
           added(h) == IF v \in APs THEN bss(h) ELSE {h}
           set == IF v \in APs /\ ~vif[v].assoc THEN {<<"bss", i>>} ELSE {}
<1>1. /\ v \in rst.left /\ UNCHANGED <<vif, sta>>
      /\ disc' = IF v \in APs THEN disc ELSE disc \cup {v}
  BY Zenon DEF ResetIter
<1>2. IsUp(v) /\ i \in VifIdx /\ fw \in Fw
  BY <1>1 DEF TablesInv, DriverInv, DriverType, VifType, FwInv, PeersInOrder
<1>3. PICK f \in Then(UniAddDev(fw, i, TRUE), added) : fw' = LeftOn(Done(f), set)
  BY DEF ResetIter
<1>4. PICK g \in UniAddDev(fw, i, TRUE) : f \in added(g)
  <2> HIDE DEF added
  <2> QED BY <1>3 DEF Then
<1>5. /\ VifSide(fw, g, i) /\ g.mon = fw.mon
      /\ <<"mon", i>> \in g.dirty <=> <<"mon", i>> \in fw.dirty
      /\ <<"dev", i>> \notin g.dirty => i \in g.dev
      /\ \/ /\ g.bss[i] = fw.bss[i]
            /\ <<"bss", i>> \in g.dirty <=> <<"bss", i>> \in fw.dirty
         \/ <<"bss", i>> \in g.dirty
         \/ g.bss[i] = "idle"
  <2> HIDE DEF added, i
  <2> QED BY <1>2, <1>4, UniAddDevDoes
<1>6. g \in Fw
  BY <1>5 DEF VifSide
<1>7. /\ VifSide(fw, f, i) /\ f.mon = fw.mon
      /\ <<"mon", i>> \in f.dirty <=> <<"mon", i>> \in fw.dirty
      /\ <<"dev", i>> \notin f.dirty => i \in f.dev
      /\ IF v \in APs THEN <<"bss", i>> \notin f.dirty => f.bss[i] = "up"
         ELSE \/ /\ f.bss[i] = fw.bss[i]
                 /\ <<"bss", i>> \in f.dirty <=> <<"bss", i>> \in fw.dirty
              \/ <<"bss", i>> \in f.dirty
              \/ f.bss[i] = "idle"
  <2>1. CASE v \notin APs
    BY <1>4, <1>5, <2>1
  <2>2. CASE v \in APs
    <3>1. PICK h \in UniAddBss(g, v, i, TRUE) : f \in OwnRec(h, i)
      BY <1>4, <2>2 DEF Then
    <3>2. /\ VifSide(g, h, i) /\ h.dev = g.dev /\ h.mon = g.mon
          /\ \A l \in {"dev", "mon"} : <<l, i>> \in h.dirty <=> <<l, i>> \in g.dirty
          /\ <<"bss", i>> \notin h.dirty => h.bss[i] = BssAfter(v, TRUE)
          /\ h.err <=> <<"bss", i>> \in h.dirty
      BY <1>2, <1>6, <3>1, UniAddBssDoes, Zenon
    <3>3. h \in Fw /\ VifSide(fw, h, i)
      BY <1>2, <1>5, <1>6, <3>2, SidesAreTransitive DEF VifSide
    <3>4. /\ VifSide(h, f, i) /\ SameTables(h, f)
          /\ \A l \in {"dev", "bss", "mon"} : <<l, i>> \in f.dirty <=> <<l, i>> \in h.dirty
      BY <1>2, <3>1, <3>3, OwnRecDoes
    <3>5. VifSide(fw, f, i)
      <4>1. f \in Fw
        BY <3>4 DEF VifSide
      <4> QED BY <1>2, <3>3, <3>4, <4>1, SidesAreTransitive
    <3> QED BY <1>5, <2>2, <3>2, <3>4, <3>5 DEF BssAfter, SameTables
  <2> QED BY <2>1, <2>2
<1>8. f \in Fw /\ set \in SUBSET {<<"bss", i>>, <<"mon", i>>}
  BY <1>7 DEF VifSide
<1> HIDE DEF added
<1>9. /\ fw' \in Fw /\ ~fw'.err /\ VifSide(fw, fw', i)
      /\ fw'.dev = f.dev /\ fw'.bss = f.bss /\ fw'.mon = fw.mon
      /\ fw'.dirty = f.dirty \cup set
  <2> HIDE DEF i, set
  <2> QED BY <1>2, <1>3, <1>7, <1>8, DoneLeftOn DEF SameTables
<1>10. /\ \A s \in Live' : RecAgrees(s)'
       /\ \A u \in Vifs : Connected(u)' <=> Connected(u)
  BY <1>1, <1>9, RecsKept DEF VifSide
<1>11. VifAgrees(v)'
  <2>1. VifAgrees(v)
    BY <1>2 DEF TablesInv, FwInv
  <2>2. /\ \A l \in {"dev", "mon"} : <<l, i>> \in fw'.dirty <=> <<l, i>> \in f.dirty
        /\ v \in APs /\ ~vif[v].assoc => <<"bss", i>> \in fw'.dirty
        /\ ~(v \in APs /\ ~vif[v].assoc) => fw'.dirty = f.dirty
    BY <1>9
  <2> QED BY <1>1, <1>7, <1>9, <1>10, <2>1, <2>2 DEF VifAgrees, BssAgrees
<1>12. \A j \in VifIdx : j # i => SameVif(fw, fw', j)
  BY <1>9 DEF VifSide
<1> QED BY <1>1, <1>2, <1>9, <1>10, <1>11, <1>12, VifCommand

\* Empty tables: every entry in use is marked as lost.
LEMMA ResetDevFw ==
  ASSUME TablesInv, ResetDev
  PROVE  FwInv'
<1>1. /\ UNCHANGED <<vif, sta, disc>>
      /\ fw' = [dev |-> NoFw.dev, bss |-> NoFw.bss, mon |-> NoFw.mon, rec |-> NoFw.rec,
                key |-> NoFw.key, ba |-> NoFw.ba,
                dirty |-> Entries, hung |-> FALSE, faults |-> fw.faults, err |-> FALSE]
  BY Zenon DEF ResetDev
<1>2. /\ \A v \in Vifs : vif[v].idx \in VifIdx
      /\ \A s \in Stas : sta[s].st # "gone" => sta[s].idx \in StaIdx
  BY DEF TablesInv, DriverInv, DriverType, VifType, IndicesOwned, Live
<1>3. Entries \subseteq Keys
  BY <1>2 DEF Entries, Keys, VifKeys, StaKeys
<1>4. /\ \A v \in Vifs, k \in VifKeys : IsUp(v) => <<k, vif[v].idx>> \in Entries
      /\ \A s \in Live, k \in StaKeys : <<k, sta[s].idx>> \in Entries
  BY DEF Entries, IsUp, Live, VifKeys, StaKeys
<1>5. /\ fw'.mon = {} /\ fw'.key = {} /\ fw'.dirty = Entries /\ ~fw'.err
      /\ fw'.rec = [i \in StaIdx |-> None]
  BY <1>1 DEF NoFw
<1>6. fw' \in Fw
  <2>1. /\ NoFw.dev = {} /\ NoFw.mon = {} /\ NoFw.key = {} /\ NoFw.ba = {}
        /\ NoFw.bss \in [VifIdx -> BssStates] /\ NoFw.rec \in [StaIdx -> Stas \cup {None}]
    BY DEF NoFw, BssStates
  <2>2. fw.faults \in 0 .. MaxFaults
    BY DEF TablesInv, FwInv, Fw
  <2> QED BY <1>1, <1>3, <2>1, <2>2 DEF Fw
<1>7. \A v \in Vifs : IsUp(v)' => VifAgrees(v)'
  BY <1>1, <1>4, <1>5 DEF IsUp, VifAgrees, BssAgrees, VifKeys
<1>8. \A s \in Live' : RecAgrees(s)'
  <2> SUFFICES ASSUME NEW s \in Live' PROVE RecAgrees(s)'
    OBVIOUS
  <2>1. s \in Live /\ s \in Stas /\ sta[s].idx \in StaIdx /\ sta' = sta
    BY <1>1, <1>2 DEF Live
  <2>2. fw'.rec[sta[s].idx] = None /\ s # None
    BY <1>5, <2>1, FwAssumption
  <2>3. <<"rec", sta[s].idx>> \in fw'.dirty
    BY <1>4, <1>5, <2>1 DEF StaKeys
  <2> QED BY <1>5, <2>1, <2>2, <2>3 DEF RecAgrees
<1> QED BY <1>5, <1>6, <1>7, <1>8 DEF FwInv

\* A step about the peer s leaves the records of the others alone.
LEMMA OtherRecs ==
  ASSUME TablesInv, NEW s \in Live, \A t \in Stas : t # s => sta'[t] = sta[t],
         \A j \in StaIdx : j # sta[s].idx => SameRec(fw, fw', j)
  PROVE  \A t \in Live' : t # s => RecAgrees(t)'
<1> SUFFICES ASSUME NEW t \in Live', t # s PROVE RecAgrees(t)'
  OBVIOUS
<1>1. t \in Live /\ sta'[t] = sta[t]
  BY DEF Live
<1>2. sta[t].idx \in StaIdx /\ sta[t].idx # sta[s].idx
  BY <1>1 DEF TablesInv, DriverInv, IndicesOwned
<1> QED BY <1>1, <1>2, RecKept DEF TablesInv

\* Who is connected does not change while the reports of association do not.
LEMMA ConnectedKept ==
  ASSUME \A t \in Stas : /\ sta'[t].conn = sta[t].conn
                         /\ sta'[t].st = "gone" <=> sta[t].st = "gone"
  PROVE  \A u \in Vifs : Connected(u)' <=> Connected(u)
  BY DEF Connected, Peers, OfVif

\* No command, or one about the peer's own entry.
LEMMA PeerMovesFw ==
  ASSUME TablesInv, NEW s \in Stas, StaDisassoc(s) \/ PreRcuRemove(s)
  PROVE  FwInv'
<1>1. /\ s \in Live /\ UNCHANGED <<vif, fw, disc>>
      /\ \E st \in {"none", "leaving"} : sta' = [sta EXCEPT ![s].st = st]
  <2>1. CASE StaDisassoc(s)
    BY <2>1, Zenon DEF StaDisassoc, Live
  <2>2. CASE PreRcuRemove(s)
    BY <2>2, Zenon DEF PreRcuRemove, Live
  <2> QED BY <2>1, <2>2
<1>2. \A t \in Stas : /\ sta'[t].conn = sta[t].conn /\ sta'[t].idx = sta[t].idx
                      /\ sta'[t].ba = sta[t].ba
                      /\ sta'[t].st = "gone" <=> sta[t].st = "gone"
  BY <1>1 DEF TablesInv, DriverInv, DriverType, StaType, Live
<1>3. \A t \in Live' : RecAgrees(t)'
  <2>1. \A t \in Live' : t \in Live /\ sta'[t].idx = sta[t].idx /\ sta'[t].ba = sta[t].ba
    BY <1>2 DEF Live
  <2> QED BY <1>1, <2>1, SameIsReflexive, RecKept DEF TablesInv
<1>4. fw' \in Fw /\ ~fw'.err /\ \A j \in VifIdx : SameVif(fw, fw', j)
  BY <1>1, SameIsReflexive DEF TablesInv, FwInv
<1> QED BY <1>1, <1>2, <1>3, <1>4, ConnectedKept, PeerCommand

LEMMA SetKeyFw ==
  ASSUME TablesInv, NEW s \in Stas, SetKey(s)
  PROVE  FwInv'
<1> DEFINE i == sta[s].idx
<1>1. s \in Live /\ UNCHANGED <<vif, sta, disc>>
  BY DEF SetKey, Live
<1>2. PICK f \in AddKey(fw, i, s) : fw' = Done(f)
  BY DEF SetKey
<1>3. i \in StaIdx /\ fw \in Fw
  BY <1>1 DEF TablesInv, DriverInv, IndicesOwned, FwInv
<1>4. /\ StaSide(fw, f, i) /\ f.rec = fw.rec /\ f.ba = fw.ba
      /\ f.key \in {fw.key, fw.key \cup {<<i, s>>}}
      /\ f.dirty = fw.dirty
  BY <1>2, <1>3, AddKeyDoes
<1>5. f \in Fw
  BY <1>4 DEF StaSide
<1>6. /\ fw' \in Fw /\ ~fw'.err /\ StaSide(fw, fw', i)
      /\ fw'.rec = f.rec /\ fw'.ba = f.ba /\ fw'.key = f.key /\ fw'.dirty = f.dirty
  BY <1>2, <1>3, <1>4, <1>5, DoneIs, SidesOfDone DEF SameTables
<1>7. RecAgrees(s)'
  <2>1. RecAgrees(s)
    BY <1>1 DEF TablesInv, FwInv
  <2> QED BY <1>1, <1>4, <1>6, <2>1 DEF RecAgrees
<1>8. \A t \in Live' : RecAgrees(t)'
  BY <1>1, <1>6, <1>7, OtherRecs DEF StaSide
<1> QED BY <1>1, <1>6, <1>8, ConnectedKept, PeerCommand DEF StaSide

LEMMA AmpduRxFw ==
  ASSUME TablesInv, NEW s \in Stas, NEW on \in BOOLEAN, AmpduRx(s, on)
  PROVE  FwInv'
<1> DEFINE i == sta[s].idx
<1>1. s \in Live /\ UNCHANGED <<vif, disc>> /\ sta' = [sta EXCEPT ![s].ba = on]
  BY DEF AmpduRx, Live
<1>2. PICK f \in StaBa(fw, i, on) : fw' = Done(f)
  BY DEF AmpduRx
<1>3. i \in StaIdx /\ fw \in Fw
  BY <1>1 DEF TablesInv, DriverInv, IndicesOwned, FwInv
<1>4. /\ StaSide(fw, f, i) /\ f.rec = fw.rec /\ f.key = fw.key
      /\ <<"rec", i>> \in f.dirty <=> <<"rec", i>> \in fw.dirty
      /\ fw.rec[i] # None /\ <<"ba", i>> \notin f.dirty => (i \in f.ba <=> on)
  <2> HIDE DEF i
  <2> QED BY <1>2, <1>3, StaBaDoes
<1>5. f \in Fw
  BY <1>4 DEF StaSide
<1>6. /\ fw' \in Fw /\ ~fw'.err /\ StaSide(fw, fw', i)
      /\ fw'.rec = f.rec /\ fw'.ba = f.ba /\ fw'.key = f.key /\ fw'.dirty = f.dirty
  BY <1>2, <1>3, <1>4, <1>5, DoneIs, SidesOfDone DEF SameTables
<1>7. \A t \in Stas : /\ sta'[t].conn = sta[t].conn /\ sta'[t].st = sta[t].st
                      /\ sta'[t].idx = sta[t].idx /\ (t # s => sta'[t] = sta[t])
                      /\ sta'[s].ba = on
  BY <1>1 DEF TablesInv, DriverInv, DriverType, StaType, Live
<1>8. RecAgrees(s)'
  <2>1. RecAgrees(s) /\ s # None /\ s \in Stas
    BY <1>1, FwAssumption DEF TablesInv, FwInv, Live
  <2> QED BY <1>4, <1>6, <1>7, <2>1 DEF RecAgrees
<1>9. \A t \in Live' : RecAgrees(t)'
  BY <1>1, <1>6, <1>7, <1>8, OtherRecs DEF StaSide
<1> QED BY <1>1, <1>6, <1>7, <1>9, ConnectedKept, PeerCommand DEF StaSide

\* A new record, with nothing of an earlier owner, or no peer.
LEMMA StaAddFw ==
  ASSUME TablesInv, NEW s \in Stas, StaAdd(s)
  PROVE  FwInv'
<1> DEFINE v == Home[s]
           i == Least(FreeIdx)
<1>1. i \in FreeIdx
  <2>1. FreeIdx \subseteq Nat /\ FreeIdx # {}
    BY IndexFacts DEF StaAdd, FreeIdx
  <2> QED BY <2>1, LeastIsIn
<1>2. i \in StaIdx /\ i \notin mask /\ fw \in Fw /\ sta[s].st = "gone" /\ disc' = disc
  BY <1>1 DEF FreeIdx, TablesInv, FwInv, StaAdd
<1>3. StaAddSends(s, i)
  BY DEF StaAdd
<1> HIDE DEF i
<1>4. \A u \in Vifs : /\ vif'[u].up = vif[u].up /\ vif'[u].idx = vif[u].idx
                      /\ vif'[u].assoc = vif[u].assoc /\ vif'[u].tear = vif[u].tear
  <2>1. vif' = vif \/ vif' = [vif EXCEPT ![v].wep = IF v \in APs THEN @ ELSE s]
    BY <1>3 DEF StaAddSends
  <2> QED BY <2>1 DEF TablesInv, DriverInv, DriverType, VifType
<1>5. CASE MayFail(fw) /\ fw' = OneFault(fw) /\ UNCHANGED sta
  <2>1. fw' \in Fw /\ ~fw'.err /\ SameTables(fw, fw') /\ fw'.dirty = fw.dirty
    BY <1>2, <1>5, FwAssumption DEF MayFail, OneFault, Fw, SameTables, TablesInv, FwInv
  <2>2. \A j : SameVif(fw, fw', j) /\ SameRec(fw, fw', j)
    BY <2>1 DEF SameVif, SameRec, SameTables
  <2> QED BY <1>2, <1>4, <1>5, <2>1, <2>2, RecsKept, PeerCommand
<1>6. CASE \E f \in StaCmd(fw, i, s, TRUE, TRUE) :
             /\ fw' = Done(f)
             /\ IF f.err THEN UNCHANGED sta
                ELSE sta' = [sta EXCEPT ![s] = [NoSta EXCEPT !.st = "none", !.idx = i]]
  <2>1. PICK f \in StaCmd(fw, i, s, TRUE, TRUE) :
             /\ fw' = Done(f)
             /\ IF f.err THEN UNCHANGED sta
                ELSE sta' = [sta EXCEPT ![s] = [NoSta EXCEPT !.st = "none", !.idx = i]]
    BY <1>6
  <2>2. /\ StaSide(fw, f, i)
        /\ ~f.err => f.rec[i] = s /\ i \notin f.ba /\ \A t \in Stas : <<i, t>> \notin f.key
    <3> DEFINE on == TRUE
    <3>1. on \in BOOLEAN /\ f \in StaCmd(fw, i, s, on, on) /\ on
      BY <2>1
    <3> HIDE DEF on
    <3> QED BY <1>2, <3>1, StaCmdSets
  <2>3. f \in Fw
    BY <2>2 DEF StaSide
  <2>4. /\ fw' \in Fw /\ ~fw'.err /\ StaSide(fw, fw', i)
        /\ fw'.rec = f.rec /\ fw'.ba = f.ba /\ fw'.key = f.key /\ fw'.dirty = f.dirty
    BY <1>2, <2>1, <2>2, <2>3, DoneIs, SidesOfDone DEF SameTables
  <2>5. \A t \in Live : t # s /\ sta[t].idx \in StaIdx /\ sta[t].idx # i
    BY <1>2 DEF TablesInv, DriverInv, IndicesOwned, Live
  <2>6. \A t \in Stas : t # s => sta'[t] = sta[t]
    BY <2>1 DEF TablesInv, DriverInv, DriverType, StaType
  <2>7. \A t \in Live' : t # s => RecAgrees(t)'
    <3> SUFFICES ASSUME NEW t \in Live', t # s PROVE RecAgrees(t)'
      OBVIOUS
    <3>1. t \in Live /\ sta'[t] = sta[t]
      BY <2>6 DEF Live
    <3> QED BY <2>4, <2>5, <3>1, RecKept DEF TablesInv, StaSide
  <2>8. s \in Live' => RecAgrees(s)'
    <3>1. CASE f.err
      BY <1>2, <2>1, <3>1 DEF Live
    <3>2. CASE ~f.err
      <4>1. sta'[s].idx = i /\ ~sta'[s].ba
        <5> DEFINE new == [NoSta EXCEPT !.st = "none", !.idx = i]
        <5>1. new.idx = i /\ ~new.ba
          BY DEF NoSta
        <5>2. sta' = [sta EXCEPT ![s] = new]
          BY <2>1, <3>2
        <5> HIDE DEF new
        <5>3. sta'[s] = new
          BY <5>2 DEF TablesInv, DriverInv, DriverType, StaType
        <5> QED BY <5>1, <5>3
      <4> QED BY <2>2, <2>4, <3>2, <4>1 DEF RecAgrees
    <3> QED BY <3>1, <3>2
  <2>9. \A u \in Vifs : Connected(u)' <=> Connected(u)
    <3>1. sta[s].st = "gone" /\ (sta'[s].st = "gone" \/ ~sta'[s].conn)
      BY <1>2, <2>1 DEF TablesInv, DriverInv, DriverType, StaType, NoSta
    <3> QED BY <2>6, <3>1 DEF Connected, Peers, OfVif
  <2> QED BY <1>2, <1>4, <2>4, <2>7, <2>8, <2>9, PeerCommand DEF StaSide
<1> QED BY <1>3, <1>5, <1>6 DEF StaAddSends

LEMMA SameIsTransitive ==
  \A f, g, r, j : /\ SameVif(f, g, j) /\ SameVif(g, r, j) => SameVif(f, r, j)
                  /\ SameRec(f, g, j) /\ SameRec(g, r, j) => SameRec(f, r, j)
  BY DEF SameVif, SameRec

\* The commands of a handler about the BSS of v and the entry i of a peer.
LEMMA BothSides ==
  \A f, g, r \in Fw, i \in StaIdx, j \in VifIdx :
    \/ VifSide(f, g, j) /\ StaSide(g, r, i)
    \/ StaSide(f, g, i) /\ VifSide(g, r, j)
    => /\ \A k \in VifIdx : k # j => SameVif(f, r, k)
       /\ \A k \in StaIdx : k # i => SameRec(f, r, k)
  BY SameIsTransitive DEF VifSide, StaSide

\* The peer of a STATION interface brings the BSS up, whatever becomes of the
\* record's update.
LEMMA StaAssocFw ==
  ASSUME TablesInv, NEW s \in Stas, StaAssoc(s)
  PROVE  FwInv'
<1> DEFINE v == Home[s]
           i == sta[s].idx
           j == vif[v].idx
           apart == v \in APs \/ s \in Tdls
           bss == IF apart THEN {fw} ELSE UniAddBss(fw, v, j, TRUE)
<1>1. /\ s \in Live /\ v \in Vifs /\ IsUp(v) /\ UNCHANGED <<vif, disc>>
      /\ sta' = [sta EXCEPT ![s].st = "assoc", ![s].conn = TRUE]
      /\ ~vif[v].tear
  BY FwAssumption DEF StaAssoc, Live, TablesInv, DriverInv, PeersInOrder
<1>2. PICK f \in Then(bss, LAMBDA g : StaCmd(g, i, s, TRUE, FALSE)) : fw' = Done(f)
  BY DEF StaAssoc
<1>3. PICK g \in bss : f \in StaCmd(g, i, s, TRUE, FALSE)
  <2> HIDE DEF bss
  <2> QED BY <1>2 DEF Then
<1>4. /\ i \in StaIdx /\ j \in VifIdx /\ fw \in Fw /\ s \in Stas /\ s # None
      /\ RecAgrees(s) /\ VifAgrees(v)
  BY <1>1, FwAssumption
     DEF TablesInv, DriverInv, DriverType, VifType, IndicesOwned, FwInv, Live
<1>5. /\ VifSide(fw, g, j) /\ g.dev = fw.dev /\ g.mon = fw.mon
      /\ \A l \in {"dev", "mon"} : <<l, j>> \in g.dirty <=> <<l, j>> \in fw.dirty
      /\ IF apart THEN g = fw ELSE <<"bss", j>> \notin g.dirty => g.bss[j] = "up"
  <2>1. CASE apart
    BY <1>3, <1>4, <2>1, SameIsReflexive DEF VifSide
  <2>2. CASE ~apart
    <3>1. g \in UniAddBss(fw, v, j, TRUE)
      BY <1>3, <2>2
    <3> HIDE DEF j, v
    <3>2. /\ VifSide(fw, g, j) /\ g.dev = fw.dev /\ g.mon = fw.mon
          /\ \A l \in {"dev", "mon"} : <<l, j>> \in g.dirty <=> <<l, j>> \in fw.dirty
          /\ <<"bss", j>> \notin g.dirty => g.bss[j] = BssAfter(v, TRUE)
          /\ g.err <=> <<"bss", j>> \in g.dirty
      BY <1>1, <1>4, <3>1, UniAddBssDoes, Zenon
    <3> QED BY <2>2, <3>2 DEF BssAfter
  <2> QED BY <2>1, <2>2
<1>6. g \in Fw
  BY <1>5 DEF VifSide
<1>7. /\ StaSide(g, f, i) /\ SameTables(g, f)
      /\ <<"ba", i>> \in f.dirty <=> <<"ba", i>> \in g.dirty
      /\ <<"rec", i>> \notin f.dirty => <<"rec", i>> \notin g.dirty \/ g.rec[i] # None
  BY <1>3, <1>4, <1>6, StaCmdUpdates
<1>8. f \in Fw
  BY <1>7 DEF StaSide
<1>9. /\ fw' \in Fw /\ ~fw'.err /\ SameTables(f, fw') /\ fw'.dirty = f.dirty
      /\ StaSide(g, fw', i)
  BY <1>2, <1>4, <1>6, <1>7, <1>8, DoneIs, SidesOfDone
<1> HIDE DEF bss
<1>10. /\ \A k \in VifIdx : k # j => SameVif(fw, fw', k)
       /\ \A k \in StaIdx : k # i => SameRec(fw, fw', k)
  BY <1>4, <1>5, <1>6, <1>9, BothSides, Zenon
<1>11. /\ \A t \in Stas : t # s => sta'[t] = sta[t]
       /\ sta'[s].idx = i /\ sta'[s].ba = sta[s].ba /\ sta'[s].conn /\ sta'[s].st = "assoc"
  BY <1>1 DEF TablesInv, DriverInv, DriverType, StaType, Live
<1>12. RecAgrees(s)'
  <2>1. SameRec(fw, g, i)
    BY <1>4, <1>5 DEF VifSide
  <2>2. /\ fw'.rec[i] = fw.rec[i] /\ (i \in fw'.ba <=> i \in fw.ba)
        /\ \A t \in Stas : <<i, t>> \in fw'.key <=> <<i, t>> \in fw.key
        /\ <<"ba", i>> \in fw'.dirty <=> <<"ba", i>> \in fw.dirty
        /\ <<"rec", i>> \notin fw'.dirty => <<"rec", i>> \notin fw.dirty \/ fw.rec[i] # None
    BY <1>7, <1>9, <2>1 DEF SameRec, SameTables, StaKeys
  <2> QED BY <1>4, <1>11, <2>2 DEF RecAgrees
<1>13. \A t \in Live' : RecAgrees(t)'
  BY <1>1, <1>10, <1>11, <1>12, OtherRecs
<1>14. \A u \in Vifs : u # v => (Connected(u)' <=> Connected(u))
  BY <1>11 DEF Connected, Peers, OfVif
<1>15. VifAgrees(v)'
  <2>1. SameVif(g, fw', j)
    BY <1>4, <1>9 DEF StaSide
  <2>2. CASE apart
    <3>1. SameVif(fw, fw', j)
      BY <1>5, <2>1, <2>2
    <3>2. CASE v \in APs
      BY <1>1, <1>4, <3>1, <3>2 DEF VifAgrees, BssAgrees, SameVif, VifKeys
    <3>3. CASE v \notin APs
      <4>1. s \in Tdls
        BY <2>2, <3>3
      <4>2. Connected(v)' <=> Connected(v)
        BY <1>11, <4>1 DEF Connected, Peers, OfVif
      <4> QED BY <1>1, <3>1, <4>2, VifKept DEF TablesInv
    <3> QED BY <3>2, <3>3
  <2>3. CASE ~apart
    <3>1. Connected(v)'
      BY <1>4, <1>11, <2>3 DEF Connected, Peers, OfVif
    <3>2. /\ <<"dev", j>> \notin fw'.dirty => j \in fw'.dev
          /\ <<"mon", j>> \notin fw'.dirty => (j \in fw'.mon <=> vif[v].assoc)
          /\ <<"bss", j>> \notin fw'.dirty => fw'.bss[j] = "up"
      BY <1>4, <1>5, <2>1, <2>3 DEF SameVif, VifKeys, VifAgrees
    <3> QED BY <1>1, <2>3, <3>1, <3>2 DEF VifAgrees, BssAgrees
  <2> QED BY <2>2, <2>3
<1> QED BY <1>1, <1>9, <1>10, <1>13, <1>14, <1>15, VifCommand

\* The record goes, and with the peer of a STATION interface the BSS is idle.
LEMMA StaRemoveFw ==
  ASSUME TablesInv, NEW s \in Stas, StaRemove(s)
  PROVE  FwInv'
<1> DEFINE v == Home[s]
           i == sta[s].idx
           j == vif[v].idx
           apart == v \in APs \/ s \in Tdls
           bss(h) == IF apart THEN {h} ELSE UniAddBss(h, v, j, FALSE)
           ba == IF sta[s].ba THEN StaBa(fw, i, FALSE) ELSE {fw}
           cmd(h) == StaCmd(h, i, s, FALSE, FALSE)
<1>1. /\ s \in Live /\ v \in Vifs /\ IsUp(v) /\ disc' = disc
      /\ vif' = [vif EXCEPT ![v].wep = IF v \in APs THEN @ ELSE None]
      /\ sta' = [sta EXCEPT ![s] = NoSta]
  BY FwAssumption DEF StaRemove, Live, TablesInv, DriverInv, PeersInOrder
<1>2. PICK f \in Then(Then(ba, cmd), bss) : fw' = Done(f)
  BY DEF StaRemove
<1>3. PICK h \in Then(ba, cmd) : f \in bss(h)
  <2> HIDE DEF bss, ba, cmd
  <2> QED BY <1>2 DEF Then
<1>4. PICK g \in ba : h \in cmd(g)
  <2> HIDE DEF bss, ba, cmd
  <2> QED BY <1>3 DEF Then
<1>5. /\ i \in StaIdx /\ j \in VifIdx /\ fw \in Fw /\ s \in Stas /\ VifAgrees(v)
  BY <1>1 DEF TablesInv, DriverInv, DriverType, VifType, IndicesOwned, FwInv, Live
<1>6. StaSide(fw, g, i)
  <2>1. CASE ~sta[s].ba
    BY <1>4, <1>5, <2>1, SameIsReflexive DEF StaSide
  <2>2. CASE sta[s].ba
    <3> DEFINE on == FALSE
    <3>1. on \in BOOLEAN /\ g \in StaBa(fw, i, on)
      BY <1>4, <2>2
    <3> HIDE DEF on, i
    <3> QED BY <1>5, <3>1, StaBaDoes
  <2> QED BY <2>1, <2>2
<1>7. g \in Fw
  BY <1>6 DEF StaSide
<1>8. StaSide(g, h, i)
  <2> DEFINE on == FALSE
  <2>1. on \in BOOLEAN /\ h \in StaCmd(g, i, s, on, on) /\ ~on
    BY <1>4
  <2> HIDE DEF on, i
  <2> QED BY <1>5, <1>7, <2>1, StaCmdSets
<1>9. h \in Fw
  BY <1>8 DEF StaSide
<1>10. StaSide(fw, h, i)
  BY <1>5, <1>6, <1>7, <1>8, <1>9, SidesAreTransitive
<1>11. /\ VifSide(h, f, j) /\ f.dev = h.dev /\ f.mon = h.mon
       /\ \A l \in {"dev", "mon"} : <<l, j>> \in f.dirty <=> <<l, j>> \in h.dirty
       /\ IF apart THEN f = h ELSE <<"bss", j>> \notin f.dirty => f.bss[j] = "idle"
  <2>1. CASE apart
    BY <1>3, <1>9, <2>1, SameIsReflexive DEF VifSide
  <2>2. CASE ~apart
    <3> DEFINE on == FALSE
    <3>1. on \in BOOLEAN /\ f \in UniAddBss(h, v, j, on) /\ ~on
      BY <1>3, <2>2
    <3> HIDE DEF j, v, on, bss, ba, cmd, apart
    <3>2. /\ VifSide(h, f, j) /\ f.dev = h.dev /\ f.mon = h.mon
          /\ \A l \in {"dev", "mon"} : <<l, j>> \in f.dirty <=> <<l, j>> \in h.dirty
          /\ <<"bss", j>> \notin f.dirty => f.bss[j] = BssAfter(v, on)
      BY <1>1, <1>5, <1>9, <3>1, UniAddBssDoes
    <3> QED BY <2>2, <3>1, <3>2 DEF BssAfter, apart
  <2> QED BY <2>1, <2>2
<1>12. f \in Fw
  BY <1>11 DEF VifSide
<1> HIDE DEF bss, ba, cmd
<1>13. /\ fw' \in Fw /\ ~fw'.err /\ SameTables(f, fw') /\ fw'.dirty = f.dirty
       /\ VifSide(h, fw', j)
  BY <1>2, <1>5, <1>9, <1>11, <1>12, DoneIs, SidesOfDone
<1>14. /\ \A k \in VifIdx : k # j => SameVif(fw, fw', k)
       /\ \A k \in StaIdx : k # i => SameRec(fw, fw', k)
  BY <1>5, <1>9, <1>10, <1>13, BothSides, Zenon
<1>15. /\ \A t \in Stas : t # s => sta'[t] = sta[t]
       /\ sta'[s].st = "gone"
  BY <1>1 DEF TablesInv, DriverInv, DriverType, StaType, NoSta
<1>16. \A t \in Live' : RecAgrees(t)'
  <2>1. s \notin Live'
    BY <1>15 DEF Live
  <2> QED BY <1>1, <1>14, <1>15, <2>1, OtherRecs
<1>17. \A u \in Vifs : /\ vif'[u].up = vif[u].up /\ vif'[u].idx = vif[u].idx
                       /\ vif'[u].assoc = vif[u].assoc /\ vif'[u].tear = vif[u].tear
  BY <1>1 DEF TablesInv, DriverInv, DriverType, VifType
<1>18. \A u \in Vifs : u # v \/ s \in Tdls => (Connected(u)' <=> Connected(u))
  BY <1>15 DEF Connected, Peers, OfVif
<1>19. VifAgrees(v)'
  <2>1. SameVif(fw, h, j)
    BY <1>5, <1>10 DEF StaSide
  <2>2. CASE apart
    <3>1. SameVif(fw, fw', j)
      BY <1>11, <1>13, <2>1, <2>2 DEF SameVif, SameTables
    <3>2. CASE v \in APs
      BY <1>1, <1>5, <1>17, <3>1, <3>2 DEF VifAgrees, BssAgrees, SameVif, VifKeys
    <3>3. CASE v \notin APs
      BY <1>1, <1>17, <1>18, <2>2, <3>1, <3>3, VifKept DEF TablesInv
    <3> QED BY <3>2, <3>3
  <2>3. CASE ~apart
    <3>1. ~Connected(v)'
      <4>1. \A t \in Stas : t # s /\ t \in Live /\ Home[t] = v => t \in Tdls
        BY <1>1, <2>3 DEF TablesInv, DriverInv, PeersInOrder
      <4>2. \A t \in Peers(v)' : t # s /\ t \in Live /\ Home[t] = v /\ t \in Stas /\ t \notin Tdls
        BY <1>15 DEF Peers, OfVif, Live
      <4> QED BY <4>1, <4>2 DEF Connected
    <3>2. /\ <<"dev", j>> \notin fw'.dirty => j \in fw'.dev
          /\ <<"mon", j>> \notin fw'.dirty => (j \in fw'.mon <=> vif[v].assoc)
          /\ <<"bss", j>> \notin fw'.dirty => fw'.bss[j] = "idle"
      BY <1>5, <1>11, <1>13, <2>1, <2>3 DEF SameVif, VifKeys, VifAgrees, SameTables
    <3> QED BY <1>1, <1>17, <2>3, <3>1, <3>2 DEF VifAgrees, BssAgrees
  <2> QED BY <2>2, <2>3
<1> QED BY <1>1, <1>13, <1>14, <1>16, <1>17, <1>18, <1>19, VifCommand

LEMMA FwStep ==
  ASSUME TablesInv, TablesNext
  PROVE  FwInv'
<1>1. ASSUME NEW v \in Vifs, Mac80211(v) PROVE FwInv'
  BY <1>1, AddInterfaceFw, RemoveInterfaceFw, BssInfoChangedFw, StartApFw, StopApFw, DisconnectFw
     DEF Mac80211
<1>2. ASSUME NEW s \in Stas, Mac80211Sta(s) PROVE FwInv'
  BY <1>2, StaAddFw, StaAssocFw, StaRemoveFw, PeerMovesFw, SetKeyFw, AmpduRxFw DEF Mac80211Sta
<1>3. CASE ResetEnd
  BY <1>3 DEF ResetEnd, TablesInv, FwInv, OfOthers, IsUp, VifAgrees, BssAgrees, RecAgrees,
     Connected, Peers, OfVif, Live
<1> QED BY <1>1, <1>2, <1>3, ResetDevFw, ResetIterFw DEF TablesNext, Reset

LEMMA TablesInit_Inv == TablesInit => TablesInv
<1> SUFFICES ASSUME TablesInit PROVE TablesInv
  OBVIOUS
<1>1. /\ vif = [v \in Vifs |-> NoVif] /\ sta = [s \in Stas |-> NoSta] /\ mask = {0}
      /\ wcid = [i \in Wcids |-> None]
      /\ rst = [on |-> FALSE, left |-> {}] /\ disc = {} /\ wiped = {}
  BY DEF TablesInit
<1>2. Live = {} /\ \A v \in Vifs : ~vif[v].up /\ ~vif[v].tear
  BY <1>1 DEF Live, NoSta, NoVif
<1>3. DriverType
  BY <1>1, IndexFacts DEF DriverType, VifType, StaType, NoVif, NoSta
<1>4. IndicesOwned /\ PeersInOrder /\ WipedPeersGo
  BY <1>1, <1>2, IndexFacts DEF IndicesOwned, PeersInOrder, WipedPeersGo
<1>5. /\ fw.mon = {} /\ ~fw.err
      /\ fw = [dev |-> {}, bss |-> [i \in VifIdx |-> "off"], mon |-> {},
               rec |-> [i \in StaIdx |-> None], key |-> {}, ba |-> {},
               dirty |-> {}, hung |-> FALSE, faults |-> 0, err |-> FALSE]
  BY DEF TablesInit, NoFw
<1>6. fw \in Fw
  BY <1>5, FwAssumption DEF Fw, BssStates
<1>7. FwInv
  BY <1>2, <1>5, <1>6 DEF FwInv, IsUp
<1> QED BY <1>3, <1>4, <1>7 DEF TablesInv, DriverInv

LEMMA TablesInvariant == TablesSpec => []TablesInv
<1>1. TablesInv /\ [TablesNext]_tables => TablesInv'
  <2> SUFFICES ASSUME TablesInv, [TablesNext]_tables PROVE TablesInv'
    OBVIOUS
  <2>1. CASE TablesNext
    BY <2>1, DriverStep, FwStep DEF TablesInv
  <2>2. CASE UNCHANGED tables
    BY <2>2 DEF tables, TablesInv, DriverInv, DriverType, VifType, StaType, IndicesOwned, Live,
       PeersInOrder, WipedPeersGo, FwInv, OfOthers, IsUp, VifAgrees, BssAgrees, RecAgrees,
       Connected, Peers, OfVif
  <2> QED BY <2>1, <2>2
<1> QED BY <1>1, TablesInit_Inv, PTL DEF TablesSpec

-----------------------------------------------------------------------------
\* mac80211.c, util.c, main.c: every peer and interface has its index and entry to
\* itself, in the driver and in the firmware, whatever commands fail and whenever
\* the chip is reset.
THEOREM IndicesHaveOneOwner == TablesSpec => []OneOwnerPerIndex
<1>1. TablesInv => OneOwnerPerIndex
  <2> SUFFICES ASSUME TablesInv PROVE OneOwnerPerIndex
    OBVIOUS
  <2>1. TablesTypeOK
    BY DEF TablesInv, DriverInv, DriverType, VifType, StaType, FwInv, Fw, TablesTypeOK
  <2>2. NoForeignRecord
    BY DEF TablesInv, FwInv, RecAgrees, NoForeignRecord
  <2> QED BY <2>1, <2>2 DEF TablesInv, DriverInv, IndicesOwned, OneOwnerPerIndex
<1> QED BY <1>1, TablesInvariant, PTL

\* What main.c and mcu.c believe of the firmware's tables is so, but for an entry
\* whose own last command has failed or that a reset has lost.
THEOREM TablesAgree == TablesSpec => []FirmwareAgrees
<1>1. TablesInv => FirmwareAgrees
  <2> SUFFICES ASSUME TablesInv PROVE FirmwareAgrees
    OBVIOUS
  <2>1. \A v \in Vifs : vif[v].up => Agrees(v)
    <3> SUFFICES ASSUME NEW v \in Vifs, vif[v].up PROVE Agrees(v)
      OBVIOUS
    <3>1. VifAgrees(v)
      BY DEF TablesInv, FwInv, IsUp
    <3> QED BY <3>1 DEF VifAgrees, BssAgrees, Agrees, WantBss, Connected
  <2>2. \A s \in Live : AgreesSta(s)
    <3> SUFFICES ASSUME NEW s \in Live PROVE AgreesSta(s)
      OBVIOUS
    <3>1. RecAgrees(s)
      BY DEF TablesInv, FwInv
    <3> QED BY <3>1 DEF RecAgrees, AgreesSta
  <2> QED BY <2>1, <2>2 DEF FirmwareAgrees
<1> QED BY <1>1, TablesInvariant, PTL

\* mac.c, main.c: a peer that the firmware forgot in a reset is on its way out.
THEOREM WipedPeersLeave == TablesSpec => []WipedPeersGo
<1>1. TablesInv => WipedPeersGo
  BY DEF TablesInv, DriverInv
<1> QED BY <1>1, TablesInvariant, PTL
=============================================================================
