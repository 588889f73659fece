----------------------------- MODULE FwTables -----------------------------
(* What the driver believes of its interfaces and stations against the      *)
(* tables of the firmware that carry it out (mt7921/main.c, mt7921/mcu.c,   *)
(* connac_mcu.c, mac80211.c, mt792x_core.c).  Each callback of mac80211 is  *)
(* one action: it holds dev->mutex while it sends its commands.  A command  *)
(* may be refused, or never answered; then the chip is hung until the reset *)
(* work has loaded the firmware again, with empty tables, and has put the   *)
(* interfaces back one by one, without the mutex.                           *)
EXTENDS Naturals, FiniteSets

CONSTANTS
  Vifs,        \* the interfaces user space may create
  APs,         \* those of type AP; the others are of type STATION
  Stas,        \* the peers that may be added
  Home,        \* the interface of each peer
  Tdls,        \* the peers that are TDLS peers of a STATION interface
  MaxVifs,     \* STANDALONE_MT792x_MAX_INTERFACES
  WtblSta,     \* entries a peer may get: index 0 is the global entry
  MaxExtras,   \* bound: keys and block ack sessions at a time
  MaxFaults,   \* bound: commands refused or not answered, failed wake-ups
  None

ASSUME FwAssumption ==
  /\ APs \subseteq Vifs /\ Home \in [Stas -> Vifs]
  /\ Tdls \subseteq {s \in Stas : Home[s] \notin APs}
  /\ MaxVifs \in Nat \ {0} /\ WtblSta \in Nat \ {0} /\ MaxExtras \in Nat /\ MaxFaults \in Nat
  /\ None \notin Vifs \cup Stas

VARIABLES
  vif,   \* per interface: up, idx, assoc (cfg.assoc or the AP is started),
         \* tear (mac80211 is disconnecting it), wep (wep_sta)
  sta,   \* per peer: st, idx, conn (its association was reported), ba
  mask,  \* dev->wcid_mask
  wcid,  \* dev->wcid: the published entries
  fw,    \* the firmware, and how the last commands ended
  rst,   \* the reset work: on, and left, the interfaces it has to put back
  disc,  \* interfaces with a disconnect asked for by the reset work
  wiped  \* peers that were associated when the tables were lost

tables == <<vif, sta, mask, wcid, fw, rst, disc, wiped>>

VifIdx == 0 .. MaxVifs - 1
StaIdx == 1 .. WtblSta - 1
Reserved == WtblSta + MaxVifs
Wcids == 0 .. Reserved

NoVif == [up |-> FALSE, idx |-> 0, assoc |-> FALSE, tear |-> FALSE, wep |-> None]
NoSta == [st |-> "gone", idx |-> 0, conn |-> FALSE, ba |-> FALSE]

Least(S) == CHOOSE i \in S : \A j \in S : i <= j
OfVif(v) == {s \in Stas : Home[s] = v /\ sta[s].st # "gone"}
Peers(v) == OfVif(v) \ Tdls

-----------------------------------------------------------------------------
(* Commands.  f and g are states of the firmware before and after a command *)
(* about the table entry key; the answer is in err.  An entry is dirty from *)
(* a command that failed, or a reset, until one that sets it; also when     *)
(* nobody takes back what was set for an AP that is not started.            *)
NoFw == [dev |-> {}, bss |-> [i \in VifIdx |-> "off"],
         mon |-> {}, rec |-> [i \in StaIdx |-> None],
         key |-> {}, ba |-> {}]

Fails(f, key) == [f EXCEPT !.err = TRUE, !.dirty = @ \cup {key}]
MayFail(f) == f.faults < MaxFaults
OneFault(f) == [f EXCEPT !.faults = @ + 1]

Answers(f, key, g) ==
  IF f.hung THEN {Fails(f, key)}
  ELSE {[g EXCEPT !.err = FALSE]} \cup
       (IF MayFail(f)
        THEN {Fails(OneFault(f), key), [Fails(OneFault(f), key) EXCEPT !.hung = TRUE]}
        ELSE {})

Send(f, key, g) == Answers(f, key, [g EXCEPT !.dirty = @ \ {key}])

\* The caller goes on whatever the answer, or only if there was no error.
Then(S, F(_)) == UNION {F(f) : f \in S}
IfOk(S, F(_)) == UNION {IF f.err THEN {f} ELSE F(f) : f \in S}

DevInfo(f, i, on) ==
  Send(f, <<"dev", i>>, [f EXCEPT !.dev = IF on THEN @ \cup {i} ELSE @ \ {i}])

\* The error of deactivating a BSS that is not active is ignored.
BssState(f, i, st) == Send(f, <<"bss", i>>, [f EXCEPT !.bss[i] = st])

\* Device first and BSS second, in the other order to take them down; a first
\* error ends it.  The BSS is active but not connected.
UniAddDev(f, i, on) ==
  IF on THEN IfOk(DevInfo(f, i, TRUE), LAMBDA g : BssState(g, i, "idle"))
        ELSE IfOk(BssState(f, i, "off"), LAMBDA g : DevInfo(g, i, FALSE))

\* More commands that set parameters of the BSS, its channel last.
BssParams(f, i) == Send(f, <<"bss", i>>, f)

\* Mutant: a BSS that is left is turned off, whatever its interface.
UniAddBssOff(f, v, i, on) ==
  IfOk(BssState(f, i, IF on THEN "up" ELSE "off"), LAMBDA g : BssParams(g, i))

UniAddBss(f, v, i, on) ==
  LET st == IF on THEN "up" ELSE IF v \in APs THEN "off" ELSE "idle"
  IN IfOk(BssState(f, i, st), LAMBDA g : BssParams(g, i))

\* Beacon monitoring: SET_BSS_ABORT, and SET_BSS_CONNECTED to turn it on.
BssPm(f, i, on) ==
  Send(f, <<"mon", i>>, [f EXCEPT !.mon = IF on THEN @ \cup {i} ELSE @ \ {i}])

BeaconFilter(f, i, on) ==
  IfOk(BssPm(f, i, on), LAMBDA g : Send(g, <<"mon", i>>, g))

\* Whether the last command about the entry failed does not matter here.
Unmarked(f, S) == {[r EXCEPT !.dirty = f.dirty] : r \in S}

\* mcu_sta_update of an AP, without a peer: of the record of the interface itself
\* nothing but the answer matters here.
OwnRec(f, i) == Unmarked(f, Answers(f, <<"own", i>>, f))

\* What stays turned on for an AP that is not started.
LeftOn(f, keys) == [f EXCEPT !.dirty = @ \cup keys]

\* A command about a record the firmware does not have is without effect.
Known(f, i, key, g) ==
  IF f.rec[i] = None THEN Answers(f, key, f) ELSE Send(f, key, g)

\* A new record replaces what the entry held, keys and sessions included.
StaCmd(f, i, s, enable, newly) ==
  LET clean == [f EXCEPT !.rec[i] = IF enable THEN s ELSE None,
                         !.key = @ \ {k \in @ : k[1] = i}, !.ba = @ \ {i}]
  IN IF newly \/ ~enable
     THEN Send(f, <<"rec", i>>, [clean EXCEPT !.dirty = @ \ {<<"ba", i>>}])
     ELSE Known(f, i, <<"rec", i>>, f)

AddKey(f, i, s) ==
  Unmarked(f, Known(f, i, <<"key", i>>, [f EXCEPT !.key = @ \cup {<<i, s>>}]))

\* Two commands, for the WTBL and for the record.
StaBa(f, i, on) ==
  LET set(g) == [g EXCEPT !.ba = IF on THEN @ \cup {i} ELSE @ \ {i}]
  IN IfOk(Known(f, i, <<"ba", i>>, f), LAMBDA g : Known(g, i, <<"ba", i>>, set(g)))

\* The state of the firmware after the commands of a handler.
Done(f) == [f EXCEPT !.err = FALSE]

-----------------------------------------------------------------------------
TablesInit ==
  /\ vif = [v \in Vifs |-> NoVif]
  /\ sta = [s \in Stas |-> NoSta]
  /\ mask = {0}
  /\ wcid = [i \in Wcids |-> None]
  /\ fw = [dev |-> NoFw.dev, bss |-> NoFw.bss, mon |-> NoFw.mon, rec |-> NoFw.rec,
           key |-> NoFw.key, ba |-> NoFw.ba,
           dirty |-> {}, hung |-> FALSE, faults |-> 0, err |-> FALSE]
  /\ rst = [on |-> FALSE, left |-> {}] /\ disc = {} /\ wiped = {}

AddInterface(v) ==
  LET free == VifIdx \ {vif[u].idx : u \in {w \in Vifs : vif[w].up}}
      i == Least(free)
  IN /\ ~vif[v].up /\ free # {}
     /\ \E f \in UniAddDev(fw, i, TRUE) :
          /\ fw' = Done(f)
          /\ IF f.err THEN UNCHANGED <<vif, wcid>>
             ELSE /\ vif' = [vif EXCEPT ![v] = [NoVif EXCEPT !.up = TRUE, !.idx = i]]
                  /\ wcid' = [wcid EXCEPT ![Reserved - i] = v]
     /\ UNCHANGED <<sta, mask, rst, disc, wiped>>

\* Its stations are gone and its AP is stopped; the answers are ignored.
RemoveInterface(v) ==
  /\ vif[v].up /\ OfVif(v) = {} /\ ~vif[v].assoc
  /\ \E f \in UniAddDev(fw, vif[v].idx, FALSE) : fw' = Done(f)
  /\ wcid' = [wcid EXCEPT ![Reserved - vif[v].idx] = None]
  /\ vif' = [vif EXCEPT ![v] = NoVif]
  /\ disc' = disc \ {v}
  /\ rst' = [rst EXCEPT !.left = @ \ {v}]
  /\ UNCHANGED <<sta, mask, wiped>>

\* Mutant: the index is one without a published entry.
FreePublished == {i \in StaIdx : wcid[i] = None}

\* The index a new peer gets: the lowest one that is free in the mask.
FreeIdx == StaIdx \ mask

\* wep_sta is set before the command that may fail, and the index stays taken
\* when the wake-up or the command fails.
StaAddSends(s, i) ==
  LET v == Home[s]
      point == [vif EXCEPT ![v].wep = IF v \in APs THEN @ ELSE s]
  IN \/ /\ MayFail(fw)
        /\ fw' = OneFault(fw)
        /\ UNCHANGED <<vif, sta, wcid>>
     \/ \E f \in StaCmd(fw, i, s, TRUE, TRUE) :
          /\ fw' = Done(f)
          /\ vif' = point
          /\ IF f.err THEN UNCHANGED <<sta, wcid>>
             ELSE /\ sta' = [sta EXCEPT ![s] = [NoSta EXCEPT !.st = "none", !.idx = i]]
                  /\ wcid' = [wcid EXCEPT ![i] = s]

StaAdd(s) ==
  LET v == Home[s]
  IN /\ sta[s].st = "gone" /\ vif[v].up /\ ~vif[v].tear
     /\ IF s \in Tdls \/ v \in APs THEN vif[v].assoc ELSE Peers(v) = {}
     /\ FreeIdx # {}
     /\ mask' = mask \cup {Least(FreeIdx)}
     /\ StaAddSends(s, Least(FreeIdx))
     /\ UNCHANGED <<rst, disc, wiped>>

\* AUTH to ASSOC: what the two commands answer is ignored.
StaAssoc(s) ==
  LET v == Home[s]
      bss == IF v \in APs \/ s \in Tdls THEN {fw} ELSE UniAddBss(fw, v, vif[v].idx, TRUE)
  IN /\ sta[s].st = "none" /\ ~vif[v].tear /\ (sta[s].conn => v \in APs)
     /\ \E f \in Then(bss, LAMBDA g : StaCmd(g, sta[s].idx, s, TRUE, FALSE)) : fw' = Done(f)
     /\ sta' = [sta EXCEPT ![s].st = "assoc", ![s].conn = TRUE]
     /\ UNCHANGED <<vif, mask, wcid, rst, disc, wiped>>

\* ASSOC to AUTH: the driver ignores the event.  The peer of a STATION interface
\* is removed next.
StaDisassoc(s) ==
  /\ sta[s].st = "assoc" /\ vif[Home[s]].assoc
  /\ sta' = [sta EXCEPT ![s].st = "none"]
  /\ UNCHANGED <<vif, mask, wcid, fw, rst, disc, wiped>>

\* Unpublished before the grace period that precedes the removal.
PreRcuRemove(s) ==
  /\ sta[s].st = "none"
  /\ s \in Tdls \/ OfVif(Home[s]) \cap Tdls = {} \/ Home[s] \in APs
  /\ wcid' = [wcid EXCEPT ![sta[s].idx] = None]
  /\ sta' = [sta EXCEPT ![s].st = "leaving"]
  /\ UNCHANGED <<vif, mask, fw, rst, disc, wiped>>

StaRemove(s) ==
  LET v == Home[s]
      i == sta[s].idx
      bss(f) == IF v \in APs \/ s \in Tdls THEN {f} ELSE UniAddBss(f, v, vif[v].idx, FALSE)
      ba == IF sta[s].ba THEN StaBa(fw, i, FALSE) ELSE {fw}
  IN /\ sta[s].st = "leaving"
     /\ \E f \in Then(Then(ba, LAMBDA g : StaCmd(g, i, s, FALSE, FALSE)), bss) : fw' = Done(f)
     /\ vif' = [vif EXCEPT ![v].wep = IF v \in APs THEN @ ELSE None]
     /\ mask' = mask \ {i}
     /\ sta' = [sta EXCEPT ![s] = NoSta]
     /\ wiped' = wiped \ {s}
     /\ UNCHANGED <<wcid, rst, disc>>

Room == Cardinality(fw.key) + Cardinality({s \in Stas : sta[s].ba}) < MaxExtras

SetKey(s) ==
  /\ sta[s].st = "assoc" /\ Room
  /\ \E f \in AddKey(fw, sta[s].idx, s) : fw' = Done(f)
  /\ UNCHANGED <<vif, sta, mask, wcid, rst, disc, wiped>>

\* The session of the driver starts and stops first; the answer is ignored.
AmpduRx(s, on) ==
  /\ sta[s].st = "assoc" /\ sta[s].ba # on /\ (on => Room)
  /\ sta' = [sta EXCEPT ![s].ba = on]
  /\ \E f \in StaBa(fw, sta[s].idx, on) : fw' = Done(f)
  /\ UNCHANGED <<vif, mask, wcid, rst, disc, wiped>>

\* BSS_CHANGED_ASSOC, after the peer was associated or has gone.
BssInfoChanged(v) ==
  /\ vif[v].up /\ v \notin APs
  /\ IF vif[v].assoc THEN OfVif(v) = {} ELSE \E s \in Peers(v) : sta[s].st = "assoc"
  /\ vif' = [vif EXCEPT ![v].assoc = ~@, ![v].tear = @ /\ ~vif[v].assoc]
  /\ \E f \in BeaconFilter(fw, vif[v].idx, ~vif[v].assoc) : fw' = Done(f)
  /\ UNCHANGED <<sta, mask, wcid, rst, disc, wiped>>

\* A command that fails ends it.  The BSS and the monitoring that are on by then
\* stay on, for an AP that is not started.
StartAp(v) ==
  LET i == vif[v].idx
      set(f) == IF f.err /\ <<"bss", i>> \notin f.dirty
                THEN {<<"bss", i>>, <<"mon", i>>} ELSE {}
      monitored(f) == IfOk(BssPm(f, i, TRUE), LAMBDA g : OwnRec(g, i))
  IN /\ vif[v].up /\ v \in APs /\ ~vif[v].assoc
     /\ \E f \in IfOk(UniAddBss(fw, v, i, TRUE), monitored) :
          /\ fw' = LeftOn(Done(f), set(f))
          /\ vif' = [vif EXCEPT ![v].assoc = ~f.err]
     /\ UNCHANGED <<sta, mask, wcid, rst, disc, wiped>>

\* mac80211 goes on to stop the interface whatever happens, and its BSS stays on
\* when the first command fails.
StopAp(v) ==
  LET i == vif[v].idx
  IN /\ vif[v].up /\ v \in APs /\ vif[v].assoc /\ OfVif(v) = {}
     /\ \E f \in IfOk(BssPm(fw, i, FALSE), LAMBDA g : UniAddBss(g, v, i, FALSE)) :
          fw' = LeftOn(Done(f), IF f.err THEN {<<"bss", i>>} ELSE {})
     /\ vif' = [vif EXCEPT ![v].assoc = FALSE]
     /\ UNCHANGED <<sta, mask, wcid, rst, disc, wiped>>

-----------------------------------------------------------------------------
(* The reset work.                                                          *)
\* The entries in use are lost.
Entries == ({"dev", "bss", "mon"} \X {vif[v].idx : v \in {u \in Vifs : vif[u].up}}) \cup
           ({"rec", "ba"} \X {sta[s].idx : s \in {t \in Stas : sta[t].st # "gone"}})

\* The firmware is loaded again and knows nothing.
ResetDev ==
  /\ fw.hung /\ ~rst.on
  /\ fw' = [dev |-> NoFw.dev, bss |-> NoFw.bss, mon |-> NoFw.mon, rec |-> NoFw.rec,
            key |-> NoFw.key, ba |-> NoFw.ba,
            dirty |-> Entries, hung |-> FALSE, faults |-> fw.faults, err |-> FALSE]
  /\ rst' = [on |-> TRUE, left |-> {v \in Vifs : vif[v].up}]
  /\ wiped' = {s \in Stas : sta[s].st = "assoc"}
  /\ UNCHANGED <<vif, sta, mask, wcid, disc>>

\* Mutant: the interfaces are put back without a disconnect.
ResetIterQuiet(v) ==
  /\ v \in rst.left
  /\ \E f \in UniAddDev(fw, vif[v].idx, TRUE) : fw' = Done(f)
  /\ rst' = [rst EXCEPT !.left = @ \ {v}]
  /\ UNCHANGED <<vif, sta, mask, wcid, disc, wiped>>

\* A STATION interface is asked to disconnect before it is put back; an AP gets
\* its BSS again, started or not, and its own record, but none of its stations.
ResetIter(v) ==
  LET i == vif[v].idx
      bss(f) == Then(UniAddBss(f, v, i, TRUE), LAMBDA g : OwnRec(g, i))
      added(f) == IF v \in APs THEN bss(f) ELSE {f}
  IN /\ v \in rst.left
     /\ disc' = IF v \in APs THEN disc ELSE disc \cup {v}
     /\ \E f \in Then(UniAddDev(fw, i, TRUE), added) :
          fw' = LeftOn(Done(f), IF v \in APs /\ ~vif[v].assoc THEN {<<"bss", i>>} ELSE {})
     /\ rst' = [rst EXCEPT !.left = @ \ {v}]
     /\ UNCHANGED <<vif, sta, mask, wcid, wiped>>

ResetEnd ==
  /\ rst.on /\ rst.left = {}
  /\ rst' = [rst EXCEPT !.on = FALSE]
  /\ UNCHANGED <<vif, sta, mask, wcid, fw, disc, wiped>>

\* mac80211 handles the request between two of its own works: an interface that
\* is not associated then ignores it.
Disconnect(v) ==
  /\ v \in disc
  /\ vif[v].assoc \/ \A s \in Peers(v) : sta[s].st # "assoc"
  /\ disc' = disc \ {v}
  /\ vif' = [vif EXCEPT ![v].tear = vif[v].assoc]
  /\ UNCHANGED <<sta, mask, wcid, fw, rst, wiped>>

Mac80211(v) ==
  \/ AddInterface(v) \/ RemoveInterface(v) \/ BssInfoChanged(v)
  \/ StartAp(v) \/ StopAp(v) \/ Disconnect(v)

Mac80211Sta(s) ==
  \/ StaAdd(s) \/ StaAssoc(s) \/ StaDisassoc(s) \/ PreRcuRemove(s) \/ StaRemove(s)
  \/ SetKey(s) \/ AmpduRx(s, TRUE) \/ AmpduRx(s, FALSE)

Reset == ResetDev \/ ResetEnd \/ \E v \in Vifs : ResetIter(v)

TablesNext == Reset \/ (\E v \in Vifs : Mac80211(v)) \/ (\E s \in Stas : Mac80211Sta(s))

TablesSpec == TablesInit /\ [][TablesNext]_tables

-----------------------------------------------------------------------------
Live == {s \in Stas : sta[s].st # "gone"}

TablesTypeOK ==
  /\ vif \in [Vifs -> [up : BOOLEAN, idx : VifIdx, assoc : BOOLEAN, tear : BOOLEAN,
                       wep : Stas \cup {None}]]
  /\ sta \in [Stas -> [st : {"gone", "none", "assoc", "leaving"}, idx : {0} \cup StaIdx,
                       conn : BOOLEAN, ba : BOOLEAN]]
  /\ mask \subseteq {0} \cup StaIdx
  /\ wcid \in [Wcids -> Vifs \cup Stas \cup {None}]
  /\ fw.dev \subseteq VifIdx /\ fw.rec \in [StaIdx -> Stas \cup {None}]
  /\ fw.faults \in 0 .. MaxFaults /\ ~fw.err
  /\ rst \in [on : BOOLEAN, left : SUBSET Vifs]
  /\ disc \subseteq Vifs \ APs /\ wiped \subseteq Stas

\* No peer is ever served with the record, a key or a session of another: what
\* a removal that failed leaves behind is replaced before its index is used.
NoForeignRecord ==
  \A s \in Live :
    /\ fw.rec[sta[s].idx] \in {None, s}
    /\ \A t \in Stas : <<sta[s].idx, t>> \in fw.key => t = s

\* An index belongs to one peer from sta_add until the end of sta_remove, also
\* while it is unpublished; a published entry is the one of its owner, and no
\* interface shares its device index or its entry; in the firmware too it has
\* nothing but what is its owner's.
OneOwnerPerIndex ==
  /\ TablesTypeOK /\ NoForeignRecord
  /\ \A s, t \in Live : s # t => sta[s].idx # sta[t].idx
  /\ \A s \in Live : sta[s].idx \in mask \cap StaIdx
  /\ \A i \in StaIdx : wcid[i] # None => wcid[i] \in Live /\ sta[wcid[i]].idx = i
  /\ \A u, v \in Vifs : vif[u].up /\ vif[v].up /\ u # v => vif[u].idx # vif[v].idx
  /\ \A v \in Vifs : vif[v].up => wcid[Reserved - vif[v].idx] = v

\* What the driver wants an entry to hold.
WantBss(v) ==
  IF v \in APs THEN IF vif[v].assoc THEN "up" ELSE "off"
  ELSE IF \E s \in Peers(v) : sta[s].conn THEN "up" ELSE "idle"

Agrees(v) ==
  LET i == vif[v].idx
      last(k) == <<k, i>> \notin fw.dirty
  IN /\ last("dev") => i \in fw.dev
     /\ last("bss") /\ v \notin disc /\ ~vif[v].tear =>
          \/ fw.bss[i] = WantBss(v)
          \/ v \in APs /\ ~vif[v].assoc /\ fw.bss[i] = "idle"
     /\ last("mon") => (i \in fw.mon <=> vif[v].assoc)

AgreesSta(s) ==
  LET i == sta[s].idx
      last(k) == <<k, i>> \notin fw.dirty
  IN /\ last("rec") => fw.rec[i] = s
     /\ last("rec") /\ last("ba") => (i \in fw.ba <=> sta[s].ba)

\* Handlers that ignore errors, leave early or race the reset never make the
\* tables disagree with the driver but for an entry whose own last command has
\* failed, or that was lost in a reset and not set since, and for what stays on
\* for an AP that is not started: the BSS and the monitoring that start_ap had
\* set when it failed, the BSS stop_ap did not get to, the BSS a reset turns on.
\* None of these outlives the next command that sets the entry.
FirmwareAgrees ==
  /\ \A v \in Vifs : vif[v].up => Agrees(v)
  /\ \A s \in Live : AgreesSta(s)

\* A STATION interface does not stay associated with a peer that the firmware
\* forgot in a reset: the disconnect is still to be asked for, or under way, so
\* that user space connects again; none is lost between the works.
WipedPeersGo ==
  \A s \in {t \in wiped : Home[t] \notin APs /\ sta[t].st = "assoc"} :
    Home[s] \in rst.left \cup disc \/ vif[Home[s]].tear
=============================================================================
