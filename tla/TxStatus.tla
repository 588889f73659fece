------------------------------ MODULE TxStatus ------------------------------
(***************************************************************************)
(* The tx status tracking of tx.c: a frame that asks for its status gets a *)
(* packet id of its station and is reported when both its DMA is done and  *)
(* its TXS event, or the timeout or flush that stands for it, has come.    *)
(* A section under dev->status_lock, with the reports that follow the      *)
(* unlock, is one step.                                                    *)
(***************************************************************************)
EXTENDS Naturals, FiniteSets

CONSTANTS
  Frames, Wcids,
  First, Last,      \* MT_PACKET_ID_FIRST, MT_PACKET_ID_MASK - 1: idr_alloc ends before its end
  Contexts,         \* how many contexts prepare frames at a time
  PrepareFails,     \* skb_adjust_pad and tx_setup_buffers may fail
  None

Pids == First..Last

ASSUME PidAssumption == First \in Nat /\ Last \in Nat /\ First <= Last /\ None \notin Pids
ASSUME NoneAssumption == None \notin Frames \cup Wcids
ASSUME ContextsAssumption == Contexts \in Nat \ {0} /\ PrepareFails \in BOOLEAN

VARIABLES
  pktid,        \* wcid->pktid: an idr from packet ids to frames
  listed,       \* the stations on dev->wcid_list
  published,    \* the stations in dev->wcid[]
  leaving,      \* unpublished, not cleaned up yet
  place,        \* where a frame is
  cb,           \* its tx_cb: station, packet id and flags
  old,          \* frames whose DMA was done MT_TX_STATUS_SKB_TIMEOUT ago
  robbed,       \* history: frames whose id was released for another frame, see Release
  misled,       \* history: a lookup has met a frame that was freed, see Free
  air           \* the TXS events the firmware may still send

stations == <<published, leaving>>
faults == <<robbed, misled>>
vars == <<pktid, listed, stations, place, cb, old, faults, air>>

Cb == [wcid : Wcids, pid : Pids \cup {None}, flags : SUBSET {"dma", "txs"}]

\* "mac": mac80211 has it; "check", "prep": it is being prepared, before and after it
\* asked for an id; "freed", "gone": freed, before and after its id was released; "ring":
\* the USB queue has it; "wait": its DMA is done; "lost": leaked.
TypeOK ==
  /\ pktid \in [Wcids -> [Pids -> Frames \cup {None}]]
  /\ listed \subseteq Wcids /\ published \subseteq Wcids /\ leaving \subseteq Wcids
  /\ place \in [Frames -> {"mac", "check", "prep", "freed", "gone", "ring", "wait", "lost"}]
  /\ cb \in [Frames -> Cb]
  /\ old \subseteq Frames /\ robbed \subseteq Frames /\ misled \in BOOLEAN
  /\ air \subseteq Wcids \X Pids

-----------------------------------------------------------------------------
Pending(w) == {p \in Pids : pktid[w][p] # None}

\* idr_remove and idr_alloc
Without(w, ps) == [pktid EXCEPT ![w] = [p \in Pids |-> IF p \in ps THEN None ELSE @[p]]]
With(w, p, f) == [pktid EXCEPT ![w][p] = f]

\* The id idr_alloc finds: the lowest one that is free.
Lowest(w, p) == p \in Pids \ Pending(w) /\ \A q \in Pids \ Pending(w) : p <= q

SetFlag(f, flag) == cb[f].flags \cup {flag}

Both(flags) == flags = {"dma", "txs"}

\* The cb of a frame the driver does not have, and what tx_status_skb_add makes of it.
Cleared(w) == [wcid |-> w, pid |-> None, flags |-> {}]

\* __tx_status_skb_done for the frames fs: those with both flags are reported.
Done(fs, flag) ==
  LET reported == {f \in fs : Both(SetFlag(f, flag))}
  IN  /\ cb' = [f \in Frames |->
                  IF f \in reported THEN Cleared(cb[f].wcid)
                  ELSE IF f \in fs THEN [cb[f] EXCEPT !.flags = SetFlag(f, flag)] ELSE cb[f]]
      /\ place' = [f \in Frames |->
                     IF f \in reported THEN "mac"
                     ELSE IF f \in fs /\ flag = "dma" THEN "wait" ELSE place[f]]
      /\ old' = old \ reported

\* The entries of ws that a call of tx_status_skb_get for another id completes.
StaleNever(ws, flush) ==           \* mutant: flushes only
  {s \in ws \X Pids : pktid[s[1]][s[2]] # None /\ flush}
Stale(ws, flush) ==
  {s \in ws \X Pids :
     LET f == pktid[s[1]][s[2]]
     IN  f # None /\ (flush \/ ("dma" \in cb[f].flags /\ f \in old))}

Unlist(ws, ids) == listed' = listed \ {w \in ws : ids[w] = [p \in Pids |-> None]}

\* The walk over the entries of ws, or the lookup of one, reads the memory of a frame
\* that was freed.  What it finds there is undefined, and so is all that follows: the
\* model takes the step as if the memory still held the frame, and goes no further.
Meets(entries) == \E s \in entries : pktid[s[1]][s[2]] # None /\ place[pktid[s[1]][s[2]]] = "freed"
Misled(entries) == misled' = (misled \/ Meets(entries))

\* tx_status_skb_get with an id that is not found, for each station of ws.
Expire(ws, flush) ==
  LET stale == Stale(ws, flush)
  IN  /\ Misled(ws \X Pids)
      /\ pktid' = [w \in Wcids |-> [p \in Pids |->
                     IF <<w, p>> \in stale THEN None ELSE pktid[w][p]]]
      /\ Done({pktid[s[1]][s[2]] : s \in stale}, "txs")
      /\ Unlist(ws, pktid')

-----------------------------------------------------------------------------
(* Transmission: tx_prepare_skb with tx_status_skb_add.                    *)

Preparing == {f \in Frames : place[f] \in {"check", "prep", "freed"}}

Move(f, to) == place' = [place EXCEPT ![f] = to]

\* The frame asks for its status and the station is there: checked without the lock.
Check(f, w) ==
  /\ place[f] = "mac" /\ w \in published
  /\ Cardinality(Preparing) < Contexts
  /\ Move(f, "check")
  /\ cb' = [cb EXCEPT ![f] = Cleared(w)]
  /\ UNCHANGED <<pktid, listed, stations, old, faults, air>>

Add(f) ==
  LET w == cb[f].wcid
  IN  /\ place[f] = "check"
      /\ Move(f, "prep")
      /\ \/ \E p \in First..(Last + 1) :
              /\ Lowest(w, p)
              /\ cb' = [cb EXCEPT ![f].pid = p]
              /\ pktid' = With(w, p, f)
              /\ listed' = listed \cup {w}
         \/ /\ Pending(w) = Pids           \* MT_PACKET_ID_NO_SKB
            /\ UNCHANGED <<cb, pktid, listed>>
      /\ UNCHANGED <<stations, old, faults, air>>

\* The URB is filled, and later sent; the firmware may report the id.
Submit(f) ==
  /\ place[f] = "prep"
  /\ Move(f, "ring")
  /\ air' = IF cb[f].pid = None THEN air ELSE air \cup {<<cb[f].wcid, cb[f].pid>>}
  /\ UNCHANGED <<pktid, listed, stations, cb, old, faults>>

\* skb_adjust_pad fails: skb_pad has freed the frame, whose id is still in the idr.
Free(f) ==
  /\ PrepareFails /\ place[f] = "prep"
  /\ Move(f, "freed")
  /\ UNCHANGED <<pktid, listed, stations, cb, old, faults, air>>

\* "Release pktid in case of error", without the lock and without a look whose it is: a
\* frame that got the id after a flush had taken it from the failed one is robbed of it.
Release(f) ==
  /\ place[f] = "freed"
  /\ Move(f, "gone")
  /\ pktid' = Without(cb[f].wcid, {cb[f].pid})
  /\ robbed' = robbed \cup {g \in Frames \ {f} :
                            cb[f].pid # None /\ pktid[cb[f].wcid][cb[f].pid] = g}
  /\ cb' = [cb EXCEPT ![f] = Cleared(@.wcid)]
  /\ UNCHANGED <<listed, stations, old, misled, air>>

\* tx_setup_buffers fails after that: the frame is dropped, and its id is not released.
SetupFails(f) ==
  /\ PrepareFails /\ place[f] = "prep"
  /\ Move(f, "lost")
  /\ UNCHANGED <<pktid, listed, stations, cb, old, faults, air>>

-----------------------------------------------------------------------------
(* Completion.                                                             *)

\* __tx_complete_skb, when the queue is done with the frame.
DmaDone(f) ==
  /\ place[f] = "ring"
  /\ IF cb[f].pid = None THEN Move(f, "mac") /\ UNCHANGED <<cb, old>>
                         ELSE Done({f}, "dma")
  /\ UNCHANGED <<pktid, listed, stations, faults, air>>

Age(f) ==
  /\ place[f] = "wait" /\ f \notin old
  /\ old' = old \cup {f}
  /\ UNCHANGED <<pktid, listed, stations, place, cb, faults, air>>

\* mac_add_txs: an event for a station that is gone is dropped; one for an id that
\* is not pending makes the stale entries expire.
Txs(w, p) ==
  /\ <<w, p>> \in air
  /\ air' = air \ {<<w, p>>}
  /\ \/ /\ w \in published /\ pktid[w][p] # None
        /\ Misled({<<w, p>>})
        /\ pktid' = Without(w, {p})
        /\ Done({pktid[w][p]}, "txs")
        /\ Unlist({w}, pktid')
     \/ w \in published /\ pktid[w][p] = None /\ Expire({w}, FALSE)
     \/ w \notin published /\ UNCHANGED <<pktid, listed, cb, place, old, misled>>
  /\ UNCHANGED <<stations, robbed>>

TxsLost(w, p) ==
  /\ <<w, p>> \in air
  /\ air' = air \ {<<w, p>>}
  /\ UNCHANGED <<pktid, listed, stations, place, cb, old, faults>>

\* tx_status_check: of mac_work, and the flush of stop_tx.
StatusCheck(flush) ==
  /\ Expire(listed, flush)
  /\ UNCHANGED <<stations, robbed, air>>

-----------------------------------------------------------------------------
(* Stations.                                                               *)

\* sta_pre_rcu_remove
Unpublish(w) ==
  /\ w \in published
  /\ published' = published \ {w} /\ leaving' = leaving \cup {w}
  /\ UNCHANGED <<pktid, listed, place, cb, old, faults, air>>

CleanupAtOnce(w) ==   \* mutant: no grace period
  /\ w \in leaving
  /\ Expire({w}, TRUE)
  /\ leaving' = leaving \ {w}
  /\ UNCHANGED <<published, robbed, air>>

\* wcid_cleanup: mac80211 waits for a grace period first, after which nobody that
\* saw the station published is still preparing a frame for it.
Cleanup(w) ==
  /\ w \in leaving
  /\ \A f \in Preparing : cb[f].wcid # w
  /\ Expire({w}, TRUE)
  /\ leaving' = leaving \ {w}
  /\ UNCHANGED <<published, robbed, air>>

Publish(w) ==
  /\ w \notin published \cup leaving
  /\ published' = published \cup {w}
  /\ UNCHANGED <<pktid, listed, leaving, place, cb, old, faults, air>>

-----------------------------------------------------------------------------
Init ==
  /\ pktid = [w \in Wcids |-> [p \in Pids |-> None]]
  /\ listed = {} /\ published = Wcids /\ leaving = {}
  /\ place = [f \in Frames |-> "mac"]
  /\ cb \in [Frames -> [wcid : Wcids, pid : {None}, flags : {{}}]]
  /\ old = {} /\ robbed = {} /\ misled = FALSE /\ air = {}

Prepare(f) == Add(f) \/ Submit(f) \/ Free(f) \/ Release(f) \/ SetupFails(f)

Transmit == \E f \in Frames : (\E w \in Wcids : Check(f, w)) \/ Prepare(f)

Complete ==
  \/ \E f \in Frames : DmaDone(f) \/ Age(f)
  \/ \E w \in Wcids, p \in Pids : Txs(w, p) \/ TxsLost(w, p)
  \/ \E flush \in BOOLEAN : StatusCheck(flush)

Manage == \E w \in Wcids : Unpublish(w) \/ Cleanup(w) \/ Publish(w)

Undefined == misled /\ UNCHANGED vars

Next == (~misled /\ (Transmit \/ Complete \/ Manage)) \/ Undefined

Spec == Init /\ [][Next]_vars

\* A frame that is being prepared goes on, the queue completes every frame it has
\* (module UsbTx), time passes, and mac_work runs again and again.
FairSpec ==
  /\ Spec
  /\ \A f \in Frames : WF_vars(Prepare(f) \/ DmaDone(f) \/ Age(f))
  /\ WF_vars(StatusCheck(FALSE))

-----------------------------------------------------------------------------
\* The idr only knows frames the driver still owns, under their own id, that have
\* not got their status: a frame given back to mac80211 is never looked up again,
\* and none is reported twice.  A frame freed by a failed preparation stays known
\* until the preparing context has released its id; one that was lost stays known.
PendingIsOwned ==
  \A w \in Wcids : \A p \in Pending(w) :
    LET f == pktid[w][p]
    IN  /\ place[f] \in {"prep", "freed", "ring", "wait", "lost"}
        /\ cb[f].wcid = w /\ cb[f].pid = p
        /\ "txs" \notin cb[f].flags

\* A frame whose DMA is done is still in its idr, where TXS, timeout or flush finds
\* it: otherwise it would be leaked, as the robbed ones are.
NothingForgotten ==
  \A f \in Frames : place[f] = "wait" /\ f \notin robbed => pktid[cb[f].wcid][cb[f].pid] = f

\* A station with pending frames is on the list that tx_status_check walks.
PendingIsListed == \A w \in Wcids : Pending(w) # {} => w \in listed

\* Once a station is cleaned up neither the list nor its idr refers to it: it may be
\* freed.
RemovedIsForgotten ==
  \A w \in Wcids \ (published \cup leaving) : Pending(w) = {} /\ w \notin listed

\* Idr, list and frames agree, whatever events, time-outs, flushes, failed
\* preparations and removals come in whatever order, as long as no lookup falls
\* between the free of a frame and the release of its id.
StatusIsTracked ==
  /\ TypeOK
  /\ ~misled =>
       PendingIsOwned /\ NothingForgotten /\ PendingIsListed /\ RemovedIsForgotten

\* Every frame handed to the queue is reported, with or without a TXS event, with the
\* same exception.
EventuallyReported ==
  \A f \in Frames : place[f] = "ring" ~> place[f] = "mac" \/ f \in robbed \/ misled
=============================================================================
