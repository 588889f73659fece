------------------------------ MODULE TxProofs ------------------------------
(***************************************************************************)
(* Theorems about the two components of tx.c.  TxStatus, for any numbers of *)
(* frames, stations, ids and contexts: the idr, the list of stations and    *)
(* the frames agree.  TxSched, for any stations, rings and limits, and any  *)
(* number of resets: nothing that waits is forgotten.                       *)
(***************************************************************************)
EXTENDS TxStatus, TxSched, FiniteSetTheorems, TLAPS

(* TxStatus.                                                                *)


\* What is known of a frame at each place: a frame that has an id is in the idr, or has
\* got its status, or was robbed of the id; only a frame whose DMA is done and that
\* lacks its status waits.
FrameInv ==
  \A f \in Frames :
    /\ place[f] = "check" => cb[f].pid = None /\ cb[f].flags = {}
    /\ place[f] \in {"check", "prep", "freed"} => cb[f].wcid \in published \cup leaving
    /\ place[f] \in {"prep", "freed", "ring", "lost"} => "dma" \notin cb[f].flags
    /\ place[f] \in {"prep", "ring", "wait"} /\ cb[f].pid # None /\ f \notin robbed =>
         "txs" \in cb[f].flags \/ pktid[cb[f].wcid][cb[f].pid] = f
    /\ place[f] = "wait" => cb[f].pid # None /\ cb[f].flags = {"dma"}

\* PendingIsOwned, entry by entry.
Owned(f, w, p) ==
  /\ f \in Frames /\ place[f] \in {"prep", "freed", "ring", "wait", "lost"}
  /\ cb[f].wcid = w /\ cb[f].pid = p /\ "txs" \notin cb[f].flags

OwnedInv == \A w \in Wcids : \A p \in Pids : pktid[w][p] # None => Owned(pktid[w][p], w, p)

ListInv ==
  /\ \A w \in Wcids : \A p \in Pids : pktid[w][p] # None => w \in listed
  /\ listed \subseteq published \cup leaving /\ published \cap leaving = {}

IInv == TypeOK /\ FrameInv /\ OwnedInv /\ ListInv

-----------------------------------------------------------------------------
(* Operators.                                                              *)

LEMMA Constants == None \notin Pids /\ None \notin Frames /\ None \notin Wcids
  BY PidAssumption, NoneAssumption

\* __tx_status_skb_done, frame by frame.
LEMMA DoneProperties ==
  ASSUME TypeOK, NEW fs \in SUBSET Frames, NEW flag \in {"dma", "txs"}, Done(fs, flag)
  PROVE /\ cb' \in [Frames -> Cb]
        /\ place' \in [Frames -> {"mac", "check", "prep", "freed", "gone", "ring", "wait", "lost"}]
        /\ old' \subseteq Frames
        /\ \A f \in Frames \ fs : cb'[f] = cb[f] /\ place'[f] = place[f]
        /\ \A f \in fs : cb'[f].wcid = cb[f].wcid
        /\ \A f \in fs : cb[f].flags \cup {flag} = {"dma", "txs"} => place'[f] = "mac"
        /\ \A f \in fs : cb[f].flags \cup {flag} # {"dma", "txs"} =>
             /\ cb'[f].pid = cb[f].pid /\ cb'[f].flags = cb[f].flags \cup {flag}
             /\ place'[f] = IF flag = "dma" THEN "wait" ELSE place[f]
<1>1. /\ cb \in [Frames -> Cb] /\ old \subseteq Frames
      /\ place \in [Frames -> {"mac", "check", "prep", "freed", "gone", "ring", "wait", "lost"}]
  BY DEF TypeOK
<1>2. \A f \in Frames : /\ [cb[f] EXCEPT !.flags = SetFlag(f, flag)] \in Cb
                        /\ [cb[f] EXCEPT !.flags = SetFlag(f, flag)].wcid = cb[f].wcid
                        /\ [cb[f] EXCEPT !.flags = SetFlag(f, flag)].pid = cb[f].pid
                        /\ [cb[f] EXCEPT !.flags = SetFlag(f, flag)].flags = cb[f].flags \cup {flag}
  BY <1>1 DEF Cb, SetFlag
<1>3. cb' = [f \in Frames |->
               IF f \in fs /\ SetFlag(f, flag) = {"dma", "txs"} THEN Cleared(cb[f].wcid)
               ELSE IF f \in fs THEN [cb[f] EXCEPT !.flags = SetFlag(f, flag)] ELSE cb[f]]
  BY DEF Done, Both
<1>4. /\ cb' \in [Frames -> Cb]
      /\ \A f \in Frames \ fs : cb'[f] = cb[f]
      /\ \A f \in fs : cb'[f].wcid = cb[f].wcid
      /\ \A f \in fs : cb[f].flags \cup {flag} # {"dma", "txs"} =>
           cb'[f].pid = cb[f].pid /\ cb'[f].flags = cb[f].flags \cup {flag}
  <2>1. \A f \in Frames : /\ Cleared(cb[f].wcid) \in Cb
                          /\ Cleared(cb[f].wcid).wcid = cb[f].wcid
    BY <1>1 DEF Cb, Cleared
  <2> QED BY <1>1, <1>2, <1>3, <2>1 DEF SetFlag
<1>5. /\ place' \in [Frames -> {"mac", "check", "prep", "freed", "gone", "ring", "wait", "lost"}]
      /\ \A f \in Frames \ fs : place'[f] = place[f]
      /\ \A f \in fs : place'[f] = IF cb[f].flags \cup {flag} = {"dma", "txs"} THEN "mac"
                                   ELSE IF flag = "dma" THEN "wait" ELSE place[f]
  BY <1>1 DEF Done, Both, SetFlag
<1>6. old' \subseteq Frames
  BY <1>1 DEF Done
<1> QED BY <1>4, <1>5, <1>6

LEMMA InitIInv == Init => IInv
<1> SUFFICES ASSUME Init PROVE IInv
  OBVIOUS
<1>1. cb \in [Frames -> Cb] /\ \A f \in Frames : cb[f].pid = None /\ cb[f].flags = {}
  BY DEF Init, Cb
<1>2. TypeOK
  BY <1>1 DEF Init, TypeOK
<1>3. FrameInv
  BY <1>1 DEF Init, FrameInv
<1>4. OwnedInv /\ ListInv
  BY DEF Init, OwnedInv, ListInv
<1> QED BY <1>2, <1>3, <1>4 DEF IInv

-----------------------------------------------------------------------------
(* Entries that leave the idr with their status.                           *)

\* The entries in gone are taken out, and their frames get their status.
Released(gone) ==
  /\ pktid' \in [Wcids -> [Pids -> Frames \cup {None}]]
  /\ \A w \in Wcids : \A p \in Pids :
       pktid'[w][p] = IF <<w, p>> \in gone THEN None ELSE pktid[w][p]
  /\ Done({pktid[s[1]][s[2]] : s \in gone}, "txs")

LEMMA ReleasedKeeps ==
  ASSUME IInv, NEW gone \in SUBSET (Wcids \X Pids), Released(gone),
         \A s \in gone : pktid[s[1]][s[2]] # None,
         UNCHANGED robbed, leaving' \subseteq leaving, UNCHANGED published,
         \A f \in Frames : place[f] \in {"check", "prep", "freed"} => cb[f].wcid \in published' \cup leaving'
  PROVE /\ FrameInv' /\ OwnedInv'
        /\ cb' \in [Frames -> Cb] /\ old' \subseteq Frames
        /\ place' \in [Frames -> {"mac", "check", "prep", "freed", "gone", "ring", "wait", "lost"}]
<1> DEFINE fs == {pktid[s[1]][s[2]] : s \in gone}
<1>1. /\ pktid \in [Wcids -> [Pids -> Frames \cup {None}]]
      /\ cb \in [Frames -> Cb]
      /\ \A w \in Wcids : \A p \in Pids : pktid[w][p] # None => Owned(pktid[w][p], w, p)
  BY DEF IInv, TypeOK, OwnedInv
<1>2. \A f \in fs : \E s \in gone : f = pktid[s[1]][s[2]] /\ Owned(f, s[1], s[2])
  BY <1>1
<1>3. fs \in SUBSET Frames
  BY <1>2 DEF Owned
<1>4. \A s \in gone : pktid[s[1]][s[2]] \in fs
  OBVIOUS
<1>5. Done(fs, "txs")
  BY DEF Released
<1> HIDE DEF fs
<1>6. /\ cb' \in [Frames -> Cb] /\ old' \subseteq Frames
      /\ place' \in [Frames -> {"mac", "check", "prep", "freed", "gone", "ring", "wait", "lost"}]
      /\ \A f \in Frames \ fs : cb'[f] = cb[f] /\ place'[f] = place[f]
      /\ \A f \in fs : cb'[f].wcid = cb[f].wcid
      /\ \A f \in fs : cb[f].flags \cup {"txs"} = {"dma", "txs"} => place'[f] = "mac"
      /\ \A f \in fs : cb[f].flags \cup {"txs"} # {"dma", "txs"} =>
           /\ cb'[f].pid = cb[f].pid /\ cb'[f].flags = cb[f].flags \cup {"txs"}
           /\ place'[f] = place[f]
  BY <1>3, <1>5, DoneProperties DEF IInv
<1>7. FrameInv'
  <2> SUFFICES ASSUME NEW f \in Frames
               PROVE /\ place'[f] = "check" => cb'[f].pid = None /\ cb'[f].flags = {}
                     /\ place'[f] \in {"check", "prep", "freed"} =>
                          cb'[f].wcid \in published' \cup leaving'
                     /\ place'[f] \in {"prep", "freed", "ring", "lost"} => "dma" \notin cb'[f].flags
                     /\ place'[f] \in {"prep", "ring", "wait"} /\ cb'[f].pid # None
                          /\ f \notin robbed' =>
                          "txs" \in cb'[f].flags \/ pktid'[cb'[f].wcid][cb'[f].pid] = f
                     /\ place'[f] = "wait" => cb'[f].pid # None /\ cb'[f].flags = {"dma"}
    BY DEF FrameInv
  <2>1. CASE f \in fs
    <3>1. CASE cb[f].flags \cup {"txs"} = {"dma", "txs"}
      <4>1. place'[f] = "mac"
        BY <1>6, <2>1, <3>1
      <4> QED BY <4>1
    <3>2. CASE cb[f].flags \cup {"txs"} # {"dma", "txs"}
      <4>1. /\ cb'[f].pid = cb[f].pid /\ cb'[f].flags = cb[f].flags \cup {"txs"}
            /\ place'[f] = place[f] /\ cb'[f].wcid = cb[f].wcid
        BY <1>6, <2>1, <3>2
      <4>2. place[f] \in {"prep", "freed", "ring", "wait", "lost"}
        BY <1>2, <2>1 DEF Owned
      <4>3. place[f] # "wait"
        BY <3>2 DEF IInv, FrameInv
      <4>4. /\ place[f] \in {"prep", "freed", "ring", "lost"} => "dma" \notin cb[f].flags
            /\ place[f] \in {"prep", "freed"} => cb[f].wcid \in published' \cup leaving'
        BY DEF IInv, FrameInv
      <4> QED BY <4>1, <4>2, <4>3, <4>4
    <3> QED BY <3>1, <3>2
  <2>2. CASE f \notin fs
    <3>1. cb'[f] = cb[f] /\ place'[f] = place[f]
      BY <1>6, <2>2
    <3>2. ASSUME cb[f].pid # None, pktid[cb[f].wcid][cb[f].pid] = f
          PROVE pktid'[cb[f].wcid][cb[f].pid] = f
      <4>1. cb[f].wcid \in Wcids /\ cb[f].pid \in Pids
        BY <1>1, <3>2 DEF Cb
      <4>2. ASSUME <<cb[f].wcid, cb[f].pid>> \in gone PROVE FALSE
        <5>1. PICK s \in gone : s = <<cb[f].wcid, cb[f].pid>>
          BY <4>2
        <5>2. s[1] = cb[f].wcid /\ s[2] = cb[f].pid
          BY <5>1
        <5> QED BY <1>4, <2>2, <3>2, <5>2
      <4>3. \A w \in Wcids : \A p \in Pids :
              pktid'[w][p] = IF <<w, p>> \in gone THEN None ELSE pktid[w][p]
        BY DEF Released
      <4> QED BY <3>2, <4>1, <4>2, <4>3
    <3> QED BY <3>1, <3>2 DEF IInv, FrameInv
  <2> QED BY <2>1, <2>2
<1>8. OwnedInv'
  <2> SUFFICES ASSUME NEW w \in Wcids, NEW p \in Pids, pktid'[w][p] # None
               PROVE LET f == pktid'[w][p]
                     IN  /\ f \in Frames /\ place'[f] \in {"prep", "freed", "ring", "wait", "lost"}
                         /\ cb'[f].wcid = w /\ cb'[f].pid = p /\ "txs" \notin cb'[f].flags
    BY DEF OwnedInv, Owned
  <2>1. \A v \in Wcids : \A q \in Pids :
          pktid'[v][q] = IF <<v, q>> \in gone THEN None ELSE pktid[v][q]
    BY DEF Released
  <2>2. <<w, p>> \notin gone /\ pktid'[w][p] = pktid[w][p]
    BY <2>1
  <2>3. PICK f \in Frames : f = pktid[w][p] /\ Owned(f, w, p)
    BY <1>1, <2>2 DEF Owned
  <2>4. f \notin fs
    <3> SUFFICES ASSUME NEW s \in gone, Owned(f, s[1], s[2])
                 PROVE FALSE
      BY <1>2
    <3>1. s = <<s[1], s[2]>>
      OBVIOUS
    <3>2. s[1] = w /\ s[2] = p
      BY <2>3 DEF Owned
    <3> QED BY <2>2, <3>1, <3>2
  <2> QED BY <1>6, <2>2, <2>3, <2>4 DEF Owned
<1> QED BY <1>6, <1>7, <1>8

\* The list keeps the stations that still have an entry, and no other is added.
LEMMA UnlistKeeps ==
  ASSUME IInv, NEW ws \in SUBSET Wcids, Unlist(ws, pktid'),
         pktid' \in [Wcids -> [Pids -> Frames \cup {None}]],
         \A w \in Wcids : \A p \in Pids : pktid'[w][p] # None => pktid[w][p] # None
  PROVE /\ \A w \in Wcids : \A p \in Pids : pktid'[w][p] # None => w \in listed'
        /\ listed' \subseteq listed /\ listed' \subseteq Wcids
        /\ \A w \in ws : (\A p \in Pids : pktid'[w][p] = None) => w \notin listed'
<1>1. listed' = listed \ {w \in ws : pktid'[w] = [p \in Pids |-> None]}
  BY DEF Unlist
<1>2. ASSUME NEW w \in Wcids, NEW p \in Pids, pktid'[w][p] # None PROVE w \in listed'
  <2>1. w \in listed
    BY <1>2 DEF IInv, ListInv
  <2>2. pktid'[w] # [q \in Pids |-> None]
    BY <1>2
  <2> QED BY <1>1, <2>1, <2>2
<1>3. ASSUME NEW w \in ws, \A p \in Pids : pktid'[w][p] = None PROVE w \notin listed'
  <2>1. pktid'[w] = [p \in Pids |-> None]
    BY <1>3
  <2> QED BY <1>1, <2>1
<1> QED BY <1>1, <1>2, <1>3 DEF IInv, TypeOK

LEMMA ExpireReleases ==
  ASSUME IInv, NEW ws \in SUBSET Wcids, NEW flush \in BOOLEAN, Expire(ws, flush)
  PROVE /\ Released(Stale(ws, flush))
        /\ Stale(ws, flush) \in SUBSET (Wcids \X Pids)
        /\ \A s \in Stale(ws, flush) : pktid[s[1]][s[2]] # None
        /\ Unlist(ws, pktid') /\ misled' \in BOOLEAN
        /\ \A w \in Wcids : \A p \in Pids : pktid'[w][p] # None => pktid[w][p] # None
        /\ flush => \A w \in ws : \A p \in Pids : pktid'[w][p] = None
<1>1. pktid \in [Wcids -> [Pids -> Frames \cup {None}]]
  BY DEF IInv, TypeOK
<1>2. /\ Stale(ws, flush) \in SUBSET (Wcids \X Pids)
      /\ \A s \in Stale(ws, flush) : pktid[s[1]][s[2]] # None
  BY DEF Stale
<1>3. flush => \A w \in ws : \A p \in Pids : pktid[w][p] # None => <<w, p>> \in Stale(ws, flush)
  BY DEF Stale
<1> DEFINE gone == Stale(ws, flush)
<1>4. /\ pktid' = [w \in Wcids |-> [p \in Pids |->
                     IF <<w, p>> \in gone THEN None ELSE pktid[w][p]]]
      /\ Done({pktid[s[1]][s[2]] : s \in gone}, "txs")
      /\ Unlist(ws, pktid') /\ misled' \in BOOLEAN
  BY DEF Expire, Misled, IInv, TypeOK
<1> HIDE DEF gone
<1>5. /\ pktid' \in [Wcids -> [Pids -> Frames \cup {None}]]
      /\ \A w \in Wcids : \A p \in Pids :
           pktid'[w][p] = IF <<w, p>> \in gone THEN None ELSE pktid[w][p]
  BY <1>1, <1>4
<1>6. Released(gone)
  BY <1>4, <1>5 DEF Released
<1>7. \A w \in Wcids : \A p \in Pids : pktid'[w][p] # None => pktid[w][p] # None
  BY <1>5
<1>8. flush => \A w \in ws : \A p \in Pids : pktid'[w][p] = None
  BY <1>3, <1>5 DEF gone
<1> QED BY <1>2, <1>4, <1>6, <1>7, <1>8 DEF gone

\* tx_status_check, and wcid_cleanup.
LEMMA ExpireIInv ==
  ASSUME IInv, NEW ws \in SUBSET Wcids, NEW flush \in BOOLEAN, Expire(ws, flush),
         UNCHANGED <<robbed, published>>, leaving' \subseteq leaving, air' \subseteq air,
         \A w \in leaving \ leaving' : /\ flush /\ w \in ws /\ w \notin published
                                       /\ \A f \in Preparing : cb[f].wcid # w
  PROVE IInv'
<1>1. /\ Released(Stale(ws, flush))
      /\ Stale(ws, flush) \in SUBSET (Wcids \X Pids)
      /\ \A s \in Stale(ws, flush) : pktid[s[1]][s[2]] # None
      /\ Unlist(ws, pktid') /\ misled' \in BOOLEAN
      /\ \A w \in Wcids : \A p \in Pids : pktid'[w][p] # None => pktid[w][p] # None
      /\ flush => \A w \in ws : \A p \in Pids : pktid'[w][p] = None
  BY ExpireReleases
<1>2. pktid' \in [Wcids -> [Pids -> Frames \cup {None}]]
  BY <1>1 DEF Released
<1>3. \A f \in Frames : place[f] \in {"check", "prep", "freed"} => cb[f].wcid \in published' \cup leaving'
  <2> SUFFICES ASSUME NEW f \in Frames, place[f] \in {"check", "prep", "freed"}
               PROVE cb[f].wcid \in published' \cup leaving'
    OBVIOUS
  <2>1. cb[f].wcid \in published \cup leaving /\ f \in Preparing
    BY DEF IInv, FrameInv, Preparing
  <2> QED BY <2>1
<1>4. /\ FrameInv' /\ OwnedInv'
      /\ cb' \in [Frames -> Cb] /\ old' \subseteq Frames
      /\ place' \in [Frames -> {"mac", "check", "prep", "freed", "gone", "ring", "wait", "lost"}]
  BY <1>1, <1>3, ReleasedKeeps
<1>5. /\ \A w \in Wcids : \A p \in Pids : pktid'[w][p] # None => w \in listed'
      /\ listed' \subseteq listed /\ listed' \subseteq Wcids
      /\ \A w \in ws : (\A p \in Pids : pktid'[w][p] = None) => w \notin listed'
  BY <1>1, <1>2, UnlistKeeps
<1>6. listed' \subseteq published' \cup leaving' /\ published' \cap leaving' = {}
  BY <1>1, <1>5 DEF IInv, ListInv
<1>7. ListInv'
  BY <1>5, <1>6 DEF ListInv
<1>8. TypeOK'
  BY <1>1, <1>2, <1>4, <1>5 DEF IInv, TypeOK
<1> QED BY <1>4, <1>7, <1>8 DEF IInv

\* mac_add_txs.
LEMMA TxsIInv == ASSUME IInv, NEW w \in Wcids, NEW p \in Pids, Txs(w, p) PROVE IInv'
<1>1. UNCHANGED <<robbed, published, leaving>> /\ air' = air \ {<<w, p>>}
  BY DEF Txs, stations
<1>2. air' \subseteq Wcids \X Pids
  BY <1>1 DEF IInv, TypeOK
<1>3. CASE w \in published /\ pktid[w][p] # None /\ pktid' = Without(w, {p})
             /\ Done({pktid[w][p]}, "txs") /\ Unlist({w}, pktid') /\ Misled({<<w, p>>})
  <2> DEFINE gone == {<<w, p>>}
  <2>1. pktid \in [Wcids -> [Pids -> Frames \cup {None}]]
    BY DEF IInv, TypeOK
  <2>2. pktid' = [pktid EXCEPT ![w] = [q \in Pids |-> IF q \in {p} THEN None ELSE pktid[w][q]]]
    BY <1>3, <2>1 DEF Without
  <2>3. /\ pktid' \in [Wcids -> [Pids -> Frames \cup {None}]]
        /\ \A v \in Wcids : \A q \in Pids :
             pktid'[v][q] = IF v = w /\ q = p THEN None ELSE pktid[v][q]
    BY <2>1, <2>2
  <2>4. \A v \in Wcids : \A q \in Pids : <<v, q>> \in gone <=> v = w /\ q = p
    OBVIOUS
  <2>5. \A s \in gone : s[1] = w /\ s[2] = p
    OBVIOUS
  <2>6. gone \in SUBSET (Wcids \X Pids) /\ <<w, p>> \in gone
    OBVIOUS
  <2> HIDE DEF gone
  <2>7. {pktid[s[1]][s[2]] : s \in gone} = {pktid[w][p]}
    BY <2>5, <2>6
  <2>8. Released(gone)
    BY <1>3, <2>3, <2>4, <2>7 DEF Released
  <2>9. /\ FrameInv' /\ OwnedInv'
        /\ cb' \in [Frames -> Cb] /\ old' \subseteq Frames
        /\ place' \in [Frames -> {"mac", "check", "prep", "freed", "gone", "ring", "wait", "lost"}]
    <3>1. \A f \in Frames : place[f] \in {"check", "prep", "freed"} =>
                               cb[f].wcid \in published' \cup leaving'
      BY <1>1 DEF IInv, FrameInv
    <3>2. \A s \in gone : pktid[s[1]][s[2]] # None
      BY <1>3, <2>5
    <3> QED BY <1>1, <2>6, <2>8, <3>1, <3>2, ReleasedKeeps
  <2>10. /\ \A v \in Wcids : \A q \in Pids : pktid'[v][q] # None => v \in listed'
         /\ listed' \subseteq listed /\ listed' \subseteq Wcids
    BY <1>3, <2>3, UnlistKeeps
  <2>11. ListInv'
    BY <1>1, <2>10 DEF IInv, ListInv
  <2>12. TypeOK'
    BY <1>1, <1>2, <1>3, <2>3, <2>9, <2>10 DEF IInv, TypeOK, Misled
  <2> QED BY <2>9, <2>11, <2>12 DEF IInv
<1>4. CASE Expire({w}, FALSE)
  BY <1>1, <1>4, ExpireIInv
<1>5. CASE UNCHANGED <<pktid, listed, cb, place, old, misled>>
  BY <1>1, <1>2, <1>5 DEF IInv, TypeOK, FrameInv, OwnedInv, Owned, ListInv
<1> QED BY <1>3, <1>4, <1>5 DEF Txs

\* wcid_cleanup, and tx_status_check.
LEMMA CleanupIInv == ASSUME IInv, NEW w \in Wcids, Cleanup(w) PROVE IInv'
<1>1. /\ w \in leaving /\ leaving' = leaving \ {w} /\ Expire({w}, TRUE)
      /\ UNCHANGED <<published, robbed, air>>
      /\ \A f \in Preparing : cb[f].wcid # w
  BY DEF Cleanup
<1>2. w \notin published
  BY <1>1 DEF IInv, ListInv
<1> QED BY <1>1, <1>2, ExpireIInv

LEMMA StatusCheckIInv == ASSUME IInv, NEW flush \in BOOLEAN, StatusCheck(flush) PROVE IInv'
<1>1. /\ Expire(listed, flush) /\ listed \in SUBSET Wcids
      /\ UNCHANGED <<published, leaving, robbed, air>>
  BY DEF StatusCheck, stations, IInv, TypeOK
<1> QED BY <1>1, ExpireIInv

-----------------------------------------------------------------------------
(* The frames.                                                             *)

LEMMA CheckIInv == ASSUME IInv, NEW f \in Frames, NEW w \in Wcids, Check(f, w) PROVE IInv'
<1>1. /\ place[f] = "mac" /\ w \in published
      /\ place' = [place EXCEPT ![f] = "check"]
      /\ cb' = [cb EXCEPT ![f] = [wcid |-> w, pid |-> None, flags |-> {}]]
      /\ UNCHANGED <<pktid, listed, published, leaving, old, robbed, misled, air>>
  BY DEF Check, Move, stations, faults, Cleared
<1>2. /\ place \in [Frames -> {"mac", "check", "prep", "freed", "gone", "ring", "wait", "lost"}]
      /\ cb \in [Frames -> Cb]
  BY DEF IInv, TypeOK
<1>3. [wcid |-> w, pid |-> None, flags |-> {}] \in Cb
  BY DEF Cb
<1>4. /\ \A g \in Frames \ {f} : place'[g] = place[g] /\ cb'[g] = cb[g]
      /\ place'[f] = "check" /\ cb'[f].wcid = w /\ cb'[f].pid = None /\ cb'[f].flags = {}
      /\ cb' \in [Frames -> Cb]
      /\ place' \in [Frames -> {"mac", "check", "prep", "freed", "gone", "ring", "wait", "lost"}]
  BY <1>1, <1>2, <1>3
<1>5. TypeOK' /\ ListInv'
  BY <1>1, <1>4 DEF IInv, TypeOK, ListInv
<1>6. FrameInv'
  <2>1. ASSUME NEW g \in Frames \ {f} PROVE place'[g] = place[g] /\ cb'[g] = cb[g]
    BY <1>4
  <2> QED BY <1>1, <1>4, <2>1 DEF IInv, FrameInv
<1>7. OwnedInv'
  BY <1>1, <1>4 DEF IInv, OwnedInv, Owned
<1> QED BY <1>5, <1>6, <1>7 DEF IInv

LEMMA AddIInv == ASSUME IInv, NEW f \in Frames, Add(f) PROVE IInv'
<1> DEFINE w == cb[f].wcid
<1>1. /\ place[f] = "check" /\ place' = [place EXCEPT ![f] = "prep"]
      /\ UNCHANGED <<published, leaving, old, robbed, misled, air>>
  BY DEF Add, Move, stations, faults
<1>2. /\ place \in [Frames -> {"mac", "check", "prep", "freed", "gone", "ring", "wait", "lost"}]
      /\ cb \in [Frames -> Cb] /\ pktid \in [Wcids -> [Pids -> Frames \cup {None}]]
      /\ w \in Wcids /\ w \in published \cup leaving
      /\ cb[f].pid = None /\ cb[f].flags = {}
  BY <1>1 DEF IInv, TypeOK, FrameInv, Cb
<1>3. /\ \A g \in Frames \ {f} : place'[g] = place[g]
      /\ place'[f] = "prep"
      /\ place' \in [Frames -> {"mac", "check", "prep", "freed", "gone", "ring", "wait", "lost"}]
  BY <1>1, <1>2
<1>4. CASE UNCHANGED <<cb, pktid, listed>>
  <2>1. TypeOK' /\ ListInv'
    BY <1>1, <1>3, <1>4 DEF IInv, TypeOK, ListInv
  <2>2. FrameInv'
    BY <1>1, <1>2, <1>3, <1>4 DEF IInv, FrameInv
  <2>3. OwnedInv'
    BY <1>1, <1>3, <1>4 DEF IInv, OwnedInv, Owned
  <2> QED BY <2>1, <2>2, <2>3 DEF IInv
<1>5. ASSUME NEW p \in First .. Last + 1, Lowest(w, p), cb' = [cb EXCEPT ![f].pid = p],
             pktid' = With(w, p, f), listed' = listed \cup {w}
      PROVE IInv'
  <2>1. p \in Pids /\ pktid[w][p] = None
    BY <1>2, <1>5 DEF Lowest, Pending
  <2> HIDE DEF w
  <2>2. /\ pktid' \in [Wcids -> [Pids -> Frames \cup {None}]]
        /\ \A v \in Wcids : \A q \in Pids :
             pktid'[v][q] = IF v = w /\ q = p THEN f ELSE pktid[v][q]
    BY <1>2, <1>5, <2>1 DEF With
  <2>3. /\ \A g \in Frames \ {f} : cb'[g] = cb[g]
        /\ cb'[f].wcid = w /\ cb'[f].pid = p /\ cb'[f].flags = {}
        /\ cb' \in [Frames -> Cb]
    BY <1>2, <1>5, <2>1 DEF Cb, w
  <2>4. TypeOK'
    BY <1>1, <1>2, <1>3, <1>5, <2>2, <2>3 DEF IInv, TypeOK
  <2>5. ListInv'
    BY <1>1, <1>2, <1>5, <2>2 DEF IInv, ListInv
  <2>6. FrameInv'
    <3>1. ASSUME NEW g \in Frames \ {f}
          PROVE pktid[cb[g].wcid][cb[g].pid] = g /\ cb[g].pid # None =>
                pktid'[cb[g].wcid][cb[g].pid] = g
      <4>1. cb[g].wcid \in Wcids /\ cb[g].pid \in Pids \cup {None}
        BY <1>2 DEF Cb
      <4> QED BY <2>1, <2>2, <4>1, Constants
    <3> QED BY <1>1, <1>2, <1>3, <2>1, <2>2, <2>3, <3>1 DEF IInv, FrameInv
  <2>7. OwnedInv'
    <3>1. ASSUME NEW v \in Wcids, NEW q \in Pids, pktid[v][q] # None PROVE pktid[v][q] \in Frames \ {f}
      BY <1>1, <3>1 DEF IInv, OwnedInv, Owned
    <3> QED BY <1>3, <2>2, <2>3, <3>1 DEF IInv, OwnedInv, Owned
  <2> QED BY <2>4, <2>5, <2>6, <2>7 DEF IInv
<1> QED BY <1>4, <1>5 DEF Add

LEMMA SubmitIInv == ASSUME IInv, NEW f \in Frames, Submit(f) PROVE IInv'
<1>1. /\ place[f] = "prep" /\ place' = [place EXCEPT ![f] = "ring"]
      /\ UNCHANGED <<pktid, listed, published, leaving, cb, old, robbed, misled>>
      /\ air' = IF cb[f].pid = None THEN air ELSE air \cup {<<cb[f].wcid, cb[f].pid>>}
  BY DEF Submit, Move, stations, faults
<1>2. /\ place \in [Frames -> {"mac", "check", "prep", "freed", "gone", "ring", "wait", "lost"}]
      /\ cb[f].wcid \in Wcids /\ cb[f].pid \in Pids \cup {None} /\ air \subseteq Wcids \X Pids
  BY DEF IInv, TypeOK, Cb
<1>3. /\ \A g \in Frames \ {f} : place'[g] = place[g]
      /\ place'[f] = "ring"
      /\ place' \in [Frames -> {"mac", "check", "prep", "freed", "gone", "ring", "wait", "lost"}]
  BY <1>1, <1>2
<1>4. TypeOK' /\ ListInv'
  BY <1>1, <1>2, <1>3 DEF IInv, TypeOK, ListInv
<1>5. FrameInv'
  BY <1>1, <1>3 DEF IInv, FrameInv
<1>6. OwnedInv'
  BY <1>1, <1>3 DEF IInv, OwnedInv, Owned
<1> QED BY <1>4, <1>5, <1>6 DEF IInv

\* A failed preparation leaves the id where it is.
LEMMA FreeIInv == ASSUME IInv, NEW f \in Frames, Free(f) \/ SetupFails(f) PROVE IInv'
<1>1. /\ place[f] = "prep" /\ place' \in {[place EXCEPT ![f] = "freed"], [place EXCEPT ![f] = "lost"]}
      /\ UNCHANGED <<pktid, listed, published, leaving, cb, old, robbed, misled, air>>
  BY DEF Free, SetupFails, Move, stations, faults
<1>2. place \in [Frames -> {"mac", "check", "prep", "freed", "gone", "ring", "wait", "lost"}]
  BY DEF IInv, TypeOK
<1>3. /\ \A g \in Frames \ {f} : place'[g] = place[g]
      /\ place'[f] \in {"freed", "lost"}
      /\ place' \in [Frames -> {"mac", "check", "prep", "freed", "gone", "ring", "wait", "lost"}]
  BY <1>1, <1>2
<1>4. TypeOK' /\ ListInv'
  BY <1>1, <1>3 DEF IInv, TypeOK, ListInv
<1>5. FrameInv'
  BY <1>1, <1>3 DEF IInv, FrameInv
<1>6. OwnedInv'
  BY <1>1, <1>3 DEF IInv, OwnedInv, Owned
<1> QED BY <1>4, <1>5, <1>6 DEF IInv

\* The id is released without the lock: whoever has it by then is robbed of it.
LEMMA ReleaseIInv == ASSUME IInv, NEW f \in Frames, Release(f) PROVE IInv'
<1> DEFINE w == cb[f].wcid
           p == cb[f].pid
<1>1. /\ place[f] = "freed" /\ place' = [place EXCEPT ![f] = "gone"]
      /\ UNCHANGED <<listed, published, leaving, old, misled, air>>
      /\ cb' = [cb EXCEPT ![f] = Cleared(w)]
      /\ pktid' = Without(w, {p})
      /\ robbed' = robbed \cup {g \in Frames \ {f} : p # None /\ pktid[w][p] = g}
  BY DEF Release, Move, stations
<1>2. /\ place \in [Frames -> {"mac", "check", "prep", "freed", "gone", "ring", "wait", "lost"}]
      /\ w \in Wcids /\ p \in Pids \cup {None} /\ cb \in [Frames -> Cb]
      /\ pktid \in [Wcids -> [Pids -> Frames \cup {None}]] /\ robbed \subseteq Frames
  BY DEF IInv, TypeOK, Cb
<1> HIDE DEF w, p
<1>3. pktid' = [pktid EXCEPT ![w] = [q \in Pids |-> IF q \in {p} THEN None ELSE pktid[w][q]]]
  BY <1>1, <1>2 DEF Without
<1>4. /\ pktid' \in [Wcids -> [Pids -> Frames \cup {None}]]
      /\ \A v \in Wcids : \A q \in Pids :
           pktid'[v][q] = IF v = w /\ q = p THEN None ELSE pktid[v][q]
  BY <1>2, <1>3
<1>5. /\ \A g \in Frames \ {f} : place'[g] = place[g] /\ cb'[g] = cb[g]
      /\ cb' \in [Frames -> Cb]
      /\ place'[f] = "gone"
      /\ place' \in [Frames -> {"mac", "check", "prep", "freed", "gone", "ring", "wait", "lost"}]
  <2>1. Cleared(w) \in Cb
    BY <1>2 DEF Cleared, Cb
  <2> QED BY <1>1, <1>2, <2>1
<1>6. robbed' \subseteq Frames
  BY <1>1, <1>2
<1>7. TypeOK'
  BY <1>1, <1>4, <1>5, <1>6 DEF IInv, TypeOK
<1>8. ListInv'
  BY <1>1, <1>4 DEF IInv, ListInv
<1>9. FrameInv'
  <2>1. ASSUME NEW g \in Frames \ {f}, g \notin robbed', cb[g].pid # None,
               pktid[cb[g].wcid][cb[g].pid] = g
        PROVE pktid'[cb[g].wcid][cb[g].pid] = g
    <3>1. cb[g].wcid \in Wcids /\ cb[g].pid \in Pids
      BY <1>2, <2>1 DEF Cb
    <3>2. ~(cb[g].wcid = w /\ cb[g].pid = p)
      BY <1>1, <2>1
    <3> QED BY <1>4, <2>1, <3>1, <3>2
  <2>2. robbed \subseteq robbed'
    BY <1>1
  <2> QED BY <1>1, <1>5, <2>1, <2>2 DEF IInv, FrameInv
<1>10. OwnedInv'
  <2> SUFFICES ASSUME NEW v \in Wcids, NEW q \in Pids, pktid'[v][q] # None
               PROVE LET g == pktid'[v][q]
                     IN  /\ g \in Frames /\ place'[g] \in {"prep", "freed", "ring", "wait", "lost"}
                         /\ cb'[g].wcid = v /\ cb'[g].pid = q /\ "txs" \notin cb'[g].flags
    BY DEF OwnedInv, Owned
  <2>1. pktid'[v][q] = pktid[v][q] /\ ~(v = w /\ q = p)
    BY <1>4
  <2>2. PICK g \in Frames : g = pktid[v][q] /\ Owned(g, v, q)
    BY <2>1 DEF IInv, OwnedInv, Owned
  <2>3. g # f
    BY <2>1, <2>2 DEF Owned, w, p
  <2> QED BY <1>1, <1>5, <2>1, <2>2, <2>3 DEF Owned
<1> QED BY <1>7, <1>8, <1>9, <1>10 DEF IInv

LEMMA DmaDoneIInv == ASSUME IInv, NEW f \in Frames, DmaDone(f) PROVE IInv'
<1>1. /\ place[f] = "ring"
      /\ UNCHANGED <<pktid, listed, published, leaving, robbed, misled, air>>
  BY DEF DmaDone, stations, faults
<1>2. /\ place \in [Frames -> {"mac", "check", "prep", "freed", "gone", "ring", "wait", "lost"}]
      /\ cb[f].pid \in Pids \cup {None} /\ cb[f].flags \subseteq {"dma", "txs"}
      /\ "dma" \notin cb[f].flags
  BY <1>1 DEF IInv, TypeOK, Cb, FrameInv
<1>3. CASE cb[f].pid = None
  <2>1. place' = [place EXCEPT ![f] = "mac"] /\ UNCHANGED <<cb, old>>
    BY <1>3 DEF DmaDone, Move
  <2>2. /\ \A g \in Frames \ {f} : place'[g] = place[g]
        /\ place'[f] = "mac"
        /\ place' \in [Frames -> {"mac", "check", "prep", "freed", "gone", "ring", "wait", "lost"}]
    BY <1>2, <2>1
  <2>3. TypeOK' /\ ListInv'
    BY <1>1, <2>1, <2>2 DEF IInv, TypeOK, ListInv
  <2>4. FrameInv'
    BY <1>1, <2>1, <2>2 DEF IInv, FrameInv
  <2>5. OwnedInv'
    <3>1. \A w \in Wcids : \A p \in Pids : pktid[w][p] # None => pktid[w][p] \in Frames \ {f}
      BY <1>3, Constants DEF IInv, OwnedInv, Owned
    <3> QED BY <1>1, <2>1, <2>2, <3>1 DEF IInv, OwnedInv, Owned
  <2> QED BY <2>3, <2>4, <2>5 DEF IInv
<1>4. CASE cb[f].pid # None
  <2>1. Done({f}, "dma")
    BY <1>4 DEF DmaDone
  <2>2. /\ cb' \in [Frames -> Cb]
        /\ place' \in [Frames -> {"mac", "check", "prep", "freed", "gone", "ring", "wait", "lost"}]
        /\ old' \subseteq Frames
        /\ \A g \in Frames \ {f} : cb'[g] = cb[g] /\ place'[g] = place[g]
        /\ cb[f].flags \cup {"dma"} = {"dma", "txs"} => place'[f] = "mac"
        /\ cb[f].flags \cup {"dma"} # {"dma", "txs"} =>
             /\ cb'[f].wcid = cb[f].wcid /\ cb'[f].pid = cb[f].pid
             /\ cb'[f].flags = cb[f].flags \cup {"dma"} /\ place'[f] = "wait"
    BY <2>1, DoneProperties DEF IInv
  <2>3. "txs" \in cb[f].flags => place'[f] = "mac"
    BY <1>2, <2>2
  <2>4. "txs" \notin cb[f].flags =>
          /\ place'[f] = "wait" /\ cb'[f].flags = {"dma"}
          /\ cb'[f].wcid = cb[f].wcid /\ cb'[f].pid = cb[f].pid
    BY <1>2, <2>2
  <2>5. TypeOK' /\ ListInv'
    BY <1>1, <2>2 DEF IInv, TypeOK, ListInv
  <2>6. FrameInv'
    BY <1>1, <1>4, <2>2, <2>3, <2>4 DEF IInv, FrameInv
  <2>7. OwnedInv'
    BY <1>1, <2>2, <2>4 DEF IInv, OwnedInv, Owned
  <2> QED BY <2>5, <2>6, <2>7 DEF IInv
<1> QED BY <1>3, <1>4

\* Time, a lost event, and stations that come and go.
LEMMA Unmoved ==
  ASSUME IInv, UNCHANGED <<pktid, listed, place, cb, robbed>>,
         published \cup leaving \subseteq published' \cup leaving', published' \cap leaving' = {}
  PROVE FrameInv' /\ OwnedInv' /\ ListInv'
<1>1. FrameInv' /\ ListInv'
  BY DEF IInv, FrameInv, ListInv
<1>2. OwnedInv'
  BY DEF IInv, OwnedInv, Owned
<1> QED BY <1>1, <1>2

LEMMA AgeIInv == ASSUME IInv, NEW f \in Frames, Age(f) PROVE IInv'
<1>1. /\ UNCHANGED <<pktid, listed, place, cb, robbed, misled, published, leaving, air>>
      /\ old' \subseteq Frames
  BY DEF Age, stations, faults, IInv, TypeOK
<1>2. TypeOK' /\ published' \cap leaving' = {}
  BY <1>1 DEF IInv, TypeOK, ListInv
<1> QED BY <1>1, <1>2, Unmoved DEF IInv

LEMMA TxsLostIInv == ASSUME IInv, NEW w \in Wcids, NEW p \in Pids, TxsLost(w, p) PROVE IInv'
<1>1. /\ UNCHANGED <<pktid, listed, place, cb, robbed, misled, published, leaving, old>>
      /\ air' \subseteq Wcids \X Pids
  BY DEF TxsLost, stations, faults, IInv, TypeOK
<1>2. TypeOK' /\ published' \cap leaving' = {}
  BY <1>1 DEF IInv, TypeOK, ListInv
<1> QED BY <1>1, <1>2, Unmoved DEF IInv

LEMMA StationsIInv == ASSUME IInv, NEW w \in Wcids, Unpublish(w) \/ Publish(w) PROVE IInv'
<1>1. /\ UNCHANGED <<pktid, listed, place, cb, robbed, misled, old, air>>
      /\ published \cup leaving \subseteq published' \cup leaving' /\ published' \cap leaving' = {}
      /\ published' \subseteq Wcids /\ leaving' \subseteq Wcids
  BY DEF Unpublish, Publish, faults, IInv, TypeOK, ListInv
<1>2. TypeOK'
  BY <1>1 DEF IInv, TypeOK
<1> QED BY <1>1, <1>2, Unmoved DEF IInv

LEMMA NextIInv == IInv /\ [Next]_vars => IInv'
<1> SUFFICES ASSUME IInv, [Next]_vars PROVE IInv'
  OBVIOUS
<1>1. CASE UNCHANGED vars
  BY <1>1 DEF vars, stations, faults, IInv, TypeOK, FrameInv, OwnedInv, Owned, ListInv
<1>2. CASE Transmit
  BY <1>2, CheckIInv, AddIInv, SubmitIInv, FreeIInv, ReleaseIInv DEF Transmit, Prepare
<1>3. ASSUME NEW f \in Frames, DmaDone(f) \/ Age(f) PROVE IInv'
  BY <1>3, DmaDoneIInv, AgeIInv
<1>4. ASSUME NEW w \in Wcids, NEW p \in Pids, Txs(w, p) \/ TxsLost(w, p) PROVE IInv'
  BY <1>4, TxsIInv, TxsLostIInv
<1>5. ASSUME NEW flush \in BOOLEAN, StatusCheck(flush) PROVE IInv'
  BY <1>5, StatusCheckIInv
<1>6. CASE Manage
  BY <1>6, CleanupIInv, StationsIInv DEF Manage
<1> QED BY <1>1, <1>2, <1>3, <1>4, <1>5, <1>6 DEF Next, Complete, Undefined

LEMMA Invariance == Spec => []IInv
  BY InitIInv, NextIInv, PTL DEF Spec

-----------------------------------------------------------------------------
(* The theorem.                                                            *)

\* tx_status_skb_add, _get, _done, the check and the cleanup keep idr, station list and
\* frames in agreement for any number of frames, stations and ids: no frame is reported
\* twice, none whose DMA is done is forgotten but one robbed of its id by a failed
\* preparation, and nothing refers to a station that may be freed, as long as no lookup falls
\* between the free of a frame that could not be padded and the release of its id.
THEOREM StatusStaysTracked == Spec => []StatusIsTracked
<1>1. IInv => StatusIsTracked
  <2> SUFFICES ASSUME IInv PROVE StatusIsTracked
    OBVIOUS
  <2>1. PendingIsOwned
    BY DEF IInv, OwnedInv, Owned, PendingIsOwned, Pending
  <2>2. NothingForgotten
    <3> SUFFICES ASSUME NEW f \in Frames, place[f] = "wait", f \notin robbed
                 PROVE pktid[cb[f].wcid][cb[f].pid] = f
      BY DEF NothingForgotten
    <3>1. cb[f].pid # None /\ cb[f].flags = {"dma"}
      BY DEF IInv, FrameInv
    <3>2. "txs" \in cb[f].flags \/ pktid[cb[f].wcid][cb[f].pid] = f
      BY <3>1 DEF IInv, FrameInv
    <3> QED BY <3>1, <3>2
  <2>3. PendingIsListed
    BY DEF IInv, ListInv, PendingIsListed, Pending
  <2>4. RemovedIsForgotten
    BY DEF IInv, ListInv, RemovedIsForgotten, Pending
  <2> QED BY <2>1, <2>2, <2>3, <2>4 DEF IInv, StatusIsTracked
<1> QED BY <1>1, Invariance, PTL

-----------------------------------------------------------------------------
(* TxSched.                                                                 *)

\* The entry the status worker has begun is the oldest, and no longer counted.
EntryAtHand ==
  st.pc # "idle" =>
    /\ ring # <<>> /\ st.w \in Stas
    /\ ring[1] = [sta |-> st.w, kind |-> "plain"]

\* A sender that has left its list has it empty.
ListsSpliced == \A p \in Senders : loc[p] # {} => pc[p] \in {"pending", "relist"} \cup Heads

\* Where a sender has a station or a txq at hand.
AtHand ==
  \A p \in Senders :
    pc[p] \in {"relist", "test", "first", "more", "return", "return_err"} \cup Heads => cur[p] \in Stas

CountInv == \A w \in Stas : count[w] <= Cardinality(Own(w))

\* Sender q will still look at queue h of w, or give w up because of an error.
Comes(q, w, h) ==
  /\ cur[q] = w
  /\ \/ pc[q] = "tx_offchannel"
     \/ h = "tx_pending" /\ pc[q] = "tx_pending"
     \/ bad[q] /\ pc[q] \in {"tx_pending", "relist"}

PendingInv ==
  \A w \in Stas, h \in Heads : pend[w][h] > 0 =>
    OnList(w) \/ w \in tx \/ <<w, "pending">> \in left \/ \E q \in Senders : Comes(q, w, h)

\* Where a chip reset is, and what is off then.
ResetInv ==
  /\ reset = (ctl # "idle") /\ on = (ctl \notin {"park", "drain"})
  /\ ctl # "burst" => pc["reset"] = "off"
  /\ ctl = "drain" => pc["worker"] = "off"

\* Nothing has happened since the worker began that it would have to be told.
Quiet == ctl = "idle" /\ ~sched

QuietPending ==
  /\ list = {} \/ Stopped
  /\ pc["worker"] \in {"pending", "relist"} \cup Heads /\ bad["worker"] => Stopped
  /\ pc["worker"] = "tx_pending" =>
       Stopped \/ cur["worker"] \in tx \/ pend[cur["worker"]]["tx_offchannel"] = 0
  /\ pc["worker"] = "relist" =>
       \/ Stopped
       \/ \A h \in Heads : pend[cur["worker"]][h] = 0
       \/ cur["worker"] \in tx /\ \E h \in Heads : pend[cur["worker"]][h] = 0

QuietRound ==
  /\ pc["worker"] = "first" => count[cur["worker"]] < MaxNonAql
  /\ pc["worker"] = "more" => sent["worker"]
  /\ pc["worker"] = "off" => ~sent["worker"]
  /\ st.pc = "idle" /\ ~sent["worker"] =>
       /\ pc["worker"] \in {"next", "test", "first", "return"} =>
            Stopped \/ \A w \in active \cap round : frames[w] = 0
       /\ pc["worker"] = "return" => Stopped \/ frames[cur["worker"]] = 0
       /\ pc["worker"] = "off" /\ ~failed => Stopped \/ \A w \in active : frames[w] = 0

QuietInv == Quiet => QuietPending /\ QuietRound

SchedInv ==
  /\ SchedTypeOK /\ EntryAtHand /\ ListsSpliced /\ AtHand /\ CountInv /\ TxqIsOffered
  /\ PendingInv /\ ResetInv /\ QuietInv
-----------------------------------------------------------------------------
(* The ring as a sequence of entries.                                       *)

Entries == [sta : Stas, kind : Kinds]
OwnOf(r, w) == {i \in DOMAIN r : r[i] = [sta |-> w, kind |-> "counted"]}
Uncounted(r) == [r EXCEPT ![1].kind = "plain"]
Ghosted(r, w) ==
  [i \in DOMAIN r |-> IF r[i] = [sta |-> w, kind |-> "counted"]
                      THEN [sta |-> w, kind |-> "ghost"] ELSE r[i]]

LEMMA UncountedIsRing ==
  \A r \in Seq(Entries) : r # <<>> =>
    /\ Uncounted(r) \in Seq(Entries) /\ Len(Uncounted(r)) = Len(r)
    /\ Uncounted(r)[1] = [sta |-> r[1].sta, kind |-> "plain"]
    /\ \A i \in 1..Len(r) : i # 1 => Uncounted(r)[i] = r[i]
<1> TAKE r \in Seq(Entries)
<1> HAVE r # <<>>
<1> DEFINE e == [r[1] EXCEPT !.kind = "plain"]
<1>1. Len(r) \in Nat /\ 1 \in 1..Len(r) /\ DOMAIN r = 1..Len(r) /\ r[1] \in Entries
  OBVIOUS
<1>2. e \in Entries /\ e = [sta |-> r[1].sta, kind |-> "plain"]
  BY <1>1 DEF Entries, Kinds
<1>3. Uncounted(r) = [r EXCEPT ![1] = e]
  BY DEF Uncounted
<1> HIDE DEF e
<1>4. [r EXCEPT ![1] = e] \in Seq(Entries) /\ Len([r EXCEPT ![1] = e]) = Len(r)
  BY <1>1, <1>2
<1> QED
  BY <1>1, <1>2, <1>3, <1>4

LEMMA GhostedIsRing ==
  \A r \in Seq(Entries), w \in Stas :
    /\ Ghosted(r, w) \in Seq(Entries) /\ Len(Ghosted(r, w)) = Len(r)
    /\ \A i \in 1..Len(r) :
         Ghosted(r, w)[i] = IF r[i] = [sta |-> w, kind |-> "counted"]
                            THEN [sta |-> w, kind |-> "ghost"] ELSE r[i]
<1> TAKE r \in Seq(Entries), w \in Stas
<1>1. Len(r) \in Nat /\ DOMAIN r = 1..Len(r) /\ \A i \in 1..Len(r) : r[i] \in Entries
  OBVIOUS
<1> DEFINE G(i) == IF r[i] = [sta |-> w, kind |-> "counted"]
                   THEN [sta |-> w, kind |-> "ghost"] ELSE r[i]
<1>2. \A i \in 1..Len(r) : G(i) \in Entries
  BY <1>1 DEF Entries, Kinds
<1>3. Ghosted(r, w) = [i \in 1..Len(r) |-> G(i)]
  BY <1>1 DEF Ghosted
<1> HIDE DEF G
<1>4. [i \in 1..Len(r) |-> G(i)] \in Seq(Entries) /\ Len([i \in 1..Len(r) |-> G(i)]) = Len(r)
  BY <1>1, <1>2
<1> QED
  BY <1>1, <1>3, <1>4 DEF G

\* How many entries of the ring are counted for a station.
LEMMA OwnIsFinite ==
  \A r \in Seq(Entries), w \in Stas : IsFiniteSet(OwnOf(r, w)) /\ Cardinality(OwnOf(r, w)) \in Nat
<1> TAKE r \in Seq(Entries), w \in Stas
<1>1. IsFiniteSet(1..Len(r)) /\ OwnOf(r, w) \subseteq 1..Len(r)
  BY FS_Interval DEF OwnOf
<1> QED
  BY <1>1, FS_Subset, FS_CardinalityType

LEMMA AppendOwn ==
  \A r \in Seq(Entries), e \in Entries, w \in Stas :
    Cardinality(OwnOf(Append(r, e), w)) =
      Cardinality(OwnOf(r, w)) + (IF e = [sta |-> w, kind |-> "counted"] THEN 1 ELSE 0)
<1> TAKE r \in Seq(Entries), e \in Entries, w \in Stas
<1>1. /\ Len(r) \in Nat /\ DOMAIN r = 1..Len(r) /\ DOMAIN Append(r, e) = 1..(Len(r) + 1)
      /\ Append(r, e)[Len(r) + 1] = e /\ \A i \in 1..Len(r) : Append(r, e)[i] = r[i]
  OBVIOUS
<1>2. CASE e = [sta |-> w, kind |-> "counted"]
  <2>1. OwnOf(Append(r, e), w) = OwnOf(r, w) \cup {Len(r) + 1} /\ Len(r) + 1 \notin OwnOf(r, w)
    BY <1>1, <1>2 DEF OwnOf
  <2> QED
    BY <2>1, <1>2, OwnIsFinite, FS_AddElement
<1>3. CASE e # [sta |-> w, kind |-> "counted"]
  <2>1. OwnOf(Append(r, e), w) = OwnOf(r, w)
    BY <1>1, <1>3 DEF OwnOf
  <2> QED
    BY <2>1, <1>3, OwnIsFinite
<1> QED
  BY <1>2, <1>3

LEMMA UncountedOwn ==
  \A r \in Seq(Entries), w \in Stas : r # <<>> =>
    Cardinality(OwnOf(Uncounted(r), w)) =
      IF r[1] = [sta |-> w, kind |-> "counted"] THEN Cardinality(OwnOf(r, w)) - 1
                                               ELSE Cardinality(OwnOf(r, w))
<1> TAKE r \in Seq(Entries), w \in Stas
<1> HAVE r # <<>>
<1>0. /\ Uncounted(r) \in Seq(Entries) /\ Len(Uncounted(r)) = Len(r)
      /\ Uncounted(r)[1] = [sta |-> r[1].sta, kind |-> "plain"]
      /\ \A i \in 1..Len(r) : i # 1 => Uncounted(r)[i] = r[i]
  BY UncountedIsRing
<1>1. /\ Len(r) \in Nat /\ DOMAIN r = 1..Len(r) /\ DOMAIN Uncounted(r) = 1..Len(r) /\ 1 \in 1..Len(r)
      /\ Uncounted(r)[1].kind = "plain" /\ \A i \in 1..Len(r) : i # 1 => Uncounted(r)[i] = r[i]
  BY <1>0
<1>2. 1 \notin OwnOf(Uncounted(r), w)
  BY <1>1 DEF OwnOf
<1>3. CASE r[1] = [sta |-> w, kind |-> "counted"]
  <2>1. OwnOf(Uncounted(r), w) = OwnOf(r, w) \ {1} /\ 1 \in OwnOf(r, w)
    BY <1>1, <1>2, <1>3 DEF OwnOf
  <2> QED
    BY <2>1, <1>3, OwnIsFinite, FS_RemoveElement
<1>4. CASE r[1] # [sta |-> w, kind |-> "counted"]
  <2>1. OwnOf(Uncounted(r), w) = OwnOf(r, w)
    BY <1>1, <1>2, <1>4 DEF OwnOf
  <2> QED
    BY <2>1, <1>4
<1> QED
  BY <1>3, <1>4

LEMMA GhostedOwn ==
  \A r \in Seq(Entries), w \in Stas, v \in Stas :
    v # w => Cardinality(OwnOf(Ghosted(r, w), v)) = Cardinality(OwnOf(r, v))
<1> TAKE r \in Seq(Entries), w \in Stas, v \in Stas
<1> HAVE v # w
<1>1. OwnOf(Ghosted(r, w), v) = OwnOf(r, v)
  <2> DEFINE g == Ghosted(r, w)
  <2>0. /\ g \in Seq(Entries) /\ Len(g) = Len(r)
        /\ \A i \in 1..Len(r) : g[i] = IF r[i] = [sta |-> w, kind |-> "counted"]
                                       THEN [sta |-> w, kind |-> "ghost"] ELSE r[i]
    BY GhostedIsRing
  <2> HIDE DEF g
  <2>1. DOMAIN r = 1..Len(r) /\ DOMAIN g = 1..Len(r)
    BY <2>0
  <2>2. \A i \in 1..Len(r) : g[i] = [sta |-> v, kind |-> "counted"]
                              <=> r[i] = [sta |-> v, kind |-> "counted"]
    BY <2>0
  <2>3. OwnOf(g, v) = OwnOf(r, v)
    BY <2>1, <2>2 DEF OwnOf
  <2> QED
    BY <2>3 DEF g
<1> QED
  BY <1>1

\* An entry that leaves uncounted is nobody's.
LEMMA TailOwn ==
  \A r \in Seq(Entries), w \in Stas : r # <<>> /\ r[1].kind = "plain" =>
    Cardinality(OwnOf(Tail(r), w)) = Cardinality(OwnOf(r, w))
<1> TAKE r \in Seq(Entries), w \in Stas
<1> HAVE r # <<>> /\ r[1].kind = "plain"
<1>1. /\ Len(r) \in Nat /\ Len(r) > 0 /\ DOMAIN r = 1..Len(r) /\ DOMAIN Tail(r) = 1..(Len(r) - 1)
      /\ \A i \in 1..(Len(r) - 1) : Tail(r)[i] = r[i + 1]
      /\ Tail(r) \in Seq(Entries)
  OBVIOUS
<1> DEFINE f == [i \in OwnOf(Tail(r), w) |-> i + 1]
<1>2. f \in Bijection(OwnOf(Tail(r), w), OwnOf(r, w))
  <2>1. \A i \in OwnOf(Tail(r), w) : i \in 1..(Len(r) - 1) /\ i + 1 \in OwnOf(r, w)
    BY <1>1 DEF OwnOf
  <2>2. \A j \in OwnOf(r, w) : j \in 1..Len(r) /\ j # 1 /\ j - 1 \in OwnOf(Tail(r), w)
    BY <1>1 DEF OwnOf
  <2>3. f \in [OwnOf(Tail(r), w) -> OwnOf(r, w)]
    BY <2>1
  <2>4. \A i, j \in OwnOf(Tail(r), w) : f[i] = f[j] => i = j
    BY <2>1
  <2>5. \A j \in OwnOf(r, w) : \E i \in OwnOf(Tail(r), w) : f[i] = j
    <3> TAKE j \in OwnOf(r, w)
    <3>1. j - 1 \in OwnOf(Tail(r), w) /\ f[j - 1] = j
      BY <2>2
    <3> QED
      BY <3>1
  <2> HIDE DEF f
  <2> QED
    BY <2>3, <2>4, <2>5 DEF Bijection, Injection, Surjection, IsInjective
<1> QED
  BY <1>1, <1>2, OwnIsFinite, FS_Bijection DEF ExistsBijection
-----------------------------------------------------------------------------
(* Type correctness, with what a step needs to know of the entry and the     *)
(* station at hand.                                                          *)

HandsInv == SchedTypeOK /\ EntryAtHand /\ AtHand

LEMMA RingStep ==
  ASSUME SchedTypeOK, NEW w \in Stas, NEW c \in BOOLEAN, Queued < NDesc, Counted(w, c)
  PROVE  /\ ring' \in Seq(Entries) /\ Queued' <= NDesc /\ count' \in [Stas -> Nat]
         /\ \A v \in Stas : count'[v] = count[v] + (IF v = w /\ c THEN 1 ELSE 0)
         /\ \A i \in 1..Len(ring) : ring'[i] = ring[i]
         /\ Len(ring') = Len(ring) + 1
<1> DEFINE e == [sta |-> w, kind |-> IF c THEN "counted" ELSE "plain"]
<1>1. e \in Entries
  BY DEF Entries, Kinds
<1>2. ring \in Seq(Entries) /\ Len(ring) \in Nat /\ NDesc \in Nat /\ count \in [Stas -> Nat]
  BY TxSchedAssumption DEF SchedTypeOK, Entries
<1>3. ring' = Append(ring, e) /\ count' = IF c THEN [count EXCEPT ![w] = @ + 1] ELSE count
  BY DEF Counted
<1> HIDE DEF e
<1>4. ring' \in Seq(Entries) /\ Len(ring') = Len(ring) + 1 /\ \A i \in 1..Len(ring) : ring'[i] = ring[i]
  BY <1>1, <1>2, <1>3
<1>5. count' \in [Stas -> Nat] /\ \A v \in Stas : count'[v] = count[v] + (IF v = w /\ c THEN 1 ELSE 0)
  BY <1>2, <1>3
<1> QED
  BY <1>2, <1>4, <1>5 DEF Queued

\* A step of one sender: where it goes, and what it then has at hand.
LEMMA HandStep ==
  ASSUME SchedTypeOK, AtHand, NEW p \in Senders, NEW x \in Positions, NEW v \in Stas \cup {Nobody},
         pc' = [pc EXCEPT ![p] = x], cur' = [cur EXCEPT ![p] = v],
         x \in {"relist", "test", "first", "more", "return", "return_err"} \cup Heads => v \in Stas
  PROVE  pc' \in [Senders -> Positions] /\ cur' \in [Senders -> Stas \cup {Nobody}] /\ AtHand'
<1>1. pc \in [Senders -> Positions] /\ cur \in [Senders -> Stas \cup {Nobody}]
  BY DEF SchedTypeOK
<1>2. pc' \in [Senders -> Positions] /\ cur' \in [Senders -> Stas \cup {Nobody}]
  BY <1>1
<1>3. AtHand'
  BY <1>1 DEF AtHand
<1> QED
  BY <1>2, <1>3

\* The steps of the senders on phy->tx_list and on the txqs.
LEMMA HandsSend ==
  ASSUME HandsInv, NEW p \in Senders, Send(p)
  PROVE  HandsInv'
<1> USE DEF HandsInv
<1>0. /\ SchedTypeOK /\ EntryAtHand /\ AtHand /\ ring \in Seq(Entries)
      /\ p \in {"worker", "reset"}
  BY DEF SchedTypeOK, Entries, Senders
<1>1. ASSUME Start(p) PROVE HandsInv'
  BY <1>0, <1>1 DEF SchedTypeOK, EntryAtHand, AtHand, Start, Set, Goto, Positions, Heads, Queued, Senders
<1>2. ASSUME TakeStation(p) PROVE HandsInv'
  <2>1. PICK w \in loc[p] : cur' = Set(cur, p, w) /\ loc' = Set(loc, p, loc[p] \ {w})
    BY <1>2 DEF TakeStation
  <2>2. w \in Stas /\ pc' = [pc EXCEPT ![p] = "tx_offchannel"] /\ cur' = [cur EXCEPT ![p] = w]
    BY <1>0, <1>2, <2>1 DEF TakeStation, Goto, Set, SchedTypeOK
  <2>3. pc' \in [Senders -> Positions] /\ cur' \in [Senders -> Stas \cup {Nobody}] /\ AtHand'
    BY <1>0, <2>2, HandStep DEF Positions, Heads
  <2>4. UNCHANGED <<queues, bad, sent, stop, others, history>> /\ loc' \in [Senders -> SUBSET Stas]
    BY <1>0, <1>2, <2>1 DEF TakeStation, Set, SchedTypeOK
  <2>5. EntryAtHand' /\ SchedTypeOK'
    BY <1>0, <2>3, <2>4 DEF EntryAtHand, SchedTypeOK, queues, others, history, Queued
  <2> QED
    BY <2>3, <2>5
<1>4. ASSUME NEW h \in Heads, QueueEnds(p, h) PROVE HandsInv'
  <2>1. \E x \in {"tx_pending", "relist"} : pc' = [pc EXCEPT ![p] = x]
    BY <1>4 DEF QueueEnds, Goto
  <2>2. cur[p] \in Stas /\ cur' = [cur EXCEPT ![p] = cur[p]]
    BY <1>0, <1>4 DEF QueueEnds, AtHand, SchedTypeOK
  <2>3. pc' \in [Senders -> Positions] /\ cur' \in [Senders -> Stas \cup {Nobody}] /\ AtHand'
    BY <1>0, <2>1, <2>2, HandStep DEF Positions, Heads
  <2>4. bad' \in [Senders -> BOOLEAN] /\ UNCHANGED <<queues, loc, cur, sent, stop, others, history>>
    BY <1>0, <1>4 DEF QueueEnds, SchedTypeOK
  <2>5. EntryAtHand' /\ SchedTypeOK'
    BY <1>0, <2>3, <2>4 DEF EntryAtHand, SchedTypeOK, queues, others, history, Queued
  <2> QED
    BY <2>3, <2>5
<1>5. ASSUME Relist(p) PROVE HandsInv'
  BY <1>0, <1>5 DEF SchedTypeOK, EntryAtHand, AtHand, Relist, Set, Goto, Positions, Heads, Queued, Senders, others
<1>6. ASSUME StartRound(p) PROVE HandsInv'
  BY <1>0, <1>6 DEF SchedTypeOK, EntryAtHand, AtHand, StartRound, Set, Goto, Positions, Heads, Queued, Senders, others, history
<1>7. ASSUME NextTxq(p) PROVE HandsInv'
  <2>1. PICK w \in active \ round : active' = active \ {w} /\ round' = round \cup {w} /\ cur' = Set(cur, p, w)
    BY <1>7 DEF NextTxq
  <2>2. w \in Stas /\ pc' = [pc EXCEPT ![p] = "test"] /\ cur' = [cur EXCEPT ![p] = w]
    BY <1>0, <1>7, <2>1 DEF NextTxq, Goto, Set, SchedTypeOK
  <2>3. pc' \in [Senders -> Positions] /\ cur' \in [Senders -> Stas \cup {Nobody}] /\ AtHand'
    BY <1>0, <2>2, HandStep DEF Positions
  <2>4. UNCHANGED <<list, pend, tx, frames, ring, count, loc, bad, sent, stop, others, history>>
    BY <1>7 DEF NextTxq
  <2>5. EntryAtHand' /\ SchedTypeOK'
    BY <1>0, <2>1, <2>2, <2>3, <2>4 DEF EntryAtHand, SchedTypeOK, others, history, Queued
  <2> QED
    BY <2>3, <2>5
<1>8. ASSUME RoundEnds(p) PROVE HandsInv'
  BY <1>0, <1>8 DEF SchedTypeOK, EntryAtHand, AtHand, RoundEnds, Set, Goto, Positions, Heads, Queued, Senders, queues, others, history
<1>9. ASSUME TestTxq(p) PROVE HandsInv'
  <2>1. \/ pc' = [pc EXCEPT ![p] = "next"] /\ cur' = [cur EXCEPT ![p] = Nobody]
        \/ pc' = [pc EXCEPT ![p] = "first"] /\ cur' = [cur EXCEPT ![p] = cur[p]]
    BY <1>0, <1>9 DEF TestTxq, Goto, Set, SchedTypeOK
  <2>2. cur[p] \in Stas
    BY <1>0, <1>9 DEF TestTxq, AtHand
  <2>3. pc' \in [Senders -> Positions] /\ cur' \in [Senders -> Stas \cup {Nobody}] /\ AtHand'
    <3>1. {"next", "first"} \subseteq Positions /\ "next" \notin Heads
      BY DEF Positions, Heads
    <3> QED
      BY <1>0, <2>1, <2>2, <3>1, HandStep
  <2>4. left' \subseteq Stas \X {"txq", "pending"}
    BY <1>0, <1>9, <2>2 DEF TestTxq, SchedTypeOK
  <2>5. UNCHANGED <<queues, loc, bad, sent, stop, others, failed, troubles>>
    BY <1>9 DEF TestTxq
  <2>6. EntryAtHand' /\ SchedTypeOK'
    BY <1>0, <2>3, <2>4, <2>5 DEF EntryAtHand, SchedTypeOK, queues, others, Queued
  <2> QED
    BY <2>3, <2>6
<1>10. ASSUME ReturnTxq(p) PROVE HandsInv'
  <2>1. /\ pc' = [pc EXCEPT ![p] = "next"] \/ pc' = [pc EXCEPT ![p] = "off"]
        /\ cur' = [cur EXCEPT ![p] = Nobody]
    BY <1>10 DEF ReturnTxq, Goto, Set
  <2>2. cur[p] \in Stas
    BY <1>0, <1>10 DEF ReturnTxq, AtHand
  <2>3. pc' \in [Senders -> Positions] /\ cur' \in [Senders -> Stas \cup {Nobody}] /\ AtHand'
    <3>1. {"next", "off"} \subseteq Positions /\ {"next", "off"} \cap Heads = {}
      BY DEF Positions, Heads
    <3> QED
      BY <1>0, <2>1, <3>1, HandStep
  <2>4. active' \subseteq Stas /\ sent' \in [Senders -> BOOLEAN] /\ stop' \in [Senders -> BOOLEAN]
    BY <1>0, <1>10, <2>2 DEF ReturnTxq, Set, SchedTypeOK
  <2>5. failed' \in BOOLEAN
    BY <1>0, <1>10, Zenon DEF ReturnTxq, SchedTypeOK
  <2>6. UNCHANGED <<list, pend, tx, frames, round, ring, count, loc, bad, others, left, troubles>>
    BY <1>10 DEF ReturnTxq
  <2>7. EntryAtHand' /\ SchedTypeOK'
    BY <1>0, <2>3, <2>4, <2>5, <2>6 DEF EntryAtHand, SchedTypeOK, others, Queued
  <2> QED
    BY <2>3, <2>7
<1>3. ASSUME NEW h \in Heads, SendPending(p, h) PROVE HandsInv'
  <2>1. cur[p] \in Stas /\ pend' = [pend EXCEPT ![cur[p]][h] = @ - 1] /\ pend[cur[p]][h] > 0
    BY <1>0, <1>3 DEF AtHand, SendPending
  <2>2. pend' \in [Stas -> [Heads -> 0..MaxFrames]]
    BY <1>0, <2>1, TxSchedAssumption DEF SchedTypeOK
  <2>3. /\ ring' \in Seq(Entries) /\ Queued' <= NDesc /\ count' \in [Stas -> Nat]
        /\ ring # <<>> => ring' # <<>> /\ ring'[1] = ring[1]
    <3>1. CASE UNCHANGED <<ring, count>>
      BY <1>0, <3>1 DEF SchedTypeOK, Queued
    <3>2. CASE Queued < NDesc /\ \E c \in BOOLEAN : Counted(cur[p], c)
      <4>1. PICK c \in BOOLEAN : Counted(cur[p], c)
        BY <3>2
      <4>2. /\ ring' \in Seq(Entries) /\ Queued' <= NDesc /\ count' \in [Stas -> Nat]
            /\ \A i \in 1..Len(ring) : ring'[i] = ring[i]
            /\ Len(ring') = Len(ring) + 1
        BY <1>0, <2>1, <3>2, <4>1, RingStep
      <4>3. ring # <<>> => 1 \in 1..Len(ring) /\ ring' # <<>>
        BY <1>0, <4>2
      <4> QED
        BY <4>2, <4>3
    <3> QED
      BY <1>3, <3>1, <3>2 DEF SendPending, Refused
  <2>4. UNCHANGED <<list, tx, frames, active, round, senders, others, left, failed>>
    BY <1>3 DEF SendPending
  <2> QED
    BY <1>0, <2>1, <2>2, <2>3, <2>4 DEF SchedTypeOK, EntryAtHand, AtHand, senders, others, Entries
<1>11. ASSUME NEW next \in {"return", "more", "return_err"}, pc[p] \in {"first", "more"},
              SendFrame(p, next) \/ LoseFrame(p, next) \/ NoFrame(p, next)
       PROVE  HandsInv'
  <2>1. cur[p] \in Stas
    BY <1>0, <1>11 DEF AtHand
  <2>5. ASSUME pc' = [pc EXCEPT ![p] = next], UNCHANGED cur
        PROVE  pc' \in [Senders -> Positions] /\ AtHand'
    <3>1. cur' = [cur EXCEPT ![p] = cur[p]] /\ next \in Positions
      BY <1>0, <2>5 DEF SchedTypeOK, Positions
    <3> QED
      BY <1>0, <2>1, <2>5, <3>1, HandStep
  <2>2. CASE NoFrame(p, next)
    <3>1. /\ UNCHANGED <<queues, loc, cur, bad, sent, stop, others, history>>
          /\ pc' \in [Senders -> Positions] /\ AtHand'
      BY <2>2, <2>5 DEF NoFrame, Goto
    <3> QED
      BY <1>0, <3>1 DEF SchedTypeOK, EntryAtHand, queues, others, history, Queued
  <2>3. CASE LoseFrame(p, next)
    <3>1. /\ UNCHANGED <<list, pend, tx, active, round, loc, cur, bad, sent, stop, others, left, failed>>
          /\ UNCHANGED <<ring, count>>
          /\ pc' \in [Senders -> Positions] /\ AtHand'
      BY <2>3, <2>5 DEF LoseFrame, Refused, Goto
    <3>2. frames' \in [Stas -> 0..MaxFrames]
      BY <1>0, <2>1, <2>3, TxSchedAssumption DEF LoseFrame, SchedTypeOK
    <3> QED
      BY <1>0, <3>1, <3>2 DEF SchedTypeOK, EntryAtHand, others, Queued
  <2>4. CASE SendFrame(p, next)
    <3>1. PICK c \in BOOLEAN : /\ Counted(cur[p], c)
                               /\ stop' = Set(stop, p, c /\ count[cur[p]] + 1 >= MaxNonAql)
      BY <2>4 DEF SendFrame
    <3>2. /\ ring' \in Seq(Entries) /\ Queued' <= NDesc /\ count' \in [Stas -> Nat]
          /\ \A i \in 1..Len(ring) : ring'[i] = ring[i]
          /\ Len(ring') = Len(ring) + 1
      BY <1>0, <2>1, <2>4, <3>1, RingStep DEF SendFrame
    <3>3. ring # <<>> => 1 \in 1..Len(ring) /\ ring' # <<>>
      BY <1>0, <3>2
    <3>4. frames' \in [Stas -> 0..MaxFrames]
      BY <1>0, <2>1, <2>4, TxSchedAssumption DEF SendFrame, SchedTypeOK
    <3>5. /\ pc' = [pc EXCEPT ![p] = next] /\ stop' \in [Senders -> BOOLEAN]
          /\ sent' \in [Senders -> BOOLEAN]
      BY <1>0, <2>4, <3>1 DEF SendFrame, Goto, Set, SchedTypeOK
    <3>6. UNCHANGED <<list, pend, tx, active, round, loc, cur, bad, others, history>>
      BY <2>4 DEF SendFrame
    <3>7. pc' \in [Senders -> Positions] /\ AtHand'
      BY <2>5, <3>5, <3>6
    <3>8. EntryAtHand'
      BY <1>0, <3>2, <3>3, <3>6 DEF EntryAtHand, others
    <3> QED
      BY <1>0, <3>2, <3>4, <3>5, <3>6, <3>7, <3>8 DEF SchedTypeOK, others, history, Entries
  <2> QED
    BY <1>11, <2>2, <2>3, <2>4
<1>12. ASSUME FirstFrame(p) \/ NextFrame(p) PROVE HandsInv'
  <2>1. pc[p] \in {"first", "more"}
    BY <1>12 DEF FirstFrame, NextFrame
  <2>2. \E next \in {"return", "more", "return_err"} :
          SendFrame(p, next) \/ LoseFrame(p, next) \/ NoFrame(p, next)
    BY <1>12 DEF FirstFrame, NextFrame
  <2> QED
    BY <2>1, <2>2, <1>11
<1> QED
  BY <1>1, <1>2, <1>3, <1>4, <1>5, <1>6, <1>7, <1>8, <1>9, <1>10, <1>12 DEF Send, PendingSteps, Txqs
\* The status worker: the oldest entry is uncounted, then leaves.
LEMMA HandsStatus ==
  ASSUME HandsInv, Status
  PROVE  HandsInv'
<1>0. /\ SchedTypeOK /\ EntryAtHand /\ AtHand /\ ring \in Seq(Entries) /\ NDesc \in Nat
      /\ Len(ring) \in Nat /\ Len(ring) <= NDesc /\ count \in [Stas -> Nat]
  BY TxSchedAssumption DEF HandsInv, SchedTypeOK, Entries, Queued
<1>1. ASSUME ring # <<>>, ring' = Tail(ring)
      PROVE  ring' \in Seq(Entries) /\ Queued' <= NDesc
  BY <1>0, <1>1 DEF Queued
<1>2. CASE Reap
  <2>1. /\ ring # <<>> /\ ring' = Tail(ring) /\ sched' = TRUE /\ st.pc = "idle"
        /\ UNCHANGED <<list, pend, tx, frames, active, round, count, senders, st, on, reset, ctl, history>>
    BY <1>2 DEF Reap
  <2>2. ring' \in Seq(Entries) /\ Queued' <= NDesc
    BY <1>1, <2>1
  <2> QED
    BY <1>0, <2>1, <2>2 DEF HandsInv, SchedTypeOK, EntryAtHand, AtHand, senders, history, Entries
<1>3. CASE Uncount
  <2> DEFINE w == ring[1].sta
  <2>1. /\ ring # <<>> /\ ring' = Uncounted(ring)
        /\ UNCHANGED <<list, pend, tx, frames, active, round, senders, sched, on, reset, ctl, history>>
    BY <1>3 DEF Uncount, Uncounted
  <2>2. /\ count' = [count EXCEPT ![w] = IF @ = 0 THEN 0 ELSE @ - 1]
        /\ st' = [pc |-> IF count[w] = MaxNonAql THEN "revive" ELSE "free", w |-> w]
    BY <1>3 DEF Uncount
  <2>3. w \in Stas
    <3>1. ring[1] \in Entries
      BY <1>0, <2>1
    <3> QED
      BY <3>1 DEF Entries
  <2>4. ring' \in Seq(Entries) /\ Len(ring') = Len(ring) /\ ring'[1] = [sta |-> w, kind |-> "plain"]
    BY <1>0, <2>1, UncountedIsRing
  <2> HIDE DEF w
  <2>5. count' \in [Stas -> Nat]
    BY <1>0, <2>2, <2>3
  <2>6. st' \in [pc : {"idle", "revive", "free"}, w : Stas \cup {Nobody}] /\ st'.w = w
    BY <2>2, <2>3
  <2>7. ring' # <<>> /\ Queued' <= NDesc
    BY <1>0, <2>1, <2>4 DEF Queued
  <2> QED
    BY <1>0, <2>1, <2>3, <2>4, <2>5, <2>6, <2>7 DEF HandsInv, SchedTypeOK, EntryAtHand, AtHand, senders, history, Entries
<1>4. CASE Revive
  <2>1. /\ UNCHANGED <<list, pend, tx, frames, round, ring, count, senders, sched, on, reset, ctl, history>>
        /\ st' = [st EXCEPT !.pc = "free"] /\ st.w \in Stas /\ st.pc # "idle"
        /\ active' = IF frames[st.w] > 0 THEN active \cup {st.w} ELSE active
    BY <1>0, <1>4 DEF Revive, EntryAtHand
  <2>2. st' \in [pc : {"idle", "revive", "free"}, w : Stas \cup {Nobody}] /\ st'.w = st.w
    BY <1>0, <2>1 DEF SchedTypeOK
  <2>3. active' \subseteq Stas
    BY <1>0, <2>1 DEF SchedTypeOK
  <2> QED
    BY <1>0, <2>1, <2>2, <2>3 DEF HandsInv, SchedTypeOK, EntryAtHand, AtHand, senders, history, Queued
<1>5. CASE FreeEntry
  <2>1. /\ ring # <<>> /\ ring' = Tail(ring) /\ sched' = TRUE /\ st' = NoEntry
        /\ UNCHANGED <<list, pend, tx, frames, active, round, count, senders, on, reset, ctl, history>>
    BY <1>0, <1>5 DEF FreeEntry, EntryAtHand
  <2>2. ring' \in Seq(Entries) /\ Queued' <= NDesc
    BY <1>1, <2>1
  <2>3. st' \in [pc : {"idle", "revive", "free"}, w : Stas \cup {Nobody}] /\ st'.pc = "idle"
    BY <2>1 DEF NoEntry
  <2> QED
    BY <1>0, <2>1, <2>2, <2>3 DEF HandsInv, SchedTypeOK, EntryAtHand, AtHand, senders, history, Entries
<1> QED
  BY <1>2, <1>3, <1>4, <1>5 DEF Status

LEMMA HandsMac80211 ==
  ASSUME HandsInv, Mac80211
  PROVE  HandsInv'
<1>0. SchedTypeOK /\ EntryAtHand /\ AtHand /\ ring \in Seq(Entries) /\ MaxFrames \in Nat
  BY TxSchedAssumption DEF HandsInv, SchedTypeOK, Entries
<1>1. ASSUME NEW w \in Stas, Enqueue(w) PROVE HandsInv'
  <2>1. /\ UNCHANGED <<list, pend, tx, round, ring, count, senders, st, on, reset, ctl, failed, troubles>>
        /\ frames' = [frames EXCEPT ![w] = @ + 1] /\ frames[w] < MaxFrames
        /\ active' = active \cup {w} /\ left' = left \ {<<w, "txq">>} /\ sched' = TRUE
    BY <1>1 DEF Enqueue
  <2>2. frames' \in [Stas -> 0..MaxFrames]
    BY <1>0, <2>1 DEF SchedTypeOK
  <2> QED
    BY <1>0, <2>1, <2>2 DEF HandsInv, SchedTypeOK, EntryAtHand, AtHand, senders, Queued
<1>2. ASSUME NEW w \in Stas, NEW h \in Heads, Tx(w, h) PROVE HandsInv'
  <2>1. /\ UNCHANGED <<list, frames, active, round, ring, count, senders, others, history>>
        /\ pend' = [pend EXCEPT ![w][h] = @ + 1] /\ pend[w][h] < MaxFrames /\ tx' = tx \cup {w}
    BY <1>2 DEF Tx
  <2>2. pend' \in [Stas -> [Heads -> 0..MaxFrames]]
    BY <1>0, <2>1 DEF SchedTypeOK
  <2> QED
    BY <1>0, <2>1, <2>2 DEF HandsInv, SchedTypeOK, EntryAtHand, AtHand, senders, others, history, Queued
<1>3. ASSUME NEW w \in Stas, TxLists(w) PROVE HandsInv'
  BY <1>0, <1>3 DEF TxLists, HandsInv, SchedTypeOK, EntryAtHand, AtHand, senders, Queued
<1>4. ASSUME NEW w \in Stas, Leave(w) PROVE HandsInv'
  <2>1. /\ UNCHANGED <<tx, round, pc, cur, bad, sent, stop, st, sched, on, reset, ctl, failed>>
        /\ list' = list \ {w} /\ loc' = [p \in Senders |-> loc[p] \ {w}] /\ active' = active \ {w}
        /\ pend' = [pend EXCEPT ![w] = [h \in Heads |-> 0]] /\ frames' = [frames EXCEPT ![w] = 0]
        /\ count' = [count EXCEPT ![w] = 0] /\ left' = left \ ({w} \X {"txq", "pending"})
        /\ ring' = Ghosted(ring, w)
    BY <1>4, Zenon DEF Leave, Ghosted
  <2>2. /\ ring' \in Seq(Entries) /\ Len(ring') = Len(ring)
        /\ \A i \in 1..Len(ring) : ring'[i] = IF ring[i] = [sta |-> w, kind |-> "counted"]
                                              THEN [sta |-> w, kind |-> "ghost"] ELSE ring[i]
    BY <1>0, <2>1, GhostedIsRing
  <2>3. /\ pend' \in [Stas -> [Heads -> 0..MaxFrames]] /\ frames' \in [Stas -> 0..MaxFrames]
        /\ count' \in [Stas -> Nat] /\ loc' \in [Senders -> SUBSET Stas]
    BY <1>0, <2>1 DEF SchedTypeOK
  <2>4. EntryAtHand'
    <3>1. ring # <<>> => 1 \in 1..Len(ring) /\ ring' # <<>>
      BY <1>0, <2>2
    <3> QED
      BY <1>0, <2>1, <2>2, <3>1 DEF EntryAtHand
  <2>5. AtHand'
    BY <1>0, <2>1 DEF AtHand
  <2>6. list' \cup tx' \cup active' \cup round' \subseteq Stas /\ left' \subseteq Stas \X {"txq", "pending"}
    BY <1>0, <2>1 DEF SchedTypeOK
  <2> QED
    BY <1>0, <2>1, <2>2, <2>3, <2>4, <2>5, <2>6 DEF HandsInv, SchedTypeOK, Entries, Queued
<1> QED
  BY <1>1, <1>2, <1>3, <1>4 DEF Mac80211

LEMMA HandsReset ==
  ASSUME HandsInv, Reset
  PROVE  HandsInv'
<1>0. SchedTypeOK /\ EntryAtHand /\ AtHand
  BY DEF HandsInv
<1>1. CASE SetReset
  BY <1>0, <1>1 DEF SetReset, HandsInv, SchedTypeOK, EntryAtHand, AtHand, queues, senders, Queued
<1>2. CASE Disable
  BY <1>0, <1>2 DEF Disable, HandsInv, SchedTypeOK, EntryAtHand, AtHand, queues, senders, history, Queued
<1>3. CASE Parked
  BY <1>0, <1>3 DEF Parked, HandsInv, SchedTypeOK, EntryAtHand, AtHand, queues, senders, history, Queued
<1>4. CASE Resume
  BY <1>0, <1>4 DEF Resume, HandsInv, SchedTypeOK, EntryAtHand, AtHand, queues, senders, history, Queued
<1> QED
  BY <1>1, <1>2, <1>3, <1>4 DEF Reset

LEMMA HandsNext ==
  ASSUME HandsInv, [SchedNext]_schedVars
  PROVE  HandsInv'
<1>1. CASE UNCHANGED schedVars
  BY <1>1 DEF schedVars, HandsInv, SchedTypeOK, EntryAtHand, AtHand, queues, senders, others, history, Queued
<1> QED
  BY <1>1, HandsSend, HandsStatus, HandsMac80211, HandsReset DEF SchedNext

LEMMA HandsInit == SchedInit => HandsInv
<1> SUFFICES ASSUME SchedInit PROVE HandsInv
  OBVIOUS
<1>1. ring = <<>> /\ ring \in Seq([sta : Stas, kind : Kinds]) /\ Queued = 0 /\ NDesc \in Nat
  BY TxSchedAssumption DEF SchedInit, Queued
<1>2. /\ list \cup tx \cup active \cup round \subseteq Stas /\ left = {}
      /\ count \in [Stas -> Nat] /\ st \in [pc : {"idle", "revive", "free"}, w : Stas \cup {Nobody}]
      /\ st.pc = "idle"
  BY DEF SchedInit, NoEntry
<1>3. frames \in [Stas -> 0..MaxFrames] /\ pend \in [Stas -> [Heads -> 0..MaxFrames]]
  BY TxSchedAssumption DEF SchedInit
<1>4. /\ pc \in [Senders -> Positions] /\ loc \in [Senders -> SUBSET Stas]
      /\ cur \in [Senders -> Stas \cup {Nobody}]
      /\ bad \in [Senders -> BOOLEAN] /\ sent \in [Senders -> BOOLEAN] /\ stop \in [Senders -> BOOLEAN]
  BY DEF SchedInit, Positions
<1>5. /\ sched \in BOOLEAN /\ on \in BOOLEAN /\ reset \in BOOLEAN /\ failed \in BOOLEAN
      /\ ctl \in {"idle", "begin", "burst", "park", "drain"}
  BY DEF SchedInit
<1>6. EntryAtHand /\ AtHand
  BY <1>2 DEF EntryAtHand, AtHand, SchedInit, Heads
<1> QED
  BY <1>1, <1>2, <1>3, <1>4, <1>5, <1>6 DEF HandsInv, SchedTypeOK
-----------------------------------------------------------------------------
(* non_aql_packets and the entries of the ring.                             *)

\* What a step may do to the ring.
LEMMA RingSteps ==
  ASSUME HandsInv, [SchedNext]_schedVars
  PROVE  \/ UNCHANGED <<ring, count>>
         \/ \E w \in Stas, c \in BOOLEAN : Queued < NDesc /\ Counted(w, c)
         \/ Reap \/ Uncount \/ FreeEntry
         \/ \E w \in Stas : Leave(w)
<1> DEFINE Goal == \/ UNCHANGED <<ring, count>>
                   \/ \E w \in Stas, c \in BOOLEAN : Queued < NDesc /\ Counted(w, c)
                   \/ Reap \/ Uncount \/ FreeEntry
                   \/ \E w \in Stas : Leave(w)
<1>1. CASE UNCHANGED schedVars
  BY <1>1 DEF schedVars, queues
<1>2. ASSUME NEW p \in Senders, Send(p) PROVE Goal
  <2>1. CASE \E h \in Heads : SendPending(p, h)
    <3>1. cur[p] \in Stas
      BY <2>1 DEF SendPending, HandsInv, AtHand
    <3> QED
      BY <2>1, <3>1 DEF SendPending, Refused
  <2>2. ASSUME NEW next, pc[p] \in {"first", "more"},
               SendFrame(p, next) \/ LoseFrame(p, next) \/ NoFrame(p, next)
        PROVE  Goal
    <3>1. cur[p] \in Stas
      BY <2>2 DEF HandsInv, AtHand
    <3>2. CASE SendFrame(p, next)
      BY <3>1, <3>2 DEF SendFrame
    <3>3. CASE LoseFrame(p, next) \/ NoFrame(p, next)
      BY <3>3 DEF LoseFrame, NoFrame, Refused, queues
    <3> QED
      BY <2>2, <3>2, <3>3
  <2> HIDE DEF Goal
  <2>3. CASE FirstFrame(p)
    BY <2>2, <2>3 DEF FirstFrame
  <2>4. CASE NextFrame(p)
    BY <2>2, <2>4 DEF NextFrame
  <2>5. CASE \/ Start(p) \/ TakeStation(p) \/ Relist(p) \/ (\E h \in Heads : QueueEnds(p, h))
             \/ StartRound(p) \/ NextTxq(p) \/ RoundEnds(p) \/ TestTxq(p) \/ ReturnTxq(p)
    BY <2>5 DEF Goal, Start, TakeStation, Relist, QueueEnds, StartRound, NextTxq, RoundEnds, TestTxq, ReturnTxq, queues
  <2> QED
    BY <1>2, <2>1, <2>3, <2>4, <2>5 DEF Send, PendingSteps, Txqs, Goal
<1>3. CASE Status
  BY <1>3 DEF Status, Revive
<1>4. CASE Mac80211
  BY <1>4 DEF Mac80211, Enqueue, Tx, TxLists
<1>5. CASE Reset
  BY <1>5 DEF Reset, SetReset, Disable, Parked, Resume, queues
<1> QED
  BY <1>1, <1>2, <1>3, <1>4, <1>5 DEF SchedNext

LEMMA CountNext ==
  ASSUME HandsInv, CountInv, [SchedNext]_schedVars
  PROVE  CountInv'
<1>0. /\ ring \in Seq(Entries) /\ SchedTypeOK /\ count \in [Stas -> Nat]
      /\ \A w \in Stas : Own(w) = OwnOf(ring, w) /\ Own(w)' = OwnOf(ring', w)
      /\ \A w \in Stas : Cardinality(OwnOf(ring, w)) \in Nat
      /\ \A w \in Stas : count[w] <= Cardinality(OwnOf(ring, w))
  <2>1. ring \in Seq(Entries) /\ SchedTypeOK /\ count \in [Stas -> Nat]
    BY DEF HandsInv, SchedTypeOK, Entries
  <2>2. \A w \in Stas : Own(w) = OwnOf(ring, w) /\ Own(w)' = OwnOf(ring', w)
    BY DEF Own, OwnOf
  <2> QED
    BY <2>1, <2>2, OwnIsFinite DEF CountInv
<1> SUFFICES ASSUME NEW w \in Stas PROVE count'[w] <= Cardinality(OwnOf(ring', w))
  BY <1>0 DEF CountInv
<1>1. CASE UNCHANGED <<ring, count>>
  BY <1>0, <1>1
<1>2. ASSUME NEW v \in Stas, NEW c \in BOOLEAN, Queued < NDesc, Counted(v, c)
      PROVE  count'[w] <= Cardinality(OwnOf(ring', w))
  <2> DEFINE e == [sta |-> v, kind |-> IF c THEN "counted" ELSE "plain"]
  <2>1. e \in Entries /\ ring' = Append(ring, e)
    BY <1>2 DEF Entries, Kinds, Counted
  <2>2. count'[w] = count[w] + (IF w = v /\ c THEN 1 ELSE 0)
    BY <1>0, <1>2, RingStep
  <2>3. (w = v /\ c) <=> e = [sta |-> w, kind |-> "counted"]
    OBVIOUS
  <2> HIDE DEF e
  <2>4. Cardinality(OwnOf(ring', w)) =
          Cardinality(OwnOf(ring, w)) + (IF e = [sta |-> w, kind |-> "counted"] THEN 1 ELSE 0)
    BY <1>0, <2>1, AppendOwn
  <2> QED
    BY <1>0, <2>2, <2>3, <2>4
<1>3. CASE Reap \/ FreeEntry
  <2>1. ring # <<>> /\ ring[1].kind = "plain" /\ ring' = Tail(ring) /\ UNCHANGED count
    BY <1>3 DEF Reap, FreeEntry, HandsInv, EntryAtHand
  <2> QED
    BY <1>0, <2>1, TailOwn
<1>4. CASE Uncount
  <2>1. /\ ring # <<>> /\ ring[1].kind # "plain" /\ ring' = Uncounted(ring)
        /\ count' = [count EXCEPT ![ring[1].sta] = IF @ = 0 THEN 0 ELSE @ - 1]
    BY <1>4 DEF Uncount, Uncounted
  <2>2. Cardinality(OwnOf(ring', w)) =
          IF ring[1] = [sta |-> w, kind |-> "counted"] THEN Cardinality(OwnOf(ring, w)) - 1
                                                      ELSE Cardinality(OwnOf(ring, w))
    BY <1>0, <2>1, UncountedOwn
  <2>3. CASE ring[1] = [sta |-> w, kind |-> "counted"]
    <3>1. ring[1].sta = w
      BY <2>3
    <3>2. count'[w] = IF count[w] = 0 THEN 0 ELSE count[w] - 1
      BY <1>0, <2>1, <3>1
    <3>3. ring[1] = [sta |-> w, kind |-> "counted"] /\ 1 \in OwnOf(ring, w)
      <4>1. 1 \in DOMAIN ring
        BY <1>0, <2>1
      <4> QED
        BY <2>3, <4>1 DEF OwnOf
    <3>4. Cardinality(OwnOf(ring, w)) # 0
      BY <1>0, <3>3, OwnIsFinite, FS_EmptySet
    <3> QED
      BY <1>0, <2>2, <3>2, <3>3, <3>4
  <2>4. CASE ring[1] # [sta |-> w, kind |-> "counted"]
    <3>1. count'[w] <= count[w] /\ count'[w] \in Nat
      BY <1>0, <2>1
    <3> QED
      BY <1>0, <2>2, <2>4, <3>1
  <2> QED
    BY <2>3, <2>4
<1>5. ASSUME NEW v \in Stas, Leave(v)
      PROVE  count'[w] <= Cardinality(OwnOf(ring', w))
  <2>1. count' = [count EXCEPT ![v] = 0] /\ ring' = Ghosted(ring, v)
    BY <1>5, Zenon DEF Leave, Ghosted
  <2>2. ring' \in Seq(Entries)
    BY <1>0, <2>1, GhostedIsRing
  <2>3. CASE w = v
    <3>1. Cardinality(OwnOf(ring', w)) \in Nat /\ count'[w] = 0
      BY <1>0, <2>1, <2>2, <2>3, OwnIsFinite
    <3> QED
      BY <3>1
  <2>4. CASE w # v
    <3>1. Cardinality(OwnOf(ring', w)) = Cardinality(OwnOf(ring, w)) /\ count'[w] = count[w]
      BY <1>0, <2>1, <2>4, GhostedOwn
    <3> QED
      BY <1>0, <3>1
  <2> QED
    BY <2>3, <2>4
<1> QED
  BY <1>1, <1>2, <1>3, <1>4, <1>5, RingSteps

-----------------------------------------------------------------------------
(* The txqs.                                                                *)

InHands(w) ==
  \E p \in Senders : cur[p] = w /\ pc[p] \in {"test", "first", "more", "return", "return_err"}
Offered(w) ==
  \/ w \in active \/ <<w, "txq">> \in left \/ InHands(w) \/ count[w] >= MaxNonAql
  \/ st.pc = "revive" /\ st.w = w

LEMMA CountGrows ==
  ASSUME SchedTypeOK, NEW w \in Stas,
         UNCHANGED count \/ \E v \in Stas, c \in BOOLEAN : Queued < NDesc /\ Counted(v, c)
  PROVE  count'[w] \in Nat /\ count'[w] >= count[w]
<1>1. count \in [Stas -> Nat]
  BY DEF SchedTypeOK
<1>2. CASE UNCHANGED count
  BY <1>1, <1>2
<1>3. CASE \E v \in Stas, c \in BOOLEAN : Queued < NDesc /\ Counted(v, c)
  <2>1. PICK v \in Stas, c \in BOOLEAN : Queued < NDesc /\ Counted(v, c)
    BY <1>3
  <2>2. count'[w] = count[w] + (IF w = v /\ c THEN 1 ELSE 0)
    BY <2>1, RingStep
  <2> QED
    BY <1>1, <2>2
<1> QED
  BY <1>2, <1>3

LEMMA OfferedNext ==
  ASSUME HandsInv, TxqIsOffered, [SchedNext]_schedVars
  PROVE  TxqIsOffered'
<1>0. /\ \A w \in Stas : frames[w] > 0 => Offered(w)
      /\ SchedTypeOK /\ AtHand /\ count \in [Stas -> Nat] /\ MaxNonAql \in Nat
      /\ pc \in [Senders -> Positions] /\ cur \in [Senders -> Stas \cup {Nobody}]
      /\ frames \in [Stas -> 0..MaxFrames] /\ MaxFrames \in Nat
  BY TxSchedAssumption DEF TxqIsOffered, Offered, InHands, HandsInv, SchedTypeOK
<1> SUFFICES ASSUME NEW w \in Stas, frames'[w] > 0 PROVE Offered(w)'
  BY DEF TxqIsOffered, Offered, InHands
\* Nothing it depends on changes, or more frames are counted.
<1>1. ASSUME UNCHANGED <<active, left, st, pc, cur>>, frames[w] > 0,
             UNCHANGED count \/ \E v \in Stas, c \in BOOLEAN : Queued < NDesc /\ Counted(v, c)
      PROVE  Offered(w)'
  <2>1. count'[w] \in Nat /\ count'[w] >= count[w]
    BY <1>0, <1>1, CountGrows
  <2>2. Offered(w)
    BY <1>0, <1>1
  <2> QED
    BY <1>0, <1>1, <2>1, <2>2 DEF Offered, InHands
\* A sender moves; what it has in hand it keeps there.
<1>2. ASSUME NEW p \in Senders, NEW x \in Positions, pc' = [pc EXCEPT ![p] = x], frames[w] > 0,
             UNCHANGED <<active, left, st>>,
             UNCHANGED count \/ \E v \in Stas, c \in BOOLEAN : Queued < NDesc /\ Counted(v, c),
             \/ pc[p] \notin {"test", "first", "more", "return", "return_err"} /\ \E y : cur' = [cur EXCEPT ![p] = y]
             \/ x \in {"test", "first", "more", "return", "return_err"} /\ UNCHANGED cur
      PROVE  Offered(w)'
  <2>1. count'[w] \in Nat /\ count'[w] >= count[w]
    BY <1>0, <1>2, CountGrows
  <2>2. Offered(w)
    BY <1>0, <1>2
  <2>3. InHands(w) => InHands(w)'
    <3> SUFFICES ASSUME NEW q \in Senders, cur[q] = w,
                        pc[q] \in {"test", "first", "more", "return", "return_err"}
                 PROVE  InHands(w)'
      BY DEF InHands
    <3>1. cur'[q] = w /\ pc'[q] \in {"test", "first", "more", "return", "return_err"}
      BY <1>0, <1>2
    <3> QED
      BY <3>1 DEF InHands
  <2> QED
    BY <1>0, <1>2, <2>1, <2>2, <2>3 DEF Offered
<1>3. ASSUME NEW p \in Senders, Send(p) PROVE Offered(w)'
  <2>1. CASE Start(p)
    <3>1. pc' = [pc EXCEPT ![p] = "pending"] /\ UNCHANGED <<active, left, st, count, cur, frames>> /\ pc[p] = "off"
      BY <2>1 DEF Start, Goto
    <3>2. cur' = [cur EXCEPT ![p] = cur[p]] /\ "pending" \in Positions
      BY <1>0, <3>1 DEF Positions
    <3> QED
      BY <1>2, <3>1, <3>2
  <2>2. CASE TakeStation(p)
    <3>1. PICK v \in loc[p] : cur' = Set(cur, p, v)
      BY <2>2 DEF TakeStation
    <3>2. /\ pc' = [pc EXCEPT ![p] = "tx_offchannel"] /\ UNCHANGED <<active, left, st, count, frames>>
          /\ pc[p] = "pending" /\ cur' = [cur EXCEPT ![p] = v] /\ "tx_offchannel" \in Positions
      BY <2>2, <3>1 DEF TakeStation, Goto, queues, others, history, Set, Positions, Heads
    <3> QED
      BY <1>2, <3>2
  <2>3. CASE \E h \in Heads : SendPending(p, h)
    <3>1. PICK h \in Heads : SendPending(p, h)
      BY <2>3
    <3>2. cur[p] \in Stas
      BY <1>0, <3>1 DEF SendPending, AtHand
    <3>3. /\ UNCHANGED <<active, left, st, pc, cur, frames>>
          /\ UNCHANGED count \/ \E c \in BOOLEAN : Queued < NDesc /\ Counted(cur[p], c)
      BY <3>1 DEF SendPending, senders, others, Refused
    <3> QED
      BY <1>1, <3>2, <3>3
  <2>4. CASE \E h \in Heads : QueueEnds(p, h)
    <3>1. PICK h \in Heads : QueueEnds(p, h)
      BY <2>4
    <3>2. /\ UNCHANGED <<active, left, st, cur, count, frames>>
          /\ \E x \in {"tx_pending", "relist"} : pc' = [pc EXCEPT ![p] = x]
          /\ pc[p] \in {"tx_offchannel", "tx_pending"}
      BY <3>1 DEF QueueEnds, queues, others, history, Goto, Heads
    <3>3. cur' = [cur EXCEPT ![p] = cur[p]] /\ {"tx_pending", "relist"} \subseteq Positions
      BY <1>0, <3>2 DEF Positions, Heads
    <3> QED
      BY <1>2, <3>2, <3>3
  <2>5. CASE Relist(p)
    <3>1. /\ pc' = [pc EXCEPT ![p] = "pending"] /\ UNCHANGED <<active, st, count, frames>>
          /\ cur' = [cur EXCEPT ![p] = Nobody] /\ pc[p] = "relist"
          /\ left \subseteq left'
      BY <2>5 DEF Relist, Goto, Set, others
    <3>2. InHands(w) => InHands(w)'
      BY <1>0, <3>1 DEF InHands
    <3> QED
      BY <1>0, <3>1, <3>2 DEF Offered
  <2>6. CASE StartRound(p) \/ RoundEnds(p)
    <3>1. /\ \E x \in {"next", "round", "off"} : pc' = [pc EXCEPT ![p] = x]
          /\ UNCHANGED <<active, left, st, cur, count, frames>>
          /\ pc[p] \in {"round", "pending", "next"}
      BY <2>6 DEF StartRound, RoundEnds, Goto, queues, others, history
    <3>2. cur' = [cur EXCEPT ![p] = cur[p]] /\ {"next", "round", "off"} \subseteq Positions
      BY <1>0, <3>1 DEF Positions
    <3> QED
      BY <1>2, <3>1, <3>2
  <2>7. CASE NextTxq(p)
    <3>1. PICK v \in active \ round : active' = active \ {v} /\ cur' = Set(cur, p, v)
      BY <2>7 DEF NextTxq
    <3>2. /\ pc' = [pc EXCEPT ![p] = "test"] /\ UNCHANGED <<left, st, count, frames>>
          /\ cur' = [cur EXCEPT ![p] = v] /\ pc[p] = "next"
      BY <2>7, <3>1 DEF NextTxq, Goto, Set, others, history
    <3>3. InHands(w) => InHands(w)'
      BY <1>0, <3>2 DEF InHands
    <3>4. v = w => InHands(w)'
      BY <1>0, <3>2 DEF InHands
    <3> QED
      BY <1>0, <3>1, <3>2, <3>3, <3>4 DEF Offered
  <2>8. CASE TestTxq(p)
    <3>1. /\ UNCHANGED <<active, st, count, frames>> /\ left \subseteq left'
          /\ \/ /\ pc' = [pc EXCEPT ![p] = "next"] /\ cur' = [cur EXCEPT ![p] = Nobody]
                /\ <<cur[p], "txq">> \in left' \/ count[cur[p]] >= MaxNonAql
             \/ pc' = [pc EXCEPT ![p] = "first"] /\ UNCHANGED cur
      BY <2>8 DEF TestTxq, Goto, Set, queues, others
    <3>2. InHands(w) => InHands(w)' \/ cur[p] = w
      BY <1>0, <3>1 DEF InHands
    <3>3. CASE pc' = [pc EXCEPT ![p] = "first"] /\ UNCHANGED cur
      <4>1. InHands(w) => InHands(w)'
        BY <1>0, <3>3 DEF InHands
      <4> QED
        BY <1>0, <3>1, <4>1 DEF Offered
    <3>4. CASE <<cur[p], "txq">> \in left' \/ count[cur[p]] >= MaxNonAql
      BY <1>0, <3>1, <3>2, <3>4 DEF Offered
    <3> QED
      BY <3>1, <3>3, <3>4
  <2>9. ASSUME NEW next \in {"return", "more", "return_err"}, pc[p] \in {"first", "more"},
               SendFrame(p, next) \/ LoseFrame(p, next) \/ NoFrame(p, next)
        PROVE  Offered(w)'
    <3>1. cur[p] \in Stas /\ next \in Positions
      BY <1>0, <2>9 DEF AtHand, Positions
    <3>2. /\ pc' = [pc EXCEPT ![p] = next] /\ UNCHANGED <<active, left, st, cur>>
          /\ UNCHANGED count \/ \E c \in BOOLEAN : Queued < NDesc /\ Counted(cur[p], c)
          /\ frames' = [frames EXCEPT ![cur[p]] = @ - 1] \/ UNCHANGED frames
      BY <2>9 DEF SendFrame, LoseFrame, NoFrame, Refused, Goto, queues, others, history
    <3>3. frames[w] > 0
      BY <1>0, <3>1, <3>2
    <3> QED
      BY <1>2, <3>1, <3>2, <3>3
  <2>10. CASE FirstFrame(p)
    BY <2>9, <2>10 DEF FirstFrame
  <2>11. CASE NextFrame(p)
    BY <2>9, <2>11 DEF NextFrame
  <2>12. CASE ReturnTxq(p)
    <3>1. /\ active' = IF frames[cur[p]] > 0 THEN active \cup {cur[p]} ELSE active
          /\ UNCHANGED <<left, st, count, frames>>
          /\ cur' = [cur EXCEPT ![p] = Nobody] /\ \E x : pc' = [pc EXCEPT ![p] = x]
      BY <2>12 DEF ReturnTxq, Goto, Set, others
    <3>2. InHands(w) => InHands(w)' \/ cur[p] = w
      BY <1>0, <3>1 DEF InHands
    <3> QED
      BY <1>0, <3>1, <3>2 DEF Offered
  <2> QED
    BY <1>3, <2>1, <2>2, <2>3, <2>4, <2>5, <2>6, <2>7, <2>8, <2>10, <2>11, <2>12
       DEF Send, PendingSteps, Txqs
<1>4. CASE Status
  <2>1. CASE Reap
    BY <1>0, <1>1, <2>1 DEF Reap, senders, history
  <2>2. CASE Uncount
    <3>1. /\ UNCHANGED <<active, left, pc, cur, frames>> /\ st.pc = "idle"
          /\ count' = [count EXCEPT ![ring[1].sta] = IF @ = 0 THEN 0 ELSE @ - 1]
          /\ st' = [pc |-> IF count[ring[1].sta] = MaxNonAql THEN "revive" ELSE "free", w |-> ring[1].sta]
      BY <2>2 DEF Uncount, senders, history
    <3>2. count[w] >= MaxNonAql => count'[w] >= MaxNonAql \/ (st'.pc = "revive" /\ st'.w = w)
      <4>1. CASE ring[1].sta = w /\ count[w] = MaxNonAql
        <5>1. st' = [pc |-> "revive", w |-> w]
          BY <3>1, <4>1
        <5> QED
          BY <5>1
      <4>2. CASE ~(ring[1].sta = w /\ count[w] = MaxNonAql)
        BY <1>0, <3>1, <4>2
      <4> QED
        BY <4>1, <4>2
    <3> QED
      BY <1>0, <3>1, <3>2 DEF Offered, InHands
  <2>3. CASE Revive
    BY <1>0, <2>3 DEF Revive, Offered, InHands, senders, history
  <2>4. CASE FreeEntry
    BY <1>0, <2>4 DEF FreeEntry, Offered, InHands, senders, history
  <2> QED
    BY <1>4, <2>1, <2>2, <2>3, <2>4 DEF Status
<1>5. CASE Mac80211
  <2>1. ASSUME NEW v \in Stas, Enqueue(v) PROVE Offered(w)'
    BY <1>0, <2>1 DEF Enqueue, Offered, InHands, senders
  <2>2. ASSUME NEW v \in Stas, NEW h \in Heads, Tx(v, h) PROVE Offered(w)'
    BY <1>0, <1>1, <2>2 DEF Tx, senders, others, history
  <2>3. ASSUME NEW v \in Stas, TxLists(v) PROVE Offered(w)'
    BY <1>0, <2>3 DEF TxLists, Offered, InHands, senders
  <2>4. ASSUME NEW v \in Stas, Leave(v) PROVE Offered(w)'
    <3>1. /\ active' = active \ {v} /\ frames' = [frames EXCEPT ![v] = 0]
          /\ count' = [count EXCEPT ![v] = 0] /\ left' = left \ ({v} \X {"txq", "pending"})
          /\ UNCHANGED <<pc, cur, st>>
      BY <2>4 DEF Leave
    <3>2. v # w
      BY <1>0, <3>1
    <3> QED
      BY <1>0, <3>1, <3>2 DEF Offered, InHands
  <2> QED
    BY <1>5, <2>1, <2>2, <2>3, <2>4 DEF Mac80211
<1>6. CASE Reset
  BY <1>0, <1>1, <1>6 DEF Reset, SetReset, Disable, Parked, Resume, queues, senders, history
<1>7. CASE UNCHANGED schedVars
  BY <1>0, <1>1, <1>7 DEF schedVars, queues, senders, others, history
<1> QED
  BY <1>3, <1>4, <1>5, <1>6, <1>7 DEF SchedNext
-----------------------------------------------------------------------------
(* The stations with frames of their own.                                   *)

Served(w, h) ==
  OnList(w) \/ w \in tx \/ <<w, "pending">> \in left \/ \E q \in Senders : Comes(q, w, h)

\* What the second half of a run leaves alone.
LEMMA TxqsSteps ==
  ASSUME HandsInv, NEW p \in Senders, Txqs(p)
  PROVE  /\ UNCHANGED <<list, pend, tx, loc>> /\ left \subseteq left'
         /\ pc[p] \in {"round", "pending", "next", "test", "first", "more", "return", "return_err"}
         /\ pc[p] = "pending" => loc[p] = {}
         /\ \E x \in {"round", "off", "next", "test", "first", "more", "return", "return_err"} :
              pc' = [pc EXCEPT ![p] = x]
         /\ \E v \in Stas \cup {Nobody} : cur' = [cur EXCEPT ![p] = v]
         /\ bad' = [bad EXCEPT ![p] = FALSE] \/ UNCHANGED bad
<1> DEFINE Goal ==
         /\ UNCHANGED <<list, pend, tx, loc>> /\ left \subseteq left'
         /\ pc[p] \in {"round", "pending", "next", "test", "first", "more", "return", "return_err"}
         /\ pc[p] = "pending" => loc[p] = {}
         /\ \E x \in {"round", "off", "next", "test", "first", "more", "return", "return_err"} :
              pc' = [pc EXCEPT ![p] = x]
         /\ \E v \in Stas \cup {Nobody} : cur' = [cur EXCEPT ![p] = v]
         /\ bad' = [bad EXCEPT ![p] = FALSE] \/ UNCHANGED bad
<1>0. cur \in [Senders -> Stas \cup {Nobody}] /\ active \subseteq Stas
  BY DEF HandsInv, SchedTypeOK
<1>00. UNCHANGED cur => \E v \in Stas \cup {Nobody} : cur' = [cur EXCEPT ![p] = v]
  BY <1>0
<1>1. CASE StartRound(p)
  BY <1>00, <1>1 DEF StartRound, Set, Goto, others, history
<1>2. CASE NextTxq(p)
  BY <1>0, <1>2 DEF NextTxq, Set, Goto, others, history
<1>3. CASE RoundEnds(p)
  BY <1>00, <1>3 DEF RoundEnds, Set, Goto, queues, others, history
<1>4. CASE TestTxq(p)
  <2>1. cur' = [cur EXCEPT ![p] = Nobody] \/ UNCHANGED cur
    BY <1>4 DEF TestTxq, Set
  <2>2. /\ UNCHANGED <<list, pend, tx, loc, bad>> /\ left \subseteq left' /\ pc[p] = "test"
        /\ pc' = [pc EXCEPT ![p] = "next"] \/ pc' = [pc EXCEPT ![p] = "first"]
    BY <1>4 DEF TestTxq, Goto, queues, others
  <2> QED
    BY <1>00, <2>1, <2>2
<1>5. ASSUME NEW next \in {"return", "more", "return_err"}, pc[p] \in {"first", "more"},
             SendFrame(p, next) \/ LoseFrame(p, next) \/ NoFrame(p, next)
      PROVE  Goal
  <2>1. UNCHANGED <<list, pend, tx, loc, bad, cur, left>> /\ pc' = [pc EXCEPT ![p] = next]
    BY <1>5 DEF SendFrame, LoseFrame, NoFrame, Goto, queues, others, history
  <2> QED
    BY <1>00, <1>5, <2>1
<1>6. CASE FirstFrame(p) \/ NextFrame(p)
  <2> HIDE DEF Goal
  <2>1. Goal
    BY <1>5, <1>6 DEF FirstFrame, NextFrame
  <2> QED
    BY <2>1 DEF Goal
<1>7. CASE ReturnTxq(p)
  <2>1. /\ UNCHANGED <<list, pend, tx, loc, bad, left>> /\ pc[p] \in {"return", "return_err"}
        /\ pc' = [pc EXCEPT ![p] = "next"] \/ pc' = [pc EXCEPT ![p] = "off"]
        /\ cur' = [cur EXCEPT ![p] = Nobody]
    BY <1>7 DEF ReturnTxq, Set, Goto, others
  <2> QED
    BY <2>1
<1> QED
  BY <1>1, <1>2, <1>3, <1>4, <1>6, <1>7 DEF Txqs

LEMMA SplicedNext ==
  ASSUME HandsInv, ListsSpliced, [SchedNext]_schedVars
  PROVE  ListsSpliced'
<1>0. pc \in [Senders -> Positions] /\ loc \in [Senders -> SUBSET Stas]
  BY DEF HandsInv, SchedTypeOK
<1>1. CASE UNCHANGED <<pc, loc>>
  BY <1>1 DEF ListsSpliced
<1>2. ASSUME NEW p \in Senders, Send(p) PROVE ListsSpliced'
  <2>1. CASE Start(p)
    BY <1>0, <2>1 DEF Start, Goto, Set, ListsSpliced, Heads
  <2>2. CASE TakeStation(p)
    <3>1. pc' = [pc EXCEPT ![p] = "tx_offchannel"] /\ \E S : loc' = [loc EXCEPT ![p] = S]
      BY <2>2 DEF TakeStation, Goto, Set
    <3> QED
      BY <1>0, <3>1 DEF ListsSpliced, Heads
  <2>3. CASE \E h \in Heads : SendPending(p, h)
    BY <1>1, <2>3 DEF SendPending, senders
  <2>4. CASE \E h \in Heads : QueueEnds(p, h)
    <3>1. /\ \E x \in {"tx_pending", "relist"} : pc' = [pc EXCEPT ![p] = x]
          /\ UNCHANGED loc
      BY <2>4 DEF QueueEnds, Goto
    <3> QED
      BY <1>0, <3>1 DEF ListsSpliced, Heads
  <2>5. CASE Relist(p)
    BY <1>0, <2>5 DEF Relist, Goto, ListsSpliced, Heads
  <2>6. CASE Txqs(p)
    <3>1. /\ UNCHANGED loc
          /\ pc[p] \in {"round", "pending", "next", "test", "first", "more", "return", "return_err"}
          /\ pc[p] = "pending" => loc[p] = {}
          /\ \E x : pc' = [pc EXCEPT ![p] = x]
      BY <2>6, TxqsSteps
    <3>2. loc[p] = {}
      BY <3>1 DEF ListsSpliced, Heads
    <3> QED
      BY <1>0, <3>1, <3>2 DEF ListsSpliced
  <2> QED
    BY <1>2, <2>1, <2>2, <2>3, <2>4, <2>5, <2>6 DEF Send, PendingSteps
<1>3. CASE Status
  BY <1>1, <1>3 DEF Status, Reap, Uncount, Revive, FreeEntry, senders
<1>4. CASE Mac80211
  <2>1. ASSUME NEW w \in Stas, Leave(w) PROVE ListsSpliced'
    BY <1>0, <2>1 DEF Leave, ListsSpliced
  <2> QED
    BY <1>1, <1>4, <2>1 DEF Mac80211, Enqueue, Tx, TxLists, senders
<1>5. CASE Reset
  BY <1>1, <1>5 DEF Reset, SetReset, Disable, Parked, Resume, senders
<1>6. CASE UNCHANGED schedVars
  BY <1>1, <1>6 DEF schedVars, senders
<1> QED
  BY <1>2, <1>3, <1>4, <1>5, <1>6 DEF SchedNext

LEMMA PendingNext ==
  ASSUME HandsInv, ListsSpliced, PendingInv, [SchedNext]_schedVars
  PROVE  PendingInv'
<1>0. /\ \A w \in Stas, h \in Heads : pend[w][h] > 0 => Served(w, h)
      /\ pc \in [Senders -> Positions] /\ cur \in [Senders -> Stas \cup {Nobody}]
      /\ loc \in [Senders -> SUBSET Stas] /\ bad \in [Senders -> BOOLEAN]
      /\ pend \in [Stas -> [Heads -> 0..MaxFrames]] /\ MaxFrames \in Nat
  BY TxSchedAssumption DEF PendingInv, Served, HandsInv, SchedTypeOK
<1> SUFFICES ASSUME NEW w \in Stas, NEW h \in Heads, pend'[w][h] > 0 PROVE Served(w, h)'
  BY DEF PendingInv, Served, OnList, Comes
<1>1. ASSUME UNCHANGED <<list, loc, tx, pc, cur, bad>>, pend[w][h] > 0,
             <<w, "pending">> \in left => <<w, "pending">> \in left'
      PROVE  Served(w, h)'
  BY <1>0, <1>1 DEF Served, OnList, Comes
<1>2. ASSUME NEW p \in Senders, Send(p) PROVE Served(w, h)'
  <2>1. CASE Start(p)
    <3>1. /\ pc[p] = "off" /\ pc' = [pc EXCEPT ![p] = "pending"] /\ bad' = [bad EXCEPT ![p] = FALSE]
          /\ loc' = [loc EXCEPT ![p] = list] /\ list' = {} /\ UNCHANGED <<pend, tx, cur, left>>
      BY <2>1 DEF Start, Goto, Set
    <3>2. loc[p] = {}
      BY <3>1 DEF ListsSpliced, Heads
    <3>3. OnList(w) => OnList(w)'
      BY <1>0, <3>1, <3>2 DEF OnList
    <3>4. ASSUME NEW q \in Senders, Comes(q, w, h) PROVE Comes(q, w, h)'
      BY <1>0, <3>1, <3>4 DEF Comes
    <3> QED
      BY <1>0, <3>1, <3>3, <3>4 DEF Served
  <2>2. CASE TakeStation(p)
    <3>1. PICK v \in loc[p] : cur' = Set(cur, p, v) /\ loc' = Set(loc, p, loc[p] \ {v})
      BY <2>2 DEF TakeStation
    <3>2. /\ pc[p] = "pending" /\ pc' = [pc EXCEPT ![p] = "tx_offchannel"]
          /\ cur' = [cur EXCEPT ![p] = v] /\ loc' = [loc EXCEPT ![p] = loc[p] \ {v}]
          /\ UNCHANGED <<list, pend, tx, left, bad>>
      BY <2>2, <3>1 DEF TakeStation, Goto, Set, queues, history
    <3>3. CASE v = w
      <4>1. Comes(p, w, h)'
        BY <1>0, <3>2, <3>3 DEF Comes
      <4> QED
        BY <4>1 DEF Served
    <3>4. CASE v # w
      <4>1. OnList(w) => OnList(w)'
        BY <1>0, <3>2, <3>4 DEF OnList
      <4>2. ASSUME NEW q \in Senders, Comes(q, w, h) PROVE Comes(q, w, h)'
        BY <1>0, <3>2, <4>2 DEF Comes
      <4> QED
        BY <1>0, <3>2, <4>1, <4>2 DEF Served
    <3> QED
      BY <3>3, <3>4
  <2>3. CASE \E g \in Heads : SendPending(p, g)
    <3>1. PICK g \in Heads : SendPending(p, g)
      BY <2>3
    <3>2. /\ UNCHANGED <<list, loc, tx, pc, cur, bad, left>>
          /\ pend' = [pend EXCEPT ![cur[p]][g] = @ - 1]
      BY <3>1 DEF SendPending, senders
    <3>3. pend[w][h] > 0
      BY <1>0, <3>2
    <3> QED
      BY <1>1, <3>2, <3>3
  <2>4. ASSUME NEW g \in Heads, QueueEnds(p, g) PROVE Served(w, h)'
    <3>1. /\ pc[p] = g /\ UNCHANGED <<list, pend, tx, left, loc, cur>>
          /\ bad' = [bad EXCEPT ![p] = @ \/ pend[cur[p]][g] > 0]
          /\ pc' = [pc EXCEPT ![p] = IF g = "tx_offchannel" THEN "tx_pending" ELSE "relist"]
      BY <2>4 DEF QueueEnds, Goto, queues, history
    <3>2. ASSUME NEW q \in Senders, Comes(q, w, h) PROVE Comes(q, w, h)'
      <4>1. CASE q # p
        BY <1>0, <3>1, <3>2, <4>1 DEF Comes
      <4>2. CASE q = p
        <5>1. cur[p] = w
          BY <3>2, <4>2 DEF Comes
        <5>2. bad'[p] <=> bad[p] \/ pend[w][g] > 0
          BY <1>0, <3>1, <5>1
        <5>3. CASE g = "tx_offchannel"
          BY <1>0, <3>1, <3>2, <4>2, <5>1, <5>2, <5>3 DEF Comes, Heads
        <5>4. CASE g = "tx_pending"
          BY <1>0, <3>1, <3>2, <4>2, <5>1, <5>2, <5>4 DEF Comes, Heads
        <5> QED
          BY <5>3, <5>4 DEF Heads
      <4> QED
        BY <4>1, <4>2
    <3> QED
      BY <1>0, <3>1, <3>2 DEF Served, OnList
  <2>5. CASE Relist(p)
    <3> DEFINE v == cur[p]
               again == \A g \in Heads : pend[v][g] > 0
    <3>1. /\ pc[p] = "relist" /\ UNCHANGED <<pend, tx, loc, bad>>
          /\ list' = IF again /\ ~OnList(v) THEN list \cup {v} ELSE list
          /\ left' = IF bad[p] /\ ~again /\ ~OnList(v) /\ (\E g \in Heads : pend[v][g] > 0)
                     THEN left \cup {<<v, "pending">>} ELSE left
          /\ cur' = [cur EXCEPT ![p] = Nobody] /\ pc' = [pc EXCEPT ![p] = "pending"]
      BY <2>5 DEF Relist, Goto, Set
    <3> HIDE DEF v, again
    <3>v. v = cur[p]
      BY DEF v
    <3>2. OnList(w) => OnList(w)'
      BY <3>1 DEF OnList
    <3>3. ASSUME NEW q \in Senders, Comes(q, w, h), q # p PROVE Comes(q, w, h)'
      BY <1>0, <3>1, <3>3 DEF Comes
    <3>4. ASSUME Comes(p, w, h) PROVE Served(w, h)'
      <4>1. v = w /\ bad[p]
        BY <3>1, <3>v, <3>4 DEF Comes
      <4>2. pend[w][h] > 0
        BY <3>1
      <4>3. OnList(w)' \/ <<w, "pending">> \in left'
        <5>1. CASE OnList(w)
          BY <3>2, <5>1
        <5>2. CASE ~OnList(w) /\ again
          BY <3>1, <4>1, <5>2 DEF OnList
        <5>3. CASE ~OnList(w) /\ ~again
          <6>1. left' = left \cup {<<w, "pending">>}
            BY <3>1, <4>1, <4>2, <5>3
          <6> QED
            BY <6>1
        <5> QED
          BY <5>1, <5>2, <5>3
      <4> QED
        BY <4>3 DEF Served
    <3>5. left \subseteq left' /\ pend[w][h] > 0
      BY <3>1
    <3> QED
      BY <1>0, <3>1, <3>2, <3>3, <3>4, <3>5 DEF Served
  <2>6. CASE Txqs(p)
    <3>1. /\ UNCHANGED <<list, pend, tx, loc>> /\ left \subseteq left'
          /\ pc[p] \in {"round", "pending", "next", "test", "first", "more", "return", "return_err"}
          /\ \E x : pc' = [pc EXCEPT ![p] = x]
          /\ \E v : cur' = [cur EXCEPT ![p] = v]
          /\ bad' = [bad EXCEPT ![p] = FALSE] \/ UNCHANGED bad
      BY <2>6, TxqsSteps
    <3>2. ASSUME NEW q \in Senders, Comes(q, w, h) PROVE Comes(q, w, h)'
      <4>1. q # p
        BY <3>1, <3>2 DEF Comes
      <4> QED
        BY <1>0, <3>1, <3>2, <4>1 DEF Comes
    <3> QED
      BY <1>0, <3>1, <3>2 DEF Served, OnList
  <2> QED
    BY <1>2, <2>1, <2>2, <2>3, <2>4, <2>5, <2>6 DEF Send, PendingSteps
<1>3. CASE Status
  BY <1>1, <1>3 DEF Status, Reap, Uncount, Revive, FreeEntry, senders, history
<1>4. CASE Mac80211
  <2>1. ASSUME NEW v \in Stas, Enqueue(v) PROVE Served(w, h)'
    BY <1>1, <2>1 DEF Enqueue, senders
  <2>2. ASSUME NEW v \in Stas, NEW g \in Heads, Tx(v, g) PROVE Served(w, h)'
    <3>1. /\ UNCHANGED <<list, loc, pc, cur, bad, left>> /\ tx' = tx \cup {v}
          /\ pend' = [pend EXCEPT ![v][g] = @ + 1]
      BY <2>2 DEF Tx, senders, history
    <3>2. v = w \/ pend[w][h] > 0
      BY <1>0, <3>1
    <3> QED
      BY <1>0, <3>1, <3>2 DEF Served, OnList, Comes
  <2>3. ASSUME NEW v \in Stas, TxLists(v) PROVE Served(w, h)'
    <3>1. /\ UNCHANGED <<pend, loc, pc, cur, bad>> /\ tx' = tx \ {v}
          /\ list' = (IF OnList(v) THEN list ELSE list \cup {v}) /\ left' = left \ {<<v, "pending">>}
      BY <2>3 DEF TxLists, senders
    <3>2. (OnList(w) => OnList(w)') /\ (v = w => OnList(w)')
      BY <3>1 DEF OnList
    <3>3. v # w => (<<w, "pending">> \in left => <<w, "pending">> \in left')
      BY <3>1
    <3> QED
      BY <1>0, <3>1, <3>2, <3>3 DEF Served, Comes
  <2>4. ASSUME NEW v \in Stas, Leave(v) PROVE Served(w, h)'
    <3>1. /\ UNCHANGED <<tx, pc, cur, bad>> /\ list' = list \ {v} /\ left' = left \ ({v} \X {"txq", "pending"})
          /\ loc' = [p \in Senders |-> loc[p] \ {v}] /\ pend' = [pend EXCEPT ![v] = [g \in Heads |-> 0]]
      BY <2>4 DEF Leave
    <3>2. v # w /\ pend[w][h] > 0
      BY <1>0, <3>1
    <3>3. OnList(w) => OnList(w)'
      BY <3>1, <3>2 DEF OnList
    <3>4. <<w, "pending">> \in left => <<w, "pending">> \in left'
      BY <3>1, <3>2
    <3> QED
      BY <1>0, <3>1, <3>2, <3>3, <3>4 DEF Served, Comes
  <2> QED
    BY <1>4, <2>1, <2>2, <2>3, <2>4 DEF Mac80211
<1>5. CASE Reset
  BY <1>1, <1>5 DEF Reset, SetReset, Disable, Parked, Resume, queues, senders, history
<1>6. CASE UNCHANGED schedVars
  BY <1>1, <1>6 DEF schedVars, queues, senders, history
<1> QED
  BY <1>2, <1>3, <1>4, <1>5, <1>6 DEF SchedNext
-----------------------------------------------------------------------------
(* The chip reset, and the end of a run.                                    *)

LEMMA SendMoves ==
  ASSUME HandsInv, NEW p \in Senders, Send(p)
  PROVE  /\ \E x : pc' = [pc EXCEPT ![p] = x]
         /\ \/ Start(p)
            \/ pc[p] # "off" /\ UNCHANGED <<st, sched, on, reset, ctl>>
<1>0. pc \in [Senders -> Positions]
  BY DEF HandsInv, SchedTypeOK
<1>1. CASE Start(p)
  BY <1>1 DEF Start, Goto
<1>2. CASE TakeStation(p) \/ Relist(p) \/ \E h \in Heads : QueueEnds(p, h)
  BY <1>2 DEF TakeStation, Relist, QueueEnds, Goto, others, Heads
<1>3. CASE \E h \in Heads : SendPending(p, h)
  <2>1. pc[p] # "off" /\ UNCHANGED <<pc, st, sched, on, reset, ctl>>
    BY <1>3 DEF SendPending, senders, others, Heads
  <2>2. pc' = [pc EXCEPT ![p] = pc[p]]
    BY <1>0, <2>1
  <2> QED
    BY <2>1, <2>2
<1>4. CASE Txqs(p)
  <2>1. UNCHANGED <<st, sched, on, reset, ctl>>
    BY <1>4 DEF Txqs, StartRound, NextTxq, RoundEnds, TestTxq, FirstFrame, NextFrame, SendFrame,
                LoseFrame, NoFrame, ReturnTxq, others
  <2> QED
    BY <1>4, <2>1, TxqsSteps
<1> QED
  BY <1>1, <1>2, <1>3, <1>4 DEF Send, PendingSteps

LEMMA ResetNext ==
  ASSUME HandsInv, ResetInv, [SchedNext]_schedVars
  PROVE  ResetInv'
<1>0. pc \in [Senders -> Positions] /\ "worker" \in Senders /\ "reset" \in Senders
  BY DEF HandsInv, SchedTypeOK, Senders
<1>1. ASSUME NEW p \in Senders, Send(p) PROVE ResetInv'
  <2>1. PICK x : pc' = [pc EXCEPT ![p] = x]
    BY <1>1, SendMoves
  <2>2. CASE Start(p)
    BY <1>0, <2>1, <2>2 DEF Start, ResetInv, Senders
  <2>3. CASE pc[p] # "off" /\ UNCHANGED <<st, sched, on, reset, ctl>>
    BY <1>0, <2>1, <2>3 DEF ResetInv, Senders
  <2> QED
    BY <1>1, <2>2, <2>3, SendMoves
<1>2. CASE UNCHANGED <<pc, on, reset, ctl>>
  BY <1>2 DEF ResetInv
<1>3. CASE Status
  BY <1>2, <1>3 DEF Status, Reap, Uncount, Revive, FreeEntry, senders
<1>4. CASE Mac80211
  BY <1>2, <1>4 DEF Mac80211, Enqueue, Tx, TxLists, Leave, senders, others
<1>5. CASE SetReset
  BY <1>5 DEF SetReset, ResetInv, senders
<1>6. CASE Disable
  BY <1>6 DEF Disable, ResetInv, senders
<1>7. CASE Parked
  BY <1>7 DEF Parked, ResetInv, senders
<1>8. CASE Resume
  BY <1>8 DEF Resume, ResetInv, senders
<1>9. CASE UNCHANGED schedVars
  BY <1>2, <1>9 DEF schedVars, senders, others
<1> QED
  BY <1>1, <1>3, <1>4, <1>5, <1>6, <1>7, <1>8, <1>9 DEF SchedNext, Reset

\* A full ring stays full until one of its entries is completed.
LEMMA StoppedStays ==
  ASSUME HandsInv, Stopped, [SchedNext]_schedVars, ~Reap, ~FreeEntry
  PROVE  Stopped'
<1>0. /\ ring \in Seq(Entries) /\ Len(ring) \in Nat /\ NDesc \in Nat /\ FreeThr \in Nat
      /\ Len(ring) + FreeThr >= NDesc /\ SchedTypeOK
  BY TxSchedAssumption DEF HandsInv, SchedTypeOK, Entries, Stopped, Queued
<1> SUFFICES Len(ring') \in Nat /\ Len(ring') >= Len(ring)
  BY <1>0 DEF Stopped, Queued
<1>1. CASE UNCHANGED <<ring, count>>
  BY <1>0, <1>1
<1>2. ASSUME NEW w \in Stas, NEW c \in BOOLEAN, Queued < NDesc, Counted(w, c)
      PROVE  Len(ring') \in Nat /\ Len(ring') >= Len(ring)
  <2>1. Len(ring') = Len(ring) + 1
    BY <1>0, <1>2, RingStep
  <2> QED
    BY <1>0, <2>1
<1>3. CASE Uncount
  <2>1. ring # <<>> /\ ring' = Uncounted(ring)
    BY <1>3 DEF Uncount, Uncounted
  <2>2. Len(ring') = Len(ring)
    BY <1>0, <2>1, UncountedIsRing
  <2> QED
    BY <1>0, <2>2
<1>4. ASSUME NEW w \in Stas, Leave(w) PROVE Len(ring') \in Nat /\ Len(ring') >= Len(ring)
  <2>1. ring' = Ghosted(ring, w)
    BY <1>4, Zenon DEF Leave, Ghosted
  <2>2. Len(ring') = Len(ring)
    BY <1>0, <2>1, GhostedIsRing
  <2> QED
    BY <1>0, <2>2
<1> QED
  BY <1>1, <1>2, <1>3, <1>4, RingSteps

LEMMA QuietWorker ==
  ASSUME HandsInv, ResetInv, QuietPending, QuietRound, Quiet, Send("worker"), ~Start("worker"),
         Stopped => Stopped'
  PROVE  QuietPending' /\ QuietRound'
<1> DEFINE p == "worker"
<1>0. /\ SchedTypeOK /\ AtHand /\ p \in Senders /\ ~reset /\ [SchedNext]_schedVars
      /\ pc \in [Senders -> Positions] /\ cur \in [Senders -> Stas \cup {Nobody}]
      /\ bad \in [Senders -> BOOLEAN] /\ sent \in [Senders -> BOOLEAN]
      /\ count \in [Stas -> Nat] /\ frames \in [Stas -> 0..MaxFrames] /\ MaxFrames \in Nat
      /\ pend \in [Stas -> [Heads -> 0..MaxFrames]] /\ MaxNonAql \in Nat
  BY TxSchedAssumption DEF HandsInv, SchedTypeOK, Senders, ResetInv, Quiet, SchedNext
<1>1. CASE TakeStation(p)
  <2>1. pc[p] = "pending" /\ UNCHANGED <<bad, list>> /\ pc'[p] = "tx_offchannel"
    BY <1>0, <1>1 DEF TakeStation, Goto, queues
  <2> QED
    BY <1>0, <2>1 DEF QuietPending, QuietRound
<1>2. ASSUME NEW h \in Heads, SendPending(p, h) PROVE QuietPending' /\ QuietRound'
  <2>1. /\ pc[p] = h /\ UNCHANGED <<pc, bad, list, cur, tx>> /\ cur[p] \in Stas
        /\ pend' = [pend EXCEPT ![cur[p]][h] = @ - 1] /\ pend[cur[p]][h] > 0
    BY <1>0, <1>2 DEF SendPending, senders, AtHand
  <2>2. pend[cur[p]]["tx_offchannel"] = 0 => pend'[cur[p]]["tx_offchannel"] = 0
    BY <1>0, <2>1 DEF Heads
  <2> QED
    BY <1>0, <2>1, <2>2 DEF QuietPending, QuietRound, Heads
<1>3. ASSUME NEW h \in Heads, QueueEnds(p, h) PROVE QuietPending' /\ QuietRound'
  <2>1. /\ pc[p] = h /\ UNCHANGED <<list, cur, tx, pend>> /\ cur[p] \in Stas
        /\ bad'[p] <=> bad[p] \/ pend[cur[p]][h] > 0
        /\ pc'[p] = IF h = "tx_offchannel" THEN "tx_pending" ELSE "relist"
        /\ bad[p] \/ pend[cur[p]][h] = 0 \/ Stopped
    BY <1>0, <1>3 DEF QueueEnds, Goto, queues, AtHand
  <2>2. Stopped \/ (~bad[p] /\ pend[cur[p]][h] = 0)
    BY <2>1 DEF QuietPending
  <2>3. CASE Stopped
    BY <2>1, <2>3 DEF QuietPending, QuietRound, Heads
  <2>4. CASE ~bad[p] /\ pend[cur[p]][h] = 0 /\ h = "tx_offchannel"
    <3>1. pc'[p] = "tx_pending" /\ ~bad'[p] /\ pend'[cur'[p]]["tx_offchannel"] = 0 /\ UNCHANGED list
      BY <2>1, <2>4
    <3>2. list' = {} \/ Stopped'
      BY <3>1 DEF QuietPending
    <3> QED
      BY <3>1, <3>2 DEF QuietPending, QuietRound
  <2>5. CASE ~Stopped /\ ~bad[p] /\ pend[cur[p]][h] = 0 /\ h = "tx_pending"
    <3>1. cur[p] \in tx \/ pend[cur[p]]["tx_offchannel"] = 0
      BY <2>1, <2>5 DEF QuietPending
    <3>2. /\ pc'[p] = "relist" /\ ~bad'[p] /\ pend'[cur'[p]]["tx_pending"] = 0 /\ UNCHANGED list
          /\ cur'[p] \in tx' \/ pend'[cur'[p]]["tx_offchannel"] = 0
      BY <2>1, <2>5, <3>1
    <3>3. list' = {} \/ Stopped'
      BY <3>2 DEF QuietPending
    <3> QED
      BY <3>2, <3>3 DEF QuietPending, QuietRound, Heads
  <2> QED
    BY <2>2, <2>3, <2>4, <2>5 DEF Heads
<1>4. CASE Relist(p)
  <2>1. /\ pc[p] = "relist" /\ pc'[p] = "pending" /\ UNCHANGED bad /\ cur[p] \in Stas
        /\ list' = list \/ \A h \in Heads : pend[cur[p]][h] > 0
    BY <1>0, <1>4 DEF Relist, Goto, AtHand
  <2>2. Stopped \/ list' = list
    BY <2>1 DEF QuietPending, Heads
  <2> QED
    BY <2>1, <2>2 DEF QuietPending, QuietRound
<1>5. CASE StartRound(p)
  <2>1. UNCHANGED list /\ pc'[p] = "next" /\ round' = {}
    BY <1>0, <1>5 DEF StartRound, Goto
  <2> QED
    BY <2>1 DEF QuietPending, QuietRound, Heads
<1>6. CASE NextTxq(p)
  <2>1. PICK w \in active \ round : active' = active \ {w} /\ round' = round \cup {w}
    BY <1>6 DEF NextTxq
  <2>2. UNCHANGED <<list, frames, sent, st>> /\ pc[p] = "next" /\ pc'[p] = "test"
    BY <1>0, <1>6 DEF NextTxq, Goto, others
  <2> QED
    BY <2>1, <2>2 DEF QuietPending, QuietRound, Heads
<1>7. CASE RoundEnds(p)
  <2>1. /\ UNCHANGED <<list, frames, st, active, failed>> /\ pc[p] = "next" /\ active \subseteq round
        /\ pc'[p] = IF sent[p] THEN "round" ELSE "off"
        /\ sent'[p] = FALSE
    BY <1>0, <1>7 DEF RoundEnds, Goto, Set, queues, others, history
  <2> QED
    BY <2>1 DEF QuietPending, QuietRound, Heads
<1>8. CASE TestTxq(p)
  <2>1. /\ UNCHANGED <<list, frames, st, active, round, count, sent>> /\ pc[p] = "test"
        /\ \/ pc'[p] = "next"
           \/ pc'[p] = "first" /\ UNCHANGED cur /\ ~(count[cur[p]] >= MaxNonAql)
        /\ cur[p] \in Stas
    BY <1>0, <1>8 DEF TestTxq, Goto, Set, queues, others, AtHand
  <2>2. pc'[p] = "first" => count'[cur'[p]] < MaxNonAql
    BY <1>0, <2>1
  <2> QED
    BY <2>1, <2>2 DEF QuietPending, QuietRound, Heads
<1>9. ASSUME SendFrame(p, "more") PROVE QuietPending' /\ QuietRound'
  <2>1. UNCHANGED list /\ sent'[p] = TRUE /\ pc'[p] = "more"
    BY <1>0, <1>9 DEF SendFrame, Goto, Set
  <2> QED
    BY <2>1 DEF QuietPending, QuietRound, Heads
<1>10. CASE FirstFrame(p)
  <2>1. pc[p] = "first" /\ cur[p] \in Stas
    BY <1>0, <1>10 DEF FirstFrame, AtHand
  <2>2. CASE LoseFrame(p, "return_err")
    <3>1. UNCHANGED list /\ pc'[p] = "return_err"
      BY <1>0, <2>2 DEF LoseFrame, Goto
    <3> QED
      BY <3>1 DEF QuietPending, QuietRound, Heads
  <2>3. CASE NoFrame(p, "return") /\ (Stopped \/ count[cur[p]] >= MaxNonAql \/ frames[cur[p]] = 0)
    <3>1. UNCHANGED <<list, frames, st, active, round, sent, cur>> /\ pc'[p] = "return"
      BY <1>0, <2>3 DEF NoFrame, Goto, queues, others
    <3>2. ~(count[cur[p]] >= MaxNonAql)
      BY <1>0, <2>1 DEF QuietRound
    <3> QED
      BY <2>1, <2>3, <3>1, <3>2 DEF QuietPending, QuietRound, Heads
  <2> QED
    BY <1>9, <1>10, <2>2, <2>3 DEF FirstFrame
<1>11. CASE NextFrame(p)
  <2>1. pc[p] = "more" /\ sent[p]
    BY <1>11 DEF NextFrame, QuietRound
  <2>2. CASE LoseFrame(p, "return") \/ NoFrame(p, "return")
    <3>1. UNCHANGED <<list, sent>> /\ pc'[p] = "return"
      BY <1>0, <2>2 DEF LoseFrame, NoFrame, Goto, queues
    <3> QED
      BY <2>1, <3>1 DEF QuietPending, QuietRound, Heads
  <2> QED
    BY <1>9, <1>11, <2>2 DEF NextFrame
<1>12. CASE ReturnTxq(p)
  <2>1. /\ UNCHANGED <<list, frames, st, round>> /\ pc[p] \in {"return", "return_err"}
        /\ active' = IF frames[cur[p]] > 0 THEN active \cup {cur[p]} ELSE active
        /\ cur[p] \in Stas
    BY <1>0, <1>12 DEF ReturnTxq, others, AtHand
  <2>2. CASE pc[p] = "return"
    <3>1. pc'[p] = "next" /\ UNCHANGED sent
      BY <1>0, <1>12, <2>2 DEF ReturnTxq, Goto
    <3>2. ASSUME st.pc = "idle", ~sent[p], ~Stopped, NEW w \in active' \cap round'
          PROVE  frames[w] = 0
      BY <1>0, <2>1, <2>2, <3>2 DEF QuietRound
    <3> QED
      BY <2>1, <3>1, <3>2 DEF QuietPending, QuietRound, Heads
  <2>3. CASE pc[p] = "return_err"
    <3>1. pc'[p] = "off" /\ sent'[p] = FALSE /\ failed'
      BY <1>0, <1>12, <2>3 DEF ReturnTxq, Goto, Set
    <3> QED
      BY <2>1, <3>1 DEF QuietPending, QuietRound, Heads
  <2> QED
    BY <2>1, <2>2, <2>3
<1> QED
  BY <1>1, <1>2, <1>3, <1>4, <1>5, <1>6, <1>7, <1>8, <1>10, <1>11, <1>12 DEF Send, PendingSteps, Txqs

LEMMA QuietNext ==
  ASSUME HandsInv, ResetInv, QuietInv, [SchedNext]_schedVars
  PROVE  QuietInv'
<1> SUFFICES ASSUME Quiet' PROVE QuietPending' /\ QuietRound'
  BY DEF QuietInv
<1>0. /\ ctl' = "idle" /\ ~sched' /\ "worker" \in Senders /\ SchedTypeOK /\ AtHand
      /\ pc \in [Senders -> Positions] /\ count \in [Stas -> Nat] /\ MaxNonAql \in Nat
      /\ pend \in [Stas -> [Heads -> 0..MaxFrames]] /\ bad \in [Senders -> BOOLEAN]
  BY TxSchedAssumption DEF Quiet, HandsInv, SchedTypeOK, Senders
<1>1. ~Reap /\ ~FreeEntry
  BY <1>0 DEF Reap, FreeEntry
<1>2. Stopped => Stopped'
  BY <1>1, StoppedStays
<1>3. CASE UNCHANGED <<ctl, sched>>
  <2>1. Quiet /\ QuietPending /\ QuietRound
    BY <1>0, <1>3 DEF Quiet, QuietInv
  <2>2. ASSUME NEW p \in Senders, Send(p) PROVE QuietPending' /\ QuietRound'
    <3>1. ctl = "idle" /\ ~sched /\ pc["reset"] = "off"
      BY <2>1 DEF Quiet, ResetInv
    <3>2. ~Start(p) /\ p = "worker"
      BY <2>2, <3>1, SendMoves DEF Start, Senders
    <3> QED
      BY <1>2, <2>1, <2>2, <3>2, QuietWorker
  <2>3. CASE UNCHANGED <<list, pc, bad, cur, tx, pend, sent, active, round, frames, count, failed, st>>
    BY <1>2, <2>1, <2>3 DEF QuietPending, QuietRound
  <2>4. CASE Uncount
    <3>1. /\ UNCHANGED <<list, pc, bad, cur, tx, pend, sent, active, round, frames, failed>>
          /\ count' = [count EXCEPT ![ring[1].sta] = IF @ = 0 THEN 0 ELSE @ - 1]
          /\ st'.pc # "idle"
      <4>1. st' = [pc |-> IF count[ring[1].sta] = MaxNonAql THEN "revive" ELSE "free", w |-> ring[1].sta]
        BY <2>4 DEF Uncount
      <4> QED
        BY <2>4, <4>1 DEF Uncount, senders, history
    <3>2. pc["worker"] = "first" => cur["worker"] \in Stas
      BY <1>0 DEF AtHand
    <3>3. pc["worker"] = "first" => count'[cur["worker"]] < MaxNonAql
      BY <1>0, <2>1, <3>1, <3>2 DEF QuietRound
    <3> QED
      BY <1>2, <2>1, <3>1, <3>3 DEF QuietPending, QuietRound
  <2>5. CASE Revive
    <3>1. /\ UNCHANGED <<list, pc, bad, cur, tx, pend, sent, round, frames, count, failed>>
          /\ st'.pc # "idle"
      <4>1. st' = [st EXCEPT !.pc = "free"] /\ st \in [pc : {"idle", "revive", "free"}, w : Stas \cup {Nobody}]
        BY <1>0, <2>5 DEF Revive, SchedTypeOK
      <4>2. st'.pc = "free"
        BY <4>1
      <4> QED
        BY <2>5, <4>2 DEF Revive, senders, history
    <3> QED
      BY <1>2, <2>1, <3>1 DEF QuietPending, QuietRound
  <2>6. ASSUME NEW w \in Stas, NEW h \in Heads, Tx(w, h) PROVE QuietPending' /\ QuietRound'
    <3>1. /\ UNCHANGED <<list, pc, bad, cur, sent, active, round, frames, count, failed, st>>
          /\ tx' = tx \cup {w} /\ pend' = [pend EXCEPT ![w][h] = @ + 1] /\ w \notin tx
      BY <2>6 DEF Tx, senders, others, history
    <3>2. pc["worker"] \in {"tx_pending", "relist"} => cur["worker"] \in Stas
      BY <1>0 DEF AtHand, Heads
    <3>3. QuietPending'
      <4>1. CASE cur["worker"] = w
        <5>1. cur'["worker"] \in tx'
          BY <3>1, <4>1
        <5>2. pend[w] \in [Heads -> 0..MaxFrames]
          BY <1>0
        <5>3. ASSUME \A g \in Heads : pend[w][g] = 0
              PROVE  \E g \in Heads : pend'[w][g] = 0
          <6>1. PICK g \in Heads : g # h
            BY DEF Heads
          <6>2. pend'[w][g] = 0
            BY <1>0, <3>1, <5>3, <6>1
          <6> QED
            BY <6>2
        <5>4. w \notin tx
          BY <3>1
        <5> QED
          BY <1>2, <2>1, <3>1, <4>1, <5>1, <5>3, <5>4 DEF QuietPending
      <4>2. CASE cur["worker"] # w
        <5>1. pend'[cur["worker"]] = pend[cur["worker"]]
          BY <1>0, <3>1, <4>2
        <5> QED
          BY <1>2, <2>1, <3>1, <5>1 DEF QuietPending
      <4> QED
        BY <4>1, <4>2
    <3>4. QuietRound'
      BY <1>2, <2>1, <3>1 DEF QuietRound
    <3> QED
      BY <3>3, <3>4
  <2>7. ASSUME NEW w \in Stas, Leave(w) PROVE QuietPending' /\ QuietRound'
    <3>1. /\ UNCHANGED <<pc, bad, cur, tx, sent, round, failed, st>> /\ cur["worker"] # w
          /\ list' = list \ {w} /\ active' = active \ {w}
          /\ pend' = [pend EXCEPT ![w] = [h \in Heads |-> 0]] /\ frames' = [frames EXCEPT ![w] = 0]
          /\ count' = [count EXCEPT ![w] = 0]
      BY <1>0, <2>7 DEF Leave
    <3>2. /\ pend'[cur["worker"]] = pend[cur["worker"]] /\ frames'[cur["worker"]] = frames[cur["worker"]]
          /\ count'[cur["worker"]] = count[cur["worker"]]
          /\ \A v \in active' : v # w /\ frames'[v] = frames[v]
      BY <1>0, <3>1 DEF SchedTypeOK
    <3>3. QuietPending'
      BY <1>2, <2>1, <3>1, <3>2 DEF QuietPending
    <3>4. QuietRound'
      BY <1>2, <2>1, <3>1, <3>2 DEF QuietRound
    <3> QED
      BY <3>3, <3>4
  <2>8. CASE Status
    BY <1>1, <2>4, <2>5, <2>8 DEF Status
  <2>9. CASE Mac80211
    <3>1. ~(\E w \in Stas : Enqueue(w) \/ TxLists(w))
      BY <1>0 DEF Enqueue, TxLists
    <3> QED
      BY <2>6, <2>7, <2>9, <3>1 DEF Mac80211
  <2>10. CASE Reset
    BY <1>0, <2>1, <2>10 DEF Reset, SetReset, Disable, Parked, Resume, Quiet
  <2>11. CASE UNCHANGED schedVars
    BY <2>3, <2>11 DEF schedVars, queues, senders, others, history
  <2> QED
    BY <2>2, <2>8, <2>9, <2>10, <2>11 DEF SchedNext
<1>4. CASE ~UNCHANGED <<ctl, sched>>
  <2>1. CASE Start("worker")
    <3>1. list' = {} /\ pc'["worker"] = "pending" /\ bad'["worker"] = FALSE
      BY <1>0, <2>1 DEF Start, Goto, Set
    <3> QED
      BY <3>1 DEF QuietPending, QuietRound, Heads
  <2>2. ASSUME NEW p \in Senders, Send(p) PROVE Start("worker")
    <3>1. Start(p)
      BY <1>4, <2>2, SendMoves
    <3> QED
      BY <1>0, <3>1 DEF Start, Senders
  <2>3. ~Status /\ ~Mac80211 /\ ~Reset /\ ~UNCHANGED schedVars
    BY <1>0, <1>1, <1>4 DEF Status, Uncount, Revive, Mac80211, Enqueue, Tx, TxLists, Leave,
         Reset, SetReset, Disable, Parked, Resume, schedVars, others
  <2> QED
    BY <2>1, <2>2, <2>3 DEF SchedNext
<1> QED
  BY <1>3, <1>4

-----------------------------------------------------------------------------
(* The theorems.                                                            *)

LEMMA SchedInvInit == SchedInit => SchedInv
<1> SUFFICES ASSUME SchedInit PROVE SchedInv
  OBVIOUS
<1>1. HandsInv
  BY HandsInit
<1>2. ListsSpliced /\ ResetInv
  BY DEF SchedInit, ListsSpliced, ResetInv, Senders
<1>3. CountInv
  <2>1. ASSUME NEW w \in Stas PROVE count[w] = 0 /\ Cardinality(Own(w)) = 0
    <3>1. Own(w) = {}
      BY DEF SchedInit, Own
    <3> QED
      BY <3>1, FS_EmptySet DEF SchedInit
  <2> QED
    BY <2>1 DEF CountInv
<1>4. TxqIsOffered /\ PendingInv
  BY DEF SchedInit, TxqIsOffered, PendingInv
<1>5. QuietInv
  BY DEF SchedInit, QuietInv, QuietPending, QuietRound, Senders, Heads
<1> QED
  BY <1>1, <1>2, <1>3, <1>4, <1>5 DEF SchedInv, HandsInv

LEMMA SchedInvNext == SchedInv /\ [SchedNext]_schedVars => SchedInv'
<1> SUFFICES ASSUME SchedInv, [SchedNext]_schedVars PROVE SchedInv'
  OBVIOUS
<1>1. HandsInv /\ ListsSpliced /\ CountInv /\ TxqIsOffered /\ PendingInv /\ ResetInv /\ QuietInv
  BY DEF SchedInv, HandsInv
<1>2. HandsInv' /\ CountInv' /\ TxqIsOffered' /\ ListsSpliced' /\ PendingInv' /\ ResetInv' /\ QuietInv'
  BY <1>1, HandsNext, CountNext, OfferedNext, SplicedNext, PendingNext, ResetNext, QuietNext
<1> QED
  BY <1>2 DEF SchedInv, HandsInv

LEMMA SchedInvMeans == SchedInv => ThrottleIsSound /\ WaitingIsServed /\ NoStall
<1> SUFFICES ASSUME SchedInv PROVE ThrottleIsSound /\ WaitingIsServed /\ NoStall
  OBVIOUS
<1>1. ThrottleIsSound
  BY DEF SchedInv, ThrottleIsSound, CountInv
<1>2. QueuedIsListed
  <2> SUFFICES ASSUME NEW w \in Stas, NEW h \in Heads, pend[w][h] > 0
               PROVE  \/ OnList(w) \/ w \in tx \/ <<w, "pending">> \in left
                      \/ \E p \in Senders : cur[p] = w /\ pc[p] \in Heads \cup {"relist"}
    BY DEF QueuedIsListed
  <2> QED
    BY DEF SchedInv, PendingInv, Comes, Heads
<1>3. NoStall
  BY DEF SchedInv, QuietInv, Quiet, QuietPending, QuietRound, NoStall
<1> QED
  BY <1>1, <1>2, <1>3 DEF WaitingIsServed, SchedInv

LEMMA SchedInvHolds == SchedSpec => []SchedInv
<1> QED
  BY SchedInvInit, SchedInvNext, PTL DEF SchedSpec

\* non_aql_packets never exceeds a station's own counted frames in the ring:
\* check_non_aql, the clamp and a change of owner keep the limit of tx.c sound.
THEOREM ThrottleCountsFrames == SchedSpec => []ThrottleIsSound
<1> QED
  BY SchedInvHolds, SchedInvMeans, PTL

\* A frame that waits in a txq, in tx_pending or in tx_offchannel has somebody who
\* will come for it, unless a sender met a reset or a stopped ring (tx.c).
THEOREM NobodyIsForgotten == SchedSpec => []WaitingIsServed
<1> QED
  BY SchedInvHolds, SchedInvMeans, PTL

\* The tx worker does not rest over a frame it could send (standalone_mt76_tx_worker_run,
\* and whoever calls worker_schedule).
THEOREM WorkerRestsWhenDone == SchedSpec => []NoStall
<1> QED
  BY SchedInvHolds, SchedInvMeans, PTL

=============================================================================
