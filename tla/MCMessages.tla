----------------------------- MODULE MCMessages -----------------------------
(* Inputs for Messages: of every field the values its branches tell apart. *)
EXTENDS Messages

Radios ==
  {r \in [band : {2, 5, 6}, ht : BOOLEAN, vht : BOOLEAN, he : BOOLEAN,
          wide : BOOLEAN, split : BOOLEAN] :
     /\ r.vht => r.ht /\ r.band = 5
     /\ r.split => r.wide
     /\ r.wide => r.he /\ r.band # 2
     /\ r.band = 6 => r.he /\ ~r.ht
     /\ r.he /\ r.band # 6 => r.ht
     /\ r.he /\ r.band = 5 => r.vht}
Roles ==
  {s \in [type : {"ap", "station", "adhoc"}, sta : BOOLEAN, enable : BOOLEAN,
          newly : BOOLEAN, assoc : BOOLEAN, amsdu : BOOLEAN, wme : BOOLEAN,
          flags : {{}, {"trans"}, {"4addr"}, {"trans", "tdls"}}, omac : {3}, offload : {TRUE}] :
     /\ ~s.enable => s.sta
     /\ s.newly = (s.sta => ~s.assoc)}
MCStas == {s @@ r @@ [capa |-> r.band = 6] : s \in Roles, r \in Radios}
MCBas == [tx : BOOLEAN, enable : BOOLEAN, tid : {0, 7}, size : {8, 64}, omac : {3}]

MCCaps == {{2}, {5}, {2, 5}, {2, 5, 6}}
MCFails == {1, 2, 3, 5, 1000}
Upto(n) == [k \in 1 .. n |-> k]
MCScans ==
  {[chans |-> Upto(n), ssids |-> s, seq |-> q] :
     n \in {0, 1, 31, 32, 33, 63, 64, 65, 80}, s \in {<<>>, <<0>>, <<4>>, <<0, 4>>, <<4, 7>>},
     q \in {0, 126, 127}}
MCRnrs ==
  [params : UNION {[1 .. n -> [bssid : {"a", "b", "c"}, idx : {1, 2}]] : n \in 0 .. 4},
   chans : {<<1, 5>>}]
ChanLists == UNION {[1 .. n -> [num : {1}, off : BOOLEAN]] : n \in 0 .. 2}
MCDomains == {2 :> a @@ 5 :> b @@ 6 :> c : a \in ChanLists, b \in ChanLists, c \in ChanLists}

MCTables ==
  {[dims |-> [cck |-> 2, rows |-> 3, len |-> 2, paths |-> 4],
    dt |-> [found |-> f, cck |-> cck, mcs |-> mcs, path |-> path],
    p |-> [target |-> target, delta |-> delta, chains |-> chains]] :
     f \in BOOLEAN, cck \in {<<>>, <<12, 60>>, <<127, 30>>},
     mcs \in UNION {[1 .. n -> [count : 0 .. 2, row : {<<10, 60>>, <<60, 126>>}]] : n \in 0 .. 2},
     path \in {<<>>, <<[count |-> 2, row |-> [k \in 1 .. 10 |-> 30 + k]],
                       [count |-> 2, row |-> [k \in 1 .. 10 |-> 10 + k]]>>},
     target \in {20, 50}, delta \in {-2, 0}, chains \in {1, 2}}
MCLimits ==
  {[level |-> level, sband |-> other \o <<[num |-> 1, off |-> off, maxReg |-> reg]>>,
    frp |-> <<old, NoLimit>>, specs |-> specs,
    acpi |-> [dyn |-> dyn, geo |-> geo, limit |-> 30, offset |-> 4, cap |-> 32]] :
     level \in {0, 10, 20}, other \in {<<>>, <<[num |-> 2, off |-> FALSE, maxReg |-> 3]>>},
     off \in BOOLEAN, reg \in {5, 20},
     old \in {NoLimit, [set |-> TRUE, power |-> 16]},
     specs \in {<<>>, <<[range |-> 1, quarter |-> 40]>>, <<[range |-> 2, quarter |-> 40]>>,
                <<[range |-> 1, quarter |-> 90], [range |-> 1, quarter |-> 24]>>},
     dyn \in BOOLEAN, geo \in BOOLEAN}

(* A region's address by its turn, where it is downloaded, and a section's *)
(* place in the file.                                                      *)
MCImages ==
  {[k \in DOMAIN rs |-> rs[k] @@ [addr |-> IF rs[k].nonDl THEN 100 ELSE 100 * k]] :
     rs \in UNION {[1 .. n -> [len : {0, 1, 4, 5, 9}, nonDl : BOOLEAN,
                               override : {FALSE}, patch : BOOLEAN]] : n \in 1 .. 2}
            \cup [1 .. 3 -> [len : {3, 8}, nonDl : BOOLEAN, override : BOOLEAN, patch : {FALSE}]]}
MCPatches ==
  {[k \in DOMAIN ss |-> ss[k] @@ [addr |-> 10 * k, offs |-> 50 * (4 - k)]] :
     ss \in UNION {[1 .. n -> [len : {0, 1, 4, 5, 9}, patch : BOOLEAN]] : n \in 0 .. 3}}

Ordinary ==
  [band1 |-> FALSE, running |-> TRUE, wcid |-> "sta", unicast |-> TRUE, trans |-> TRUE, cm |-> FALSE,
   clm |-> FALSE, icv |-> FALSE, sec |-> "ccmp", amsduErr |-> FALSE, lenErr |-> FALSE,
   groups |-> {1, 2, 3, 4}, words |-> 40, pad |-> 0, ctl |-> "qos", ds |-> {"to"},
   more |-> FALSE, later |-> FALSE, fragment |-> FALSE, amsdu |-> "no", seq |-> 0, tid |-> 0,
   pn |-> 1, ts |-> 1, ampdu |-> TRUE, mode |-> 4, idx |-> 7, bw |-> 1, chfreq |-> 36,
   llc |-> FALSE]
Sub(a, s, llc, err) == [amsdu |-> a, seq |-> s, llc |-> llc, amsduErr |-> err]
Subs == {Sub(a, 0, FALSE, FALSE) : a \in {"no", "first", "mid", "last"}}
          \cup {Sub(a, 1, FALSE, FALSE) : a \in {"first", "mid", "last"}}
          \cup {Sub("first", 0, TRUE, FALSE), Sub("mid", 0, FALSE, TRUE)}
Bursts ==
  {[k \in DOMAIN ss |-> ss[k] @@ [pn |-> k, ts |-> 1 + ss[k].seq]] : ss \in [1 .. 4 -> Subs]}
(* One frame in all its variety, then an ordinary one.                     *)
Variants ==
  [trans : BOOLEAN, unicast : BOOLEAN, wcid : {"none", "vif", "sta"}, more : BOOLEAN,
   words : {10, 14, 17, 40}, groups : SUBSET (1 .. 5)]
  \cup [mode : {0, 1, 2, 4, 5, 8, 9}, idx : {0, 11, 13, 32, 45}, bw : 0 .. 4,
        chfreq : {6, 36, 190}, groups : {{2, 3, 4}}]
  \cup [ctl : {"qos", "qosnull", "mgmt"}, trans : BOOLEAN, cm : BOOLEAN, icv : BOOLEAN,
        fragment : BOOLEAN, later : BOOLEAN, sec : {"none", "ccmp"}, pn : {0, 1, 2},
        pad : {0, 1}]
  \cup [band1 : BOOLEAN, running : BOOLEAN, amsduErr : BOOLEAN, lenErr : BOOLEAN]
(* Frames with the counter of their TID, and management frames of either.  *)
PnKinds ==
  [ctl : {"qos", "mgmt"}, trans : {FALSE}, ds : {{}, {"to"}}, tid : {0, 1}, pn : 1 .. 3]
MCRxSeqs ==
  {[k \in DOMAIN ds |-> ds[k] @@ [id |-> k] @@ Ordinary] :
     ds \in Bursts \cup (PnKinds \X PnKinds) \cup {<<v, [pn |-> 2]>> : v \in Variants}}

TxKinds == {k \in [kind : {"data", "qos", "mgmt", "addba", "bar", "beacon"}, mcast : BOOLEAN,
                   encap : BOOLEAN, robust : BOOLEAN, injected : BOOLEAN, minRate : BOOLEAN] :
              /\ k.encap => k.kind \in {"data", "qos"} /\ ~k.injected
              /\ k.robust => k.kind \in {"mgmt", "addba"}
              /\ k.kind = "beacon" => k.mcast /\ ~k.injected /\ ~k.minRate}
MCTxFrames ==
  {k @@ [len |-> 100 + pid, pid |-> pid, key |-> key, vif |-> vif, band |-> band, basic |-> basic,
         changed |-> IF k.kind = "beacon" THEN "beacon" ELSE "none",
         qid |-> IF k.kind \in {"data", "qos"} THEN 2 ELSE PsdQueue, ac |-> 2, wmm |-> 1,
         amsdu |-> amsdu, peer |-> TRUE, wme |-> TRUE, prio |-> 3, baTid |-> 5,
         more |-> FALSE, later |-> FALSE] :
     k \in TxKinds, pid \in {0, 3}, key \in {"none", "ccmp", "cmac"}, vif \in BOOLEAN,
     band \in {2, 5}, basic \in {{}, {1, 6}, {9}}, amsdu \in BOOLEAN}
MCTxsEvents ==
  [mode : {0, 1, 2, 4, 8, 12}, idx : {3, 9, 11, 40}, stbc : BOOLEAN, nsts : {0, 3},
   band : {2}]

SurveyEvents ==
  {[ev |-> "tick", use |-> u] : u \in {"idle", "tx", "obss"}}
    \cup {[ev |-> "work"], [ev |-> "get", first |-> TRUE], [ev |-> "get", first |-> FALSE]}
    \cup {[ev |-> "set", chan |-> c, off |-> o, end |-> end] :
            c \in {1, 2}, o \in BOOLEAN, end \in {"ok", "lost", "late"}}
MCSurveys == {es \in [1 .. 4 -> SurveyEvents] : es[1].ev = "tick"}
PollEvents ==
  {[ev |-> "air", q |-> q, dir |-> d, n |-> 9] : q \in {0, 2}, d \in {"tx", "rx"}}
    \cup {[ev |-> "poll"], [ev |-> "assoc"]}
MCPolls == {es \in [1 .. 5 -> PollEvents] :
              Cardinality({k \in 1 .. 5 : es[k].ev = "air"}) <= 3}
MCSignals == UNION {[1 .. n -> {-110, -60, -58, -50, 5}] : n \in 1 .. 4}

Sleeping == [vifs : 1 .. 2, lost : {{}} \cup {{k} : k \in 1 .. 9} \cup {{2, 4, 7}},
             later : {{}} \cup {{k} : k \in 1 .. 8} \cup {{1, 5, 9}},
             wowlan : [patterns : {0, 2}, magic : {TRUE}, disconnect : BOOLEAN, nd : BOOLEAN]]
MCSleeps == Sleeping
MCAddrs == UNION {[1 .. n -> [tentative : BOOLEAN]] : n \in 0 .. 6}

RegdEvents ==
  [ev : {"notify"}, alpha : {"00", "US", "DE"}, env : {"any"}, byUser : {TRUE},
   step : {"ok", "domain", "sar"}]
    \cup [ev : {"sleep"}, on : BOOLEAN] \cup [ev : {"sta"}, vifs : 1 .. 2, isAdd : BOOLEAN, type : {"lpi"}]
MCNotices == [1 .. 3 -> RegdEvents]
MCNodes == [found : BOOLEAN, missing : {{36}}]

MCTransfers ==
  {u \in [len : {0, 1, 8, 9, 12, 16, 20, 31, 40}, segs : {<<>>, <<10>>, <<10, 10>>, <<10, 10, 10>>},
          actual : {0, 8, 10, 20}, size : {10}, type : {"frame", "txs"}, initialized : BOOLEAN] :
     u.actual <= 10 * (IF u.segs = <<>> THEN 1 ELSE Len(u.segs))}
MCPackets == [words : {0, 2, 9, 10, 18}, type : {"event", "txs", "normal", "other"}, flag : BOOLEAN, error : BOOLEAN,
              uni : BOOLEAN, seq : {0, 1},
              eid : {"roc", "access", "scanDone", "loss", "coredump", "rate", "own"}]
MCLinks ==
  {l \in [vifs : [1 .. 2 -> [idx : 0 .. 1, filter : BOOLEAN, station : BOOLEAN,
                            cqm : BOOLEAN, thold : {-70}]],
          idx : 0 .. 1, rssi : [0 .. 1 -> {-80, -60, 0}]] : l.vifs[1].idx # l.vifs[2].idx}
MCParts == {[k \in DOMAIN ls |-> [id |-> k, len |-> ls[k]]] :
              ls \in UNION {[1 .. n -> {1, 3, 4, 8}] : n \in 0 .. 4}}
=============================================================================
