----------------------------- MODULE MCTxSched -----------------------------
(* Instances of TxSched for TLC. *)
EXTENDS TxSched, TLC

Symmetry == Permutations(Stas)

\* Two stations share the ring as long as nothing goes wrong; afterwards those
\* behaviours are followed in which only one of them is served.
Involved(w) ==
  \/ frames[w] > 0 \/ w \in active \cup round \cup tx \/ OnList(w)
  \/ \E h \in Heads : pend[w][h] > 0
  \/ \E i \in DOMAIN ring : ring[i].sta = w
  \/ count[w] > 0 \/ (\E x \in left : x[1] = w) \/ \E p \in Senders : cur[p] = w
OneInTrouble == troubles > 0 => Cardinality({w \in Stas : Involved(w)}) <= 1
=============================================================================
