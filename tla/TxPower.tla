------------------------------- MODULE TxPower ------------------------------
(***************************************************************************)
(* The power limit of one channel: the configured power, bounded by the    *)
(* regulatory domain, by SAR (user, ACPI) and, rate by rate, by the        *)
(* power-limits tables of the device tree (eeprom.c).  Powers are s8 in    *)
(* half dBm, except the user's SAR limits, which are in quarter dBm.       *)
(***************************************************************************)
EXTENDS Integers, Sequences, SequencesExt

S8(x) == ((x + 128) % 256) - 128
MinS8(a, b) == IF S8(a) <= S8(b) THEN S8(a) ELSE S8(b)
Smaller(a, b) == IF a <= b THEN a ELSE b
Larger(a, b) == IF a >= b THEN a ELSE b

(***************************************************************************)
(* Inputs.  A table is of whole rows, and its entries and their sum with   *)
(* the delta are s8; the power in dBm that is configured for a channel,    *)
(* and that of the regulatory domain, fit an s8 in half dBm.               *)
(***************************************************************************)
Powers == -128 .. 127
Block == [count : Powers, row : Seq(Powers)]
TableInput ==
  {t \in [dims : [cck : Nat, rows : Nat, len : Nat, paths : Nat],
          dt : [found : BOOLEAN, cck : Seq(Powers), mcs : Seq(Block), path : Seq(Block)],
          p : [target : Powers, delta : Powers, chains : Nat]] :
     /\ t.dt.cck = <<>> \/ Len(t.dt.cck) = t.dims.cck
     /\ \A k \in DOMAIN t.dt.cck : t.dt.cck[k] + t.p.delta \in Powers
     /\ \A b \in DOMAIN t.dt.mcs :
          /\ Len(t.dt.mcs[b].row) = t.dims.len
          /\ \A k \in 1 .. t.dims.len : t.dt.mcs[b].row[k] + t.p.delta \in Powers}
FreqRange == [set : BOOLEAN, power : Powers]
LimitInput ==
  {l \in [level : 0 .. 63, sband : Seq([num : Nat, off : BOOLEAN, maxReg : 0 .. 63]),
          frp : Seq(FreqRange), specs : Seq([range : Nat, quarter : Nat]),
          acpi : [dyn : BOOLEAN, geo : BOOLEAN, limit : Powers, offset : Int, cap : Powers]] :
     l.frp # <<>> /\ \A k \in DOMAIN l.specs : l.specs[k].range \in DOMAIN l.frp}

(***************************************************************************)
(* SAR.  frp is one entry per frequency range: power and whether the range *)
(* has been set.  acpi is the limit of the ACPI tables, with the offset    *)
(* and cap of its geographic table, or absent.                             *)
(***************************************************************************)
NoLimit == [set |-> FALSE, power |-> 0]
InitSarPower(frp, spec) ==
  LET power == spec.quarter \div 2
  IN [frp EXCEPT ![spec.range] =
        [set |-> TRUE, power |-> IF power > 127 \/ power < -127 THEN 127 ELSE power]]
GeoPower(acpi) == IF acpi.geo THEN Smaller(acpi.cap, S8(acpi.limit + acpi.offset)) ELSE acpi.limit
InitAcpiSarPower(frp, acpi, setDefault) ==
  IF ~acpi.dyn THEN frp
  ELSE [k \in DOMAIN frp |->
          IF ~(setDefault \/ frp[k].set) THEN frp[k]
          ELSE [set |-> TRUE, power |-> MinS8(IF setDefault THEN 127 ELSE frp[k].power,
                                              GeoPower(acpi))]]
(* set_tx_sar_pwr: the user's specification first, then the minimum with   *)
(* ACPI; without a specification ACPI's limits replace what was set.       *)
SetTxSarPwr(frp, specs, acpi) ==
  InitAcpiSarPower(FoldLeft(InitSarPower, frp, specs), acpi, specs = <<>>)
SarPower(frp, range, power) ==
  LET p == IF power > 127 \/ power < -127 THEN 127 ELSE power
  IN IF range \in DOMAIN frp /\ frp[range].set THEN Smaller(frp[range].power, p) ELSE p

(***************************************************************************)
(* Regulatory bound: the first channel of the band with this number, if it *)
(* is enabled.                                                             *)
(***************************************************************************)
TxPowerOf(level) == IF level = 0 THEN 127 ELSE 2 * level
ChPower(sband, num, target) ==
  LET at == SelectInSeq(sband, LAMBDA ch : ch.num = num)
  IN IF at = 0 \/ sband[at].off THEN target ELSE MinS8(2 * sband[at].maxReg, target)

(***************************************************************************)
(* Device tree tables.  Rate tables limit each rate; path tables limit the *)
(* combinations of chains and streams, and a beamforming one leaves 1T1ss  *)
(* out.  acc is the row of powers and the largest of them.                 *)
(***************************************************************************)
PathDelta(chains) == IF chains \in 1 .. 5 THEN <<0, 6, 9, 12, 14>>[chains] ELSE 0
BackoffChains(idx) == IF idx \in 0 .. 9 THEN <<1, 2, 3, 4, 2, 3, 4, 3, 4, 4>>[idx + 1] ELSE 0
IndexOf(type, i) == IF type = "bf" THEN i + 1 ELSE i
EntryTarget(type, i, target, chains) ==
  IF type = "rate" THEN target
  ELSE target + PathDelta(chains) - PathDelta(BackoffChains(IndexOf(type, i)))
Counts(type, i, chains, entry) ==
  /\ entry < 126
  /\ type # "rate" => BackoffChains(IndexOf(type, i)) = chains
ApplyArray(acc, base, data, type, p) ==
  LET pwr(i) == MinS8(EntryTarget(type, i, p.target, p.chains), data[i + 1] + p.delta)
      idx == {i \in 0 .. Len(data) - 1 : Counts(type, i, p.chains, data[i + 1])}
  IN [pwr |-> [k \in DOMAIN acc.pwr |->
                 IF k - base \in 1 .. Len(data) THEN pwr(k - base - 1) ELSE acc.pwr[k]],
      max |-> Max({acc.max} \cup {pwr(i) : i \in idx})]

(* Tables of several rows are run-length coded: each block is a count and  *)
(* one row.  The walk keeps the block it is at and how often it still      *)
(* applies; a row no block covers keeps the target.                        *)
\* Mutant of ApplyRow: each block applies once more than its count.
ApplyRowOnceMore(st, i, len, blocks, type, p) ==
  LET use == IF type = "path" /\ i > 2 THEN "bf" ELSE type
      acc == ApplyArray(st.acc, i * len, blocks[st.at].row, use, p)
  IN IF st.at > Len(blocks) THEN st
     ELSE IF st.cur > 0 THEN [st EXCEPT !.acc = acc, !.cur = @ - 1]
     ELSE [at |-> st.at + 1, acc |-> acc,
           cur |-> IF st.at < Len(blocks) THEN blocks[st.at + 1].count ELSE 0]
ApplyRow(st, i, len, blocks, type, p) ==
  LET use == IF type = "path" /\ i > 2 THEN "bf" ELSE type
      acc == ApplyArray(st.acc, i * len, blocks[st.at].row, use, p)
  IN IF st.at > Len(blocks) THEN st
     ELSE IF st.cur > 1 THEN [st EXCEPT !.acc = acc, !.cur = @ - 1]
     ELSE [at |-> st.at + 1, acc |-> acc,
           cur |-> IF st.at < Len(blocks) THEN blocks[st.at + 1].count ELSE 0]
ApplyMultiArray(acc, rows, len, blocks, type, p) ==
  IF blocks = <<>> THEN acc
  ELSE FoldLeft(LAMBDA st, i : ApplyRow(st, i, len, blocks, type, p),
                [at |-> 1, cur |-> blocks[1].count, acc |-> acc],
                [i \in 1 .. rows |-> i - 1]).acc

(***************************************************************************)
(* The tables of one channel.  dt is absent, or a row of rates, blocks of  *)
(* rows of rates and blocks of rows of path backoffs, each empty if the    *)
(* device tree lacks it.  Without a table the rates keep the target and    *)
(* the paths nothing; max is what set_txpower_cur is told.                 *)
(***************************************************************************)
Row(n, v) == [k \in 1 .. n |-> v]
RatePowerLimits(dt, dims, p) ==
  LET cck == ApplyArray([pwr |-> Row(dims.cck, p.target), max |-> -127], 0, dt.cck, "rate", p)
      mcs == ApplyMultiArray([pwr |-> Row(dims.rows * dims.len, p.target), max |-> cck.max],
                             dims.rows, dims.len, dt.mcs, "rate", p)
      path == ApplyMultiArray([pwr |-> Row(dims.paths * 10, 0), max |-> mcs.max],
                              dims.paths, 10, dt.path, "path", p)
  IN IF dt.found THEN [cck |-> cck.pwr, mcs |-> mcs.pwr, path |-> path.pwr, max |-> path.max]
     ELSE [cck |-> Row(dims.cck, p.target), mcs |-> Row(dims.rows * dims.len, p.target),
           path |-> Row(dims.paths * 10, 0), max |-> p.target]
(* get_rate_power_limit: the three bounds one after the other.             *)
ChanTarget(level, sband, num, frp, range) ==
  S8(SarPower(frp, range, ChPower(sband, num, TxPowerOf(level))))

(***************************************************************************)
(* Where build_sku puts the limits in the message's table of 161 entries.  *)
(***************************************************************************)
SkuLen == 161
Segment(table, row, at, n) == [table |-> table, row |-> row, at |-> at, n |-> n]
SkuSegments(band) ==
  (IF band = 2 THEN {Segment("cck", 0, 0, 4)} ELSE {})
  \cup {Segment("ofdm", 0, 4, 8), Segment("mcs32", 0, 28, 1)}
  \cup {Segment("ht", k, 12 + 8 * k, 8) : k \in 0 .. 1}
  \cup {Segment("vht", k, 29 + 12 * k, 10) : k \in 0 .. 3}
  \cup {Segment("he", k, 77 + 12 * k, 12) : k \in 0 .. 6}
=============================================================================
