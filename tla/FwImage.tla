------------------------------- MODULE FwImage ------------------------------
(***************************************************************************)
(* Downloading the firmware: load_ram's regions and load_patch's sections, *)
(* each announced with an address and a length and then sent in pieces.    *)
(* A region's data follow those of the regions before it in the file, also *)
(* when those are not downloaded; a patch section says where its data are. *)
(* Bytes are numbered by their place in the file.                          *)
(***************************************************************************)
EXTENDS Integers, Sequences, SequencesExt

CONSTANT MaxLen                   \* bytes of one FW_SCATTER message, 4096 on USB
ASSUME MaxLenAssumption == MaxLen \in Nat \ {0}

(* A region: its address and length, whether it is sent at all (NON_DL),   *)
(* whether its address is where the firmware starts, and whether it is one *)
(* that takes a patch.  A section has instead the place of its data.       *)
Region == [addr : Nat, len : Nat, nonDl : BOOLEAN, override : BOOLEAN, patch : BOOLEAN]
Section == [addr : Nat, len : Nat, offs : Nat, patch : BOOLEAN]

(* What is downloaded; no two parts of an image go to the same place.      *)
Loaded(regions) == {k \in DOMAIN regions : ~regions[k].nonDl}
Area(r) == r.addr .. r.addr + r.len - 1
Apart(rs, ks) == \A j, k \in ks : j # k => Area(rs[j]) \cap Area(rs[k]) = {}
RamInput == {rs \in Seq(Region) : Apart(rs, Loaded(rs))}
PatchInput == {ss \in Seq(Section) : Apart(ss, DOMAIN ss)}

Ceil(n, d) == (n + d - 1) \div d
Shorter(a, b) == IF a <= b THEN a ELSE b

(* 0x200000 and 0x900000 take a patch, every other address plain memory.   *)
InitDownload(r) ==
  [cmd |-> IF r.patch THEN "patch_start" ELSE "target_address", addr |-> r.addr, len |-> r.len]
SendFirmware(from, len) ==
  [k \in 1 .. Ceil(len, MaxLen) |->
     [cmd |-> "scatter", from |-> from + (k - 1) * MaxLen,
      len |-> Shorter(MaxLen, len - (k - 1) * MaxLen)]]
Download(r, from) == <<InitDownload(r)>> \o SendFirmware(from, r.len)

\* Mutant of SendRegion: a region that is not downloaded does not move the data.
SendRegionSkip(st, r) ==
  [offset |-> IF r.nonDl THEN st.offset ELSE st.offset + r.len,
   override |-> IF ~r.nonDl /\ r.override THEN r.addr ELSE st.override,
   msgs |-> IF r.nonDl THEN st.msgs ELSE st.msgs \o Download(r, st.offset)]
SendRegion(st, r) ==
  [offset |-> st.offset + r.len,
   override |-> IF ~r.nonDl /\ r.override THEN r.addr ELSE st.override,
   msgs |-> IF r.nonDl THEN st.msgs ELSE st.msgs \o Download(r, st.offset)]
StartFirmware(override) == [cmd |-> "start", addr |-> override, option |-> override # 0]
SendRamFirmware(regions) ==
  LET st == FoldLeft(SendRegion, [offset |-> 0, override |-> 0, msgs |-> <<>>], regions)
  IN Append(st.msgs, StartFirmware(st.override))

LoadPatchMsgs(sections) ==
  Append(FlattenSeq([k \in DOMAIN sections |-> Download(sections[k], sections[k].offs)]),
         [cmd |-> "finish"])

(* The first command that fails is the last one sent.                      *)
Until(msgs, fails) == SubSeq(msgs, 1, Shorter(fails, Len(msgs)))

(***************************************************************************)
(* The device: data go to the place announced last, one piece after        *)
(* another.  mem maps addresses to bytes of the file.                      *)
(***************************************************************************)
Put(mem, at, from, len) ==
  LET to == at .. at + len - 1
  IN [a \in DOMAIN mem \cup to |-> IF a \in to THEN from + (a - at) ELSE mem[a]]
DeviceStep(dev, m) ==
  CASE m.cmd \in {"patch_start", "target_address"} -> [dev EXCEPT !.at = m.addr, !.left = m.len]
    [] m.cmd = "scatter" ->
         [dev EXCEPT !.mem = Put(@, dev.at, m.from, m.len),
                     !.at = @ + m.len,
                     !.left = IF @ >= m.len THEN @ - m.len ELSE 0,
                     !.over = @ \/ m.len > dev.left \/ m.len > MaxLen]
    [] OTHER -> [dev EXCEPT !.started = TRUE, !.short = @ \/ dev.left > 0]
NewDevice ==
  [mem |-> [a \in {} |-> 0], at |-> 0, left |-> 0, over |-> FALSE, short |-> FALSE, started |-> FALSE]
Device(msgs) == FoldLeft(DeviceStep, NewDevice, msgs)
=============================================================================
