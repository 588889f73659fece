------------------------------- MODULE Sleep --------------------------------
(***************************************************************************)
(* The commands with which wake on WLAN is set up before the system        *)
(* sleeps and taken down after it, for each active interface, and the      *)
(* address filters the firmware answers with meanwhile (connac_mcu.c,      *)
(* mt7921/mcu.c, mt7921/main.c).  No caller looks at an error: a command   *)
(* that fails has no effect and the next one is sent.                      *)
(***************************************************************************)
EXTENDS Integers, Sequences, FiniteSets, SequencesExt

(* What is asked for: how many interfaces there are, what is to wake the   *)
(* host, and the commands of the suspend and of the resume that fail.      *)
WowConfig == [patterns : Nat, magic : BOOLEAN, disconnect : BOOLEAN, nd : BOOLEAN]
SleepInput == [vifs : Nat, wowlan : WowConfig, lost : SUBSET Nat, later : SUBSET Nat]

(* The firmware's state for one interface, awake.                          *)
Awake == [gtk |-> FALSE, arp |-> FALSE, nd |-> FALSE, mode |-> FALSE, pats |-> {},
          wow |-> "none", trigger |-> {}, scan |-> FALSE]
Cmd(v, what, to) == [vif |-> v, what |-> what, to |-> to]

WowPatterns(v, suspend, wowlan) ==
  [k \in 1 .. wowlan.patterns |-> Cmd(v, "pats", [index |-> k - 1, on |-> suspend])]
Trigger(wowlan) ==
  (IF wowlan.magic THEN {"magic"} ELSE {})
    \cup (IF wowlan.disconnect THEN {"disconnect", "lost"} ELSE {})
    \cup (IF wowlan.nd THEN {"scan"} ELSE {})
    \cup (IF wowlan.patterns > 0 THEN {"bitmap"} ELSE {})
WowCtrl(v, suspend, wowlan) ==
  (IF wowlan.nd THEN <<Cmd(v, "request", TRUE), Cmd(v, "scan", suspend)>> ELSE <<>>)
    \o <<Cmd(v, "wow", [cmd |-> IF suspend THEN "on" ELSE "off", trigger |-> Trigger(wowlan)])>>
SuspendIter(v, suspend, wowlan) ==
  <<Cmd(v, "gtk", suspend), Cmd(v, "arp", suspend), Cmd(v, "mode", suspend)>>
    \o WowPatterns(v, suspend, wowlan) \o WowCtrl(v, suspend, wowlan)
(* Going to sleep switches the neighbour discovery filter on as well; the  *)
(* resume does not come by here.                                           *)
SuspendIterNd(v, wowlan) == <<Cmd(v, "nd", TRUE)>> \o SuspendIter(v, TRUE, wowlan)
\* Mutant of ResumeIter: the resume passes the state of the suspend.
ResumeIterSame(v, wowlan) == SuspendIter(v, TRUE, wowlan)
ResumeIter(v, wowlan) == SuspendIter(v, FALSE, wowlan)

SuspendCmds(vifs, wowlan) ==
  FlattenSeq([k \in 1 .. vifs |-> SuspendIterNd(k, wowlan)])
ResumeCmds(vifs, wowlan) ==
  FlattenSeq([k \in 1 .. vifs |-> ResumeIter(k, wowlan)])

(* What a command does in the firmware.                                    *)
Obeyed(fw, c) ==
  CASE c.what = "wow" -> [fw EXCEPT ![c.vif].wow = c.to.cmd, ![c.vif].trigger = c.to.trigger]
    [] c.what = "pats" -> [fw EXCEPT ![c.vif].pats = IF c.to.on THEN @ \cup {c.to.index}
                                                     ELSE @ \ {c.to.index}]
    [] c.what = "request" -> fw
    [] OTHER -> [fw EXCEPT ![c.vif][c.what] = c.to]
(* sched is HW_SCHED_SCANNING, which is set or cleared whatever becomes of *)
(* the command.                                                            *)
SleepStep(st, c, lost) ==
  [fw |-> IF lost THEN st.fw ELSE Obeyed(st.fw, c),
   sched |-> IF c.what = "scan" THEN c.to ELSE st.sched]
Obey(st, cmds, lost) ==
  FoldLeft(LAMBDA s, k : SleepStep(s, cmds[k], k \in lost), st, [k \in DOMAIN cmds |-> k])
FellAsleep(vifs, wowlan, lost) ==
  Obey([fw |-> [v \in 1 .. vifs |-> Awake], sched |-> FALSE], SuspendCmds(vifs, wowlan), lost)
WokeUp(asleep, vifs, wowlan, lost) == Obey(asleep, ResumeCmds(vifs, wowlan), lost)

(* The address filters: as many addresses as the list holds; of IPv6 those *)
(* no longer tentative, and no command when there is none.                 *)
AddrListLen == 4
FirstOf(s) == SubSeq(s, 1, IF Len(s) < AddrListLen THEN Len(s) ELSE AddrListLen)
ArpFilter(addrs) == <<FirstOf(addrs)>>
AddrsInput == Seq([tentative : BOOLEAN])
Settled(addrs) ==
  FoldLeft(LAMBDA s, a : IF a.tentative THEN s ELSE Append(s, a), <<>>, addrs)
NsFilter(addrs) == IF Settled(addrs) = <<>> THEN <<>> ELSE <<FirstOf(Settled(addrs))>>
(* The work sends what is listed until a command fails, then drops the     *)
(* rest.                                                                   *)
NsWork(list, fails) == SubSeq(list, 1, IF Len(list) < fails THEN Len(list) ELSE fails - 1)
=============================================================================
