-------------------------------- MODULE Regd --------------------------------
(***************************************************************************)
(* The regulatory domain (regd.c), as the USB device has it: without a     *)
(* country table of its own (CLC), so that every UNII band is valid and    *)
(* only the channels a power limit node leaves out are disabled.           *)
(*                                                                         *)
(* r.alpha, r.env the country noted, r.fw the country and channels the     *)
(* firmware was last told, r.off the channels disabled.  An update calls   *)
(* set_channel_domain, then set_tx_sar_pwr; step is the one that fails.    *)
(***************************************************************************)
EXTENDS Integers, Sequences, SequencesExt

RegdEvent ==
  [ev : {"notify"}, alpha : STRING, env : STRING, byUser : BOOLEAN,
   step : {"ok", "domain", "sar"}]
    \cup [ev : {"sleep"}, on : BOOLEAN]
    \cup [ev : {"sta"}, vifs : Nat, isAdd : BOOLEAN, type : STRING]
NodeInput == [found : BOOLEAN, missing : SUBSET Nat]

NewRegd == [alpha |-> "00", env |-> "any", change |-> FALSE, user |-> FALSE,
            ignoreIe |-> FALSE, suspended |-> FALSE, off |-> {},
            fw |-> [alpha |-> "none", off |-> {}], power |-> "none", type |-> "unset"]
ChannelUpdate(r, node) == [r EXCEPT !.off = @ \cup (IF node.found THEN node.missing ELSE {})]
Domain(r, step) == IF step = "domain" THEN r
                   ELSE [r EXCEPT !.fw = [alpha |-> r.alpha, off |-> r.off]]
Sar(r, step) == IF step \in {"domain", "sar"} THEN r ELSE [r EXCEPT !.power = r.alpha]
(* The request is dropped whether the update succeeded or not.             *)
RegdUpdate(r, node, step) ==
  [(IF r.change THEN Sar(Domain(ChannelUpdate(r, node), step), step) ELSE r)
     EXCEPT !.change = FALSE]
Noted(r, e) ==
  [r EXCEPT !.alpha = e.alpha, !.env = e.env, !.change = TRUE,
            !.ignoreIe = IF e.byUser THEN e.alpha # "00" ELSE @]
Known(r, e) == e.alpha = r.alpha /\ e.env = r.env
(* cfg80211 gives the channels the flags of the new domain first.          *)
Notifier(r, e, node) ==
  LET asked == [r EXCEPT !.user = @ \/ e.byUser, !.off = {}]
      noted == Noted(asked, e)
  IN IF Known(r, e) THEN asked
     ELSE IF r.suspended THEN noted
     ELSE RegdUpdate(noted, node, e.step)
(* A station that comes or goes leaves the power type behind.  In a 6 GHz  *)
(* BSS it then updates the domain, under the dev->mutex it holds already:  *)
(* that call does not return, so the stations here are of the other bands. *)
PowerType(vifs, isAdd, type) ==
  CASE vifs > 1 -> "default"
    [] vifs <= 1 /\ ~isAdd -> "unset"
    [] OTHER -> IF type \in {"sp", "vlp", "lpi", "unset"} THEN type ELSE "default"
RegdStep(r, e, node) ==
  CASE e.ev = "notify" -> Notifier(r, e, node)
    [] e.ev = "sleep" -> [r EXCEPT !.suspended = e.on]
    [] e.ev = "sta" -> [r EXCEPT !.type = PowerType(e.vifs, e.isAdd, e.type)]
Regd(es, node) == FoldLeft(LAMBDA r, e : RegdStep(r, e, node), NewRegd, es)
=============================================================================
