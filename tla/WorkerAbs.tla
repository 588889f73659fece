----------------------------- MODULE WorkerAbs -----------------------------
(***************************************************************************)
(* What a worker promises its users: requests coalesce into one pending    *)
(* bit, every request made of an enabled worker is followed by a run of    *)
(* the function that begins after it, and the function never runs while    *)
(* the worker is disabled.                                                 *)
(***************************************************************************)
VARIABLES
  pending,    \* a request no run has begun for
  busy,       \* the function runs
  enabled     \* the worker may begin a run

vars == <<pending, busy, enabled>>

Init == pending = FALSE /\ busy = FALSE /\ enabled = TRUE

Request == pending' = TRUE /\ UNCHANGED <<busy, enabled>>

Begin ==
  /\ pending /\ enabled /\ ~busy
  /\ pending' = FALSE /\ busy' = TRUE
  /\ UNCHANGED enabled

End == busy /\ busy' = FALSE /\ UNCHANGED <<pending, enabled>>

\* The worker comes to rest between two runs, forgets what was asked of it, and
\* comes back.
Rest == enabled /\ ~busy /\ enabled' = FALSE /\ UNCHANGED <<pending, busy>>
Forget == ~enabled /\ pending' = FALSE /\ UNCHANGED <<busy, enabled>>
Return == ~enabled /\ enabled' = TRUE /\ UNCHANGED <<pending, busy>>
Renew == ~enabled /\ enabled' = TRUE /\ pending' = FALSE /\ UNCHANGED busy

Next == Request \/ Begin \/ End \/ Rest \/ Forget \/ Return \/ Renew

Safe == Init /\ [][Next]_vars

Spec == Safe /\ WF_vars(Begin) /\ WF_vars(End)
=============================================================================
