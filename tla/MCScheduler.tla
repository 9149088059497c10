--------------------------- MODULE MCScheduler ---------------------------
(* Two expressions on which TLC checks Scheduler: one that matches often,  *)
(* and one with a gap longer than the horizon.                             *)
EXTENDS Scheduler, TLC

CONSTANTS j1, j2, often, rarely

JobTypes == (j1 :> {"schedule"}) @@ (j2 :> {"heartbeat"})

CronMatch == (often :> {1, 2, 4}) @@ (rarely :> {1, 4})
=============================================================================
