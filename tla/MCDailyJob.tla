----------------------------- MODULE MCDailyJob -----------------------------
(* Small instances of DailyJob for TLC. *)
EXTENDS DailyJob

CONSTANTS timer, operator, p1, p2
=============================================================================
