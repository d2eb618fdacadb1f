----------------------------- MODULE MCWrappers -----------------------------
(* Small instances of Wrappers for TLC. *)
EXTENDS Wrappers

CONSTANTS timer, operator, refresh, reseed

MCJobOf == [p \in Proc |-> IF p \in {refresh, reseed} THEN "refresh" ELSE "daily"]
=============================================================================
