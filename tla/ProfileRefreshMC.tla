-------------------------- MODULE ProfileRefreshMC --------------------------
(* Small instances of ProfileRefresh for TLC. *)
EXTENDS ProfileRefresh

CONSTANTS w1, w2

MCWorkers == {w1, w2}
=============================================================================
