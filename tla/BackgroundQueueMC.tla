-------------------------- MODULE BackgroundQueueMC --------------------------
(* Small instances of BackgroundQueue for TLC. *)
EXTENDS BackgroundQueue

CONSTANTS j1, j2, w1, w2

MCJobs == {j1, j2}
MCWorkers == {w1, w2}
=============================================================================
