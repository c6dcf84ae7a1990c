------------------------- MODULE PostingLifecycleMC -------------------------
(* Small instances of PostingLifecycle for TLC. *)
EXTENDS PostingLifecycle

CONSTANTS s1, s2

MCSources == {s1, s2}
=============================================================================
