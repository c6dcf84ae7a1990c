--------------------------- MODULE SourceIngestionMC ---------------------------
(* Instances of SourceIngestion for TLC: two workers, a file that changes, one fault. *)
EXTENDS SourceIngestion

MCKinds == {"fine", "empty", "tableless"}
MCAllKinds == MCKinds \cup {"doubtful"}
MCRunners == {"w1", "w2"}
=============================================================================
