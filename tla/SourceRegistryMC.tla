---------------------------- MODULE SourceRegistryMC ----------------------------
(* Instances of SourceRegistry for TLC: two keys that differ in case only. *)
EXTENDS SourceRegistry

MCKeys == {"Repo", "repo"}
MCFold == [k \in MCKeys |-> "repo"]
MCSettings == {"main", "dev"}
MCSeed == [key |-> "repo", set |-> "main"]
MCRequests == {"r1", "r2"}
=============================================================================
