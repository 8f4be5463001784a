-------------------------- MODULE MCSyncScheduler --------------------------
(* Instances of SyncScheduler for TLC. *)
EXTENDS SyncScheduler, TLC

Symmetry == Permutations(Bundles) \cup Permutations(Arns \ {First}) \cup Permutations(Events)
=============================================================================
