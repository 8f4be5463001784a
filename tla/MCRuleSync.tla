----------------------------- MODULE MCRuleSync -----------------------------
(* Instances of RuleSync for TLC. *)
EXTENDS RuleSync, TLC

CONSTANTS o1, o2

\* Two contents that differ in the source.
MCSpecs == {[source |-> o1, destination |-> o2], [source |-> o2, destination |-> o2]}

\* One content.
MCOneSpec == {[source |-> o1, destination |-> o2]}

Symmetry == Permutations(Rules) \cup Permutations(Syncs)
=============================================================================
