----------------------------- MODULE MCConfigApi -----------------------------
(* Instances of ConfigApi for TLC. *)
EXTENDS ConfigApi, TLC

CONSTANTS q1, q2, u1, u2, o1, o2, b1, r1, r2

MCOwnerships == {{u1}, {u1, u2}}

\* r1 may be there from the start, r2 is created.
MCSpecs == {[source |-> o1, destination |-> o2], [source |-> o2, destination |-> o1]}

Plain(op, user, rule) ==
    [op |-> op, user |-> user, object |-> o1, bundle |-> b1, owners |-> {u1},
     rule |-> rule, spec |-> [source |-> o1, destination |-> o2]]

MCCalls ==
    {Plain(op, u1, r1) : op \in ObjectOps \cup BundleOps} \cup
    {Plain("createRule", u2, r2), Plain("updateRule", u2, r1),
     Plain("deleteRule", u2, r1)}

MCSymmetry == Permutations(Requests)
==============================================================================
