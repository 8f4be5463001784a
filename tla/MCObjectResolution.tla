-------------------------- MODULE MCObjectResolution --------------------------
(* Instances of ObjectResolution for TLC. *)
EXTENDS ObjectResolution

MCKindOf ==
    [address |-> "address", vpc |-> "direct", tags |-> "tagged", group |-> "asg",
     function |-> "lambda", unused |-> "lambda", bare |-> "untagged", volume |-> "unclaimed",
     gone |-> "missing", subnet |-> "direct", many |-> "direct"]

R(source, destination) == [source |-> source, destination |-> destination]

\* Three rules in two chunks and two more bundles; two queries at a time; what a
\* refused rule leaves behind; one that is FAILED; a query with two pages.
MCPlans ==
    {<<<<R("address", "vpc"), R("vpc", "gone"), R("address", "address")>>, <<>>,
       <<R("address", "address")>>>>,
     <<<<R("address", "vpc"), R("address", "subnet")>>>>,
     <<<<R("group", "bare")>>>>,
     <<<<R("tags", "unused")>>>>,
     <<<<R("volume", "address"), R("function", "address")>>>>,
     <<<<R("many", "address")>>>>}
=============================================================================
