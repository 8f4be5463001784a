--------------------------- MODULE RuleLifecycle ---------------------------
(***************************************************************************)
(* What the rules table promises its readers, as an atomic object: a rule  *)
(* is created once as a PENDING item of version 0, every accepted write    *)
(* replaces the item by one whose version is the next number, an edit by a *)
(* client keeps the status, a status written by a synchronisation keeps    *)
(* the content, FAILED is never left, and an identifier that was deleted   *)
(* is never used again.                                                    *)
(*                                                                         *)
(* The table is accessed by several processes that read an item, work on   *)
(* the copy and write it back later; RuleSync models them and implements   *)
(* this specification.                                                     *)
(***************************************************************************)
EXTENDS Naturals

CONSTANTS
    Rules,      \* identifiers a rule may get (uuid v4)
    Bundles,    \* rule bundles
    Specs,      \* contents of a rule: what a client may edit
    Absent      \* stands for "no item"

VARIABLES
    rules,      \* the item stored under every identifier, or Absent
    used        \* identifiers handed out so far

vars == <<rules, used>>

Statuses == {"PENDING", "ACTIVE", "FAILED"}

Item == [bundle: Bundles, spec: Specs, status: Statuses, version: Nat]

Init ==
    /\ rules = [r \in Rules |-> Absent]
    /\ used = {}

Create(r) ==
    /\ r \notin used
    /\ \E b \in Bundles, c \in Specs :
          rules' = [rules EXCEPT ![r] = [bundle  |-> b,
                                         spec    |-> c,
                                         status  |-> "PENDING",
                                         version |-> 0]]
    /\ used' = used \cup {r}

\* A client replaces the content and leaves the status as it is.
Edit(r) ==
    /\ rules[r] # Absent
    /\ \E c \in Specs :
          rules' = [rules EXCEPT ![r] =
                      [rules[r] EXCEPT !.spec = c, !.version = rules[r].version + 1]]
    /\ UNCHANGED used

\* A synchronisation records a status; it leaves the content as it is, does
\* not touch a FAILED rule and never takes a status back to PENDING.
Settle(r) ==
    /\ rules[r] # Absent
    /\ rules[r].status # "FAILED"
    /\ \E st \in {rules[r].status, "ACTIVE", "FAILED"} :
          rules' = [rules EXCEPT ![r] =
                      [rules[r] EXCEPT !.status = st, !.version = rules[r].version + 1]]
    /\ UNCHANGED used

Remove(r) ==
    /\ rules[r] # Absent
    /\ rules' = [rules EXCEPT ![r] = Absent]
    /\ UNCHANGED used

Next == \E r \in Rules : Create(r) \/ Edit(r) \/ Settle(r) \/ Remove(r)

Spec == Init /\ [][Next]_vars
=============================================================================
