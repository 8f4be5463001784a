--------------------------- MODULE RuleSyncProofs ---------------------------
(***************************************************************************)
(* Proofs about RuleSync, for every number of rules, bundles, invocations  *)
(* and clients, with stale reads and partial batches or without.           *)
(*                                                                         *)
(* The argument: the version of a rule identifies its item, so a write     *)
(* that passes its condition was computed from the current item, although  *)
(* it was read earlier and maybe from a stale replica.  For this to be     *)
(* inductive the current item has to be the newest of the history, and     *)
(* every copy in a sync and every item in a request has to be traceable to *)
(* an item of the history.                                                 *)
(***************************************************************************)
EXTENDS RuleSync, TLAPS

-----------------------------------------------------------------------------
(* Type correctness.                                                       *)

LEMMA InitTypeOK == Init => TypeOK
BY DEF Init, TypeOK, NoBatch, Statuses

LEMMA EntryStatus ==
    ASSUME NEW e \in Entry, NEW st \in Statuses
    PROVE  [e EXCEPT !.status = st] \in Entry
BY DEF Entry

LEMMA VisibleType ==
    ASSUME TypeOK, NEW r \in Rules
    PROVE  Visible(r) \subseteq Item \cup {Absent}
BY DEF TypeOK, Visible

LEMMA ResolvedType ==
    ASSUME NEW item \in Item, NEW view
    PROVE  Resolved(item, view) \in Entry
BY DEF Resolved, Entry, Item, Statuses

LEMMA ItemSpec ==
    ASSUME NEW item \in Item, NEW spec \in Specs, NEW n \in Nat
    PROVE  [item EXCEPT !.spec = spec, !.version = n] \in Item
BY DEF Item

LEMMA ItemStatus ==
    ASSUME NEW item \in Item, NEW st \in Statuses, NEW n \in Nat
    PROVE  [item EXCEPT !.status = st, !.version = n] \in Item
BY DEF Item

LEMMA WithStatusType ==
    ASSUME TypeOK, NEW s \in Syncs, NEW chosen, NEW st \in Statuses
    PROVE  /\ WithStatus(s, chosen, st) \in [Rules -> Entry \cup {Absent}]
           /\ \A r \in Copies(s) : WithStatus(s, chosen, st)[r] # Absent
<1>1. \A r \in Copies(s) : r \in Rules /\ batch[s][r] \in Entry
  BY DEF TypeOK, Copies
<1>2. \A r \in Copies(s) : [batch[s][r] EXCEPT !.status = st] \in Entry
  BY <1>1, EntryStatus
<1>3. \A r \in Rules : batch[s][r] \in Entry \cup {Absent}
  BY DEF TypeOK
<1>. QED
  BY <1>1, <1>2, <1>3, AbsentAssumption DEF WithStatus

\* The end of an invocation keeps the types of the variables of syncs.
LEMMA EndType ==
    ASSUME TypeOK, NEW s \in Syncs, NEW code \in {"none", "200", "404", "503"},
           End(s, code)
    PROVE  /\ pc' \in [Syncs -> {"idle", "read", "describe", "update", "record"}]
           /\ todo' \in [Syncs -> SUBSET Bundles]
           /\ batch' \in [Syncs -> [Rules -> Entry \cup {Absent}]]
           /\ held' \in [Syncs -> Nat]
           /\ unwritten' \in [Syncs -> SUBSET Rules]
           /\ \A q \in Syncs : unwritten'[q] \subseteq Copies(q)'
           /\ response' \in [Syncs -> {"none", "200", "404", "503"}]
           /\ pushed' \in [Syncs -> BOOLEAN]
BY DEF TypeOK, End, NoBatch, Copies

LEMMA WriteStatusesType ==
    ASSUME TypeOK, NEW s \in Syncs, NEW copies \in [Rules -> Entry \cup {Absent}],
           \A r \in Copies(s) : copies[r] # Absent,
           WriteStatuses(s, copies),
           pushed' \in [Syncs -> BOOLEAN]
    PROVE  /\ pc' \in [Syncs -> {"idle", "read", "describe", "update", "record"}]
           /\ todo' \in [Syncs -> SUBSET Bundles]
           /\ batch' \in [Syncs -> [Rules -> Entry \cup {Absent}]]
           /\ held' \in [Syncs -> Nat]
           /\ unwritten' \in [Syncs -> SUBSET Rules]
           /\ \A q \in Syncs : unwritten'[q] \subseteq Copies(q)'
           /\ response' \in [Syncs -> {"none", "200", "404", "503"}]
<1>1. CASE Copies(s) = {}
  BY <1>1, EndType DEF WriteStatuses
<1>2. CASE Copies(s) # {}
  <2>1. /\ pc' = [pc EXCEPT ![s] = "record"]
        /\ batch' = [batch EXCEPT ![s] = copies]
        /\ unwritten' = [unwritten EXCEPT ![s] = Copies(s)]
        /\ UNCHANGED <<todo, held, response>>
    BY <1>2 DEF WriteStatuses
  <2>2. Copies(s) \subseteq Rules
    BY DEF Copies
  <2>3. \A q \in Syncs : unwritten'[q] \subseteq Copies(q)'
    BY <2>1 DEF TypeOK, Copies
  <2>. QED
    BY <2>1, <2>2, <2>3 DEF TypeOK
<1>. QED
  BY <1>1, <1>2

LEMMA TextsType ==
    ASSUME TypeOK, NEW s \in Syncs
    PROVE  Texts(s) \subseteq Text \cup {DefaultText}
<1>. SUFFICES ASSUME NEW t \in Texts(s) PROVE t \in Text \cup {DefaultText}
  OBVIOUS
<1>1. CASE Copies(s) = {}
  BY <1>1 DEF Texts
<1>2. CASE Copies(s) # {}
  <2>1. PICK r \in Targets(s) : t = [rule |-> r, spec |-> batch[s][r].spec]
    BY <1>2 DEF Texts
  <2>2. r \in Rules /\ batch[s][r] \in Entry
    BY DEF Targets, Copies, TypeOK
  <2>. QED
    BY <2>1, <2>2 DEF Text, Entry
<1>. QED
  BY <1>1, <1>2

LEMMA NextTypeOK == TypeOK /\ [Next]_vars => TypeOK'
<1>. SUFFICES ASSUME TypeOK, [Next]_vars PROVE TypeOK'
  OBVIOUS
<1>. USE DEF tableVars, firewallVars, syncVars, clientVars, Copies
<1>1. ASSUME NEW r \in Rules, CreateRule(r) PROVE TypeOK'
  <2>1. PICK b \in Bundles, c \in Specs :
            Store(r, [bundle |-> b, spec |-> c, status |-> "PENDING", version |-> 0])
    BY <1>1 DEF CreateRule
  <2>2. [bundle |-> b, spec |-> c, status |-> "PENDING", version |-> 0] \in Item
    BY DEF Item, Statuses
  <2>. QED
    BY <1>1, <2>1, <2>2 DEF CreateRule, Store, TypeOK
<1>2. ASSUME NEW c \in Clients, NEW r \in Rules, ReadForUpdate(c, r) PROVE TypeOK'
  <2>1. PICK seen \in Visible(r) \ {Absent}, spec \in Specs :
            request' = [request EXCEPT ![c] =
                          [rule |-> r, seen |-> seen, spec |-> spec]]
    BY <1>2 DEF ReadForUpdate
  <2>2. seen \in Item
    BY VisibleType
  <2>. QED
    BY <1>2, <2>1, <2>2 DEF ReadForUpdate, TypeOK
<1>3. ASSUME NEW c \in Clients, WriteUpdate(c) PROVE TypeOK'
  <2>1. request[c] \in [rule: Rules, seen: Item, spec: Specs]
    BY <1>3 DEF WriteUpdate, TypeOK
  <2>2. request[c].seen.version + 1 \in Nat
    BY <2>1 DEF Item
  <2>3. Updated(request[c]) \in Item
    BY <2>1, <2>2, ItemSpec DEF Updated
  <2>. QED
    BY <1>3, <2>1, <2>3 DEF WriteUpdate, Store, TypeOK
<1>4. ASSUME NEW c \in Clients, FailUpdate(c) PROVE TypeOK'
  BY <1>4 DEF FailUpdate, TypeOK
<1>5. ASSUME NEW r \in Rules, DeleteRule(r) PROVE TypeOK'
  BY <1>5 DEF DeleteRule, TypeOK
<1>6. ASSUME NEW s \in Syncs, StartSync(s) PROVE TypeOK'
  <2>1. PICK found \in SUBSET Bundles :
            IF found = {}
            THEN End(s, "404")
            ELSE /\ pc' = [pc EXCEPT ![s] = "read"]
                 /\ todo' = [todo EXCEPT ![s] = found]
                 /\ response' = [response EXCEPT ![s] = "none"]
                 /\ UNCHANGED <<batch, held, unwritten, pushed>>
    BY <1>6 DEF StartSync
  <2>2. /\ started' \in Nat
        /\ UNCHANGED <<rules, history, firewall, token, deployed, request, edits,
                       defaultStatus>>
    BY <1>6 DEF StartSync, TypeOK
  <2>3. CASE found = {}
    BY <2>1, <2>2, <2>3, EndType DEF TypeOK
  <2>4. CASE found # {}
    <3>1. /\ pc' = [pc EXCEPT ![s] = "read"]
          /\ todo' = [todo EXCEPT ![s] = found]
          /\ response' = [response EXCEPT ![s] = "none"]
          /\ UNCHANGED <<batch, held, unwritten, pushed>>
      BY <2>1, <2>4
    <3>. QED
      BY <2>2, <3>1 DEF TypeOK
  <2>. QED
    BY <2>3, <2>4
<1>7. ASSUME NEW s \in Syncs, ReadBundle(s) PROVE TypeOK'
  <2>1. PICK b \in todo[s],
             row \in {f \in [Rules -> UNION {Visible(r) : r \in Rules}] :
                        \A r \in Rules : f[r] \in Visible(r)},
             view \in [Objects -> Sightings] :
          IF \E r \in Selected(row, b) : Unreachable(row[r].spec, view)
          THEN End(s, "503")
          ELSE /\ batch' = [batch EXCEPT ![s] =
                    [r \in Rules |-> IF r \in Selected(row, b)
                                     THEN Resolved(row[r], view) ELSE @[r]]]
               /\ todo' = [todo EXCEPT ![s] = @ \ {b}]
               /\ pc' = [pc EXCEPT ![s] = IF todo[s] = {b} THEN "describe" ELSE "read"]
               /\ UNCHANGED <<held, unwritten, response, pushed>>
    BY <1>7 DEF ReadBundle
  <2>2. CASE End(s, "503")
    BY <1>7, <2>2, EndType DEF ReadBundle, TypeOK
  <2>3. CASE /\ batch' = [batch EXCEPT ![s] =
                    [r \in Rules |-> IF r \in Selected(row, b)
                                     THEN Resolved(row[r], view) ELSE @[r]]]
             /\ todo' = [todo EXCEPT ![s] = @ \ {b}]
             /\ pc' = [pc EXCEPT ![s] = IF todo[s] = {b} THEN "describe" ELSE "read"]
             /\ UNCHANGED <<held, unwritten, response, pushed>>
    <3>1. \A r \in Selected(row, b) : r \in Rules /\ row[r] \in Item
      BY VisibleType DEF Selected
    <3>2. \A r \in Selected(row, b) : Resolved(row[r], view) \in Entry
      BY <3>1, ResolvedType
    <3>3. batch' \in [Syncs -> [Rules -> Entry \cup {Absent}]]
      BY <2>3, <3>2 DEF TypeOK
    <3>4. \A q \in Syncs : unwritten'[q] \subseteq Copies(q)'
      BY <2>3, <3>2, AbsentAssumption DEF TypeOK
    <3>5. UNCHANGED <<rules, history, firewall, token, deployed, request, edits,
                      defaultStatus, started>>
      BY <1>7 DEF ReadBundle
    <3>. QED
      BY <2>3, <3>3, <3>4, <3>5 DEF TypeOK
  <2>. QED
    BY <2>1, <2>2, <2>3
<1>8. ASSUME NEW s \in Syncs, SkipFirewall(s) PROVE TypeOK'
  <2>1. batch[s] \in [Rules -> Entry \cup {Absent}] /\ pushed' \in [Syncs -> BOOLEAN]
    BY <1>8 DEF SkipFirewall, TypeOK
  <2>. QED
    BY <1>8, <2>1, WriteStatusesType DEF SkipFirewall, TypeOK
<1>9. ASSUME NEW s \in Syncs, DescribeRuleGroup(s) PROVE TypeOK'
  BY <1>9 DEF DescribeRuleGroup, TypeOK
<1>10. ASSUME NEW s \in Syncs, UpdateAccepted(s) PROVE TypeOK'
  <2>1. WriteStatuses(s, WithStatus(s, Targets(s), "ACTIVE"))
    BY <1>10 DEF UpdateAccepted
  <2>2. pushed' \in [Syncs -> BOOLEAN]
    BY <1>10 DEF UpdateAccepted, TypeOK
  <2>3. defaultStatus' \in [Syncs -> Statuses]
    BY <1>10 DEF UpdateAccepted, TypeOK, Statuses
  <2>4. /\ firewall' \subseteq Text \cup {DefaultText}
        /\ deployed' \subseteq Text \cup {DefaultText}
        /\ token' \in Nat
    BY <1>10, TextsType DEF UpdateAccepted, Replace, TypeOK
  <2>5. /\ WithStatus(s, Targets(s), "ACTIVE") \in [Rules -> Entry \cup {Absent}]
        /\ \A r \in Copies(s) : WithStatus(s, Targets(s), "ACTIVE")[r] # Absent
    BY WithStatusType DEF Statuses
  <2>6. UNCHANGED <<rules, history, request, edits, started>>
    BY <1>10 DEF UpdateAccepted
  <2>. QED
    BY <2>1, <2>2, <2>3, <2>4, <2>5, <2>6, WriteStatusesType DEF TypeOK
<1>11. ASSUME NEW s \in Syncs, UpdateUnanswered(s) PROVE TypeOK'
  <2>1. /\ firewall' \subseteq Text \cup {DefaultText}
        /\ deployed' \subseteq Text \cup {DefaultText}
        /\ token' \in Nat
    BY <1>11, TextsType DEF UpdateUnanswered, Replace, TypeOK
  <2>. QED
    BY <1>11, <2>1, EndType DEF UpdateUnanswered, TypeOK
<1>12. ASSUME NEW s \in Syncs, NEW blamed \in Rules \cup {Absent}, UpdateRejected(s, blamed)
       PROVE TypeOK'
  <2>1. PICK failed : WriteStatuses(s, WithStatus(s, failed, "FAILED"))
    BY <1>12 DEF UpdateRejected
  <2>2. "FAILED" \in Statuses
    BY DEF Statuses
  <2>3. pushed' \in [Syncs -> BOOLEAN]
    BY <1>12 DEF UpdateRejected, TypeOK
  <2>4. defaultStatus' \in [Syncs -> Statuses]
    BY <1>12 DEF UpdateRejected, TypeOK, Statuses
  <2>5. /\ WithStatus(s, failed, "FAILED") \in [Rules -> Entry \cup {Absent}]
        /\ \A r \in Copies(s) : WithStatus(s, failed, "FAILED")[r] # Absent
    BY <2>2, WithStatusType
  <2>6. UNCHANGED <<rules, history, firewall, token, deployed, request, edits, started>>
    BY <1>12 DEF UpdateRejected
  <2>. QED
    BY <2>1, <2>3, <2>4, <2>5, <2>6, WriteStatusesType DEF TypeOK
<1>13. ASSUME NEW s \in Syncs, NEW r \in Rules, RecordStatus(s, r) PROVE TypeOK'
  <2>. DEFINE item == [rules[r] EXCEPT !.status = batch[s][r].status,
                                       !.version = batch[s][r].version + 1]
  <2>1. rules[r] \in Item /\ batch[s][r] \in Entry
    BY <1>13 DEF RecordStatus, SameVersion, TypeOK
  <2>2. batch[s][r].status \in Statuses /\ batch[s][r].version + 1 \in Nat
    BY <2>1 DEF Entry
  <2>3. item \in Item
    BY <2>1, <2>2, ItemStatus
  <2>4. rules' \in [Rules -> Item \cup {Absent}] /\ history' \in [Rules -> SUBSET Item]
    BY <1>13, <2>3 DEF RecordStatus, Store, TypeOK
  <2>5. UNCHANGED <<firewall, token, deployed, request, edits, defaultStatus, started>>
    BY <1>13 DEF RecordStatus
  <2>6. CASE unwritten[s] = {r}
    <3>1. End(s, "200")
      BY <1>13, <2>6 DEF RecordStatus
    <3>. QED
      BY <2>4, <2>5, <3>1, EndType DEF TypeOK
  <2>7. CASE unwritten[s] # {r}
    <3>1. /\ unwritten' = [unwritten EXCEPT ![s] = @ \ {r}]
          /\ UNCHANGED <<pc, todo, batch, held, response, pushed>>
      BY <1>13, <2>7 DEF RecordStatus
    <3>. QED
      BY <2>4, <2>5, <3>1 DEF TypeOK
  <2>. QED
    BY <2>6, <2>7
<1>14. ASSUME NEW s \in Syncs, FailSync(s) PROVE TypeOK'
  BY <1>14, EndType DEF FailSync, TypeOK
<1>15. ASSUME NEW s \in Syncs, CrashSync(s) PROVE TypeOK'
  <2>1. defaultStatus' \in [Syncs -> Statuses]
    BY <1>15 DEF CrashSync, TypeOK, Statuses
  <2>. QED
    BY <1>15, <2>1, EndType DEF CrashSync, TypeOK
<1>16. CASE UNCHANGED vars
  BY <1>16 DEF vars, TypeOK
<1>. QED
  BY <1>1, <1>2, <1>3, <1>4, <1>5, <1>6, <1>7, <1>8, <1>9, <1>10, <1>11, <1>12,
     <1>13, <1>14, <1>15, <1>16 DEF Next, SyncNext, ClientNext

\* Every variable keeps its type: the copies of a sync are entries with a
\* status, the items of the table have a version.
THEOREM TypeCorrect == Spec => []TypeOK
BY InitTypeOK, NextTypeOK, PTL DEF Spec

-----------------------------------------------------------------------------
(* The inductive invariant.                                                *)

TableInv ==
    /\ VersionIdentifiesItem
    /\ LegalSuccession
    /\ ActivationWasDeployed
    /\ CurrentIsNewest

\* A conditional write that is computed from the current item.
LEMMA WriteSafe ==
    ASSUME TypeOK, TableInv,
           NEW r \in Rules, NEW item \in Item,
           rules[r] # Absent,
           item.version = rules[r].version + 1,
           Succeeds(rules[r], item),
           rules[r].status = "PENDING" /\ item.status = "ACTIVE"
                => [rule |-> r, spec |-> item.spec] \in deployed,
           Store(r, item),
           deployed' = deployed
    PROVE  TableInv'
<1>. DEFINE cur == rules[r]
<1>1. cur \in Item /\ cur \in history[r] /\ \A i \in history[r] : i \in Item
  BY DEF TypeOK, TableInv, CurrentIsNewest
<1>2. \A i \in Item : i.version \in Nat
  BY DEF Item
<1>3. \A i \in history[r] : i.version =< cur.version
  BY DEF TableInv, CurrentIsNewest
<1>4. history' = [history EXCEPT ![r] = history[r] \cup {item}]
  BY DEF Store
<1>5. history'[r] = history[r] \cup {item} /\ rules'[r] = item
  BY DEF Store, TypeOK
<1>6. \A q \in Rules \ {r} : history'[q] = history[q] /\ rules'[q] = rules[q]
  BY DEF Store, TypeOK
<1>7. \A i \in history[r] : i.version < item.version
  BY <1>1, <1>2, <1>3
<1>8. \A i \in history[r] : item.version = i.version + 1 => i = cur
  BY <1>1, <1>2 DEF TableInv, VersionIdentifiesItem
<1>9. VersionIdentifiesItem'
  <2>1. ASSUME NEW q \in Rules, NEW i \in history'[q], NEW j \in history'[q],
               i.version = j.version
        PROVE  i = j
    <3>1. CASE q # r
      BY <2>1, <3>1, <1>6 DEF TableInv, VersionIdentifiesItem
    <3>2. CASE q = r
      <4>1. i \in history[r] \/ i = item
        BY <3>2, <1>5
      <4>2. j \in history[r] \/ j = item
        BY <3>2, <1>5
      <4>3. i.version \in Nat /\ j.version \in Nat
        BY <4>1, <4>2, <1>1, <1>2
      <4>. QED
        BY <2>1, <4>1, <4>2, <4>3, <1>7 DEF TableInv, VersionIdentifiesItem
    <3>. QED
      BY <3>1, <3>2
  <2>. QED
    BY <2>1 DEF VersionIdentifiesItem
<1>10. ASSUME NEW q \in Rules, NEW i \in history'[q], NEW j \in history'[q],
              j.version = i.version + 1
       PROVE  \/ i \in history[q] /\ j \in history[q]
              \/ q = r /\ i = cur /\ j = item
  <2>1. CASE q # r
    BY <2>1, <1>6
  <2>2. CASE q = r
    <3>1. i \in history[r] \/ i = item
      BY <2>2, <1>5
    <3>2. j \in history[r] \/ j = item
      BY <2>2, <1>5
    <3>3. i.version \in Nat /\ j.version \in Nat /\ item.version \in Nat
      BY <3>1, <3>2, <1>1, <1>2
    <3>4. i # item
      BY <3>2, <3>3, <1>7, <1>10
    <3>. QED
      BY <2>2, <3>1, <3>2, <3>4, <1>8, <1>10
  <2>. QED
    BY <2>1, <2>2
<1>11. LegalSuccession'
  BY <1>10 DEF TableInv, LegalSuccession
<1>12. ActivationWasDeployed'
  BY <1>10 DEF TableInv, ActivationWasDeployed
<1>13. CurrentIsNewest'
  <2>1. ASSUME NEW q \in Rules, rules'[q] # Absent
        PROVE  /\ rules'[q] \in history'[q]
               /\ \A i \in history'[q] : i.version =< rules'[q].version
    <3>1. CASE q # r
      BY <2>1, <3>1, <1>6 DEF TableInv, CurrentIsNewest
    <3>2. CASE q = r
      BY <3>2, <1>1, <1>2, <1>5, <1>7
    <3>. QED
      BY <3>1, <3>2
  <2>. QED
    BY <2>1 DEF CurrentIsNewest
<1>. QED
  BY <1>9, <1>11, <1>12, <1>13 DEF TableInv

\* A step that writes no item; it may delete some.
LEMMA NoWriteSafe ==
    ASSUME TypeOK, TableInv,
           \A r \in Rules : rules'[r] \in {rules[r], Absent},
           history' = history,
           deployed \subseteq deployed'
    PROVE  TableInv'
<1>1. VersionIdentifiesItem' /\ LegalSuccession'
  BY DEF TableInv, VersionIdentifiesItem, LegalSuccession
<1>2. ActivationWasDeployed'
  BY DEF TableInv, ActivationWasDeployed
<1>3. CurrentIsNewest'
  BY DEF TableInv, CurrentIsNewest
<1>. QED
  BY <1>1, <1>2, <1>3 DEF TableInv

LEMMA DeployedKept ==
    ASSUME TypeOK, DeployedWasAccepted, deployed' = deployed,
           \A r \in Rules : history[r] \subseteq history'[r]
    PROVE  DeployedWasAccepted'
<1>. SUFFICES ASSUME NEW t \in deployed \ {DefaultText}
              PROVE  \E i \in history'[t.rule] : i.spec = t.spec /\ i.status # "FAILED"
  BY DEF DeployedWasAccepted
<1>1. t.rule \in Rules
  BY DEF TypeOK, Text
<1>. QED
  BY <1>1 DEF DeployedWasAccepted

\* The texts a sync sends carry contents it has copies of.
LEMMA ReplaceSafe ==
    ASSUME TypeOK, DeployedWasAccepted, CopiesTraced, NEW s \in Syncs,
           Replace(s), history' = history
    PROVE  DeployedWasAccepted'
<1>. SUFFICES ASSUME NEW t \in deployed' \ {DefaultText}
              PROVE  \E i \in history[t.rule] : i.spec = t.spec /\ i.status # "FAILED"
  BY DEF DeployedWasAccepted
<1>1. CASE t \in deployed
  BY <1>1 DEF DeployedWasAccepted
<1>2. CASE t \in Texts(s)
  <2>1. Copies(s) # {}
    BY <1>2 DEF Texts
  <2>2. PICK r \in Targets(s) : t = [rule |-> r, spec |-> batch[s][r].spec]
    BY <1>2, <2>1 DEF Texts
  <2>3. r \in Copies(s)
    BY DEF Targets
  <2>4. PICK i \in history[r] : TracedTo(batch[s][r], i, r)
    BY <2>3 DEF CopiesTraced
  <2>. QED
    BY <2>2, <2>4 DEF TracedTo
<1>. QED
  BY <1>1, <1>2 DEF Replace

\* A sync that gets no new copy keeps its traces while tables grow.
LEMMA CopiesKept ==
    ASSUME TypeOK, CopiesTraced, NEW s \in Syncs,
           batch'[s] \in {batch[s], NoBatch},
           \A r \in Rules : history[r] \subseteq history'[r],
           deployed \subseteq deployed'
    PROVE  \A r \in Copies(s)' : \E i \in history'[r] : TracedTo(batch[s][r], i, r)'
<1>. SUFFICES ASSUME NEW r \in Copies(s)'
              PROVE  \E i \in history'[r] : TracedTo(batch[s][r], i, r)'
  OBVIOUS
<1>1. r \in Rules /\ batch'[s][r] # Absent
  BY DEF Copies
<1>2. batch'[s] = batch[s]
  BY <1>1 DEF NoBatch
<1>3. r \in Copies(s)
  BY <1>1, <1>2 DEF Copies
<1>4. PICK i \in history[r] : TracedTo(batch[s][r], i, r)
  BY <1>3 DEF CopiesTraced
<1>5. i \in history'[r]
  BY <1>1
<1>6. TracedTo(batch[s][r], i, r)'
  BY <1>2, <1>4 DEF TracedTo
<1>. QED
  BY <1>5, <1>6

LEMMA RequestsKept ==
    ASSUME TypeOK, RequestsTraced,
           \A c \in Clients : request'[c] \in {request[c], Absent},
           \A r \in Rules : history[r] \subseteq history'[r]
    PROVE  RequestsTraced'
<1>. SUFFICES ASSUME NEW c \in Clients, request'[c] # Absent
              PROVE  request'[c].seen \in history'[request'[c].rule]
  BY DEF RequestsTraced
<1>1. request'[c] = request[c] /\ request[c].rule \in Rules
  BY DEF TypeOK
<1>. QED
  BY <1>1 DEF RequestsTraced

\* A step that stores nothing, sends nothing to the rule group and gives no
\* process a new copy.
LEMMA QuietStep ==
    ASSUME IInv, TypeOK',
           \A r \in Rules : rules'[r] \in {rules[r], Absent},
           history' = history,
           deployed' = deployed,
           \A s \in Syncs : batch'[s] \in {batch[s], NoBatch},
           \A c \in Clients : request'[c] \in {request[c], Absent}
    PROVE  IInv'
<1>1. TableInv'
  BY NoWriteSafe DEF IInv, TableInv
<1>2. DeployedWasAccepted'
  BY DeployedKept DEF IInv
<1>3. CopiesTraced'
  BY CopiesKept DEF IInv, CopiesTraced
<1>4. RequestsTraced'
  BY RequestsKept DEF IInv
<1>. QED
  BY <1>1, <1>2, <1>3, <1>4 DEF IInv, TableInv

\* A status change that leaves every copy traceable: to FAILED, or to ACTIVE
\* once the text is in the rule group.
LEMMA StatusTraced ==
    ASSUME TypeOK, NEW s \in Syncs, CopiesTraced,
           NEW chosen \in SUBSET Copies(s), NEW st \in {"ACTIVE", "FAILED"},
           history' = history, deployed \subseteq deployed',
           st = "ACTIVE" => \A r \in chosen :
                [rule |-> r, spec |-> batch[s][r].spec] \in deployed',
           batch' = [batch EXCEPT ![s] = WithStatus(s, chosen, st)]
    PROVE  CopiesTraced'
<1>. SUFFICES ASSUME NEW q \in Syncs, NEW r \in Copies(q)'
              PROVE  \E i \in history'[r] : TracedTo(batch[q][r], i, r)'
  BY DEF CopiesTraced
<1>1. CASE q # s
  BY <1>1, CopiesKept DEF TypeOK
<1>2. CASE q = s
  <2>1. r \in Rules /\ batch'[s][r] = WithStatus(s, chosen, st)[r] /\ batch'[s][r] # Absent
    BY <1>2 DEF Copies, TypeOK
  <2>2. r \in Copies(s) /\ batch[s][r] \in Entry
    BY <2>1 DEF WithStatus, Copies, TypeOK
  <2>3. PICK i \in history[r] : TracedTo(batch[s][r], i, r)
    BY <2>2 DEF CopiesTraced
  <2>4. CASE r \in chosen
    <3>1. batch'[s][r] = [batch[s][r] EXCEPT !.status = st]
      BY <2>1, <2>2, <2>4 DEF WithStatus
    <3>2. /\ batch'[s][r].version = batch[s][r].version
          /\ batch'[s][r].spec = batch[s][r].spec
          /\ batch'[s][r].status = st
      BY <2>2, <3>1 DEF Entry
    <3>3. TracedTo(batch[s][r], i, r)'
      BY <2>3, <2>4, <3>2 DEF TracedTo
    <3>. QED
      BY <1>2, <3>3
  <2>5. CASE r \notin chosen
    <3>1. batch'[s][r] = batch[s][r]
      BY <2>1, <2>5 DEF WithStatus
    <3>2. TracedTo(batch[s][r], i, r)'
      BY <2>3, <3>1 DEF TracedTo
    <3>. QED
      BY <1>2, <3>2
  <2>. QED
    BY <2>4, <2>5
<1>. QED
  BY <1>1, <1>2

LEMMA InitIInv == Init => IInv
<1>. SUFFICES ASSUME Init PROVE IInv
  OBVIOUS
<1>1. TypeOK
  BY InitTypeOK
<1>2. \A s \in Syncs : Copies(s) = {}
  BY DEF Init, Copies, NoBatch
<1>. QED
  BY <1>1, <1>2 DEF Init, IInv, VersionIdentifiesItem, LegalSuccession,
     ActivationWasDeployed, DeployedWasAccepted, CurrentIsNewest, CopiesTraced,
     RequestsTraced

\* The batch after the statuses have been written down for the last phase.
LEMMA WriteStatusesBatch ==
    ASSUME TypeOK, NEW s \in Syncs, NEW copies, WriteStatuses(s, copies)
    PROVE  \/ batch' = [batch EXCEPT ![s] = NoBatch]
           \/ batch' = [batch EXCEPT ![s] = copies]
BY DEF WriteStatuses, End

\* A status change of the copies of a sync, with or without new texts.
LEMMA StatusStep ==
    ASSUME IInv, TypeOK', NEW s \in Syncs,
           NEW chosen \in SUBSET Copies(s), NEW st \in {"ACTIVE", "FAILED"},
           UNCHANGED <<rules, history, request>>, deployed \subseteq deployed',
           DeployedWasAccepted',
           st = "ACTIVE" => \A r \in chosen :
                [rule |-> r, spec |-> batch[s][r].spec] \in deployed',
           WriteStatuses(s, WithStatus(s, chosen, st))
    PROVE  IInv'
<1>1. TableInv'
  BY NoWriteSafe DEF IInv, TableInv
<1>2. RequestsTraced'
  BY RequestsKept DEF IInv
<1>3. CopiesTraced'
  <2>1. CASE batch' = [batch EXCEPT ![s] = NoBatch]
    <3>1. \A q \in Syncs : batch'[q] \in {batch[q], NoBatch}
      BY <2>1 DEF IInv, TypeOK
    <3>. QED
      BY <3>1, CopiesKept DEF IInv, CopiesTraced
  <2>2. CASE batch' = [batch EXCEPT ![s] = WithStatus(s, chosen, st)]
    BY <2>2, StatusTraced DEF IInv
  <2>. QED
    BY <2>1, <2>2, WriteStatusesBatch DEF IInv
<1>. QED
  BY <1>1, <1>2, <1>3 DEF IInv, TableInv

\* A step that ends a sync or leaves its batch alone.
LEMMA EndBatch ==
    ASSUME TypeOK, NEW s \in Syncs,
           batch' = batch \/ batch' = [batch EXCEPT ![s] = NoBatch]
    PROVE  \A q \in Syncs : batch'[q] \in {batch[q], NoBatch}
BY DEF TypeOK

LEMMA CreateRuleIInv ==
    ASSUME IInv, TypeOK', NEW r \in Rules, CreateRule(r)
    PROVE  IInv'
<1>1. PICK b \in Bundles, c \in Specs :
          Store(r, [bundle |-> b, spec |-> c, status |-> "PENDING", version |-> 0])
  BY DEF CreateRule
<1>. DEFINE item == [bundle |-> b, spec |-> c, status |-> "PENDING", version |-> 0]
<1>2. UNCHANGED <<deployed, batch, request>>
  BY DEF CreateRule, firewallVars, syncVars
<1>3. /\ rules'[r] = item
      /\ history'[r] = {item}
      /\ \A q \in Rules \ {r} : rules'[q] = rules[q] /\ history'[q] = history[q]
      /\ \A q \in Rules : history[q] \subseteq history'[q]
  BY <1>1 DEF Store, CreateRule, IInv, TypeOK
<1>4. TableInv'
  <2>1. VersionIdentifiesItem'
    BY <1>3 DEF IInv, VersionIdentifiesItem
  <2>2. \A i, j \in history'[r] : j.version # i.version + 1
    BY <1>3
  <2>3. LegalSuccession'
    <3>. SUFFICES ASSUME NEW q \in Rules, NEW i \in history'[q], NEW j \in history'[q],
                         j.version = i.version + 1
                  PROVE  Succeeds(i, j)
      BY DEF LegalSuccession
    <3>. QED
      BY <2>2, <1>3 DEF IInv, LegalSuccession
  <2>4. ActivationWasDeployed'
    <3>. SUFFICES ASSUME NEW q \in Rules, NEW i \in history'[q], NEW j \in history'[q],
                         j.version = i.version + 1, i.status = "PENDING",
                         j.status = "ACTIVE"
                  PROVE  [rule |-> q, spec |-> j.spec] \in deployed'
      BY DEF ActivationWasDeployed
    <3>. QED
      BY <2>2, <1>2, <1>3 DEF IInv, ActivationWasDeployed
  <2>5. CurrentIsNewest'
    <3>. SUFFICES ASSUME NEW q \in Rules, rules'[q] # Absent
                  PROVE  /\ rules'[q] \in history'[q]
                         /\ \A i \in history'[q] : i.version =< rules'[q].version
      BY DEF CurrentIsNewest
    <3>. QED
      BY <1>3 DEF IInv, CurrentIsNewest
  <2>. QED
    BY <2>1, <2>3, <2>4, <2>5 DEF TableInv
<1>5. DeployedWasAccepted'
  BY <1>2, <1>3, DeployedKept DEF IInv
<1>6. CopiesTraced'
  <2>1. \A s \in Syncs : batch'[s] \in {batch[s], NoBatch}
    BY <1>2
  <2>. QED
    BY <1>2, <1>3, <2>1, CopiesKept DEF IInv, CopiesTraced
<1>7. RequestsTraced'
  BY <1>2, <1>3, RequestsKept DEF IInv
<1>. QED
  BY <1>4, <1>5, <1>6, <1>7 DEF IInv, TableInv

\* What a read returns has been an item of the rule.
LEMMA VisibleHistory ==
    ASSUME CurrentIsNewest, NEW r \in Rules
    PROVE  Visible(r) \subseteq history[r] \cup {Absent}
BY DEF CurrentIsNewest, Visible

LEMMA ReadForUpdateIInv ==
    ASSUME IInv, TypeOK', NEW c \in Clients, NEW r \in Rules, ReadForUpdate(c, r)
    PROVE  IInv'
<1>1. PICK seen \in Visible(r) \ {Absent}, spec \in Specs :
          request' = [request EXCEPT ![c] =
                        [rule |-> r, seen |-> seen, spec |-> spec]]
  BY DEF ReadForUpdate
<1>2. UNCHANGED <<rules, history, deployed, batch>>
  BY DEF ReadForUpdate, tableVars, firewallVars, syncVars
<1>3. seen \in history[r]
  BY VisibleHistory DEF IInv
<1>4. RequestsTraced'
  BY <1>1, <1>2, <1>3 DEF IInv, RequestsTraced, TypeOK
<1>5. TableInv'
  BY <1>2, NoWriteSafe DEF IInv, TableInv
<1>6. DeployedWasAccepted'
  BY <1>2, DeployedKept DEF IInv
<1>7. CopiesTraced'
  BY <1>2, CopiesKept DEF IInv, CopiesTraced
<1>. QED
  BY <1>4, <1>5, <1>6, <1>7 DEF IInv, TableInv

\* The condition on the version makes an item of the history the current one.
LEMMA SameVersionIsCurrent ==
    ASSUME VersionIdentifiesItem, CurrentIsNewest,
           NEW r \in Rules, NEW i \in history[r], SameVersion(r, i.version)
    PROVE  rules[r] = i
BY DEF VersionIdentifiesItem, CurrentIsNewest, SameVersion

LEMMA StoreGrows ==
    ASSUME TypeOK, NEW r \in Rules, NEW item, Store(r, item)
    PROVE  \A q \in Rules : history[q] \subseteq history'[q]
BY DEF TypeOK, Store

LEMMA WriteUpdateIInv ==
    ASSUME IInv, TypeOK', NEW c \in Clients, WriteUpdate(c)
    PROVE  IInv'
<1>. DEFINE q == request[c]
            r == q.rule
            item == Updated(q)
<1>1. q \in [rule: Rules, seen: Item, spec: Specs] /\ q.seen \in history[r]
  BY DEF WriteUpdate, IInv, TypeOK, RequestsTraced
<1>2. rules[r] = q.seen
  BY <1>1, SameVersionIsCurrent DEF IInv, WriteUpdate
<1>3. Store(r, item) /\ UNCHANGED <<deployed, batch>>
  BY DEF WriteUpdate, firewallVars, syncVars
<1>4. q.seen.version + 1 \in Nat
  BY <1>1 DEF Item
<1>5. /\ item \in Item
      /\ item.version = q.seen.version + 1
      /\ item.status = q.seen.status
      /\ item.bundle = q.seen.bundle
  BY <1>1, <1>4, ItemSpec DEF Updated, Item
<1>6. Succeeds(rules[r], item)
  BY <1>2, <1>5 DEF Succeeds
<1>7. r \in Rules /\ rules[r] # Absent
  BY <1>1 DEF WriteUpdate, SameVersion
<1>8. TableInv'
  BY <1>2, <1>3, <1>5, <1>6, <1>7, WriteSafe DEF IInv, TableInv
<1>9. \A p \in Rules : history[p] \subseteq history'[p]
  BY <1>3, <1>7, StoreGrows DEF IInv
<1>10. DeployedWasAccepted'
  BY <1>3, <1>9, DeployedKept DEF IInv
<1>11. CopiesTraced'
  BY <1>3, <1>9, CopiesKept DEF IInv, CopiesTraced
<1>12. RequestsTraced'
  <2>1. \A d \in Clients : request'[d] \in {request[d], Absent}
    BY DEF WriteUpdate, IInv, TypeOK
  <2>. QED
    BY <1>9, <2>1, RequestsKept DEF IInv
<1>. QED
  BY <1>8, <1>10, <1>11, <1>12 DEF IInv, TableInv

LEMMA RecordStatusIInv ==
    ASSUME IInv, TypeOK', NEW s \in Syncs, NEW r \in Rules, RecordStatus(s, r)
    PROVE  IInv'
<1>. DEFINE e == batch[s][r]
            item == [rules[r] EXCEPT !.status = e.status, !.version = e.version + 1]
<1>1. r \in Copies(s) /\ e \in Entry
  BY DEF RecordStatus, IInv, TypeOK, Copies
<1>2. PICK i \in history[r] : TracedTo(e, i, r)
  BY <1>1 DEF IInv, CopiesTraced
<1>3. rules[r] = i /\ rules[r] # Absent
  BY <1>2, SameVersionIsCurrent DEF IInv, RecordStatus, SameVersion, TracedTo
<1>4. i \in Item
  BY <1>3 DEF IInv, TypeOK
<1>5. Store(r, item) /\ UNCHANGED <<deployed, request>>
  BY DEF RecordStatus, firewallVars, clientVars
<1>6. e.status \in Statuses /\ e.version + 1 \in Nat
  BY <1>1 DEF Entry
<1>7. /\ item \in Item
      /\ item.version = rules[r].version + 1
      /\ item.status = e.status
      /\ item.bundle = i.bundle
      /\ item.spec = i.spec
  BY <1>2, <1>3, <1>4, <1>6, ItemStatus DEF Item, TracedTo
<1>8. Succeeds(rules[r], item)
  BY <1>2, <1>3, <1>7 DEF Succeeds, TracedTo
<1>9. rules[r].status = "PENDING" /\ item.status = "ACTIVE"
        => [rule |-> r, spec |-> item.spec] \in deployed
  BY <1>2, <1>3, <1>7 DEF TracedTo
<1>10. TableInv'
  BY <1>3, <1>5, <1>7, <1>8, <1>9, WriteSafe DEF IInv, TableInv
<1>11. \A p \in Rules : history[p] \subseteq history'[p]
  BY <1>5, StoreGrows DEF IInv
<1>12. DeployedWasAccepted'
  BY <1>5, <1>11, DeployedKept DEF IInv
<1>13. CopiesTraced'
  <2>1. batch' = batch \/ batch' = [batch EXCEPT ![s] = NoBatch]
    BY DEF RecordStatus, End
  <2>2. \A q \in Syncs : batch'[q] \in {batch[q], NoBatch}
    BY <2>1, EndBatch DEF IInv
  <2>. QED
    BY <1>5, <1>11, <2>2, CopiesKept DEF IInv, CopiesTraced
<1>14. RequestsTraced'
  BY <1>5, <1>11, RequestsKept DEF IInv
<1>. QED
  BY <1>10, <1>12, <1>13, <1>14 DEF IInv, TableInv

\* A fresh copy is traced to the item that was read.
LEMMA ResolvedTraced ==
    ASSUME NEW r \in Rules, NEW item \in Item, NEW view, item.status # "FAILED"
    PROVE  TracedTo(Resolved(item, view), item, r)
BY DEF Resolved, TracedTo

LEMMA ReadBundleIInv ==
    ASSUME IInv, TypeOK', NEW s \in Syncs, ReadBundle(s)
    PROVE  IInv'
<1>1. PICK b \in todo[s],
           row \in {f \in [Rules -> UNION {Visible(r) : r \in Rules}] :
                      \A r \in Rules : f[r] \in Visible(r)},
           view \in [Objects -> Sightings] :
        IF \E r \in Selected(row, b) : Unreachable(row[r].spec, view)
        THEN End(s, "503")
        ELSE /\ batch' = [batch EXCEPT ![s] =
                  [r \in Rules |-> IF r \in Selected(row, b)
                                   THEN Resolved(row[r], view) ELSE @[r]]]
             /\ todo' = [todo EXCEPT ![s] = @ \ {b}]
             /\ pc' = [pc EXCEPT ![s] = IF todo[s] = {b} THEN "describe" ELSE "read"]
             /\ UNCHANGED <<held, unwritten, response, pushed>>
  BY DEF ReadBundle
<1>2. UNCHANGED <<rules, history, deployed, request>>
  BY DEF ReadBundle, tableVars, firewallVars, clientVars
<1>3. CASE End(s, "503")
  <2>1. \A q \in Syncs : batch'[q] \in {batch[q], NoBatch}
    BY <1>3, EndBatch DEF End, IInv
  <2>. QED
    BY <1>2, <2>1, QuietStep
<1>4. CASE batch' = [batch EXCEPT ![s] =
                  [r \in Rules |-> IF r \in Selected(row, b)
                                   THEN Resolved(row[r], view) ELSE @[r]]]
  <2>1. \A r \in Selected(row, b) :
            /\ r \in Rules
            /\ row[r] \in Item
            /\ row[r] \in history[r]
            /\ row[r].status # "FAILED"
    BY VisibleType, VisibleHistory DEF Selected, IInv
  <2>2. CopiesTraced'
    <3>. SUFFICES ASSUME NEW q \in Syncs, NEW r \in Copies(q)'
                  PROVE  \E i \in history'[r] : TracedTo(batch[q][r], i, r)'
      BY DEF CopiesTraced
    <3>1. r \in Rules
      BY DEF Copies
    <3>2. CASE q # s
      <4>1. batch'[q] = batch[q]
        BY <1>4, <3>2 DEF IInv, TypeOK
      <4>. QED
        BY <4>1, <1>2, CopiesKept DEF IInv
    <3>3. CASE q = s /\ r \in Selected(row, b)
      <4>1. batch'[s][r] = Resolved(row[r], view)
        BY <1>4, <3>1, <3>3 DEF IInv, TypeOK
      <4>2. TracedTo(batch'[s][r], row[r], r)
        BY <2>1, <3>3, <4>1, ResolvedTraced
      <4>3. TracedTo(batch[q][r], row[r], r)'
        BY <1>2, <3>3, <4>2 DEF TracedTo
      <4>. QED
        BY <1>2, <2>1, <3>3, <4>3
    <3>4. CASE q = s /\ r \notin Selected(row, b)
      <4>1. batch'[s][r] = batch[s][r]
        BY <1>4, <3>1, <3>4 DEF IInv, TypeOK
      <4>2. r \in Copies(s)
        BY <3>1, <3>4, <4>1 DEF Copies
      <4>3. PICK i \in history[r] : TracedTo(batch[s][r], i, r)
        BY <4>2 DEF IInv, CopiesTraced
      <4>4. TracedTo(batch[q][r], i, r)'
        BY <1>2, <3>4, <4>1, <4>3 DEF TracedTo
      <4>. QED
        BY <1>2, <4>4
    <3>. QED
      BY <3>2, <3>3, <3>4
  <2>3. TableInv'
    BY <1>2, NoWriteSafe DEF IInv, TableInv
  <2>4. DeployedWasAccepted'
    BY <1>2, DeployedKept DEF IInv
  <2>5. RequestsTraced'
    BY <1>2, RequestsKept DEF IInv
  <2>. QED
    BY <2>2, <2>3, <2>4, <2>5 DEF IInv, TableInv
<1>. QED
  BY <1>1, <1>3, <1>4

LEMMA UpdateAcceptedIInv ==
    ASSUME IInv, TypeOK', NEW s \in Syncs, UpdateAccepted(s)
    PROVE  IInv'
<1>1. /\ Replace(s)
      /\ WriteStatuses(s, WithStatus(s, Targets(s), "ACTIVE"))
      /\ UNCHANGED <<rules, history, request>>
  BY DEF UpdateAccepted, tableVars, clientVars
<1>2. DeployedWasAccepted'
  BY <1>1, ReplaceSafe DEF IInv
<1>3. deployed' = deployed \cup Texts(s)
  BY <1>1 DEF Replace
<1>4. Targets(s) \subseteq Copies(s)
  BY DEF Targets
<1>5. \A r \in Targets(s) : [rule |-> r, spec |-> batch[s][r].spec] \in deployed'
  BY <1>3, <1>4 DEF Texts
<1>. QED
  BY <1>1, <1>2, <1>3, <1>4, <1>5, StatusStep

LEMMA UpdateUnansweredIInv ==
    ASSUME IInv, TypeOK', NEW s \in Syncs, UpdateUnanswered(s)
    PROVE  IInv'
<1>1. /\ Replace(s)
      /\ UNCHANGED <<rules, history, request>>
      /\ batch' = [batch EXCEPT ![s] = NoBatch]
  BY DEF UpdateUnanswered, End, tableVars, clientVars
<1>2. DeployedWasAccepted'
  BY <1>1, ReplaceSafe DEF IInv
<1>3. deployed \subseteq deployed'
  BY <1>1 DEF Replace
<1>4. TableInv'
  BY <1>1, <1>3, NoWriteSafe DEF IInv, TableInv
<1>5. CopiesTraced'
  <2>1. \A q \in Syncs : batch'[q] \in {batch[q], NoBatch}
    BY <1>1, EndBatch DEF IInv
  <2>. QED
    BY <1>1, <1>3, <2>1, CopiesKept DEF IInv, CopiesTraced
<1>6. RequestsTraced'
  BY <1>1, RequestsKept DEF IInv
<1>. QED
  BY <1>2, <1>4, <1>5, <1>6 DEF IInv, TableInv

LEMMA UpdateRejectedIInv ==
    ASSUME IInv, TypeOK', NEW s \in Syncs, NEW blamed \in Rules \cup {Absent},
           UpdateRejected(s, blamed)
    PROVE  IInv'
<1>1. UNCHANGED <<rules, history, deployed, request>>
  BY DEF UpdateRejected, tableVars, firewallVars, clientVars
<1>2. PICK failed : WriteStatuses(s, WithStatus(s, failed, "FAILED"))
  BY DEF UpdateRejected
<1>. DEFINE chosen == failed \cap Copies(s)
<1>3. WithStatus(s, failed, "FAILED") = WithStatus(s, chosen, "FAILED")
  BY DEF WithStatus
<1>4. DeployedWasAccepted'
  BY <1>1, DeployedKept DEF IInv
<1>. QED
  BY <1>1, <1>2, <1>3, <1>4, StatusStep

LEMMA NextIInv == IInv /\ [Next]_vars => IInv'
<1>. SUFFICES ASSUME IInv, [Next]_vars PROVE IInv'
  OBVIOUS
<1>. USE DEF tableVars, firewallVars, syncVars, clientVars
<1>1. TypeOK'
  BY NextTypeOK DEF IInv
<1>2. ASSUME NEW r \in Rules, CreateRule(r) PROVE IInv'
  BY <1>1, <1>2, CreateRuleIInv
<1>3. ASSUME NEW c \in Clients, NEW r \in Rules, ReadForUpdate(c, r) PROVE IInv'
  BY <1>1, <1>3, ReadForUpdateIInv
<1>4. ASSUME NEW c \in Clients, WriteUpdate(c) PROVE IInv'
  BY <1>1, <1>4, WriteUpdateIInv
<1>5. ASSUME NEW c \in Clients, FailUpdate(c) PROVE IInv'
  <2>1. \A d \in Clients : request'[d] \in {request[d], Absent}
    BY <1>5 DEF FailUpdate, IInv, TypeOK
  <2>. QED
    BY <1>1, <1>5, <2>1, QuietStep DEF FailUpdate
<1>6. ASSUME NEW r \in Rules, DeleteRule(r) PROVE IInv'
  <2>1. \A q \in Rules : rules'[q] \in {rules[q], Absent}
    BY <1>6 DEF DeleteRule, IInv, TypeOK
  <2>. QED
    BY <1>1, <1>6, <2>1, QuietStep DEF DeleteRule
<1>7. ASSUME NEW s \in Syncs, StartSync(s) PROVE IInv'
  <2>1. batch' = batch \/ batch' = [batch EXCEPT ![s] = NoBatch]
    BY <1>7 DEF StartSync, End
  <2>2. \A q \in Syncs : batch'[q] \in {batch[q], NoBatch}
    BY <2>1, EndBatch DEF IInv
  <2>3. UNCHANGED <<rules, history, deployed, request>>
    BY <1>7 DEF StartSync
  <2>. QED
    BY <1>1, <2>2, <2>3, QuietStep
<1>8. ASSUME NEW s \in Syncs, ReadBundle(s) PROVE IInv'
  BY <1>1, <1>8, ReadBundleIInv
<1>9. ASSUME NEW s \in Syncs, SkipFirewall(s) PROVE IInv'
  <2>1. batch' = batch \/ batch' = [batch EXCEPT ![s] = NoBatch]
    <3>1. [batch EXCEPT ![s] = batch[s]] = batch
      BY DEF IInv, TypeOK
    <3>. QED
      BY <1>9, <3>1, WriteStatusesBatch DEF SkipFirewall, IInv
  <2>2. \A q \in Syncs : batch'[q] \in {batch[q], NoBatch}
    BY <2>1, EndBatch DEF IInv
  <2>3. UNCHANGED <<rules, history, deployed, request>>
    BY <1>9 DEF SkipFirewall
  <2>. QED
    BY <1>1, <2>2, <2>3, QuietStep
<1>10. ASSUME NEW s \in Syncs, DescribeRuleGroup(s) PROVE IInv'
  BY <1>1, <1>10, QuietStep DEF DescribeRuleGroup
<1>11. ASSUME NEW s \in Syncs, UpdateAccepted(s) PROVE IInv'
  BY <1>1, <1>11, UpdateAcceptedIInv
<1>12. ASSUME NEW s \in Syncs, UpdateUnanswered(s) PROVE IInv'
  BY <1>1, <1>12, UpdateUnansweredIInv
<1>13. ASSUME NEW s \in Syncs, NEW blamed \in Rules \cup {Absent}, UpdateRejected(s, blamed)
       PROVE IInv'
  BY <1>1, <1>13, UpdateRejectedIInv
<1>14. ASSUME NEW s \in Syncs, NEW r \in Rules, RecordStatus(s, r) PROVE IInv'
  BY <1>1, <1>14, RecordStatusIInv
<1>15. ASSUME NEW s \in Syncs, FailSync(s) PROVE IInv'
  <2>1. \A q \in Syncs : batch'[q] \in {batch[q], NoBatch}
    BY <1>15, EndBatch DEF FailSync, End, IInv
  <2>. QED
    BY <1>1, <1>15, <2>1, QuietStep DEF FailSync
<1>16. ASSUME NEW s \in Syncs, CrashSync(s) PROVE IInv'
  <2>1. \A q \in Syncs : batch'[q] \in {batch[q], NoBatch}
    BY <1>16, EndBatch DEF CrashSync, End, IInv
  <2>. QED
    BY <1>1, <1>16, <2>1, QuietStep DEF CrashSync
<1>17. CASE UNCHANGED vars
  BY <1>1, <1>17, QuietStep DEF vars
<1>. QED
  BY <1>2, <1>3, <1>4, <1>5, <1>6, <1>7, <1>8, <1>9, <1>10, <1>11, <1>12, <1>13,
     <1>14, <1>15, <1>16, <1>17 DEF Next, SyncNext, ClientNext

\* The inductive invariant holds in every reachable state.
THEOREM Invariance == Spec => []IInv
BY InitIInv, NextIInv, PTL DEF Spec

\* The version of a rule identifies its item: no write of an overlapping
\* invocation or of the API is lost, with stale reads or without.
THEOREM VersionsIdentifyItems == Spec => []VersionIdentifiesItem
<1>1. IInv => VersionIdentifiesItem
  BY DEF IInv
<1>. QED
  BY <1>1, Invariance, PTL

\* Content and status never change in the same write, and no status that was
\* computed for one content is written on another.
THEOREM SuccessionsAreLegal == Spec => []LegalSuccession
<1>1. IInv => LegalSuccession
  BY DEF IInv
<1>. QED
  BY <1>1, Invariance, PTL

\* A rule is only turned ACTIVE after its very content has been in the rule
\* group.
THEOREM ActivationsWereDeployed == Spec => []ActivationWasDeployed
<1>1. IInv => ActivationWasDeployed
  BY DEF IInv
<1>. QED
  BY <1>1, Invariance, PTL

\* Nothing but DEFAULT_RULE and accepted contents reaches the rule group.
THEOREM DeployedWereAccepted == Spec => []DeployedWasAccepted
<1>1. IInv => DeployedWasAccepted
  BY DEF IInv
<1>. QED
  BY <1>1, Invariance, PTL

-----------------------------------------------------------------------------
(* The rules table behaves as the atomic object of RuleLifecycle.          *)

LEMMA InitLifecycle == Init => Lifecycle!Init
BY DEF Init, Lifecycle!Init

\* The used identifiers change when an identifier gets its first item.
LEMMA StoreUsed ==
    ASSUME TypeOK, NEW r \in Rules, NEW item, Store(r, item)
    PROVE  {q \in Rules : history'[q] # {}} = {q \in Rules : history[q] # {}} \cup {r}
BY DEF TypeOK, Store

LEMMA CreateRuleLifecycle ==
    ASSUME IInv, NEW r \in Rules, CreateRule(r)
    PROVE  Lifecycle!Create(r)
<1>1. PICK b \in Bundles, c \in Specs :
          Store(r, [bundle |-> b, spec |-> c, status |-> "PENDING", version |-> 0])
  BY DEF CreateRule
<1>2. r \notin {q \in Rules : history[q] # {}}
  BY DEF CreateRule
<1>3. {q \in Rules : history'[q] # {}} = {q \in Rules : history[q] # {}} \cup {r}
  BY <1>1, StoreUsed DEF IInv
<1>. QED
  BY <1>1, <1>2, <1>3 DEF Store, Lifecycle!Create

LEMMA WriteUpdateLifecycle ==
    ASSUME IInv, NEW c \in Clients, WriteUpdate(c)
    PROVE  \E r \in Rules : Lifecycle!Edit(r)
<1>. DEFINE q == request[c]
            r == q.rule
<1>1. q \in [rule: Rules, seen: Item, spec: Specs] /\ q.seen \in history[r]
  BY DEF WriteUpdate, IInv, TypeOK, RequestsTraced
<1>2. rules[r] = q.seen /\ rules[r] # Absent /\ r \in Rules
  BY <1>1, SameVersionIsCurrent DEF IInv, WriteUpdate, SameVersion
<1>3. Store(r, [rules[r] EXCEPT !.spec = q.spec, !.version = rules[r].version + 1])
  BY <1>2 DEF WriteUpdate, Updated
<1>4. {p \in Rules : history'[p] # {}} = {p \in Rules : history[p] # {}}
  BY <1>1, <1>3, StoreUsed DEF IInv
<1>5. Lifecycle!Edit(r)
  BY <1>1, <1>2, <1>3, <1>4 DEF Store, Lifecycle!Edit
<1>. QED
  BY <1>2, <1>5

LEMMA RecordStatusLifecycle ==
    ASSUME IInv, NEW s \in Syncs, NEW r \in Rules, RecordStatus(s, r)
    PROVE  Lifecycle!Settle(r)
<1>. DEFINE e == batch[s][r]
<1>1. r \in Copies(s) /\ e \in Entry
  BY DEF RecordStatus, IInv, TypeOK, Copies
<1>2. PICK i \in history[r] : TracedTo(e, i, r)
  BY <1>1 DEF IInv, CopiesTraced
<1>3. rules[r] = i /\ rules[r] # Absent
  BY <1>2, SameVersionIsCurrent DEF IInv, RecordStatus, SameVersion, TracedTo
<1>4. /\ rules[r].status # "FAILED"
      /\ e.status \in {rules[r].status, "ACTIVE", "FAILED"}
      /\ e.version = rules[r].version
  BY <1>2, <1>3 DEF TracedTo
<1>5. Store(r, [rules[r] EXCEPT !.status = e.status, !.version = rules[r].version + 1])
  BY <1>4 DEF RecordStatus
<1>6. {p \in Rules : history'[p] # {}} = {p \in Rules : history[p] # {}}
  BY <1>2, <1>5, StoreUsed DEF IInv
<1>. QED
  BY <1>3, <1>4, <1>5, <1>6 DEF Store, Lifecycle!Settle

LEMMA DeleteRuleLifecycle ==
    ASSUME NEW r \in Rules, DeleteRule(r)
    PROVE  Lifecycle!Remove(r)
BY DEF DeleteRule, Lifecycle!Remove

LEMMA StepLifecycle == IInv /\ [Next]_vars => [Lifecycle!Next]_Lifecycle!vars
<1>. SUFFICES ASSUME IInv, [Next]_vars, ~UNCHANGED <<rules, history>>
              PROVE  Lifecycle!Next
  BY DEF Lifecycle!vars
<1>. USE DEF tableVars
<1>1. ASSUME NEW r \in Rules, CreateRule(r) PROVE Lifecycle!Next
  BY <1>1, CreateRuleLifecycle DEF Lifecycle!Next
<1>2. ASSUME NEW r \in Rules, DeleteRule(r) PROVE Lifecycle!Next
  BY <1>2, DeleteRuleLifecycle DEF Lifecycle!Next
<1>3. ASSUME NEW c \in Clients, ClientNext(c) PROVE Lifecycle!Next
  <2>1. WriteUpdate(c)
    BY <1>3 DEF ClientNext, ReadForUpdate, FailUpdate
  <2>. QED
    BY <2>1, WriteUpdateLifecycle DEF Lifecycle!Next
<1>4. ASSUME NEW s \in Syncs, SyncNext(s) PROVE Lifecycle!Next
  <2>1. PICK r \in Rules : RecordStatus(s, r)
    <3>1. ASSUME NEW blamed, UpdateRejected(s, blamed) PROVE FALSE
      BY <3>1 DEF UpdateRejected
    <3>2. ~ReadBundle(s) /\ ~StartSync(s)
      BY DEF ReadBundle, StartSync
    <3>. QED
      BY <1>4, <3>1, <3>2 DEF SyncNext, SkipFirewall, DescribeRuleGroup,
         UpdateAccepted, UpdateUnanswered, FailSync, CrashSync
  <2>. QED
    BY <2>1, RecordStatusLifecycle DEF Lifecycle!Next
<1>5. CASE UNCHANGED vars
  BY <1>5 DEF vars
<1>. QED
  BY <1>1, <1>2, <1>3, <1>4, <1>5 DEF Next

\* The detailed processes implement the atomic table: every write is the
\* creation of a rule, an edit of its content or a settlement of its status,
\* computed from the item it replaces.
THEOREM TableIsAtomic == Spec => LifecycleSpec
<1>1. Spec => [][Lifecycle!Next]_Lifecycle!vars
  BY Invariance, StepLifecycle, PTL DEF Spec
<1>2. Spec => Lifecycle!Init
  BY InitLifecycle DEF Spec
<1>. QED
  BY <1>1, <1>2 DEF LifecycleSpec, Lifecycle!Spec
=============================================================================
