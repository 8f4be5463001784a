---------------------- MODULE RuleSyncAgreementProofs ----------------------
(***************************************************************************)
(* Agreement of the rules table and the rule group after a complete        *)
(* invocation.  It is promised only when invocations do not overlap and    *)
(* reads return what is there, which is the hypothesis Undisturbed.        *)
(***************************************************************************)
EXTENDS RuleSyncProofs

\* One environment of the auto-config Lambda, exact reads, whole batches.
Undisturbed ==
    /\ \A s, t \in Syncs : s = t
    /\ ~StaleReads
    /\ ~PartialBatches

\* Once the rules of a bundle have been read, an ACTIVE rule of that bundle is
\* among the copies.
ActiveIsCopied ==
    \A s \in Syncs : pc[s] # "idle" =>
        \A r \in Rules :
            rules[r] # Absent /\ batch[s][r] = Absent /\ rules[r].bundle \notin todo[s]
                => rules[r].status # "ACTIVE"

\* The bundles have all been read when the rule group is called.
AllRead == \A s \in Syncs : pc[s] \in {"describe", "update", "record"} => todo[s] = {}

\* The rule group carries the texts of the copies that became ACTIVE.
FirewallIsBatch ==
    \A s \in Syncs : pushed[s] =>
        /\ pc[s] = "record"
        /\ \A r \in Copies(s) : batch[s][r].status \in {"ACTIVE", "FAILED"}
        /\ firewall = {[rule |-> r, spec |-> batch[s][r].spec] :
                          r \in {q \in Copies(s) : batch[s][q].status = "ACTIVE"}}

\* A status that was written is in an item with the content of the copy.
WrittenIsCopy ==
    \A s \in Syncs : pushed[s] =>
        \A r \in Copies(s) \ unwritten[s] : \E j \in history[r] :
            /\ j.version = batch[s][r].version + 1
            /\ j.spec = batch[s][r].spec
            /\ j.status = batch[s][r].status

AgreeInv ==
    /\ AllRead
    /\ ActiveIsCopied
    /\ FirewallIsBatch
    /\ WrittenIsCopy

LEMMA InitAgrees == Init => AgreeInv
BY DEF Init, AgreeInv, AllRead, ActiveIsCopied, FirewallIsBatch, WrittenIsCopy

\* The end of the only invocation leaves nothing to agree on.
LEMMA EndAgrees ==
    ASSUME TypeOK, Undisturbed, NEW s \in Syncs, NEW code, End(s, code)
    PROVE  AgreeInv'
<1>1. \A q \in Syncs : pc'[q] = "idle" /\ pushed'[q] = FALSE
  BY DEF TypeOK, Undisturbed, End
<1>. QED
  BY <1>1 DEF AgreeInv, AllRead, ActiveIsCopied, FirewallIsBatch, WrittenIsCopy

\* A step outside the invocation: it may create a rule, delete one or change
\* the content of one.
LEMMA ClientAgrees ==
    ASSUME TypeOK, AgreeInv, UNCHANGED <<firewall, pc, todo, batch, unwritten, pushed>>,
           \A r \in Rules : \/ rules'[r] \in {rules[r], Absent}
                            \/ rules'[r].status = "PENDING"
                            \/ /\ rules[r] # Absent
                               /\ rules'[r].bundle = rules[r].bundle
                               /\ rules'[r].status = rules[r].status,
           \A r \in Rules : history[r] \subseteq history'[r]
    PROVE  AgreeInv'
<1>1. AllRead'
  BY DEF AgreeInv, AllRead
<1>2. ActiveIsCopied'
  BY DEF AgreeInv, ActiveIsCopied
<1>3. FirewallIsBatch'
  BY DEF AgreeInv, FirewallIsBatch, Copies
<1>4. WrittenIsCopy'
  BY DEF AgreeInv, WrittenIsCopy, Copies
<1>. QED
  BY <1>1, <1>2, <1>3, <1>4 DEF AgreeInv

LEMMA CreateRuleAgrees ==
    ASSUME TypeOK, AgreeInv, NEW r \in Rules, CreateRule(r)
    PROVE  AgreeInv'
<1>1. PICK b \in Bundles, c \in Specs :
          Store(r, [bundle |-> b, spec |-> c, status |-> "PENDING", version |-> 0])
  BY DEF CreateRule
<1>2. \A q \in Rules : rules'[q] = rules[q] \/ rules'[q].status = "PENDING"
  BY <1>1 DEF Store, TypeOK
<1>3. \A q \in Rules : history[q] \subseteq history'[q]
  BY <1>1, StoreGrows
<1>4. UNCHANGED <<firewall, pc, todo, batch, unwritten, pushed>>
  BY DEF CreateRule, firewallVars, syncVars
<1>. QED
  BY <1>2, <1>3, <1>4, ClientAgrees

\* An edit keeps the bundle and the status of the item it replaces, because
\* the version condition makes the item it read the current one.
LEMMA WriteUpdateAgrees ==
    ASSUME IInv, AgreeInv, NEW c \in Clients, WriteUpdate(c)
    PROVE  AgreeInv'
<1>. DEFINE q == request[c]
            r == q.rule
            item == Updated(q)
<1>1. q \in [rule: Rules, seen: Item, spec: Specs] /\ q.seen \in history[r]
  BY DEF WriteUpdate, IInv, TypeOK, RequestsTraced
<1>2. rules[r] = q.seen /\ rules[r] # Absent /\ r \in Rules
  BY <1>1, SameVersionIsCurrent DEF IInv, WriteUpdate, SameVersion
<1>3. q.seen.version + 1 \in Nat
  BY <1>1 DEF Item
<1>4. item.status = q.seen.status /\ item.bundle = q.seen.bundle
  BY <1>1, <1>3, ItemSpec DEF Updated, Item
<1>5. Store(r, item) /\ UNCHANGED <<firewall, pc, todo, batch, unwritten, pushed>>
  BY DEF WriteUpdate, firewallVars, syncVars
<1>6. \A p \in Rules : history[p] \subseteq history'[p]
  BY <1>2, <1>5, StoreGrows DEF IInv
<1>7. rules'[r] = item /\ \A p \in Rules \ {r} : rules'[p] = rules[p]
  BY <1>2, <1>5 DEF Store, IInv, TypeOK
<1>8. \A p \in Rules : \/ rules'[p] = rules[p]
                       \/ /\ rules[p] # Absent
                          /\ rules'[p].bundle = rules[p].bundle
                          /\ rules'[p].status = rules[p].status
  BY <1>2, <1>4, <1>7
<1>. QED
  BY <1>5, <1>6, <1>8, ClientAgrees DEF IInv

\* A batch read that is whole finds every bundle.
LEMMA StartSyncAgrees ==
    ASSUME TypeOK, AgreeInv, Undisturbed, NEW s \in Syncs, StartSync(s)
    PROVE  AgreeInv'
<1>1. CASE End(s, "404")
  BY <1>1, EndAgrees
<1>2. CASE /\ pc' = [pc EXCEPT ![s] = "read"]
           /\ todo' = [todo EXCEPT ![s] = Bundles]
           /\ UNCHANGED <<batch, unwritten, pushed>>
  <2>1. \A q \in Syncs : q = s
    BY DEF Undisturbed
  <2>2. pc[s] = "idle" /\ pc'[s] = "read" /\ todo'[s] = Bundles
    BY <1>2 DEF StartSync, TypeOK
  <2>3. ~pushed[s] /\ ~pushed'[s]
    BY <1>2, <2>2 DEF AgreeInv, FirewallIsBatch
  <2>4. \A r \in Rules : rules'[r] # Absent => rules'[r].bundle \in todo'[s]
    BY <2>2 DEF StartSync, tableVars, TypeOK, Item
  <2>. QED
    BY <2>1, <2>2, <2>3, <2>4 DEF AgreeInv, AllRead, ActiveIsCopied, FirewallIsBatch,
       WrittenIsCopy
<1>. QED
  BY <1>1, <1>2 DEF StartSync, Undisturbed

\* A query that is exact returns every rule of the bundle that is not FAILED.
LEMMA ReadBundleAgrees ==
    ASSUME TypeOK, AgreeInv, Undisturbed, NEW s \in Syncs, ReadBundle(s)
    PROVE  AgreeInv'
<1>1. PICK b \in todo[s],
           row \in {f \in [Rules -> UNION {Visible(r) : r \in Rules}] :
                      \A r \in Rules : f[r] \in Visible(r)},
           view \in [Objects -> Sightings] :
        IF \E r \in Selected(row, b) : Unreachable(row[r].spec, view)
        THEN End(s, "503")
        ELSE /\ batch' = [batch EXCEPT ![s] =
                  [r \in Rules |-> IF r \in Selected(row, b)
                                   THEN Resolved(row[r], view) ELSE @[r]]]
             /\ todo' = [todo EXCEPT ![s] = @ \ {b}]
             /\ pc' = [pc EXCEPT ![s] = IF todo[s] = {b} THEN "describe" ELSE "read"]
             /\ UNCHANGED <<held, unwritten, response, pushed>>
  BY DEF ReadBundle
<1>2. CASE End(s, "503")
  BY <1>2, EndAgrees
<1>3. CASE /\ batch' = [batch EXCEPT ![s] =
                  [r \in Rules |-> IF r \in Selected(row, b)
                                   THEN Resolved(row[r], view) ELSE @[r]]]
           /\ todo' = [todo EXCEPT ![s] = @ \ {b}]
           /\ pc' = [pc EXCEPT ![s] = IF todo[s] = {b} THEN "describe" ELSE "read"]
           /\ UNCHANGED <<held, unwritten, response, pushed>>
  <2>1. \A q \in Syncs : q = s
    BY DEF Undisturbed
  <2>2. pc[s] = "read" /\ rules' = rules
    BY DEF ReadBundle, tableVars
  <2>3. ~pushed[s] /\ ~pushed'[s]
    BY <1>3, <2>2 DEF AgreeInv, FirewallIsBatch
  <2>4. \A r \in Rules : row[r] = rules[r]
    BY DEF Undisturbed, Visible
  <2>5. AllRead'
    BY <1>3, <2>1 DEF TypeOK, AllRead
  <2>6. ActiveIsCopied'
    <3>. SUFFICES ASSUME NEW r \in Rules, rules[r] # Absent, batch'[s][r] = Absent,
                         rules[r].bundle \notin todo'[s]
                  PROVE  rules[r].status # "ACTIVE"
      BY <2>1, <2>2 DEF ActiveIsCopied
    <3>1. CASE r \in Selected(row, b)
      <4>1. Resolved(row[r], view) \in Entry
        BY <3>1, <2>4, ResolvedType DEF Selected, TypeOK
      <4>2. batch'[s][r] = Resolved(row[r], view)
        BY <1>3, <3>1 DEF TypeOK
      <4>. QED
        BY <4>1, <4>2, AbsentAssumption
    <3>2. CASE r \notin Selected(row, b)
      <4>1. batch[s][r] = Absent
        BY <1>3, <3>2 DEF TypeOK
      <4>2. CASE rules[r].bundle = b
        BY <2>4, <3>2, <4>2 DEF Selected
      <4>3. CASE rules[r].bundle # b
        <5>1. rules[r].bundle \notin todo[s]
          BY <1>3, <4>3 DEF TypeOK
        <5>. QED
          BY <2>2, <4>1, <5>1 DEF AgreeInv, ActiveIsCopied
      <4>. QED
        BY <4>2, <4>3
    <3>. QED
      BY <3>1, <3>2
  <2>. QED
    BY <2>1, <2>3, <2>5, <2>6 DEF AgreeInv, FirewallIsBatch, WrittenIsCopy
<1>. QED
  BY <1>1, <1>2, <1>3

\* The statuses are decided and nothing is in the rule group that was not.
LEMMA WriteStatusesAgrees ==
    ASSUME TypeOK, AgreeInv, Undisturbed, NEW s \in Syncs, NEW copies,
           pc[s] \in {"describe", "update"}, rules' = rules,
           WriteStatuses(s, copies),
           \A r \in Rules : copies[r] = Absent <=> batch[s][r] = Absent,
           pushed'[s] => FirewallIsBatch'
    PROVE  AgreeInv'
<1>1. CASE Copies(s) = {}
  BY <1>1, EndAgrees DEF WriteStatuses
<1>2. CASE Copies(s) # {}
  <2>1. /\ pc' = [pc EXCEPT ![s] = "record"]
        /\ batch' = [batch EXCEPT ![s] = copies]
        /\ unwritten' = [unwritten EXCEPT ![s] = Copies(s)]
        /\ todo' = todo
    BY <1>2 DEF WriteStatuses
  <2>2. \A q \in Syncs : q = s
    BY DEF Undisturbed
  <2>3. AllRead'
    BY <2>1, <2>2 DEF AgreeInv, AllRead
  <2>4. ActiveIsCopied'
    <3>. SUFFICES ASSUME NEW r \in Rules, rules[r] # Absent, batch'[s][r] = Absent,
                         rules[r].bundle \notin todo[s]
                  PROVE  rules[r].status # "ACTIVE"
      BY <2>1, <2>2 DEF ActiveIsCopied
    <3>1. batch'[s] = copies
      BY <2>1 DEF TypeOK
    <3>2. batch[s][r] = Absent
      BY <3>1 DEF Copies
    <3>. QED
      BY <3>2 DEF AgreeInv, ActiveIsCopied
  <2>5. FirewallIsBatch'
    BY <2>2 DEF FirewallIsBatch
  <2>6. WrittenIsCopy'
    <3>1. Copies(s)' \subseteq unwritten'[s]
      BY <2>1 DEF TypeOK, Copies
    <3>. QED
      BY <2>2, <3>1 DEF WrittenIsCopy
  <2>. QED
    BY <2>3, <2>4, <2>5, <2>6 DEF AgreeInv
<1>. QED
  BY <1>1, <1>2


LEMMA WithStatusCopies ==
    ASSUME TypeOK, NEW s \in Syncs, NEW chosen, NEW st \in Statuses
    PROVE  \A r \in Rules : WithStatus(s, chosen, st)[r] = Absent <=> batch[s][r] = Absent
<1>. SUFFICES ASSUME NEW r \in Rules
              PROVE  WithStatus(s, chosen, st)[r] = Absent <=> batch[s][r] = Absent
  OBVIOUS
<1>1. CASE r \in Copies(s)
  BY <1>1, WithStatusType DEF Copies
<1>2. CASE r \notin Copies(s)
  BY <1>2 DEF WithStatus
<1>. QED
  BY <1>1, <1>2

LEMMA SkipFirewallAgrees ==
    ASSUME TypeOK, AgreeInv, Undisturbed, NEW s \in Syncs, SkipFirewall(s)
    PROVE  AgreeInv'
<1>1. ~pushed'[s] /\ rules' = rules /\ pc[s] = "describe"
  BY DEF SkipFirewall, TypeOK, tableVars
<1>2. WriteStatuses(s, batch[s])
  BY DEF SkipFirewall
<1>. QED
  BY <1>1, <1>2, WriteStatusesAgrees

LEMMA DescribeRuleGroupAgrees ==
    ASSUME TypeOK, AgreeInv, Undisturbed, NEW s \in Syncs, DescribeRuleGroup(s)
    PROVE  AgreeInv'
<1>1. \A q \in Syncs : q = s
  BY DEF Undisturbed
<1>2. /\ pc[s] = "describe" /\ pc'[s] = "update"
      /\ UNCHANGED <<rules, todo, batch, pushed>>
  BY DEF DescribeRuleGroup, tableVars, TypeOK
<1>3. ~pushed[s]
  BY <1>2 DEF AgreeInv, FirewallIsBatch
<1>. QED
  BY <1>1, <1>2, <1>3 DEF AgreeInv, AllRead, ActiveIsCopied, FirewallIsBatch, WrittenIsCopy

LEMMA UpdateRejectedAgrees ==
    ASSUME TypeOK, AgreeInv, Undisturbed, NEW s \in Syncs, NEW blamed,
           UpdateRejected(s, blamed)
    PROVE  AgreeInv'
<1>1. PICK failed : WriteStatuses(s, WithStatus(s, failed, "FAILED"))
  BY DEF UpdateRejected
<1>2. /\ ~pushed'[s]
      /\ rules' = rules
      /\ pc[s] \in {"describe", "update"}
  BY DEF UpdateRejected, tableVars, TypeOK
<1>3. "FAILED" \in Statuses
  BY DEF Statuses
<1>. QED
  BY <1>1, <1>2, <1>3, WithStatusCopies, WriteStatusesAgrees

\* ANFW has the texts of the copies that are about to become ACTIVE.
LEMMA UpdateAcceptedAgrees ==
    ASSUME IInv, AgreeInv, Undisturbed, NEW s \in Syncs, UpdateAccepted(s)
    PROVE  AgreeInv'
<1>. DEFINE copies == WithStatus(s, Targets(s), "ACTIVE")
<1>1. TypeOK /\ "ACTIVE" \in Statuses
  BY DEF IInv, Statuses
<1>2. /\ WriteStatuses(s, copies)
      /\ firewall' = Texts(s)
      /\ pc[s] = "update"
      /\ rules' = rules
      /\ pushed'[s] <=> Copies(s) # {}
  BY <1>1 DEF UpdateAccepted, Replace, tableVars, TypeOK
<1>3. \A r \in Rules : copies[r] = Absent <=> batch[s][r] = Absent
  BY <1>1, WithStatusCopies
<1>4. ASSUME Copies(s) # {} PROVE FirewallIsBatch'
  <2>1. \A q \in Syncs : q = s
    BY DEF Undisturbed
  <2>2. pc'[s] = "record" /\ batch'[s] = copies
    BY <1>1, <1>2, <1>4 DEF WriteStatuses, TypeOK
  <2>3. Copies(s)' = Copies(s)
    BY <1>3, <2>2 DEF Copies
  <2>4. ASSUME NEW r \in Copies(s)
        PROVE  /\ batch'[s][r].status = IF r \in Targets(s) THEN "ACTIVE" ELSE "FAILED"
               /\ batch'[s][r].spec = batch[s][r].spec
    <3>1. r \in Rules /\ batch[s][r] \in Entry
      BY <1>1 DEF Copies, TypeOK
    <3>2. CASE r \in Targets(s)
      BY <2>2, <3>1, <3>2 DEF WithStatus, Entry
    <3>3. CASE r \notin Targets(s)
      BY <2>2, <3>1, <3>3 DEF WithStatus, Targets
    <3>. QED
      BY <3>2, <3>3
  <2>5. {q \in Copies(s) : batch'[s][q].status = "ACTIVE"} = Targets(s)
    BY <2>4 DEF Targets
  <2>6. firewall' = {[rule |-> r, spec |-> batch[s][r].spec] : r \in Targets(s)}
    BY <1>2, <1>4 DEF Texts
  <2>7. firewall' = {[rule |-> r, spec |-> batch'[s][r].spec] : r \in Targets(s)}
    <3>1. Targets(s) \subseteq Copies(s)
      BY DEF Targets
    <3>2. \A r \in Targets(s) : [rule |-> r, spec |-> batch'[s][r].spec]
                                  = [rule |-> r, spec |-> batch[s][r].spec]
      BY <2>4, <3>1
    <3>. QED
      BY <2>6, <3>2
  <2>. QED
    BY <2>1, <2>2, <2>3, <2>4, <2>5, <2>7 DEF FirewallIsBatch
<1>. QED
  BY <1>1, <1>2, <1>3, <1>4, WriteStatusesAgrees

\* What RecordStatus stores: the status of the copy on the item it was made of.
LEMMA RecordedItem ==
    ASSUME IInv, NEW s \in Syncs, NEW r \in Rules, RecordStatus(s, r)
    PROVE  /\ r \in Copies(s)
           /\ rules'[r] \in history'[r]
           /\ rules'[r].version = batch[s][r].version + 1
           /\ rules'[r].spec = batch[s][r].spec
           /\ rules'[r].status = batch[s][r].status
           /\ \A q \in Rules : history[q] \subseteq history'[q]
           /\ \A q \in Rules \ {r} : rules'[q] = rules[q]
<1>. DEFINE e == batch[s][r]
            item == [rules[r] EXCEPT !.status = e.status, !.version = e.version + 1]
<1>1. r \in Copies(s) /\ e \in Entry
  BY DEF RecordStatus, IInv, TypeOK, Copies
<1>2. PICK i \in history[r] : TracedTo(e, i, r)
  BY <1>1 DEF IInv, CopiesTraced
<1>3. rules[r] = i /\ i \in Item
  BY <1>2, SameVersionIsCurrent DEF IInv, RecordStatus, SameVersion, TracedTo, TypeOK
<1>4. e.status \in Statuses /\ e.version + 1 \in Nat
  BY <1>1 DEF Entry
<1>5. item.status = e.status /\ item.version = e.version + 1 /\ item.spec = i.spec
  BY <1>3, <1>4 DEF Item
<1>6. Store(r, item)
  BY DEF RecordStatus
<1>7. /\ rules'[r] = item /\ item \in history'[r]
      /\ \A q \in Rules \ {r} : rules'[q] = rules[q]
  BY <1>6 DEF Store, IInv, TypeOK
<1>8. \A q \in Rules : history[q] \subseteq history'[q]
  BY <1>6, StoreGrows DEF IInv
<1>9. e.spec = i.spec
  BY <1>2 DEF TracedTo
<1>. QED
  BY <1>1, <1>5, <1>7, <1>8, <1>9

LEMMA RecordStatusAgrees ==
    ASSUME IInv, AgreeInv, Undisturbed, NEW s \in Syncs, NEW r \in Rules, RecordStatus(s, r)
    PROVE  AgreeInv'
<1>1. CASE unwritten[s] = {r}
  BY <1>1, EndAgrees DEF RecordStatus, IInv
<1>2. CASE unwritten[s] # {r}
  <2>1. \A q \in Syncs : q = s
    BY DEF Undisturbed
  <2>2. /\ unwritten' = [unwritten EXCEPT ![s] = @ \ {r}]
        /\ UNCHANGED <<pc, todo, batch, pushed, firewall>>
        /\ pc[s] = "record"
    BY <1>2 DEF RecordStatus, firewallVars
  <2>3. r \in Copies(s)
    BY RecordedItem
  <2>4. AllRead' /\ FirewallIsBatch'
    BY <2>2 DEF AgreeInv, AllRead, FirewallIsBatch, Copies
  <2>5. ActiveIsCopied'
    <3>1. \A q \in Rules \ {r} : rules'[q] = rules[q]
      BY RecordedItem
    <3>. QED
      BY <2>1, <2>2, <2>3, <3>1 DEF AgreeInv, ActiveIsCopied, Copies
  <2>6. WrittenIsCopy'
    <3>. SUFFICES ASSUME pushed[s], NEW q \in Copies(s) \ unwritten'[s]
                  PROVE  \E j \in history'[q] : /\ j.version = batch[s][q].version + 1
                                                /\ j.spec = batch[s][q].spec
                                                /\ j.status = batch[s][q].status
      BY <2>1, <2>2 DEF WrittenIsCopy, Copies
    <3>1. CASE q = r
      BY <3>1, RecordedItem
    <3>2. CASE q # r
      <4>1. q \in Rules /\ q \notin unwritten[s]
        BY <2>2, <3>2 DEF Copies, IInv, TypeOK
      <4>2. PICK j \in history[q] : /\ j.version = batch[s][q].version + 1
                                    /\ j.spec = batch[s][q].spec
                                    /\ j.status = batch[s][q].status
        BY <4>1 DEF AgreeInv, WrittenIsCopy
      <4>. QED
        BY <4>1, <4>2, RecordedItem
    <3>. QED
      BY <3>1, <3>2
  <2>. QED
    BY <2>4, <2>5, <2>6 DEF AgreeInv
<1>. QED
  BY <1>1, <1>2

LEMMA NextAgrees == IInv /\ AgreeInv /\ Undisturbed /\ [Next]_vars => AgreeInv'
<1>. SUFFICES ASSUME IInv, AgreeInv, Undisturbed, [Next]_vars PROVE AgreeInv'
  OBVIOUS
<1>. USE DEF tableVars, firewallVars, syncVars
<1>1. TypeOK
  BY DEF IInv
<1>2. ASSUME NEW r \in Rules, CreateRule(r) PROVE AgreeInv'
  BY <1>1, <1>2, CreateRuleAgrees
<1>3. ASSUME NEW r \in Rules, DeleteRule(r) PROVE AgreeInv'
  <2>1. \A q \in Rules : rules'[q] \in {rules[q], Absent}
    BY <1>1, <1>3 DEF DeleteRule, TypeOK
  <2>. QED
    BY <1>1, <1>3, <2>1, ClientAgrees DEF DeleteRule
<1>4. ASSUME NEW c \in Clients, NEW r \in Rules, ReadForUpdate(c, r) PROVE AgreeInv'
  BY <1>1, <1>4, ClientAgrees DEF ReadForUpdate
<1>5. ASSUME NEW c \in Clients, WriteUpdate(c) PROVE AgreeInv'
  BY <1>5, WriteUpdateAgrees
<1>6. ASSUME NEW c \in Clients, FailUpdate(c) PROVE AgreeInv'
  BY <1>1, <1>6, ClientAgrees DEF FailUpdate
<1>7. ASSUME NEW s \in Syncs, StartSync(s) PROVE AgreeInv'
  BY <1>1, <1>7, StartSyncAgrees
<1>8. ASSUME NEW s \in Syncs, ReadBundle(s) PROVE AgreeInv'
  BY <1>1, <1>8, ReadBundleAgrees
<1>9. ASSUME NEW s \in Syncs, SkipFirewall(s) PROVE AgreeInv'
  BY <1>1, <1>9, SkipFirewallAgrees
<1>10. ASSUME NEW s \in Syncs, DescribeRuleGroup(s) PROVE AgreeInv'
  BY <1>1, <1>10, DescribeRuleGroupAgrees
<1>11. ASSUME NEW s \in Syncs, UpdateAccepted(s) PROVE AgreeInv'
  BY <1>11, UpdateAcceptedAgrees
<1>12. ASSUME NEW s \in Syncs, NEW blamed, UpdateRejected(s, blamed) PROVE AgreeInv'
  BY <1>1, <1>12, UpdateRejectedAgrees
<1>13. ASSUME NEW s \in Syncs, NEW r \in Rules, RecordStatus(s, r) PROVE AgreeInv'
  BY <1>13, RecordStatusAgrees
<1>14. ASSUME NEW s \in Syncs, UpdateUnanswered(s) \/ FailSync(s) \/ CrashSync(s)
       PROVE  AgreeInv'
  <2>1. PICK code : End(s, code)
    BY <1>14 DEF UpdateUnanswered, FailSync, CrashSync
  <2>. QED
    BY <1>1, <2>1, EndAgrees
<1>15. CASE UNCHANGED vars
  BY <1>1, <1>15, ClientAgrees DEF vars
<1>. QED
  BY <1>2, <1>3, <1>4, <1>5, <1>6, <1>7, <1>8, <1>9, <1>10, <1>11, <1>12, <1>13, <1>14,
     <1>15 DEF Next, SyncNext, ClientNext

LEMMA CompletionAgrees ==
    ASSUME IInv, AgreeInv, Undisturbed, NEW s \in Syncs, [Next]_vars, Completes(s)
    PROVE  AgreesAfter(s)
<1>1. PICK r0 \in Rules : RecordStatus(s, r0)
  <2>1. \A q \in Syncs : q = s
    BY DEF Undisturbed
  <2>2. pc'[s] # pc[s] /\ pc[s] = "record" /\ response'[s] = "200"
    BY DEF Completes
  <2>3. SyncNext(s)
    <3>1. ASSUME NEW c \in Clients, ClientNext(c) PROVE FALSE
      BY <2>2, <3>1 DEF ClientNext, ReadForUpdate, WriteUpdate, FailUpdate, syncVars
    <3>2. ASSUME NEW r \in Rules, CreateRule(r) \/ DeleteRule(r) PROVE FALSE
      BY <2>2, <3>2 DEF CreateRule, DeleteRule, syncVars
    <3>3. pc' # pc
      BY <2>2
    <3>. QED
      BY <2>1, <3>1, <3>2, <3>3 DEF Next, vars
  <2>4. ASSUME NEW code, End(s, code) PROVE code = "200"
    BY <2>2, <2>4 DEF End, IInv, TypeOK
  <2>5. ~UpdateUnanswered(s) /\ ~FailSync(s) /\ ~CrashSync(s)
    BY <2>4 DEF UpdateUnanswered, FailSync, CrashSync
  <2>6. /\ ~StartSync(s) /\ ~ReadBundle(s) /\ ~SkipFirewall(s)
        /\ ~DescribeRuleGroup(s) /\ ~UpdateAccepted(s)
        /\ \A blamed : ~UpdateRejected(s, blamed)
    BY <2>2 DEF StartSync, ReadBundle, SkipFirewall, DescribeRuleGroup, UpdateAccepted,
       UpdateRejected
  <2>. QED
    BY <2>3, <2>5, <2>6 DEF SyncNext
<1>2. unwritten[s] = {r0}
  BY <1>1 DEF RecordStatus, Completes
<1>3. firewall' = firewall /\ todo[s] = {}
  BY <1>1 DEF RecordStatus, firewallVars, AgreeInv, AllRead
<1>. SUFFICES ASSUME NEW r \in Rules, rules'[r] # Absent,
                     batch[s][r] # Absent => rules'[r].version = batch[s][r].version + 1
              PROVE  rules'[r].status = "ACTIVE"
                        <=> [rule |-> r, spec |-> rules'[r].spec] \in firewall
  BY <1>3 DEF AgreesAfter
<1>. DEFINE Active == {q \in Copies(s) : batch[s][q].status = "ACTIVE"}
<1>4. firewall = {[rule |-> q, spec |-> batch[s][q].spec] : q \in Active}
  BY DEF Completes, AgreeInv, FirewallIsBatch
<1>5. CASE r \in Copies(s)
  <2>1. rules'[r].spec = batch[s][r].spec /\ rules'[r].status = batch[s][r].status
    <3>1. CASE r = r0
      BY <1>1, <3>1, RecordedItem
    <3>2. CASE r # r0
      <4>1. PICK j \in history[r] : /\ j.version = batch[s][r].version + 1
                                    /\ j.spec = batch[s][r].spec
                                    /\ j.status = batch[s][r].status
        BY <1>2, <1>5, <3>2 DEF Completes, AgreeInv, WrittenIsCopy
      <4>2. rules'[r] = rules[r]
        BY <1>1, <3>2, RecordedItem
      <4>3. rules[r] \in history[r] /\ rules[r].version = j.version
        BY <1>5, <4>1, <4>2 DEF IInv, CurrentIsNewest, Copies
      <4>4. rules[r] = j
        BY <4>1, <4>3 DEF IInv, VersionIdentifiesItem
      <4>. QED
        BY <4>1, <4>2, <4>4
    <3>. QED
      BY <3>1, <3>2
  <2>2. r \in Active <=> rules'[r].status = "ACTIVE"
    BY <1>5, <2>1
  <2>3. [rule |-> r, spec |-> batch[s][r].spec] \in firewall <=> r \in Active
    BY <1>4
  <2>. QED
    BY <2>1, <2>2, <2>3
<1>6. CASE r \notin Copies(s)
  <2>1. r # r0
    BY <1>1, <1>6, RecordedItem
  <2>2. rules'[r] = rules[r] /\ batch[s][r] = Absent
    BY <1>1, <1>6, <2>1, RecordedItem DEF Copies
  <2>3. rules[r].status # "ACTIVE"
    BY <1>3, <2>2 DEF Completes, AgreeInv, ActiveIsCopied
  <2>4. \A t \in firewall : t.rule # r
    BY <1>4, <1>6
  <2>. QED
    BY <2>2, <2>3, <2>4
<1>. QED
  BY <1>5, <1>6

\* Without overlapping invocations, stale reads and partial batches, a
\* complete invocation leaves the rules table and the rule group in agreement
\* on every rule that was not edited meanwhile, for any number of rules,
\* bundles and clients.
THEOREM CompletedSyncsAgree == ASSUME Undisturbed PROVE Spec => CompletedSyncAgrees
<1>1. Init => AgreeInv
  BY InitAgrees
<1>2. IInv /\ AgreeInv /\ [Next]_vars => AgreeInv'
  BY NextAgrees
<1>3. IInv /\ AgreeInv /\ [Next]_vars => \A s \in Syncs : Completes(s) => AgreesAfter(s)
  BY CompletionAgrees
<1>4. IInv /\ AgreeInv /\ [Next]_vars => [\A s \in Syncs : Completes(s) => AgreesAfter(s)]_vars
  BY <1>3
<1>. QED
  BY <1>1, <1>2, <1>4, Invariance, PTL DEF Spec, CompletedSyncAgrees

=============================================================================
