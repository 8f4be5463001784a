--------------------------- MODULE ConfigApiProofs ---------------------------
(***************************************************************************)
(* Proofs about ConfigApi, for every number of requests, objects, bundles  *)
(* and rules, whatever reads return.                                       *)
(***************************************************************************)
EXTENDS ConfigApi, TLAPS

-----------------------------------------------------------------------------
(* Type correctness.                                                       *)

LEMMA NewItemType ==
    ASSUME NEW c \in Call
    PROVE  /\ NewItem(c) \in Item
           /\ NewItem(c).bundle = c.bundle
           /\ NewItem(c).spec = c.spec
           /\ NewItem(c).failed = FALSE
BY DEF Call, Item, NewItem

LEMMA EditedItemType ==
    ASSUME NEW item \in Item, NEW spec \in Specs
    PROVE  /\ EditedItem(item, spec) \in Item
           /\ EditedItem(item, spec).bundle = item.bundle
           /\ EditedItem(item, spec).spec = spec
           /\ EditedItem(item, spec).failed = item.failed
BY DEF Item, EditedItem

LEMMA FailedItemType ==
    ASSUME NEW item \in Item
    PROVE  /\ FailedItem(item) \in Item
           /\ FailedItem(item).bundle = item.bundle
           /\ FailedItem(item).spec = item.spec
           /\ FailedItem(item).failed = TRUE
BY DEF Item, FailedItem

LEMMA CallType ==
    ASSUME TypeOK, NEW q \in Requests
    PROVE  /\ call[q] \in Call
           /\ call[q].op \in Ops
           /\ call[q].user \in Users
           /\ call[q].object \in Objects
           /\ call[q].bundle \in Bundles
           /\ call[q].owners \in Ownerships
           /\ call[q].rule \in Rules
           /\ call[q].spec \in Specs
<1>1. call[q] \in Call
  BY CallsAssumption DEF TypeOK
<1>. QED
  BY <1>1 DEF Call

LEMMA ItemType ==
    ASSUME TypeOK, NEW r \in Rules, Exists(r)
    PROVE  /\ rules[r] \in Item
           /\ rules[r].version \in Nat
BY DEF TypeOK, Exists, Item

\* The variables that say how far the requests are.
ControlOK ==
    /\ pc \in [Requests -> Steps]
    /\ answer \in [Requests -> {"none", "ok", "refused", "error"}]
    /\ late \in [Requests -> BOOLEAN]
    /\ \A q \in Requests : late[q] => answer[q] \in {"refused", "error"}

\* What the requests other than q are left with.
OthersStay(q) ==
    \A p \in Requests \ {q} :
        pc'[p] = pc[p] /\ answer'[p] = answer[p] /\ late'[p] = late[p]

LEMMA GotoControl ==
    ASSUME ControlOK, NEW q \in Requests, NEW step \in Steps, Goto(q, step)
    PROVE  /\ ControlOK'
           /\ OthersStay(q)
           /\ pc'[q] = step
           /\ answer'[q] = answer[q]
           /\ late'[q] = late[q]
BY DEF ControlOK, OthersStay, Goto

LEMMA AnswerControl ==
    ASSUME ControlOK, NEW q \in Requests, NEW class \in {"ok", "refused", "error"},
           NEW unwaited \in BOOLEAN, unwaited => class # "ok", Answer(q, class, unwaited)
    PROVE  /\ ControlOK'
           /\ OthersStay(q)
           /\ pc'[q] = "done"
           /\ answer'[q] = class
           /\ late'[q] = unwaited
<1>1. "done" \in Steps
  BY DEF Steps
<1>. QED
  BY <1>1 DEF ControlOK, OthersStay, Answer

LEMMA TroubleControl ==
    ASSUME ControlOK, NEW q \in Requests, Trouble(q)
    PROVE  /\ ControlOK'
           /\ OthersStay(q)
           /\ \/ /\ call[q].op = "updateObject" /\ pc[q] # "reject"
                 /\ pc'[q] = "reject" /\ answer'[q] = answer[q] /\ late'[q] = late[q]
              \/ /\ call[q].op = "updateObject" => pc[q] = "reject"
                 /\ pc'[q] = "done" /\ answer'[q] = "error"
<1>1. CASE call[q].op = "updateObject" /\ pc[q] # "reject"
  <2>1. Goto(q, "reject")
    BY <1>1 DEF Trouble
  <2>2. "reject" \in Steps
    BY DEF Steps
  <2>. QED
    BY <1>1, <2>1, <2>2, GotoControl
<1>2. CASE ~(call[q].op = "updateObject" /\ pc[q] # "reject")
  <2>1. Answer(q, "error", Caught(call[q].op, pc[q]))
    BY <1>2 DEF Trouble
  <2>2. Caught(call[q].op, pc[q]) \in BOOLEAN
    BY DEF Caught
  <2>. QED
    BY <1>2, <2>1, <2>2, AnswerControl
<1>. QED
  BY <1>1, <1>2

LEMMA AfterWriteControl ==
    ASSUME ControlOK, NEW q \in Requests, AfterWrite(q)
    PROVE  /\ ControlOK'
           /\ OthersStay(q)
           /\ \/ /\ call[q].op \in BundleOps
                 /\ pc'[q] = "done" /\ answer'[q] = "ok" /\ late'[q] = FALSE
              \/ /\ call[q].op \notin BundleOps
                 /\ pc'[q] = "audit" /\ answer'[q] = answer[q] /\ late'[q] = late[q]
<1>1. CASE call[q].op \in BundleOps
  <2>1. Answer(q, "ok", FALSE)
    BY <1>1 DEF AfterWrite
  <2>. QED
    BY <1>1, <2>1, AnswerControl
<1>2. CASE call[q].op \notin BundleOps
  <2>1. Goto(q, "audit")
    BY <1>2 DEF AfterWrite
  <2>2. "audit" \in Steps
    BY DEF Steps
  <2>. QED
    BY <1>2, <2>1, <2>2, GotoControl
<1>. QED
  BY <1>1, <1>2

\* The steps of a handler up to its write.
Before == Steps \ {"idle", "audit", "reject", "done"}

\* The steps that only read, as the invariants see them.
Reads(q) ==
    \/ LookupObject(q) \/ RereadObject(q) \/ ScanReferences(q)
    \/ LookupBundle(q) \/ ScanBundle(q)
    \/ FindBundle(q) \/ FindSource(q) \/ FindDestination(q)
    \/ ReadRule(q) \/ CheckAccess(q)

Continues(q) ==
    /\ ControlOK' /\ OthersStay(q)
    /\ pc'[q] \in Before /\ answer'[q] = answer[q] /\ late'[q] = late[q]

Refuses(q) ==
    /\ ControlOK' /\ OthersStay(q)
    /\ pc'[q] = "done" /\ answer'[q] = "refused"

\* DeleteRule did not find its rule.
Regrets(q) ==
    /\ call[q].op = "deleteRule"
    /\ ControlOK' /\ OthersStay(q)
    /\ pc'[q] = "reject" /\ answer'[q] = answer[q] /\ late'[q] = late[q]

Outcome(q) == Continues(q) \/ Refuses(q) \/ Trouble(q) \/ Regrets(q)

LEMMA GotoOutcome ==
    ASSUME ControlOK, NEW q \in Requests, NEW step \in Before, Goto(q, step)
    PROVE  Continues(q)
<1>1. step \in Steps
  BY DEF Before
<1>. QED
  BY <1>1, GotoControl DEF Continues

LEMMA AnswerOutcome ==
    ASSUME ControlOK, NEW q \in Requests, NEW unwaited \in BOOLEAN,
           Answer(q, "refused", unwaited)
    PROVE  Refuses(q)
BY AnswerControl DEF Refuses

LEMMA BeforeMembers ==
    /\ {"lookup", "reread", "scan", "bundle", "source", "destination", "access",
        "read", "write"} \subseteq Before
    /\ "reject" \in Steps
BY DEF Before, Steps

LEMMA ReadOutcome ==
    ASSUME ControlOK, NEW q \in Requests, Reads(q)
    PROVE pc[q] \in Before /\ Outcome(q)
<1>. USE BeforeMembers DEF Outcome
<1>1. ASSUME LookupObject(q) PROVE pc[q] \in Before /\ Outcome(q)
  <2>1. \/ Answer(q, "refused", TRUE) \/ Answer(q, "refused", FALSE)
        \/ Goto(q, "write") \/ Goto(q, "reread") \/ Goto(q, "scan")
    BY <1>1 DEF LookupObject
  <2>. QED
    BY <1>1, <2>1, GotoOutcome, AnswerOutcome DEF LookupObject
<1>2. ASSUME RereadObject(q) PROVE pc[q] \in Before /\ Outcome(q)
  BY <1>2, GotoOutcome DEF RereadObject
<1>3. ASSUME ScanReferences(q) PROVE pc[q] \in Before /\ Outcome(q)
  BY <1>3, GotoOutcome, AnswerOutcome DEF ScanReferences
<1>4. ASSUME LookupBundle(q) PROVE pc[q] \in Before /\ Outcome(q)
  <2>1. Goto(q, "write") \/ Answer(q, "refused", FALSE) \/ Trouble(q)
    BY <1>4 DEF LookupBundle
  <2>. QED
    BY <1>4, <2>1, GotoOutcome, AnswerOutcome DEF LookupBundle
<1>5. ASSUME ScanBundle(q) PROVE pc[q] \in Before /\ Outcome(q)
  BY <1>5, GotoOutcome, AnswerOutcome DEF ScanBundle
<1>6. ASSUME FindBundle(q) PROVE pc[q] \in Before /\ Outcome(q)
  BY <1>6, GotoOutcome, AnswerOutcome DEF FindBundle
<1>7. ASSUME FindSource(q) PROVE pc[q] \in Before /\ Outcome(q)
  BY <1>7, GotoOutcome, AnswerOutcome DEF FindSource, FindEnd
<1>8. ASSUME FindDestination(q) PROVE pc[q] \in Before /\ Outcome(q)
  BY <1>8, GotoOutcome, AnswerOutcome DEF FindDestination, FindEnd
<1>9. ASSUME ReadRule(q) PROVE pc[q] \in Before /\ Outcome(q)
  <2>1. Goto(q, "access") \/ Goto(q, "write") \/ Answer(q, "refused", FALSE)
    BY <1>9 DEF ReadRule
  <2>. QED
    BY <1>9, <2>1, GotoOutcome, AnswerOutcome DEF ReadRule
<1>10. ASSUME CheckAccess(q) PROVE pc[q] \in Before /\ Outcome(q)
  <2>1. \/ Answer(q, "refused", FALSE) \/ Goto(q, "write") \/ Goto(q, "read")
        \/ call[q].op = "deleteRule" /\ Goto(q, "reject")
    BY <1>10 DEF CheckAccess, RuleOps
  <2>2. ASSUME call[q].op = "deleteRule", Goto(q, "reject") PROVE Regrets(q)
    BY <2>2, GotoControl DEF Regrets
  <2>. QED
    BY <1>10, <2>1, <2>2, GotoOutcome, AnswerOutcome DEF CheckAccess
<1>. QED
  BY <1>1, <1>2, <1>3, <1>4, <1>5, <1>6, <1>7, <1>8, <1>9, <1>10 DEF Reads

\* What a step does to the flag of the request, and to the others.
MisledGrows(q) ==
    /\ misled' \in [Requests -> BOOLEAN]
    /\ \A p \in Requests : misled[p] => misled'[p]
    /\ \A p \in Requests \ {q} : misled'[p] = misled[p]

LEMMA NoteFacts ==
    ASSUME TypeOK, NEW q \in Requests, NEW wrong \in BOOLEAN, Note(q, wrong)
    PROVE  MisledGrows(q) /\ (wrong => misled'[q])
BY DEF TypeOK, Note, MisledGrows

LEMMA ControlOfType == TypeOK => ControlOK
BY DEF TypeOK, ControlOK

LEMMA ReadFrame ==
    ASSUME TypeOK, NEW q \in Requests, Reads(q)
    PROVE  /\ UNCHANGED <<objects, bundles, rules, call, audits, effect, met, owned>>
           /\ MisledGrows(q)
           /\ seen' \in [Requests -> Nat \cup {Absent}]
<1>. USE DEF tableVars
<1>1. ASSUME UNCHANGED <<tableVars, call, seen, audits, effect, met, owned>>,
             NEW wrong \in BOOLEAN, Note(q, wrong)
      PROVE  /\ UNCHANGED <<objects, bundles, rules, call, audits, effect, met, owned>>
             /\ MisledGrows(q)
             /\ seen' \in [Requests -> Nat \cup {Absent}]
  BY <1>1, NoteFacts DEF TypeOK
<1>2. CASE LookupObject(q)
  <2>1. PICK present : Note(q, present # ObjectExists(q))
    BY <1>2 DEF LookupObject
  <2>. QED
    BY <1>1, <1>2, <2>1 DEF LookupObject
<1>3. CASE RereadObject(q)
  <2>1. PICK present : Note(q, present # ObjectExists(q))
    BY <1>3 DEF RereadObject
  <2>. QED
    BY <1>1, <1>3, <2>1 DEF RereadObject
<1>4. CASE ScanReferences(q)
  <2>1. PICK found : Note(q, found # References(call[q].object))
    BY <1>4 DEF ScanReferences
  <2>. QED
    BY <1>1, <1>4, <2>1 DEF ScanReferences
<1>5. CASE LookupBundle(q)
  <2>1. PICK owners : Note(q, owners # bundles[call[q].bundle])
    BY <1>5 DEF LookupBundle
  <2>. QED
    BY <1>1, <1>5, <2>1 DEF LookupBundle
<1>6. CASE ScanBundle(q)
  <2>1. PICK found : Note(q, found # {r \in Rules : Fills(r, call[q].bundle)})
    BY <1>6 DEF ScanBundle
  <2>. QED
    BY <1>1, <1>6, <2>1 DEF ScanBundle
<1>7. CASE FindBundle(q)
  <2>1. PICK owners : Note(q, owners # bundles[call[q].bundle])
    BY <1>7 DEF FindBundle
  <2>. QED
    BY <1>1, <1>7, <2>1 DEF FindBundle
<1>8. ASSUME NEW step, NEW object, NEW next, FindEnd(q, step, object, next)
      PROVE  /\ UNCHANGED <<objects, bundles, rules, call, audits, effect, met, owned>>
             /\ MisledGrows(q)
             /\ seen' \in [Requests -> Nat \cup {Absent}]
  <2>1. PICK present : Note(q, present # (object \in objects))
    BY <1>8 DEF FindEnd
  <2>. QED
    BY <1>1, <1>8, <2>1 DEF FindEnd
<1>9. CASE ReadRule(q)
  <2>1. PICK version \in SeenVersion(call[q].rule) :
           /\ seen' = [seen EXCEPT ![q] = version]
           /\ Note(q, version # Version(call[q].rule))
    BY <1>9 DEF ReadRule
  <2>2. call[q].rule \in Rules
    BY CallType
  <2>3. Version(call[q].rule) \in Nat \cup {Absent}
    BY <2>2, ItemType DEF Version
  <2>4. Exists(call[q].rule) => 0 .. rules[call[q].rule].version \subseteq Nat
    BY <2>2, ItemType
  <2>5. version \in Nat \cup {Absent}
    BY <2>1, <2>3, <2>4 DEF SeenVersion
  <2>6. seen' \in [Requests -> Nat \cup {Absent}]
    BY <2>1, <2>5 DEF TypeOK
  <2>7. MisledGrows(q)
    BY <2>1, NoteFacts
  <2>. QED
    BY <1>9, <2>6, <2>7 DEF ReadRule
<1>10. CASE CheckAccess(q)
  <2>1. PICK owners : Note(q, owners # bundles[call[q].bundle])
    BY <1>10 DEF CheckAccess
  <2>. QED
    BY <1>1, <1>10, <2>1 DEF CheckAccess
<1>. QED
  BY <1>2, <1>3, <1>4, <1>5, <1>6, <1>7, <1>8, <1>9, <1>10
     DEF Reads, FindSource, FindDestination

LEMMA InitTypeOK == Init => TypeOK
<1>. SUFFICES ASSUME Init PROVE TypeOK
  OBVIOUS
<1>1. [bundle: Bundles, spec: Specs, failed: BOOLEAN, version: {0}] \subseteq Item
  BY DEF Item
<1>2. rules \in [Rules -> Item \cup {Absent}]
  BY <1>1 DEF Init
<1>. QED
  BY <1>2 DEF Init, TypeOK, Steps

LEMMA FirstStepMember ==
    ASSUME NEW op \in Ops PROVE FirstStep(op) \in Before
BY DEF Ops, ObjectOps, BundleOps, RuleOps, FirstStep, Before, Steps

\* The tables after a write.
LEMMA ApplyType ==
    ASSUME TypeOK, NEW q \in Requests, Condition(q), Apply(call[q])
    PROVE  /\ objects' \subseteq Objects
           /\ bundles' \in [Bundles -> Ownerships \cup {Absent}]
           /\ rules' \in [Rules -> Item \cup {Absent}]
<1>. DEFINE c == call[q]
<1>. USE CallType DEF tableVars
<1>1. CASE c.op = "createObject"
  BY <1>1 DEF Apply, TypeOK
<1>2. CASE c.op = "updateObject"
  BY <1>2 DEF Apply, TypeOK
<1>3. CASE c.op = "deleteObject"
  BY <1>3 DEF Apply, TypeOK
<1>4. CASE c.op \in {"createBundle", "updateBundle"}
  BY <1>4 DEF Apply, TypeOK
<1>5. CASE c.op = "deleteBundle"
  BY <1>5 DEF Apply, TypeOK
<1>6. CASE c.op = "createRule"
  <2>1. NewItem(c) \in Item
    BY NewItemType
  <2>2. /\ rules' = [rules EXCEPT ![c.rule] = NewItem(c)]
        /\ UNCHANGED <<objects, bundles>>
    BY <1>6 DEF Apply
  <2>. QED
    BY <2>1, <2>2 DEF TypeOK
<1>7. CASE c.op = "updateRule"
  <2>1. Exists(c.rule)
    BY <1>7 DEF Condition
  <2>2. EditedItem(rules[c.rule], c.spec) \in Item
    BY <2>1, ItemType, EditedItemType
  <2>3. /\ rules' = [rules EXCEPT ![c.rule] = EditedItem(rules[c.rule], c.spec)]
        /\ UNCHANGED <<objects, bundles>>
    BY <1>7 DEF Apply
  <2>. QED
    BY <2>2, <2>3 DEF TypeOK
<1>8. CASE c.op = "deleteRule"
  BY <1>8 DEF Apply, TypeOK
<1>. QED
  BY <1>1, <1>2, <1>3, <1>4, <1>5, <1>6, <1>7, <1>8
     DEF Ops, ObjectOps, BundleOps, RuleOps

LEMMA BeginType ==
    ASSUME TypeOK, NEW q \in Requests, Begin(q)
    PROVE  TypeOK'
<1>1. FirstStep(call[q].op) \in Steps
  BY CallType, FirstStepMember DEF Before
<1>2. pc' \in [Requests -> Steps]
  BY <1>1 DEF Begin, TypeOK
<1>3. met' \in [Requests -> SUBSET Requests]
  BY DEF Begin, TypeOK
<1>4. Owns(q) \in BOOLEAN
  BY DEF Owns, BundleExists
<1>5. owned' \in [Requests -> BOOLEAN]
  BY <1>4 DEF Begin, TypeOK
<1>. QED
  BY <1>2, <1>3, <1>5 DEF Begin, TypeOK, tableVars

\* The write of a request, as the invariants see it.
LEMMA WriteFrame ==
    ASSUME TypeOK, NEW q \in Requests, Write(q)
    PROVE  /\ UNCHANGED <<call, seen, audits, misled, met>>
           /\ Condition(q) /\ Apply(call[q])
           /\ effect' \in [Requests -> BOOLEAN]
           /\ effect'[q] /\ \A p \in Requests \ {q} : effect'[p] = effect[p]
           /\ owned' \in [Requests -> BOOLEAN]
           /\ \A p \in Requests : owned'[p] <=> owned[p] \/ (Active(p) /\ Owns(p)')
           /\ AfterWrite(q) \/ Trouble(q)
<1>1. \A p \in Requests : Owns(p)' \in BOOLEAN
  BY DEF Owns, BundleExists
<1>2. \A p \in Requests : (owned[p] \/ (Active(p) /\ Owns(p)')) \in BOOLEAN
  OBVIOUS
<1>3. owned' = [p \in Requests |-> owned[p] \/ (Active(p) /\ Owns(p)')]
  BY DEF Write
<1>4. owned' \in [Requests -> BOOLEAN]
  BY <1>2, <1>3
<1>5. \A p \in Requests : owned'[p] <=> owned[p] \/ (Active(p) /\ Owns(p)')
  BY <1>3
<1>6. effect' \in [Requests -> BOOLEAN] /\ effect'[q]
      /\ \A p \in Requests \ {q} : effect'[p] = effect[p]
  BY DEF Write, TypeOK
<1>. QED
  BY <1>4, <1>5, <1>6 DEF Write

\* The steps that touch neither the tables nor the history variables.
Rests(q) ==
    \/ Refuse(q) \/ WriteRefused(q) \/ AuditSuccess(q) \/ AuditRejected(q)
    \/ AuditLate(q) \/ Fail(q) \/ Crash(q)

LEMMA RestFrame ==
    ASSUME TypeOK, NEW q \in Requests, Rests(q)
    PROVE  /\ UNCHANGED <<objects, bundles, rules, call, seen, effect, misled, met, owned>>
           /\ ControlOK' /\ OthersStay(q)
           /\ audits' \in [Requests -> SUBSET {"SUCCESS", "REJECTED"}]
           /\ \A p \in Requests \ {q} : audits'[p] = audits[p]
           /\ pc' = pc \/ (pc[q] # "idle" /\ pc'[q] \in {"reject", "done"})
<1>. USE ControlOfType DEF tableVars, historyVars
<1>1. CASE Refuse(q)
  <2>1. FirstStep(call[q].op) # "idle"
    BY CallType, FirstStepMember DEF Before
  <2>2. Answer(q, "refused", FALSE)
    BY <1>1 DEF Refuse
  <2>3. ControlOK' /\ OthersStay(q) /\ pc'[q] = "done"
    BY <2>2, AnswerControl
  <2>. QED
    BY <1>1, <2>1, <2>3 DEF Refuse, TypeOK
<1>2. CASE WriteRefused(q)
  BY <1>2, TroubleControl DEF WriteRefused, TypeOK
<1>3. CASE AuditSuccess(q)
  <2>1. Answer(q, "ok", FALSE) \/ Trouble(q)
    BY <1>3 DEF AuditSuccess
  <2>2. ControlOK' /\ OthersStay(q) /\ pc'[q] \in {"reject", "done"}
    BY <2>1, AnswerControl, TroubleControl
  <2>. QED
    BY <1>3, <2>2 DEF AuditSuccess, TypeOK
<1>4. CASE AuditRejected(q)
  <2>1. \/ Answer(q, "error", FALSE) \/ Answer(q, "refused", FALSE)
    BY <1>4 DEF AuditRejected
  <2>2. ControlOK' /\ OthersStay(q) /\ pc'[q] = "done"
    BY <2>1, AnswerControl
  <2>. QED
    BY <1>4, <2>2 DEF AuditRejected, TypeOK
<1>5. CASE AuditLate(q)
  BY <1>5 DEF AuditLate, TypeOK, ControlOK, OthersStay
<1>6. CASE Fail(q)
  BY <1>6, TroubleControl DEF Fail, TypeOK, Active
<1>7. CASE Crash(q)
  BY <1>7 DEF Crash, TypeOK, Active, ControlOK, OthersStay, Steps
<1>. QED
  BY <1>1, <1>2, <1>3, <1>4, <1>5, <1>6, <1>7 DEF Rests

LEMMA NextTypeOK == TypeOK /\ [Next]_vars => TypeOK'
<1>. SUFFICES ASSUME TypeOK, [Next]_vars PROVE TypeOK'
  OBVIOUS
<1>. USE ControlOfType DEF tableVars, historyVars
<1>1. ASSUME NEW q \in Requests, Reads(q) PROVE TypeOK'
  <2>1. ControlOK'
    BY <1>1, ReadOutcome, TroubleControl DEF Outcome, Continues, Refuses, Regrets
  <2>. QED
    BY <1>1, <2>1, ReadFrame DEF TypeOK, ControlOK, MisledGrows
<1>2. ASSUME NEW q \in Requests, Begin(q) PROVE TypeOK'
  BY <1>2, BeginType
<1>3. ASSUME NEW q \in Requests, Write(q) PROVE TypeOK'
  <2>1. ControlOK'
    BY <1>3, WriteFrame, AfterWriteControl, TroubleControl
  <2>. QED
    BY <1>3, <2>1, WriteFrame, ApplyType DEF TypeOK, ControlOK
<1>4. ASSUME NEW q \in Requests, Rests(q) PROVE TypeOK'
  BY <1>4, RestFrame DEF TypeOK, ControlOK
<1>5. ASSUME NEW r \in Rules, FailRule(r) PROVE TypeOK'
  <2>1. FailedItem(rules[r]) \in Item
    BY <1>5, ItemType, FailedItemType DEF FailRule
  <2>. QED
    BY <1>5, <2>1 DEF FailRule, TypeOK
<1>6. CASE UNCHANGED vars
  BY <1>6 DEF vars, TypeOK
<1>. QED
  BY <1>1, <1>2, <1>3, <1>4, <1>5, <1>6 DEF Next, Step, Reads, Rests

\* The tables, the entries and the answers keep their types.
THEOREM TypeCorrect == Spec => []TypeOK
<1>1. Init => TypeOK
  BY InitTypeOK
<1>2. TypeOK /\ [Next]_vars => TypeOK'
  BY NextTypeOK
<1>. QED
  BY <1>1, <1>2, PTL DEF Spec

-----------------------------------------------------------------------------
(* The audit trail.                                                        *)

\* AuditTrail for one request, with what a handler can rely on at each step:
\* the write has taken effect before its entry, and a handler that waits for a
\* REJECTED entry has changed nothing unless it is UpdateObject.
AuditOf(q) ==
    /\ effect[q] => pc[q] \in {"audit", "reject", "done"}
    /\ pc[q] = "audit" => effect[q] /\ call[q].op \notin BundleOps
    /\ pc[q] = "reject" /\ effect[q] => call[q].op = "updateObject"
    /\ answer[q] # "none" => pc[q] = "done"
    /\ "REJECTED" \in audits[q] => pc[q] = "done" /\ answer[q] \in {"refused", "error"}
    /\ answer[q] = "ok" =>
          effect[q] /\ (call[q].op \in BundleOps \/ "SUCCESS" \in audits[q])
    /\ "SUCCESS" \in audits[q] => effect[q]
    /\ answer[q] = "refused" => ~effect[q]

AuditInv == \A q \in Requests : AuditOf(q)

LEMMA AuditKept ==
    ASSUME NEW p \in Requests, AuditOf(p), call' = call, pc'[p] = pc[p],
           answer'[p] = answer[p], audits'[p] = audits[p], effect'[p] = effect[p]
    PROVE  AuditOf(p)'
BY DEF AuditOf

LEMMA NextAuditInv == TypeOK /\ AuditInv /\ [Next]_vars => AuditInv'
<1>. SUFFICES ASSUME TypeOK, AuditInv, [Next]_vars PROVE AuditInv'
  OBVIOUS
<1>. USE ControlOfType DEF tableVars, historyVars
<1>1. ASSUME NEW q \in Requests, Reads(q) PROVE AuditInv'
  <2>1. pc[q] \in Before /\ Outcome(q)
    BY <1>1, ReadOutcome
  <2>2. UNCHANGED <<call, audits, effect>>
    BY <1>1, ReadFrame
  <2>3. OthersStay(q)
    BY <2>1, TroubleControl DEF Outcome, Continues, Refuses, Regrets
  <2>4. \A p \in Requests \ {q} : AuditOf(p)'
    BY <2>2, <2>3, AuditKept DEF AuditInv, OthersStay
  <2>5. ~effect[q] /\ answer[q] = "none" /\ "REJECTED" \notin audits[q]
    BY <2>1 DEF AuditInv, AuditOf, Before
  <2>6. "SUCCESS" \notin audits[q]
    BY <2>5 DEF AuditInv, AuditOf
  <2>7. /\ pc'[q] \in Before \cup {"reject", "done"}
        /\ answer'[q] \in {"none", "refused", "error"}
        /\ answer'[q] # "none" => pc'[q] = "done"
    BY <2>1, <2>5, TroubleControl DEF Outcome, Continues, Refuses, Regrets, Before
  <2>8. AuditOf(q)'
    BY <2>2, <2>5, <2>6, <2>7 DEF AuditOf, Before
  <2>. QED
    BY <2>4, <2>8 DEF AuditInv
<1>2. ASSUME NEW q \in Requests, Begin(q) PROVE AuditInv'
  <2>1. pc'[q] \in Before
    BY <1>2, CallType, FirstStepMember DEF Begin, TypeOK
  <2>2. \A p \in Requests \ {q} : AuditOf(p)'
    BY <1>2, AuditKept DEF AuditInv, Begin, TypeOK
  <2>3. AuditOf(q)'
    BY <1>2, <2>1 DEF AuditInv, AuditOf, Begin, Before
  <2>. QED
    BY <2>2, <2>3 DEF AuditInv
<1>3. ASSUME NEW q \in Requests, Write(q) PROVE AuditInv'
  <2>1. /\ UNCHANGED <<call, audits>>
        /\ effect'[q] /\ \A p \in Requests \ {q} : effect'[p] = effect[p]
        /\ AfterWrite(q) \/ Trouble(q)
    BY <1>3, WriteFrame
  <2>2. OthersStay(q)
    BY <2>1, AfterWriteControl, TroubleControl
  <2>3. \A p \in Requests \ {q} : AuditOf(p)'
    BY <2>1, <2>2, AuditKept DEF AuditInv, OthersStay
  <2>4. pc[q] = "write" /\ answer[q] = "none" /\ "REJECTED" \notin audits[q]
    BY <1>3 DEF Write, AuditInv, AuditOf
  <2>5. AuditOf(q)'
    BY <2>1, <2>4, AfterWriteControl, TroubleControl DEF AuditOf
  <2>. QED
    BY <2>3, <2>5 DEF AuditInv
<1>4. ASSUME NEW q \in Requests, Rests(q) PROVE AuditInv'
  <2>1. /\ UNCHANGED <<call, effect>> /\ OthersStay(q)
        /\ \A p \in Requests \ {q} : audits'[p] = audits[p]
    BY <1>4, RestFrame
  <2>2. \A p \in Requests \ {q} : AuditOf(p)'
    BY <2>1, AuditKept DEF AuditInv, OthersStay
  <2>3. ASSUME Refuse(q) PROVE AuditOf(q)'
    <3>1. pc[q] \in Before
      BY <2>3, CallType, FirstStepMember, BeforeMembers DEF Refuse
    <3>2. ~effect[q] /\ "REJECTED" \notin audits[q]
      BY <3>1 DEF AuditInv, AuditOf, Before
    <3>3. Answer(q, "refused", FALSE) /\ audits' = audits
      BY <2>3 DEF Refuse
    <3>4. pc'[q] = "done" /\ answer'[q] = "refused"
      BY <3>3, AnswerControl
    <3>. QED
      BY <2>1, <3>2, <3>3, <3>4 DEF AuditInv, AuditOf
  <2>4. ASSUME WriteRefused(q) \/ Fail(q) PROVE AuditOf(q)'
    <3>1. Trouble(q) /\ audits' = audits /\ pc[q] # "done"
      BY <2>4 DEF WriteRefused, Fail, Active
    <3>. QED
      BY <2>1, <3>1, TroubleControl DEF AuditInv, AuditOf
  <2>5. ASSUME AuditSuccess(q) PROVE AuditOf(q)'
    <3>1. /\ pc[q] = "audit"
          /\ audits'[q] = audits[q] \cup {"SUCCESS"}
          /\ Answer(q, "ok", FALSE) \/ Trouble(q)
      BY <2>5 DEF AuditSuccess, TypeOK
    <3>2. effect[q] /\ "REJECTED" \notin audits'[q] /\ answer[q] = "none"
      BY <3>1 DEF AuditInv, AuditOf
    <3>. QED
      BY <2>1, <3>1, <3>2, AnswerControl, TroubleControl DEF AuditOf
  <2>6. ASSUME AuditRejected(q) PROVE AuditOf(q)'
    <3>1. /\ pc[q] = "reject"
          /\ audits'[q] = audits[q] \cup {"REJECTED"}
      BY <2>6 DEF AuditRejected, TypeOK
    <3>2. \/ /\ call[q].op = "updateObject" /\ Answer(q, "error", FALSE)
          \/ /\ call[q].op # "updateObject" /\ Answer(q, "refused", FALSE)
      BY <2>6 DEF AuditRejected
    <3>. QED
      BY <2>1, <3>1, <3>2, AnswerControl DEF AuditInv, AuditOf
  <2>7. ASSUME AuditLate(q) PROVE AuditOf(q)'
    <3>1. /\ audits'[q] = audits[q] \cup {"REJECTED"}
          /\ answer[q] \in {"refused", "error"}
          /\ UNCHANGED <<pc, answer>>
      BY <2>7 DEF AuditLate, TypeOK
    <3>. QED
      BY <2>1, <3>1 DEF AuditInv, AuditOf
  <2>8. ASSUME Crash(q) PROVE AuditOf(q)'
    <3>1. pc[q] # "done" /\ pc'[q] = "done" /\ UNCHANGED <<answer, audits>>
      BY <2>8 DEF Crash, Active, TypeOK
    <3>. QED
      BY <2>1, <3>1 DEF AuditInv, AuditOf
  <2>9. AuditOf(q)'
    BY <1>4, <2>3, <2>4, <2>5, <2>6, <2>7, <2>8 DEF Rests, AuditInv
  <2>. QED
    BY <2>2, <2>9 DEF AuditInv
<1>5. ASSUME NEW r \in Rules, FailRule(r) PROVE AuditInv'
  BY <1>5, AuditKept DEF FailRule, AuditInv
<1>6. CASE UNCHANGED vars
  BY <1>6, AuditKept DEF vars, AuditInv
<1>. QED
  BY <1>1, <1>2, <1>3, <1>4, <1>5, <1>6 DEF Next, Step, Reads, Rests

\* A confirmed change is on record, and the record is true of what was done.
THEOREM AuditsAreTrue == Spec => []AuditTrail
<1>1. Init => AuditInv
  <2>. SUFFICES ASSUME Init, NEW q \in Requests PROVE AuditOf(q)
    BY DEF AuditInv
  <2>1. pc[q] = "idle" /\ answer[q] = "none" /\ audits[q] = {} /\ ~effect[q]
    BY DEF Init
  <2>. QED
    BY <2>1 DEF AuditOf
<1>2. TypeOK /\ AuditInv /\ [Next]_vars => AuditInv'
  BY NextAuditInv
<1>3. AuditInv => AuditTrail
  BY DEF AuditInv, AuditOf, AuditTrail
<1>. QED
  BY <1>1, <1>2, <1>3, TypeCorrect, PTL DEF Spec

-----------------------------------------------------------------------------
(* What a step may never undo.                                             *)

\* The history variables grow, and a request knows of all others that are in
\* progress together with it.
Grows ==
    /\ call' = call
    /\ \A p \in Requests : effect[p] => effect'[p]
    /\ \A p \in Requests : misled[p] => misled'[p]
    /\ \A p \in Requests : pc[p] # "idle" => met[p] \subseteq met'[p]

MetInv == \A p, q \in Requests : p # q /\ Active(p) /\ Active(q) => p \in met[q]

LEMMA NextGrows == TypeOK /\ [Next]_vars => Grows
<1>. SUFFICES ASSUME TypeOK, [Next]_vars PROVE Grows
  OBVIOUS
<1>1. ASSUME NEW q \in Requests, Reads(q) PROVE Grows
  BY <1>1, ReadFrame DEF Grows, MisledGrows
<1>2. ASSUME NEW q \in Requests, Begin(q) PROVE Grows
  <2>1. \A p \in Requests : pc[p] # "idle" => met[p] \subseteq met'[p]
    BY <1>2 DEF Begin
  <2>. QED
    BY <1>2, <2>1 DEF Begin, Grows
<1>3. ASSUME NEW q \in Requests, Write(q) PROVE Grows
  BY <1>3, WriteFrame DEF Grows
<1>4. ASSUME NEW q \in Requests, Rests(q) PROVE Grows
  BY <1>4, RestFrame DEF Grows
<1>5. ASSUME NEW r \in Rules, FailRule(r) PROVE Grows
  BY <1>5 DEF FailRule, historyVars, Grows
<1>6. CASE UNCHANGED vars
  BY <1>6 DEF vars, Grows
<1>. QED
  BY <1>1, <1>2, <1>3, <1>4, <1>5, <1>6 DEF Next, Step, Reads, Rests

\* Only Begin makes a request active.
LEMMA NextActive ==
    ASSUME TypeOK, [Next]_vars, NEW p \in Requests, pc'[p] \notin {"idle", "done"}
    PROVE  Active(p) \/ Begin(p)
<1>. USE ControlOfType
<1>1. ASSUME NEW q \in Requests, Reads(q) PROVE Active(p)
  <2>1. pc[q] \in Before /\ OthersStay(q)
    BY <1>1, ReadOutcome, TroubleControl DEF Outcome, Continues, Refuses, Regrets
  <2>. QED
    BY <2>1 DEF OthersStay, Active, Before
<1>2. ASSUME NEW q \in Requests, Begin(q) PROVE Active(p) \/ Begin(p)
  BY <1>2 DEF Begin, Active, TypeOK
<1>3. ASSUME NEW q \in Requests, Write(q) PROVE Active(p)
  <2>1. OthersStay(q)
    BY <1>3, WriteFrame, AfterWriteControl, TroubleControl
  <2>. QED
    BY <1>3, <2>1 DEF OthersStay, Active, Write
<1>4. ASSUME NEW q \in Requests, Rests(q) PROVE Active(p)
  <2>1. /\ OthersStay(q)
        /\ \/ pc' = pc
           \/ pc[q] # "idle" /\ (pc[q] = "done" => pc'[q] = "done")
    <3>1. ASSUME AuditLate(q) PROVE pc' = pc
      BY <3>1 DEF AuditLate
    <3>2. ASSUME ~AuditLate(q) PROVE pc[q] \notin {"idle", "done"}
      BY <1>4, <3>2, CallType, FirstStepMember, BeforeMembers
         DEF Rests, Refuse, WriteRefused, AuditSuccess, AuditRejected, Fail, Crash, Active,
             Before
    <3>. QED
      BY <1>4, <3>1, <3>2, RestFrame
  <2>. QED
    BY <2>1 DEF OthersStay, Active
<1>5. ASSUME NEW r \in Rules, FailRule(r) PROVE Active(p)
  BY <1>5 DEF FailRule, Active
<1>6. CASE UNCHANGED vars
  BY <1>6 DEF vars, Active
<1>. QED
  BY <1>1, <1>2, <1>3, <1>4, <1>5, <1>6 DEF Next, Step, Reads, Rests

LEMMA NextMetInv == TypeOK /\ MetInv /\ [Next]_vars => MetInv'
<1>. SUFFICES ASSUME TypeOK, MetInv, [Next]_vars,
                     NEW p \in Requests, NEW q \in Requests, p # q,
                     Active(p)', Active(q)'
              PROVE  p \in met'[q]
  BY DEF MetInv
<1>1. Active(p) \/ Begin(p)
  BY NextActive DEF Active
<1>2. Active(q) \/ Begin(q)
  BY NextActive DEF Active
<1>3. CASE Active(p) /\ Active(q)
  BY <1>3, NextGrows DEF MetInv, Grows, Active
<1>4. CASE Active(p) /\ Begin(q)
  BY <1>4 DEF Begin
<1>5. CASE Begin(p) /\ Active(q)
  BY <1>5 DEF Begin
<1>6. CASE Begin(p) /\ Begin(q)
  BY <1>6 DEF Begin, TypeOK, Active
<1>. QED
  BY <1>1, <1>2, <1>3, <1>4, <1>5, <1>6

-----------------------------------------------------------------------------
(* Referential integrity.                                                  *)

\* A deletion that the request w overlapped, or that was misled.
ObjectExcuse(w, o) ==
    \E d \in Requests :
        /\ Did(d, "deleteObject") /\ call[d].object = o
        /\ misled[d] \/ w \in met[d]

BundleExcuse(w, b) ==
    \E d \in Requests :
        /\ Did(d, "deleteBundle") /\ call[d].bundle = b
        /\ misled[d] \/ w \in met[d]

\* Rule r was written by a request that d overlapped.
Written(d, r) == \E w \in Requests : Wrote(w, r) /\ w \in met[d]

\* What a request that writes a rule knows of what the rule names, after the
\* steps that look for it: it is there, or a deletion has overlapped.
WriterInv(w) ==
    call[w].op \in {"createRule", "updateRule"} /\ ~misled[w] =>
        /\ pc[w] \in {"source", "destination", "access", "read", "write"} =>
              bundles[call[w].bundle] # Absent \/ BundleExcuse(w, call[w].bundle)
        /\ pc[w] \in {"destination", "access", "read", "write"} =>
              call[w].spec.source \in objects \/ ObjectExcuse(w, call[w].spec.source)
        /\ pc[w] \in {"access", "read", "write"} =>
              call[w].spec.destination \in objects
              \/ ObjectExcuse(w, call[w].spec.destination)

\* What a deletion knows after it has looked for rules: the rules in its way were
\* written by requests that overlap it.
DeleterInv(d) ==
    ~misled[d] =>
        /\ call[d].op = "deleteObject" /\ pc[d] = "write" =>
              \A r \in Rules : Names(r, call[d].object) => Written(d, r)
        /\ call[d].op = "deleteBundle" /\ pc[d] \in {"lookup", "write"} =>
              \A r \in Rules : Fills(r, call[d].bundle) => Written(d, r)

IntegrityInv ==
    /\ DanglingOnlyByRace
    /\ \A q \in Requests : WriterInv(q) /\ DeleterInv(q)

\* What stays true of the past.
LEMMA PastStays ==
    ASSUME TypeOK, AuditInv, Grows, NEW w \in Requests
    PROVE  /\ \A r \in Rules : Wrote(w, r) => Wrote(w, r)'
           /\ \A r \in Rules : pc[w] # "idle" /\ Written(w, r) => Written(w, r)'
           /\ \A r \in Rules : effect[w] /\ Raced(w, r) => Raced(w, r)'
           /\ \A op \in Ops : Did(w, op) => Did(w, op)'
           /\ \A o \in Objects : ObjectExcuse(w, o) => ObjectExcuse(w, o)'
           /\ \A b \in Bundles : BundleExcuse(w, b) => BundleExcuse(w, b)'
<1>1. \A d \in Requests : effect[d] => pc[d] # "idle"
  BY DEF AuditInv, AuditOf
<1>2. \A d \in Requests, r \in Rules : Wrote(d, r) => Wrote(d, r)'
  BY DEF Grows, Wrote
<1>3. \A d \in Requests, op \in Ops : Did(d, op) => Did(d, op)'
  BY DEF Grows, Did
<1>5. \A r \in Rules : pc[w] # "idle" /\ Written(w, r) => Written(w, r)'
  BY <1>2 DEF Grows, Written
<1>6. \A r \in Rules : effect[w] /\ Raced(w, r) => Raced(w, r)'
  BY <1>1, <1>2 DEF Grows, Raced
<1>7. \A o \in Objects : ObjectExcuse(w, o) => ObjectExcuse(w, o)'
  BY <1>1 DEF Grows, ObjectExcuse, Did
<1>8. \A b \in Bundles : BundleExcuse(w, b) => BundleExcuse(w, b)'
  BY <1>1 DEF Grows, BundleExcuse, Did
<1>. QED
  BY <1>2, <1>3, <1>5, <1>6, <1>7, <1>8

LEMMA MisreadStays ==
    ASSUME Grows, NEW r \in Rules, Misread(r)
    PROVE  Misread(r)'
BY DEF Grows, Misread, Wrote

\* A step that takes away no object and no bundle, and adds no rule and no
\* reference.
Harmless ==
    /\ objects \subseteq objects'
    /\ \A b \in Bundles : bundles[b] # Absent => bundles'[b] # Absent
    /\ \A r \in Rules : Exists(r)' => Exists(r)
    /\ \A r \in Rules, o \in Objects : Names(r, o)' => Names(r, o)
    /\ \A r \in Rules, b \in Bundles : Fills(r, b)' => Fills(r, b)

LEMMA QuietIsHarmless ==
    ASSUME UNCHANGED <<objects, bundles, rules>>
    PROVE  Harmless
BY DEF Harmless, Exists, Names, Fills

\* A request that does not move.
LEMMA WaitingKeeps ==
    ASSUME TypeOK, AuditInv, Grows, IntegrityInv, Harmless,
           NEW p \in Requests, pc'[p] = pc[p]
    PROVE  WriterInv(p)' /\ DeleterInv(p)'
<1>. USE PastStays, CallType
<1>1. call' = call /\ (misled[p] => misled'[p])
  BY DEF Grows
<1>2. WriterInv(p) /\ DeleterInv(p)
  BY DEF IntegrityInv
<1>3. call[p].spec.source \in Objects /\ call[p].spec.destination \in Objects
  BY SpecsAssumption
<1>4. WriterInv(p)'
  BY <1>1, <1>2, <1>3 DEF WriterInv, Harmless
<1>5. \A r \in Rules, o \in Objects : Names(r, o)' => Names(r, o)
  BY DEF Harmless
<1>6. \A r \in Rules, b \in Bundles : Fills(r, b)' => Fills(r, b)
  BY DEF Harmless
<1>7. DeleterInv(p)'
  BY <1>1, <1>2, <1>5, <1>6 DEF DeleterInv
<1>. QED
  BY <1>4, <1>7

\* DanglingOnlyByRace for one rule.
Integral(r) ==
    Exists(r) /\ ~Misread(r) =>
        /\ \A o \in Objects : Names(r, o) /\ o \notin objects =>
              \E d \in Requests :
                  Did(d, "deleteObject") /\ call[d].object = o /\ Raced(d, r)
        /\ \A b \in Bundles : Fills(r, b) /\ bundles[b] = Absent =>
              \E d \in Requests :
                  Did(d, "deleteBundle") /\ call[d].bundle = b /\ Raced(d, r)

LEMMA ObjectExcuseKept ==
    ASSUME TypeOK, AuditInv, Grows, IntegrityInv, NEW r \in Rules, NEW o \in Objects,
           Exists(r), ~Misread(r)', Names(r, o), o \notin objects
    PROVE  \E d \in Requests :
              Did(d, "deleteObject")' /\ call'[d].object = o /\ Raced(d, r)'
<1>1. ~Misread(r) /\ call' = call
  BY MisreadStays DEF Grows
<1>2. PICK d \in Requests : Did(d, "deleteObject") /\ call[d].object = o /\ Raced(d, r)
  BY <1>1 DEF IntegrityInv, DanglingOnlyByRace
<1>3. Did(d, "deleteObject")' /\ Raced(d, r)'
  BY <1>2, PastStays DEF Did, Ops, ObjectOps
<1>. QED
  BY <1>1, <1>2, <1>3

LEMMA BundleExcuseKept ==
    ASSUME TypeOK, AuditInv, Grows, IntegrityInv, NEW r \in Rules, NEW b \in Bundles,
           Exists(r), ~Misread(r)', Fills(r, b), bundles[b] = Absent
    PROVE  \E d \in Requests :
              Did(d, "deleteBundle")' /\ call'[d].bundle = b /\ Raced(d, r)'
<1>1. ~Misread(r) /\ call' = call
  BY MisreadStays DEF Grows
<1>2. PICK d \in Requests : Did(d, "deleteBundle") /\ call[d].bundle = b /\ Raced(d, r)
  BY <1>1 DEF IntegrityInv, DanglingOnlyByRace
<1>3. Did(d, "deleteBundle")' /\ Raced(d, r)'
  BY <1>2, PastStays DEF Did, Ops, BundleOps
<1>. QED
  BY <1>1, <1>2, <1>3

LEMMA DanglingKept ==
    ASSUME TypeOK, AuditInv, Grows, IntegrityInv, Harmless
    PROVE  DanglingOnlyByRace'
<1>1. ASSUME NEW r \in Rules, Exists(r)', ~Misread(r)', NEW o \in Objects,
             Names(r, o)', o \notin objects'
      PROVE  \E d \in Requests :
                Did(d, "deleteObject")' /\ call'[d].object = o /\ Raced(d, r)'
  BY <1>1, ObjectExcuseKept DEF Harmless
<1>2. ASSUME NEW r \in Rules, Exists(r)', ~Misread(r)', NEW b \in Bundles,
             Fills(r, b)', bundles'[b] = Absent
      PROVE  \E d \in Requests :
                Did(d, "deleteBundle")' /\ call'[d].bundle = b /\ Raced(d, r)'
  BY <1>2, BundleExcuseKept DEF Harmless
<1>. QED
  BY <1>1, <1>2 DEF DanglingOnlyByRace

\* A request that is over, or waits for its REJECTED entry, claims nothing.
LEMMA OverKeeps ==
    ASSUME NEW q \in Requests, pc'[q] \in {"reject", "done"}
    PROVE  WriterInv(q)' /\ DeleterInv(q)'
BY DEF WriterInv, DeleterInv

LEMMA ReadKeeps ==
    ASSUME TypeOK, AuditInv, Grows, IntegrityInv, NEW q \in Requests, Reads(q)
    PROVE  WriterInv(q)' /\ DeleterInv(q)'
<1>. USE ControlOfType, CallType
<1>1. CASE misled'[q]
  BY <1>1 DEF WriterInv, DeleterInv
<1>2. ASSUME ~misled'[q] PROVE WriterInv(q)' /\ DeleterInv(q)'
  <2>1. /\ UNCHANGED <<objects, bundles, rules, call>>
        /\ ~misled[q]
    BY <1>2, ReadFrame DEF MisledGrows
  <2>2. WriterInv(q) /\ DeleterInv(q)
    BY DEF IntegrityInv
  <2>3. /\ call[q].spec.source \in Objects /\ call[q].spec.destination \in Objects
        /\ call[q].object \in Objects /\ call[q].bundle \in Bundles
    BY SpecsAssumption
  <2>4. \A o \in Objects : ObjectExcuse(q, o) => ObjectExcuse(q, o)'
    BY PastStays
  <2>5. \A b \in Bundles : BundleExcuse(q, b) => BundleExcuse(q, b)'
    BY PastStays
  <2>6. \A wrong \in BOOLEAN : Note(q, wrong) => ~wrong
    BY <1>2, NoteFacts
  <2>7. ASSUME NEW step \in Before, Goto(q, step) PROVE pc'[q] = step
    BY <2>7, GotoControl DEF Before
  <2>8. \A class \in {"refused", "error"}, unwaited \in BOOLEAN :
          Answer(q, class, unwaited) => pc'[q] = "done"
    BY AnswerControl
  <2>9. Trouble(q) => pc'[q] \in {"reject", "done"}
    BY TroubleControl
  <2>. USE BeforeMembers
  <2>10. CASE LookupObject(q) \/ RereadObject(q)
    <3>1. call[q].op \in ObjectOps
      BY <2>10 DEF LookupObject, RereadObject, ObjectOps
    <3>2. pc'[q] = "write" => call[q].op \in {"createObject", "updateObject"}
      BY <2>7, <2>8, <2>9, <2>10 DEF LookupObject, RereadObject
    <3>. QED
      BY <2>1, <3>1, <3>2 DEF WriterInv, DeleterInv, ObjectOps
  <2>11. CASE ScanReferences(q)
    <3>1. call[q].op = "deleteObject"
      BY <2>11 DEF ScanReferences
    <3>2. pc'[q] # "done" => References(call[q].object) = {}
      <4>1. PICK found :
               /\ IF found = {} THEN Goto(q, "write") ELSE Answer(q, "refused", FALSE)
               /\ Note(q, found # References(call[q].object))
        BY <2>11 DEF ScanReferences
      <4>. QED
        BY <2>6, <2>8, <4>1
    <3>3. pc'[q] # "done" => \A r \in Rules : ~Names(r, call[q].object)'
      BY <2>1, <3>2 DEF References, Names, Exists
    <3>. QED
      BY <2>1, <3>1, <3>3 DEF WriterInv, DeleterInv
  <2>12. CASE LookupBundle(q)
    <3>1. call[q].op \in BundleOps
      BY <2>12 DEF LookupBundle
    <3>2. pc[q] = "lookup"
      BY <2>12 DEF LookupBundle
    <3>3. \A r \in Rules : Written(q, r) => Written(q, r)'
      BY <3>2, PastStays
    <3>4. call[q].op = "deleteBundle" =>
            \A r \in Rules : Fills(r, call[q].bundle)' => Written(q, r)'
      BY <2>1, <2>2, <3>2, <3>3 DEF DeleterInv, Fills, Exists
    <3>. QED
      BY <2>1, <3>1, <3>4 DEF WriterInv, DeleterInv, BundleOps
  <2>13. CASE ScanBundle(q)
    <3>1. call[q].op = "deleteBundle"
      BY <2>13 DEF ScanBundle
    <3>2. pc'[q] # "done" => {r \in Rules : Fills(r, call[q].bundle)} = {}
      <4>1. PICK found :
               /\ IF found = {} THEN Goto(q, "lookup") ELSE Answer(q, "refused", FALSE)
               /\ Note(q, found # {r \in Rules : Fills(r, call[q].bundle)})
        BY <2>13 DEF ScanBundle
      <4>. QED
        BY <2>6, <2>8, <4>1
    <3>3. pc'[q] # "done" => \A r \in Rules : ~Fills(r, call[q].bundle)'
      BY <2>1, <3>2 DEF Fills, Exists
    <3>. QED
      BY <2>1, <3>1, <3>3 DEF WriterInv, DeleterInv
  <2>14. CASE FindBundle(q)
    <3>1. PICK owners :
             /\ IF owners # Absent THEN Goto(q, "source") ELSE Answer(q, "refused", FALSE)
             /\ Note(q, owners # bundles[call[q].bundle])
      BY <2>14 DEF FindBundle
    <3>2. pc'[q] = "done" \/ (pc'[q] = "source" /\ bundles[call[q].bundle] # Absent)
      BY <2>6, <2>7, <2>8, <3>1
    <3>3. call[q].op \in {"createRule", "updateRule"}
      BY <2>14 DEF FindBundle
    <3>. QED
      BY <2>1, <3>2, <3>3 DEF WriterInv, DeleterInv
  <2>15. CASE FindSource(q)
    <3>1. PICK present :
             /\ IF present THEN Goto(q, "destination") ELSE Answer(q, "refused", FALSE)
             /\ Note(q, present # (call[q].spec.source \in objects))
      BY <2>15 DEF FindSource, FindEnd
    <3>2. pc'[q] = "done" \/ (pc'[q] = "destination" /\ call[q].spec.source \in objects)
      BY <2>6, <2>7, <2>8, <3>1
    <3>3. call[q].op \in {"createRule", "updateRule"} /\ pc[q] = "source"
      BY <2>15 DEF FindSource, FindEnd
    <3>. QED
      BY <2>1, <2>2, <2>5, <3>2, <3>3 DEF WriterInv, DeleterInv
  <2>16. CASE FindDestination(q)
    <3>1. PICK present :
             /\ IF present THEN Goto(q, "access") ELSE Answer(q, "refused", FALSE)
             /\ Note(q, present # (call[q].spec.destination \in objects))
      BY <2>16 DEF FindDestination, FindEnd
    <3>2. pc'[q] = "done" \/ (pc'[q] = "access" /\ call[q].spec.destination \in objects)
      BY <2>6, <2>7, <2>8, <3>1
    <3>3. call[q].op \in {"createRule", "updateRule"} /\ pc[q] = "destination"
      BY <2>16 DEF FindDestination, FindEnd
    <3>. QED
      BY <2>1, <2>2, <2>3, <2>4, <2>5, <3>2, <3>3 DEF WriterInv, DeleterInv
  <2>17. CASE ReadRule(q) \/ CheckAccess(q)
    <3>1. pc[q] \in {"read", "access"} /\ call[q].op \in RuleOps
      BY <2>17 DEF ReadRule, CheckAccess, RuleOps
    <3>2. pc'[q] \in {"access", "read", "write", "reject", "done"}
      <4>1. CASE ReadRule(q)
        BY <2>7, <2>8, <4>1 DEF ReadRule
      <4>2. CASE CheckAccess(q)
        <5>1. Goto(q, "reject") => pc'[q] = "reject"
          BY GotoControl
        <5>. QED
          BY <2>7, <2>8, <4>2, <5>1 DEF CheckAccess
      <4>. QED
        BY <2>17, <4>1, <4>2
    <3>. QED
      BY <2>1, <2>2, <2>3, <2>4, <2>5, <3>1, <3>2 DEF WriterInv, DeleterInv, RuleOps
  <2>. QED
    BY <2>10, <2>11, <2>12, <2>13, <2>14, <2>15, <2>16, <2>17 DEF Reads
<1>. QED
  BY <1>1, <1>2

\* What a write leaves to the other requests and to its own.
LEMMA WriteControl ==
    ASSUME TypeOK, NEW q \in Requests, Write(q)
    PROVE  /\ pc[q] = "write" /\ effect'[q]
           /\ \A p \in Requests \ {q} : pc'[p] = pc[p]
           /\ pc'[q] \notin Before
           /\ WriterInv(q)' /\ DeleterInv(q)'
<1>1. AfterWrite(q) \/ Trouble(q)
  BY WriteFrame
<1>2. OthersStay(q) /\ pc'[q] \in {"audit", "reject", "done"}
  BY <1>1, ControlOfType, AfterWriteControl, TroubleControl
<1>3. WriterInv(q)' /\ DeleterInv(q)'
  BY <1>2 DEF WriterInv, DeleterInv
<1>4. pc[q] = "write" /\ effect'[q]
  BY WriteFrame DEF Write
<1>. QED
  BY <1>2, <1>3, <1>4 DEF OthersStay, Before

LEMMA HarmlessWrite ==
    ASSUME TypeOK, NEW q \in Requests, Write(q),
           call[q].op \notin {"deleteObject", "deleteBundle", "createRule", "updateRule"}
    PROVE  Harmless
<1>. DEFINE c == call[q]
<1>. USE CallType DEF tableVars
<1>1. Condition(q) /\ Apply(c)
  BY WriteFrame
<1>2. CASE c.op = "createObject"
  BY <1>1, <1>2 DEF Apply, TypeOK, Harmless, Exists, Names, Fills
<1>3. CASE c.op = "updateObject"
  BY <1>1, <1>3 DEF Apply, TypeOK, Harmless, Exists, Names, Fills
<1>4. CASE c.op \in {"createBundle", "updateBundle"}
  <2>1. c.owners # Absent
    BY AbsentAssumption
  <2>2. /\ bundles' = [bundles EXCEPT ![c.bundle] = c.owners]
        /\ UNCHANGED <<objects, rules>>
    BY <1>1, <1>4 DEF Apply
  <2>3. \A b \in Bundles : bundles'[b] = IF b = c.bundle THEN c.owners ELSE bundles[b]
    BY <2>2 DEF TypeOK
  <2>. QED
    BY <2>1, <2>2, <2>3 DEF Harmless, Exists, Names, Fills
<1>5. CASE c.op = "deleteRule"
  BY <1>1, <1>5 DEF Apply, TypeOK, Harmless, Exists, Names, Fills
<1>. QED
  BY <1>2, <1>3, <1>4, <1>5 DEF Ops, ObjectOps, BundleOps, RuleOps

LEMMA DeleteObjectKeeps ==
    ASSUME TypeOK, AuditInv, MetInv, Grows, IntegrityInv, NEW q \in Requests, Write(q),
           call[q].op = "deleteObject"
    PROVE  IntegrityInv'
<1>. DEFINE x == call[q].object
<1>. USE CallType
<1>1. objects' = objects \ {x} /\ UNCHANGED <<bundles, rules, call, met>>
  BY WriteFrame DEF Apply
<1>2. /\ \A r \in Rules, o \in Objects : Names(r, o)' <=> Names(r, o)
      /\ \A r \in Rules, b \in Bundles : Fills(r, b)' <=> Fills(r, b)
      /\ \A r \in Rules : Exists(r)' <=> Exists(r)
  BY <1>1 DEF Names, Fills, Exists
<1>3. Did(q, "deleteObject")' /\ call'[q].object = x
  BY <1>1, WriteControl DEF Did
<1>4. ASSUME NEW p \in Requests \ {q} PROVE WriterInv(p)' /\ DeleterInv(p)'
  <2>1. pc'[p] = pc[p] /\ call' = call /\ (misled[p] => misled'[p])
    BY <1>1, WriteControl DEF Grows
  <2>2. WriterInv(p) /\ DeleterInv(p)
    BY DEF IntegrityInv
  <2>3. call[p].spec.source \in Objects /\ call[p].spec.destination \in Objects
    BY SpecsAssumption
  <2>4. Active(p) => ObjectExcuse(p, x)'
    <3>1. Active(q)
      BY WriteControl DEF Active
    <3>2. Active(p) => p \in met'[q]
      BY <1>1, <3>1 DEF MetInv
    <3>. QED
      BY <1>3, <3>2 DEF ObjectExcuse
  <2>5. \A o \in Objects : ObjectExcuse(p, o) => ObjectExcuse(p, o)'
    BY PastStays
  <2>6. \A b \in Bundles : BundleExcuse(p, b) => BundleExcuse(p, b)'
    BY PastStays
  <2>7. WriterInv(p)'
    BY <1>1, <2>1, <2>2, <2>3, <2>4, <2>5, <2>6 DEF WriterInv, Active
  <2>8. \A r \in Rules : pc[p] # "idle" /\ Written(p, r) => Written(p, r)'
    BY PastStays
  <2>9. DeleterInv(p)'
    BY <1>2, <2>1, <2>2, <2>8 DEF DeleterInv
  <2>. QED
    BY <2>7, <2>9
<1>5. ASSUME NEW r \in Rules PROVE Integral(r)'
  <2>. SUFFICES ASSUME Exists(r)', ~Misread(r)' PROVE Integral(r)'
    BY DEF Integral
  <2>1. ASSUME NEW o \in Objects, Names(r, o)', o \notin objects', o # x
        PROVE  \E d \in Requests :
                  Did(d, "deleteObject")' /\ call'[d].object = o /\ Raced(d, r)'
    BY <1>1, <1>2, <2>1, ObjectExcuseKept
  <2>2. ASSUME NEW b \in Bundles, Fills(r, b)', bundles'[b] = Absent
        PROVE  \E d \in Requests :
                  Did(d, "deleteBundle")' /\ call'[d].bundle = b /\ Raced(d, r)'
    BY <1>1, <1>2, <2>2, BundleExcuseKept
  <2>3. ASSUME Names(r, x)' PROVE Raced(q, r)'
    <3>1. Names(r, x)
      BY <1>1, <2>3 DEF Names, Exists
    <3>2. DeleterInv(q)
      BY DEF IntegrityInv
    <3>3. pc[q] = "write"
      BY WriteControl
    <3>4. misled[q] \/ Written(q, r)
      BY <3>1, <3>2, <3>3 DEF DeleterInv
    <3>5. misled'[q] \/ Written(q, r)'
      BY <3>3, <3>4, PastStays DEF Grows
    <3>. QED
      BY <3>5 DEF Raced, Written
  <2>. QED
    BY <1>3, <2>1, <2>2, <2>3 DEF Integral
<1>. QED
  BY <1>4, <1>5, WriteControl DEF IntegrityInv, Integral, DanglingOnlyByRace

LEMMA DeleteBundleKeeps ==
    ASSUME TypeOK, AuditInv, MetInv, Grows, IntegrityInv, NEW q \in Requests, Write(q),
           call[q].op = "deleteBundle"
    PROVE  IntegrityInv'
<1>. DEFINE x == call[q].bundle
<1>. USE CallType
<1>1. /\ bundles' = [bundles EXCEPT ![x] = Absent]
      /\ UNCHANGED <<objects, rules, call, met>>
  BY WriteFrame DEF Apply
<1>2. /\ \A r \in Rules, o \in Objects : Names(r, o)' <=> Names(r, o)
      /\ \A r \in Rules, b \in Bundles : Fills(r, b)' <=> Fills(r, b)
      /\ \A r \in Rules : Exists(r)' <=> Exists(r)
      /\ \A b \in Bundles \ {x} : bundles'[b] = bundles[b]
  BY <1>1 DEF Names, Fills, Exists, TypeOK
<1>3. Did(q, "deleteBundle")' /\ call'[q].bundle = x
  BY <1>1, WriteControl DEF Did
<1>4. ASSUME NEW p \in Requests \ {q} PROVE WriterInv(p)' /\ DeleterInv(p)'
  <2>1. pc'[p] = pc[p] /\ call' = call /\ (misled[p] => misled'[p])
    BY <1>1, WriteControl DEF Grows
  <2>2. WriterInv(p) /\ DeleterInv(p)
    BY DEF IntegrityInv
  <2>3. call[p].spec.source \in Objects /\ call[p].spec.destination \in Objects
    BY SpecsAssumption
  <2>4. Active(p) => BundleExcuse(p, x)'
    <3>1. Active(q)
      BY WriteControl DEF Active
    <3>2. Active(p) => p \in met'[q]
      BY <1>1, <3>1 DEF MetInv
    <3>. QED
      BY <1>3, <3>2 DEF BundleExcuse
  <2>5. \A o \in Objects : ObjectExcuse(p, o) => ObjectExcuse(p, o)'
    BY PastStays
  <2>6. \A b \in Bundles : BundleExcuse(p, b) => BundleExcuse(p, b)'
    BY PastStays
  <2>7. WriterInv(p)'
    BY <1>1, <1>2, <2>1, <2>2, <2>3, <2>4, <2>5, <2>6 DEF WriterInv, Active
  <2>8. \A r \in Rules : pc[p] # "idle" /\ Written(p, r) => Written(p, r)'
    BY PastStays
  <2>9. DeleterInv(p)'
    BY <1>2, <2>1, <2>2, <2>8 DEF DeleterInv
  <2>. QED
    BY <2>7, <2>9
<1>5. ASSUME NEW r \in Rules PROVE Integral(r)'
  <2>. SUFFICES ASSUME Exists(r)', ~Misread(r)' PROVE Integral(r)'
    BY DEF Integral
  <2>1. ASSUME NEW o \in Objects, Names(r, o)', o \notin objects'
        PROVE  \E d \in Requests :
                  Did(d, "deleteObject")' /\ call'[d].object = o /\ Raced(d, r)'
    BY <1>1, <1>2, <2>1, ObjectExcuseKept
  <2>2. ASSUME NEW b \in Bundles, Fills(r, b)', bundles'[b] = Absent, b # x
        PROVE  \E d \in Requests :
                  Did(d, "deleteBundle")' /\ call'[d].bundle = b /\ Raced(d, r)'
    BY <1>1, <1>2, <2>2, BundleExcuseKept
  <2>3. ASSUME Fills(r, x)' PROVE Raced(q, r)'
    <3>1. Fills(r, x)
      BY <1>1, <2>3 DEF Fills, Exists
    <3>2. DeleterInv(q)
      BY DEF IntegrityInv
    <3>3. pc[q] = "write"
      BY WriteControl
    <3>4. misled[q] \/ Written(q, r)
      BY <3>1, <3>2, <3>3 DEF DeleterInv
    <3>5. misled'[q] \/ Written(q, r)'
      BY <3>3, <3>4, PastStays DEF Grows
    <3>. QED
      BY <3>5 DEF Raced, Written
  <2>. QED
    BY <1>3, <2>1, <2>2, <2>3 DEF Integral
<1>. QED
  BY <1>4, <1>5, WriteControl DEF IntegrityInv, Integral, DanglingOnlyByRace

\* The rule that a request creates or edits names what the request asks for.
LEMMA WrittenRule ==
    ASSUME TypeOK, NEW q \in Requests, Write(q), call[q].op \in {"createRule", "updateRule"}
    PROVE  /\ UNCHANGED <<objects, bundles, call, met, misled>>
           /\ \A r \in Rules \ {call[q].rule} : rules'[r] = rules[r]
           /\ Exists(call[q].rule)' => rules'[call[q].rule].spec = call[q].spec
           /\ Fills(call[q].rule, call[q].bundle)'
              \/ \A b \in Bundles : ~Fills(call[q].rule, b)'
           /\ Wrote(q, call[q].rule)'
<1>. DEFINE c == call[q]
<1>. USE CallType
<1>1. Condition(q) /\ Apply(c) /\ UNCHANGED <<call, met, misled>> /\ effect'[q]
  BY WriteFrame
<1>2. Wrote(q, c.rule)'
  BY <1>1 DEF Wrote
<1>3. CASE c.op = "createRule"
  <2>1. rules' = [rules EXCEPT ![c.rule] = NewItem(c)] /\ UNCHANGED <<objects, bundles>>
    BY <1>1, <1>3 DEF Apply
  <2>2. /\ \A r \in Rules \ {c.rule} : rules'[r] = rules[r]
        /\ rules'[c.rule] = NewItem(c)
    BY <2>1 DEF TypeOK
  <2>3. NewItem(c).bundle = c.bundle /\ NewItem(c).spec = c.spec
        /\ NewItem(c).failed = FALSE
    BY NewItemType
  <2>4. rules'[c.rule].spec = c.spec /\ rules'[c.rule].bundle = c.bundle
    BY <2>2, <2>3
  <2>5. Fills(c.rule, c.bundle)' \/ \A b \in Bundles : ~Fills(c.rule, b)'
    BY <1>1, <2>4 DEF Fills
  <2>. QED
    BY <1>1, <1>2, <2>1, <2>2, <2>4, <2>5
<1>4. CASE c.op = "updateRule"
  <2>1. /\ rules' = [rules EXCEPT ![c.rule] = EditedItem(rules[c.rule], c.spec)]
        /\ UNCHANGED <<objects, bundles>>
    BY <1>1, <1>4 DEF Apply
  <2>2. Exists(c.rule) /\ rules[c.rule].bundle = c.bundle
    BY <1>1, <1>4 DEF Condition, InBundle
  <2>3. /\ \A r \in Rules \ {c.rule} : rules'[r] = rules[r]
        /\ rules'[c.rule] = EditedItem(rules[c.rule], c.spec)
    BY <2>1 DEF TypeOK
  <2>4. rules'[c.rule].spec = c.spec /\ rules'[c.rule].bundle = c.bundle
    BY <2>2, <2>3, ItemType, EditedItemType
  <2>5. Fills(c.rule, c.bundle)' \/ \A b \in Bundles : ~Fills(c.rule, b)'
    BY <1>1, <2>4 DEF Fills
  <2>. QED
    BY <1>1, <1>2, <2>1, <2>3, <2>4, <2>5
<1>. QED
  BY <1>3, <1>4

LEMMA WriteRuleKeeps ==
    ASSUME TypeOK, AuditInv, MetInv, Grows, IntegrityInv, NEW q \in Requests, Write(q),
           call[q].op \in {"createRule", "updateRule"}
    PROVE  IntegrityInv'
<1>. USE CallType
<1>1. PICK x \in Rules : x = call[q].rule
  OBVIOUS
<1>2. /\ UNCHANGED <<objects, bundles, call, met, misled>>
      /\ \A r \in Rules \ {x} : rules'[r] = rules[r]
      /\ Exists(x)' => rules'[x].spec = call[q].spec
      /\ Fills(x, call[q].bundle)' \/ \A b \in Bundles : ~Fills(x, b)'
      /\ Wrote(q, x)'
  BY <1>1, WrittenRule
<1>3. \A r \in Rules \ {x} :
        /\ Exists(r)' <=> Exists(r)
        /\ \A o \in Objects : Names(r, o)' <=> Names(r, o)
        /\ \A b \in Bundles : Fills(r, b)' <=> Fills(r, b)
  BY <1>2 DEF Exists, Names, Fills
<1>4. ASSUME NEW p \in Requests \ {q} PROVE WriterInv(p)' /\ DeleterInv(p)'
  <2>1. pc'[p] = pc[p]
    BY WriteControl
  <2>2. WriterInv(p) /\ DeleterInv(p)
    BY DEF IntegrityInv
  <2>3. call[p].spec.source \in Objects /\ call[p].spec.destination \in Objects
    BY SpecsAssumption
  <2>4. \A o \in Objects : ObjectExcuse(p, o) => ObjectExcuse(p, o)'
    BY PastStays
  <2>5. \A b \in Bundles : BundleExcuse(p, b) => BundleExcuse(p, b)'
    BY PastStays
  <2>6. WriterInv(p)'
    BY <1>2, <2>1, <2>2, <2>3, <2>4, <2>5 DEF WriterInv
  <2>7. Active(p) => Written(p, x)'
    <3>1. Active(q)
      BY WriteControl DEF Active
    <3>. QED
      BY <1>2, <3>1 DEF MetInv, Written
  <2>8. \A r \in Rules : pc[p] # "idle" /\ Written(p, r) => Written(p, r)'
    BY PastStays
  <2>9. DeleterInv(p)'
    BY <1>2, <1>3, <2>1, <2>2, <2>7, <2>8 DEF DeleterInv, Active
  <2>. QED
    BY <2>6, <2>9
<1>5. ASSUME NEW r \in Rules \ {x} PROVE Integral(r)'
  <2>. SUFFICES ASSUME Exists(r)', ~Misread(r)' PROVE Integral(r)'
    BY DEF Integral
  <2>1. ASSUME NEW o \in Objects, Names(r, o)', o \notin objects'
        PROVE  \E d \in Requests :
                  Did(d, "deleteObject")' /\ call'[d].object = o /\ Raced(d, r)'
    BY <1>2, <1>3, <2>1, ObjectExcuseKept
  <2>2. ASSUME NEW b \in Bundles, Fills(r, b)', bundles'[b] = Absent
        PROVE  \E d \in Requests :
                  Did(d, "deleteBundle")' /\ call'[d].bundle = b /\ Raced(d, r)'
    BY <1>2, <1>3, <2>2, BundleExcuseKept
  <2>. QED
    BY <2>1, <2>2 DEF Integral
<1>6. Integral(x)'
  <2>. SUFFICES ASSUME Exists(x)', ~Misread(x)' PROVE Integral(x)'
    BY DEF Integral
  <2>1. ~misled[q] /\ pc[q] = "write"
    BY <1>2, WriteControl DEF Misread
  <2>2. WriterInv(q)
    BY DEF IntegrityInv
  <2>3. ASSUME NEW d \in Requests, misled[d] \/ q \in met[d] PROVE Raced(d, x)'
    BY <1>2, <2>3 DEF Raced
  <2>4. ASSUME NEW o \in Objects, Names(x, o)', o \notin objects'
        PROVE  \E d \in Requests :
                  Did(d, "deleteObject")' /\ call'[d].object = o /\ Raced(d, x)'
    <3>1. o \in {call[q].spec.source, call[q].spec.destination} /\ o \notin objects
      BY <1>2, <2>4 DEF Names
    <3>2. ObjectExcuse(q, o)
      BY <2>1, <2>2, <3>1 DEF WriterInv
    <3>3. PICK d \in Requests : /\ Did(d, "deleteObject") /\ call[d].object = o
                                /\ misled[d] \/ q \in met[d]
      BY <3>2 DEF ObjectExcuse
    <3>. QED
      BY <1>2, <2>3, <3>3, PastStays DEF Ops, ObjectOps
  <2>5. ASSUME NEW b \in Bundles, Fills(x, b)', bundles'[b] = Absent
        PROVE  \E d \in Requests :
                  Did(d, "deleteBundle")' /\ call'[d].bundle = b /\ Raced(d, x)'
    <3>1. b = call[q].bundle /\ bundles[b] = Absent
      BY <1>2, <2>5 DEF Fills
    <3>2. BundleExcuse(q, b)
      BY <2>1, <2>2, <3>1 DEF WriterInv
    <3>3. PICK d \in Requests : /\ Did(d, "deleteBundle") /\ call[d].bundle = b
                                /\ misled[d] \/ q \in met[d]
      BY <3>2 DEF BundleExcuse
    <3>. QED
      BY <1>2, <2>3, <3>3, PastStays DEF Ops, BundleOps
  <2>. QED
    BY <2>4, <2>5 DEF Integral
<1>. QED
  BY <1>4, <1>5, <1>6, WriteControl DEF IntegrityInv, Integral, DanglingOnlyByRace

LEMMA NextIntegrityInv ==
    TypeOK /\ AuditInv /\ MetInv /\ IntegrityInv /\ [Next]_vars => IntegrityInv'
<1>. SUFFICES ASSUME TypeOK, AuditInv, MetInv, IntegrityInv, [Next]_vars
              PROVE  IntegrityInv'
  OBVIOUS
<1>. USE NextGrows, ControlOfType, QuietIsHarmless
<1>1. ASSUME NEW q \in Requests, Reads(q) PROVE IntegrityInv'
  <2>1. OthersStay(q)
    BY <1>1, ReadOutcome, TroubleControl DEF Outcome, Continues, Refuses, Regrets
  <2>2. Harmless
    BY <1>1, ReadFrame
  <2>3. \A p \in Requests \ {q} : WriterInv(p)' /\ DeleterInv(p)'
    BY <2>1, <2>2, WaitingKeeps DEF OthersStay
  <2>. QED
    BY <1>1, <2>2, <2>3, ReadKeeps, DanglingKept DEF IntegrityInv
<1>2. ASSUME NEW q \in Requests, Begin(q) PROVE IntegrityInv'
  <2>1. Harmless /\ call' = call
    BY <1>2 DEF Begin, tableVars
  <2>2. \A p \in Requests \ {q} : pc'[p] = pc[p]
    BY <1>2 DEF Begin, TypeOK
  <2>3. pc'[q] = FirstStep(call[q].op)
    BY <1>2 DEF Begin, TypeOK
  <2>4. WriterInv(q)' /\ DeleterInv(q)'
    BY <2>1, <2>3 DEF WriterInv, DeleterInv, FirstStep, ObjectOps
  <2>. QED
    BY <2>1, <2>2, <2>4, WaitingKeeps, DanglingKept DEF IntegrityInv
<1>3. ASSUME NEW q \in Requests, Write(q) PROVE IntegrityInv'
  <2>1. ASSUME Harmless PROVE IntegrityInv'
    BY <1>3, <2>1, WriteControl, WaitingKeeps, DanglingKept DEF IntegrityInv
  <2>. QED
    BY <1>3, <2>1, HarmlessWrite, DeleteObjectKeeps, DeleteBundleKeeps, WriteRuleKeeps
<1>4. ASSUME NEW q \in Requests, Rests(q) PROVE IntegrityInv'
  <2>1. Harmless /\ OthersStay(q)
    BY <1>4, RestFrame
  <2>2. WriterInv(q)' /\ DeleterInv(q)'
    BY <1>4, <2>1, RestFrame, WaitingKeeps, OverKeeps
  <2>. QED
    BY <2>1, <2>2, WaitingKeeps, DanglingKept DEF IntegrityInv, OthersStay
<1>5. ASSUME NEW r \in Rules, FailRule(r) PROVE IntegrityInv'
  <2>1. /\ rules' = [rules EXCEPT ![r] = FailedItem(rules[r])]
        /\ UNCHANGED <<objects, bundles, pc>>
        /\ Exists(r)
    BY <1>5 DEF FailRule
  <2>2. /\ FailedItem(rules[r]).spec = rules[r].spec
        /\ FailedItem(rules[r]).failed = TRUE
    BY <2>1, ItemType, FailedItemType
  <2>3. \A s \in Rules : rules'[s] = IF s = r THEN FailedItem(rules[r]) ELSE rules[s]
    BY <2>1 DEF TypeOK
  <2>4. Harmless
    BY <2>1, <2>2, <2>3 DEF Harmless, Exists, Names, Fills
  <2>. QED
    BY <2>1, <2>4, WaitingKeeps, DanglingKept DEF IntegrityInv
<1>6. CASE UNCHANGED vars
  <2>1. Harmless /\ pc' = pc
    BY <1>6 DEF vars
  <2>. QED
    BY <2>1, WaitingKeeps, DanglingKept DEF IntegrityInv
<1>. QED
  BY <1>1, <1>2, <1>3, <1>4, <1>5, <1>6 DEF Next, Step, Reads, Rests

LEMMA InitHistory ==
    ASSUME Init
    PROVE  \A q \in Requests :
              pc[q] = "idle" /\ ~effect[q] /\ ~misled[q] /\ ~owned[q] /\ answer[q] = "none"
              /\ audits[q] = {}
BY DEF Init

LEMMA InitInvariants == Init => AuditInv /\ MetInv /\ IntegrityInv
<1>. SUFFICES ASSUME Init PROVE AuditInv /\ MetInv /\ IntegrityInv
  OBVIOUS
<1>1. AuditInv
  BY InitHistory DEF AuditInv, AuditOf
<1>2. MetInv
  BY InitHistory DEF MetInv, Active
<1>3. \A q \in Requests : WriterInv(q) /\ DeleterInv(q)
  BY InitHistory DEF WriterInv, DeleterInv
<1>4. DanglingOnlyByRace
  <2>1. ASSUME NEW r \in Rules, Exists(r)
        PROVE  /\ \A o \in Objects : Names(r, o) => o \in objects
               /\ \A b \in Bundles : Fills(r, b) => bundles[b] # Absent
    BY <2>1 DEF Init, Names, Fills
  <2>. QED
    BY <2>1 DEF DanglingOnlyByRace
<1>. QED
  BY <1>1, <1>2, <1>3, <1>4 DEF IntegrityInv

\* Referential integrity fails through races and misleading reads only.
THEOREM IntegrityOfReferences == Spec => []DanglingOnlyByRace
<1>1. Init => TypeOK /\ AuditInv /\ MetInv /\ IntegrityInv
  BY InitTypeOK, InitInvariants
<1>2. /\ TypeOK /\ AuditInv /\ MetInv /\ IntegrityInv /\ [Next]_vars
      => (TypeOK /\ AuditInv /\ MetInv /\ IntegrityInv)'
  BY NextTypeOK, NextAuditInv, NextMetInv, NextIntegrityInv
<1>3. IntegrityInv => DanglingOnlyByRace
  BY DEF IntegrityInv
<1>. QED
  BY <1>1, <1>2, <1>3, PTL DEF Spec

-----------------------------------------------------------------------------
(* One winner among requests that create, or delete, the same thing.       *)

\* What a request has created is there, and what it has deleted is gone, unless
\* a request of the opposite kind took effect.
StandsInv ==
    \A q \in Requests :
        /\ Did(q, "createObject") =>
              \/ call[q].object \in objects
              \/ \E d \in Requests : Did(d, "deleteObject") /\ SameObject(d, q)
        /\ Did(q, "deleteObject") =>
              \/ call[q].object \notin objects
              \/ \E c \in Requests : Did(c, "createObject") /\ SameObject(c, q)
        /\ Did(q, "createBundle") =>
              \/ bundles[call[q].bundle] # Absent
              \/ \E d \in Requests : Did(d, "deleteBundle") /\ SameBundle(d, q)
        /\ Did(q, "deleteBundle") =>
              \/ bundles[call[q].bundle] = Absent
              \/ \E c \in Requests : Did(c, "createBundle") /\ SameBundle(c, q)

\* A write takes away what it is told to delete, and adds what it is told to
\* create, nothing else.
LEMMA WriteMoves ==
    ASSUME TypeOK, NEW q \in Requests, Write(q)
    PROVE  /\ \A o \in Objects :
                 /\ o \in objects' /\ o \notin objects =>
                       call[q].op = "createObject" /\ call[q].object = o
                 /\ o \notin objects' /\ o \in objects =>
                       call[q].op = "deleteObject" /\ call[q].object = o
           /\ \A b \in Bundles :
                 /\ bundles'[b] # Absent /\ bundles[b] = Absent =>
                       call[q].op = "createBundle" /\ call[q].bundle = b
                 /\ bundles'[b] = Absent /\ bundles[b] # Absent =>
                       call[q].op = "deleteBundle" /\ call[q].bundle = b
<1>. DEFINE c == call[q]
<1>. USE CallType DEF tableVars
<1>1. Condition(q) /\ Apply(c)
  BY WriteFrame
<1>2. CASE c.op \in ObjectOps
  BY <1>1, <1>2 DEF Apply, ObjectOps
<1>3. CASE c.op = "createBundle"
  BY <1>1, <1>3, AbsentAssumption DEF Apply, TypeOK
<1>4. CASE c.op = "updateBundle"
  <2>1. bundles[c.bundle] # Absent
    BY <1>1, <1>4 DEF Condition, BundleExists
  <2>. QED
    BY <1>1, <1>4, <2>1, AbsentAssumption DEF Apply, TypeOK
<1>5. CASE c.op = "deleteBundle"
  BY <1>1, <1>5 DEF Apply, TypeOK
<1>6. CASE c.op \in RuleOps
  BY <1>1, <1>6 DEF Apply, RuleOps
<1>. QED
  BY <1>2, <1>3, <1>4, <1>5, <1>6 DEF Ops, BundleOps

\* The conditions of the writes that create and delete.
LEMMA WriteConditions ==
    ASSUME TypeOK, NEW q \in Requests, Write(q)
    PROVE  /\ call[q].op = "createObject" =>
                 call[q].object \notin objects /\ call[q].object \in objects'
           /\ call[q].op = "deleteObject" =>
                 call[q].object \in objects /\ call[q].object \notin objects'
           /\ call[q].op = "createBundle" =>
                 /\ bundles[call[q].bundle] = Absent
                 /\ bundles'[call[q].bundle] # Absent
           /\ call[q].op = "deleteBundle" =>
                 /\ bundles[call[q].bundle] # Absent
                 /\ bundles'[call[q].bundle] = Absent
<1>. USE CallType
<1>1. Condition(q) /\ Apply(call[q])
  BY WriteFrame
<1>2. ASSUME call[q].op = "createObject"
      PROVE  call[q].object \notin objects /\ call[q].object \in objects'
  BY <1>1, <1>2 DEF Condition, Apply, ObjectIsNew
<1>3. ASSUME call[q].op = "deleteObject"
      PROVE  call[q].object \in objects /\ call[q].object \notin objects'
  BY <1>1, <1>3 DEF Condition, Apply, ObjectExists
<1>4. ASSUME call[q].op = "createBundle"
      PROVE  bundles[call[q].bundle] = Absent /\ bundles'[call[q].bundle] # Absent
  BY <1>1, <1>4, AbsentAssumption DEF Condition, Apply, BundleIsNew, TypeOK
<1>5. ASSUME call[q].op = "deleteBundle"
      PROVE  bundles[call[q].bundle] # Absent /\ bundles'[call[q].bundle] = Absent
  BY <1>1, <1>5 DEF Condition, Apply, BundleExists, TypeOK
<1>. QED
  BY <1>2, <1>3, <1>4, <1>5

\* Steps other than writes leave objects, bundles and effects alone.
LEMMA OtherSteps ==
    ASSUME TypeOK, [Next]_vars, ~\E q \in Requests : Write(q)
    PROVE  UNCHANGED <<objects, bundles, call, effect>>
<1>1. ASSUME NEW q \in Requests, Reads(q) PROVE UNCHANGED <<objects, bundles, call, effect>>
  BY <1>1, ReadFrame
<1>2. ASSUME NEW q \in Requests, Begin(q) PROVE UNCHANGED <<objects, bundles, call, effect>>
  BY <1>2 DEF Begin, tableVars
<1>3. ASSUME NEW q \in Requests, Rests(q) PROVE UNCHANGED <<objects, bundles, call, effect>>
  BY <1>3, RestFrame
<1>4. ASSUME NEW r \in Rules, FailRule(r) PROVE UNCHANGED <<objects, bundles, call, effect>>
  BY <1>4 DEF FailRule, historyVars
<1>5. CASE UNCHANGED vars
  BY <1>5 DEF vars
<1>. QED
  BY <1>1, <1>2, <1>3, <1>4, <1>5 DEF Next, Step, Reads, Rests

LEMMA NextWinner ==
    TypeOK /\ StandsInv /\ OneWinner /\ [Next]_vars => StandsInv' /\ OneWinner'
<1>. SUFFICES ASSUME TypeOK, StandsInv, OneWinner, [Next]_vars
              PROVE  StandsInv' /\ OneWinner'
  OBVIOUS
<1>1. CASE ~\E q \in Requests : Write(q)
  <2>1. UNCHANGED <<objects, bundles, call, effect>>
    BY <1>1, OtherSteps
  <2>2. StandsInv'
    BY <2>1 DEF StandsInv, Did, SameObject, SameBundle
  <2>3. OneWinner'
    BY <2>1 DEF OneWinner, Did, SameObject, SameBundle
  <2>. QED
    BY <2>2, <2>3
<1>2. ASSUME NEW q \in Requests, Write(q) PROVE StandsInv' /\ OneWinner'
  <2>. USE <1>2, CallType
  <2>1. call' = call /\ effect'[q] /\ \A p \in Requests \ {q} : effect'[p] = effect[p]
    BY WriteFrame
  <2>2. \A p \in Requests, op \in Ops :
            /\ Did(p, op) => Did(p, op)'
            /\ Did(p, op)' => p = q \/ Did(p, op)
    BY <2>1 DEF Did
  <2>3. {"createObject", "deleteObject", "createBundle", "deleteBundle"} \subseteq Ops
    BY DEF Ops, ObjectOps, BundleOps
  <2>4. \A op \in Ops : call[q].op = op => Did(q, op)'
    BY <2>1 DEF Did
  <2>5. \A p1, p2 \in Requests : /\ SameObject(p1, p2)' <=> SameObject(p1, p2)
                                 /\ SameBundle(p1, p2)' <=> SameBundle(p1, p2)
    BY <2>1 DEF SameObject, SameBundle
  <2>6. ASSUME NEW p \in Requests, Did(p, "createObject")'
        PROVE  \/ call[p].object \in objects'
               \/ \E d \in Requests : Did(d, "deleteObject")' /\ SameObject(d, p)'
    <3>1. CASE p = q
      BY <2>1, <2>6, <3>1, WriteConditions DEF Did
    <3>2. CASE Did(p, "createObject") /\ call[p].object \in objects
      BY <2>3, <2>4, <2>5, <3>2, WriteMoves DEF SameObject
    <3>3. CASE Did(p, "createObject") /\ call[p].object \notin objects
      BY <2>2, <2>3, <2>5, <3>3 DEF StandsInv
    <3>. QED
      BY <2>2, <2>3, <2>6, <3>1, <3>2, <3>3
  <2>7. ASSUME NEW p \in Requests, Did(p, "deleteObject")'
        PROVE  \/ call[p].object \notin objects'
               \/ \E d \in Requests : Did(d, "createObject")' /\ SameObject(d, p)'
    <3>1. CASE p = q
      BY <2>1, <2>7, <3>1, WriteConditions DEF Did
    <3>2. CASE Did(p, "deleteObject") /\ call[p].object \notin objects
      BY <2>3, <2>4, <2>5, <3>2, WriteMoves DEF SameObject
    <3>3. CASE Did(p, "deleteObject") /\ call[p].object \in objects
      BY <2>2, <2>3, <2>5, <3>3 DEF StandsInv
    <3>. QED
      BY <2>2, <2>3, <2>7, <3>1, <3>2, <3>3
  <2>8. ASSUME NEW p \in Requests, Did(p, "createBundle")'
        PROVE  \/ bundles'[call[p].bundle] # Absent
               \/ \E d \in Requests : Did(d, "deleteBundle")' /\ SameBundle(d, p)'
    <3>1. CASE p = q
      BY <2>1, <2>8, <3>1, WriteConditions DEF Did
    <3>2. CASE Did(p, "createBundle") /\ bundles[call[p].bundle] # Absent
      BY <2>3, <2>4, <2>5, <3>2, WriteMoves DEF SameBundle
    <3>3. CASE Did(p, "createBundle") /\ bundles[call[p].bundle] = Absent
      BY <2>2, <2>3, <2>5, <3>3 DEF StandsInv
    <3>. QED
      BY <2>2, <2>3, <2>8, <3>1, <3>2, <3>3
  <2>9. ASSUME NEW p \in Requests, Did(p, "deleteBundle")'
        PROVE  \/ bundles'[call[p].bundle] = Absent
               \/ \E d \in Requests : Did(d, "createBundle")' /\ SameBundle(d, p)'
    <3>1. CASE p = q
      BY <2>1, <2>9, <3>1, WriteConditions DEF Did
    <3>2. CASE Did(p, "deleteBundle") /\ bundles[call[p].bundle] = Absent
      BY <2>3, <2>4, <2>5, <3>2, WriteMoves DEF SameBundle
    <3>3. CASE Did(p, "deleteBundle") /\ bundles[call[p].bundle] # Absent
      BY <2>2, <2>3, <2>5, <3>3 DEF StandsInv
    <3>. QED
      BY <2>2, <2>3, <2>9, <3>1, <3>2, <3>3
  <2>10. StandsInv'
    BY <2>1, <2>6, <2>7, <2>8, <2>9 DEF StandsInv
  \* The other request of a pair took effect earlier, and the condition of this
  \* write tells that its trace is gone.
  <2>11. ASSUME NEW p \in Requests, p # q, effect[p], call[p].op = call[q].op
         PROVE  /\ call[p].op = "createObject" /\ SameObject(p, q) =>
                      \E d \in Requests : Did(d, "deleteObject")
                                          /\ call[d].object = call[q].object
                /\ call[p].op = "deleteObject" /\ SameObject(p, q) =>
                      \E d \in Requests : Did(d, "createObject")
                                          /\ call[d].object = call[q].object
                /\ call[p].op = "createBundle" /\ SameBundle(p, q) =>
                      \E d \in Requests : Did(d, "deleteBundle")
                                          /\ call[d].bundle = call[q].bundle
                /\ call[p].op = "deleteBundle" /\ SameBundle(p, q) =>
                      \E d \in Requests : Did(d, "createBundle")
                                          /\ call[d].bundle = call[q].bundle
    BY <2>11, WriteConditions DEF StandsInv, Did, SameObject, SameBundle
  <2>12. ASSUME NEW p1 \in Requests, NEW p2 \in Requests, p1 # p2,
                effect'[p1], effect'[p2], call[p1].op = call[p2].op
         PROVE  /\ call[p1].op = "createObject" /\ SameObject(p1, p2) =>
                      \E d \in Requests : Did(d, "deleteObject") /\ SameObject(d, p1)
                /\ call[p1].op = "deleteObject" /\ SameObject(p1, p2) =>
                      \E d \in Requests : Did(d, "createObject") /\ SameObject(d, p1)
                /\ call[p1].op = "createBundle" /\ SameBundle(p1, p2) =>
                      \E d \in Requests : Did(d, "deleteBundle") /\ SameBundle(d, p1)
                /\ call[p1].op = "deleteBundle" /\ SameBundle(p1, p2) =>
                      \E d \in Requests : Did(d, "createBundle") /\ SameBundle(d, p1)
    <3>1. CASE p1 # q /\ p2 # q
      <4>1. effect[p1] /\ effect[p2]
        BY <2>1, <2>12, <3>1
      <4>. QED
        BY <2>12, <4>1 DEF OneWinner
    <3>2. CASE p1 = q
      BY <2>1, <2>11, <2>12, <3>2 DEF SameObject, SameBundle
    <3>3. CASE p2 = q
      BY <2>1, <2>11, <2>12, <3>3 DEF SameObject, SameBundle
    <3>. QED
      BY <3>1, <3>2, <3>3
  <2>13. OneWinner'
    BY <2>1, <2>2, <2>3, <2>5, <2>12 DEF OneWinner
  <2>. QED
    BY <2>10, <2>13
<1>. QED
  BY <1>1, <1>2

\* Of two requests that create, or delete, the same thing one takes effect.
THEOREM CreationsDoNotCollide == Spec => []OneWinner
<1>1. Init => StandsInv /\ OneWinner
  BY InitHistory DEF StandsInv, OneWinner, Did
<1>2. TypeOK /\ StandsInv /\ OneWinner /\ [Next]_vars => StandsInv' /\ OneWinner'
  BY NextWinner
<1>. QED
  BY <1>1, <1>2, TypeCorrect, PTL DEF Spec

-----------------------------------------------------------------------------
(* Only owners change rules.                                               *)

\* An owner who has a request in progress is known to be one, and a request that
\* has passed the check of access was one of an owner, or was misled.
OwnedInv ==
    \A q \in Requests :
        /\ Active(q) /\ Owns(q) => owned[q]
        /\ call[q].op \in RuleOps
           /\ (pc[q] = "write" \/ (pc[q] = "read" /\ call[q].op = "updateRule"))
           => owned[q] \/ misled[q]

\* The check of access.
LEMMA AccessChecked ==
    ASSUME TypeOK, OwnedInv, NEW q \in Requests, CheckAccess(q),
           pc'[q] \in {"write", "read"}
    PROVE  owned[q] \/ misled'[q]
<1>1. PICK owners :
        /\ ~MayChange(call[q].user, owners) => Answer(q, "refused", FALSE)
        /\ Note(q, owners # bundles[call[q].bundle])
  BY DEF CheckAccess
<1>2. MayChange(call[q].user, owners)
  <2>1. Answer(q, "refused", FALSE) => pc'[q] = "done"
    BY DEF Answer, TypeOK
  <2>. QED
    BY <1>1, <2>1
<1>3. CASE owners = bundles[call[q].bundle]
  <2>1. Owns(q) /\ Active(q)
    BY <1>2, <1>3 DEF MayChange, Owns, BundleExists, Active, CheckAccess
  <2>. QED
    BY <2>1 DEF OwnedInv
<1>4. CASE owners # bundles[call[q].bundle]
  BY <1>1, <1>4, NoteFacts
<1>. QED
  BY <1>3, <1>4

\* The other reading steps lead to a write of a rule from a step that comes after
\* the check only.
LEMMA OtherReads ==
    ASSUME TypeOK, OwnedInv, NEW q \in Requests, Reads(q), ~CheckAccess(q),
           call[q].op \in RuleOps,
           pc'[q] = "write" \/ (pc'[q] = "read" /\ call[q].op = "updateRule")
    PROVE  owned[q] \/ misled[q]
<1>. USE DEF TypeOK, Goto, Answer, RuleOps, ObjectOps
<1>1. ~LookupObject(q) /\ ~RereadObject(q) /\ ~ScanReferences(q)
  BY DEF LookupObject, RereadObject, ScanReferences
<1>2. ~LookupBundle(q) /\ ~ScanBundle(q)
  BY DEF LookupBundle, ScanBundle, BundleOps
<1>3. ~FindBundle(q)
  BY DEF FindBundle
<1>4. ~FindSource(q) /\ ~FindDestination(q)
  BY DEF FindSource, FindDestination, FindEnd
<1>5. CASE ReadRule(q)
  <2>1. call[q].op = "updateRule" /\ pc[q] = "read"
    BY <1>5 DEF ReadRule
  <2>. QED
    BY <2>1 DEF OwnedInv
<1>. QED
  BY <1>1, <1>2, <1>3, <1>4, <1>5 DEF Reads

LEMMA OwnsKept ==
    ASSUME UNCHANGED <<bundles, call>>, NEW p \in Requests
    PROVE  Owns(p)' <=> Owns(p)
BY DEF Owns, BundleExists

\* A request that is not at one of the two steps, or was there before.
LEMMA OwnedKept ==
    ASSUME TypeOK, OwnedInv, [Next]_vars, UNCHANGED <<bundles, call, owned>>,
           NEW p \in Requests, pc'[p] = pc[p] \/ pc'[p] \notin Before
    PROVE  /\ Active(p)' /\ Owns(p)' /\ Active(p) => owned'[p]
           /\ call'[p].op \in RuleOps
              /\ (pc'[p] = "write" \/ (pc'[p] = "read" /\ call'[p].op = "updateRule"))
              => owned'[p] \/ misled'[p]
<1>1. misled[p] => misled'[p]
  BY NextGrows DEF Grows
<1>2. "write" \in Before /\ "read" \in Before
  BY BeforeMembers
<1>. QED
  BY <1>1, <1>2, OwnsKept DEF OwnedInv

LEMMA NextOwnedInv == TypeOK /\ OwnedInv /\ [Next]_vars => OwnedInv'
<1>. SUFFICES ASSUME TypeOK, OwnedInv, [Next]_vars, NEW p \in Requests
              PROVE  /\ Active(p)' /\ Owns(p)' => owned'[p]
                     /\ call'[p].op \in RuleOps
                        /\ (pc'[p] = "write" \/ (pc'[p] = "read" /\ call'[p].op = "updateRule"))
                        => owned'[p] \/ misled'[p]
  BY DEF OwnedInv
<1>. DEFINE Goal == /\ Active(p)' /\ Owns(p)' => owned'[p]
                    /\ call'[p].op \in RuleOps
                       /\ (pc'[p] = "write"
                           \/ (pc'[p] = "read" /\ call'[p].op = "updateRule"))
                       => owned'[p] \/ misled'[p]
<1>0. Active(p)' => Active(p) \/ Begin(p)
  BY NextActive DEF Active
<1>1. ASSUME NEW q \in Requests, Reads(q) PROVE Goal
  <2>1. UNCHANGED <<bundles, call, owned>> /\ MisledGrows(q)
    BY <1>1, ReadFrame
  <2>2. pc[q] \in Before /\ OthersStay(q)
    BY <1>1, ReadOutcome, ControlOfType, TroubleControl
       DEF Outcome, Continues, Refuses, Regrets
  <2>3. Active(p)' => Active(p)
    BY <1>0, <2>2 DEF OthersStay, Active, Before, Begin
  <2>4. Active(p)' /\ Owns(p)' => owned'[p]
    BY <2>1, <2>3, OwnsKept DEF OwnedInv
  <2>5. CASE p # q
    BY <2>1, <2>2, <2>4, <2>5, OwnedKept DEF OthersStay
  <2>6. CASE p = q /\ CheckAccess(q)
    BY <2>1, <2>4, <2>6, AccessChecked
  <2>7. CASE p = q /\ ~CheckAccess(q)
    BY <1>1, <2>1, <2>4, <2>7, OtherReads DEF MisledGrows
  <2>. QED
    BY <2>5, <2>6, <2>7
<1>2. ASSUME NEW q \in Requests, Begin(q) PROVE Goal
  <2>1. UNCHANGED <<bundles, call, misled>> /\ owned' = [owned EXCEPT ![q] = Owns(q)]
    BY <1>2 DEF Begin, tableVars
  <2>2. CASE p # q
    <3>1. pc'[p] = pc[p] /\ owned'[p] = owned[p]
      BY <1>2, <2>1, <2>2 DEF Begin, TypeOK
    <3>. QED
      BY <2>1, <3>1, OwnsKept DEF OwnedInv, Active
  <2>3. CASE p = q
    <3>1. owned'[p] = Owns(p)
      BY <2>1, <2>3 DEF TypeOK
    <3>2. pc'[p] = FirstStep(call[p].op)
      BY <1>2, <2>3 DEF Begin, TypeOK
    <3>3. call[p].op \in RuleOps =>
            pc'[p] # "write" /\ (pc'[p] = "read" => call[p].op = "deleteRule")
      BY <3>2 DEF FirstStep, RuleOps, ObjectOps
    <3>. QED
      BY <2>1, <3>1, <3>3, OwnsKept
  <2>. QED
    BY <2>2, <2>3
<1>3. ASSUME NEW q \in Requests, Write(q) PROVE Goal
  <2>1. call' = call /\ misled' = misled
        /\ \A x \in Requests : owned'[x] <=> owned[x] \/ (Active(x) /\ Owns(x)')
    BY <1>3, WriteFrame
  <2>2. /\ pc[q] = "write" /\ pc'[q] \notin Before
        /\ \A x \in Requests \ {q} : pc'[x] = pc[x]
    BY <1>3, WriteControl
  <2>3. Active(p)' => Active(p)
    BY <2>2 DEF Active
  <2>4. "write" \in Before /\ "read" \in Before
    BY BeforeMembers
  <2>. QED
    BY <2>1, <2>2, <2>3, <2>4 DEF OwnedInv
<1>4. ASSUME NEW q \in Requests, Rests(q) PROVE Goal
  <2>1. /\ UNCHANGED <<bundles, call, owned>> /\ OthersStay(q)
        /\ pc' = pc \/ (pc[q] # "idle" /\ pc'[q] \in {"reject", "done"})
    BY <1>4, RestFrame
  <2>2. pc'[p] = pc[p] \/ pc'[p] \notin Before
    BY <2>1 DEF OthersStay, Before
  <2>3. Active(p)' => Active(p)
    BY <1>0, <2>1 DEF Begin, OthersStay, Active
  <2>. QED
    BY <2>1, <2>2, <2>3, OwnedKept
<1>5. ASSUME NEW r \in Rules, FailRule(r) PROVE Goal
  BY <1>5, OwnsKept DEF FailRule, historyVars, OwnedInv, Active
<1>6. CASE UNCHANGED vars
  BY <1>6, OwnsKept DEF vars, OwnedInv, Active
<1>. QED
  BY <1>1, <1>2, <1>3, <1>4, <1>5, <1>6 DEF Next, Step, Reads, Rests

\* A write that changes a rule was made for an owner of the rule's bundle.
LEMMA WriteOfOwner ==
    ASSUME TypeOK, OwnedInv, NEW q \in Requests, Write(q),
           NEW r \in Rules, rules'[r] # rules[r]
    PROVE  ChangedBy(q, r)
<1>. DEFINE c == call[q]
<1>. USE CallType
<1>1. Condition(q) /\ Apply(c) /\ pc[q] = "write"
  BY WriteFrame DEF Write
<1>2. c.op \in RuleOps
  <2>1. c.op \notin RuleOps => rules' = rules
    BY <1>1 DEF Apply, Ops, ObjectOps, BundleOps, RuleOps, tableVars
  <2>. QED
    BY <2>1
<1>3. owned[q] \/ misled[q]
  <2>1. call[q].op \in RuleOps /\ pc[q] = "write"
    BY <1>1, <1>2
  <2>. QED
    BY <2>1 DEF OwnedInv
<1>4. c.rule = r
  BY <1>1, <1>2 DEF Apply, RuleOps, TypeOK
<1>5. CASE c.op = "createRule"
  <2>1. rules[r] = Absent /\ rules'[r] = NewItem(c)
    BY <1>1, <1>4, <1>5 DEF Condition, Apply, Exists, TypeOK
  <2>. QED
    BY <1>1, <1>2, <1>3, <1>4, <2>1, NewItemType DEF ChangedBy, NewItem
<1>6. CASE c.op = "updateRule"
  <2>1. rules[r].bundle = c.bundle /\ rules'[r] = EditedItem(rules[r], c.spec)
    BY <1>1, <1>4, <1>6 DEF Condition, Apply, InBundle, TypeOK
  <2>2. EditedItem(rules[r], c.spec).bundle = rules[r].bundle
    BY DEF EditedItem
  <2>. QED
    BY <1>1, <1>2, <1>3, <1>4, <2>1, <2>2 DEF ChangedBy
<1>7. CASE c.op = "deleteRule"
  <2>1. rules[r].bundle = c.bundle /\ rules'[r] = Absent
    BY <1>1, <1>4, <1>7 DEF Condition, Apply, InBundle, TypeOK
  <2>. QED
    BY <1>1, <1>2, <1>3, <1>4, <2>1 DEF ChangedBy
<1>. QED
  BY <1>2, <1>5, <1>6, <1>7 DEF RuleOps

\* Rules are changed on behalf of owners of their bundle only.
THEOREM ChangesAreAuthorised == Spec => OnlyOwnersChangeRules
<1>1. Init => OwnedInv
  BY InitHistory DEF OwnedInv, Active
<1>2. TypeOK /\ OwnedInv /\ [Next]_vars => OwnedInv'
  BY NextOwnedInv
<1>3. TypeOK /\ OwnedInv /\ [Next]_vars
      => [\A r \in Rules : rules'[r] # rules[r] =>
            (\E q \in Requests : ChangedBy(q, r)) \/ FailRule(r)]_vars
  <2>. SUFFICES ASSUME TypeOK, OwnedInv, [Next]_vars, NEW r \in Rules, rules'[r] # rules[r]
                PROVE  (\E q \in Requests : ChangedBy(q, r)) \/ FailRule(r)
    OBVIOUS
  <2>1. ASSUME NEW q \in Requests, Write(q) PROVE ChangedBy(q, r)
    BY <2>1, WriteOfOwner
  <2>2. ASSUME NEW q \in Requests, Reads(q) \/ Rests(q) PROVE FALSE
    BY <2>2, ReadFrame, RestFrame
  <2>3. ASSUME NEW q \in Requests, Begin(q) PROVE FALSE
    BY <2>3 DEF Begin, tableVars
  <2>4. ASSUME NEW s \in Rules, FailRule(s) PROVE FailRule(r)
    BY <2>4 DEF FailRule, TypeOK
  <2>5. ~UNCHANGED vars
    BY DEF vars
  <2>. QED
    BY <2>1, <2>2, <2>3, <2>4, <2>5 DEF Next, Step, Reads, Rests
<1>. QED
  BY <1>1, <1>2, <1>3, TypeCorrect, PTL DEF Spec, OnlyOwnersChangeRules
=============================================================================
