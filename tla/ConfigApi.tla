------------------------------ MODULE ConfigApi ------------------------------
(***************************************************************************)
(* Requests of the config API that change objects, rule bundles and rules, *)
(* as they interleave.                                                     *)
(*                                                                         *)
(* A request is one invocation of the API Lambda.  Its handler makes one   *)
(* call after the other to the tables and decides on what it read some     *)
(* calls ago; only the write itself is conditional, and its condition says *)
(* nothing about other tables.  Requests that delete what rules refer to   *)
(* look for references first; requests that write rules look for what they *)
(* refer to.  Requests on objects and rules leave an audit entry, some of  *)
(* them without waiting for it.                                            *)
(*                                                                         *)
(* A step is one call of a handler with the code up to the next call.      *)
(* Any call may fail, be carried out without an answer, or be the last one *)
(* of a request that is cut off.  A read that is eventually consistent may *)
(* return an earlier item; the scan for references reads one page.         *)
(*                                                                         *)
(* Simplifications.  Every client makes one call.  Of the content of items *)
(* there is left: who owns a bundle, which bundle and objects a rule       *)
(* names, whether it is FAILED, its version.  Checks of the body and the   *)
(* decision of OPA are the choice Refuse; reads that follow a failed check *)
(* of the validator, and change nothing, are left out.                     *)
(***************************************************************************)
EXTENDS Naturals

CONSTANTS
    Requests,       \* invocations of the API Lambda
    Users,          \* roles on whose behalf requests are made
    Objects,        \* identifiers of objects, given by users
    Bundles,        \* identifiers of rule bundles, given by users
    Rules,          \* identifiers of rules (uuid v4)
    Ownerships,     \* the owner groups that occur
    Specs,          \* the rule contents that occur
    Calls,          \* the calls that occur
    Absent,         \* stands for "no item"
    OutdatedReads,  \* TRUE: GetItem and Query may return an earlier item
    LongTable       \* TRUE: the rules table is longer than one page

ObjectOps == {"createObject", "updateObject", "deleteObject"}
BundleOps == {"createBundle", "updateBundle", "deleteBundle"}
RuleOps == {"createRule", "updateRule", "deleteRule"}
Ops == ObjectOps \cup BundleOps \cup RuleOps

\* What a request asks for.  The fields an operation does not have are ignored.
Call == [op: Ops, user: Users, object: Objects, bundle: Bundles,
         owners: Ownerships, rule: Rules, spec: Specs]

Item == [bundle: Bundles, spec: Specs, failed: BOOLEAN, version: Nat]

ASSUME SpecsAssumption == Specs \subseteq [source: Objects, destination: Objects]
ASSUME OwnershipsAssumption == Ownerships \subseteq SUBSET Users
ASSUME CallsAssumption == Calls \subseteq Call
ASSUME AbsentAssumption == Absent \notin Ownerships /\ Absent \notin Item /\ Absent \notin Nat
ASSUME FlagsAssumption == OutdatedReads \in BOOLEAN /\ LongTable \in BOOLEAN

VARIABLES
    objects,        \* the objects table: the identifiers that have an item
    bundles,        \* the rulebundles table: owner group or Absent
    rules,          \* the rules table
    call,           \* what every request asks for
    pc,             \* the call every request makes next
    seen,           \* version of the rule a request has read, or Absent
    answer,         \* class of the status code a request was answered with
    audits,         \* results in the audit entries of a request
    late,           \* a REJECTED entry is sent and not waited for
    effect,         \* history: the write of the request took effect
    misled,         \* history: a read of the request was outdated or cut short
    met,            \* history: the requests that were in progress together
    owned           \* history: the user was an owner while in progress

tableVars == <<objects, bundles, rules>>
historyVars == <<effect, misled, met, owned>>
vars == <<objects, bundles, rules, call, pc, seen, answer, audits, late,
          effect, misled, met, owned>>

Steps == {"idle", "lookup", "reread", "scan", "bundle", "source", "destination",
          "access", "read", "write", "audit", "reject", "done"}

\* Types; an entry that is not waited for belongs to a request that answers.
TypeOK ==
    /\ objects \subseteq Objects
    /\ bundles \in [Bundles -> Ownerships \cup {Absent}]
    /\ rules \in [Rules -> Item \cup {Absent}]
    /\ call \in [Requests -> Calls]
    /\ pc \in [Requests -> Steps]
    /\ seen \in [Requests -> Nat \cup {Absent}]
    /\ answer \in [Requests -> {"none", "ok", "refused", "error"}]
    /\ audits \in [Requests -> SUBSET {"SUCCESS", "REJECTED"}]
    /\ late \in [Requests -> BOOLEAN]
    /\ effect \in [Requests -> BOOLEAN]
    /\ misled \in [Requests -> BOOLEAN]
    /\ met \in [Requests -> SUBSET Requests]
    /\ owned \in [Requests -> BOOLEAN]
    /\ \A q \in Requests : late[q] => answer[q] \in {"refused", "error"}

-----------------------------------------------------------------------------
(* The tables.                                                             *)

Exists(r) == rules[r] # Absent

Names(r, o) == Exists(r) /\ o \in {rules[r].spec.source, rules[r].spec.destination}

\* A rule of the bundle that DeleteRuleBundle takes into account.
Fills(r, b) == Exists(r) /\ rules[r].bundle = b /\ ~rules[r].failed

\* FilterExpression of getRuleByReferences, after a mutant of it.
SourceReferences(o) == {r \in Rules : Exists(r) /\ rules[r].spec.source = o}
References(o) == {r \in Rules : Names(r, o)}

\* What reads return.  An outdated read of a rule returns a version that is
\* not in the table any more; the versions say which.
SeenObject(o) == IF OutdatedReads THEN BOOLEAN ELSE {o \in objects}

SeenBundle(b) == IF OutdatedReads THEN Ownerships \cup {Absent} ELSE {bundles[b]}

Version(r) == IF Exists(r) THEN rules[r].version ELSE Absent

SeenVersion(r) ==
    {Version(r)} \cup
    IF ~OutdatedReads THEN {}
    ELSE IF Exists(r) THEN {Absent} \cup 0 .. rules[r].version
    ELSE {0}

\* A set of rules as a query or scan returns it: rules may be left out when it
\* stops at the end of a page, or reads an index that lags behind.
SeenRules(found, exact) == IF exact THEN {found} ELSE SUBSET found

\* Mutant of ObjectIsNew: a put without condition.
AnyObject(q) == TRUE

\* The conditions of the writes.
ObjectExists(q) == call[q].object \in objects
ObjectIsNew(q) == call[q].object \notin objects
BundleExists(q) == bundles[call[q].bundle] # Absent
BundleIsNew(q) == bundles[call[q].bundle] = Absent

\* #ruleBundleId = :ruleBundleId, also compared by the handlers.
InBundle(q) == Exists(call[q].rule) => rules[call[q].rule].bundle = call[q].bundle

Condition(q) ==
    CASE call[q].op = "createObject" -> ObjectIsNew(q)
      [] call[q].op \in {"updateObject", "deleteObject"} -> ObjectExists(q)
      [] call[q].op = "createBundle" -> BundleIsNew(q)
      [] call[q].op \in {"updateBundle", "deleteBundle"} -> BundleExists(q)
      [] call[q].op = "createRule" -> ~Exists(call[q].rule)
      [] call[q].op = "updateRule" ->
            /\ Exists(call[q].rule)
            /\ InBundle(q)
            /\ rules[call[q].rule].version = seen[q]
      [] call[q].op = "deleteRule" -> Exists(call[q].rule) /\ InBundle(q)

\* The items the writes put.  A new rule is PENDING and has version 0; an
\* edited one keeps the status that was read, which is the one in the table
\* when the versions agree, and has the next version.
NewItem(c) == [bundle |-> c.bundle, spec |-> c.spec, failed |-> FALSE, version |-> 0]

EditedItem(item, spec) ==
    [bundle |-> item.bundle, spec |-> spec, failed |-> item.failed,
     version |-> item.version + 1]

FailedItem(item) ==
    [bundle |-> item.bundle, spec |-> item.spec, failed |-> TRUE,
     version |-> item.version + 1]

Active(q) == pc[q] \notin {"idle", "done"}

\* The tables to begin with: rules refer to what exists, but a FAILED rule may
\* have lost its bundle; identifiers still to be drawn are not in use.
Init ==
    /\ objects \in SUBSET Objects
    /\ bundles \in [Bundles -> Ownerships \cup {Absent}]
    /\ rules \in [Rules -> [bundle: Bundles, spec: Specs, failed: BOOLEAN, version: {0}]
                            \cup {Absent}]
    /\ \A r \in Rules : Exists(r) =>
           /\ {rules[r].spec.source, rules[r].spec.destination} \subseteq objects
           /\ bundles[rules[r].bundle] # Absent \/ rules[r].failed
    /\ call \in [Requests -> Calls]
    /\ \A q \in Requests : call[q].op = "createRule" =>
           /\ ~Exists(call[q].rule)
           /\ \A p \in Requests \ {q} :
                 call[p].op = "createRule" => call[p].rule # call[q].rule
    /\ pc = [q \in Requests |-> "idle"]
    /\ seen = [q \in Requests |-> Absent]
    /\ answer = [q \in Requests |-> "none"]
    /\ audits = [q \in Requests |-> {}]
    /\ late = [q \in Requests |-> FALSE]
    /\ effect = [q \in Requests |-> FALSE]
    /\ misled = [q \in Requests |-> FALSE]
    /\ met = [q \in Requests |-> {}]
    /\ owned = [q \in Requests |-> FALSE]

-----------------------------------------------------------------------------
(* How a handler goes on.                                                  *)

FirstStep(op) ==
    CASE op \in ObjectOps \cup {"createBundle", "updateBundle"} -> "lookup"
      [] op = "deleteBundle" -> "scan"
      [] op \in {"createRule", "updateRule"} -> "bundle"
      [] op = "deleteRule" -> "read"

Goto(q, step) ==
    /\ pc' = [pc EXCEPT ![q] = step]
    /\ UNCHANGED <<answer, late>>

\* Mutant of Answer: the entry is sent, and the handler goes on waiting.
AnswerLater(q, class, unwaited) ==
    /\ pc' = [pc EXCEPT ![q] = IF unwaited THEN "reject" ELSE "done"]
    /\ answer' = [answer EXCEPT ![q] = IF unwaited THEN "none" ELSE class]
    /\ late' = [late EXCEPT ![q] = unwaited]

\* The handler returns; unwaited says that it has sent a REJECTED entry it does
\* not wait for.
Answer(q, class, unwaited) ==
    /\ pc' = [pc EXCEPT ![q] = "done"]
    /\ answer' = [answer EXCEPT ![q] = class]
    /\ late' = [late EXCEPT ![q] = unwaited]

\* The calls whose errors a handler catches: the answer is 500 or 503 and the
\* attempt is audited, except by the handlers of bundles.
Caught(op, step) ==
    \/ op = "createObject"
    \/ op = "deleteObject" /\ step \in {"scan", "write", "audit"}
    \/ op \in {"createRule", "updateRule"} /\ step \in {"read", "write", "audit"}

\* What a handler does when a call ends with an error.  UpdateObject waits for
\* its REJECTED entry; errors that are not caught, those of that entry among
\* them, are answered by the middleware.
Trouble(q) ==
    IF call[q].op = "updateObject" /\ pc[q] # "reject"
    THEN Goto(q, "reject")
    ELSE Answer(q, "error", Caught(call[q].op, pc[q]))

\* Mutant of AfterWrite: DeleteRule answers without an entry.
AfterWriteNoAudit(q) ==
    IF call[q].op \in BundleOps \cup {"deleteRule"}
    THEN Answer(q, "ok", FALSE)
    ELSE Goto(q, "audit")

\* The step after the write: an audit entry, or the answer 200 or 201.
AfterWrite(q) ==
    IF call[q].op \in BundleOps
    THEN Answer(q, "ok", FALSE)
    ELSE Goto(q, "audit")

\* A read returned something else than what is in the table.
Note(q, wrong) == misled' = [misled EXCEPT ![q] = @ \/ wrong]

-----------------------------------------------------------------------------
(* The steps of a request.                                                 *)

Owns(q) ==
    BundleExists(q) /\ call[q].user \in bundles[call[q].bundle]

Begin(q) ==
    /\ pc[q] = "idle"
    /\ pc' = [pc EXCEPT ![q] = FirstStep(call[q].op)]
    /\ met' = [p \in Requests |->
                  IF p = q THEN {x \in Requests : Active(x)}
                  ELSE IF Active(p) THEN met[p] \cup {q}
                  ELSE met[p]]
    /\ owned' = [owned EXCEPT ![q] = Owns(q)]
    /\ UNCHANGED <<tableVars, call, seen, answer, audits, late, effect, misled>>

\* A parameter or the body is refused, or OPA decides NON_COMPLIANT: 400.
Refuse(q) ==
    /\ pc[q] \in {FirstStep(call[q].op), "scan", "access"}
    /\ Answer(q, "refused", FALSE)
    /\ UNCHANGED <<tableVars, call, seen, audits, historyVars>>

\* getObjectBy in the three handlers of objects.  A duplicate is audited.
LookupObject(q) ==
    /\ pc[q] = "lookup"
    /\ call[q].op \in ObjectOps
    /\ \E present \in SeenObject(call[q].object) :
         /\ \/ /\ call[q].op = "createObject"
               /\ IF present THEN Answer(q, "refused", TRUE) ELSE Goto(q, "write")
            \/ /\ call[q].op = "updateObject"
               /\ IF present THEN Goto(q, "reread") ELSE Answer(q, "refused", FALSE)
            \/ /\ call[q].op = "deleteObject"
               /\ IF present THEN Goto(q, "scan") ELSE Answer(q, "refused", FALSE)
         /\ Note(q, present # ObjectExists(q))
    /\ UNCHANGED <<tableVars, call, seen, audits, effect, met, owned>>

\* updateObject of the data source reads the object once more.
RereadObject(q) ==
    /\ pc[q] = "reread"
    /\ call[q].op = "updateObject"
    /\ \E present \in SeenObject(call[q].object) :
         /\ IF present THEN Goto(q, "write") ELSE Trouble(q)
         /\ Note(q, present # ObjectExists(q))
    /\ UNCHANGED <<tableVars, call, seen, audits, effect, met, owned>>

\* DeleteObject looks for rules that refer to the object, in one page of a scan.
ScanReferences(q) ==
    /\ pc[q] = "scan"
    /\ call[q].op = "deleteObject"
    /\ \E found \in SeenRules(References(call[q].object), ~OutdatedReads /\ ~LongTable) :
         /\ IF found = {} THEN Goto(q, "write") ELSE Answer(q, "refused", FALSE)
         /\ Note(q, found # References(call[q].object))
    /\ UNCHANGED <<tableVars, call, seen, audits, effect, met, owned>>

\* getRuleBundleBy in the three handlers of bundles.  CreateRuleBundle answers
\* 409; for the others a missing bundle is an error of the data source.
LookupBundle(q) ==
    /\ pc[q] = "lookup"
    /\ call[q].op \in BundleOps
    /\ \E owners \in SeenBundle(call[q].bundle) :
         /\ IF call[q].op = "createBundle"
            THEN IF owners = Absent THEN Goto(q, "write") ELSE Answer(q, "refused", FALSE)
            ELSE IF owners = Absent THEN Trouble(q) ELSE Goto(q, "write")
         /\ Note(q, owners # bundles[call[q].bundle])
    /\ UNCHANGED <<tableVars, call, seen, audits, effect, met, owned>>

\* DeleteRuleBundle reads all pages of the rules that are not FAILED.
ScanBundle(q) ==
    /\ pc[q] = "scan"
    /\ call[q].op = "deleteBundle"
    /\ LET rulesOf == {r \in Rules : Fills(r, call[q].bundle)}
       IN \E found \in SeenRules(rulesOf, ~OutdatedReads) :
            /\ IF found = {} THEN Goto(q, "lookup") ELSE Answer(q, "refused", FALSE)
            /\ Note(q, found # rulesOf)
    /\ UNCHANGED <<tableVars, call, seen, audits, effect, met, owned>>

\* The validator of CreateRule and UpdateRule looks for the bundle, the source
\* and the destination, one after the other.
FindBundle(q) ==
    /\ pc[q] = "bundle"
    /\ call[q].op \in {"createRule", "updateRule"}
    /\ \E owners \in SeenBundle(call[q].bundle) :
         /\ IF owners # Absent THEN Goto(q, "source") ELSE Answer(q, "refused", FALSE)
         /\ Note(q, owners # bundles[call[q].bundle])
    /\ UNCHANGED <<tableVars, call, seen, audits, effect, met, owned>>

FindEnd(q, step, object, next) ==
    /\ pc[q] = step
    /\ call[q].op \in {"createRule", "updateRule"}
    /\ \E present \in SeenObject(object) :
         /\ IF present THEN Goto(q, next) ELSE Answer(q, "refused", FALSE)
         /\ Note(q, present # (object \in objects))
    /\ UNCHANGED <<tableVars, call, seen, audits, effect, met, owned>>

FindSource(q) == FindEnd(q, "source", call[q].spec.source, "destination")

FindDestination(q) == FindEnd(q, "destination", call[q].spec.destination, "access")

\* getRuleBy: UpdateRule answers 404 when there is no such rule in the bundle;
\* DeleteRule checks the access to the bundle first.
ReadRule(q) ==
    /\ pc[q] = "read"
    /\ call[q].op \in {"updateRule", "deleteRule"}
    /\ \E version \in SeenVersion(call[q].rule) :
         /\ seen' = [seen EXCEPT ![q] = version]
         /\ IF call[q].op = "deleteRule" THEN Goto(q, "access")
            ELSE IF version # Absent /\ InBundle(q) THEN Goto(q, "write")
            ELSE Answer(q, "refused", FALSE)
         /\ Note(q, version # Version(call[q].rule))
    /\ UNCHANGED <<tableVars, call, audits, effect, met, owned>>

\* The access a user has to a bundle whose owner group was read, and after a
\* mutant that does not look for the user.
MayChangeAny(user, owners) == owners # Absent
MayChange(user, owners) == owners # Absent /\ user \in owners

\* checkRuleGroupAccess: 404 without the bundle, 403 for a user who is not in
\* its owner group.  DeleteRule then refuses, and audits, what it did not find.
CheckAccess(q) ==
    /\ pc[q] = "access"
    /\ call[q].op \in RuleOps
    /\ \E owners \in SeenBundle(call[q].bundle) :
         /\ IF ~MayChange(call[q].user, owners) THEN Answer(q, "refused", FALSE)
            ELSE IF call[q].op = "createRule" THEN Goto(q, "write")
            ELSE IF call[q].op = "updateRule" THEN Goto(q, "read")
            ELSE IF seen[q] # Absent /\ InBundle(q) THEN Goto(q, "write")
            ELSE Goto(q, "reject")
         /\ Note(q, owners # bundles[call[q].bundle])
    /\ UNCHANGED <<tableVars, call, seen, audits, effect, met, owned>>

-----------------------------------------------------------------------------
(* Writes, audit entries, errors.                                          *)

\* The content of an object is not modelled: updateObject puts the same item.
Apply(c) ==
    CASE c.op = "createObject" ->
            objects' = objects \cup {c.object} /\ UNCHANGED <<bundles, rules>>
      [] c.op = "updateObject" ->
            UNCHANGED tableVars
      [] c.op = "deleteObject" ->
            objects' = objects \ {c.object} /\ UNCHANGED <<bundles, rules>>
      [] c.op \in {"createBundle", "updateBundle"} ->
            bundles' = [bundles EXCEPT ![c.bundle] = c.owners] /\ UNCHANGED <<objects, rules>>
      [] c.op = "deleteBundle" ->
            bundles' = [bundles EXCEPT ![c.bundle] = Absent] /\ UNCHANGED <<objects, rules>>
      [] c.op = "createRule" ->
            rules' = [rules EXCEPT ![c.rule] = NewItem(c)] /\ UNCHANGED <<objects, bundles>>
      [] c.op = "updateRule" ->
            /\ rules' = [rules EXCEPT ![c.rule] = EditedItem(rules[c.rule], c.spec)]
            /\ UNCHANGED <<objects, bundles>>
      [] c.op = "deleteRule" ->
            rules' = [rules EXCEPT ![c.rule] = Absent] /\ UNCHANGED <<objects, bundles>>

\* The write is carried out; its answer may be lost.
Write(q) ==
    /\ pc[q] = "write"
    /\ Condition(q)
    /\ Apply(call[q])
    /\ AfterWrite(q) \/ Trouble(q)
    /\ effect' = [effect EXCEPT ![q] = TRUE]
    /\ UNCHANGED <<call, seen, audits, misled, met>>
    /\ owned' = [p \in Requests |-> owned[p] \/ (Active(p) /\ Owns(p)')]

WriteRefused(q) ==
    /\ pc[q] = "write"
    /\ ~Condition(q)
    /\ Trouble(q)
    /\ UNCHANGED <<tableVars, call, seen, audits, historyVars>>

\* The entry SUCCESS is written and waited for; its answer may be lost.
AuditSuccess(q) ==
    /\ pc[q] = "audit"
    /\ audits' = [audits EXCEPT ![q] = @ \cup {"SUCCESS"}]
    /\ Answer(q, "ok", FALSE) \/ Trouble(q)
    /\ UNCHANGED <<tableVars, call, seen, historyVars>>

\* UpdateObject and DeleteRule wait for their REJECTED entry.
AuditRejected(q) ==
    /\ pc[q] = "reject"
    /\ audits' = [audits EXCEPT ![q] = @ \cup {"REJECTED"}]
    /\ Answer(q, IF call[q].op = "updateObject" THEN "error" ELSE "refused", FALSE)
    /\ UNCHANGED <<tableVars, call, seen, historyVars>>

\* An entry that is not waited for arrives; it is lost with the environment
\* when it never does.
AuditLate(q) ==
    /\ late[q]
    /\ late' = [late EXCEPT ![q] = FALSE]
    /\ audits' = [audits EXCEPT ![q] = @ \cup {"REJECTED"}]
    /\ UNCHANGED <<tableVars, call, pc, seen, answer, historyVars>>

\* The next call fails and leaves no trace.
Fail(q) ==
    /\ Active(q)
    /\ Trouble(q)
    /\ UNCHANGED <<tableVars, call, seen, audits, historyVars>>

\* The request is cut off, by its timeout or with its environment.
Crash(q) ==
    /\ Active(q)
    /\ pc' = [pc EXCEPT ![q] = "done"]
    /\ UNCHANGED <<tableVars, call, seen, answer, audits, late, historyVars>>

\* A synchronisation makes a rule FAILED.
FailRule(r) ==
    /\ Exists(r) /\ ~rules[r].failed
    /\ rules' = [rules EXCEPT ![r] = FailedItem(rules[r])]
    /\ UNCHANGED <<objects, bundles, call, pc, seen, answer, audits, late, historyVars>>

Step(q) ==
    \/ Begin(q) \/ Refuse(q)
    \/ LookupObject(q) \/ RereadObject(q) \/ ScanReferences(q)
    \/ LookupBundle(q) \/ ScanBundle(q)
    \/ FindBundle(q) \/ FindSource(q) \/ FindDestination(q)
    \/ ReadRule(q) \/ CheckAccess(q)
    \/ Write(q) \/ WriteRefused(q)
    \/ AuditSuccess(q) \/ AuditRejected(q) \/ AuditLate(q)
    \/ Fail(q) \/ Crash(q)

Next ==
    \/ \E q \in Requests : Step(q)
    \/ \E r \in Rules : FailRule(r)

Spec == Init /\ [][Next]_vars

-----------------------------------------------------------------------------
(* Properties.                                                             *)

Did(d, op) == effect[d] /\ call[d].op = op

Wrote(w, r) == effect[w] /\ call[w].op \in {"createRule", "updateRule"} /\ call[w].rule = r

\* The deletion d could not know of rule r: what it read was outdated or cut
\* short, or the rule was written by a request in progress at the same time.
Raced(d, r) ==
    misled[d] \/ \E w \in Requests : Wrote(w, r) /\ w \in met[d]

\* Rule r was written by a request that was misled by what it read.
Misread(r) == \E w \in Requests : Wrote(w, r) /\ misled[w]

\* Referential integrity, as far as the checks before the writes carry: a rule
\* that names a missing object, or lies in a missing bundle without being FAILED,
\* was left behind by a deletion that overlapped the request that wrote the rule,
\* or by a read that did not return what was there.  One request after the
\* other, on exact reads, leaves no such rule (CreateRuleInputValidator,
\* DeleteObjectHandler, DeleteRuleBundleHandler).
DanglingOnlyByRace ==
    \A r \in Rules : Exists(r) /\ ~Misread(r) =>
        /\ \A o \in Objects : Names(r, o) /\ o \notin objects =>
              \E d \in Requests :
                  Did(d, "deleteObject") /\ call[d].object = o /\ Raced(d, r)
        /\ \A b \in Bundles : Fills(r, b) /\ bundles[b] = Absent =>
              \E d \in Requests :
                  Did(d, "deleteBundle") /\ call[d].bundle = b /\ Raced(d, r)

\* The audit trail: a change that is confirmed to the client is on record, what
\* is on record as SUCCESS was done, what is refused was not done, and a request
\* that is on record both as SUCCESS and REJECTED was never confirmed.  (The
\* handlers of objects and rules; the entries are separate writes.)
AuditTrail ==
    \A q \in Requests :
        /\ answer[q] = "ok" =>
              effect[q] /\ (call[q].op \in BundleOps \/ "SUCCESS" \in audits[q])
        /\ "SUCCESS" \in audits[q] => effect[q]
        /\ answer[q] = "refused" => ~effect[q]
        /\ {"SUCCESS", "REJECTED"} \subseteq audits[q] => answer[q] \in {"none", "error"}

SameObject(p, q) == call[p].object = call[q].object
SameBundle(p, q) == call[p].bundle = call[q].bundle

\* Two requests that create, or that delete, the same object or bundle do not
\* both take effect unless a request of the opposite kind did so too, although
\* both may have looked before either wrote.
OneWinner ==
    \A p, q \in Requests : p # q /\ effect[p] /\ effect[q] /\ call[p].op = call[q].op =>
        /\ call[p].op = "createObject" /\ SameObject(p, q) =>
              \E d \in Requests : Did(d, "deleteObject") /\ SameObject(d, p)
        /\ call[p].op = "deleteObject" /\ SameObject(p, q) =>
              \E c \in Requests : Did(c, "createObject") /\ SameObject(c, p)
        /\ call[p].op = "createBundle" /\ SameBundle(p, q) =>
              \E d \in Requests : Did(d, "deleteBundle") /\ SameBundle(d, p)
        /\ call[p].op = "deleteBundle" /\ SameBundle(p, q) =>
              \E c \in Requests : Did(c, "createBundle") /\ SameBundle(c, p)

\* A request changes a rule of the bundle it names only, and only if its user was
\* an owner of that bundle at some time while the request was in progress, or
\* was one according to an outdated read (RuleGroupAuthenticationValidator looks
\* at the bundle some calls before the write).
ChangedBy(q, r) ==
    /\ pc[q] = "write" /\ call[q].op \in RuleOps /\ call[q].rule = r
    /\ \A item \in {rules[r], rules'[r]} \ {Absent} : item.bundle = call[q].bundle
    /\ owned[q] \/ misled[q]

OnlyOwnersChangeRules ==
    [][\A r \in Rules : rules'[r] # rules[r] =>
          (\E q \in Requests : ChangedBy(q, r)) \/ FailRule(r)]_vars

=============================================================================
