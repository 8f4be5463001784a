------------------------------ MODULE RuleSync ------------------------------
(***************************************************************************)
(* Synchronisation of one AWS Network Firewall (ANFW) rule group with the  *)
(* rules table.                                                            *)
(*                                                                         *)
(* Three kinds of process share the table.  A sync is one invocation of    *)
(* the auto-config Lambda (RuleConfigHandler.handle): it reads the bundles *)
(* of the rule group, reads and resolves their rules bundle after bundle,  *)
(* replaces the rules of the rule group and then writes a status for every *)
(* rule, one conditional UpdateItem after the other.  A client is a config *)
(* API request that edits a rule: it reads the item and puts it back with  *)
(* a condition on the version.  Rules are also created and deleted by      *)
(* requests that read nothing they depend on.  Any process can stop        *)
(* between two calls.                                                      *)
(*                                                                         *)
(* A sync lives in a Lambda execution environment, which serves one        *)
(* invocation at a time and keeps the module constants of the code between *)
(* invocations; DEFAULT_RULE is such a constant and is written to.         *)
(*                                                                         *)
(* Simplifications.  Objects are not a variable: they and the resources    *)
(* they stand for may change between any two calls, so what a sync sees of *)
(* them is chosen when it reads a bundle.  The bundles of the rule group   *)
(* are fixed.  Notifications and audit entries are left out.               *)
(***************************************************************************)
EXTENDS Naturals

CONSTANTS
    Rules,          \* identifiers of rules (uuid v4, never handed out twice)
    Bundles,        \* the bundles that target the rule group
    Objects,        \* identifiers of objects
    Specs,          \* the rule contents that occur
    Syncs,          \* execution environments of the auto-config Lambda
    Clients,        \* config API requests that edit rules
    Absent,         \* stands for "no item", "no entry" and "no request"
    DefaultRule,    \* the default rule and its content
    StaleReads,     \* TRUE: reads of the table may return an older item
    PartialBatches, \* TRUE: BatchGetItem may leave keys unprocessed
    MaxSyncs,       \* bound: invocations of the auto-config Lambda
    MaxEdits        \* bound: requests of the config API

ASSUME SpecsAssumption == Specs \subseteq [source: Objects, destination: Objects]
ASSUME FlagsAssumption == StaleReads \in BOOLEAN /\ PartialBatches \in BOOLEAN
ASSUME BoundsAssumption == MaxSyncs \in Nat /\ MaxEdits \in Nat
ASSUME DefaultAssumption == DefaultRule \notin Rules

Statuses == {"PENDING", "ACTIVE", "FAILED"}

Item == [bundle: Bundles, spec: Specs, status: Statuses, version: Nat]

\* The copy of a rule a sync works on; many says that the rule text lists
\* several addresses, separated by commas.
Entry == [spec: Specs, status: Statuses, version: Nat, many: BOOLEAN]

\* A rule text in the rule group, and the one of DEFAULT_RULE.
Text == [rule: Rules, spec: Specs]
DefaultText == [rule |-> DefaultRule, spec |-> DefaultRule]

\* What a sync may find behind the identifier of an object: no object, a
\* resolver that reports an error, no address, one address, several.
Sightings == {"missing", "unreachable", "empty", "one", "many"}

ASSUME AbsentAssumption ==
    /\ Absent \notin Item
    /\ Absent \notin Entry

VARIABLES
    rules,          \* the rules table: an item or Absent for every identifier
    firewall,       \* the texts in the rule group
    token,          \* update token of the rule group
    pc,             \* step of every sync
    todo,           \* bundles a sync has still to read
    batch,          \* copies of rules a sync works on
    held,           \* update token a sync got from DescribeRuleGroup
    unwritten,      \* rules whose status a sync has still to write
    response,       \* status code of the last invocation in an environment
    defaultStatus,  \* status of DEFAULT_RULE in every environment
    request,        \* what a client is about to write
    started,        \* number of invocations so far
    edits,          \* number of API requests so far
    history,        \* history: every item an identifier ever had
    deployed,       \* history: every text that ever was in the rule group
    pushed          \* history: the current invocation replaced the texts

tableVars == <<rules, history>>
firewallVars == <<firewall, token, deployed>>
syncVars == <<pc, todo, batch, held, unwritten, response, pushed>>
clientVars == <<request, edits>>
vars == <<rules, firewall, token, pc, todo, batch, held, unwritten, response,
          defaultStatus, request, started, edits, history, deployed, pushed>>

NoBatch == [r \in Rules |-> Absent]

\* The rules a sync has a copy of.
Copies(s) == {r \in Rules : batch[s][r] # Absent}

TypeOK ==
    /\ rules \in [Rules -> Item \cup {Absent}]
    /\ firewall \subseteq Text \cup {DefaultText}
    /\ token \in Nat
    /\ pc \in [Syncs -> {"idle", "read", "describe", "update", "record"}]
    /\ todo \in [Syncs -> SUBSET Bundles]
    /\ batch \in [Syncs -> [Rules -> Entry \cup {Absent}]]
    /\ held \in [Syncs -> Nat]
    /\ unwritten \in [Syncs -> SUBSET Rules]
    /\ \A s \in Syncs : unwritten[s] \subseteq Copies(s)
    /\ response \in [Syncs -> {"none", "200", "404", "503"}]
    /\ defaultStatus \in [Syncs -> Statuses]
    /\ request \in [Clients -> [rule: Rules, seen: Item, spec: Specs] \cup {Absent}]
    /\ started \in Nat
    /\ edits \in Nat
    /\ history \in [Rules -> SUBSET Item]
    /\ deployed \subseteq Text \cup {DefaultText}
    /\ pushed \in [Syncs -> BOOLEAN]

Init ==
    /\ rules = [r \in Rules |-> Absent]
    /\ firewall = {}
    /\ token = 0
    /\ pc = [s \in Syncs |-> "idle"]
    /\ todo = [s \in Syncs |-> {}]
    /\ batch = [s \in Syncs |-> NoBatch]
    /\ held = [s \in Syncs |-> 0]
    /\ unwritten = [s \in Syncs |-> {}]
    /\ response = [s \in Syncs |-> "none"]
    /\ defaultStatus = [s \in Syncs |-> "PENDING"]
    /\ request = [c \in Clients |-> Absent]
    /\ started = 0
    /\ edits = 0
    /\ history = [r \in Rules |-> {}]
    /\ deployed = {}
    /\ pushed = [s \in Syncs |-> FALSE]

-----------------------------------------------------------------------------
(* The tables.                                                             *)

\* What a read of rule r may return.  Query on the index ruleBundleId and
\* GetItem are eventually consistent.
Visible(r) ==
    IF StaleReads THEN history[r] \cup {rules[r], Absent} ELSE {rules[r]}

\* One write to the rules table.
Store(r, item) ==
    /\ rules' = [rules EXCEPT ![r] = item]
    /\ history' = [history EXCEPT ![r] = @ \cup {item}]

\* Mutant of SameVersion: the write only asks for the item to exist.
SomeVersion(r, version) == rules[r] # Absent

\* The condition #version = :expectedVersion of a write; it is false when
\* there is no item.
SameVersion(r, version) ==
    /\ rules[r] # Absent
    /\ rules[r].version = version

-----------------------------------------------------------------------------
(* The config API.                                                         *)

\* Mutant of CreateRule: the identifier of a deleted rule is given out again.
CreateRuleAgain(r) ==
    /\ edits < MaxEdits
    /\ rules[r] = Absent
    /\ \E b \in Bundles, c \in Specs :
          Store(r, [bundle |-> b, spec |-> c, status |-> "PENDING", version |-> 0])
    /\ edits' = edits + 1
    /\ UNCHANGED <<firewallVars, syncVars, defaultStatus, request, started>>

CreateRule(r) ==
    /\ edits < MaxEdits
    /\ history[r] = {}
    /\ \E b \in Bundles, c \in Specs :
          Store(r, [bundle |-> b, spec |-> c, status |-> "PENDING", version |-> 0])
    /\ edits' = edits + 1
    /\ UNCHANGED <<firewallVars, syncVars, defaultStatus, request, started>>

\* The request has been validated and authorised; it reads the rule.
ReadForUpdate(c, r) ==
    /\ edits < MaxEdits
    /\ request[c] = Absent
    /\ \E seen \in Visible(r) \ {Absent}, spec \in Specs :
          request' = [request EXCEPT ![c] =
                        [rule |-> r, seen |-> seen, spec |-> spec]]
    /\ edits' = edits + 1
    /\ UNCHANGED <<tableVars, firewallVars, syncVars, defaultStatus, started>>

\* Mutant of Updated: the version stays.
UpdatedInPlace(q) == [q.seen EXCEPT !.spec = q.spec]

\* Mutant of Updated: an edit makes the rule PENDING again.
UpdatedPending(q) ==
    [q.seen EXCEPT !.spec = q.spec, !.status = "PENDING", !.version = q.seen.version + 1]

\* The item put back: the content of the request, the status that was read.
Updated(q) == [q.seen EXCEPT !.spec = q.spec, !.version = q.seen.version + 1]

WriteUpdate(c) ==
    /\ request[c] # Absent
    /\ SameVersion(request[c].rule, request[c].seen.version)
    /\ rules[request[c].rule].bundle = request[c].seen.bundle
    /\ Store(request[c].rule, Updated(request[c]))
    /\ request' = [request EXCEPT ![c] = Absent]
    /\ UNCHANGED <<firewallVars, syncVars, defaultStatus, started, edits>>

\* The condition is false, the call fails, or the Lambda stops.
FailUpdate(c) ==
    /\ request[c] # Absent
    /\ request' = [request EXCEPT ![c] = Absent]
    /\ UNCHANGED <<tableVars, firewallVars, syncVars, defaultStatus, started, edits>>

\* The delete has no condition on the version, so nothing that was read
\* before matters.
DeleteRule(r) ==
    /\ edits < MaxEdits
    /\ rules[r] # Absent
    /\ rules' = [rules EXCEPT ![r] = Absent]
    /\ edits' = edits + 1
    /\ UNCHANGED <<history, firewallVars, syncVars, defaultStatus, request, started>>

-----------------------------------------------------------------------------
(* The auto-config Lambda.                                                 *)

\* Mutant of End: the list of statuses to write survives the invocation.
EndUnfinished(s, code) ==
    /\ pc' = [pc EXCEPT ![s] = "idle"]
    /\ todo' = [todo EXCEPT ![s] = {}]
    /\ batch' = [batch EXCEPT ![s] = NoBatch]
    /\ held' = [held EXCEPT ![s] = 0]
    /\ response' = [response EXCEPT ![s] = code]
    /\ pushed' = [pushed EXCEPT ![s] = FALSE]
    /\ UNCHANGED unwritten

\* The invocation ends with a status code; its local variables are gone.
End(s, code) ==
    /\ pc' = [pc EXCEPT ![s] = "idle"]
    /\ todo' = [todo EXCEPT ![s] = {}]
    /\ batch' = [batch EXCEPT ![s] = NoBatch]
    /\ held' = [held EXCEPT ![s] = 0]
    /\ unwritten' = [unwritten EXCEPT ![s] = {}]
    /\ response' = [response EXCEPT ![s] = code]
    /\ pushed' = [pushed EXCEPT ![s] = FALSE]

\* An invocation with the identifiers of all bundles reads their items.
StartSync(s) ==
    /\ pc[s] = "idle"
    /\ started < MaxSyncs
    /\ started' = started + 1
    /\ \E found \in SUBSET Bundles :
          /\ found = Bundles \/ PartialBatches
          /\ IF found = {}
             THEN End(s, "404")
             ELSE /\ pc' = [pc EXCEPT ![s] = "read"]
                  /\ todo' = [todo EXCEPT ![s] = found]
                  /\ response' = [response EXCEPT ![s] = "none"]
                  /\ UNCHANGED <<batch, held, unwritten, pushed>>
    /\ UNCHANGED <<tableVars, firewallVars, clientVars, defaultStatus>>

\* Resolution of a rule whose objects are seen as in view.
Ends(spec) == {spec.source, spec.destination}
Unresolved(spec, view) == \E o \in Ends(spec) : view[o] = "missing"
Unreachable(spec, view) ==
    /\ ~Unresolved(spec, view)
    /\ \E o \in Ends(spec) : view[o] = "unreachable"

\* Mutant of Resolved: the ends of the rule are swapped.
ResolvedBackwards(item, view) ==
    [spec    |-> [source |-> item.spec.destination, destination |-> item.spec.source],
     version |-> item.version,
     status  |-> item.status,
     many    |-> FALSE]

Resolved(item, view) ==
    [spec    |-> item.spec,
     version |-> item.version,
     status  |-> IF \E o \in Ends(item.spec) : view[o] \in {"missing", "empty"}
                 THEN "FAILED" ELSE item.status,
     many    |-> \E o \in Ends(item.spec) : view[o] = "many"]

\* The rules of bundle b that getRulesBy returns, when the index shows
\* row[r] for every r.
Selected(row, b) ==
    {r \in Rules : /\ row[r] # Absent
                   /\ row[r].bundle = b
                   /\ row[r].status # "FAILED"}

\* Read and resolve the rules of the next bundle.  One object that cannot
\* be reached ends the whole invocation.
ReadBundle(s) ==
    /\ pc[s] = "read"
    /\ \E b \in todo[s],
          row \in {f \in [Rules -> UNION {Visible(r) : r \in Rules}] :
                      \A r \in Rules : f[r] \in Visible(r)},
          view \in [Objects -> Sightings] :
          LET chosen == Selected(row, b)
          IN  IF \E r \in chosen : Unreachable(row[r].spec, view)
              THEN End(s, "503")
              ELSE /\ batch' = [batch EXCEPT ![s] =
                        [r \in Rules |-> IF r \in chosen THEN Resolved(row[r], view)
                                                         ELSE @[r]]]
                   /\ todo' = [todo EXCEPT ![s] = @ \ {b}]
                   /\ pc' = [pc EXCEPT ![s] = IF todo[s] = {b} THEN "describe" ELSE "read"]
                   /\ UNCHANGED <<held, unwritten, response, pushed>>
    /\ UNCHANGED <<tableVars, firewallVars, clientVars, defaultStatus, started>>

\* The copies that are sent to the rule group, and their texts; DEFAULT_RULE
\* takes the place of an empty batch.
Targets(s) == {r \in Copies(s) : batch[s][r].status # "FAILED"}
Texts(s) ==
    IF Copies(s) = {}
    THEN {t \in {DefaultText} : defaultStatus[s] # "FAILED"}
    ELSE {[rule |-> r, spec |-> batch[s][r].spec] : r \in Targets(s)}

\* What follows the call of ANFW, with the statuses it brought about: they
\* are written, except that of DEFAULT_RULE.
WriteStatuses(s, copies) ==
    IF Copies(s) = {}
    THEN End(s, "200")
    ELSE /\ pc' = [pc EXCEPT ![s] = "record"]
         /\ batch' = [batch EXCEPT ![s] = copies]
         /\ unwritten' = [unwritten EXCEPT ![s] = Copies(s)]
         /\ UNCHANGED <<todo, held, response>>

WithStatus(s, chosen, status) ==
    [r \in Rules |-> IF r \in chosen \cap Copies(s)
                     THEN [batch[s][r] EXCEPT !.status = status] ELSE batch[s][r]]

\* Every copy is FAILED, or DEFAULT_RULE is: ANFW is not called.
SkipFirewall(s) ==
    /\ pc[s] = "describe"
    /\ Texts(s) = {}
    /\ WriteStatuses(s, batch[s])
    /\ pushed' = [pushed EXCEPT ![s] = FALSE]
    /\ UNCHANGED <<tableVars, firewallVars, clientVars, defaultStatus, started>>

DescribeRuleGroup(s) ==
    /\ pc[s] = "describe"
    /\ Texts(s) # {}
    /\ held' = [held EXCEPT ![s] = token]
    /\ pc' = [pc EXCEPT ![s] = "update"]
    /\ UNCHANGED <<tableVars, firewallVars, clientVars, defaultStatus, started,
                   todo, batch, unwritten, response, pushed>>

\* ANFW replaces the texts when the token is the current one.
Replace(s) ==
    /\ held[s] = token
    /\ firewall' = Texts(s)
    /\ deployed' = deployed \cup Texts(s)
    /\ token' = token + 1

\* Mutant of UpdateAccepted: the copies that were not sent become ACTIVE too.
UpdateAcceptedForAll(s) ==
    /\ pc[s] = "update"
    /\ Replace(s)
    /\ WriteStatuses(s, WithStatus(s, Copies(s), "ACTIVE"))
    /\ pushed' = [pushed EXCEPT ![s] = Copies(s) # {}]
    /\ UNCHANGED <<defaultStatus, tableVars, clientVars, started>>

UpdateAccepted(s) ==
    /\ pc[s] = "update"
    /\ Replace(s)
    /\ WriteStatuses(s, WithStatus(s, Targets(s), "ACTIVE"))
    /\ pushed' = [pushed EXCEPT ![s] = Copies(s) # {}]
    /\ defaultStatus' = [defaultStatus EXCEPT ![s] =
                            IF Copies(s) = {} THEN "ACTIVE" ELSE @]
    /\ UNCHANGED <<tableVars, clientVars, started>>

\* ANFW replaces the texts and the sync sees an error.
UpdateUnanswered(s) ==
    /\ pc[s] = "update"
    /\ Replace(s)
    /\ End(s, "503")
    /\ UNCHANGED <<tableVars, clientVars, defaultStatus, started>>

\* An InvalidRequestException of either call.  Its message is cut at the
\* commas and the second piece is searched for the name of a rule: blamed is
\* the rule ANFW complains about, or Absent when it names none.  A rule text
\* with several addresses has a comma before the name.
UpdateRejected(s, blamed) ==
    /\ \/ pc[s] = "update"
       \/ pc[s] = "describe" /\ Texts(s) # {} /\ blamed = Absent
    /\ LET named == {r \in Targets(s) : r = blamed /\ ~batch[s][r].many}
       IN  WriteStatuses(s, WithStatus(s, IF named = {} THEN Rules ELSE named, "FAILED"))
    /\ pushed' = [pushed EXCEPT ![s] = FALSE]
    /\ defaultStatus' = [defaultStatus EXCEPT ![s] =
                            IF Copies(s) = {} THEN "FAILED" ELSE @]
    /\ UNCHANGED <<tableVars, firewallVars, clientVars, started>>

\* Write the status of one more rule; the last write ends the invocation.
RecordStatus(s, r) ==
    /\ pc[s] = "record"
    /\ r \in unwritten[s]
    /\ SameVersion(r, batch[s][r].version)
    /\ Store(r, [rules[r] EXCEPT !.status = batch[s][r].status,
                                 !.version = batch[s][r].version + 1])
    /\ IF unwritten[s] = {r}
       THEN End(s, "200")
       ELSE /\ unwritten' = [unwritten EXCEPT ![s] = @ \ {r}]
            /\ UNCHANGED <<pc, todo, batch, held, response, pushed>>
    /\ UNCHANGED <<firewallVars, clientVars, defaultStatus, started>>

\* A call fails: a conditional write whose condition is false, a stale
\* update token, a message that cannot be parsed, any error of a service.
FailSync(s) ==
    /\ pc[s] # "idle"
    /\ End(s, "503")
    /\ UNCHANGED <<tableVars, firewallVars, clientVars, defaultStatus, started>>

\* The invocation runs into its timeout or the environment is recycled;
\* the next invocation starts from the constants of the code.
CrashSync(s) ==
    /\ End(s, "none")
    /\ defaultStatus' = [defaultStatus EXCEPT ![s] = "PENDING"]
    /\ UNCHANGED <<tableVars, firewallVars, clientVars, started>>

SyncNext(s) ==
    \/ StartSync(s)
    \/ ReadBundle(s)
    \/ SkipFirewall(s)
    \/ DescribeRuleGroup(s)
    \/ UpdateAccepted(s)
    \/ UpdateUnanswered(s)
    \/ \E blamed \in Rules \cup {Absent} : UpdateRejected(s, blamed)
    \/ \E r \in Rules : RecordStatus(s, r)
    \/ FailSync(s)
    \/ CrashSync(s)

ClientNext(c) ==
    \/ \E r \in Rules : ReadForUpdate(c, r)
    \/ WriteUpdate(c)
    \/ FailUpdate(c)

Next ==
    \/ \E s \in Syncs : SyncNext(s)
    \/ \E c \in Clients : ClientNext(c)
    \/ \E r \in Rules : CreateRule(r) \/ DeleteRule(r)

Spec == Init /\ [][Next]_vars

-----------------------------------------------------------------------------
(* Properties.                                                             *)

\* The version of a rule identifies its item: no two writes, of whatever
\* processes, start from the same version, so none is lost.  The writers are
\* updateRules of the Lambda and updateRule of the API, both conditional.
VersionIdentifiesItem ==
    \A r \in Rules : \A i, j \in history[r] : i.version = j.version => i = j

Succeeds(i, j) ==
    /\ i.bundle = j.bundle
    /\ i.spec # j.spec => i.status = j.status
    /\ i.status = "FAILED" => j.status = "FAILED"
    /\ j.status = "PENDING" => i.status = "PENDING"

\* From one version of a rule to the next either the content changes and the
\* status stays, or the status moves forward and the content stays; FAILED is
\* never left.  A status computed for one content is not written on another.
LegalSuccession ==
    \A r \in Rules : \A i, j \in history[r] :
        j.version = i.version + 1 => Succeeds(i, j)

\* A rule is turned from PENDING to ACTIVE only when exactly the content of
\* its item has been in the rule group, although the write comes after the
\* call of ANFW and the content may be edited meanwhile.
ActivationWasDeployed ==
    \A r \in Rules : \A i, j \in history[r] :
        (j.version = i.version + 1 /\ i.status = "PENDING" /\ j.status = "ACTIVE")
            => [rule |-> r, spec |-> j.spec] \in deployed

\* The rule group only ever carries DEFAULT_RULE and contents that were
\* stored for that very rule while it was not FAILED.
DeployedWasAccepted ==
    \A t \in deployed \ {DefaultText} :
        \E i \in history[t.rule] : i.spec = t.spec /\ i.status # "FAILED"

\* Why the four properties above hold, as one inductive invariant: the item in
\* the table is the newest of its history, and what a process holds can be
\* traced to an item of the history.
CurrentIsNewest ==
    \A r \in Rules : rules[r] # Absent =>
        /\ rules[r] \in history[r]
        /\ \A i \in history[r] : i.version =< rules[r].version

TracedTo(e, i, r) ==
    /\ e.version = i.version
    /\ e.spec = i.spec
    /\ i.status # "FAILED"
    /\ \/ e.status \in {i.status, "FAILED"}
       \/ e.status = "ACTIVE" /\ [rule |-> r, spec |-> e.spec] \in deployed

CopiesTraced ==
    \A s \in Syncs : \A r \in Copies(s) :
        \E i \in history[r] : TracedTo(batch[s][r], i, r)

RequestsTraced ==
    \A c \in Clients :
        request[c] # Absent => request[c].seen \in history[request[c].rule]

IInv ==
    /\ TypeOK
    /\ VersionIdentifiesItem
    /\ LegalSuccession
    /\ ActivationWasDeployed
    /\ DeployedWasAccepted
    /\ CurrentIsNewest
    /\ CopiesTraced
    /\ RequestsTraced

\* The last write of an invocation that replaced the texts.
Completes(s) == pc[s] = "record" /\ pushed[s] /\ pc'[s] = "idle" /\ response'[s] = "200"

\* Table and rule group agree on the rules that were not edited since s read
\* them: exactly the ACTIVE ones are in the rule group, with the content of
\* their item.
AgreesAfter(s) ==
    \A r \in Rules :
        /\ rules'[r] # Absent
        /\ batch[s][r] # Absent => rules'[r].version = batch[s][r].version + 1
        => (rules'[r].status = "ACTIVE"
            <=> [rule |-> r, spec |-> rules'[r].spec] \in firewall')

\* An invocation that replaced the texts and wrote every status leaves table
\* and rule group in agreement, whatever clients did meanwhile.  Holds without
\* overlapping invocations, stale reads and partial batches.
CompletedSyncAgrees == [][\A s \in Syncs : Completes(s) => AgreesAfter(s)]_vars

\* The rules table behaves as the atomic object of RuleLifecycle.
Lifecycle == INSTANCE RuleLifecycle WITH used <- {r \in Rules : history[r] # {}}
LifecycleSpec == Lifecycle!Spec

\* RuleConfigHandler.test.ts: "should apply default denial rule when no rules
\* found": an invocation that finds no rules calls ANFW with DEFAULT_RULE.
NoRulesMeansDefaultRule ==
    [][\A s \in Syncs : SkipFirewall(s) => Copies(s) # {}]_vars

\* RuleUpdater.test.ts: when ANFW names a rule, that rule becomes FAILED and
\* the others keep their status.
NamedRuleAloneFails ==
    [][\A s \in Syncs, blamed \in Rules, r \in Rules :
        /\ blamed \in Targets(s)
        /\ UpdateRejected(s, blamed)
        /\ r # blamed
        => batch'[s][r] = batch[s][r]]_vars
=============================================================================
