# Dynamic object and rule extensions for AWS Network Firewall: TLA+ models

This directory holds TLA+ modules that model the state-changing core of the
solution, the TLC configurations that check them, and theorems about them that
TLAPS proves. Paths below are relative to `src/source/lambda/` unless they start
with `src/`.

## 1. Inventory

The solution lets users describe firewall rules by reference to named objects
(addresses, instances, auto scaling groups, tags, ...). Periodically the objects
are resolved to addresses and the rules are written into rule groups of AWS
Network Firewall (ANFW).

| Component | State | Operations | Talks to |
|---|---|---|---|
| Config API (`firewall-config-api`) | none of its own; a validator lives for one request | create, update, delete, get and list rules, rule bundles, objects; list audits | tables, OPA, ANFW and AWS Config (validation) |
| Tables (DynamoDB, `src/source/lib/firewall-datasource-construct.ts`) | `rules` (with the index `ruleBundleId`), `objects`, `rulebundles`, `audits` | conditional puts, updates, deletes; eventually consistent reads | |
| Scheduler (`firewall-config-scheduler`) | none; timestamps it has not written yet | one run per interval: scan bundles, invoke auto-config once per rule group, stamp bundles | `rulebundles`, auto-config |
| Auto-config (`firewall-auto-config`) | the module constant `DEFAULT_RULE`, caches of the resolvers, work a refused invocation left behind | one invocation: read bundles and rules, resolve objects, replace the rules of the rule group, write a status per rule | tables, ANFW, SNS |
| Object resolution (`shared-types/src/resolvers`) | a memo of 60 seconds | resolve an object to addresses | AWS Config, EC2, ANFW |
| Credentials and retries (`shared-types/src/providers`, `RetryStrategyConfiguration.ts`) | cached credentials, retry quota | assume a role, retry a call | STS |
| OPA cluster (`src/source/opa`) | policies | decide on a request | Config API |
| Deployment (`src/source/lib`) | the CDK context | give functions roles, tables, rule group patterns; put a resource policy on the API | |
| Operations (`operational-metrics-collector`, `app-registry-cr`, `canary`) | none | report; the canary calls the API | Config API |

A rule is `PENDING` when created, becomes `ACTIVE` when ANFW has taken it and
`FAILED` when its objects cannot be resolved or ANFW refuses it. It carries a
version, which every writer checks. Bundles and objects carry none.

What is hard here:

* **Several writers of one item.** A synchronisation reads rules, works for
  minutes and writes a status to every one; API requests edit them meanwhile.
* **Overlapping synchronisations.** The timeout of the scheduler is its interval,
  failed events are delivered again by Lambda, and a call of auto-config outlives
  the run that made it.
* **Partial failure.** ANFW has the rules but the statuses are not written; one of
  many status writes fails; one of many rule groups fails.
* **Work that is not awaited.** The timestamps of the scheduler and some audit
  entries are written whenever the environment is awake again, or never.
* **Warm environments.** Constants and caches survive from one invocation to the next.
* **Checks that are stale when used.** Bundles are retargeted between the scan and the
  read; objects and bundles are deleted while rules that name them are created; access
  is checked some calls before the write.
* **Promises that outlive their invocation.** `Promise.all` gives up with the first
  rule; the others go on in the next invocation, on its quota and its memo.
* **Two places that must agree.** A validator accepts what another Lambda renders,
  resolves and writes much later; two CDK constructs have defaults of their own.

What makes the components correct:

* tables: no write to a rule is lost; a status belongs to the content it was computed
  for; nothing becomes `ACTIVE` that was not in the rule group;
* auto-config: the rule group only carries what was stored, and not `FAILED`, for that
  very rule; after a complete invocation table and rule group agree;
* scheduler: rules only go to rule groups their bundle has targeted; a rule group that
  bundles target and calls can reach converges once the API is quiet, whatever becomes of
  others, unless the default rule is left out again and again; its bundles are stamped
  again and again;
* config API: rules name objects and bundles that exist; every change is audited; a rule
  changes for owners of its bundle only; what is stored can be rendered, resolved and
  written later; nobody but the administrator stores what the policies forbid;
* object resolution: a rule group is refused for a cause of its own; signature ids are
  unique; a rule gets what was found for its own objects; an invocation ends unless a
  query has a second page.

## 2. Modules

| Module | Models |
|---|---|
| `RuleLifecycle` | abstract specification: what the rules table promises, an atomic object per rule |
| `RuleSync` | one rule group: overlapping invocations of auto-config, API requests on rules, ANFW |
| `RuleSyncProofs` | theorems about `RuleSync` |
| `RuleSyncAgreementProofs` | one more theorem about `RuleSync`: agreement after a complete invocation |
| `MCRuleSync` | instances of `RuleSync` for TLC |
| `SyncScheduler` | many rule groups: the schedule, runs of the scheduler, calls of auto-config, API requests on bundles |
| `SyncSchedulerProofs` | theorems about `SyncScheduler` |
| `MCSyncScheduler` | instances of `SyncScheduler` for TLC |
| `ConfigApi` | requests on objects, bundles and rules as they interleave, one step per call |
| `ConfigApiProofs` | theorems about `ConfigApi` |
| `MCConfigApi` | an instance of `ConfigApi` for TLC |
| `RequestContents` | operators: what validators, resolvers, the renderer of rules and the policies make of a body |
| `Deployment` | operators: access to the API, grants of the functions and patterns of rule groups, for every CDK context |
| `RequestPath` | a request on its way through gateway, router, validator, OPA and handler; extends the two modules above |
| `RequestPathProofs` | theorems about `RequestPath` |
| `MCRequestPath` | an instance of `RequestPath` for TLC |
| `ObjectResolution` | a warm environment of auto-config that resolves the objects of rules, over several invocations |
| `ObjectResolutionProofs` | theorems about `ObjectResolution` |
| `MCObjectResolution` | an instance of `ObjectResolution` for TLC |

The modules look at the same Lambdas from different sides. `RuleSync` has one client
and the reads and writes of the rules table; `ConfigApi` adds the other three tables and
any number of clients, and has a synchronisation as the single step `FailRule`.
`RequestPath` answers the question `ConfigApi` leaves open, which requests get as
far as a write, and what their bodies are; `RuleSync` takes any outcome of resolution,
and `ObjectResolution` says which there are. Some modules hold, before a definition,
a second form of it that a careless change might leave behind (`SourceReferences`,
`NextTokenOfShown`, ...), called its mutant; no action uses it, and putting it in the
place of the definition makes TLC find the property of the run violated.

### RuleSync

| Variable | In the code |
|---|---|
| `rules` | the rules table; `spec` stands for all the content a user edits, reduced to the two objects it names |
| `firewall`, `token` | the rules string and the update token of the rule group |
| `pc`, `todo`, `batch`, `held`, `unwritten` | local variables of `RuleConfigHandler.handle`, `RuleUpdater.updateRules` and `DDBdataSourceService.updateRules` |
| `response` | the status code of the invocation |
| `defaultStatus` | the field `status` of the constant `DEFAULT_RULE` in each environment |
| `request` | an update of a rule between `getRuleBy` and `updateRule` |
| `started`, `edits` | bounds |
| `history`, `deployed`, `pushed` | history variables, read by properties only (`history` also by `CreateRule`, because a uuid is never handed out twice, and by stale reads) |

The steps of an invocation are `StartSync` (BatchGetItem of the bundles, 404),
`ReadBundle` (query of the rules of one bundle and resolution of their objects, 503
for the whole invocation when one cannot be reached), `SkipFirewall` (nothing to
send), `DescribeRuleGroup`, one of `UpdateAccepted`, `UpdateUnanswered`,
`UpdateRejected`, then `RecordStatus` once per rule. `FailSync` and `CrashSync` may
end it anywhere. The order in which statuses are written is the order of the
query; the model allows any.

`UpdateRejected` contains the parsing of the error message: it is cut at commas and the
second piece is searched for the name of a rule, so a rule text that lists several
addresses (`many`) hides the name.

### SyncScheduler

| Variable | In the code |
|---|---|
| `bundles` | the `ruleGroupArn` of every item of `rulebundles`; `NoArn` when the attribute is missing |
| `filled` | bundles with at least one rule that is not `FAILED` |
| `carried` | what every rule group of ANFW carries, as a set of bundles |
| `pc`, `attempt` | an event of the schedule in Lambda's hands and its deliveries |
| `spare` | how many interval ends a run may see before its timeout |
| `calls` | calls of auto-config a run has made, per group of bundles |
| `stamps` | the writes of `updateRuleGroupTimeStamps` that are not done yet |
| `requests` | bound |
| `targeted`, `deleted` | history variables (`targeted` is also the guard of `Fill`: a bundle that a request has seen earlier) |

The grouping by ARN is `Members`: a bundle without ARN forms a group of its own,
whose call is answered 503. A call goes through phases. It is `sent`; `Read` stands for the
reads of auto-config and makes it `ready`; `Apply` (ANFW takes the rules, but for those
that cannot be resolved; when none can, ANFW is not called) makes it `taken`, `Refuse`
makes it `refused`, and the call carries on with the rules that are to become `FAILED`; `Record` writes
all statuses and is answered 200. `FailCall` may end the call in each of these
phases, after ANFW has the new rules too, and with any part of the statuses written. A
group without rules gets the default rule: `ApplyDefault`, `LoseDefault` when ANFW takes
it and its answer is lost, and `LeaveDefault`, answered 200 like the first, when ANFW refuses it or has
refused it in this environment before (run `default_rule`).

### ConfigApi

| Variable | In the code |
|---|---|
| `objects`, `bundles`, `rules` | the tables: identifiers of objects, owner groups of bundles, rules with bundle, content, `FAILED` or not, version |
| `pc`, `call`, `seen` | a handler between two calls: where it is, its request, the version of the rule it has read |
| `late` | an audit entry `REJECTED` that was sent without waiting for it |
| `answer`, `audits` | the class of the answer, and what the audits table says of the request |
| `effect`, `misled`, `met`, `owned` | history variables: the write was done; a read returned something else than was there; which requests were in progress together; the user owned the bundle meanwhile |

A handler takes one step per call to a table: `LookupObject`, `RereadObject`,
`ScanReferences`, `LookupBundle`, `ScanBundle`, `FindBundle`, `FindSource`,
`FindDestination`, `ReadRule`, `CheckAccess`, then `Write` or `WriteRefused` by
`Condition`, the condition expression of the write, and the entries `AuditSuccess`,
`AuditRejected`, `AuditLate`. `Fail` is a call that throws, also one that was carried
out (`Write` may be followed by an error); `Crash` ends the environment. A `GetItem`
or `Query` without `ConsistentRead` may return an earlier item, and a scan only its first
page. Not every handler audits the same way (`Caught`, `Trouble`): the entry `SUCCESS` is
awaited after the write, and when it fails the request is answered 500 and, by most
handlers, audited as `REJECTED`, although the change was made; `UpdateObject` and `DeleteRule`
wait for theirs, the others do not; `DeleteRule` catches no error. Bundles are not
audited. Creating and updating a bundle answer 503 when a call fails, deleting one 500; a
`500` or `503` is the class "error" here.

### RequestContents, Deployment and RequestPath

`RequestContents` has bodies as records of what the checks tell apart: `FlowRule`,
`FlowObject` and `FlowRuleBundle` are all bodies there are, names the checks do not know
among them, and `CallsAssumption` of `RequestPath` says that a call carries one that
its resource takes, or none that can be read. Behaviour that reads oddly is the code's:

* The pattern of a port range has no anchors and wants two characters behind the colon, a
  digit first: 1:9 is refused, 1:09 and `abc[80:90]` are accepted. Single ports and both ends
  are parsed with `parseInt`, which accepts trailing text. A port is a record of what
  the pattern and `parseInt` see (`form`, `from`, `to`, `width`), and of whether there is other
  text around it (`alone`).
* Keys of options are compared as they are given, values not at all, and
  `createRuleOptions` puts both into the text. `reads` are the keywords an option is
  read as there: `sid ` is read as `sid`, and a value that goes on behind a semicolon is
  read as more than its key. `RuleTextAsChecked` is about rules whose options are
  read as their keys, and ports that are alone.
* Ten tags are refused, although `TAG_MAX_NUMBER` is 10 and the message says `max pair 10`
  (`firewall-config-api/src/validators/CreateObjectInputValidator.ts:27`, `:102`, `:106`; the
  unit test expects this message for eleven pairs,
  `firewall-config-api/test/unit/validators/CreateObjectInputValidator.test.ts:198`). `TagFault` is what the
  code does; no property says how many tags there may be. An empty list
  passes for a tagged object, which is not resolved before it is stored.
* The patterns of ARNs have no anchors either: the resource of an ARN is a set of names,
  and `instance/vpc/x` is claimed by two resolvers, of which the first one asked
  resolves it. A `Cidr`, which the description of the request names
  (`firewall-config-api/src/handlers/objects/CreateObjectHandler.ts:48`), is claimed by
  none and refused.
* A policy id OPA does not know makes every decision negative.

`Deployment` follows the constructs. The resource policy denies everybody but the
administrator and the canary, so the role of application owners never gets past it
as deployed; `front = "open"` stands for a gateway whose policy was replaced, and
is there because the checks behind it are written for owners. `permissionDefinitions` has no
`DELETE` of a bundle, which the administrator may call by its own identity policy.

| Variable of `RequestPath` | In the code |
|---|---|
| `deployment` | the CDK context |
| `stage`, `call` | how far the request in the environment has got |
| `errors` | the field `errors` of the validator |
| `answer` | status code of the answer and who gave it |
| `kept` | the body the handler stored |
| `objects` | the objects table |
| `listing` | the list a client is putting together from pages |
| `troubled` | history: a call to a service failed, so a refusal may be nobody's fault |

`Enter`, `Route`, `Validate`, `Match` (identifiers in body and path), `AskOpa` come
before one action per handler; `ValidatorThrows`, `OpaFails`, `StoreFails` and `TimeOut` are
the ways out. A bundle that cannot be created or updated is answered 503, all other
failures 500.

### ObjectResolution

| Variable | In the code |
|---|---|
| `count`, `plan`, `bundle`, `chunk` | the invocations of the environment; where `getAllResolvedRules` and `resolveRules` of the last one are |
| `overallIndex` | the variable of that name: how many rules the bundles before have |
| `slots` | the rules of the chunk in `Promise.all`, also those of a refused invocation, which go on in the next |
| `done` | resolved rules with their signature ids |
| `promises`, `memo` | queries under way, and what `p-memoize` keeps for `maxAge` |
| `quota` | tokens of `getDefaultRetryQuota`, one bucket per client |
| `stamp` | the invocation that saw bundles whose text had changed: the text is part of the key of the memo, so a bundle with a new timestamp misses it |
| `failures`, `doomed` | history variables |

`Ask` looks for the promise of a query or sends it, `Take` goes on with its answer:
objects with tags, groups and functions need one or two queries. `Page` is a page of an
answer; `rawQueryAwsConfig` asks for the first one again when there is a second.
`Trouble` is a failure that may be retried if attempts and quota allow; `FailForGood`
one that may not, among them the end of the assumed-role session, which the
credential cache never renews because `assumeRole` returns no expiration. A rejected
promise is forgotten at once. Time is left out. The timer of `maxAge` stands still while the
environment is frozen, so it bounds no age; `Expire` drops a kept promise at any moment or
never. A promise remembers the object its query was made for (`asks`), so that a rule that is
answered with a promise of another object would show in `OwnAddresses`.

## 3. Runs

| Run | Shows |
|---|---|
| `sync_overlap` | two overlapping invocations, one client, stale reads, partial batches, errors and crashes at every point: no write is lost, a status stays with its content, `ACTIVE` means deployed, the rule group carries accepted contents only, and the table implements `RuleLifecycle` |
| `sync_single` | one invocation at a time, exact reads, two rules in two bundles: a complete invocation leaves table and rule group in agreement although clients edit rules meanwhile |
| `scheduler_overlap` | two events, so that calls and late timestamps of one run meet the run and the calls of the other, while two bundles are moved, deleted and created again, and scans and batch reads leave items out: a rule group only carries rules that were meant for it; an item loses its rule group by a deletion only |
| `scheduler_live` | liveness with two rule groups: one that fails for ever does not keep the other from converging, nor its bundles from their timestamps |
| `scheduler_late` | liveness with two events: calls that outlive their run, and calls that fail after ANFW took the rules |
| `api_overlap` | two requests of any of the nine kinds in every interleaving, with outdated reads, cut scans, errors, lost answers and crashes: what a rule names is missing only after a race with a deletion or a read that did not return what was there; the audit trail is true; creations do not collide; a rule changes on behalf of owners only |
| `requests` | one request after the other through eight deployments: what was checked of a stored rule holds of its text, as far as nothing hides in it; stored objects are claimed by a resolver; owners stay within the default policies; accepted rule groups can be written; lists are complete under concurrent changes; a request is refused for its own faults; the canary is served and no handler lacks a grant |
| `resolution` | two invocations of one warm environment: a refusal has a cause in this invocation or in failures that used up attempts or quota; signature ids are the places in the rule group; a rule is `FAILED` just when one of its own objects is gone or has no address, whichever promises it was answered with; an invocation ends unless a query has a second page |
| `default_rule` (violation) | a test says that the default rule is applied when there are no rules; after ANFW has refused it once, a warm environment never applies it again and answers 200 |
| `named_rule` (violation) | a test says that only the rule ANFW names becomes `FAILED`; with several addresses in its text every rule does |
| `phantom_bundle` (violation) | `FlowRuleBundle` declares `ruleGroupArn` for every bundle; a timestamp written after a deletion creates an item without it |
| `orphaned_group` (violation) | the README promises rule groups that are up to date; the rule group of a bundle that was deleted or moved keeps its rules for ever |

**Bounds.** `MaxSyncs`, `MaxEdits`, `MaxRequests` and `MaxRetries` bound what
happens; versions, tokens and histories are bounded by them. Two invocations and one
client are the smallest instance in which a stale apply, a version clash and a
lost answer meet; a third invocation may start after one of them has ended, with what
it left behind. Two contents tell an edited rule from the one that was read. Two bundles
and two rule groups are needed for a move. Where `First` is a rule group, both bundles
target it when the schedule is enabled, and two more requests suffice to fill one and move
or delete the other between scan and read; four requests create, fill, empty and delete a
bundle. `Quiet` is a bound too: an event is delivered, anew or again, when the calls of its earlier
deliveries have ended; calls that overlap come from the second event. Without retries
two runs are never in progress together: the timeout of a run is the interval, so one has ended
when the next event comes. What meets the next run are calls and timestamps. That two runs overlap, which
takes a retry in between, is covered by the theorems. `scheduler_overlap` and `scheduler_late`
have no retries, to keep the instances small; `scheduler_live` has one. Reads are exact in the
liveness runs: with reads that leave items out for ever nothing converges.

`api_overlap`: every hazard of `ConfigApi` is a race of two requests, and each makes one
call; two users, one of whom owns the bundle always and the other at times, two
objects that the rule contents name in either order, one bundle, one rule that may be
there and one that is created. `requests`: bodies differ from a good one in one place; each
deployment gets the calls its wiring can tell apart (`MCCalls`): three behind the gateway for
every method and role, one for the canary, and four behind an open front for
contents, with OPA, with an unknown policy and without OPA, and for lists. Three
objects, three bundles and pages of at most two make lists of two pages whose first
may show nothing. `resolution`: chunks of two, two attempts, a quota of two tokens of
which a timeout costs both; six plans, each made for one thing (three
rules in two chunks and an empty bundle; two queries at once; a rule that is refused
while another is under way; two queries for one object; a second page). Two invocations
suffice for what one leaves to the next.

**Symmetry** is used in the safety runs only, over identifiers that no constant
distinguishes.

**Deadlock** is checked in every run but `api_overlap`, where each request is made once and
nothing is left to do when all are answered; elsewhere a crash, a new environment, another request
or the next event of the schedule is always possible.

**Fairness** (`FairSpec` of `SyncScheduler`). `Tick`, `Retry`, `Invoke` and `Collect` are weakly fair:
the schedule is a rate, Lambda delivers its queue and a run goes on until its
timeout. `FailCall` is weakly fair: a call of auto-config ends, at the latest by its
timeout. For a rule group in `Reachable` the reads of its calls, the decision of ANFW (`Served`) and the
writes of the statuses after it (`Recorded`) are strongly fair: a call that is made in every interval
does not fail at the same point for ever. `Stamp` likewise, for each bundle. From some moment on no run is
cut short before it has all answers; so nothing is said of a rule group whose call always ends
by its timeout and takes the run with it. Nothing is assumed about the API, about which
rules fail, about other rule groups, or about the default rule: a call without rules is answered 200
whether ANFW took it or not, and an environment that leaves it out may go on
to do so. `Converges` therefore has a condition (`DefaultLeft`): it says nothing of a rule group that
carries rules when the default rule is left out, again and again.

In `ObjectResolution` only weak fairness is used: for the steps of the handler
(`GoOn`, `Answer`, `Refuse`), for each rule that it goes on when its promise is
settled (callbacks are called), and for each rule that the attempt it waits for ends,
because AWS Config answers or the socket times out. That the Lambda itself is stopped
(`Recycle`) is not assumed, so `InvocationsEnd` says that an invocation ends by itself.
`Stuck` is its exception: a query with a second page is asked for ever.
`RefusedForACause` counts transient failures over the life of the environment: once there
were as many as a query has attempts, it says no more about later refusals.
`ConfigApi` and `RequestPath` state no liveness; a request ends at the timeout of the Lambda at the
latest, which would be the only fairness to assume.

## 4. Proofs

For any number of rules, bundles, objects, users, requests, invocations, clients, rule
groups, events and deployments, from the named assumptions on the constants:

* `RuleSyncProofs`: `TypeCorrect`, `Invariance`, `VersionsIdentifyItems`,
  `SuccessionsAreLegal`, `ActivationsWereDeployed`, `DeployedWereAccepted`, and
  `TableIsAtomic`: `Spec` implements `RuleLifecycle`.
* `RuleSyncAgreementProofs`: `CompletedSyncsAgree`, from the hypothesis `Undisturbed`:
  one environment of the auto-config Lambda, exact reads, whole batches.
* `SyncSchedulerProofs`: `TypeCorrect`, `Invariance`, `CarriedRulesWereTargeted`,
  `ArnsAreLostOnlyByDeletes`.
* `ConfigApiProofs`: `TypeCorrect`, `IntegrityOfReferences`, `AuditsAreTrue`,
  `CreationsDoNotCollide`, `ChangesAreAuthorised`.
* `ObjectResolutionProofs`: `TypeCorrect`, `RefusalsHaveCauses`, `PlacesAreSids`,
  `AddressesAreOwn`.
* `RequestPathProofs`: `TypeCorrect`, `RefusalsAreOwn`, `RuleTextsAreChecked`,
  `StoredObjectsResolve`, `OwnersAreBound`, `StoredGroupsCanBeWritten`,
  `ListsAreComplete`, `ServiceIsPermitted`.

So every safety property of a run that passes, invariant or action property, is a theorem.

*RuleSync.* None of the four invariants is inductive. That a write does not reuse a
version needs `CurrentIsNewest`: the item in the table is in the history and no
version in the history is larger. That a status is written to the content it was
computed for needs `CopiesTraced`: every copy a synchronisation works on has version
and content of an item of the history that was not `FAILED`; with
`VersionIdentifiesItem` the version condition of the write then makes that item the
current one. `ACTIVE` in a copy means that its text was deployed. `RequestsTraced` says
the same of clients. Together they are `IInv`, preserved by each action. The
refinement follows from it: each write is `Create`, `Edit`, `Settle` or `Remove` of
`RuleLifecycle`, everything else stutters.

*Agreement.* `AgreeInv` stands on `IInv`. `ActiveIsCopied`: an `ACTIVE` rule of a bundle that
has been read is among the copies; exact reads are needed here, and that an edit keeps
bundle and status of the item it replaces. `FirewallIsBatch`: once ANFW has accepted, the rule group carries
the texts of the `ACTIVE` copies and no others, until the invocation ends; a second
environment could replace them. `WrittenIsCopy`: a status that was written is in an item
of the history with the content of the copy. When the last status is written, an item whose
version is still the one that was written is that very item, so status and text agree.

*SyncScheduler.* `CarriedWasTargeted` needs `ReadyWasTargeted` (what a call has read
was true when it read it, and `targeted` only grows) and `TargetsRecorded`.
`ArnLostOnlyByDelete` needs `NamesKnown`: calls and timestamps only name identifiers that
have an item or were deleted.

*ConfigApi.* Integrity is proved from both sides of a race. `WriterInv`: a request that
is about to write a rule has found the bundle and the objects it names, and each of them is still
there, or a request that deleted it was in progress with this one (`met`), or a read misled it.
`DeleterInv`: a deletion that has looked for references found every rule that refers to its
item, or was in progress with the request that wrote it, or was misled. When either
writes, the invariant of the other says why what is left dangling was a race. `AuditInv`
follows an entry from the write to the record; `StandsInv` says that the item a request
created is there, or absent after a deletion, until a request of the opposite kind takes effect;
`OwnedInv` that a request past its access check was made for an owner of that time.

*ObjectResolution.* `Types` holds what makes the environment coherent: a rule that waits,
waits for a promise there is (`WaitIn`), and a promise that is kept for a key is not
broken (`GoodIn`), so what `ForgetRejected`, `Expire` and the sweep of unused promises take
away is never needed. `Own` is why `OwnAddresses` holds: a promise was asked for the object in
its key; what a rule knows of its source and destination is true of these objects, whoever sent the
queries; and the slots of the running invocation hold the rules of its chunk, in their
order, so an outcome goes to the rule it was found for. `Places` ties `overallIndex`, `chunk` and the
list of resolved rules together: as many are done as the numbers say, in the order of
bundles and rules, and every rule before the current chunk is among them; that makes
signature ids places, for any size of a chunk. `Counted`: the attempts of each promise are
among the failures of the environment, and while there are fewer than `MaxAttempts` each has
cost `TimeoutCost` tokens at most. `Errors`: an error that a rule of the last invocation holds,
or will get from its promise, has a cause, although promises outlive the invocation that
sent them.

*RequestPath.* `Staged` says where a request is, `Checked` what its stage implies: behind
the validator a body that can be stored has no fault, behind OPA it has the decision of the
policies, and what was stored went through both. `Answered` gives the origin of an answer: the router
never refuses, the gateway refuses what it does not admit, and a handler answers 500
only after a call failed or for the object without id, whose put DynamoDB rejects.
`ListsAreComplete` needs `InListing`: everything that is due and was not shown yet lies
behind the cursor, and nothing behind it was shown. Lemmas about a scan carry it through pages that show
nothing and through creations and deletions between pages; they use that
identifiers are numbers in the order of the scan, and a finite set of them has a least one.

Only model-checked: `InvocationsEnd`, `Converges` and `StampedAgain`, which are liveness
under fairness and out of the prover's reach, and the four runs that show a violation.

## 5. What is left out

* The text of a rule beyond what `RuleTextAsChecked` tells apart: in `RuleSync` a text is a
  pair of rule and content.
* The content of notifications, logs and metrics, and of responses other than their
  status code; tracing and the logging middleware.
* The age of kept addresses: the timer of the memo stands still with the environment.
* When credentials end, and the chain of providers that finds the first ones.
* In the CDK: dashboards, alarms, the trail, encryption, the OPA cluster and its load
  balancer, subnets and endpoints other than the one of DynamoDB. They describe
  resources and decide nothing the models could tell apart.
* The resolvers' queries: that the text of a query selects the resources that are meant.
* One-shot functions outside the core (metrics collector, app registry), and the
  canary beyond the calls it makes.
* Recovery from expired credentials, one version of a bundle winning over another, and
  objects missing from a partial batch: no property states them, because the code
  promises nothing there (`hazards` in `PROJECT.json`).

## 6. Plan

1. `RuleLifecycle`, `RuleSync`, `SyncScheduler`, `ConfigApi`: done, all safety properties proved.
2. `RequestContents`, `Deployment`, `RequestPath`, `ObjectResolution`: done, all safety
   properties proved.
3. What is left are safety facts that liveness rests on and that hold step by step:
   that calls of the scheduler which started after the API went quiet bring a rule group to
   what is wanted and leave it there, and that the retries of a query are bounded.
