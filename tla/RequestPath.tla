----------------------------- MODULE RequestPath -----------------------------
(***************************************************************************)
(* The way of a request through the gateway and one warm environment of    *)
(* the config API Lambda: access, routing, validation, the decision of     *)
(* OPA, the handler's own checks, the store, and lists in pages.           *)
(*                                                                         *)
(* An environment serves one request after the other and lives on between  *)
(* them; the container makes a handler and its validator anew for every    *)
(* request.  Other environments change the objects table meanwhile, which  *)
(* matters to a client that lists it page by page.                         *)
(*                                                                         *)
(* Simplifications.  How the stores of concurrent requests interact is     *)
(* ConfigApi.  Only the objects table changes; the existence of a bundle   *)
(* or rule a handler looks for is a choice, where no property depends on   *)
(* it.  The path parameters, which the gateway always supplies, are there. *)
(***************************************************************************)
EXTENDS RequestContents, Deployment, FiniteSets

CONSTANTS
    Deployments,    \* the deployments that occur
    Calls,          \* the requests that occur, for every deployment
    ObjectIds,      \* numbers: identifiers of objects, in the order of a scan
    BundleOwners,   \* the roles that own a bundle, for every bundle (a number)
    MaxResults      \* the longest page (MAX_NUM_RESULTS)

\* The body of a call is what its resource takes, or nothing that can be read; a
\* call that takes none has none.
BodiesOf(verb, resource) ==
    IF verb \notin {"POST", "PUT"} THEN {[kind |-> "none"]}
    ELSE Unread \cup
         CASE resource \in {"rules", "rules/id"} -> FlowRule
           [] resource \in {"objects", "objects/id"} -> FlowObject
           [] OTHER -> FlowRuleBundle

\* Target is the object a call is about, bundle the one in the path or the body;
\* matching says that body and path name the same item.
Call ==
    {c \in [who: STRING, inside: BOOLEAN, verb: {"GET", "POST", "PUT", "DELETE"},
            resource: STRING, matching: BOOLEAN, target: ObjectIds, bundle: Nat, limit: Int,
            body: FlowRule \cup FlowObject \cup FlowRuleBundle \cup Unread] :
        c.body \in BodiesOf(c.verb, c.resource)}

ASSUME IdsAssumption == ObjectIds \subseteq Nat \ {0} /\ IsFiniteSet(ObjectIds)
ASSUME BundlesAssumption ==
    DOMAIN BundleOwners \subseteq Nat \ {0} /\ IsFiniteSet(DOMAIN BundleOwners)
ASSUME MaxAssumption == MaxResults \in Nat \ {0}
ASSUME DeploymentsAssumption == Deployments \subseteq AllDeployments
ASSUME CallsAssumption == \A d \in Deployments : Calls[d] \subseteq Call

VARIABLES
    deployment,     \* how the stack was deployed
    stage,          \* how far the request has got
    call,           \* the request
    errors,         \* what the validator has found
    troubled,       \* history: a call to a service failed
    answer,         \* status code of the last answer and who gave it
    kept,           \* the body the request made the store keep
    objects,        \* the objects table: the identifiers that have an item
    listing         \* a client's list of a table, page by page

vars == <<deployment, stage, call, errors, troubled, answer, kept, objects, listing>>

Nothing == [kind |-> "nothing"]
NoCall == [verb |-> "none", body |-> Nothing]
NoAnswer == [code |-> 0, by |-> "nobody"]
NoListing == [of |-> "nothing", who |-> "nobody", cursor |-> 0, seen |-> {},
              twice |-> FALSE, due |-> {}, over |-> FALSE]

Method == <<call.verb, call.resource>>
Role == IF call.who = "admin" THEN "admin" ELSE "appowner"
Bundles == DOMAIN BundleOwners

Faults == {"body", "protocol", "action", "option", "bundle", "end", "port",
           "id", "arn", "tags", "target", "description", "group", "aggregator",
           "admin", "owner"}

Stages == {"idle", "gateway", "route", "validate", "match", "opa", "store", "answered"}

\* Types; no handler goes on with what its validator has found.
TypeOK ==
    /\ deployment \in Deployments
    /\ stage \in Stages
    /\ call \in Calls[deployment] \cup {NoCall}
    /\ (call = NoCall) <=> (stage = "idle")
    /\ errors \subseteq Faults
    /\ troubled \in BOOLEAN
    /\ answer.code \in {0, 200, 201, 400, 403, 404, 409, 500, 503, 504}
    /\ kept \in {Nothing, call.body}
    /\ objects \subseteq ObjectIds
    /\ listing.seen \cup listing.due \subseteq ObjectIds \cup Bundles
    /\ stage \in {"match", "opa", "store"} /\ call.verb \in {"POST", "PUT"} => errors = {}

Init ==
    /\ deployment \in Deployments
    /\ stage = "idle"
    /\ call = NoCall
    /\ errors = {} /\ troubled = FALSE
    /\ answer = NoAnswer /\ kept = Nothing
    /\ objects \in SUBSET ObjectIds
    /\ listing = NoListing

Goto(s) == stage' = s /\ UNCHANGED answer

Reply(code, by) == stage' = "answered" /\ answer' = [code |-> code, by |-> by]

-----------------------------------------------------------------------------
(* Gateway and router.                                                     *)

\* A client calls.
Send(c) ==
    /\ stage = "idle"
    /\ call' = c
    /\ Goto("gateway")
    /\ UNCHANGED <<deployment, errors, troubled, kept, objects, listing>>

\* It gets its answer, and the environment is free for the next request.
Receive ==
    /\ stage = "answered"
    /\ stage' = "idle"
    /\ call' = NoCall
    /\ troubled' = FALSE
    /\ answer' = NoAnswer
    /\ kept' = Nothing
    /\ UNCHANGED <<deployment, errors, objects, listing>>

\* With an open front the resource policy was replaced by one that lets every
\* role in, and what is left are the checks of the Lambda.
Admitted ==
    IF deployment.front = "open"
    THEN Method \in Deployed
    ELSE Enters(deployment, call.who, call.inside, Method)

Enter ==
    /\ stage = "gateway"
    /\ IF Admitted THEN Goto("route") ELSE Reply(403, "gateway")
    /\ UNCHANGED <<deployment, call, errors, troubled, kept, objects, listing>>

Routes ==
    Over({"GET", "POST"}, "rulebundles") \cup Over({"GET", "PUT", "DELETE"}, "rulebundles/id")
    \cup Over({"GET", "POST"}, "rules") \cup Over({"GET", "PUT", "DELETE"}, "rules/id")
    \cup Over({"GET", "POST"}, "objects") \cup Over({"GET", "PUT", "DELETE"}, "objects/id")
    \cup Over({"GET"}, "audits")

\* The errors a new validator begins with; in the mutant it is made once.
ErrorsOfSharedValidator == errors
ErrorsOfNewValidator == {}

Route ==
    /\ stage = "route"
    /\ IF Method \notin Routes THEN Reply(404, "router")
       ELSE IF call.verb \in {"POST", "PUT"} THEN Goto("validate")
       ELSE IF Method = <<"DELETE", "objects/id">> THEN Goto("opa")
       ELSE Goto("store")
    /\ errors' = ErrorsOfNewValidator
    /\ UNCHANGED <<deployment, call, troubled, kept, objects, listing>>

-----------------------------------------------------------------------------
(* Validation.                                                             *)

Broken(b) ==
    \/ b.kind = "object" /\ BrokenObject(b)
    \/ b.kind = "bundle" /\ BrokenBundle(b)

BundleOp == IF call.verb = "POST" THEN "createBundle" ELSE "updateBundle"

\* DescribeRuleGroup and DescribeConfigurationAggregators answer for what the
\* policy of the function covers; a call that fails counts as "not there".
BundleFindings ==
    {BundleFaults(BundleOp, call.body, groups, aggregators) :
        groups \in {ApiGroups(deployment), {}}, aggregators \in {{"known"}, {}}}

\* The faults of objects; a target that is not resolved is one, looked for
\* only when the instance of the validator has found nothing before.
ObjectFindings ==
    LET faults == ObjectFaults(call.body)
    IN IF errors \cup faults # {} THEN {faults}
       ELSE {IF r \in {"some", "skipped"} THEN {} ELSE {"target"} : r \in Resolutions(call.body)}

Findings ==
    CASE call.body.kind \in {"none", "junk"} -> {{"body"}}
      [] call.body.kind = "null" -> {{}}
      [] call.body.kind = "rule" -> {RuleFaults(call.body, objects, Bundles)}
      [] call.body.kind = "object" -> ObjectFindings
      [] call.body.kind = "bundle" -> BundleFindings

\* What the body is to blame for when every service answers and the resources it
\* points at have addresses.
OwnFaults ==
    CASE call.body.kind \in {"none", "junk", "null"} -> {"body"}
      [] call.body.kind = "rule" -> RuleFaults(call.body, objects, Bundles)
      [] call.body.kind = "object" ->
            ObjectFaults(call.body) \cup
            (IF Resolutions(call.body) \cap {"some", "skipped"} = {} THEN {"target"} ELSE {})
      [] call.body.kind = "bundle" ->
            BundleFaults(BundleOp, call.body, ApiGroups(deployment), {"known"})

\* Whether the body is refused, also when JSON is null; the mutant forgets to look
\* after a body that could be parsed.
RefusesUnparsed(found) == call.body.kind \in {"none", "junk", "null"}
Refuses(found) == found # {} \/ call.body.kind = "null"

\* parseAndValidate.
Validate ==
    /\ stage = "validate"
    /\ ~Broken(call.body)
    /\ \E found \in Findings :
         /\ errors' = errors \cup found
         /\ IF Refuses(errors \cup found) THEN Reply(400, "validator") ELSE Goto("match")
         /\ troubled' = (found \ OwnFaults # {})
    /\ UNCHANGED <<deployment, call, kept, objects, listing>>

\* A TypeError, or a read of the tables that fails: nobody catches it.
ValidatorThrows ==
    /\ stage = "validate"
    /\ Broken(call.body) \/ call.body.kind = "rule"
    /\ Reply(500, "middleware")
    /\ troubled' = ~Broken(call.body)
    /\ UNCHANGED <<deployment, call, errors, kept, objects, listing>>

\* The identifiers in body and path are compared; bundles are not shown to OPA.
Match ==
    /\ stage = "match"
    /\ IF ~call.matching THEN Reply(400, "handler")
       ELSE IF call.body.kind = "bundle" THEN Goto("store")
       ELSE Goto("opa")
    /\ UNCHANGED <<deployment, call, errors, troubled, kept, objects, listing>>

-----------------------------------------------------------------------------
(* OPA.                                                                    *)

\* type of the decision that is requested
ChangeType ==
    CASE call.verb = "POST" -> "CREATE" [] call.verb = "PUT" -> "UPDATE" [] OTHER -> "DELETE"

\* Without a cluster everything is compliant.  DeleteObject looks for the object
\* first; the content it shows to OPA passes whatever it is.
AskOpa ==
    /\ stage = "opa"
    /\ IF call.verb = "DELETE" /\ call.target \notin objects
       THEN Reply(404, "handler")
       ELSE IF deployment.opa /\ ~Decision(deployment.policies, ChangeType, Role, call.body)
       THEN Reply(400, "opa")
       ELSE Goto("store")
    /\ UNCHANGED <<deployment, call, errors, troubled, kept, objects, listing>>

\* The cluster does not answer, or not with 200 and a decision.
OpaFails ==
    /\ stage = "opa"
    /\ deployment.opa
    /\ Reply(500, "handler")
    /\ troubled' = TRUE
    /\ UNCHANGED <<deployment, call, errors, kept, objects, listing>>

-----------------------------------------------------------------------------
(* The store.                                                              *)

TableOf(resource) ==
    CASE resource \in {"rulebundles", "rulebundles/id"} -> "bundles"
      [] resource \in {"rules", "rules/id"} -> "rules"
      [] resource \in {"objects", "objects/id"} -> "objects"
      [] resource = "audits" -> "audits"

\* The tables a handler works on: changes of rules and objects are audited, and
\* access to rules is a question to the bundles table.
TablesUsed ==
    {TableOf(call.resource)} \cup
    (IF call.resource \in {"rules", "rules/id"} THEN {"bundles"} ELSE {}) \cup
    (IF call.verb # "GET" /\ call.resource \notin {"rulebundles", "rulebundles/id"}
     THEN {"audits"} ELSE {})

Available == \A t \in TablesUsed : t \in Configured("api") /\ Reaches(deployment, "api", t)

Store(b) == kept' = b /\ UNCHANGED listing

\* An object that is deleted need not be in the list any more.
NotDue(o) ==
    listing' = IF listing.of = "objects" THEN [listing EXCEPT !.due = @ \ {o}] ELSE listing

\* The handler of a method, when the tables it needs can be used.
Handles(verb, resource) == stage = "store" /\ Available /\ Method = <<verb, resource>>

CreateObject ==
    /\ Handles("POST", "objects")
    /\ call.body.id # "missing"
    /\ IF call.target \in objects
       THEN Reply(409, "handler") /\ UNCHANGED <<kept, objects, listing>>
       ELSE Reply(201, "handler") /\ Store(call.body) /\ objects' = objects \cup {call.target}
    /\ UNCHANGED <<deployment, call, errors, troubled>>

UpdateObject ==
    /\ Handles("PUT", "objects/id")
    /\ call.body.id # "missing"
    /\ IF call.target \in objects
       THEN Reply(200, "handler") /\ Store(call.body)
       ELSE Reply(404, "handler") /\ UNCHANGED <<kept, listing>>
    /\ UNCHANGED <<deployment, call, errors, troubled, objects>>

\* 400 when a rule refers to the object.
DeleteObject ==
    /\ Handles("DELETE", "objects/id")
    /\ \/ Reply(200, "handler") /\ objects' = objects \ {call.target} /\ NotDue(call.target)
       \/ Reply(400, "handler") /\ UNCHANGED <<objects, listing>>
    /\ UNCHANGED <<deployment, call, errors, troubled, kept>>

\* checkRuleGroupAccess: nothing, 403, or 404 without the bundle.
MayUse(bundle) == bundle \in Bundles /\ call.who \in BundleOwners[bundle]
NoAccess == Reply(IF call.bundle \in Bundles THEN 403 ELSE 404, "handler")

CreateRule ==
    /\ Handles("POST", "rules")
    /\ IF MayUse(call.bundle)
       THEN Reply(201, "handler") /\ kept' = call.body
       ELSE NoAccess /\ UNCHANGED kept
    /\ UNCHANGED <<deployment, call, errors, troubled, objects, listing>>

UpdateRule ==
    /\ Handles("PUT", "rules/id")
    /\ IF MayUse(call.bundle)
       THEN \/ Reply(200, "handler") /\ kept' = call.body
            \/ Reply(404, "handler") /\ UNCHANGED kept
       ELSE NoAccess /\ UNCHANGED kept
    /\ UNCHANGED <<deployment, call, errors, troubled, objects, listing>>

DeleteRule ==
    /\ Handles("DELETE", "rules/id")
    /\ IF MayUse(call.bundle)
       THEN \E code \in {200, 404} : Reply(code, "handler")
       ELSE NoAccess
    /\ UNCHANGED <<deployment, call, errors, troubled, kept, objects, listing>>

CreateRuleBundle ==
    /\ Handles("POST", "rulebundles")
    /\ \/ Reply(201, "handler") /\ kept' = call.body
       \/ call.body.id # "missing" /\ Reply(409, "handler") /\ UNCHANGED kept
    /\ UNCHANGED <<deployment, call, errors, troubled, objects, listing>>

UpdateRuleBundle ==
    /\ Handles("PUT", "rulebundles/id")
    /\ \/ Reply(200, "handler") /\ kept' = call.body
       \/ Reply(503, "handler") /\ UNCHANGED kept
    /\ UNCHANGED <<deployment, call, errors, troubled, objects, listing>>

\* 400 when the bundle has rules that are not FAILED.
DeleteRuleBundle ==
    /\ Handles("DELETE", "rulebundles/id")
    /\ \E code \in {200, 400} : Reply(code, "handler")
    /\ UNCHANGED <<deployment, call, errors, troubled, kept, objects, listing>>

GetObject ==
    /\ Handles("GET", "objects/id")
    /\ Reply(IF call.target \in objects THEN 200 ELSE 404, "handler")
    /\ UNCHANGED <<deployment, call, errors, troubled, kept, objects, listing>>

GetRuleBundle ==
    /\ Handles("GET", "rulebundles/id")
    /\ Reply(IF call.bundle \in Bundles THEN 200 ELSE 404, "handler")
    /\ UNCHANGED <<deployment, call, errors, troubled, kept, objects, listing>>

GetRule ==
    /\ Handles("GET", "rules/id")
    /\ IF MayUse(call.bundle)
       THEN \E code \in {200, 404} : Reply(code, "handler")
       ELSE NoAccess
    /\ UNCHANGED <<deployment, call, errors, troubled, kept, objects, listing>>

\* A table cannot be used, a call to one fails, or the item has no key; creating
\* and updating a bundle answer 503, everything else 500.
StoreFails ==
    /\ stage = "store"
    /\ Reply(IF call.verb \in {"POST", "PUT"} /\ TableOf(call.resource) = "bundles" THEN 503 ELSE 500,
             "handler")
    /\ troubled' = (Available /\ ~(call.body.kind = "object" /\ call.body.id = "missing"))
    /\ UNCHANGED <<deployment, call, errors, kept, objects, listing>>

-----------------------------------------------------------------------------
(* Lists.                                                                  *)

\* The limit of a query that is no number, or none, counts as 0.
PageSize(limit) == IF limit \in 1 .. MaxResults THEN limit ELSE MaxResults

\* The items a scan of the table looks at, from a position on; size is the limit,
\* or less when the items before it fill a page of the table.
Scanned(table, cursor, size) ==
    {k \in table : k > cursor /\ Cardinality({j \in table : cursor < j /\ j <= k}) <= size}

\* The position to go on from, or 0: the scan stopped because the page was
\* full, counting what the filter drops.  In the mutant an empty page is the last.
NextTokenOfShown(scanned, shown, size) ==
    IF Cardinality(scanned) < size \/ shown = {} THEN 0
    ELSE CHOOSE k \in scanned : \A j \in scanned : j <= k
NextToken(scanned, shown, size) ==
    IF Cardinality(scanned) < size THEN 0
    ELSE CHOOSE k \in scanned : \A j \in scanned : j <= k

Listed == IF call.resource = "rulebundles" THEN Bundles ELSE objects

\* FilterExpression of getRuleBundles: those the role of the caller is in.
Shown(table) ==
    IF call.resource = "rulebundles" THEN {b \in table : call.who \in BundleOwners[b]} ELSE table

\* The list the client goes on with, or begins: the token is the one it got.
Continued ==
    IF listing.of = call.resource /\ listing.who = call.who /\ ~listing.over
    THEN listing
    ELSE [NoListing EXCEPT !.of = call.resource, !.who = call.who, !.due = Shown(Listed)]

\* One page of a list.
Page ==
    \E size \in 1 .. PageSize(call.limit) :
        LET l == Continued
            scanned == Scanned(Listed, l.cursor, size)
            page == Shown(scanned)
            token == NextToken(scanned, page, size)
        IN listing' = [l EXCEPT !.cursor = token, !.seen = @ \cup page,
                                !.twice = @ \/ (page \cap l.seen # {}), !.over = (token = 0)]

ListObjects ==
    /\ Handles("GET", "objects")
    /\ Page
    /\ Reply(200, "handler")
    /\ UNCHANGED <<deployment, call, errors, troubled, kept, objects>>

ListRuleBundles ==
    /\ Handles("GET", "rulebundles")
    /\ Page
    /\ Reply(200, "handler")
    /\ UNCHANGED <<deployment, call, errors, troubled, kept, objects>>

\* For audits and the rules of a bundle it is enough here that there is an answer.
ListAudits ==
    /\ Handles("GET", "audits")
    /\ Reply(200, "handler")
    /\ UNCHANGED <<deployment, call, errors, troubled, kept, objects, listing>>

ListRules ==
    /\ Handles("GET", "rules")
    /\ IF MayUse(call.bundle) THEN Reply(200, "handler") ELSE NoAccess
    /\ UNCHANGED <<deployment, call, errors, troubled, kept, objects, listing>>

-----------------------------------------------------------------------------
(* What happens around the environment.                                    *)

\* Another environment creates or deletes an object between two pages.
Elsewhere(o) ==
    /\ stage = "idle"
    /\ listing.of = "objects" /\ ~listing.over
    /\ objects' = IF o \in objects THEN objects \ {o} ELSE objects \cup {o}
    /\ NotDue(o)
    /\ UNCHANGED <<deployment, stage, call, errors, troubled, answer, kept>>

\* The request takes longer than the Lambda may, and the environment ends.
TimeOut ==
    /\ stage \in {"validate", "opa", "store"}
    /\ Reply(504, "gateway")
    /\ errors' = {}
    /\ troubled' = TRUE
    /\ UNCHANGED <<deployment, call, kept, objects, listing>>

Next ==
    \/ \E c \in Calls[deployment] : Send(c)
    \/ Receive
    \/ Enter \/ Route
    \/ Validate \/ ValidatorThrows \/ Match
    \/ AskOpa \/ OpaFails
    \/ CreateObject \/ UpdateObject \/ DeleteObject \/ GetObject \/ ListObjects
    \/ CreateRule \/ UpdateRule \/ DeleteRule \/ GetRule \/ ListRules
    \/ CreateRuleBundle \/ UpdateRuleBundle \/ DeleteRuleBundle \/ GetRuleBundle
    \/ ListRuleBundles \/ ListAudits
    \/ StoreFails
    \/ \E o \in ObjectIds : Elsewhere(o)
    \/ TimeOut

Spec == Init /\ [][Next]_vars

-----------------------------------------------------------------------------
(* Properties.                                                             *)

\* A request is refused by the validator for what is wrong with its own body, or
\* because a service failed while its body was looked at, never for what an
\* earlier request in the environment was refused for (InputValidator keeps what
\* it found in the instance; the container makes one for every request).
RefusedForOwnFault ==
    [][stage = "validate" /\ stage' = "answered" /\ answer'.by = "validator" =>
          OwnFaults # {} \/ troubled']_vars

\* The checks of a stored rule hold of its text, as far as nothing hides in it: a
\* port that is nothing but a number or a range has 0 <= from <= to <= 65535, and
\* when every option is read as its key there is one msg and one sid, the ones
\* the resolver puts in front, and no option ANFW does not support.  What a key
\* or a value brings along behind a semicolon or a blank is not checked by
\* anybody (CreateRuleInputValidator, RuleDefinitionResolver).
RuleTextAsChecked ==
    kept.kind = "rule" =>
        LET text == RuleText(kept)
            Of(key) == {i \in DOMAIN text.options : key \in text.options[i]}
        IN /\ (\A i \in DOMAIN kept.options : kept.options[i].reads = {kept.options[i].key}) =>
                 Of("msg") = {1} /\ Of("sid") = {2} /\ Of("unsupported") = {}
           /\ \A p \in text.ports :
                 /\ p.form = "none" <=> p.type = "Any"
                 /\ p.form = "number" /\ p.alone => p.from \in 0 .. MaxPort
                 /\ p.form = "range" /\ p.alone =>
                       p.from \in 0 .. MaxPort /\ p.to \in p.from .. MaxPort

\* What is stored as an object is claimed by at least one of the six resolvers of
\* the auto-config Lambda, so that a synchronisation has one to ask, the ARN is
\* one, and a Lambda function is looked for by a tag.  A tagged object is not
\* resolved before it is stored and may have no tags (CreateObjectInputValidator,
\* ObjectDefinitionResolver).
AdmittedObjectsResolve ==
    kept.kind = "object" =>
        /\ Claimants(kept) # {}
        /\ kept.type = "Arn" => kept.arn # "malformed"
        /\ kept.type = "Lambda" => kept.tags # 0

\* With OPA and its default policies, nobody but the administrator stores a rule
\* that drops, or makes an object point into another account, by creating or by
\* updating, whatever else happens on the way (OpaPolicyService, the policies).
OwnersStayInBounds ==
    kept # Nothing /\ call.who # "admin" /\ deployment.opa
        /\ {"deny rule", "cross reference"} \subseteq deployment.policies =>
        /\ ~(kept.kind = "rule" /\ kept.action = "drop")
        /\ ~(kept.kind = "object" /\ kept.type = "Arn" /\ ~kept.own)

\* A bundle that the API accepts names a rule group that the auto-config Lambda of
\* the same deployment may write, although the two constructs have patterns of
\* their own, and a scheduled run would fail otherwise.
AcceptedGroupsCanBeWritten ==
    kept.kind = "bundle" => kept.group \in SyncGroups(deployment)

\* A client that lists objects or bundles until there is no token has got, once
\* each, all the items it may see that were there all the time, and no bundle of
\* other owners, whatever was created and deleted meanwhile, however short the
\* pages were and although a page may show nothing (getObjects, getRuleBundles).
ListingComplete ==
    /\ listing.over => listing.due \subseteq listing.seen
    /\ ~listing.twice
    /\ listing.of = "rulebundles" => \A b \in listing.seen : listing.who \in BundleOwners[b]

\* The calls of the canary.
CanaryCall ==
    /\ call.who = "canary" /\ call.inside = CanaryInside(deployment)
    /\ Method \in Over({"GET"}, "objects") \cup Over({"GET"}, "rulebundles") \cup Over({"GET"}, "audits")

\* The parts of a deployment fit: a method of the gateway has its route, the canary
\* may make its calls when the type of the gateway is configured, and a request
\* is answered 500 by a handler only if a call failed or the object has no
\* identifier, that is, the function reaches the tables it is configured for.
ServedAsPermitted ==
    /\ answer.by # "router"
    /\ answer = [code |-> 403, by |-> "gateway"] /\ deployment.gateway # "unset" => ~CanaryCall
    /\ answer.by = "handler" /\ answer.code = 500 /\ ~troubled =>
          call.body.kind = "object" /\ call.body.id = "missing"

=============================================================================
