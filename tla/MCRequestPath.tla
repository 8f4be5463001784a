---------------------------- MODULE MCRequestPath ----------------------------
(* Instances of RequestPath for TLC.  Bodies differ from a good one in one   *)
(* place, as far as the checks tell the place apart.                         *)
EXTENDS RequestPath, TLC

MCBundleOwners == 1 :> {"admin"} @@ 2 :> {"admin", "owner"} @@ 3 :> {"admin"}

Both == {"deny rule", "cross reference"}

\* Behind the gateway the permissions matter, and one body of every kind.
Behind(gateway, imported, pattern) ==
    [gateway |-> gateway, opa |-> FALSE, imported |-> imported, pattern |-> pattern,
     front |-> "gateway", policies |-> Both]
\* With an open front the contents matter.
Open(opa, pattern, policies) ==
    [gateway |-> "edge", opa |-> opa, imported |-> TRUE, pattern |-> pattern,
     front |-> "open", policies |-> policies]

Gateways ==
    {Behind("private", FALSE, "default"), Behind("edge", TRUE, "default"),
     Behind("unset", FALSE, "custom")}
Watched == Behind("private", TRUE, "default")
WithOpa == Open(TRUE, "default", Both)
BadPolicies == Open(TRUE, "default", {"deny rule", "unknown"})
NoOpa == Open(FALSE, "custom", Both)
Listing == Open(FALSE, "default", {})

MCDeployments == Gateways \cup {Watched, WithOpa, BadPolicies, NoOpa, Listing}

-----------------------------------------------------------------------------
NoBody == [kind |-> "none"]
Unparsed == {NoBody, [kind |-> "junk"], [kind |-> "null"]}

AnyPort == Port("Any", "none", 0, 0, 0, TRUE)
Web == Port("SinglePort", "number", 443, 443, 0, TRUE)

GoodRule ==
    [kind |-> "rule", protocol |-> "tcp", action |-> "pass", list |-> TRUE,
     options |-> <<Option("flow", {"flow"})>>, bundle |-> 2, source |-> 1, destination |-> 2,
     sourcePort |-> AnyPort, destinationPort |-> Web]

\* [80:90], [90:80], [1:9], [1:09], [80:80], [80:65536] and abc[80:90] are ranges.
Ports ==
    {Port("Any", "number", 443, 443, 0, TRUE), Port("SinglePort", "none", 0, 0, 0, TRUE),
     Port("SinglePort", "number", 443, 443, 0, FALSE), Port("SinglePort", "number", -1, 0, 0, TRUE),
     Port("SinglePort", "number", 65536, 0, 0, TRUE), Port("SinglePort", "range", 80, 90, 2, TRUE),
     Port("PortRange", "range", 80, 90, 2, TRUE), Port("PortRange", "range", 90, 80, 2, TRUE),
     Port("PortRange", "range", 1, 9, 1, TRUE), Port("PortRange", "range", 1, 9, 2, TRUE),
     Port("PortRange", "range", 80, 80, 2, TRUE), Port("PortRange", "range", 80, 65536, 5, TRUE),
     Port("PortRange", "range", 80, 90, 2, FALSE), Port("Other", "none", 0, 0, 0, TRUE)}

\* Options that are read as something else than their keys: a key with a blank
\* behind it, and a value that goes on with another option.
Optionses ==
    {<<>>, <<Option("msg", {"msg"})>>, <<Option("flow", {"flow"}), Option("sid", {"sid"})>>,
     <<Option("unsupported", {"unsupported"})>>, <<Option("sid ", {"sid"})>>,
     <<Option("content", {"content", "sid"})>>}

RuleBodies ==
    {GoodRule, [GoodRule EXCEPT !.protocol = "other"], [GoodRule EXCEPT !.action = "drop"],
     [GoodRule EXCEPT !.action = "other"], [GoodRule EXCEPT !.list = FALSE],
     [GoodRule EXCEPT !.bundle = 4], [GoodRule EXCEPT !.bundle = 1]} \cup
    {[GoodRule EXCEPT !.destinationPort = p] : p \in Ports} \cup
    {[GoodRule EXCEPT !.options = o] : o \in Optionses}

GoodObject ==
    [kind |-> "object", id |-> "ok", type |-> "Address", arn |-> "ok", service |-> "ec2",
     resource |-> {"instance"}, own |-> TRUE, tags |-> 1, blank |-> FALSE, list |-> TRUE,
     address |-> TRUE]

Arn(service, resource, own) ==
    [GoodObject EXCEPT !.type = "Arn", !.service = service, !.resource = resource, !.own = own]
TagList(type, n) == [GoodObject EXCEPT !.type = type, !.tags = n]

ObjectBodies ==
    {GoodObject, [GoodObject EXCEPT !.id = "malformed"], [GoodObject EXCEPT !.id = "missing"],
     [GoodObject EXCEPT !.address = FALSE], [GoodObject EXCEPT !.type = "Cidr"],
     Arn("ec2", {"instance"}, TRUE), Arn("ec2", {"subnet"}, FALSE), Arn("ec2", {"volume"}, TRUE),
     Arn("ec2", {}, TRUE), Arn("ec2", {"instance", "vpc"}, TRUE),
     Arn("autoscaling", {}, TRUE), Arn("rds", {}, TRUE),
     [Arn("ec2", {"vpc"}, TRUE) EXCEPT !.arn = "malformed"]} \cup
    {TagList(t, n) : t \in {"Tagged", "Lambda"}, n \in {0, 1, 9, 10}} \cup
    {[TagList(t, 1) EXCEPT !.list = FALSE] : t \in {"Tagged", "Lambda"}} \cup
    {[TagList("Tagged", 1) EXCEPT !.blank = TRUE]}

GoodBundle(pattern) ==
    [kind |-> "bundle", group |-> IF pattern = "default" THEN "anfwconfig-rule" ELSE "custom",
     id |-> "ok", description |-> TRUE, aggregator |-> "known", owners |-> "good"]

BundleBodies(pattern) ==
    {[GoodBundle(pattern) EXCEPT !.group = g] :
        g \in {"anfwconfig-rule", "anfwconfig", "custom", "blank", "gone"}} \cup
    {[GoodBundle(pattern) EXCEPT !.id = i] : i \in {"malformed", "missing"}} \cup
    {[GoodBundle(pattern) EXCEPT !.owners = o] : o \in {"missing", "no admin", "stranger"}} \cup
    {[GoodBundle(pattern) EXCEPT !.description = FALSE],
     [GoodBundle(pattern) EXCEPT !.aggregator = "other"]}

-----------------------------------------------------------------------------
\* A call with what its method and body do not decide left at a default.
Ask(who, inside, method, body) ==
    [who |-> who, inside |-> inside, verb |-> method[1], resource |-> method[2],
     matching |-> TRUE, target |-> 1, bundle |-> IF body.kind = "rule" THEN body.bundle ELSE 2,
     limit |-> 0, body |-> body]

Default(pattern, method) ==
    IF method[1] \notin {"POST", "PUT"} THEN NoBody
    ELSE CASE method[2] \in {"rules", "rules/id"} -> GoodRule
           [] method[2] \in {"objects", "objects/id"} -> GoodObject
           [] OTHER -> GoodBundle(pattern)

Methods == Deployed \cup {<<"DELETE", "audits">>}

\* Objects, which may change between two pages, are listed in Watched and Listing.
GatewayCalls(pattern) ==
    {Ask(who, inside, m, Default(pattern, m)) :
        who \in {"admin", "canary", "owner"}, inside \in BOOLEAN,
        m \in Methods \ {<<"GET", "objects">>}}

CanaryCalls ==
    {Ask("canary", inside, <<"GET", r>>, NoBody) :
        inside \in BOOLEAN, r \in {"objects", "rulebundles", "audits"}}

Bodied(resource) == {<<"POST", resource>>, <<"PUT", resource \o "/id">>}

RuleCalls(who) ==
    {Ask(who, TRUE, m, b) : m \in Bodied("rules"), b \in RuleBodies \cup Unparsed}

ObjectCalls(who, bodies) == {Ask(who, TRUE, m, b) : m \in Bodied("objects"), b \in bodies}

ArnObjects == {b \in ObjectBodies : b.type = "Arn"}

BundleCalls(who, pattern) ==
    {Ask(who, TRUE, m, b) : m \in Bodied("rulebundles"), b \in BundleBodies(pattern)} \cup
    {[Ask(who, TRUE, <<"PUT", r>>, Default(pattern, <<"PUT", r>>)) EXCEPT !.matching = FALSE] :
        r \in {"rules/id", "objects/id", "rulebundles/id"}}

Singles(who) ==
    {Ask(who, TRUE, <<v, r>>, NoBody) :
        v \in {"GET", "DELETE"}, r \in {"rules/id", "objects/id", "rulebundles/id"}} \cup
    {[Ask(who, TRUE, <<v, "rules/id">>, NoBody) EXCEPT !.bundle = b] :
        v \in {"GET", "DELETE"}, b \in {1, 4}}

Paged(who, resource, limits) ==
    {[Ask(who, TRUE, <<"GET", resource>>, NoBody) EXCEPT !.limit = n] : n \in limits}

ListingCalls ==
    Paged("owner", "objects", 0 .. MaxResults + 1) \cup
    Paged("owner", "rulebundles", 0 .. MaxResults) \cup
    Paged("admin", "rulebundles", {1}) \cup
    {Ask("admin", TRUE, <<"GET", r>>, NoBody) : r \in {"rules", "audits"}} \cup
    {[Ask("admin", TRUE, <<"POST", "objects">>, GoodObject) EXCEPT !.target = 3],
     [Ask("admin", TRUE, <<"DELETE", "objects/id">>, NoBody) EXCEPT !.target = 2]}

MCCalls ==
    [d \in MCDeployments |->
        IF d \in Gateways THEN GatewayCalls(d.pattern)
        ELSE IF d = Watched THEN CanaryCalls
        ELSE IF d = Listing THEN ListingCalls
        ELSE IF d = WithOpa THEN RuleCalls("owner") \cup ObjectCalls("owner", ArnObjects) \cup Singles("owner")
        ELSE IF d = BadPolicies
        THEN {Ask("admin", TRUE, <<"POST", "objects">>, GoodObject)}
        ELSE ObjectCalls("admin", ObjectBodies) \cup BundleCalls("admin", d.pattern)]
=============================================================================
