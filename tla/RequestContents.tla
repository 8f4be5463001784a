--------------------------- MODULE RequestContents ---------------------------
(***************************************************************************)
(* The bodies of config API requests: what the validators find wrong with  *)
(* them, what OPA decides on them and what becomes of the accepted ones.   *)
(*                                                                         *)
(* Bodies are records of what the checks tell apart.  The validators go    *)
(* through the whole body and collect faults; the faults here are names    *)
(* for their messages.                                                     *)
(***************************************************************************)
EXTENDS Integers, Sequences

MaxPort == 65535

\* A port of a rule.  Form says what its text has: nothing, a number in front,
\* "[from:" and a digit somewhere with width characters up to the bracket that
\* closes, or something else; alone, that there is nothing else in the text.
Port(type, form, from, to, width, alone) ==
    [type |-> type, form |-> form, from |-> from, to |-> to, width |-> width, alone |-> alone]

\* An option of a rule, with the keywords that "key: value" is read as when it
\* is split at semicolons and trimmed; a plain one is read as its key.
Option(key, reads) == [key |-> key, reads |-> reads]

(* The bodies there are.  Names the checks do not know are as good as any other; *)
(* list says whether what should be a list is one, resource has the names that   *)
(* are followed by a slash and something in the resource of an ARN, own says     *)
(* that it is of the account of the caller, blank that a tag has no key or       *)
(* value, and address that the value is an IP address or a CIDR block.           *)

FlowRulePort ==
    [type: STRING, form: {"none", "number", "range", "other"}, from: Int, to: Int,
     width: Nat, alone: BOOLEAN]

FlowRule ==
    [kind: {"rule"}, protocol: STRING, action: STRING, list: BOOLEAN,
     options: Seq([key: STRING, reads: SUBSET STRING]), bundle: Nat, source: Nat, destination: Nat,
     sourcePort: FlowRulePort, destinationPort: FlowRulePort]

FlowObject ==
    [kind: {"object"}, id: {"ok", "malformed", "missing"}, type: STRING, arn: {"ok", "malformed"},
     service: STRING, resource: SUBSET STRING, own: BOOLEAN, tags: Nat, blank: BOOLEAN, list: BOOLEAN,
     address: BOOLEAN]

FlowRuleBundle ==
    [kind: {"bundle"}, group: STRING, id: {"ok", "malformed", "missing"}, description: BOOLEAN,
     aggregator: STRING, owners: {"good", "missing", "no admin", "stranger"}]

\* No body, one that is no JSON, and null.
Unread == [kind: {"none", "junk", "null"}]

-----------------------------------------------------------------------------
(* Rules.                                                                  *)

NotAPort(n) == n < 0 \/ n > MaxPort

\* parseInt reads the number at the start of the text.
SinglePortFault(p) == p.form # "number" \/ NotAPort(p.from)

\* /\[(\d+):(\d.+)\]/ matches anywhere in the text and wants two characters at
\* least after the colon, a digit first; parseInt reads the number they begin with.
PortRangeFault(p) ==
    \/ p.form # "range"
    \/ p.width < 2
    \/ NotAPort(p.from) \/ NotAPort(p.to)
    \/ p.from > p.to

PortFault(p) ==
    \/ p.type \notin {"Any", "SinglePort", "PortRange"}
    \/ p.type = "Any" /\ p.form # "none"
    \/ p.type = "SinglePort" /\ SinglePortFault(p)
    \/ p.type = "PortRange" /\ PortRangeFault(p)

\* RESERVED_OPTIONS are msg and sid; "unsupported" stands for the eleven keys
\* ANFW does not support.  A key is compared as it is given, and the value is not
\* looked at.  In the mutant a msg may be given.
OptionFaultMsg(o) == o.key \in {"missing", "unsupported", "sid"}
OptionFault(o) == o.key \in {"missing", "unsupported", "msg", "sid"}

OptionsFault(b) ==
    ~b.list \/ \E i \in DOMAIN b.options : OptionFault(b.options[i])

\* CreateRuleInputValidator, used for updates too.
RuleFaults(b, objects, bundles) ==
    {f \in {"protocol", "action", "option", "bundle", "end", "port"} :
        \/ f = "protocol" /\ b.protocol \notin {"tcp", "udp", "icmp"}
        \/ f = "action" /\ b.action \notin {"pass", "drop", "alert"}
        \/ f = "option" /\ OptionsFault(b)
        \/ f = "bundle" /\ b.bundle \notin bundles
        \/ f = "end" /\ ~({b.source, b.destination} \subseteq objects)
        \/ f = "port" /\ (PortFault(b.sourcePort) \/ PortFault(b.destinationPort))}

\* The text of a rule in the rule group: its ports as they are given, and after
\* msg and sid the text of every option, keys and values as they are given.
RuleText(b) ==
    [action |-> b.action,
     ports |-> {b.sourcePort, b.destinationPort},
     options |-> <<{"msg"}, {"sid"}>> \o [i \in DOMAIN b.options |-> b.options[i].reads]]

-----------------------------------------------------------------------------
(* Objects.                                                                *)

\* Resources ARNs point at, with the resolver that asks AWS Config for them.
Ec2Resources == {"instance", "security-group"}
NetworkResources == {"vpc", "subnet"}

ArnFault(o) ==
    \/ o.arn = "malformed"
    \/ o.service \notin {"autoscaling", "ec2"}
    \/ o.service = "ec2" /\ o.resource \cap (Ec2Resources \cup NetworkResources) = {}

\* TAG_MAX_NUMBER is 10, "max pair 10" the message, and ten pairs are refused.
TagFault(o) == o.tags >= 10 \/ o.blank

\* The validator calls a function of a tag list that is none.
BrokenObject(o) == o.type \in {"Tagged", "Lambda"} /\ ~o.list

ObjectFaults(o) ==
    {f \in {"id", "arn", "tags"} :
        \/ f = "id" /\ o.id = "malformed"
        \/ f = "arn" /\ o.type = "Arn" /\ ArnFault(o)
        \/ f = "tags" /\ o.type \in {"Tagged", "Lambda"} /\ TagFault(o)}

\* canResolve of the six resolvers, in the order they are asked: the first that
\* can resolves.  Both ec2 and network claim instance/vpc/x.
Resolvers == <<"ec2", "network", "asg", "tagged", "simple", "lambda">>

CanResolve(resolver, o) ==
    \/ resolver = "ec2" /\ o.type = "Arn" /\ o.service = "ec2" /\ o.resource \cap Ec2Resources # {}
    \/ resolver = "network" /\ o.type = "Arn" /\ o.service = "ec2"
         /\ o.resource \cap NetworkResources # {}
    \/ resolver = "asg" /\ o.type = "Arn" /\ o.service = "autoscaling"
    \/ resolver = "tagged" /\ o.type = "Tagged"
    \/ resolver = "simple" /\ o.type = "Address" /\ o.address
    \/ resolver = "lambda" /\ o.type = "Lambda"

Claimants(o) == {i \in DOMAIN Resolvers : CanResolve(Resolvers[i], o)}

\* What validateObjectReference may find: addresses, none, or an error, which
\* it also makes a fault.  Tagged objects are not resolved; fixed ones need no
\* query; LambdaObjectResolver gives up without a tag.  In the mutant only ARNs
\* are looked at.
ResolutionsOfArns(o) ==
    IF o.type = "Arn" THEN {"some", "none", "error"} ELSE {"skipped"}
Resolutions(o) ==
    CASE Claimants(o) = {} -> {"unclaimed"}
      [] o.type = "Tagged" -> {"skipped"}
      [] o.type = "Address" /\ o.address -> {"some"}
      [] o.type = "Lambda" /\ o.tags = 0 -> {"none"}
      [] OTHER -> {"some", "none", "error"}

-----------------------------------------------------------------------------
(* Rule bundles.                                                           *)

\* A missing owner group has no includes.
BrokenBundle(b) == b.owners = "missing"

\* The two bundle validators; groups and aggregators are what AWS answers for.
BundleFaults(op, b, groups, aggregators) ==
    {f \in {"arn", "id", "description", "group", "aggregator", "admin", "owner"} :
        \/ f = "arn" /\ b.group \in {"blank", "malformed"}
        \/ f = "id" /\ (b.id = "malformed" \/ (b.id = "missing" /\ op = "updateBundle"))
        \/ f = "description" /\ op = "createBundle" /\ ~b.description
        \/ f = "group" /\ b.group \notin groups
        \/ f = "aggregator" /\ b.aggregator \notin aggregators
        \/ f = "admin" /\ b.owners = "no admin"
        \/ f = "owner" /\ b.owners = "stranger"}

-----------------------------------------------------------------------------
(* The policies OPA is asked for.                                          *)

\* forbidden_create_modify_deny_rules_for_non_admin
DenyRulePolicy(type, role, b) ==
    ~(type \in {"CREATE", "UPDATE"} /\ role = "appowner" /\ b.kind = "rule" /\ b.action = "drop")

\* forbidden_cross_object_reference, after a mutant that looks at creations only
CrossReferenceOnCreate(type, role, b) ==
    ~(type = "CREATE" /\ role = "appowner" /\ b.kind = "object" /\ b.type = "Arn" /\ ~b.own)
CrossReferencePolicy(type, role, b) ==
    ~(type \in {"CREATE", "UPDATE"} /\ role = "appowner"
        /\ b.kind = "object" /\ b.type = "Arn" /\ ~b.own)

\* A request that names a policy no package has fails as a whole.
KnownPolicies == {"deny rule", "cross reference"}

Passes(policy, type, role, b) ==
    CASE policy = "deny rule" -> DenyRulePolicy(type, role, b)
      [] policy = "cross reference" -> CrossReferencePolicy(type, role, b)

\* All policies are mandatory, so one that fails makes the decision.
Decision(policies, type, role, b) ==
    /\ policies \subseteq KnownPolicies
    /\ \A policy \in policies : Passes(policy, type, role, b)
=============================================================================
