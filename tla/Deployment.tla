------------------------------ MODULE Deployment ------------------------------
(***************************************************************************)
(* What the CDK stack wires around the Lambdas: who may enter the API, and  *)
(* which tables and rule groups each function may use.  Roles, methods,     *)
(* functions and tables are names; a deployment is the part of the CDK      *)
(* context that changes the wiring.                                         *)
(***************************************************************************)
EXTENDS Naturals

(* The context of a deployment: apiGatewayType, enableOpa, importVpcDetails, *)
(* networkFirewallRuleGroupNamePattern and defaultPolicyIds.  Front says     *)
(* whether the gateway has the resource policy of the stack, or one that was *)
(* put in its place and lets every role in ("open").                         *)
AllDeployments ==
  [gateway: {"private", "edge", "unset"}, opa: BOOLEAN, imported: BOOLEAN,
   pattern: {"default", "custom"}, front: {"gateway", "open"},
   policies: SUBSET {"deny rule", "cross reference", "unknown"}]

-----------------------------------------------------------------------------
(* The API in front of the Lambda.                                          *)

Over(verbs, resource) == {<<v, resource>> : v \in verbs}

\* The methods the gateway has.
Deployed == Over({"GET", "POST"}, "rulebundles")
      \cup Over({"GET", "PUT", "DELETE"}, "rulebundles/id")
      \cup Over({"GET", "POST"}, "rules")
      \cup Over({"GET", "PUT", "DELETE"}, "rules/id")
      \cup Over({"GET", "POST"}, "objects")
      \cup Over({"GET", "PUT", "DELETE"}, "objects/id")
      \cup Over({"GET"}, "audits")

\* permissionDefinitions: what the resource policy lets SEC_OPS call; it
\* has no DELETE of a bundle.
Permissions == Deployed \ {<<"DELETE", "rulebundles/id">>}

\* The API is private when nothing is configured ...
ApiType(d) == IF d.gateway = "unset" THEN "private" ELSE d.gateway

\* ... but only a configured "private" puts the canary into the VPC.
CanaryInside(d) == d.gateway = "private"

\* What identity policies grant: everything to the admin role, reading to
\* the canary role, nothing to the application owner role.
OwnPolicy(who, method) ==
  \/ who = "admin"
  \/ who = "canary" /\ method[1] = "GET"

ResourcePolicy(who, method) == who = "admin" /\ method \in Permissions

\* The deny statements of the resource policy win over every grant.
Denied(d, who, inside) ==
  \/ who \notin {"admin", "canary"}
  \/ ApiType(d) = "private" /\ ~inside

Enters(d, who, inside, method) ==
  /\ method \in Deployed
  /\ ~Denied(d, who, inside)
  /\ OwnPolicy(who, method) \/ ResourcePolicy(who, method)

-----------------------------------------------------------------------------
(* What the functions may reach.                                            *)

Functions == {"api", "autoConfig", "scheduler"}
Tables == {"rules", "bundles", "objects", "audits"}

\* The table names in the environment of a function, which are what its
\* AppConfiguration and so its data sources work on.
Configured(f) ==
  CASE f = "api" -> Tables
    [] f = "autoConfig" -> {"rules", "bundles", "objects"}
    [] f = "scheduler" -> {"bundles"}

\* In the mutant the audits table is forgotten.
ApiGrantsWithoutAudits == {"objects", "bundles", "rules"}
ApiGrants == {"objects", "bundles", "rules", "audits"}

Granted(f) ==
  CASE f = "api" -> ApiGrants
    [] f = "autoConfig" -> {"rules", "objects", "bundles"}
    [] f = "scheduler" -> {"bundles"}

\* The DynamoDB endpoint exists in the stack's own VPC only; its policy
\* names the roles of the three functions and the four tables.
EndpointOpens(d, f, t) == d.imported \/ (f \in Functions /\ t \in Tables)

Reaches(d, f, t) == t \in Granted(f) /\ EndpointOpens(d, f, t)

\* The rule group names the policies of a function cover.  The default
\* pattern of the API is narrower than the one of the auto-config Lambda.  In the
\* mutant the API keeps its own pattern whatever is configured.
ApiGroupsFixed(d) == {"anfwconfig-rule"}
ApiGroups(d) ==
  IF d.pattern = "default" THEN {"anfwconfig-rule"} ELSE {"custom"}
SyncGroups(d) ==
  IF d.pattern = "default" THEN {"anfwconfig-rule", "anfwconfig"} ELSE {"custom"}
=============================================================================
