-------------------------- MODULE RequestPathProofs --------------------------
(***************************************************************************)
(* Theorems of RequestPath, for every set of requests, deployments,        *)
(* objects and bundles, and every length of a page.                        *)
(*                                                                         *)
(* The invariant IInv ties the stage of a request to what is known of it:  *)
(* a body that has left the validator is sound, one that has left OPA was  *)
(* passed, and what the store keeps has gone through both.  For lists it   *)
(* says where the client's cursor stands between what it has seen and what *)
(* is still due to it.                                                     *)
(***************************************************************************)
EXTENDS RequestPath, FiniteSetTheorems, WellFoundedInduction, TLAPS

Codes == {0, 200, 201, 400, 403, 404, 409, 500, 503, 504}

\* The items of a table that the role which lists it may see.
Visible(l) ==
    CASE l.of = "rulebundles" -> {b \in Bundles : l.who \in BundleOwners[b]}
      [] l.of = "objects" -> objects
      [] l.of = "nothing" -> {}

Listings ==
    [of: {"nothing", "objects", "rulebundles"}, who: STRING \cup {"nobody"}, cursor: Nat,
     seen: SUBSET (ObjectIds \cup Bundles), twice: {FALSE},
     due: SUBSET (ObjectIds \cup Bundles), over: BOOLEAN]

Types ==
    /\ deployment \in Deployments
    /\ stage \in Stages
    /\ call \in Calls[deployment] \cup {NoCall}
    /\ (call = NoCall) <=> (stage = "idle")
    /\ errors \subseteq Faults
    /\ troubled \in BOOLEAN
    /\ answer.code \in Codes
    /\ kept \in {Nothing, call.body}
    /\ objects \subseteq ObjectIds

\* Between requests there is no answer, and nothing is kept without one.
Staged ==
    /\ stage # "answered" => answer = NoAnswer /\ kept = Nothing
    /\ stage = "validate" => errors = {}
    /\ stage \notin {"idle", "gateway", "answered"} => Method \in Deployed

Writes == call.verb \in {"POST", "PUT"}

\* The body has gone through the validator, and through OPA.
Validated == (stage \in {"match", "opa", "store"} /\ Writes) \/ kept # Nothing
Passed == (stage = "store" /\ Writes) \/ kept # Nothing

\* What is left of a body's faults when the validator lets it pass.
SoundRule(b) == ~OptionsFault(b) /\ ~PortFault(b.sourcePort) /\ ~PortFault(b.destinationPort)
SoundObject(b) == ObjectFaults(b) = {} /\ Resolutions(b) \cap {"some", "skipped"} # {}
Sound(b) ==
    /\ b.kind = "rule" => SoundRule(b)
    /\ b.kind = "object" => SoundObject(b)
    /\ b.kind = "bundle" => b.group \in ApiGroups(deployment)

Checked ==
    /\ stage \in {"match", "opa", "store"} /\ Writes => errors = {}
    /\ kept # Nothing => Writes
    /\ Validated => Sound(call.body)
    /\ Passed /\ call.body.kind # "bundle" /\ deployment.opa =>
          Decision(deployment.policies, ChangeType, Role, call.body)

Answered ==
    /\ answer.by # "router"
    /\ answer = [code |-> 403, by |-> "gateway"] => ~Admitted
    /\ answer.by = "handler" /\ answer.code = 500 /\ ~troubled =>
          call.body.kind = "object" /\ call.body.id = "missing"

\* A list that goes on: what was seen lies up to the cursor, what is due and was
\* not seen after it, where the table still has it.
Pending(l) ==
    /\ \A k \in l.seen : k <= l.cursor
    /\ \A k \in l.due \ l.seen : k > l.cursor
    /\ l.due \subseteq Visible(l)

InOrder(l) ==
    /\ l \in Listings
    /\ IF l.over THEN l.due \subseteq l.seen ELSE Pending(l)
    /\ l.of = "rulebundles" => \A b \in l.seen : l.who \in BundleOwners[b]

InListing == InOrder(listing)

IInv == Types /\ Staged /\ Checked /\ Answered /\ InListing

-----------------------------------------------------------------------------
(* The validators.                                                         *)

LEMMA ConcatFacts ==
    ASSUME NEW S, NEW s \in Seq(S), NEW t \in Seq(S)
    PROVE  /\ Len(s \o t) = Len(s) + Len(t)
           /\ s \o t \in Seq(S)
           /\ \A i \in 1 .. Len(s) : (s \o t)[i] = s[i]
           /\ \A i \in 1 .. Len(t) : (s \o t)[Len(s) + i] = t[i]
OBVIOUS

LEMMA SequenceFacts ==
    ASSUME NEW S, NEW n \in Nat, NEW f \in [1 .. n -> S]
    PROVE  f \in Seq(S) /\ Len(f) = n
OBVIOUS

\* The options of a rule's text: msg, sid, and then those of the rule.
LEMMA OptionsOfText ==
    ASSUME NEW b \in FlowRule
    PROVE  LET opts == RuleText(b).options
               n == Len(b.options)
           IN /\ n \in Nat /\ DOMAIN b.options = 1 .. n
              /\ DOMAIN opts = 1 .. n + 2
              /\ opts[1] = {"msg"} /\ opts[2] = {"sid"}
              /\ \A i \in 1 .. n : opts[i + 2] = b.options[i].reads
<1>. DEFINE n == Len(b.options)
            head == <<{"msg"}, {"sid"}>>
            tail == [i \in DOMAIN b.options |-> b.options[i].reads]
            T == {head[i] : i \in 1 .. 2} \cup {tail[i] : i \in 1 .. n}
<1>1. b.options \in Seq([key: STRING, reads: SUBSET STRING])
  BY DEF FlowRule
<1>2. n \in Nat /\ DOMAIN b.options = 1 .. n
  BY <1>1
<1>3. Len(head) = 2 /\ head[1] = {"msg"} /\ head[2] = {"sid"}
  OBVIOUS
<1>4. head \in Seq(T)
  <2>1. head = [i \in 1 .. 2 |-> head[i]]
    OBVIOUS
  <2>. HIDE DEF head, tail
  <2>2. head \in [1 .. 2 -> T]
    BY <2>1
  <2>. HIDE DEF T
  <2>. QED
    BY <2>2, SequenceFacts
<1>5. tail \in [1 .. n -> T]
  <2>1. tail = [i \in 1 .. n |-> tail[i]]
    BY <1>2
  <2>. HIDE DEF head, tail
  <2>. QED
    BY <2>1
<1>. HIDE DEF head, tail, T, n
<1>6. tail \in Seq(T) /\ Len(tail) = n
  BY <1>2, <1>5, SequenceFacts
<1>7. RuleText(b).options = head \o tail
  BY DEF RuleText, head, tail
<1>8. \A i \in 1 .. n : tail[i] = b.options[i].reads
  BY <1>2 DEF tail
<1>9. /\ Len(head \o tail) = 2 + n /\ head \o tail \in Seq(T)
      /\ \A i \in 1 .. 2 : (head \o tail)[i] = head[i]
      /\ \A i \in 1 .. n : (head \o tail)[2 + i] = tail[i]
  <2>1. /\ Len(head \o tail) = Len(head) + Len(tail)
        /\ head \o tail \in Seq(T)
        /\ \A i \in 1 .. Len(head) : (head \o tail)[i] = head[i]
        /\ \A i \in 1 .. Len(tail) : (head \o tail)[Len(head) + i] = tail[i]
    <3>1. head \in Seq(T) /\ tail \in Seq(T)
      BY <1>4, <1>6
    <3>. QED
      BY ONLY <3>1, ConcatFacts
  <2>. QED
    BY <2>1, <1>3, <1>6
<1>10. DOMAIN (head \o tail) = 1 .. n + 2
  BY <1>9, <1>2
<1>11. \A i \in 1 .. n : (head \o tail)[i + 2] = tail[i]
  <2>. TAKE i \in 1 .. n
  <2>1. i + 2 = 2 + i
    BY <1>2
  <2>. QED
    BY <2>1, <1>9
<1>. QED
  <2>. DEFINE opts == RuleText(b).options
  <2>1. /\ DOMAIN opts = 1 .. n + 2
        /\ opts[1] = head[1] /\ opts[2] = head[2]
        /\ \A i \in 1 .. n : opts[i + 2] = tail[i]
    <3>1. opts = head \o tail
      BY <1>7
    <3>2. 1 \in 1 .. 2 /\ 2 \in 1 .. 2
      OBVIOUS
    <3>. HIDE DEF opts
    <3>. QED
      BY <3>1, <3>2, <1>9, <1>10, <1>11
  <2>. HIDE DEF opts
  <2>2. /\ opts[1] = {"msg"} /\ opts[2] = {"sid"}
        /\ \A i \in 1 .. n : opts[i + 2] = b.options[i].reads
    BY <2>1, <1>3, <1>8
  <2>. QED
    BY <1>2, <2>1, <2>2 DEF n, opts

\* A port the validator lets pass is in range and in order.
LEMMA SoundPorts ==
    ASSUME NEW p \in FlowRulePort, ~PortFault(p)
    PROVE  /\ p.form \in {"number", "range"} => p.from \in 0 .. MaxPort
           /\ p.form = "range" => p.to \in p.from .. MaxPort
           /\ p.form = "none" <=> p.type = "Any"
<1>. DEFINE type == p.type
            form == p.form
            from == p.from
            to == p.to
<1>1. from \in Int /\ to \in Int
  BY DEF FlowRulePort
<1>2. type \in {"Any", "SinglePort", "PortRange"}
  BY DEF PortFault
<1>3. type = "Any" => form = "none"
  BY DEF PortFault
<1>4. type = "SinglePort" => form = "number" /\ ~(from < 0 \/ from > MaxPort)
  BY DEF PortFault, SinglePortFault, NotAPort
<1>5. type = "PortRange" => form = "range" /\ ~(from < 0 \/ from > MaxPort) /\ ~(to < 0 \/ to > MaxPort) /\ ~(from > to)
  BY DEF PortFault, PortRangeFault, NotAPort
<1>6. MaxPort \in Nat
  BY DEF MaxPort
<1>. HIDE DEF type, form, from, to
<1>7. /\ form \in {"number", "range"} => from \in 0 .. MaxPort
      /\ form = "range" => to \in from .. MaxPort
      /\ form = "none" <=> type = "Any"
  <2>1. CASE type = "Any"
    BY <2>1, <1>3
  <2>2. CASE type = "SinglePort"
    <3>1. form = "number" /\ ~(from < 0 \/ from > MaxPort)
      BY <2>2, <1>4
    <3>2. from \in 0 .. MaxPort
      BY <3>1, <1>1, <1>6
    <3>3. form # "range" /\ form # "none" /\ type # "Any"
      BY <3>1, <2>2
    <3>. QED
      BY <3>2, <3>3, Zenon
  <2>3. CASE type = "PortRange"
    <3>1. form = "range" /\ ~(from < 0 \/ from > MaxPort) /\ ~(to < 0 \/ to > MaxPort) /\ ~(from > to)
      BY <2>3, <1>5
    <3>2. from \in 0 .. MaxPort /\ to \in from .. MaxPort
      BY <3>1, <1>1, <1>6
    <3>3. form # "none" /\ type # "Any"
      BY <3>1, <2>3
    <3>. QED
      BY <3>2, <3>3, Zenon
  <2>. QED
    BY <1>2, <2>1, <2>2, <2>3
<1>. QED
  BY <1>7 DEF type, form, from, to

\* What a rule the validator lets pass has in its text.
LEMMA SoundTexts ==
    ASSUME NEW b \in FlowRule, SoundRule(b)
    PROVE  LET text == RuleText(b)
               Of(key) == {i \in DOMAIN text.options : key \in text.options[i]}
           IN /\ (\A i \in DOMAIN b.options : b.options[i].reads = {b.options[i].key}) =>
                    Of("msg") = {1} /\ Of("sid") = {2} /\ Of("unsupported") = {}
              /\ \A p \in text.ports :
                    /\ p.form = "none" <=> p.type = "Any"
                    /\ p.form = "number" /\ p.alone => p.from \in 0 .. MaxPort
                    /\ p.form = "range" /\ p.alone =>
                          p.from \in 0 .. MaxPort /\ p.to \in p.from .. MaxPort
<1>. DEFINE opts == RuleText(b).options
            n == Len(b.options)
            Of(key) == {i \in DOMAIN opts : key \in opts[i]}
            plain == \A i \in DOMAIN b.options : b.options[i].reads = {b.options[i].key}
<1>1. /\ n \in Nat /\ DOMAIN b.options = 1 .. n
      /\ DOMAIN opts = 1 .. n + 2
      /\ opts[1] = {"msg"} /\ opts[2] = {"sid"}
      /\ \A i \in 1 .. n : opts[i + 2] = b.options[i].reads
  BY OptionsOfText
<1>. HIDE DEF opts, n
<1>2. \A i \in 1 .. n : b.options[i].key \notin {"msg", "sid", "unsupported"}
  BY <1>1 DEF SoundRule, OptionsFault, OptionFault
<1>3. ASSUME plain PROVE Of("msg") = {1} /\ Of("sid") = {2} /\ Of("unsupported") = {}
  <2>1. ASSUME NEW i \in 1 .. n + 2, i # 1, i # 2, NEW key \in {"msg", "sid", "unsupported"}
        PROVE  key \notin opts[i]
    <3>. DEFINE k == i - 2
    <3>1. k \in 1 .. n /\ i = k + 2
      BY <1>1, <2>1
    <3>. HIDE DEF k
    <3>2. opts[k + 2] = {b.options[k].key}
      BY <3>1, <1>1, <1>3
    <3>3. key # b.options[k].key
      BY <3>1, <1>2
    <3>. QED
      BY <3>1, <3>2, <3>3
  <2>2. 1 \in 1 .. n + 2 /\ 2 \in 1 .. n + 2
    BY <1>1
  <2>. QED
    BY <1>1, <2>1, <2>2
<1>4. RuleText(b).ports = {b.sourcePort, b.destinationPort}
  BY DEF RuleText
<1>5. \A p \in {b.sourcePort, b.destinationPort} :
         /\ p.form \in {"number", "range"} => p.from \in 0 .. MaxPort
         /\ p.form = "range" => p.to \in p.from .. MaxPort
         /\ p.form = "none" <=> p.type = "Any"
  <2>1. b.sourcePort \in FlowRulePort /\ b.destinationPort \in FlowRulePort
    BY DEF FlowRule
  <2>. QED
    BY <2>1, SoundPorts DEF SoundRule
<1>. QED
  BY <1>3, <1>4, <1>5 DEF opts

LEMMA ResolverFacts ==
    /\ DOMAIN Resolvers = 1 .. 6
    /\ Resolvers[1] = "ec2" /\ Resolvers[2] = "network" /\ Resolvers[3] = "asg"
    /\ Resolvers[4] = "tagged" /\ Resolvers[5] = "simple" /\ Resolvers[6] = "lambda"
BY DEF Resolvers

\* What an object the validator lets pass can be resolved to.
LEMMA SoundObjectsResolve ==
    ASSUME NEW o \in FlowObject, SoundObject(o)
    PROVE  /\ Claimants(o) # {}
           /\ o.type = "Arn" => o.arn # "malformed"
           /\ o.type = "Lambda" => o.tags # 0
<1>1. Claimants(o) # {}
  <2>1. o.type = "Tagged" => 4 \in Claimants(o)
    BY ResolverFacts DEF Claimants, CanResolve
  <2>2. o.type = "Address" /\ o.address => 5 \in Claimants(o)
    BY ResolverFacts DEF Claimants, CanResolve
  <2>3. o.type = "Lambda" => 6 \in Claimants(o)
    BY ResolverFacts DEF Claimants, CanResolve
  <2>. SUFFICES ASSUME Claimants(o) = {} PROVE FALSE
    OBVIOUS
  <2>4. /\ o.type # "Tagged" /\ ~(o.type = "Address" /\ o.address)
        /\ ~(o.type = "Lambda" /\ o.tags = 0)
    BY <2>1, <2>2, <2>3
  <2>5. Resolutions(o) = {"unclaimed"}
    BY <2>4 DEF Resolutions
  <2>. QED
    BY <2>5 DEF SoundObject
<1>2. "arn" \notin ObjectFaults(o)
  BY DEF SoundObject
<1>3. o.type = "Arn" => o.arn # "malformed"
  BY <1>2 DEF ObjectFaults, ArnFault
<1>4. o.type = "Lambda" => o.tags # 0
  <2>. SUFFICES ASSUME o.type = "Lambda", o.tags = 0 PROVE FALSE
    OBVIOUS
  <2>1. Resolutions(o) = {"none"}
    BY <1>1 DEF Resolutions
  <2>. QED
    BY <2>1 DEF SoundObject
<1>. QED
  BY <1>1, <1>3, <1>4

-----------------------------------------------------------------------------
(* What all handlers have in common.                                       *)

Handled ==
    /\ stage = "store" /\ stage' = "answered"
    /\ \E code \in Codes \ {500} : answer' = [code |-> code, by |-> "handler"]
    /\ kept' = kept \/ (Writes /\ kept' = call.body)
    /\ objects' \subseteq objects \cup {call.target}
    /\ UNCHANGED <<deployment, call, errors, troubled>>

HandlerOfObjects == CreateObject \/ UpdateObject \/ DeleteObject \/ GetObject \/ ListObjects
HandlerOfRules == CreateRule \/ UpdateRule \/ DeleteRule \/ GetRule \/ ListRules
HandlerOfBundles ==
    CreateRuleBundle \/ UpdateRuleBundle \/ DeleteRuleBundle \/ GetRuleBundle \/ ListRuleBundles
Handler == HandlerOfObjects \/ HandlerOfRules \/ HandlerOfBundles \/ ListAudits

LEMMA HandlersHandle ==
    ASSUME Handler
    PROVE  Handled
<1>1. Codes \ {500} = {0, 200, 201, 400, 403, 404, 409, 503, 504}
  BY DEF Codes
<1>2. ASSUME NEW verb, NEW resource, Handles(verb, resource)
      PROVE  stage = "store" /\ call.verb = verb
  BY <1>2 DEF Handles, Method
<1>3. ASSUME CreateObject PROVE Handled
  BY <1>1, <1>3 DEF CreateObject, Handles, Method, Reply, Store, Handled, Writes
<1>4. ASSUME UpdateObject PROVE Handled
  BY <1>1, <1>4 DEF UpdateObject, Handles, Method, Reply, Store, Handled, Writes
<1>5. ASSUME DeleteObject PROVE Handled
  BY <1>1, <1>5 DEF DeleteObject, Handles, Reply, Handled
<1>6. ASSUME GetObject \/ ListObjects PROVE Handled
  BY <1>1, <1>6 DEF GetObject, ListObjects, Handles, Reply, Handled
<1>7. ASSUME CreateRule PROVE Handled
  BY <1>1, <1>7 DEF CreateRule, NoAccess, Handles, Method, Reply, Handled, Writes
<1>8. ASSUME UpdateRule PROVE Handled
  BY <1>1, <1>8 DEF UpdateRule, NoAccess, Handles, Method, Reply, Handled, Writes
<1>9. ASSUME DeleteRule \/ GetRule \/ ListRules PROVE Handled
  BY <1>1, <1>9 DEF DeleteRule, GetRule, ListRules, NoAccess, Handles, Reply, Handled
<1>10. ASSUME CreateRuleBundle \/ UpdateRuleBundle PROVE Handled
  BY <1>1, <1>10 DEF CreateRuleBundle, UpdateRuleBundle, Handles, Method, Reply, Handled, Writes
<1>11. ASSUME DeleteRuleBundle \/ GetRuleBundle \/ ListRuleBundles \/ ListAudits PROVE Handled
  BY <1>1, <1>11 DEF DeleteRuleBundle, GetRuleBundle, ListRuleBundles, ListAudits, Handles, Reply, Handled
<1>. QED
  BY <1>3, <1>4, <1>5, <1>6, <1>7, <1>8, <1>9, <1>10, <1>11
     DEF Handler, HandlerOfObjects, HandlerOfRules, HandlerOfBundles

-----------------------------------------------------------------------------
(* Types.                                                                  *)

LEMMA CallFacts ==
    ASSUME Types
    PROVE  /\ stage # "idle" => call \in Call
           /\ deployment \in AllDeployments
BY CallsAssumption, DeploymentsAssumption DEF Types

LEMMA InitTypes == Init => Types
<1>. SUFFICES ASSUME Init PROVE Types
  OBVIOUS
<1>1. answer.code \in Codes
  BY DEF Init, NoAnswer, Codes
<1>2. errors \subseteq Faults /\ troubled \in BOOLEAN
  BY DEF Init
<1>3. stage \in Stages /\ call = NoCall /\ stage = "idle" /\ kept = Nothing
  BY DEF Init, Stages
<1>4. deployment \in Deployments /\ objects \subseteq ObjectIds
  BY DEF Init
<1>. QED
  BY <1>1, <1>2, <1>3, <1>4 DEF Types

LEMMA NoCallIsNoCall ==
    ASSUME NEW d \in Deployments, NEW c \in Calls[d]
    PROVE  c # NoCall
<1>1. c.verb \in {"GET", "POST", "PUT", "DELETE"}
  BY CallsAssumption DEF Call
<1>. QED
  BY <1>1 DEF NoCall

\* Whatever a validator finds has a name.
LEMMA FindingsAreFaults ==
    ASSUME Types, stage = "validate", NEW found \in Findings
    PROVE  found \subseteq Faults
<1>1. call.body.kind \in {"none", "junk", "null", "rule", "object", "bundle"}
  BY CallFacts DEF Call, FlowRule, FlowObject, FlowRuleBundle, Unread
<1>2. CASE call.body.kind \in {"none", "junk", "null"}
  BY <1>2 DEF Findings, Faults
<1>3. CASE call.body.kind = "rule"
  BY <1>3 DEF Findings, Faults, RuleFaults
<1>4. CASE call.body.kind = "object"
  BY <1>4 DEF Findings, Faults, ObjectFindings, ObjectFaults
<1>5. CASE call.body.kind = "bundle"
  <2>1. Findings = BundleFindings
    BY <1>5 DEF Findings
  <2>2. PICK groups, aggregators : found = BundleFaults(BundleOp, call.body, groups, aggregators)
    BY <2>1 DEF BundleFindings
  <2>. QED
    BY <2>2 DEF BundleFaults, Faults
<1>. QED
  BY <1>1, <1>2, <1>3, <1>4, <1>5

LEMMA NextTypes ==
    ASSUME Types, [Next]_vars
    PROVE  Types'
<1>1. CASE UNCHANGED vars
  BY <1>1 DEF vars, Types
<1>2. ASSUME NEW c \in Calls[deployment], Send(c) PROVE Types'
  <2>1. c # NoCall
    BY NoCallIsNoCall DEF Types
  <2>2. kept = Nothing
    BY <1>2 DEF Types, Send, NoCall
  <2>3. /\ call' = c /\ stage' = "gateway"
        /\ UNCHANGED <<deployment, errors, troubled, answer, kept, objects>>
    BY <1>2 DEF Send, Goto
  <2>4. (call' = NoCall) <=> (stage' = "idle")
    BY <2>1, <2>3
  <2>. QED
    BY <2>2, <2>3, <2>4 DEF Types, Stages
<1>3. CASE Receive
  <2>1. /\ stage' = "idle" /\ call' = NoCall /\ troubled' = FALSE
        /\ answer'.code = 0 /\ kept' = Nothing
        /\ UNCHANGED <<deployment, errors, objects>>
    BY <1>3 DEF Receive, NoAnswer
  <2>2. kept' \in {Nothing, call'.body} /\ answer'.code \in Codes
    BY <2>1 DEF Codes
  <2>. QED
    BY <2>1, <2>2 DEF Types, Stages
<1>4. CASE Enter
  BY <1>4 DEF Types, Enter, Goto, Reply, Stages, Codes
<1>5. CASE Route
  BY <1>5 DEF Types, Route, Goto, Reply, Stages, Codes, ErrorsOfNewValidator
<1>6. CASE Validate
  <2>1. PICK found \in Findings :
          /\ errors' = errors \cup found
          /\ IF Refuses(errors \cup found) THEN Reply(400, "validator") ELSE Goto("match")
          /\ troubled' = (found \ OwnFaults # {})
    BY <1>6 DEF Validate
  <2>2. found \subseteq Faults
    BY <1>6, FindingsAreFaults DEF Validate
  <2>3. stage' \in {"answered", "match"} /\ answer'.code \in Codes
    BY <2>1 DEF Reply, Goto, Types, Codes
  <2>4. stage = "validate" /\ UNCHANGED <<deployment, call, kept, objects>>
    BY <1>6 DEF Validate
  <2>5. errors' \subseteq Faults /\ troubled' \in BOOLEAN
    BY <2>1, <2>2 DEF Types
  <2>. QED
    BY <2>3, <2>4, <2>5 DEF Types, Stages
<1>7. CASE ValidatorThrows
  BY <1>7 DEF Types, ValidatorThrows, Reply, Stages, Codes
<1>8. CASE Match
  BY <1>8 DEF Types, Match, Goto, Reply, Stages, Codes
<1>9. CASE AskOpa
  BY <1>9 DEF Types, AskOpa, Goto, Reply, Stages, Codes
<1>10. CASE OpaFails
  BY <1>10 DEF Types, OpaFails, Reply, Stages, Codes
<1>11. CASE Handler
  <2>1. Handled
    BY <1>11, HandlersHandle
  <2>2. call.target \in ObjectIds
    BY <2>1, CallFacts DEF Handled, Call
  <2>. QED
    BY <2>1, <2>2 DEF Handled, Types, Stages
<1>12. CASE StoreFails
  BY <1>12 DEF Types, StoreFails, Reply, Stages, Codes
<1>13. ASSUME NEW o \in ObjectIds, Elsewhere(o) PROVE Types'
  BY <1>13 DEF Types, Elsewhere
<1>14. CASE TimeOut
  BY <1>14 DEF Types, TimeOut, Reply, Stages, Codes, Faults
<1>. QED
  BY <1>1, <1>2, <1>3, <1>4, <1>5, <1>6, <1>7, <1>8, <1>9, <1>10, <1>11, <1>12, <1>13, <1>14
     DEF Next, Handler, HandlerOfObjects, HandlerOfRules, HandlerOfBundles

-----------------------------------------------------------------------------
(* The stages.                                                             *)

LEMMA InitStaged == Init => Staged
BY DEF Init, Staged

LEMMA NextStaged ==
    ASSUME Types, Staged, [Next]_vars
    PROVE  Staged'
<1>1. CASE UNCHANGED vars
  BY <1>1 DEF vars, Staged, Method
<1>2. ASSUME NEW c \in Calls[deployment], Send(c) PROVE Staged'
  BY <1>2 DEF Staged, Send, Goto
<1>3. CASE Receive
  BY <1>3 DEF Staged, Receive
<1>4. CASE Enter
  <2>1. Admitted => Method \in Deployed
    BY DEF Admitted, Enters
  <2>. QED
    BY <1>4, <2>1 DEF Staged, Enter, Goto, Reply, Method
<1>5. CASE Route
  BY <1>5 DEF Staged, Route, Goto, Reply, ErrorsOfNewValidator, Method
<1>6. CASE Validate
  <2>1. stage' \in {"answered", "match"} /\ (stage' = "match" => answer' = answer)
    BY <1>6 DEF Validate, Reply, Goto
  <2>2. stage = "validate" /\ UNCHANGED <<call, kept>>
    BY <1>6 DEF Validate
  <2>. QED
    BY <2>1, <2>2 DEF Staged, Method
<1>7. CASE ValidatorThrows
  BY <1>7 DEF Staged, ValidatorThrows, Reply
<1>8. CASE Match
  BY <1>8 DEF Staged, Match, Goto, Reply, Method
<1>9. CASE AskOpa
  BY <1>9 DEF Staged, AskOpa, Goto, Reply, Method
<1>10. CASE OpaFails
  BY <1>10 DEF Staged, OpaFails, Reply
<1>11. CASE Handler
  BY <1>11, HandlersHandle DEF Handled, Staged
<1>12. CASE StoreFails
  BY <1>12 DEF Staged, StoreFails, Reply
<1>13. ASSUME NEW o \in ObjectIds, Elsewhere(o) PROVE Staged'
  BY <1>13 DEF Staged, Elsewhere
<1>14. CASE TimeOut
  BY <1>14 DEF Staged, TimeOut, Reply
<1>. QED
  BY <1>1, <1>2, <1>3, <1>4, <1>5, <1>6, <1>7, <1>8, <1>9, <1>10, <1>11, <1>12, <1>13, <1>14
     DEF Next, Handler, HandlerOfObjects, HandlerOfRules, HandlerOfBundles

-----------------------------------------------------------------------------
(* What has been checked of a body.                                        *)

\* A validator that finds nothing to refuse has looked at a sound body.
LEMMA NothingFound ==
    ASSUME Types, stage = "validate", errors = {}, {} \in Findings, ~Refuses({})
    PROVE  Sound(call.body)
<1>1. call.body.kind \in {"none", "junk", "rule", "object", "bundle"}
  BY CallFacts DEF Call, FlowRule, FlowObject, FlowRuleBundle, Unread, Refuses
<1>2. CASE call.body.kind \in {"none", "junk"}
  BY <1>2 DEF Sound
<1>3. CASE call.body.kind = "rule"
  <2>1. RuleFaults(call.body, objects, Bundles) = {}
    BY <1>3 DEF Findings
  <2>2. SoundRule(call.body)
    BY <2>1 DEF RuleFaults, SoundRule
  <2>. QED
    BY <1>3, <2>2 DEF Sound
<1>4. CASE call.body.kind = "object"
  <2>1. {} \in ObjectFindings
    BY <1>4 DEF Findings
  <2>2. ObjectFaults(call.body) = {}
    BY <2>1 DEF ObjectFindings
  <2>3. \E r \in Resolutions(call.body) : r \in {"some", "skipped"}
    BY <2>1, <2>2 DEF ObjectFindings
  <2>. QED
    BY <1>4, <2>2, <2>3 DEF Sound, SoundObject
<1>5. CASE call.body.kind = "bundle"
  <2>1. {} \in BundleFindings
    BY <1>5 DEF Findings
  <2>2. PICK groups \in {ApiGroups(deployment), {}} :
          \E aggregators : {} = BundleFaults(BundleOp, call.body, groups, aggregators)
    BY <2>1 DEF BundleFindings
  <2>3. call.body.group \in groups
    BY <2>2 DEF BundleFaults
  <2>4. call.body.group \in ApiGroups(deployment)
    BY <2>3
  <2>. QED
    BY <1>5, <2>4 DEF Sound
<1>. QED
  BY <1>1, <1>2, <1>3, <1>4, <1>5

LEMMA InitChecked == Init => Checked
BY DEF Init, Checked, Validated, Passed

\* A request that is answered, or has not got far, has nothing to show for its body.
LEMMA NothingToCheck ==
    ASSUME stage' \notin {"match", "opa", "store"}, kept' = Nothing
    PROVE  Checked'
BY DEF Checked, Validated, Passed

LEMMA SameBody ==
    ASSUME UNCHANGED <<deployment, call>>
    PROVE  /\ Writes' = Writes /\ Sound(call.body)' = Sound(call.body)
           /\ ChangeType' = ChangeType /\ Role' = Role
           /\ Decision(deployment.policies, ChangeType, Role, call.body)'
                 = Decision(deployment.policies, ChangeType, Role, call.body)
BY DEF Writes, Sound, ChangeType, Role

LEMMA NextChecked ==
    ASSUME Types, Staged, Checked, [Next]_vars
    PROVE  Checked'
<1>1. CASE UNCHANGED vars
  BY <1>1, SameBody DEF vars, Checked, Validated, Passed
<1>2. ASSUME NEW c \in Calls[deployment], Send(c) PROVE Checked'
  BY <1>2, NothingToCheck DEF Staged, Send, Goto
<1>3. CASE Receive
  BY <1>3, NothingToCheck DEF Receive
<1>4. CASE Enter
  BY <1>4, NothingToCheck DEF Staged, Enter, Goto, Reply
<1>5. CASE Route
  <2>1. stage' \in {"opa", "store"} => ~Writes
    BY <1>5 DEF Route, Goto, Reply, Writes, Method
  <2>2. stage' # "match" /\ kept' = Nothing /\ UNCHANGED <<deployment, call>>
    BY <1>5 DEF Staged, Route, Goto, Reply
  <2>. QED
    BY <2>1, <2>2, SameBody DEF Checked, Validated, Passed
<1>6. CASE Validate
  <2>1. PICK found \in Findings :
          /\ errors' = errors \cup found
          /\ IF Refuses(errors \cup found) THEN Reply(400, "validator") ELSE Goto("match")
    BY <1>6 DEF Validate
  <2>2. stage = "validate" /\ errors = {} /\ kept' = Nothing /\ UNCHANGED <<deployment, call>>
    BY <1>6 DEF Validate, Staged
  <2>3. CASE Refuses(found)
    BY <2>1, <2>2, <2>3, NothingToCheck DEF Reply
  <2>4. CASE ~Refuses(found)
    <3>1. found = {}
      BY <2>4 DEF Refuses
    <3>2. Sound(call.body)
      BY <3>1, <2>1, <2>2, <2>4, NothingFound
    <3>3. stage' = "match" /\ errors' = {}
      BY <2>1, <2>2, <2>4, <3>1 DEF Goto
    <3>. QED
      BY <3>2, <3>3, <2>2, SameBody DEF Checked, Validated, Passed
  <2>. QED
    BY <2>3, <2>4
<1>7. CASE ValidatorThrows
  BY <1>7, NothingToCheck DEF Staged, ValidatorThrows, Reply
<1>8. CASE Match
  <2>1. UNCHANGED <<deployment, call, errors, kept>> /\ stage = "match" /\ kept = Nothing
    BY <1>8 DEF Match, Staged
  <2>2. \/ stage' = "answered" \/ stage' = "opa"
        \/ stage' = "store" /\ call.body.kind = "bundle"
    BY <1>8 DEF Match, Goto, Reply
  <2>. QED
    BY <2>1, <2>2, SameBody DEF Checked, Validated, Passed
<1>9. CASE AskOpa
  <2>1. UNCHANGED <<deployment, call, errors, kept>> /\ stage = "opa" /\ kept = Nothing
    BY <1>9 DEF AskOpa, Staged
  <2>2. \/ stage' = "answered"
        \/ /\ stage' = "store"
           /\ deployment.opa => Decision(deployment.policies, ChangeType, Role, call.body)
    BY <1>9 DEF AskOpa, Goto, Reply
  <2>. QED
    BY <2>1, <2>2, SameBody DEF Checked, Validated, Passed
<1>10. CASE OpaFails
  BY <1>10, NothingToCheck DEF Staged, OpaFails, Reply
<1>11. CASE Handler
  <2>1. Handled
    BY <1>11, HandlersHandle
  <2>. QED
    BY <2>1, SameBody DEF Handled, Staged, Checked, Validated, Passed
<1>12. CASE StoreFails
  BY <1>12, NothingToCheck DEF Staged, StoreFails, Reply
<1>13. ASSUME NEW o \in ObjectIds, Elsewhere(o) PROVE Checked'
  BY <1>13, NothingToCheck DEF Staged, Elsewhere
<1>14. CASE TimeOut
  BY <1>14, NothingToCheck DEF Staged, TimeOut, Reply
<1>. QED
  BY <1>1, <1>2, <1>3, <1>4, <1>5, <1>6, <1>7, <1>8, <1>9, <1>10, <1>11, <1>12, <1>13, <1>14
     DEF Next, Handler, HandlerOfObjects, HandlerOfRules, HandlerOfBundles

-----------------------------------------------------------------------------
(* The answers.                                                            *)

\* The methods of the gateway are routed, and their handlers reach their tables.
LEMMA DeployedMethods ==
    ASSUME Method \in Deployed
    PROVE  Method \in Routes /\ Available
<1>1. Method \in Routes
  BY DEF Deployed, Routes
<1>2. call.resource \in {"rulebundles", "rulebundles/id", "rules", "rules/id", "objects",
                         "objects/id", "audits"}
  BY DEF Deployed, Over, Method
<1>3. TableOf(call.resource) \in Tables
  BY <1>2 DEF TableOf, Tables
<1>4. TablesUsed \subseteq Tables
  BY <1>3 DEF TablesUsed, Tables
<1>5. \A t \in Tables : t \in Configured("api") /\ Reaches(deployment, "api", t)
  BY DEF Configured, Reaches, Granted, ApiGrants, Tables, EndpointOpens, Functions
<1>. QED
  BY <1>1, <1>4, <1>5 DEF Available

LEMMA InitAnswered == Init => Answered
BY DEF Init, Answered, NoAnswer

LEMMA NotAnswered ==
    ASSUME Staged', stage' # "answered"
    PROVE  Answered'
BY DEF Staged, Answered, NoAnswer

LEMMA NextAnswered ==
    ASSUME Types, Staged, Staged', Answered, [Next]_vars
    PROVE  Answered'
<1>. USE DEF Reply
<1>1. CASE UNCHANGED vars
  BY <1>1 DEF vars, Answered, Admitted, Method
<1>2. CASE stage' # "answered"
  BY <1>2, NotAnswered
<1>3. CASE Enter /\ stage' = "answered"
  <2>1. ~Admitted /\ answer' = [code |-> 403, by |-> "gateway"]
    BY <1>3 DEF Enter, Goto
  <2>2. ~Admitted'
    BY <2>1, <1>3 DEF Enter, Admitted, Method
  <2>. QED
    BY <2>1, <2>2 DEF Answered
<1>4. CASE Route /\ stage' = "answered"
  <2>1. Method \in Routes
    BY <1>4, DeployedMethods DEF Staged, Route
  <2>. QED
    BY <1>4, <2>1 DEF Route, Goto
<1>5. CASE Validate /\ stage' = "answered"
  <2>1. answer' = [code |-> 400, by |-> "validator"]
    BY <1>5 DEF Validate, Goto
  <2>. QED
    BY <2>1 DEF Answered
<1>6. CASE ValidatorThrows \/ TimeOut
  BY <1>6 DEF ValidatorThrows, TimeOut, Answered
<1>7. CASE (Match \/ AskOpa) /\ stage' = "answered"
  <2>1. \E code \in {400, 404} : answer' = [code |-> code, by |-> "handler"]
           \/ answer' = [code |-> code, by |-> "opa"]
    BY <1>7 DEF Match, AskOpa, Goto
  <2>. QED
    BY <2>1 DEF Answered
<1>8. CASE OpaFails
  BY <1>8 DEF OpaFails, Answered
<1>9. CASE Handler
  <2>1. PICK code \in Codes \ {500} : answer' = [code |-> code, by |-> "handler"]
    BY <1>9, HandlersHandle DEF Handled
  <2>. QED
    BY <2>1 DEF Answered
<1>10. CASE StoreFails
  <2>1. Available
    BY <1>10, DeployedMethods DEF Staged, StoreFails
  <2>2. ~troubled' => call.body.kind = "object" /\ call.body.id = "missing"
    BY <1>10, <2>1 DEF StoreFails
  <2>3. \E code \in {500, 503} : answer' = [code |-> code, by |-> "handler"]
    BY <1>10 DEF StoreFails
  <2>4. call' = call
    BY <1>10 DEF StoreFails
  <2>. QED
    BY <2>2, <2>3, <2>4 DEF Answered
<1>11. CASE Receive
  BY <1>11, NotAnswered DEF Receive
<1>12. ASSUME NEW c \in Calls[deployment], Send(c) PROVE Answered'
  BY <1>12, NotAnswered DEF Send, Goto
<1>13. ASSUME NEW o \in ObjectIds, Elsewhere(o) PROVE Answered'
  BY <1>13, NotAnswered DEF Elsewhere
<1>. QED
  BY <1>1, <1>2, <1>3, <1>4, <1>5, <1>6, <1>7, <1>8, <1>9, <1>10, <1>11, <1>12, <1>13
     DEF Next, Handler, HandlerOfObjects, HandlerOfRules, HandlerOfBundles

-----------------------------------------------------------------------------
(* Pages.                                                                  *)

\* Among finite sets there is one that contains no other.
LEMMA SmallestSet ==
    ASSUME NEW F, F # {}, \A X \in F : IsFiniteSet(X)
    PROVE  \E X \in F : \A Y \in F : Y \subseteq X => Y = X
<1>. DEFINE S == UNION F
            R == StrictSubsetOrdering(S)
            B == FiniteSubsetsOf(S)
<1>1. IsWellFoundedOn(R, B)
  BY FS_StrictSubsetOrderingWellFounded
<1>2. F \subseteq B
  BY DEF FiniteSubsetsOf
<1>3. \A X, Y \in F : Y \subseteq X /\ Y # X => <<Y, X>> \in R
  BY DEF StrictSubsetOrdering
<1>. HIDE DEF R, B
<1>4. \E X \in F : \A Y \in F : ~(<<Y, X>> \in R)
  BY <1>1, <1>2, WFMin
<1>. QED
  BY <1>3, <1>4

LEMMA LeastOfNaturals ==
    ASSUME NEW T \in SUBSET Nat, T # {}
    PROVE  \E m \in T : \A k \in T : m <= k
<1>. DEFINE F == {0 .. k : k \in T}
<1>1. \A k \in Nat : IsFiniteSet(0 .. k)
  BY FS_Interval
<1>2. \A X \in F : IsFiniteSet(X)
  BY <1>1
<1>3. F # {}
  OBVIOUS
<1>4. \E X \in F : \A Y \in F : Y \subseteq X => Y = X
  <2>. HIDE DEF F
  <2>. QED
    BY <1>2, <1>3, SmallestSet
<1>5. PICK m \in T : \A Y \in F : Y \subseteq 0 .. m => Y = 0 .. m
  BY <1>4
<1>6. ASSUME NEW k \in T PROVE m <= k
  <2>1. m \in Nat /\ k \in Nat
    OBVIOUS
  <2>2. k < m => 0 .. k \subseteq 0 .. m /\ m \in 0 .. m /\ m \notin 0 .. k
    BY <2>1
  <2>3. 0 .. k \subseteq 0 .. m => 0 .. k = 0 .. m
    BY <1>5
  <2>4. ~(k < m)
    BY <2>2, <2>3
  <2>. QED
    BY <2>1, <2>4
<1>. QED
  BY <1>6, Zenon

LEMMA GreatestOfNaturals ==
    ASSUME NEW T \in SUBSET Nat, IsFiniteSet(T), T # {}
    PROVE  \E m \in T : \A k \in T : k <= m
<1>. DEFINE Above(k) == {j \in T : j > k}
            F == {Above(k) : k \in T}
<1>1. \A k : Above(k) \in SUBSET T
  OBVIOUS
<1>2. \A X \in F : IsFiniteSet(X)
  BY <1>1, FS_Subset
<1>3. F # {}
  OBVIOUS
<1>4. \E X \in F : \A Y \in F : Y \subseteq X => Y = X
  <2>. HIDE DEF F
  <2>. QED
    BY <1>2, <1>3, SmallestSet
<1>5. PICK m \in T : \A Y \in F : Y \subseteq Above(m) => Y = Above(m)
  BY <1>4
<1>6. ASSUME NEW k \in T PROVE k <= m
  <2>1. m \in Nat /\ k \in Nat /\ \A j \in T : j \in Nat
    OBVIOUS
  <2>2. k > m => k \in Above(m)
    OBVIOUS
  <2>3. k > m => \A j \in T : j > k => j > m
    BY <2>1
  <2>4. k > m => Above(k) \subseteq Above(m)
    BY <2>3, Zenon
  <2>5. ~(k > k)
    BY <2>1
  <2>6. k \notin Above(k)
    BY <2>5, Zenon
  <2>7. Above(k) \subseteq Above(m) => Above(k) = Above(m)
    BY <1>5
  <2>8. ~(k > m)
    BY <2>2, <2>4, <2>6, <2>7, Zenon
  <2>. QED
    BY <2>1, <2>8
<1>. QED
  BY <1>6, Zenon

\* Up to a position: the items of a table a scan from the cursor has to look at.
UpTo(table, cursor, k) == {j \in table : cursor < j /\ j <= k}

LEMMA UpToFacts ==
    ASSUME NEW table \in SUBSET Nat, IsFiniteSet(table), NEW cursor, NEW k
    PROVE  /\ UpTo(table, cursor, k) \in SUBSET table
           /\ IsFiniteSet(UpTo(table, cursor, k))
           /\ Cardinality(UpTo(table, cursor, k)) \in Nat
<1>1. UpTo(table, cursor, k) \in SUBSET table
  BY DEF UpTo
<1>2. IsFiniteSet(UpTo(table, cursor, k))
  BY <1>1, FS_Subset
<1>. QED
  BY <1>1, <1>2, FS_CardinalityType

LEMMA ScannedFacts ==
    ASSUME NEW table \in SUBSET Nat, IsFiniteSet(table), NEW cursor \in Nat, NEW size \in Nat
    PROVE  LET scanned == Scanned(table, cursor, size)
           IN /\ scanned \in SUBSET table /\ IsFiniteSet(scanned) /\ Cardinality(scanned) \in Nat
              /\ \A k \in scanned : k > cursor
              /\ \A k \in table : k > cursor
                    /\ Cardinality(UpTo(table, cursor, k)) <= size => k \in scanned
              /\ \A k \in scanned : Cardinality(UpTo(table, cursor, k)) <= size
<1>1. Scanned(table, cursor, size) \in SUBSET table
  BY DEF Scanned
<1>2. IsFiniteSet(Scanned(table, cursor, size))
  BY <1>1, FS_Subset
<1>3. Cardinality(Scanned(table, cursor, size)) \in Nat
  BY <1>2, FS_CardinalityType
<1>. QED
  BY <1>1, <1>2, <1>3 DEF Scanned, UpTo

\* A scan leaves out no item before one it has looked at.
LEMMA ScannedUpTo ==
    ASSUME NEW table \in SUBSET Nat, IsFiniteSet(table), NEW cursor \in Nat, NEW size \in Nat,
           NEW t \in Scanned(table, cursor, size), NEW k \in table, k > cursor, k <= t
    PROVE  k \in Scanned(table, cursor, size)
<1>1. t \in Nat /\ k \in Nat
  BY DEF Scanned
<1>2. UpTo(table, cursor, k) \in SUBSET UpTo(table, cursor, t)
  <2>1. \A j \in table : j \in Nat
    OBVIOUS
  <2>2. \A j \in table : j <= k => j <= t
    BY <1>1, <2>1
  <2>. QED
    BY <2>2, Zenon DEF UpTo
<1>3. /\ IsFiniteSet(UpTo(table, cursor, t))
      /\ Cardinality(UpTo(table, cursor, t)) \in Nat /\ Cardinality(UpTo(table, cursor, k)) \in Nat
  BY UpToFacts
<1>4. Cardinality(UpTo(table, cursor, k)) <= Cardinality(UpTo(table, cursor, t))
  BY <1>2, <1>3, FS_Subset
<1>5. Cardinality(UpTo(table, cursor, t)) <= size
  BY ScannedFacts
<1>6. Cardinality(UpTo(table, cursor, k)) <= size
  BY <1>3, <1>4, <1>5
<1>. QED
  BY <1>6, ScannedFacts

\* A scan that does not fill its page has looked at everything.
LEMMA ScannedAll ==
    ASSUME NEW table \in SUBSET Nat, IsFiniteSet(table), NEW cursor \in Nat, NEW size \in Nat,
           Cardinality(Scanned(table, cursor, size)) < size
    PROVE  \A k \in table : k > cursor => k \in Scanned(table, cursor, size)
<1>. DEFINE scanned == Scanned(table, cursor, size)
            Left == {k \in table : k > cursor /\ k \notin scanned}
<1>. SUFFICES ASSUME Left # {} PROVE FALSE
  OBVIOUS
<1>1. Left \in SUBSET Nat
  OBVIOUS
<1>2. PICK m \in Left : \A k \in Left : m <= k
  <2>1. Left # {}
    OBVIOUS
  <2>. HIDE DEF Left
  <2>. QED
    BY <1>1, <2>1, LeastOfNaturals
<1>3. m \in table /\ m \in Nat /\ m > cursor /\ m \notin scanned
  BY <1>2
<1>4. UpTo(table, cursor, m) \in SUBSET (scanned \cup {m})
  <2>. SUFFICES ASSUME NEW j \in UpTo(table, cursor, m), j # m, j \notin scanned PROVE FALSE
    OBVIOUS
  <2>1. j \in table /\ j \in Nat /\ j > cursor /\ j <= m
    BY DEF UpTo
  <2>2. j \in Left
    BY <2>1
  <2>. QED
    BY <2>1, <2>2, <1>2, <1>3
<1>5. IsFiniteSet(scanned) /\ Cardinality(scanned) \in Nat
  BY ScannedFacts
<1>. HIDE DEF scanned
<1>6. IsFiniteSet(scanned \cup {m}) /\ Cardinality(scanned \cup {m}) = Cardinality(scanned) + 1
  BY <1>3, <1>5, FS_AddElement
<1>7. Cardinality(UpTo(table, cursor, m)) <= Cardinality(scanned \cup {m})
  BY <1>4, <1>6, FS_Subset
<1>8. Cardinality(UpTo(table, cursor, m)) \in Nat
  BY UpToFacts
<1>9. Cardinality(scanned) < size
  BY DEF scanned
<1>10. Cardinality(UpTo(table, cursor, m)) <= size
  BY <1>5, <1>6, <1>7, <1>8, <1>9
<1>11. m \in scanned
  BY <1>3, <1>10, ScannedFacts DEF scanned
<1>. QED
  BY <1>3, <1>11

\* The position to go on from, for a scan that has filled its page.
LEMMA TokenFacts ==
    ASSUME NEW table \in SUBSET Nat, IsFiniteSet(table), NEW cursor \in Nat,
           NEW size \in Nat \ {0}, NEW page,
           ~(Cardinality(Scanned(table, cursor, size)) < size)
    PROVE  LET scanned == Scanned(table, cursor, size)
               token == NextToken(scanned, page, size)
           IN token \in scanned /\ \A j \in scanned : j <= token
<1>. DEFINE scanned == Scanned(table, cursor, size)
            token == NextToken(scanned, page, size)
<1>1. scanned \in SUBSET Nat /\ IsFiniteSet(scanned) /\ Cardinality(scanned) \in Nat
  BY ScannedFacts
<1>2. token = CHOOSE k \in scanned : \A j \in scanned : j <= k
  BY DEF NextToken
<1>3. scanned # {}
  <2>1. size > 0
    OBVIOUS
  <2>2. Cardinality(scanned) # 0
    <3>. HIDE DEF scanned
    <3>1. ~(Cardinality(scanned) < size)
      BY DEF scanned
    <3>. QED
      BY <2>1, <3>1
  <2>. HIDE DEF scanned
  <2>. QED
    BY <2>2, FS_EmptySet
<1>. HIDE DEF scanned, token
<1>4. \E k \in scanned : \A j \in scanned : j <= k
  BY <1>1, <1>3, GreatestOfNaturals
<1>5. token \in scanned /\ \A j \in scanned : j <= token
  BY <1>2, <1>4, Zenon
<1>. QED
  BY <1>5 DEF scanned, token

\* A page that is added to a list that goes on.
LEMMA NewPage ==
    ASSUME NEW l \in Listings, InOrder(l), ~l.over,
           l.of = call.resource, l.who = call.who,
           call.resource \in {"objects", "rulebundles"},
           objects \subseteq ObjectIds, NEW size \in Nat \ {0}
    PROVE  LET scanned == Scanned(Listed, l.cursor, size)
               page == Shown(scanned)
               token == NextToken(scanned, page, size)
           IN InOrder([l EXCEPT !.cursor = token, !.seen = @ \cup page,
                                !.twice = @ \/ (page \cap l.seen # {}), !.over = (token = 0)])
<1>. DEFINE scanned == Scanned(Listed, l.cursor, size)
            page == Shown(scanned)
            token == NextToken(scanned, page, size)
            m == [l EXCEPT !.cursor = token, !.seen = @ \cup page,
                           !.twice = @ \/ (page \cap l.seen # {}), !.over = (token = 0)]
<1>1. /\ Listed \in SUBSET Nat /\ IsFiniteSet(Listed) /\ 0 \notin Listed
      /\ Listed \subseteq ObjectIds \cup Bundles
  <2>1. objects \in SUBSET ObjectIds /\ IsFiniteSet(ObjectIds)
    BY IdsAssumption
  <2>2. IsFiniteSet(objects)
    BY <2>1, FS_Subset
  <2>. QED
    BY <2>1, <2>2, IdsAssumption, BundlesAssumption DEF Listed, Bundles
<1>2. l.cursor \in Nat /\ l.twice = FALSE /\ Pending(l)
  BY DEF Listings, InOrder
<1>3. /\ scanned \in SUBSET Listed /\ Cardinality(scanned) \in Nat
      /\ \A k \in scanned : k > l.cursor
  BY <1>1, <1>2, ScannedFacts
<1>4. page \subseteq scanned
  BY DEF Shown
<1>5. \A k \in Visible(l) : k \in Listed /\ (k \in scanned => k \in page)
  BY DEF Visible, Shown, Listed
<1>6. call.resource = "rulebundles" => \A b \in page : call.who \in BundleOwners[b]
  BY DEF Shown
<1>7. \A k \in Listed : k \in Nat
  BY <1>1
<1>8. \A k \in l.seen : k \in Nat
  BY IdsAssumption, BundlesAssumption DEF Listings, Bundles
<1>9. page \cap l.seen = {}
  <2>. SUFFICES ASSUME NEW k \in page, k \in l.seen PROVE FALSE
    OBVIOUS
  <2>1. k > l.cursor
    BY <1>3, <1>4
  <2>2. k <= l.cursor
    BY <1>2 DEF Pending
  <2>. QED
    BY <2>1, <2>2, <1>2, <1>8
<1>10. \A k \in l.due \ l.seen : k \in Listed /\ k > l.cursor /\ (k \in scanned => k \in page)
  BY <1>2, <1>5 DEF Pending
<1>. HIDE DEF scanned, page
<1>11. token \in Nat
  <2>1. CASE Cardinality(scanned) < size
    BY <2>1 DEF NextToken
  <2>2. CASE ~(Cardinality(scanned) < size)
    <3>1. token \in scanned
      BY <2>2, <1>1, <1>2, TokenFacts DEF scanned
    <3>. QED
      BY <3>1, <1>3, <1>7
  <2>. QED
    BY <2>1, <2>2
<1>12. /\ m \in Listings /\ m.of = l.of /\ m.who = l.who /\ m.due = l.due
       /\ m.cursor = token /\ m.seen = l.seen \cup page /\ m.over = (token = 0)
  <2>1. page \subseteq ObjectIds \cup Bundles
    BY <1>1, <1>3, <1>4
  <2>2. l.twice \/ (page \cap l.seen # {}) = FALSE
    BY <1>2, <1>9
  <2>. HIDE DEF token
  <2>. QED
    BY <1>2, <1>9, <1>11, <2>1 DEF Listings
<1>13. m.of = "rulebundles" => \A b \in m.seen : m.who \in BundleOwners[b]
  <2>1. l.of = "rulebundles" => \A b \in l.seen \cup page : l.who \in BundleOwners[b]
    BY <1>6 DEF InOrder
  <2>. HIDE DEF m
  <2>. QED
    BY <1>12, <2>1
<1>14. CASE Cardinality(scanned) < size
  <2>1. token = 0
    BY <1>14 DEF NextToken
  <2>2. \A k \in Listed : k > l.cursor => k \in scanned
    BY <1>1, <1>2, <1>14, ScannedAll DEF scanned
  <2>3. l.due \subseteq l.seen \cup page
    BY <1>10, <2>2
  <2>. HIDE DEF m, token
  <2>4. m.over /\ m.due \subseteq m.seen
    BY <1>12, <2>1, <2>3
  <2>. QED
    BY <1>12, <1>13, <2>4 DEF InOrder, m, token, page, scanned
<1>15. CASE ~(Cardinality(scanned) < size)
  <2>1. token \in scanned /\ \A j \in scanned : j <= token
    BY <1>15, <1>1, <1>2, TokenFacts DEF scanned
  <2>2. token \in Nat /\ token > l.cursor /\ token # 0
    BY <2>1, <1>3, <1>1, <1>7
  <2>3. \A k \in l.seen \cup page : k <= token
    <3>1. ASSUME NEW k \in l.seen PROVE k <= token
      <4>1. k <= l.cursor /\ k \in Nat
        BY <1>2, <1>8 DEF Pending
      <4>. HIDE DEF token
      <4>. QED
        BY <4>1, <2>2, <1>2
    <3>2. ASSUME NEW k \in page PROVE k <= token
      BY <2>1, <1>4
    <3>. QED
      BY <3>1, <3>2
  <2>4. \A k \in l.due \ (l.seen \cup page) : k > token
    <3>. SUFFICES ASSUME NEW k \in l.due \ l.seen, k \notin page PROVE k > token
      OBVIOUS
    <3>1. k \in Listed /\ k > l.cursor /\ k \notin scanned /\ k \in Nat
      BY <1>10, <1>7
    <3>2. ~(k <= token)
      BY <3>1, <2>1, <1>1, <1>2, ScannedUpTo DEF scanned
    <3>. HIDE DEF token
    <3>. QED
      BY <3>1, <3>2, <2>2
  <2>5. Visible(m) = Visible(l)
    <3>. HIDE DEF m
    <3>. QED
      BY <1>12 DEF Visible
  <2>6. l.due \subseteq Visible(l)
    BY <1>2 DEF Pending
  <2>. HIDE DEF m, token
  <2>7. Pending(m) /\ ~m.over
    BY <1>12, <2>2, <2>3, <2>4, <2>5, <2>6 DEF Pending
  <2>. QED
    BY <1>12, <1>13, <2>7 DEF InOrder, m, token, page, scanned
<1>. QED
  BY <1>14, <1>15 DEF scanned, page

\* The list a page is added to.
LEMMA ContinuedFacts ==
    ASSUME Types, InListing, stage = "store", call.resource \in {"objects", "rulebundles"}
    PROVE  /\ Continued \in Listings /\ InOrder(Continued) /\ ~Continued.over
           /\ Continued.of = call.resource /\ Continued.who = call.who
<1>1. call.who \in STRING
  BY CallFacts DEF Call
<1>2. CASE listing.of = call.resource /\ listing.who = call.who /\ ~listing.over
  BY <1>2 DEF Continued, InListing, InOrder
<1>3. CASE ~(listing.of = call.resource /\ listing.who = call.who /\ ~listing.over)
  <2>. DEFINE l == [of |-> call.resource, who |-> call.who, cursor |-> 0, seen |-> {},
                    twice |-> FALSE, due |-> Shown(Listed), over |-> FALSE]
  <2>1. Continued = l
    BY <1>3 DEF Continued, NoListing
  <2>2. Shown(Listed) = Visible(l)
    BY DEF Shown, Listed, Visible
  <2>3. Listed \subseteq ObjectIds \cup Bundles
    BY DEF Types, Listed
  <2>4. Shown(Listed) \subseteq Listed
    BY DEF Shown
  <2>5. \A k \in Listed : k \in Nat /\ k > 0
    BY <2>3, IdsAssumption, BundlesAssumption DEF Bundles
  <2>6. l \in Listings
    <3>. DEFINE due == Shown(Listed)
    <3>1. due \subseteq ObjectIds \cup Bundles
      BY <2>3, <2>4
    <3>. HIDE DEF due
    <3>2. [of |-> call.resource, who |-> call.who, cursor |-> 0, seen |-> {},
           twice |-> FALSE, due |-> due, over |-> FALSE] \in Listings
      BY <3>1, <1>1 DEF Listings
    <3>. QED
      BY <3>2 DEF due
  <2>7. Pending(l)
    <3>1. l.seen = {} /\ l.cursor = 0 /\ l.due = Shown(Listed)
      OBVIOUS
    <3>2. \A k \in Shown(Listed) : k > 0
      BY <2>4, <2>5
    <3>. HIDE DEF l
    <3>. QED
      BY <3>1, <3>2, <2>2 DEF Pending
  <2>8. InOrder(l)
    BY <2>6, <2>7 DEF InOrder
  <2>. QED
    BY <2>1, <2>6, <2>8
<1>. QED
  BY <1>2, <1>3

LEMMA PageListing ==
    ASSUME Types, InListing, Page, stage = "store", UNCHANGED <<objects, call>>,
           call.resource \in {"objects", "rulebundles"}
    PROVE  InListing'
<1>1. PICK size \in 1 .. PageSize(call.limit) :
        LET l == Continued
            scanned == Scanned(Listed, l.cursor, size)
            page == Shown(scanned)
            token == NextToken(scanned, page, size)
        IN listing' = [l EXCEPT !.cursor = token, !.seen = @ \cup page,
                                !.twice = @ \/ (page \cap l.seen # {}), !.over = (token = 0)]
  BY DEF Page
<1>2. size \in Nat \ {0}
  BY MaxAssumption DEF PageSize
<1>3. /\ Continued \in Listings /\ InOrder(Continued) /\ ~Continued.over
      /\ Continued.of = call.resource /\ Continued.who = call.who
  BY ContinuedFacts
<1>4. objects \subseteq ObjectIds
  BY DEF Types
<1>. DEFINE l == Continued
            scanned == Scanned(Listed, l.cursor, size)
            page == Shown(scanned)
            token == NextToken(scanned, page, size)
            m == [l EXCEPT !.cursor = token, !.seen = @ \cup page,
                           !.twice = @ \/ (page \cap l.seen # {}), !.over = (token = 0)]
<1>5. InOrder(m)
  BY <1>2, <1>3, <1>4, NewPage
<1>6. listing' = m
  BY <1>1
<1>. HIDE DEF m
<1>. QED
  BY <1>5, <1>6 DEF InListing, InOrder, Pending, Visible

LEMMA InitListing == Init => InListing
<1>. SUFFICES ASSUME Init PROVE InListing
  OBVIOUS
<1>1. listing = NoListing
  BY DEF Init
<1>2. NoListing \in Listings
  <2>1. ASSUME NEW of \in {"nothing"}, NEW who \in {"nobody"}
        PROVE  [of |-> of, who |-> who, cursor |-> 0, seen |-> {},
                twice |-> FALSE, due |-> {}, over |-> FALSE] \in Listings
    BY DEF Listings
  <2>. QED
    BY <2>1 DEF NoListing
<1>3. Pending(NoListing)
  BY DEF Pending, NoListing
<1>. QED
  BY <1>1, <1>2, <1>3 DEF InListing, InOrder, NoListing

\* Items that are created change nothing about a list.
LEMMA GrownListing ==
    ASSUME InListing, listing' = listing, objects \subseteq objects'
    PROVE  InListing'
<1>1. Visible(listing) \subseteq Visible(listing)'
  <2>1. listing.of \in {"nothing", "objects", "rulebundles"}
    BY DEF InListing, InOrder, Listings
  <2>. QED
    BY <2>1 DEF Visible
<1>2. Pending(listing) => Pending(listing)'
  BY <1>1 DEF Pending
<1>. QED
  BY <1>2 DEF InListing, InOrder

\* An object that is deleted is not due any more.
LEMMA ShrunkListing ==
    ASSUME InListing, NEW o, NotDue(o), objects \ {o} \subseteq objects'
    PROVE  InListing'
<1>1. listing \in Listings /\ listing.of \in {"nothing", "objects", "rulebundles"}
  BY DEF InListing, InOrder, Listings
<1>2. CASE listing.of = "objects"
  <2>1. listing' = [listing EXCEPT !.due = @ \ {o}]
    BY <1>2 DEF NotDue
  <2>2. /\ listing' \in Listings
        /\ listing'.of = "objects" /\ listing'.due = listing.due \ {o} /\ listing'.over = listing.over
        /\ listing'.seen = listing.seen /\ listing'.cursor = listing.cursor
    BY <1>1, <1>2, <2>1 DEF Listings
  <2>3. Pending(listing) => Pending(listing)'
    BY <1>2, <2>2 DEF Pending, Visible
  <2>. QED
    BY <2>2, <2>3 DEF InListing, InOrder
<1>3. CASE listing.of # "objects"
  <2>1. listing' = listing
    BY <1>3 DEF NotDue
  <2>2. Pending(listing) => Pending(listing)'
    BY <1>1, <1>3, <2>1 DEF Pending, Visible
  <2>. QED
    BY <2>1, <2>2 DEF InListing, InOrder
<1>. QED
  BY <1>2, <1>3

LEMMA NextListing ==
    ASSUME Types, InListing, [Next]_vars
    PROVE  InListing'
<1>1. CASE UNCHANGED <<objects, listing>>
  BY <1>1, GrownListing
<1>2. CASE CreateObject
  BY <1>2, GrownListing DEF CreateObject, Store
<1>3. CASE DeleteObject
  <2>1. \/ UNCHANGED <<objects, listing>>
        \/ NotDue(call.target) /\ objects' = objects \ {call.target}
    BY <1>3 DEF DeleteObject
  <2>. QED
    BY <2>1, <1>1, ShrunkListing
<1>4. ASSUME NEW o \in ObjectIds, Elsewhere(o) PROVE InListing'
  BY <1>4, ShrunkListing DEF Elsewhere
<1>5. CASE ListObjects \/ ListRuleBundles
  <2>1. Page /\ stage = "store" /\ UNCHANGED <<objects, call>>
    BY <1>5 DEF ListObjects, ListRuleBundles, Handles
  <2>2. call.resource \in {"objects", "rulebundles"}
    BY <1>5 DEF ListObjects, ListRuleBundles, Handles, Method
  <2>. QED
    BY <2>1, <2>2, PageListing
<1>6. \/ UNCHANGED <<objects, listing>>
      \/ CreateObject \/ DeleteObject \/ ListObjects \/ ListRuleBundles
      \/ \E o \in ObjectIds : Elsewhere(o)
  <2>1. CASE UNCHANGED vars
    BY <2>1 DEF vars
  <2>2. CASE UpdateObject \/ GetObject \/ HandlerOfRules \/ ListAudits
             \/ CreateRuleBundle \/ UpdateRuleBundle \/ DeleteRuleBundle \/ GetRuleBundle
    BY <2>2 DEF UpdateObject, Store, GetObject, HandlerOfRules, CreateRule, UpdateRule, DeleteRule,
                GetRule, ListRules, ListAudits, CreateRuleBundle, UpdateRuleBundle,
                DeleteRuleBundle, GetRuleBundle
  <2>3. CASE Receive \/ Enter \/ Route \/ Validate \/ ValidatorThrows \/ Match \/ AskOpa
             \/ OpaFails \/ StoreFails \/ TimeOut \/ \E c \in Calls[deployment] : Send(c)
    BY <2>3 DEF Receive, Enter, Route, Validate, ValidatorThrows, Match, AskOpa, OpaFails,
                StoreFails, TimeOut, Send
  <2>. QED
    BY <2>1, <2>2, <2>3 DEF Next, HandlerOfRules
<1>. QED
  BY <1>1, <1>2, <1>3, <1>4, <1>5, <1>6

-----------------------------------------------------------------------------
(* The invariant and the theorems.                                         *)

LEMMA Induction == Spec => []IInv
<1>1. Init => IInv
  BY InitTypes, InitStaged, InitChecked, InitAnswered, InitListing DEF IInv
<1>2. IInv /\ [Next]_vars => IInv'
  <2>. SUFFICES ASSUME IInv, [Next]_vars PROVE IInv'
    OBVIOUS
  <2>1. Types' /\ Staged'
    BY NextTypes, NextStaged DEF IInv
  <2>2. Checked' /\ Answered' /\ InListing'
    BY <2>1, NextChecked, NextAnswered, NextListing DEF IInv
  <2>. QED
    BY <2>1, <2>2 DEF IInv
<1>. QED
  BY <1>1, <1>2, PTL DEF Spec

\* A body the store keeps is a sound one of its kind, and it is the one of the call.
LEMMA KeptIsSound ==
    ASSUME IInv, kept # Nothing
    PROVE  /\ kept = call.body /\ Sound(kept) /\ Writes
           /\ kept.kind = "rule" => kept \in FlowRule
           /\ kept.kind = "object" => kept \in FlowObject
<1>1. kept = call.body /\ Writes /\ Sound(kept)
  BY DEF IInv, Types, Checked, Validated
<1>2. stage = "answered"
  BY DEF IInv, Staged
<1>3. call.body \in FlowRule \cup FlowObject \cup FlowRuleBundle \cup Unread
  BY <1>2, CallFacts DEF IInv, Call
<1>. QED
  BY <1>1, <1>3 DEF FlowRule, FlowObject, FlowRuleBundle, Unread

\* Types, for every set of calls, deployments, objects and bundles: no handler goes
\* on with what its validator has found.
THEOREM TypeCorrect == Spec => []TypeOK
<1>1. IInv => TypeOK
  <2>. SUFFICES ASSUME IInv PROVE TypeOK
    OBVIOUS
  <2>1. listing.seen \cup listing.due \subseteq ObjectIds \cup Bundles
    BY DEF IInv, InListing, InOrder, Listings
  <2>2. stage \in {"match", "opa", "store"} /\ call.verb \in {"POST", "PUT"} => errors = {}
    BY DEF IInv, Checked, Writes
  <2>3. answer.code \in {0, 200, 201, 400, 403, 404, 409, 500, 503, 504}
    BY DEF IInv, Types, Codes
  <2>. QED
    BY <2>1, <2>2, <2>3 DEF IInv, Types, TypeOK
<1>. QED
  BY <1>1, Induction, PTL

\* A request is refused for what is wrong with its own body or because a service
\* failed, never for what the instance of the validator found in an earlier one.
THEOREM RefusalsAreOwn == Spec => RefusedForOwnFault
<1>1. IInv /\ [Next]_vars =>
        [stage = "validate" /\ stage' = "answered" /\ answer'.by = "validator" =>
            OwnFaults # {} \/ troubled']_vars
  <2>. SUFFICES ASSUME IInv, Next, stage = "validate", stage' = "answered",
                       answer'.by = "validator"
                PROVE  OwnFaults # {} \/ troubled'
    BY DEF vars
  <2>1. Validate
    <3>1. Validate \/ ValidatorThrows \/ TimeOut
      <4>1. ~Handler
        BY HandlersHandle DEF Handled
      <4>. QED
        BY <4>1 DEF Next, Send, Receive, Enter, Route, Match, AskOpa, OpaFails, StoreFails, Elsewhere,
                    Handler, HandlerOfObjects, HandlerOfRules, HandlerOfBundles
    <3>2. ~ValidatorThrows /\ ~TimeOut
      BY DEF ValidatorThrows, TimeOut, Reply
    <3>. QED
      BY <3>1, <3>2
  <2>2. errors = {}
    BY DEF IInv, Staged
  <2>3. PICK found \in Findings :
          /\ IF Refuses(errors \cup found) THEN Reply(400, "validator") ELSE Goto("match")
          /\ troubled' = (found \ OwnFaults # {})
    BY <2>1 DEF Validate
  <2>4. Refuses(found)
    BY <2>2, <2>3 DEF Goto
  <2>5. CASE call.body.kind = "null"
    BY <2>5 DEF OwnFaults
  <2>6. CASE found # {}
    BY <2>3, <2>6
  <2>. QED
    BY <2>4, <2>5, <2>6 DEF Refuses
<1>. QED
  BY <1>1, Induction, PTL DEF Spec, RefusedForOwnFault

\* What the validator checked of a stored rule holds of its text, for rules with any
\* number of options and any ports, as far as the options are read as their keys
\* and the ports are nothing but numbers and ranges.
THEOREM RuleTextsAreChecked == Spec => []RuleTextAsChecked
<1>1. IInv => RuleTextAsChecked
  <2>. SUFFICES ASSUME IInv, kept.kind = "rule" PROVE RuleTextAsChecked
    BY DEF RuleTextAsChecked
  <2>1. kept # Nothing
    BY DEF Nothing
  <2>2. kept \in FlowRule /\ SoundRule(kept)
    BY <2>1, KeptIsSound DEF Sound
  <2>. QED
    BY <2>2, SoundTexts DEF RuleTextAsChecked
<1>. QED
  BY <1>1, Induction, PTL

\* Every object that is stored has a resolver: whatever resource types its ARN names,
\* however many tags it has, and whatever AWS Config answered.
THEOREM StoredObjectsResolve == Spec => []AdmittedObjectsResolve
<1>1. IInv => AdmittedObjectsResolve
  <2>. SUFFICES ASSUME IInv, kept.kind = "object" PROVE AdmittedObjectsResolve
    BY DEF AdmittedObjectsResolve
  <2>1. kept # Nothing
    BY DEF Nothing
  <2>2. kept \in FlowObject /\ SoundObject(kept)
    BY <2>1, KeptIsSound DEF Sound
  <2>. QED
    BY <2>2, SoundObjectsResolve DEF AdmittedObjectsResolve
<1>. QED
  BY <1>1, Induction, PTL

\* With OPA and both default policies among those asked for, whatever else is, only
\* the administrator stores rules that drop and objects of other accounts.
THEOREM OwnersAreBound == Spec => []OwnersStayInBounds
<1>1. IInv => OwnersStayInBounds
  <2>. SUFFICES ASSUME IInv, kept # Nothing, call.who # "admin", deployment.opa,
                       {"deny rule", "cross reference"} \subseteq deployment.policies
                PROVE  /\ ~(kept.kind = "rule" /\ kept.action = "drop")
                       /\ ~(kept.kind = "object" /\ kept.type = "Arn" /\ ~kept.own)
    BY DEF OwnersStayInBounds
  <2>1. kept = call.body /\ Writes
    BY KeptIsSound
  <2>2. kept.kind # "bundle" => Decision(deployment.policies, ChangeType, Role, kept)
    BY <2>1 DEF IInv, Checked, Passed
  <2>3. ChangeType \in {"CREATE", "UPDATE"}
    BY <2>1 DEF ChangeType, Writes
  <2>4. Role = "appowner"
    BY DEF Role
  <2>5. kept.kind # "bundle" => DenyRulePolicy(ChangeType, Role, kept)
    BY <2>2 DEF Decision, Passes
  <2>6. kept.kind # "bundle" => CrossReferencePolicy(ChangeType, Role, kept)
    BY <2>2 DEF Decision, Passes
  <2>. QED
    BY <2>3, <2>4, <2>5, <2>6 DEF DenyRulePolicy, CrossReferencePolicy
<1>. QED
  BY <1>1, Induction, PTL

\* The rule group of every bundle that is stored is one the auto-config Lambda may
\* write.
THEOREM StoredGroupsCanBeWritten == Spec => []AcceptedGroupsCanBeWritten
<1>1. IInv => AcceptedGroupsCanBeWritten
  <2>. SUFFICES ASSUME IInv, kept.kind = "bundle" PROVE kept.group \in SyncGroups(deployment)
    BY DEF AcceptedGroupsCanBeWritten
  <2>1. kept # Nothing
    BY DEF Nothing
  <2>2. kept.group \in ApiGroups(deployment)
    BY <2>1, KeptIsSound DEF Sound
  <2>. QED
    BY <2>2 DEF ApiGroups, SyncGroups
<1>. QED
  BY <1>1, Induction, PTL

\* A list that is followed to its end shows, once each, everything the client may
\* see that was there all the time, for any number of items and any page length.
THEOREM ListsAreComplete == Spec => []ListingComplete
<1>1. IInv => ListingComplete
  BY DEF IInv, InListing, InOrder, Listings, ListingComplete
<1>. QED
  BY <1>1, Induction, PTL

\* Whoever calls what, the gateway and the function fit: no method without a route,
\* no canary shut out, no table the function may not reach.
THEOREM ServiceIsPermitted == Spec => []ServedAsPermitted
<1>1. IInv => ServedAsPermitted
  <2>. SUFFICES ASSUME IInv PROVE ServedAsPermitted
    OBVIOUS
  <2>1. ASSUME CanaryCall, deployment.gateway # "unset" PROVE Admitted
    <3>1. call.who = "canary" /\ call.inside = (deployment.gateway = "private")
      BY <2>1 DEF CanaryCall, CanaryInside
    <3>2. Method \in Deployed /\ Method[1] = "GET"
      BY <2>1 DEF CanaryCall, Over, Deployed, Method
    <3>3. deployment.gateway = ApiType(deployment)
      BY <2>1 DEF ApiType
    <3>. QED
      BY <3>1, <3>2, <3>3 DEF Admitted, Enters, Denied, OwnPolicy
  <2>. QED
    BY <2>1 DEF IInv, Answered, ServedAsPermitted
<1>. QED
  BY <1>1, Induction, PTL

=============================================================================
