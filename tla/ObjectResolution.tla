--------------------------- MODULE ObjectResolution ---------------------------
(***************************************************************************)
(* How one warm environment of the auto-config Lambda turns the rules of   *)
(* rule bundles into rules with addresses, over several invocations.       *)
(*                                                                         *)
(* Bundles are gone through one after the other, each in chunks, and the   *)
(* rules of a chunk are resolved concurrently; a rule asks for the         *)
(* addresses of its source, then of its destination.  Most kinds of object *)
(* need one or two queries to AWS Config.  The environment keeps, from one *)
(* invocation to the next, the promises of queries for a minute, the retry *)
(* quota of the Config client and its session in another account, and also *)
(* what a refused invocation left unfinished.  Nothing in it runs between  *)
(* two invocations.                                                        *)
(*                                                                         *)
(* Simplifications.  What is read before and written afterwards is         *)
(* RuleSync.  An environment works for one rule group.  Addresses are      *)
(* "some" or "none", and stay so.  Time is left out: the timer that drops  *)
(* a promise after a minute, which stands still with the environment,      *)
(* comes at any moment, also after the promise was used again or never.  A *)
(* query whose session in the other account cannot be had, or is over,     *)
(* fails for good.  The text of a second query does not depend on what the *)
(* first one found.  The retry loop of the SDK, p-memoize and Lambda       *)
(* itself are external and modelled from how the code uses them.           *)
(***************************************************************************)
EXTENDS Integers, Sequences, FiniteSets

CONSTANTS
    KindOf,          \* the kind of every object
    Plans,           \* the groups: sequences of bundles, which are sequences of rules
    ChunkSize,       \* DEFAULT_CHUNK_SIZE
    MaxAttempts,     \* attempts the retry strategy makes
    Capacity,        \* initial retry tokens
    TimeoutCost,     \* tokens a retry after a timeout costs; others cost one
    Empty,           \* the objects for whose query there is no result
    Paged,           \* the objects whose query has more than one page
    MaxInvocations   \* bound: invocations of one environment

Objects == DOMAIN KindOf
Kinds == {"address", "direct", "tagged", "asg", "lambda", "untagged", "unclaimed", "missing"}

ASSUME KindAssumption == \A o \in Objects : KindOf[o] \in Kinds

\* A rule as far as it matters here.  An invocation for no bundle is refused at once.
Rule == [source : Objects, destination : Objects]
ASSUME PlanAssumption == \A group \in Plans : group \in Seq(Seq(Rule)) /\ group # <<>>

ASSUME NumbersAssumption ==
    {ChunkSize, MaxAttempts, Capacity, TimeoutCost, MaxInvocations} \subseteq Nat \ {0}

VARIABLES
    count,      \* invocations of this environment so far
    reply,      \* "none" while the last of them runs, or its status code
    plan,       \* the bundles of the group it works for
    bundle,     \* the one it is at
    chunk,      \* the chunk of it, from 0
    overallIndex, \* how many rules the bundles before it have
    slots,      \* of every invocation: the rules of its chunk, while they are resolved
    done,       \* the resolved rules of the invocation
    promises,   \* queries under way or kept: of a key and an ordinal, so that they differ
    memo,       \* the ordinal of the promise that is kept for a key
    quota,      \* retry tokens left
    stamp,      \* the invocation that saw bundles that had changed
    failures,   \* history: transient failures in this environment
    doomed      \* history: during the invocation a query failed for good

invocation == <<count, plan, bundle, chunk, overallIndex, done>>
history == <<failures, doomed>>
vars == <<count, reply, plan, bundle, chunk, overallIndex, slots, done, promises, memo,
          quota, stamp, failures, doomed>>

Running == count > 0 /\ reply = "none"

NoSlot == [end |-> "none"]
Rows == (1 .. MaxInvocations) \X (1 .. ChunkSize)
Idle == [r \in Rows |-> NoSlot]
Nothing == [k \in {} |-> 0]      \* a function of nothing
Unawaited == <<>>

-----------------------------------------------------------------------------
(* The retry quota of the Config client, which all its queries share.      *)

HasTokens(cost) == cost <= quota

\* A success gives back what the last retry cost, or one; the mutant forgets
\* the limit.
ReleaseUnlimited(paid) == quota + (IF paid = 0 THEN 1 ELSE paid)
Release(paid) ==
    LET more == quota + (IF paid = 0 THEN 1 ELSE paid)
    IN IF more > Capacity THEN Capacity ELSE more

-----------------------------------------------------------------------------
(* Where an invocation is in its rules.                                    *)

RulesOf(b) == plan[b]

\* What the rules of the chunk are numbered from; in the mutant, from where those
\* of the bundle are.
BaseOfBundle == overallIndex
Base == overallIndex + chunk * ChunkSize

ChunkOf(p, b, c) ==
    SubSeq(p[b], c * ChunkSize + 1,
           IF Len(p[b]) < (c + 1) * ChunkSize THEN Len(p[b]) ELSE (c + 1) * ChunkSize)

\* Objects that need no query: addresses, Lambdas without a valid tag, and what no
\* resolver takes, which resolveTarget makes a reason for failure.
Instant(o) == KindOf[o] \in {"address", "untagged", "unclaimed"}
Verdict(o) == IF KindOf[o] = "address" THEN "some" ELSE "error"

\* A rule once its source, or its destination, has addresses or none, or there was
\* an error.  It rejects with an error when both have been asked for.
AtDestination(slot, verdict) ==
    [slot EXCEPT !.waits = Unawaited, !.destination = verdict,
                 !.end = IF "error" \in {slot.source, verdict} THEN "rejected" ELSE "resolved"]
AtSource(slot, verdict) ==
    LET next == [slot EXCEPT !.end = "destination", !.stage = 1, !.waits = Unawaited,
                             !.source = verdict]
    IN IF Instant(next.rule.destination)
       THEN AtDestination(next, Verdict(next.rule.destination))
       ELSE next
Settled(slot, verdict) ==
    IF slot.end = "source" THEN AtSource(slot, verdict) ELSE AtDestination(slot, verdict)

\* A rule whose object is not there is FAILED before anything is resolved.
Dangling(rule) == "missing" \in {KindOf[rule.source], KindOf[rule.destination]}

\* A rule of a bundle with a certain text as far as it comes without a query.
Begun(rule, text) ==
    LET slot == [rule |-> rule, text |-> text, end |-> "source", stage |-> 1,
                 waits |-> Unawaited, source |-> "open", destination |-> "open"]
    IN IF Dangling(rule) THEN [slot EXCEPT !.end = "failed"]
       ELSE IF Instant(rule.source) THEN AtSource(slot, Verdict(rule.source))
       ELSE slot

\* The slots of invocation n with the rules of a chunk in them.
Opened(n, rules, text) ==
    [r \in Rows |-> IF r[1] # n THEN slots[r]
                    ELSE IF r[2] <= Len(rules) THEN Begun(rules[r[2]], text) ELSE NoSlot]

Current == {r \in Rows : r[1] = count /\ slots[r] # NoSlot}

-----------------------------------------------------------------------------
(* Promises.                                                               *)

\* The key of the memo is the text of the bundle, with whatever was written to it,
\* and of the query.  TaggedObjectResolver makes its query twice.  In the mutant
\* the memo goes by the first argument, the bundle, as p-memoize does by itself.
Text(s, b) == <<s, b>>
KeyOfFirst(text, o, stage) == [text |-> text, object |-> "any", stage |-> 1]
Key(text, o, stage) ==
    [text |-> text, object |-> o, stage |-> IF KindOf[o] = "tagged" THEN 1 ELSE stage]

Without(f, keys) == [k \in DOMAIN f \ keys |-> f[k]]
With(f, k, v) == [j \in DOMAIN f \cup {k} |-> IF j = k THEN v ELSE f[j]]

Kept(m, p) == p[1] \in DOMAIN m /\ m[p[1]] = p[2]

\* Settled promises nobody can get at any more are gone.
Swept(ps, m, sl) ==
    Without(ps, {p \in DOMAIN ps :
        ps[p].status # "sent" /\ ~Kept(m, p) /\ \A r \in Rows : sl[r] # NoSlot => sl[r].waits # p})

\* Whether a response comes with a NextToken: the query that is sent next is the
\* same one, so it does so for ever.  In the mutant every response does.
MorePages(o) == TRUE
More(o) == o \in Paged

\* cachePromiseRejection is false; in the mutant it is not.
KeepRejected(k) == memo
ForgetRejected(k) == Without(memo, {k})

-----------------------------------------------------------------------------
TypeOK ==
    /\ count \in 0 .. MaxInvocations /\ stamp \in 0 .. MaxInvocations
    /\ reply \in {"none", "200", "503"}
    /\ plan \in Plans
    /\ bundle \in 1 .. Len(plan) + 1 /\ chunk \in Nat /\ overallIndex \in Nat
    /\ \A r \in Rows : slots[r] # NoSlot =>
          /\ slots[r].end \in {"source", "destination", "failed", "resolved", "rejected"}
          /\ slots[r].waits \in DOMAIN promises \cup {Unawaited}
    /\ \A k \in DOMAIN memo : <<k, memo[k]>> \in DOMAIN promises
    /\ quota \in 0 .. Capacity
    /\ failures \in 0 .. MaxAttempts /\ doomed \in BOOLEAN

Init ==
    /\ count = 0 /\ reply = "none"
    /\ plan \in Plans /\ bundle = 1 /\ chunk = 0 /\ overallIndex = 0
    /\ slots = Idle /\ done = <<>>
    /\ promises = Nothing /\ memo = Nothing
    /\ quota = Capacity /\ stamp = 0
    /\ failures = 0 /\ doomed = FALSE

-----------------------------------------------------------------------------
(* An invocation.                                                          *)

\* The scheduler invokes the Lambda; the bundles may have been written since
\* the last time, which changes the keys of their queries.
Invoke(changed) ==
    /\ ~Running
    /\ count < MaxInvocations
    /\ count' = count + 1 /\ reply' = "none"
    /\ bundle' = 1 /\ chunk' = 0 /\ overallIndex' = 0 /\ done' = <<>>
    /\ stamp' = IF changed THEN count + 1 ELSE stamp
    /\ slots' = Opened(count + 1, ChunkOf(plan, 1, 0), Text(stamp', 1))
    /\ doomed' = FALSE
    /\ UNCHANGED <<plan, promises, memo, quota, failures>>

\* sid is the number of the rule in the group, from 1; of says which rule it is,
\* by its bundle and its place in it.
Outcome(r) ==
    [of |-> <<bundle, chunk * ChunkSize + r[2]>>,
     sid |-> IF slots[r].end = "failed" THEN 0 ELSE Base + r[2],
     failed |-> slots[r].end = "failed" \/ "none" \in {slots[r].source, slots[r].destination}]

\* All rules of the chunk are resolved: the next chunk, or the next bundle.
GoOn ==
    /\ Running
    /\ bundle <= Len(plan)
    /\ \A r \in Current : slots[r].end \in {"failed", "resolved"}
    /\ done' = done \o [i \in 1 .. Len(ChunkOf(plan, bundle, chunk)) |-> Outcome(<<count, i>>)]
    /\ IF (chunk + 1) * ChunkSize < Len(RulesOf(bundle))
       THEN chunk' = chunk + 1 /\ UNCHANGED <<bundle, overallIndex>>
       ELSE /\ chunk' = 0 /\ bundle' = bundle + 1
            /\ overallIndex' = overallIndex + Len(RulesOf(bundle))
    /\ slots' = Opened(count, IF bundle' <= Len(plan) THEN ChunkOf(plan, bundle', chunk') ELSE <<>>,
                       Text(stamp, bundle'))
    /\ UNCHANGED <<count, reply, plan, promises, memo, quota, stamp, history>>

\* The rules go to the rule group.
Answer ==
    /\ Running
    /\ bundle > Len(plan)
    /\ reply' = "200"
    /\ UNCHANGED <<invocation, slots, promises, memo, quota, stamp, history>>

\* Promise.all rejects with the first rule that does, and the group is left as it
\* is; the other rules of the chunk go on when the environment runs again.
Refuse ==
    /\ Running
    /\ \E r \in Current : slots[r].end = "rejected"
    /\ reply' = "503"
    /\ slots' = [r \in Rows |->
                    IF r \in Current /\ slots[r].end \in {"failed", "resolved", "rejected"}
                    THEN NoSlot ELSE slots[r]]
    /\ UNCHANGED <<invocation, promises, memo, quota, stamp, history>>

-----------------------------------------------------------------------------
(* The rules of a chunk.                                                   *)

Target(r) == IF slots[r].end = "source" THEN slots[r].rule.source ELSE slots[r].rule.destination

Unsettled(r) == slots[r] # NoSlot /\ slots[r].end \in {"source", "destination"}

\* Nobody waits for the rules of an earlier invocation.
Put(r, slot) ==
    slots' = [slots EXCEPT ![r] =
                 IF r[1] # count /\ slot.end \in {"failed", "resolved", "rejected"}
                 THEN NoSlot ELSE slot]

\* An ordinal no promise of the key has.
Fresh(k) == CHOOSE n \in 1 .. Cardinality(DOMAIN promises) + 1 : <<k, n>> \notin DOMAIN promises

\* queryAwsConfig: a query for which no promise is kept is sent.
Ask(r) ==
    /\ Running /\ Unsettled(r)
    /\ slots[r].waits = Unawaited
    /\ LET k == Key(slots[r].text, Target(r), slots[r].stage)
           n == IF k \in DOMAIN memo THEN memo[k] ELSE Fresh(k)
       IN /\ slots' = [slots EXCEPT ![r].waits = <<k, n>>]
          /\ IF k \in DOMAIN memo
             THEN UNCHANGED <<promises, memo>>
             ELSE /\ memo' = With(memo, k, n)
                  /\ promises' = With(promises, <<k, n>>,
                        [status |-> "sent", attempts |-> 0, paid |-> 0, asks |-> Target(r)])
    /\ UNCHANGED <<invocation, reply, quota, stamp, history>>

\* A second query follows, for the instances of a group, the network interfaces
\* of a function, or once more for tags.
Second(r, found) ==
    /\ slots[r].stage = 1
    /\ \/ KindOf[Target(r)] \in {"asg", "tagged"}
       \/ KindOf[Target(r)] = "lambda" /\ found

\* The promise a rule waits for is settled, with what its query has found.
Take(r) ==
    /\ Running /\ Unsettled(r)
    /\ slots[r].waits # Unawaited
    /\ LET p == promises[slots[r].waits]
           found == p.asks \notin Empty
       IN /\ p.status \in {"kept", "broken"}
          /\ Put(r, IF p.status = "broken" THEN Settled(slots[r], "error")
                    ELSE IF Second(r, found) THEN [slots[r] EXCEPT !.stage = 2, !.waits = Unawaited]
                    ELSE Settled(slots[r], IF found THEN "some" ELSE "none"))
    /\ promises' = Swept(promises, memo, slots')
    /\ UNCHANGED <<invocation, reply, memo, quota, stamp, history>>

-----------------------------------------------------------------------------
(* Queries.                                                                *)

Sent(p) == Running /\ p \in DOMAIN promises /\ promises[p].status = "sent"

\* AWS Config answers with a page.
Page(p) ==
    /\ Sent(p)
    /\ quota' = Release(promises[p].paid)
    /\ promises' = [promises EXCEPT ![p] =
           IF More(promises[p].asks)
           THEN [promises[p] EXCEPT !.attempts = 0, !.paid = 0]
           ELSE [promises[p] EXCEPT !.status = "kept", !.attempts = 0, !.paid = 0]]
    /\ UNCHANGED <<invocation, reply, slots, memo, stamp, history>>

Broken(p) ==
    /\ memo' = ForgetRejected(p[1])
    /\ promises' = Swept([promises EXCEPT ![p].status = "broken", ![p].attempts = 0, ![p].paid = 0],
                         memo', slots)

\* A failure that may be retried: throttling, or a timeout.
Trouble(p, cost) ==
    /\ Sent(p)
    /\ failures' = IF failures < MaxAttempts THEN failures + 1 ELSE failures
    /\ IF promises[p].attempts + 1 < MaxAttempts /\ HasTokens(cost)
       THEN /\ promises' = [promises EXCEPT ![p].attempts = @ + 1, ![p].paid = cost]
            /\ quota' = quota - cost
            /\ UNCHANGED memo
       ELSE Broken(p) /\ UNCHANGED quota
    /\ UNCHANGED <<invocation, reply, slots, stamp, doomed>>

\* One that may not: the query is refused, or the session is over.
FailForGood(p) ==
    /\ Sent(p)
    /\ Broken(p)
    /\ doomed' = TRUE
    /\ UNCHANGED <<invocation, reply, slots, quota, stamp, failures>>

-----------------------------------------------------------------------------
(* The end of promises and of the environment.                             *)

\* The timer of maxAge drops the promise for a key, also while it is under way.
Expire(k) ==
    /\ Running
    /\ k \in DOMAIN memo
    /\ memo' = Without(memo, {k})
    /\ promises' = Swept(promises, memo', slots)
    /\ UNCHANGED <<invocation, reply, slots, quota, stamp, history>>

\* The environment ends, at the time-out of the Lambda or between invocations.
Recycle ==
    /\ count > 0
    /\ count' = 0 /\ reply' = "none"
    /\ bundle' = 1 /\ chunk' = 0 /\ overallIndex' = 0
    /\ slots' = Idle /\ done' = <<>>
    /\ promises' = Nothing /\ memo' = Nothing
    /\ quota' = Capacity /\ stamp' = 0
    /\ failures' = 0 /\ doomed' = FALSE
    /\ UNCHANGED plan

\* An attempt of a query ends.
Attempt(p) ==
    \/ Page(p)
    \/ \E cost \in {1, TimeoutCost} : Trouble(p, cost)
    \/ FailForGood(p)

Next ==
    \/ \E changed \in BOOLEAN : Invoke(changed)
    \/ GoOn \/ Answer \/ Refuse
    \/ \E r \in Rows : Ask(r) \/ Take(r)
    \/ \E p \in DOMAIN promises : Attempt(p)
    \/ \E k \in DOMAIN memo : Expire(k)
    \/ Recycle

\* While the environment runs, its callbacks are called, and AWS Config or a
\* time-out of the socket ends every attempt somebody waits for.
Fairness ==
    /\ WF_vars(GoOn) /\ WF_vars(Answer) /\ WF_vars(Refuse)
    /\ \A r \in Rows :
          /\ WF_vars(Ask(r) \/ Take(r))
          /\ WF_vars(Unsettled(r) /\ Attempt(slots[r].waits))

Spec == Init /\ [][Next]_vars /\ Fairness

-----------------------------------------------------------------------------
(* Properties.                                                             *)

\* What a group may be refused for.
Unresolvable(rule) == {"untagged", "unclaimed"} \cap {KindOf[rule.source], KindOf[rule.destination]} # {}
Cause ==
    \/ doomed
    \/ \E b \in DOMAIN plan : \E i \in DOMAIN plan[b] : Unresolvable(plan[b][i])
    \/ failures >= MaxAttempts
    \/ failures * TimeoutCost > Capacity

\* A group is refused for an object no resolver takes, for a query that failed for
\* good during this invocation, or when failures that pass were as many as the
\* attempts of a query or as it takes to use up the quota; never for a failure
\* an earlier invocation saw, since rejected promises are not kept
\* (RuleDefinitionResolver, CloudResourceObjectResolver, getDefaultRetryQuota).
RefusedForACause == reply = "503" => Cause

\* A rule comes before another one: its bundle does, or it is the same and the rule does.
Before(p, q) == p[1] < q[1] \/ (p[1] = q[1] /\ p[2] < q[2])

\* What goes to the rule group are all rules of all bundles in their order, and the
\* sid of one is its place, so no two are the same, however the rules fall into
\* bundles and chunks and whichever are resolved first (getAllResolvedRules).
SidsArePlaces ==
    /\ \A i \in DOMAIN done : done[i].sid \in {0, i}
    /\ \A i, j \in DOMAIN done : i < j => Before(done[i].of, done[j].of)
    /\ reply = "200" =>
          \A b \in DOMAIN plan : \A k \in DOMAIN plan[b] :
              \E i \in DOMAIN done : done[i].of = <<b, k>>

\* A rule is FAILED when one of its own objects is gone or has no address.
Fails(rule) ==
    \/ Dangling(rule)
    \/ \E o \in {rule.source, rule.destination} : ~Instant(o) /\ o \in Empty

\* What becomes of a rule is what AWS Config found for its own objects, whichever
\* promise the answer came with: one it shares with a rule resolved at the same
\* time, one kept from an earlier invocation, or one that a rule of a refused
\* invocation asked for meanwhile (CloudResourceObjectResolver, updateRuleStatus).
OwnAddresses ==
    \A i \in DOMAIN done :
        LET rule == plan[done[i].of[1]][done[i].of[2]]
        IN done[i].failed <=> Fails(rule)

\* A query that asks for the first page for ever.
Stuck == \E p \in DOMAIN promises : promises[p].status = "sent" /\ promises[p].asks \in Paged

\* An invocation ends by itself, refused or not, whatever fails and whatever earlier
\* ones left behind, unless it has a query with a second page (rawQueryAwsConfig).
InvocationsEnd == Running ~> (~Running \/ Stuck)
=============================================================================
