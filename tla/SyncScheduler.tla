--------------------------- MODULE SyncScheduler ---------------------------
(***************************************************************************)
(* The scheduler Lambda and the synchronisations it starts.                *)
(*                                                                         *)
(* An EventBridge rule sends an event per interval.  Lambda delivers the   *)
(* event to the scheduler and, when the run fails or times out, delivers   *)
(* it again, twice at most.  A run scans the bundles, groups them by the   *)
(* rule group they target, invokes the auto-config Lambda for every group  *)
(* and waits for all answers.  Then it writes a timestamp to every bundle  *)
(* that was answered 200 and fails if there was another answer.  These     *)
(* writes are not awaited: they happen while later runs are under way.     *)
(* A call of the auto-config Lambda goes on when the run that made it has  *)
(* ended.  Meanwhile the config API creates, retargets and deletes bundles.*)
(*                                                                         *)
(* Simplifications.  The rules of a bundle are a unit, present (filled) or *)
(* not, and a call reads them when it reads the bundles; RuleSync models   *)
(* what happens to single rules inside a call.  The value of the timestamp *)
(* is left out: what matters is which items the write touches.             *)
(***************************************************************************)
EXTENDS Naturals

CONSTANTS
    Bundles,        \* identifiers of bundles; a deleted one may be used again
    Arns,           \* rule groups of ANFW
    Reachable,      \* those whose calls do not fail at the same point for ever
    Events,         \* events of the schedule that are in Lambda's hands
    NoArn,          \* the rule group of an item without ruleGroupArn
    Absent,         \* stands for "no item"
    First,          \* rule group of all bundles when the schedule is enabled, or Absent
    PartialReads,   \* TRUE: a scan or a BatchGetItem may leave items out
    MaxRetries,     \* repeated deliveries of a failed event; Lambda's default is 2
    MaxRequests     \* bound: requests of the config API

ASSUME ArnsAssumption == NoArn \notin Arns /\ Absent \notin Arns /\ NoArn # Absent
ASSUME ReachableAssumption == Reachable \subseteq Arns
ASSUME FirstAssumption == First \in Arns \cup {Absent}
ASSUME PartialAssumption == PartialReads \in BOOLEAN
ASSUME BoundsAssumption == MaxRetries \in Nat /\ MaxRequests \in Nat

Keys == Arns \cup {NoArn}

Call == [phase: {"free", "sent", "ready", "taken", "refused", "done"},
         ids: SUBSET Bundles,       \* the bundles named in the invocation
         target: Keys,              \* the rule group their items name
         texts: SUBSET Bundles,     \* those whose rules were read; once ANFW has
                                    \* decided, those whose rules are to be FAILED
         answer: {"none", "200", "error"}]  \* 400, 404 and 503 are errors

NoCall == [phase |-> "free", ids |-> {}, target |-> NoArn, texts |-> {},
           answer |-> "none"]

\* What becomes of a call: it is sent, has read its rules, has the decision of
\* ANFW, is answered.
Sent(ids) == [NoCall EXCEPT !.phase = "sent", !.ids = ids]
Ready(c, a, texts) == [c EXCEPT !.phase = "ready", !.target = a, !.texts = texts]
Decided(c, verdict, bad) == [c EXCEPT !.phase = verdict, !.target = NoArn, !.texts = bad]
Done(c, code) == [NoCall EXCEPT !.phase = "done", !.ids = c.ids, !.answer = code]

VARIABLES
    bundles,        \* rulebundles table: the rule group of every item
    filled,         \* bundles with rules that are not FAILED
    carried,        \* bundles whose rules every rule group carries
    pc,             \* state of every event
    attempt,        \* failed deliveries of every event
    spare,          \* interval ends a run may still see before its timeout
    calls,          \* calls of the auto-config Lambda per event and group
    stamps,         \* timestamps that runs of an event have still to write
    requests,       \* number of API requests so far
    targeted,       \* history: the rule groups every bundle has targeted
    deleted         \* history: the identifiers that were deleted

apiVars == <<bundles, filled, requests, targeted, deleted>>
roundVars == <<pc, attempt, spare>>
vars == <<bundles, filled, carried, pc, attempt, spare, calls, stamps, requests,
          targeted, deleted>>

\* Bound: an event is delivered, anew or again, only when the calls of its
\* earlier deliveries have ended; calls that overlap belong to two events.
Quiet(e) == \A g \in Keys : calls[e][g] = NoCall
Running(e) == pc[e] \in {"scan", "wait"}

TypeOK ==
    /\ bundles \in [Bundles -> Keys \cup {Absent}]
    /\ filled \subseteq Bundles
    /\ carried \in [Arns -> SUBSET Bundles]
    /\ pc \in [Events -> {"none", "queued", "scan", "wait"}]
    /\ attempt \in [Events -> 0..MaxRetries]
    /\ spare \in [Events -> {0, 1}]
    /\ calls \in [Events -> [Keys -> Call]]
    /\ \A e \in Events : \A g \in Keys : calls[e][g].phase = "done" => pc[e] = "wait"
    /\ stamps \in [Events -> SUBSET Bundles]
    /\ requests \in Nat
    /\ targeted \in [Bundles -> SUBSET Arns]
    /\ deleted \subseteq Bundles

Init ==
    /\ bundles = [b \in Bundles |-> First]
    /\ filled = {}
    /\ carried = [a \in Arns |-> {}]
    /\ pc = [e \in Events |-> "none"]
    /\ attempt = [e \in Events |-> 0]
    /\ spare = [e \in Events |-> 0]
    /\ calls = [e \in Events |-> [g \in Keys |-> NoCall]]
    /\ stamps = [e \in Events |-> {}]
    /\ requests = 0
    /\ targeted = [b \in Bundles |-> {First} \ {Absent}]
    /\ deleted = {}

-----------------------------------------------------------------------------
(* The config API.                                                         *)

Target(b, a) ==
    /\ bundles' = [bundles EXCEPT ![b] = a]
    /\ targeted' = [targeted EXCEPT ![b] = @ \cup {a}]

CreateBundle(b, a) ==
    /\ requests < MaxRequests
    /\ bundles[b] = Absent
    /\ Target(b, a)
    /\ requests' = requests + 1
    /\ UNCHANGED <<filled, deleted, carried, roundVars, calls, stamps>>

\* updateRuleBundle changes the rule group; the item has to exist.
UpdateBundle(b, a) ==
    /\ requests < MaxRequests
    /\ bundles[b] \notin {Absent, a}
    /\ Target(b, a)
    /\ requests' = requests + 1
    /\ UNCHANGED <<filled, deleted, carried, roundVars, calls, stamps>>

\* A bundle without rules, or with FAILED rules only, can be deleted.
DeleteBundle(b) ==
    /\ requests < MaxRequests
    /\ bundles[b] # Absent
    /\ b \notin filled
    /\ bundles' = [bundles EXCEPT ![b] = Absent]
    /\ deleted' = deleted \cup {b}
    /\ requests' = requests + 1
    /\ UNCHANGED <<filled, targeted, carried, roundVars, calls, stamps>>

\* The first rule of a bundle is created, the last one is deleted.  Both
\* requests have seen the bundle earlier; it may be gone by now.
Fill(b) ==
    /\ requests < MaxRequests
    /\ targeted[b] # {}
    /\ b \notin filled
    /\ filled' = filled \cup {b}
    /\ requests' = requests + 1
    /\ UNCHANGED <<bundles, targeted, deleted, carried, roundVars, calls, stamps>>

Empty(b) ==
    /\ requests < MaxRequests
    /\ b \in filled
    /\ filled' = filled \ {b}
    /\ requests' = requests + 1
    /\ UNCHANGED <<bundles, targeted, deleted, carried, roundVars, calls, stamps>>

-----------------------------------------------------------------------------
(* Delivery of the events.                                                 *)

\* The interval ends and a new event starts a run.  The timeout of a run is
\* one interval: a run that started with an event has ended by now, a run
\* that started with a retry in between may last.
Tick(e) ==
    /\ pc[e] = "none"
    /\ Quiet(e)
    /\ \A f \in Events : Running(f) => spare[f] = 1
    /\ pc' = [pc EXCEPT ![e] = "scan"]
    /\ attempt' = [attempt EXCEPT ![e] = 0]
    /\ spare' = [f \in Events |-> 0]
    /\ UNCHANGED <<apiVars, carried, calls, stamps>>

Retry(e) ==
    /\ pc[e] = "queued"
    /\ Quiet(e)
    /\ pc' = [pc EXCEPT ![e] = "scan"]
    /\ spare' = [spare EXCEPT ![e] = 1]
    /\ UNCHANGED <<attempt, apiVars, carried, calls, stamps>>

\* The run throws or times out; the event is retried or dropped.
Redeliver(e) ==
    /\ pc' = [pc EXCEPT ![e] = IF attempt[e] < MaxRetries THEN "queued" ELSE "none"]
    /\ attempt' = [attempt EXCEPT ![e] = IF attempt[e] < MaxRetries THEN attempt[e] + 1
                                                                    ELSE attempt[e]]
    /\ UNCHANGED spare

-----------------------------------------------------------------------------
(* A run of the scheduler.                                                 *)

\* Mutant of Members: a bundle takes the place of the one before it.
MembersLast(scanned, g) ==
    LET all == {b \in scanned : bundles[b] = g}
    IN  {b \in all : b = CHOOSE c \in all : TRUE}

\* The bundles of one rule group among those that were scanned.
Members(scanned, g) == {b \in scanned : bundles[b] = g}

\* Scan the bundles and invoke the auto-config Lambda for every rule group.
Invoke(e) ==
    /\ pc[e] = "scan"
    /\ \E scanned \in SUBSET {b \in Bundles : bundles[b] # Absent} :
          /\ scanned = {b \in Bundles : bundles[b] # Absent} \/ PartialReads
          /\ calls' = [calls EXCEPT ![e] =
                [g \in Keys |-> IF Members(scanned, g) = {} THEN NoCall
                                ELSE Sent(Members(scanned, g))]]
    /\ pc' = [pc EXCEPT ![e] = "wait"]
    /\ UNCHANGED <<attempt, spare, apiVars, carried, stamps>>

Named(e, ok) ==
    UNION {calls[e][g].ids : g \in {k \in Keys :
              calls[e][k].phase = "done" /\ (calls[e][k].answer = "200" <=> ok)}}
Succeeded(e) == Named(e, TRUE)
Failed(e) == Named(e, FALSE)

\* Mutant of Collect: a run with a failed group writes no timestamps.
CollectAllOrNothing(e) ==
    /\ pc[e] = "wait"
    /\ \A g \in Keys : calls[e][g].phase \in {"free", "done"}
    /\ calls' = [calls EXCEPT ![e] = [g \in Keys |-> NoCall]]
    /\ IF Failed(e) # {}
       THEN Redeliver(e) /\ UNCHANGED stamps
       ELSE /\ pc' = [pc EXCEPT ![e] = "none"]
            /\ stamps' = [stamps EXCEPT ![e] = @ \cup Succeeded(e)]
            /\ UNCHANGED <<attempt, spare>>
    /\ UNCHANGED <<apiVars, carried>>

\* All answers are there.
Collect(e) ==
    /\ pc[e] = "wait"
    /\ \A g \in Keys : calls[e][g].phase \in {"free", "done"}
    /\ stamps' = [stamps EXCEPT ![e] = @ \cup Succeeded(e)]
    /\ calls' = [calls EXCEPT ![e] = [g \in Keys |-> NoCall]]
    /\ IF Failed(e) # {}
       THEN Redeliver(e)
       ELSE pc' = [pc EXCEPT ![e] = "none"] /\ UNCHANGED <<attempt, spare>>
    /\ UNCHANGED <<apiVars, carried>>

\* The scan fails, one of the invocations is rejected, an answer has no body,
\* or the run times out.  The calls that are under way go on unheard.
FailRun(e) ==
    /\ Running(e)
    /\ calls' = [calls EXCEPT ![e] =
          [g \in Keys |-> IF calls[e][g].phase = "done" THEN NoCall ELSE calls[e][g]]]
    /\ Redeliver(e)
    /\ UNCHANGED <<apiVars, carried, stamps>>

\* Mutant of Stamp: the item is put back as it was scanned, without ARN.
StampWhole(e, b) ==
    /\ b \in stamps[e]
    /\ bundles' = [bundles EXCEPT ![b] = NoArn]
    /\ stamps' = [stamps EXCEPT ![e] = @ \ {b}]
    /\ UNCHANGED <<filled, requests, targeted, deleted, carried, roundVars, calls>>

\* UpdateItem without a condition: it creates an item where there is none.
Stamp(e, b) ==
    /\ b \in stamps[e]
    /\ bundles' = [bundles EXCEPT ![b] = IF bundles[b] = Absent THEN NoArn ELSE bundles[b]]
    /\ stamps' = [stamps EXCEPT ![e] = @ \ {b}]
    /\ UNCHANGED <<filled, requests, targeted, deleted, carried, roundVars, calls>>

\* The environment is recycled or a write fails: the other writes are lost.
LoseStamps(e) ==
    /\ stamps[e] # {}
    /\ stamps' = [stamps EXCEPT ![e] = {}]
    /\ UNCHANGED <<apiVars, carried, roundVars, calls>>

-----------------------------------------------------------------------------
(* A call of the auto-config Lambda.                                       *)

\* Mutant of Answer: the state of the call is left behind.
AnswerLate(e, g, code) ==
    calls' = [calls EXCEPT ![e][g] = Done(calls[e][g], code)]

\* The call ends; nobody hears the answer when the run is over.
Answer(e, g, code) ==
    calls' = [calls EXCEPT ![e][g] =
                IF pc[e] = "wait"
                THEN Done(calls[e][g], code) ELSE NoCall]

\* Mutant of Read: the bundles are not compared; the first one decides.
ReadUnchecked(e, g) ==
    /\ calls[e][g].phase = "sent"
    /\ LET found == {b \in calls[e][g].ids : bundles[b] # Absent}
       IN  \/ found = {} /\ Answer(e, g, "error")
           \/ \E b \in found :
                calls' = [calls EXCEPT ![e][g] =
                      Ready(calls[e][g], bundles[b], found \cap filled)]
    /\ UNCHANGED <<apiVars, carried, roundVars, stamps>>

\* Read the items of the bundles, and their rules.
Read(e, g) ==
    /\ calls[e][g].phase = "sent"
    /\ \E found \in SUBSET {b \in calls[e][g].ids : bundles[b] # Absent} :
          /\ found = {b \in calls[e][g].ids : bundles[b] # Absent} \/ PartialReads
          /\ \/ found = {} /\ Answer(e, g, "error")
             \/ /\ \E b, c \in found : bundles[b] # bundles[c]
                /\ Answer(e, g, "error")
             \/ \E a \in Keys :
                /\ found # {} /\ \A b \in found : bundles[b] = a
                /\ calls' = [calls EXCEPT ![e][g] =
                      Ready(calls[e][g], a, found \cap filled)]
    /\ UNCHANGED <<apiVars, carried, roundVars, stamps>>

\* ANFW, and the statuses.

AtFirewall(e, g) == calls[e][g].phase = "ready" /\ calls[e][g].target \in Arns

\* The updater goes on to the statuses; the rules of bad are to be FAILED.
Decide(e, g, verdict, bad) ==
    calls' = [calls EXCEPT ![e][g] = Decided(calls[e][g], verdict, bad)]

Carry(e, g, texts) == carried' = [carried EXCEPT ![calls[e][g].target] = texts]

\* ANFW takes the rules but those that cannot be resolved.  When none of them
\* can, ANFW is not called.
Apply(e, g) ==
    /\ AtFirewall(e, g)
    /\ calls[e][g].texts # {}
    /\ \E bad \in SUBSET calls[e][g].texts :
          /\ IF bad = calls[e][g].texts THEN UNCHANGED carried
             ELSE Carry(e, g, calls[e][g].texts \ bad)
          /\ Decide(e, g, "taken", bad)
    /\ UNCHANGED <<apiVars, roundVars, stamps>>

\* ANFW refuses the rules; the ones it names become FAILED, or all of them.
Refuse(e, g) ==
    /\ AtFirewall(e, g)
    /\ calls[e][g].texts # {}
    /\ \E bad \in SUBSET calls[e][g].texts : Decide(e, g, "refused", bad)
    /\ UNCHANGED <<apiVars, carried, roundVars, stamps>>

\* No bundle has rules: DEFAULT_RULE is to be applied; no status is written.
Default(e, g, code) ==
    /\ AtFirewall(e, g)
    /\ calls[e][g].texts = {}
    /\ Answer(e, g, code)
    /\ UNCHANGED <<apiVars, roundVars, stamps>>

\* ANFW takes it in place of what it had.
ApplyDefault(e, g) == Default(e, g, "200") /\ Carry(e, g, {})

\* The same, and the answer of ANFW is lost.
LoseDefault(e, g) == Default(e, g, "error") /\ Carry(e, g, {})

\* ANFW refuses it, or has done so in this environment before: the constant is
\* FAILED then and ANFW is not called.
LeaveDefault(e, g) == Default(e, g, "200") /\ UNCHANGED carried

\* Mutant of Record: rules that cannot be resolved keep their status.
RecordNothing(e, g) ==
    /\ calls[e][g].phase \in {"taken", "refused"}
    /\ Answer(e, g, "200")
    /\ UNCHANGED <<apiVars, carried, roundVars, stamps>>

\* All statuses are written.
Record(e, g) ==
    /\ calls[e][g].phase \in {"taken", "refused"}
    /\ filled' = filled \ calls[e][g].texts
    /\ Answer(e, g, "200")
    /\ UNCHANGED <<bundles, requests, targeted, deleted, carried, roundVars, stamps>>

\* A read fails, or ANFW (a call that has no rule group gets no further), or a
\* status write after some were made, or the environment is stopped.  When ANFW
\* took the rules and its answer was lost, the call fails after Apply.
FailCall(e, g) ==
    /\ calls[e][g].phase \in {"sent", "ready", "taken", "refused"}
    /\ \E written \in SUBSET calls[e][g].texts :
          /\ written = {} \/ calls[e][g].phase \in {"taken", "refused"}
          /\ filled' = filled \ written
    /\ Answer(e, g, "error")
    /\ UNCHANGED <<bundles, requests, targeted, deleted, carried, roundVars, stamps>>

-----------------------------------------------------------------------------

ApiNext ==
    \E b \in Bundles :
        \/ \E a \in Arns : CreateBundle(b, a) \/ UpdateBundle(b, a)
        \/ DeleteBundle(b)
        \/ Fill(b)
        \/ Empty(b)

RunNext(e) ==
    \/ Tick(e)
    \/ Retry(e)
    \/ Invoke(e)
    \/ Collect(e)
    \/ FailRun(e)
    \/ \E b \in Bundles : Stamp(e, b)
    \/ LoseStamps(e)

CallNext(e, g) ==
    \/ Read(e, g)
    \/ Apply(e, g)
    \/ Refuse(e, g)
    \/ ApplyDefault(e, g)
    \/ LoseDefault(e, g)
    \/ LeaveDefault(e, g)
    \/ Record(e, g)
    \/ FailCall(e, g)

Next ==
    \/ ApiNext
    \/ \E e \in Events : RunNext(e)
    \/ \E e \in Events, g \in Keys : CallNext(e, g)

Spec == Init /\ [][Next]_vars

\* What a call is made for: ANFW takes its rules, and their statuses are
\* written.  A call without rules is answered 200 whatever became of DEFAULT_RULE.
Served(e, g) == Apply(e, g) \/ ApplyDefault(e, g) \/ LeaveDefault(e, g)
Recorded(e, g) == calls[e][g].phase = "taken" /\ Record(e, g)

\* The schedule goes on and Lambda delivers and ends what it has started; from
\* some moment on no run of the scheduler is cut short (a run whose last
\* attempt failed ends the same way, whoever noticed); and a call for a
\* reachable rule group that is made again and again does not fail at the same
\* point every time.  Nothing makes ANFW take DEFAULT_RULE.
Fairness ==
    /\ \A e \in Events :
        /\ WF_vars(Tick(e))
        /\ WF_vars(Retry(e))
        /\ WF_vars(Invoke(e))
        /\ WF_vars(Collect(e))
        /\ <>[][FailRun(e) => Collect(e)]_vars
        /\ \A g \in Keys : WF_vars(FailCall(e, g))
    /\ \A g \in Reachable :
        /\ SF_vars(\E e \in Events : Read(e, g))
        /\ SF_vars(\E e \in Events : Served(e, g))
        /\ SF_vars(\E e \in Events : Recorded(e, g))
    /\ \A b \in Bundles : SF_vars(\E e \in Events : Stamp(e, b))

FairSpec == Spec /\ Fairness

-----------------------------------------------------------------------------
(* Properties.                                                             *)

\* A rule group only carries rules of bundles that have targeted it, although
\* bundles may be retargeted, deleted and created again between the scan, the
\* read of the call and its call of ANFW.
CarriedWasTargeted ==
    \A a \in Arns : \A b \in carried[a] : a \in targeted[b]

\* An item without rule group stems from the late timestamp of a bundle that
\* was deleted: a live bundle never loses its rule group.
ArnLostOnlyByDelete ==
    \A b \in Bundles : bundles[b] = NoArn => b \in deleted

\* Why the two invariants hold: what a call has read was true when it read it,
\* and only identifiers that had an item are named in calls and timestamps.
TargetsRecorded ==
    \A b \in Bundles : bundles[b] \in Arns => bundles[b] \in targeted[b]

ReadyWasTargeted ==
    \A e \in Events : \A g \in Keys :
        calls[e][g].phase = "ready" /\ calls[e][g].target \in Arns =>
            \A b \in calls[e][g].texts : calls[e][g].target \in targeted[b]

Known(b) == bundles[b] # Absent \/ b \in deleted

NamesKnown ==
    \A e \in Events :
        /\ \A b \in stamps[e] : Known(b)
        /\ \A g \in Keys : \A b \in calls[e][g].ids : Known(b)

IInv ==
    /\ TypeOK
    /\ CarriedWasTargeted
    /\ ArnLostOnlyByDelete
    /\ TargetsRecorded
    /\ ReadyWasTargeted
    /\ NamesKnown

\* Once the API is quiet, a reachable rule group that some bundle targets comes
\* to carry no rules but those of its bundles, and all of them again and again:
\* rules stay away while their objects cannot be resolved and their status cannot
\* be written, late calls of earlier runs bring old rules back for a while at
\* most, and failures of other rule groups do not matter.  Without rules this
\* holds unless DEFAULT_RULE is left out again and again.
Wanted(a) == {b \in filled : bundles[b] = a}
DefaultLeft(a) ==
    /\ carried[a] # {}
    /\ \E e \in Events, g \in Keys : calls[e][g].target = a /\ LeaveDefault(e, g)
Converges ==
    \A a \in Reachable :
        /\ <>[](\E b \in Bundles : bundles[b] = a)
        /\ <>[][~DefaultLeft(a)]_vars
        => /\ <>[](carried[a] \subseteq Wanted(a))
           /\ []<>(carried[a] = Wanted(a))

\* The timestamp of a bundle is written again and again, even when the
\* synchronisation of other rule groups fails every time.
StampedAgain ==
    \A b \in Bundles :
        <>[](bundles[b] \in Reachable) => []<><<\E e \in Events : Stamp(e, b)>>_vars

\* FlowDefinitions.ts: every FlowRuleBundle has a ruleGroupArn.
EveryBundleHasArn == \A b \in Bundles : bundles[b] # NoArn

\* README.md: the solution keeps the rule groups of ANFW "up to date in near
\* real-time": one that no bundle names any longer comes to carry no rules.
GroupsFollowTables ==
    \A a \in Arns : <>[](\A b \in Bundles : bundles[b] # a) => <>[](carried[a] = {})
=============================================================================
