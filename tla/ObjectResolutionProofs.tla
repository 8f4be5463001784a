------------------------ MODULE ObjectResolutionProofs ------------------------
(***************************************************************************)
(* Proofs about ObjectResolution, for all groups, kinds of object, sizes   *)
(* of a chunk, limits of attempts and tokens, and numbers of invocations.  *)
(***************************************************************************)
EXTENDS ObjectResolution, FiniteSetTheorems, TLAPS

-----------------------------------------------------------------------------
(* The inductive invariant, by parts.                                      *)

Verdicts == {"open", "some", "none", "error"}
Keys == [text : Nat \X Nat, object : Objects, stage : {1, 2}]
Ids == Keys \X (Nat \ {0})
Slot ==
    [rule : Rule, text : Nat \X Nat, stage : {1, 2}, waits : Ids \cup {Unawaited},
     end : {"source", "destination", "failed", "resolved", "rejected"},
     source : Verdicts, destination : Verdicts]
Promise ==
    [status : {"sent", "kept", "broken"}, attempts : Nat, paid : Nat, asks : Objects]
Entry == [of : Nat \X Nat, sid : Nat, failed : BOOLEAN]

\* How far the invocation is.
ProgressType ==
    /\ count \in 0 .. MaxInvocations /\ stamp \in 0 .. MaxInvocations
    /\ reply \in {"none", "200", "503"}
    /\ plan \in Plans
    /\ bundle \in 1 .. Len(plan) + 1 /\ chunk \in Nat /\ overallIndex \in Nat
    /\ done \in Seq(Entry)

\* Its rules.
SlotsType == slots \in [Rows -> Slot \cup {NoSlot}]

\* What the environment keeps.
PromisesOK(ps) ==
    ps \in [DOMAIN ps -> Promise] /\ DOMAIN ps \subseteq Ids /\ IsFiniteSet(DOMAIN ps)
KeptType ==
    /\ PromisesOK(promises)
    /\ memo \in [DOMAIN memo -> Nat \ {0}] /\ DOMAIN memo \subseteq Keys
    /\ quota \in 0 .. Capacity
    /\ failures \in 0 .. MaxAttempts /\ doomed \in BOOLEAN

\* Who waits waits for a promise there is.
WaitIn(sl, ps) ==
    \A r \in Rows : sl[r] # NoSlot => sl[r].waits \in DOMAIN ps \cup {Unawaited}

\* A promise that is kept for a key is not broken.
GoodIn(m, ps) ==
    \A k \in DOMAIN m :
        /\ <<k, m[k]>> \in DOMAIN ps
        /\ ps[<<k, m[k]>>].status # "broken"

Types ==
    ProgressType /\ SlotsType /\ KeptType /\ WaitIn(slots, promises) /\ GoodIn(memo, promises)

\* The rules before the chunk are done, in their order, and no others.
Past(b, k) == b < bundle \/ (b = bundle /\ k <= chunk * ChunkSize)
Places ==
    /\ bundle <= Len(plan) => chunk * ChunkSize <= Len(plan[bundle])
    /\ bundle > Len(plan) => chunk = 0
    /\ Len(done) = overallIndex + chunk * ChunkSize
    /\ \A i \in DOMAIN done : done[i].sid \in {0, i} /\ Past(done[i].of[1], done[i].of[2])
    /\ \A i, j \in DOMAIN done : i < j => Before(done[i].of, done[j].of)
    /\ \A b \in DOMAIN plan : \A k \in DOMAIN plan[b] :
          Past(b, k) => \E i \in DOMAIN done : done[i].of = <<b, k>>
    /\ reply = "200" => bundle > Len(plan)

\* Every failure is counted until there have been MaxAttempts.
Counted ==
    /\ \A p \in DOMAIN promises : promises[p].attempts <= failures
    /\ failures < MaxAttempts => quota + failures * TimeoutCost >= Capacity

\* A rule of the last invocation that met an error, or is going to, met it for a cause.
Planned(rule) == \E b \in DOMAIN plan : \E i \in DOMAIN plan[b] : rule = plan[b][i]
Blameless(r) ==
    /\ Planned(slots[r].rule)
    /\ slots[r].end = "rejected" => "error" \in {slots[r].source, slots[r].destination}
    /\ r[1] <= count
    /\ r[1] = count =>
          /\ "error" \in {slots[r].source, slots[r].destination} => Cause
          /\ slots[r].waits # Unawaited /\ promises[slots[r].waits].status = "broken" => Cause
Errors ==
    /\ \A r \in Rows : slots[r] # NoSlot => Blameless(r)
    /\ reply = "503" => Cause

\* What a rule knows of its objects is true of them, and it asks for them only.
HasNone(o) == ~Instant(o) /\ o \in Empty
Heeds(verdict, o) ==
    /\ verdict = "some" => ~HasNone(o)
    /\ verdict = "none" => HasNone(o)
OwnSlot(slot) ==
    /\ Heeds(slot.source, slot.rule.source)
    /\ Heeds(slot.destination, slot.rule.destination)
    /\ slot.end = "failed" <=> Dangling(slot.rule)
    /\ slot.end = "source" => ~Instant(slot.rule.source)
    /\ slot.end = "destination" => ~Instant(slot.rule.destination) /\ slot.source # "open"
    /\ slot.end = "resolved" => {slot.source, slot.destination} \subseteq {"some", "none"}
    /\ slot.waits # Unawaited =>
          slot.waits[1].object = IF slot.end = "source" THEN slot.rule.source ELSE slot.rule.destination

\* The rules of the chunk are in the slots of the invocation.
InPlace ==
    Running /\ bundle <= Len(plan) =>
        \A i \in DOMAIN ChunkOf(plan, bundle, chunk) : \A r \in Rows :
            r = <<count, i>> =>
                slots[r] # NoSlot /\ slots[r].rule = ChunkOf(plan, bundle, chunk)[i]

Own ==
    /\ \A p \in DOMAIN promises : promises[p].asks = p[1].object
    /\ \A r \in Rows : slots[r] # NoSlot => OwnSlot(slots[r])
    /\ InPlace
    /\ \A i \in DOMAIN done :
          done[i].failed <=> Fails(plan[done[i].of[1]][done[i].of[2]])

IInv == Types /\ Places /\ Counted /\ Errors /\ Own

-----------------------------------------------------------------------------
(* Lemmas about the operators.                                             *)

LEMMA NumberFacts ==
    /\ ChunkSize \in Nat \ {0} /\ MaxAttempts \in Nat \ {0} /\ Capacity \in Nat \ {0}
    /\ TimeoutCost \in Nat \ {0} /\ MaxInvocations \in Nat \ {0}
BY NumbersAssumption

\* Nobody mistakes not waiting for a promise.
LEMMA UnawaitedIsNoId == Unawaited \notin Ids
BY DEF Unawaited, Ids

LEMMA WithoutFacts ==
    ASSUME NEW f, NEW keys
    PROVE  /\ DOMAIN Without(f, keys) = DOMAIN f \ keys
           /\ \A k \in DOMAIN f \ keys : Without(f, keys)[k] = f[k]
BY DEF Without

\* A sweep changes no promise, and leaves those that are under way, kept or awaited.
LEMMA SweptFacts ==
    ASSUME NEW ps, NEW m, NEW sl
    PROVE  /\ DOMAIN Swept(ps, m, sl) \subseteq DOMAIN ps
           /\ \A p \in DOMAIN Swept(ps, m, sl) : Swept(ps, m, sl)[p] = ps[p]
           /\ \A p \in DOMAIN ps :
                 \/ ps[p].status = "sent"
                 \/ Kept(m, p)
                 \/ \E r \in Rows : sl[r] # NoSlot /\ sl[r].waits = p
                 => p \in DOMAIN Swept(ps, m, sl)
<1>. DEFINE gone == {p \in DOMAIN ps :
        ps[p].status # "sent" /\ ~Kept(m, p) /\ \A r \in Rows : sl[r] # NoSlot => sl[r].waits # p}
<1>1. Swept(ps, m, sl) = Without(ps, gone)
  BY DEF Swept
<1>2. /\ DOMAIN Without(ps, gone) = DOMAIN ps \ gone
      /\ \A p \in DOMAIN ps \ gone : Without(ps, gone)[p] = ps[p]
  BY WithoutFacts
<1>3. \A p \in DOMAIN ps :
         \/ ps[p].status = "sent"
         \/ Kept(m, p)
         \/ \E r \in Rows : sl[r] # NoSlot /\ sl[r].waits = p
         => p \notin gone
  OBVIOUS
<1>. HIDE DEF gone
<1>. QED
  BY <1>1, <1>2, <1>3

\* A rule that has asked for its destination is resolved, or rejected for an error.
LEMMA AtDestinationFacts ==
    ASSUME NEW slot \in Slot, NEW verdict \in Verdicts
    PROVE  LET new == AtDestination(slot, verdict)
           IN /\ new \in Slot
              /\ new.rule = slot.rule /\ new.waits = Unawaited
              /\ new.end = "rejected" => "error" \in {new.source, new.destination}
              /\ new.source = slot.source /\ new.destination = verdict
BY DEF AtDestination, Slot

LEMMA VerdictFacts ==
    ASSUME NEW o \in Objects, Instant(o)
    PROVE  /\ Verdict(o) \in Verdicts
           /\ Verdict(o) = "error" => KindOf[o] \in {"untagged", "unclaimed"}
BY DEF Instant, Verdict, Verdicts

\* A rule that has asked for its source.
LEMMA AtSourceFacts ==
    ASSUME NEW slot \in Slot, NEW verdict \in Verdicts
    PROVE  LET new == AtSource(slot, verdict)
           IN /\ new \in Slot
              /\ new.rule = slot.rule /\ new.waits = Unawaited
              /\ new.end = "rejected" => "error" \in {new.source, new.destination}
              /\ "error" \in {new.source, new.destination} =>
                    "error" \in {verdict, slot.destination} \/ Unresolvable(slot.rule)
<1>. DEFINE next == [slot EXCEPT !.end = "destination", !.stage = 1, !.waits = Unawaited,
                                 !.source = verdict]
            o == next.rule.destination
<1>1. /\ next \in Slot /\ next.rule = slot.rule /\ next.waits = Unawaited
      /\ next.end = "destination" /\ next.source = verdict
      /\ next.destination = slot.destination
  BY DEF Slot
<1>2. o \in Objects /\ o = slot.rule.destination
  BY <1>1 DEF Slot, Rule
<1>3. AtSource(slot, verdict) = IF Instant(o) THEN AtDestination(next, Verdict(o)) ELSE next
  BY DEF AtSource
<1>. HIDE DEF next
<1>4. CASE Instant(o)
  <2>1. /\ Verdict(o) \in Verdicts
        /\ Verdict(o) = "error" => KindOf[o] \in {"untagged", "unclaimed"}
    BY <1>2, <1>4, VerdictFacts
  <2>2. Verdict(o) = "error" => Unresolvable(slot.rule)
    BY <1>2, <2>1 DEF Unresolvable
  <2>. QED
    BY <1>1, <1>3, <1>4, <2>1, <2>2, AtDestinationFacts
<1>5. CASE ~Instant(o)
  BY <1>1, <1>3, <1>5
<1>. QED
  BY <1>4, <1>5

\* A rule at its beginning waits for nothing, and is rejected for its own objects only.
LEMMA BegunFacts ==
    ASSUME NEW rule \in Rule, NEW text \in Nat \X Nat
    PROVE  LET new == Begun(rule, text)
           IN /\ new \in Slot
              /\ new.rule = rule /\ new.waits = Unawaited
              /\ new.end = "rejected" => "error" \in {new.source, new.destination}
              /\ "error" \in {new.source, new.destination} => Unresolvable(rule)
<1>. DEFINE slot == [rule |-> rule, text |-> text, end |-> "source", stage |-> 1,
                     waits |-> Unawaited, source |-> "open", destination |-> "open"]
<1>1. /\ slot \in Slot /\ slot.rule = rule /\ slot.waits = Unawaited
      /\ slot.source = "open" /\ slot.destination = "open" /\ slot.end = "source"
  BY DEF Slot, Verdicts
<1>2. LET failed == [slot EXCEPT !.end = "failed"]
      IN /\ failed \in Slot /\ failed.rule = rule /\ failed.waits = Unawaited
         /\ failed.source = "open" /\ failed.destination = "open" /\ failed.end = "failed"
  BY DEF Slot, Verdicts
<1>3. Begun(rule, text) =
         IF Dangling(rule) THEN [slot EXCEPT !.end = "failed"]
         ELSE IF Instant(rule.source) THEN AtSource(slot, Verdict(rule.source))
         ELSE slot
  BY DEF Begun
<1>4. rule.source \in Objects
  BY DEF Rule
<1>. HIDE DEF slot
<1>5. CASE Dangling(rule)
  BY <1>2, <1>3, <1>5
<1>6. CASE ~Dangling(rule) /\ Instant(rule.source)
  <2>1. /\ Verdict(rule.source) \in Verdicts
        /\ Verdict(rule.source) = "error" => Unresolvable(rule)
    BY <1>4, <1>6, VerdictFacts DEF Unresolvable
  <2>. QED
    BY <1>1, <1>3, <1>6, <2>1, AtSourceFacts
<1>7. CASE ~Dangling(rule) /\ ~Instant(rule.source)
  BY <1>1, <1>3, <1>7
<1>. QED
  BY <1>5, <1>6, <1>7

\* Opening a chunk changes the rows of one invocation, and each holds a rule of the
\* chunk at its beginning, or nothing.
LEMMA OpenedFacts ==
    ASSUME SlotsType, NEW n, NEW rules \in Seq(Rule), NEW text \in Nat \X Nat
    PROVE  /\ Opened(n, rules, text) \in [Rows -> Slot \cup {NoSlot}]
           /\ \A r \in Rows : r[1] # n => Opened(n, rules, text)[r] = slots[r]
           /\ \A r \in Rows : r[1] = n /\ Opened(n, rules, text)[r] # NoSlot =>
                 /\ r[2] \in DOMAIN rules
                 /\ Opened(n, rules, text)[r] = Begun(rules[r[2]], text)
<1>1. \A r \in Rows : r[2] \in 1 .. ChunkSize
  BY DEF Rows
<1>2. \A r \in Rows : r[2] <= Len(rules) => r[2] \in DOMAIN rules /\ rules[r[2]] \in Rule
  BY <1>1, NumberFacts
<1>3. \A r \in Rows : r[2] <= Len(rules) => Begun(rules[r[2]], text) \in Slot
  BY <1>2, BegunFacts
<1>. QED
  BY <1>2, <1>3 DEF Opened, SlotsType

\* A chunk is the stretch of its bundle from a multiple of the size of a chunk on.
LEMMA ChunkFacts ==
    ASSUME NEW group \in Plans, NEW b \in DOMAIN group, NEW c \in Nat,
           c * ChunkSize <= Len(group[b])
    PROVE  /\ c * ChunkSize \in Nat
           /\ (c + 1) * ChunkSize = c * ChunkSize + ChunkSize
           /\ ChunkOf(group, b, c) \in Seq(Rule)
           /\ Len(ChunkOf(group, b, c)) =
                 IF Len(group[b]) < c * ChunkSize + ChunkSize
                 THEN Len(group[b]) - c * ChunkSize ELSE ChunkSize
           /\ \A i \in DOMAIN ChunkOf(group, b, c) :
                 /\ c * ChunkSize + i \in DOMAIN group[b]
                 /\ ChunkOf(group, b, c)[i] = group[b][c * ChunkSize + i]
<1>1. c * ChunkSize \in Nat /\ (c + 1) * ChunkSize = c * ChunkSize + ChunkSize
  BY NumberFacts
<1>2. group[b] \in Seq(Rule)
  BY PlanAssumption
<1>. DEFINE first == c * ChunkSize
            last == IF Len(group[b]) < first + ChunkSize THEN Len(group[b]) ELSE first + ChunkSize
<1>3. ChunkOf(group, b, c) = SubSeq(group[b], first + 1, last)
  BY <1>1 DEF ChunkOf
<1>4. first \in Nat /\ last \in Nat /\ first <= last /\ last <= Len(group[b])
  BY <1>1, <1>2, NumberFacts
<1>. HIDE DEF first, last
<1>5. /\ SubSeq(group[b], first + 1, last) \in Seq(Rule)
      /\ Len(SubSeq(group[b], first + 1, last)) = last - first
      /\ \A i \in 1 .. last - first :
            /\ SubSeq(group[b], first + 1, last)[i] = group[b][first + i]
            /\ first + i \in DOMAIN group[b]
  BY <1>2, <1>4
<1>6. DOMAIN SubSeq(group[b], first + 1, last) = 1 .. last - first
  BY <1>5
<1>7. Len(SubSeq(group[b], first + 1, last)) =
         IF Len(group[b]) < first + ChunkSize THEN Len(group[b]) - first ELSE ChunkSize
  BY <1>1, <1>2, <1>4, <1>5, NumberFacts DEF last
<1>. QED
  BY <1>1, <1>3, <1>5, <1>6, <1>7 DEF first

\* There is always an ordinal left for a key.
LEMMA FreshFacts ==
    ASSUME IsFiniteSet(DOMAIN promises), NEW k
    PROVE  Fresh(k) \in Nat \ {0} /\ <<k, Fresh(k)>> \notin DOMAIN promises
<1>. DEFINE bound == Cardinality(DOMAIN promises) + 1
            f == [n \in 1 .. bound |-> <<k, n>>]
<1>1. bound \in Nat
  BY FS_CardinalityType
<1>2. \E n \in 1 .. bound : <<k, n>> \notin DOMAIN promises
  <2>. SUFFICES ASSUME \A n \in 1 .. bound : <<k, n>> \in DOMAIN promises
                PROVE  FALSE
    OBVIOUS
  <2>1. Cardinality(1 .. bound) = bound
    BY <1>1, FS_Interval
  <2>2. f \in Injection(1 .. bound, DOMAIN promises)
    BY DEF Injection, IsInjective
  <2>3. Cardinality(1 .. bound) <= Cardinality(DOMAIN promises)
    BY <2>2, FS_Injection
  <2>. QED
    BY <1>1, <2>1, <2>3, FS_CardinalityType
<1>. QED
  BY <1>1, <1>2 DEF Fresh

\* What a rule is after it has taken what it waited for.
LEMMA TakeFacts ==
    ASSUME Types, NEW r \in Rows, Take(r)
    PROVE  \E new \in Slot \cup {NoSlot} :
             /\ slots' = [slots EXCEPT ![r] = new]
             /\ new # NoSlot =>
                  /\ new.rule = slots[r].rule /\ new.waits = Unawaited
                  /\ new.end = "rejected" => "error" \in {new.source, new.destination}
                  /\ "error" \in {new.source, new.destination} =>
                        \/ "error" \in {slots[r].source, slots[r].destination}
                        \/ promises[slots[r].waits].status = "broken"
                        \/ Unresolvable(slots[r].rule)
<1>. DEFINE p == promises[slots[r].waits]
            found == p.asks \notin Empty
            verdict == IF p.status = "broken" THEN "error"
                       ELSE IF found THEN "some" ELSE "none"
            new == IF p.status # "broken" /\ Second(r, found)
                   THEN [slots[r] EXCEPT !.stage = 2, !.waits = Unawaited]
                   ELSE Settled(slots[r], verdict)
<1>1. slots[r] \in Slot /\ slots[r].end \in {"source", "destination"}
  BY DEF Take, Unsettled, Types, SlotsType
<1>2. Put(r, new)
  BY DEF Take
<1>3. verdict \in Verdicts /\ (verdict = "error" => p.status = "broken")
  BY DEF Verdicts
<1>. HIDE DEF verdict
<1>4. /\ new \in Slot
      /\ new.rule = slots[r].rule /\ new.waits = Unawaited
      /\ new.end = "rejected" => "error" \in {new.source, new.destination}
      /\ "error" \in {new.source, new.destination} =>
            \/ "error" \in {slots[r].source, slots[r].destination}
            \/ p.status = "broken"
            \/ Unresolvable(slots[r].rule)
  <2>1. CASE p.status # "broken" /\ Second(r, found)
    <3>1. new = [slots[r] EXCEPT !.stage = 2, !.waits = Unawaited]
      BY <2>1
    <3>2. /\ new \in Slot /\ new.rule = slots[r].rule /\ new.waits = Unawaited
          /\ new.end = slots[r].end /\ new.source = slots[r].source
          /\ new.destination = slots[r].destination
      BY <1>1, <3>1 DEF Slot
    <3>. QED
      BY <1>1, <3>2
  <2>2. CASE ~(p.status # "broken" /\ Second(r, found)) /\ slots[r].end = "source"
    <3>1. new = AtSource(slots[r], verdict)
      BY <2>2 DEF Settled
    <3>. HIDE DEF new
    <3>. QED
      BY <1>1, <1>3, <3>1, AtSourceFacts
  <2>3. CASE ~(p.status # "broken" /\ Second(r, found)) /\ slots[r].end = "destination"
    <3>1. new = AtDestination(slots[r], verdict)
      BY <2>3 DEF Settled
    <3>. HIDE DEF new
    <3>. QED
      BY <1>1, <1>3, <3>1, AtDestinationFacts
  <2>. QED
    BY <1>1, <2>1, <2>2, <2>3
<1>. HIDE DEF new
<1>5. slots' = [slots EXCEPT ![r] = new] \/ slots' = [slots EXCEPT ![r] = NoSlot]
  BY <1>2 DEF Put
<1>. QED
  BY <1>4, <1>5

\* A sweep leaves what the types ask for.
LEMMA SweepKeeps ==
    ASSUME NEW ps, NEW m, NEW sl, PromisesOK(ps), GoodIn(m, ps), WaitIn(sl, ps)
    PROVE  /\ PromisesOK(Swept(ps, m, sl))
           /\ GoodIn(m, Swept(ps, m, sl))
           /\ WaitIn(sl, Swept(ps, m, sl))
           /\ DOMAIN Swept(ps, m, sl) \subseteq DOMAIN ps
           /\ \A p \in DOMAIN Swept(ps, m, sl) : Swept(ps, m, sl)[p] = ps[p]
<1>. DEFINE qs == Swept(ps, m, sl)
<1>1. /\ DOMAIN qs \subseteq DOMAIN ps
      /\ \A p \in DOMAIN qs : qs[p] = ps[p]
      /\ \A p \in DOMAIN ps : Kept(m, p) => p \in DOMAIN qs
      /\ \A r \in Rows : sl[r] # NoSlot /\ sl[r].waits \in DOMAIN ps => sl[r].waits \in DOMAIN qs
  BY SweptFacts
<1>2. qs = [p \in DOMAIN qs |-> qs[p]]
  BY DEF Swept, Without
<1>. HIDE DEF qs
<1>3. PromisesOK(qs)
  <2>1. \A p \in DOMAIN qs : qs[p] \in Promise
    BY <1>1 DEF PromisesOK
  <2>2. IsFiniteSet(DOMAIN qs)
    BY <1>1, FS_Subset DEF PromisesOK
  <2>. QED
    BY <1>1, <1>2, <2>1, <2>2 DEF PromisesOK
<1>4. GoodIn(m, qs)
  BY <1>1 DEF GoodIn, Kept
<1>5. WaitIn(sl, qs)
  BY <1>1 DEF WaitIn
<1>. QED
  BY <1>1, <1>3, <1>4, <1>5 DEF qs

\* A promise that is broken is not kept, nor is what else there is for its key.
LEMMA BrokenFacts ==
    ASSUME Types, NEW p, Sent(p), Broken(p)
    PROVE  LET broken == [promises[p] EXCEPT !.status = "broken", !.attempts = 0, !.paid = 0]
           IN /\ p \in Ids /\ broken \in Promise
              /\ memo' \in [DOMAIN memo' -> Nat \ {0}] /\ DOMAIN memo' \subseteq Keys
              /\ PromisesOK(promises') /\ GoodIn(memo', promises') /\ WaitIn(slots, promises')
              /\ DOMAIN promises' \subseteq DOMAIN promises
              /\ \A q \in DOMAIN promises' :
                    promises'[q] = IF q = p THEN broken ELSE promises[q]
<1>. DEFINE broken == [promises[p] EXCEPT !.status = "broken", !.attempts = 0, !.paid = 0]
            ps == [promises EXCEPT ![p] = broken]
<1>1. p \in DOMAIN promises /\ p \in Ids /\ promises[p] \in Promise
  BY DEF Sent, Types, KeptType, PromisesOK
<1>2. broken \in Promise
  BY <1>1 DEF Promise
<1>3. memo' = Without(memo, {p[1]})
  BY DEF Broken, ForgetRejected
<1>4. /\ DOMAIN memo' = DOMAIN memo \ {p[1]}
      /\ \A k \in DOMAIN memo' : memo'[k] = memo[k]
  <2>1. /\ DOMAIN Without(memo, {p[1]}) = DOMAIN memo \ {p[1]}
        /\ \A k \in DOMAIN memo \ {p[1]} : Without(memo, {p[1]})[k] = memo[k]
    BY WithoutFacts
  <2>. QED
    BY <1>3, <2>1
<1>5. memo' \in [DOMAIN memo' -> Nat \ {0}] /\ DOMAIN memo' \subseteq Keys
  BY <1>3, <1>4 DEF Types, KeptType, Without
<1>6. promises' = Swept(ps, memo', slots)
  BY <1>1 DEF Broken, Types, KeptType, PromisesOK
<1>. HIDE DEF broken
<1>7. /\ DOMAIN ps = DOMAIN promises
      /\ \A q \in DOMAIN promises : ps[q] = IF q = p THEN broken ELSE promises[q]
  BY <1>1
<1>8. PromisesOK(ps)
  BY <1>1, <1>2, <1>7 DEF Types, KeptType, PromisesOK
<1>9. GoodIn(memo', ps)
  <2>. SUFFICES ASSUME NEW k \in DOMAIN memo'
                PROVE  /\ <<k, memo'[k]>> \in DOMAIN ps
                       /\ ps[<<k, memo'[k]>>].status # "broken"
    BY DEF GoodIn
  <2>1. k \in DOMAIN memo /\ memo'[k] = memo[k] /\ <<k, memo[k]>> # p
    BY <1>4
  <2>. QED
    BY <1>7, <2>1 DEF Types, GoodIn
<1>10. WaitIn(slots, ps)
  BY <1>7 DEF Types, WaitIn
<1>. HIDE DEF ps
<1>. QED
  BY <1>1, <1>2, <1>5, <1>6, <1>7, <1>8, <1>9, <1>10, SweepKeeps DEF broken

-----------------------------------------------------------------------------
(* Types.                                                                  *)

LEMMA InitTypes == Init => Types
<1>. SUFFICES ASSUME Init PROVE Types
  OBVIOUS
<1>1. plan \in Seq(Seq(Rule)) /\ plan # <<>>
  BY PlanAssumption DEF Init
<1>2. ProgressType
  BY <1>1, NumberFacts DEF Init, ProgressType
<1>3. SlotsType /\ WaitIn(slots, promises)
  BY DEF Init, SlotsType, Idle, WaitIn
<1>4. DOMAIN promises = {} /\ DOMAIN memo = {}
  BY DEF Init, Nothing
<1>5. IsFiniteSet(DOMAIN promises)
  BY <1>4, FS_EmptySet
<1>6. /\ promises \in [DOMAIN promises -> Promise]
      /\ memo \in [DOMAIN memo -> Nat \ {0}]
  BY <1>4 DEF Init, Nothing
<1>7. KeptType
  <2>1. DOMAIN promises \subseteq Ids /\ DOMAIN memo \subseteq Keys
    BY <1>4, Zenon
  <2>2. quota = Capacity /\ failures = 0 /\ doomed \in BOOLEAN
    BY DEF Init
  <2>3. quota \in 0 .. Capacity /\ failures \in 0 .. MaxAttempts
    BY <2>2, NumberFacts
  <2>. QED
    BY <1>5, <1>6, <2>1, <2>2, <2>3, Zenon DEF KeptType, PromisesOK
<1>8. GoodIn(memo, promises)
  BY <1>4 DEF GoodIn
<1>. QED
  BY <1>2, <1>3, <1>7, <1>8 DEF Types

LEMMA InvokeTypes ==
    ASSUME Types, NEW changed \in BOOLEAN, Invoke(changed)
    PROVE  Types'
<1>1. plan \in Seq(Seq(Rule)) /\ plan # <<>> /\ 1 \in DOMAIN plan
  BY PlanAssumption DEF Types, ProgressType
<1>2. 0 * ChunkSize = 0 /\ 0 * ChunkSize <= Len(plan[1])
  BY <1>1, NumberFacts
<1>3. ChunkOf(plan, 1, 0) \in Seq(Rule)
  BY <1>1, <1>2, ChunkFacts DEF Types, ProgressType
<1>4. ProgressType'
  BY <1>1, NumberFacts DEF Invoke, Types, ProgressType
<1>5. Text(stamp', 1) \in Nat \X Nat
  BY <1>4, NumberFacts DEF Text, ProgressType
<1>. DEFINE opened == Opened(count + 1, ChunkOf(plan, 1, 0), Text(stamp', 1))
<1>6. slots' = opened
  BY DEF Invoke
<1>7. /\ opened \in [Rows -> Slot \cup {NoSlot}]
      /\ \A r \in Rows : r[1] # count + 1 => opened[r] = slots[r]
      /\ \A r \in Rows : r[1] = count + 1 /\ opened[r] # NoSlot => opened[r].waits = Unawaited
  BY <1>3, <1>5, OpenedFacts, BegunFacts DEF Types
<1>. HIDE DEF opened
<1>8. SlotsType' /\ WaitIn(slots, promises)'
  BY <1>6, <1>7 DEF SlotsType, WaitIn, Types, Invoke
<1>9. KeptType' /\ GoodIn(memo, promises)'
  BY DEF Types, KeptType, Invoke, GoodIn, PromisesOK
<1>. QED
  BY <1>4, <1>8, <1>9 DEF Types

\* The entries a chunk adds.
LEMMA OutcomeType ==
    ASSUME Types, NEW i \in Nat \ {0}
    PROVE  /\ Outcome(<<count, i>>) \in Entry
           /\ Outcome(<<count, i>>).of = <<bundle, chunk * ChunkSize + i>>
           /\ Outcome(<<count, i>>).sid \in {0, overallIndex + chunk * ChunkSize + i}
<1>1. chunk * ChunkSize \in Nat /\ bundle \in Nat /\ overallIndex \in Nat
  BY NumberFacts, PlanAssumption DEF Types, ProgressType
<1>. QED
  BY <1>1 DEF Outcome, Entry, Base

\* What is next after a chunk, and what is done then.
LEMMA GoOnFacts ==
    ASSUME Types, Places, GoOn
    PROVE  LET rules == ChunkOf(plan, bundle, chunk)
               more == chunk * ChunkSize + ChunkSize < Len(plan[bundle])
           IN /\ bundle \in DOMAIN plan /\ chunk * ChunkSize \in Nat
              /\ Len(rules) = IF more THEN ChunkSize ELSE Len(plan[bundle]) - chunk * ChunkSize
              /\ done' = done \o [i \in 1 .. Len(rules) |-> Outcome(<<count, i>>)]
              /\ IF more
                 THEN /\ chunk' = chunk + 1 /\ bundle' = bundle /\ overallIndex' = overallIndex
                      /\ chunk' * ChunkSize = chunk * ChunkSize + ChunkSize
                 ELSE /\ chunk' = 0 /\ bundle' = bundle + 1
                      /\ overallIndex' = overallIndex + Len(plan[bundle])
                      /\ chunk' * ChunkSize = 0
              /\ bundle' \in 1 .. Len(plan) + 1 /\ chunk' \in Nat
              /\ bundle' <= Len(plan) => chunk' * ChunkSize <= Len(plan[bundle'])
<1>1. /\ plan \in Plans /\ plan \in Seq(Seq(Rule)) /\ bundle \in DOMAIN plan
      /\ chunk \in Nat /\ chunk * ChunkSize <= Len(plan[bundle])
  BY PlanAssumption DEF Types, ProgressType, Places, GoOn
<1>2. /\ chunk * ChunkSize \in Nat
      /\ (chunk + 1) * ChunkSize = chunk * ChunkSize + ChunkSize
      /\ Len(ChunkOf(plan, bundle, chunk)) =
            IF Len(plan[bundle]) < chunk * ChunkSize + ChunkSize
            THEN Len(plan[bundle]) - chunk * ChunkSize ELSE ChunkSize
  BY <1>1, ChunkFacts
<1>3. plan[bundle] \in Seq(Rule) /\ Len(plan[bundle]) \in Nat
  BY <1>1
<1>4. 0 * ChunkSize = 0
  BY NumberFacts
<1>5. done' = done \o [i \in 1 .. Len(ChunkOf(plan, bundle, chunk)) |-> Outcome(<<count, i>>)]
  BY DEF GoOn
<1>6. CASE chunk * ChunkSize + ChunkSize < Len(plan[bundle])
  <2>1. chunk' = chunk + 1 /\ bundle' = bundle /\ overallIndex' = overallIndex
    BY <1>2, <1>6 DEF GoOn, RulesOf
  <2>2. Len(ChunkOf(plan, bundle, chunk)) = ChunkSize
    BY <1>2, <1>3, <1>6, NumberFacts
  <2>. QED
    BY <1>1, <1>2, <1>3, <1>5, <1>6, <2>1, <2>2, NumberFacts
<1>7. CASE ~(chunk * ChunkSize + ChunkSize < Len(plan[bundle]))
  <2>1. /\ chunk' = 0 /\ bundle' = bundle + 1
        /\ overallIndex' = overallIndex + Len(plan[bundle])
    BY <1>2, <1>7 DEF GoOn, RulesOf
  <2>. DEFINE first == chunk * ChunkSize
              n == Len(ChunkOf(plan, bundle, chunk))
  <2>2. n = Len(plan[bundle]) - first
    <3>1. /\ first \in Nat /\ first <= Len(plan[bundle]) /\ first + ChunkSize >= Len(plan[bundle])
          /\ n = IF Len(plan[bundle]) < first + ChunkSize
                 THEN Len(plan[bundle]) - first ELSE ChunkSize
      BY <1>1, <1>2, <1>3, <1>7, NumberFacts
    <3>. HIDE DEF first, n
    <3>. QED
      BY <1>3, <3>1, NumberFacts
  <2>3. chunk' * ChunkSize = 0
    BY <1>4, <2>1
  <2>4. bundle' \in 1 .. Len(plan) + 1 /\ chunk' \in Nat
    BY <1>1, <2>1
  <2>5. bundle' <= Len(plan) => chunk' * ChunkSize <= Len(plan[bundle'])
    <3>1. bundle' <= Len(plan) => Len(plan[bundle']) \in Nat
      BY <1>1, <2>1
    <3>. QED
      BY <2>3, <3>1
  <2>6. bundle \in DOMAIN plan /\ chunk * ChunkSize \in Nat
    BY <1>1, <1>2
  <2>. HIDE DEF first, n
  <2>. QED
    BY ONLY <1>5, <1>7, <2>1, <2>2, <2>3, <2>4, <2>5, <2>6, Zenon DEF first, n
<1>. QED
  BY <1>6, <1>7

LEMMA GoOnTypes ==
    ASSUME Types, Places, GoOn
    PROVE  Types'
<1>1. /\ bundle \in DOMAIN plan /\ bundle' \in 1 .. Len(plan) + 1 /\ chunk' \in Nat
      /\ bundle' <= Len(plan) => chunk' * ChunkSize <= Len(plan[bundle'])
      /\ overallIndex' = overallIndex \/ overallIndex' = overallIndex + Len(plan[bundle])
  BY GoOnFacts
<1>2. plan \in Seq(Seq(Rule)) /\ plan \in Plans
  BY PlanAssumption DEF Types, ProgressType
<1>. DEFINE n == Len(ChunkOf(plan, bundle, chunk))
            new == [i \in 1 .. n |-> Outcome(<<count, i>>)]
<1>3. done' \in Seq(Entry)
  <2>1. n \in Nat
    <3>1. chunk \in Nat /\ chunk * ChunkSize <= Len(plan[bundle])
      BY <1>1 DEF Places, Types, ProgressType
    <3>2. ChunkOf(plan, bundle, chunk) \in Seq(Rule)
      BY <1>1, <1>2, <3>1, ChunkFacts
    <3>. QED
      BY <3>2
  <2>2. new \in Seq(Entry)
    <3>1. \A i \in 1 .. n : Outcome(<<count, i>>) \in Entry
      BY <2>1, OutcomeType
    <3>. HIDE DEF n
    <3>. QED
      BY <2>1, <3>1
  <2>3. done' = done \o new
    BY GoOnFacts
  <2>. HIDE DEF new
  <2>. QED
    BY <2>2, <2>3 DEF Types, ProgressType
<1>4. ProgressType'
  <2>1. UNCHANGED <<count, reply, plan, stamp>>
    BY DEF GoOn
  <2>2. Len(plan[bundle]) \in Nat
    BY <1>1, <1>2
  <2>3. overallIndex' \in Nat
    BY <1>1, <2>2 DEF Types, ProgressType
  <2>. QED
    BY <1>1, <1>3, <2>1, <2>3 DEF Types, ProgressType
<1>. DEFINE rules == IF bundle' <= Len(plan) THEN ChunkOf(plan, bundle', chunk') ELSE <<>>
            opened == Opened(count, rules, Text(stamp, bundle'))
<1>5. rules \in Seq(Rule)
  <2>1. CASE bundle' <= Len(plan)
    <3>1. bundle' \in DOMAIN plan
      BY <1>1, <1>2, <2>1
    <3>. QED
      BY <1>1, <1>2, <2>1, <3>1, ChunkFacts
  <2>2. CASE ~(bundle' <= Len(plan))
    BY <2>2
  <2>. QED
    BY <2>1, <2>2
<1>6. slots' = opened
  BY DEF GoOn
<1>. HIDE DEF rules
<1>7. Text(stamp, bundle') \in Nat \X Nat
  BY <1>1, NumberFacts DEF Types, ProgressType, Text
<1>8. /\ opened \in [Rows -> Slot \cup {NoSlot}]
      /\ \A r \in Rows : r[1] # count => opened[r] = slots[r]
      /\ \A r \in Rows : r[1] = count /\ opened[r] # NoSlot => opened[r].waits = Unawaited
  BY <1>5, <1>7, OpenedFacts, BegunFacts DEF Types
<1>. HIDE DEF opened
<1>9. SlotsType' /\ WaitIn(slots, promises)'
  BY <1>6, <1>8 DEF SlotsType, WaitIn, Types, GoOn
<1>10. KeptType' /\ GoodIn(memo, promises)'
  BY DEF Types, KeptType, GoOn, GoodIn, PromisesOK, history
<1>. QED
  BY <1>4, <1>9, <1>10 DEF Types

LEMMA AnswerTypes ==
    ASSUME Types, Answer
    PROVE  Types'
<1>1. ProgressType'
  BY DEF Answer, invocation, Types, ProgressType
<1>2. SlotsType' /\ WaitIn(slots, promises)'
  BY DEF Answer, Types, SlotsType, WaitIn
<1>3. KeptType' /\ GoodIn(memo, promises)'
  BY DEF Answer, history, Types, KeptType, PromisesOK, GoodIn
<1>. QED
  BY <1>1, <1>2, <1>3 DEF Types

LEMMA RefuseTypes ==
    ASSUME Types, Refuse
    PROVE  Types'
<1>1. ProgressType'
  BY DEF Refuse, invocation, Types, ProgressType
<1>2. SlotsType' /\ WaitIn(slots, promises)'
  BY DEF Refuse, Types, SlotsType, WaitIn
<1>3. KeptType' /\ GoodIn(memo, promises)'
  BY DEF Refuse, history, Types, KeptType, PromisesOK, GoodIn
<1>. QED
  BY <1>1, <1>2, <1>3 DEF Types

\* What a rule asks for is the promise that is kept for its key, or a new one.
LEMMA AskFacts ==
    ASSUME Types, NEW r \in Rows, Ask(r)
    PROVE  \E k \in Keys, n \in Nat \ {0} :
             /\ slots[r] \in Slot /\ Target(r) \in Objects /\ k.object = Target(r)
             /\ slots' = [slots EXCEPT ![r].waits = <<k, n>>]
             /\ \/ k \in DOMAIN memo /\ n = memo[k] /\ UNCHANGED <<promises, memo>>
                \/ /\ <<k, n>> \notin DOMAIN promises
                   /\ memo' = With(memo, k, n)
                   /\ promises' = With(promises, <<k, n>>,
                         [status |-> "sent", attempts |-> 0, paid |-> 0, asks |-> Target(r)])
<1>. DEFINE k == Key(slots[r].text, Target(r), slots[r].stage)
            n == IF k \in DOMAIN memo THEN memo[k] ELSE Fresh(k)
<1>1. slots[r] \in Slot
  BY DEF Ask, Unsettled, Types, SlotsType
<1>2. Target(r) \in Objects
  BY <1>1 DEF Target, Slot, Rule
<1>3. k \in Keys /\ k.object = Target(r)
  BY <1>1, <1>2 DEF Key, Keys, Slot
<1>4. /\ slots' = [slots EXCEPT ![r].waits = <<k, n>>]
      /\ IF k \in DOMAIN memo
         THEN UNCHANGED <<promises, memo>>
         ELSE /\ memo' = With(memo, k, n)
              /\ promises' = With(promises, <<k, n>>,
                    [status |-> "sent", attempts |-> 0, paid |-> 0, asks |-> Target(r)])
  BY DEF Ask
<1>. HIDE DEF k
<1>5. CASE k \in DOMAIN memo
  <2>1. n = memo[k] /\ n \in Nat \ {0}
    BY <1>5 DEF Types, KeptType
  <2>. QED
    BY <1>1, <1>2, <1>3, <1>4, <1>5, <2>1
<1>6. CASE k \notin DOMAIN memo
  <2>1. n = Fresh(k)
    BY <1>6
  <2>2. IsFiniteSet(DOMAIN promises)
    BY DEF Types, KeptType, PromisesOK
  <2>3. n \in Nat \ {0} /\ <<k, n>> \notin DOMAIN promises
    BY <2>1, <2>2, FreshFacts
  <2>. HIDE DEF n
  <2>. QED
    BY <1>1, <1>2, <1>3, <1>4, <1>6, <2>3
<1>. QED
  BY <1>5, <1>6

LEMMA AskTypes ==
    ASSUME Types, NEW r \in Rows, Ask(r)
    PROVE  Types'
<1>1. PICK k \in Keys, n \in Nat \ {0} :
             /\ slots[r] \in Slot /\ Target(r) \in Objects /\ k.object = Target(r)
             /\ slots' = [slots EXCEPT ![r].waits = <<k, n>>]
             /\ \/ k \in DOMAIN memo /\ n = memo[k] /\ UNCHANGED <<promises, memo>>
                \/ /\ <<k, n>> \notin DOMAIN promises
                   /\ memo' = With(memo, k, n)
                   /\ promises' = With(promises, <<k, n>>,
                         [status |-> "sent", attempts |-> 0, paid |-> 0, asks |-> Target(r)])
  BY AskFacts
<1>2. ProgressType'
  BY DEF Ask, invocation, Types, ProgressType
<1>3. <<k, n>> \in Ids
  BY DEF Ids
<1>4. [slots[r] EXCEPT !.waits = <<k, n>>] \in Slot
  BY <1>1, <1>3 DEF Slot
<1>5. SlotsType'
  BY <1>1, <1>4 DEF Types, SlotsType
<1>6. /\ \A q \in Rows \ {r} : slots'[q] = slots[q]
      /\ slots'[r] = [slots[r] EXCEPT !.waits = <<k, n>>]
  BY <1>1 DEF Types, SlotsType
<1>7. slots'[r].waits = <<k, n>>
  BY <1>1, <1>6 DEF Slot
<1>8. UNCHANGED <<quota, failures, doomed>>
  BY DEF Ask, history
<1>9. CASE k \in DOMAIN memo /\ n = memo[k] /\ UNCHANGED <<promises, memo>>
  <2>1. KeptType' /\ GoodIn(memo, promises)'
    BY <1>8, <1>9 DEF Types, KeptType, PromisesOK, GoodIn
  <2>2. <<k, n>> \in DOMAIN promises
    BY <1>9 DEF Types, GoodIn
  <2>3. WaitIn(slots, promises)'
    BY <1>6, <1>7, <1>9, <2>2 DEF Types, WaitIn
  <2>. QED
    BY <1>2, <1>5, <2>1, <2>3 DEF Types
<1>10. CASE /\ <<k, n>> \notin DOMAIN promises
            /\ memo' = With(memo, k, n)
            /\ promises' = With(promises, <<k, n>>,
                  [status |-> "sent", attempts |-> 0, paid |-> 0, asks |-> Target(r)])
  <2>. DEFINE new == [status |-> "sent", attempts |-> 0, paid |-> 0, asks |-> Target(r)]
  <2>1. /\ DOMAIN promises' = DOMAIN promises \cup {<<k, n>>}
        /\ promises'[<<k, n>>] = new
        /\ \A p \in DOMAIN promises \ {<<k, n>>} : promises'[p] = promises[p]
    BY <1>10 DEF With
  <2>2. /\ DOMAIN memo' = DOMAIN memo \cup {k}
        /\ memo'[k] = n
        /\ \A j \in DOMAIN memo \ {k} : memo'[j] = memo[j]
    BY <1>10 DEF With
  <2>3. new \in Promise
    BY <1>1 DEF Promise
  <2>4. promises' = [p \in DOMAIN promises' |-> promises'[p]]
    BY <1>10 DEF With
  <2>5. PromisesOK(promises')
    <3>1. IsFiniteSet(DOMAIN promises')
      <4>1. IsFiniteSet(DOMAIN promises)
        BY DEF Types, KeptType, PromisesOK
      <4>2. IsFiniteSet(DOMAIN promises \cup {<<k, n>>})
        BY <4>1, FS_AddElement
      <4>. QED
        BY <2>1, <4>2
    <3>2. \A p \in DOMAIN promises' : promises'[p] \in Promise
      BY <2>1, <2>3 DEF Types, KeptType, PromisesOK
    <3>. QED
      BY <1>3, <2>1, <2>4, <3>1, <3>2 DEF Types, KeptType, PromisesOK
  <2>6. memo' \in [DOMAIN memo' -> Nat \ {0}] /\ DOMAIN memo' \subseteq Keys
    <3>1. memo' = [j \in DOMAIN memo' |-> memo'[j]]
      BY <1>10 DEF With
    <3>. QED
      BY <2>2, <3>1 DEF Types, KeptType
  <2>7. KeptType'
    BY <1>8, <2>5, <2>6 DEF Types, KeptType, PromisesOK
  <2>8. GoodIn(memo', promises')
    <3>. SUFFICES ASSUME NEW j \in DOMAIN memo'
                  PROVE  /\ <<j, memo'[j]>> \in DOMAIN promises'
                         /\ promises'[<<j, memo'[j]>>].status # "broken"
      BY DEF GoodIn
    <3>1. CASE j = k
      BY <2>1, <2>2, <3>1, NumberFacts
    <3>2. CASE j # k
      <4>1. j \in DOMAIN memo /\ memo'[j] = memo[j] /\ <<j, memo[j]>> # <<k, n>>
        BY <2>2, <3>2
      <4>2. promises'[<<j, memo[j]>>] = promises[<<j, memo[j]>>]
        BY <2>1, <4>1 DEF Types, GoodIn
      <4>. QED
        BY <2>1, <4>1, <4>2 DEF Types, GoodIn
    <3>. QED
      BY <3>1, <3>2
  <2>9. WaitIn(slots', promises')
    BY <1>6, <1>7, <2>1 DEF Types, WaitIn
  <2>. QED
    BY <1>2, <1>5, <2>7, <2>8, <2>9 DEF Types, GoodIn, WaitIn
<1>. QED
  BY <1>1, <1>9, <1>10

LEMMA TakeTypes ==
    ASSUME Types, NEW r \in Rows, Take(r)
    PROVE  Types'
<1>1. PICK new \in Slot \cup {NoSlot} :
         /\ slots' = [slots EXCEPT ![r] = new]
         /\ new # NoSlot => new.waits = Unawaited
  BY TakeFacts
<1>2. ProgressType'
  BY DEF Take, invocation, Types, ProgressType
<1>3. SlotsType'
  BY <1>1 DEF Types, SlotsType
<1>4. WaitIn(slots', promises)
  BY <1>1 DEF Types, SlotsType, WaitIn
<1>5. promises' = Swept(promises, memo, slots')
  BY DEF Take
<1>6. PromisesOK(promises') /\ GoodIn(memo, promises') /\ WaitIn(slots', promises')
  BY <1>4, <1>5, SweepKeeps DEF Types, KeptType
<1>7. UNCHANGED <<memo, quota, failures, doomed>>
  BY DEF Take, history
<1>8. KeptType'
  BY <1>6, <1>7 DEF Types, KeptType, PromisesOK
<1>. QED
  BY <1>2, <1>3, <1>6, <1>7, <1>8 DEF Types, GoodIn, WaitIn

LEMMA PageFacts ==
    ASSUME Types, NEW p, Page(p)
    PROVE  /\ p \in DOMAIN promises /\ DOMAIN promises' = DOMAIN promises
           /\ \A q \in DOMAIN promises \ {p} : promises'[q] = promises[q]
           /\ promises'[p] \in Promise /\ promises'[p].status # "broken"
           /\ promises'[p].asks = promises[p].asks /\ promises'[p].attempts = 0
           /\ promises' \in [DOMAIN promises -> Promise]
           /\ quota' \in 0 .. Capacity /\ quota' >= quota
<1>1. p \in DOMAIN promises /\ promises[p] \in Promise /\ promises[p].status = "sent"
  BY DEF Page, Sent, Types, KeptType, PromisesOK
<1>. DEFINE new == IF More(promises[p].asks)
                   THEN [promises[p] EXCEPT !.attempts = 0, !.paid = 0]
                   ELSE [promises[p] EXCEPT !.status = "kept", !.attempts = 0, !.paid = 0]
<1>2. promises' = [promises EXCEPT ![p] = new]
  BY DEF Page
<1>3. new \in Promise /\ new.status # "broken" /\ new.asks = promises[p].asks /\ new.attempts = 0
  BY <1>1 DEF Promise
<1>. HIDE DEF new
<1>4. /\ DOMAIN promises' = DOMAIN promises
      /\ \A q \in DOMAIN promises \ {p} : promises'[q] = promises[q]
      /\ promises'[p] = new
      /\ promises' \in [DOMAIN promises -> Promise]
  BY <1>1, <1>2, <1>3 DEF Types, KeptType, PromisesOK
<1>5. promises[p].paid \in Nat /\ quota \in 0 .. Capacity /\ quota' = Release(promises[p].paid)
  BY <1>1 DEF Promise, Types, KeptType, Page
<1>6. quota' \in 0 .. Capacity /\ quota' >= quota
  BY <1>5, NumberFacts DEF Release
<1>. QED
  BY <1>1, <1>3, <1>4, <1>6

LEMMA PageTypes ==
    ASSUME Types, NEW p, Page(p)
    PROVE  Types'
<1>1. ProgressType'
  BY DEF Page, invocation, Types, ProgressType
<1>2. UNCHANGED <<slots, memo, failures, doomed>>
  BY DEF Page, history
<1>3. SlotsType'
  BY <1>2 DEF Types, SlotsType
<1>4. PromisesOK(promises')
  BY PageFacts DEF Types, KeptType, PromisesOK
<1>5. KeptType'
  BY <1>2, <1>4, PageFacts DEF Types, KeptType, PromisesOK
<1>6. GoodIn(memo, promises')
  BY PageFacts DEF Types, GoodIn
<1>7. WaitIn(slots, promises')
  BY PageFacts DEF Types, WaitIn
<1>. QED
  BY <1>1, <1>2, <1>3, <1>5, <1>6, <1>7 DEF Types, GoodIn, WaitIn

\* A failure that may be retried is, for tokens, or it breaks the promise.
LEMMA TroubleFacts ==
    ASSUME Types, NEW p, NEW cost \in {1, TimeoutCost}, Trouble(p, cost)
    PROVE  /\ failures \in 0 .. MaxAttempts
           /\ failures' = IF failures < MaxAttempts THEN failures + 1 ELSE failures
           /\ cost \in 1 .. TimeoutCost
           /\ \/ /\ promises[p].attempts + 1 < MaxAttempts /\ cost <= quota
                 /\ p \in DOMAIN promises /\ DOMAIN promises' = DOMAIN promises
                 /\ \A q \in DOMAIN promises \ {p} : promises'[q] = promises[q]
                 /\ promises'[p] \in Promise /\ promises'[p].status = "sent"
                 /\ promises'[p].asks = promises[p].asks
                 /\ promises'[p].attempts = promises[p].attempts + 1
                 /\ promises' \in [DOMAIN promises -> Promise]
                 /\ quota' = quota - cost /\ memo' = memo
              \/ /\ promises[p].attempts + 1 >= MaxAttempts \/ cost > quota
                 /\ Broken(p) /\ quota' = quota
<1>1. p \in DOMAIN promises /\ promises[p] \in Promise /\ promises[p].status = "sent"
  BY DEF Trouble, Sent, Types, KeptType, PromisesOK
<1>2. /\ failures \in 0 .. MaxAttempts
      /\ failures' = IF failures < MaxAttempts THEN failures + 1 ELSE failures
      /\ cost \in 1 .. TimeoutCost
  BY NumberFacts DEF Trouble, Types, KeptType
<1>3. promises[p].attempts \in Nat /\ quota \in 0 .. Capacity
  BY <1>1 DEF Promise, Types, KeptType
<1>4. CASE promises[p].attempts + 1 < MaxAttempts /\ cost <= quota
  <2>. DEFINE new == [promises[p] EXCEPT !.attempts = promises[p].attempts + 1, !.paid = cost]
  <2>1. /\ promises' = [promises EXCEPT ![p] = new]
        /\ quota' = quota - cost /\ memo' = memo
    BY <1>1, <1>4 DEF Trouble, HasTokens, Types, KeptType, PromisesOK
  <2>2. /\ new \in Promise /\ new.status = "sent" /\ new.asks = promises[p].asks
        /\ new.attempts = promises[p].attempts + 1
    <3>1. cost \in Nat /\ promises[p].attempts + 1 \in Nat
      BY <1>2, <1>3, NumberFacts
    <3>. QED
      BY <1>1, <3>1 DEF Promise
  <2>. HIDE DEF new
  <2>3. /\ DOMAIN promises' = DOMAIN promises
        /\ \A q \in DOMAIN promises \ {p} : promises'[q] = promises[q]
        /\ promises'[p] = new
        /\ promises' \in [DOMAIN promises -> Promise]
    BY <1>1, <2>1, <2>2 DEF Types, KeptType, PromisesOK
  <2>. QED
    BY <1>1, <1>2, <1>4, <2>1, <2>2, <2>3
<1>5. CASE ~(promises[p].attempts + 1 < MaxAttempts /\ cost <= quota)
  <2>1. Broken(p) /\ quota' = quota
    BY <1>5 DEF Trouble, HasTokens
  <2>. QED
    BY <1>2, <1>3, <1>5, <2>1, NumberFacts
<1>. QED
  BY <1>4, <1>5

LEMMA TroubleTypes ==
    ASSUME Types, NEW p, NEW cost \in {1, TimeoutCost}, Trouble(p, cost)
    PROVE  Types'
<1>1. ProgressType'
  BY DEF Trouble, invocation, Types, ProgressType
<1>2. UNCHANGED <<slots, doomed>> /\ Sent(p)
  BY DEF Trouble
<1>3. SlotsType'
  BY <1>2 DEF Types, SlotsType
<1>4. failures' \in 0 .. MaxAttempts /\ quota' \in 0 .. Capacity
  <2>1. quota \in 0 .. Capacity
    BY DEF Types, KeptType
  <2>2. quota' = quota \/ (cost <= quota /\ quota' = quota - cost)
    BY TroubleFacts
  <2>. QED
    BY <2>1, <2>2, TroubleFacts, NumberFacts
<1>5. CASE Broken(p)
  <2>1. /\ memo' \in [DOMAIN memo' -> Nat \ {0}] /\ DOMAIN memo' \subseteq Keys
        /\ PromisesOK(promises') /\ GoodIn(memo', promises') /\ WaitIn(slots, promises')
    BY <1>2, <1>5, BrokenFacts
  <2>2. KeptType'
    BY <1>2, <1>4, <2>1 DEF Types, KeptType, PromisesOK
  <2>. QED
    BY <1>1, <1>2, <1>3, <2>1, <2>2 DEF Types, GoodIn, WaitIn
<1>6. CASE ~Broken(p)
  <2>1. /\ p \in DOMAIN promises /\ DOMAIN promises' = DOMAIN promises
        /\ \A q \in DOMAIN promises \ {p} : promises'[q] = promises[q]
        /\ promises'[p].status = "sent" /\ promises'[p].asks = promises[p].asks
        /\ promises' \in [DOMAIN promises -> Promise]
        /\ memo' = memo
    BY <1>6, TroubleFacts
  <2>2. PromisesOK(promises')
    BY <2>1 DEF Types, KeptType, PromisesOK
  <2>3. KeptType'
    BY <1>2, <1>4, <2>1, <2>2 DEF Types, KeptType, PromisesOK
  <2>4. GoodIn(memo, promises')
    BY <2>1 DEF Types, GoodIn
  <2>5. WaitIn(slots, promises')
    BY <2>1 DEF Types, WaitIn
  <2>. QED
    BY <1>1, <1>2, <1>3, <2>1, <2>3, <2>4, <2>5 DEF Types, GoodIn, WaitIn
<1>. QED
  BY <1>5, <1>6

LEMMA FailForGoodTypes ==
    ASSUME Types, NEW p, FailForGood(p)
    PROVE  Types'
<1>1. ProgressType'
  BY DEF FailForGood, invocation, Types, ProgressType
<1>2. UNCHANGED <<slots, quota, failures>> /\ Sent(p) /\ Broken(p)
  BY DEF FailForGood
<1>3. doomed' \in BOOLEAN
  BY DEF FailForGood
<1>4. SlotsType'
  BY <1>2 DEF Types, SlotsType
<1>5. /\ memo' \in [DOMAIN memo' -> Nat \ {0}] /\ DOMAIN memo' \subseteq Keys
      /\ PromisesOK(promises') /\ GoodIn(memo', promises') /\ WaitIn(slots, promises')
  BY <1>2, BrokenFacts
<1>6. KeptType'
  BY <1>2, <1>3, <1>5 DEF Types, KeptType, PromisesOK
<1>. QED
  BY <1>1, <1>2, <1>4, <1>5, <1>6 DEF Types, GoodIn, WaitIn

LEMMA ExpireTypes ==
    ASSUME Types, NEW k, Expire(k)
    PROVE  Types'
<1>1. ProgressType'
  BY DEF Expire, invocation, Types, ProgressType
<1>2. UNCHANGED <<slots, quota, failures, doomed>>
  BY DEF Expire, history
<1>3. SlotsType'
  BY <1>2 DEF Types, SlotsType
<1>4. memo' = Without(memo, {k})
  BY DEF Expire
<1>5. /\ DOMAIN memo' = DOMAIN memo \ {k}
      /\ \A j \in DOMAIN memo' : memo'[j] = memo[j]
      /\ memo' \in [DOMAIN memo' -> Nat \ {0}]
  BY <1>4 DEF Without, Types, KeptType
<1>6. GoodIn(memo', promises)
  BY <1>5 DEF Types, GoodIn
<1>7. PromisesOK(promises') /\ GoodIn(memo', promises') /\ WaitIn(slots, promises')
  <2>1. promises' = Swept(promises, memo', slots)
    BY DEF Expire
  <2>2. PromisesOK(promises) /\ WaitIn(slots, promises)
    BY DEF Types, KeptType
  <2>. QED
    BY <1>6, <2>1, <2>2, SweepKeeps
<1>8. KeptType'
  BY <1>2, <1>5, <1>7 DEF Types, KeptType, PromisesOK
<1>. QED
  BY <1>1, <1>2, <1>3, <1>7, <1>8 DEF Types, GoodIn, WaitIn

LEMMA RecycleTypes ==
    ASSUME Types, Recycle
    PROVE  Types'
<1>1. plan \in Seq(Seq(Rule)) /\ plan # <<>> /\ plan' = plan
  BY PlanAssumption DEF Recycle, Types, ProgressType
<1>2. ProgressType'
  BY <1>1, NumberFacts DEF Recycle, Types, ProgressType
<1>3. SlotsType' /\ WaitIn(slots', promises')
  BY DEF Recycle, SlotsType, Idle, WaitIn
<1>4. DOMAIN promises' = {} /\ DOMAIN memo' = {}
  BY DEF Recycle, Nothing
<1>5. IsFiniteSet(DOMAIN promises')
  BY <1>4, FS_EmptySet
<1>6. /\ promises' \in [DOMAIN promises' -> Promise]
      /\ memo' \in [DOMAIN memo' -> Nat \ {0}]
  BY <1>4 DEF Recycle, Nothing
<1>7. KeptType'
  <2>1. DOMAIN promises' \subseteq Ids /\ DOMAIN memo' \subseteq Keys
    BY <1>4, Zenon
  <2>2. quota' = Capacity /\ failures' = 0 /\ doomed' \in BOOLEAN
    BY DEF Recycle
  <2>3. quota' \in 0 .. Capacity /\ failures' \in 0 .. MaxAttempts
    BY <2>2, NumberFacts
  <2>. QED
    BY <1>5, <1>6, <2>1, <2>2, <2>3, Zenon DEF KeptType, PromisesOK
<1>8. GoodIn(memo', promises')
  BY <1>4 DEF GoodIn
<1>. QED
  BY <1>2, <1>3, <1>7, <1>8 DEF Types, GoodIn, WaitIn

LEMMA StutterTypes ==
    ASSUME Types, UNCHANGED vars
    PROVE  Types'
<1>1. ProgressType'
  BY DEF vars, Types, ProgressType
<1>2. SlotsType' /\ WaitIn(slots, promises)'
  BY DEF vars, Types, SlotsType, WaitIn
<1>3. KeptType' /\ GoodIn(memo, promises)'
  BY DEF vars, Types, KeptType, PromisesOK, GoodIn
<1>. QED
  BY <1>1, <1>2, <1>3 DEF Types

LEMMA NextTypes ==
    ASSUME Types, Places, [Next]_vars
    PROVE  Types'
<1>1. ASSUME NEW changed \in BOOLEAN, Invoke(changed) PROVE Types'
  BY <1>1, InvokeTypes
<1>2. CASE GoOn
  BY <1>2, GoOnTypes
<1>3. CASE Answer
  BY <1>3, AnswerTypes
<1>4. CASE Refuse
  BY <1>4, RefuseTypes
<1>5. ASSUME NEW r \in Rows, Ask(r) \/ Take(r) PROVE Types'
  BY <1>5, AskTypes, TakeTypes
<1>6. ASSUME NEW p, Attempt(p) PROVE Types'
  BY <1>6, PageTypes, TroubleTypes, FailForGoodTypes DEF Attempt
<1>7. ASSUME NEW k, Expire(k) PROVE Types'
  BY <1>7, ExpireTypes
<1>8. CASE Recycle
  BY <1>8, RecycleTypes
<1>9. CASE UNCHANGED vars
  BY <1>9, StutterTypes
<1>. QED
  BY <1>1, <1>2, <1>3, <1>4, <1>5, <1>6, <1>7, <1>8, <1>9 DEF Next

-----------------------------------------------------------------------------
(* Places.                                                                 *)

LEMMA InitPlaces == Init => Places
<1>. SUFFICES ASSUME Init PROVE Places
  OBVIOUS
<1>1. /\ plan \in Seq(Seq(Rule)) /\ plan # <<>>
      /\ bundle = 1 /\ chunk = 0 /\ overallIndex = 0 /\ done = <<>> /\ reply = "none"
  BY PlanAssumption DEF Init
<1>2. 1 \in DOMAIN plan /\ plan[1] \in Seq(Rule) /\ Len(plan[1]) \in Nat
  BY <1>1
<1>3. chunk * ChunkSize = 0
  BY <1>1, NumberFacts
<1>4. DOMAIN done = {} /\ Len(done) = 0
  BY <1>1
<1>5. \A b \in DOMAIN plan : \A k \in DOMAIN plan[b] : ~Past(b, k)
  BY <1>1, <1>3 DEF Past
<1>. QED
  BY <1>1, <1>2, <1>3, <1>4, <1>5 DEF Places

LEMMA RestartPlaces ==
    ASSUME Types, UNCHANGED plan, reply' = "none",
           bundle' = 1, chunk' = 0, overallIndex' = 0, done' = <<>>
    PROVE  Places'
<1>1. plan' \in Seq(Seq(Rule)) /\ plan' # <<>>
  BY PlanAssumption DEF Types, ProgressType
<1>2. 1 \in DOMAIN plan' /\ plan'[1] \in Seq(Rule) /\ Len(plan'[1]) \in Nat
  BY <1>1
<1>3. chunk' * ChunkSize = 0
  BY NumberFacts
<1>4. DOMAIN done' = {} /\ Len(done') = 0
  OBVIOUS
<1>5. \A b \in DOMAIN plan' : \A k \in DOMAIN plan'[b] : ~Past(b, k)'
  BY <1>1, <1>3 DEF Past
<1>. QED
  BY <1>1, <1>2, <1>3, <1>4, <1>5 DEF Places

LEMMA ConcatFacts ==
    ASSUME NEW S, NEW s \in Seq(S), NEW t \in Seq(S)
    PROVE  /\ Len(s \o t) = Len(s) + Len(t)
           /\ \A i \in DOMAIN s : (s \o t)[i] = s[i]
           /\ \A i \in 1 .. Len(t) : (s \o t)[Len(s) + i] = t[i]
OBVIOUS

LEMMA GoOnPlaces ==
    ASSUME Types, Places, GoOn
    PROVE  Places'
<1>. DEFINE first == chunk * ChunkSize
            first1 == chunk' * ChunkSize
            n == Len(ChunkOf(plan, bundle, chunk))
            size == Len(plan[bundle])
            new == [i \in 1 .. n |-> Outcome(<<count, i>>)]
            Past1(b, k) == b < bundle' \/ (b = bundle' /\ k <= first1)
<1>1. /\ bundle \in DOMAIN plan /\ bundle \in Nat /\ first \in Nat /\ size \in Nat /\ first <= size
      /\ overallIndex \in Nat /\ Len(done) = overallIndex + first /\ done \in Seq(Entry)
      /\ \A b \in DOMAIN plan : plan[b] \in Seq(Rule)
      /\ DOMAIN plan = 1 .. Len(plan) /\ Len(plan) \in Nat
  <2>1. plan \in Seq(Seq(Rule)) /\ bundle \in DOMAIN plan /\ first \in Nat
    BY GoOnFacts, PlanAssumption DEF Types, ProgressType
  <2>2. overallIndex \in Nat /\ Len(done) = overallIndex + first /\ done \in Seq(Entry)
    BY DEF Types, ProgressType, Places
  <2>3. bundle \in Nat /\ plan[bundle] \in Seq(Rule) /\ size \in Nat
    BY <2>1
  <2>4. first <= size
    BY <2>1 DEF Places
  <2>5. /\ \A b \in DOMAIN plan : plan[b] \in Seq(Rule)
        /\ DOMAIN plan = 1 .. Len(plan) /\ Len(plan) \in Nat
    BY <2>1
  <2>. QED
    BY <2>1, <2>2, <2>3, <2>4, <2>5
<1>2. /\ n = IF first + ChunkSize < size THEN ChunkSize ELSE size - first
      /\ done' = done \o new
      /\ IF first + ChunkSize < size
         THEN bundle' = bundle /\ overallIndex' = overallIndex /\ first1 = first + ChunkSize
         ELSE /\ bundle' = bundle + 1 /\ overallIndex' = overallIndex + size
              /\ chunk' = 0 /\ first1 = 0
      /\ bundle' \in 1 .. Len(plan) + 1
      /\ bundle' <= Len(plan) => first1 <= Len(plan[bundle'])
  BY GoOnFacts
<1>3. UNCHANGED <<plan, reply>> /\ reply = "none"
  BY DEF GoOn, Running
<1>4. \A i \in Nat \ {0} :
         /\ Outcome(<<count, i>>) \in Entry
         /\ Outcome(<<count, i>>).of = <<bundle, first + i>>
         /\ Outcome(<<count, i>>).sid \in {0, overallIndex + first + i}
  BY OutcomeType
<1>5. \A b, k : Past(b, k) <=> b < bundle \/ (b = bundle /\ k <= first)
  BY DEF Past
<1>6. \A b, k : Past(b, k)' <=> Past1(b, k)
  BY DEF Past
<1>. HIDE DEF first, first1, n, size
<1>7. n \in Nat
  BY <1>1, <1>2, NumberFacts
<1>8. new \in Seq(Entry) /\ Len(new) = n
  BY <1>4, <1>7
<1>9. /\ Len(done') = Len(done) + n
      /\ \A i \in DOMAIN done : done'[i] = done[i]
      /\ \A i \in 1 .. n : done'[Len(done) + i] = Outcome(<<count, i>>)
  <2>1. \A i \in 1 .. n : new[i] = Outcome(<<count, i>>)
    OBVIOUS
  <2>. HIDE DEF new
  <2>2. /\ Len(done \o new) = Len(done) + Len(new)
        /\ \A i \in DOMAIN done : (done \o new)[i] = done[i]
        /\ \A i \in 1 .. Len(new) : (done \o new)[Len(done) + i] = new[i]
    <3>1. done \in Seq(Entry) /\ new \in Seq(Entry)
      BY <1>1, <1>8
    <3>. QED
      BY ONLY <3>1, ConcatFacts
  <2>. QED
    BY <1>2, <1>8, <2>1, <2>2
<1>10. DOMAIN done = 1 .. Len(done) /\ DOMAIN done' = 1 .. Len(done) + n /\ Len(done) \in Nat
  BY <1>1, <1>2, <1>7, <1>8, <1>9
<1>. HIDE DEF new
<1>11. \A i \in DOMAIN done' :
          \/ i \in DOMAIN done /\ done'[i] = done[i]
          \/ \E m \in 1 .. n :
                /\ i = Len(done) + m
                /\ done'[i].of = <<bundle, first + m>> /\ done'[i].sid \in {0, i}
  <2>. SUFFICES ASSUME NEW i \in DOMAIN done', i \notin DOMAIN done
                PROVE  \E m \in 1 .. n :
                          /\ i = Len(done) + m
                          /\ done'[i].of = <<bundle, first + m>> /\ done'[i].sid \in {0, i}
    BY <1>9
  <2>1. i - Len(done) \in 1 .. n /\ i = Len(done) + (i - Len(done))
    BY <1>7, <1>10
  <2>. DEFINE m == i - Len(done)
  <2>2. done'[i] = Outcome(<<count, m>>)
    BY <1>9, <2>1
  <2>3. m \in Nat \ {0} /\ overallIndex + first + m = i
    BY <1>1, <1>7, <1>10, <2>1
  <2>4. done'[i].of = <<bundle, first + m>> /\ done'[i].sid \in {0, i}
    BY <1>4, <2>2, <2>3
  <2>. QED
    BY <2>1, <2>4
<1>12. \A i \in DOMAIN done : done[i] \in Entry
  BY <1>1
<1>13. \A b \in Nat, k \in Nat : Past(b, k) => Past1(b, k)
  <2>. SUFFICES ASSUME NEW b \in Nat, NEW k \in Nat, Past(b, k) PROVE Past1(b, k)
    OBVIOUS
  <2>1. b < bundle \/ (b = bundle /\ k <= first)
    BY <1>5
  <2>2. \/ bundle' = bundle /\ first1 = first + ChunkSize
        \/ bundle' = bundle + 1
    BY <1>2
  <2>. QED
    BY <1>1, <2>1, <2>2, NumberFacts
<1>14. \A m \in 1 .. n : Past1(bundle, first + m) /\ ~Past(bundle, first + m)
  <2>. SUFFICES ASSUME NEW m \in 1 .. n
                PROVE  Past1(bundle, first + m) /\ ~Past(bundle, first + m)
    OBVIOUS
  <2>1. ~Past(bundle, first + m)
    BY <1>1, <1>5, <1>7
  <2>2. \/ bundle' = bundle /\ first1 = first + ChunkSize /\ n = ChunkSize
        \/ bundle' = bundle + 1
    BY <1>2
  <2>3. Past1(bundle, first + m)
    BY <1>1, <1>7, <2>2, NumberFacts
  <2>. QED
    BY <2>1, <2>3
<1>15. \A b \in DOMAIN plan : \A k \in DOMAIN plan[b] :
          Past1(b, k) => Past(b, k) \/ (b = bundle /\ k - first \in 1 .. n)
  <2>. SUFFICES ASSUME NEW b \in DOMAIN plan, NEW k \in DOMAIN plan[b], Past1(b, k), ~Past(b, k)
                PROVE  b = bundle /\ k - first \in 1 .. n
    OBVIOUS
  <2>1. b \in Nat /\ k \in Nat \ {0} /\ k <= Len(plan[b])
    BY <1>1
  <2>2. ~(b < bundle) /\ (b = bundle => k > first)
    BY <1>1, <1>5, <2>1
  <2>3. b < bundle' \/ (b = bundle' /\ k <= first1)
    OBVIOUS
  <2>4. CASE first + ChunkSize < size
    <3>1. bundle' = bundle /\ first1 = first + ChunkSize /\ n = ChunkSize
      BY <1>2, <2>4
    <3>. QED
      BY ONLY <1>1, <2>1, <2>2, <2>3, <3>1, NumberFacts
  <2>5. CASE ~(first + ChunkSize < size)
    <3>1. bundle' = bundle + 1 /\ first1 = 0 /\ n = size - first
      BY <1>2, <2>5
    <3>2. b = bundle
      BY ONLY <1>1, <2>1, <2>2, <2>3, <3>1
    <3>3. k <= size
      BY <2>1, <3>2 DEF size
    <3>. QED
      BY ONLY <1>1, <2>1, <2>2, <3>1, <3>2, <3>3
  <2>. QED
    BY <2>4, <2>5
<1>16. \A i \in DOMAIN done' : done'[i].sid \in {0, i} /\ Past1(done'[i].of[1], done'[i].of[2])
  <2>. SUFFICES ASSUME NEW i \in DOMAIN done'
                PROVE  done'[i].sid \in {0, i} /\ Past1(done'[i].of[1], done'[i].of[2])
    OBVIOUS
  <2>1. CASE i \in DOMAIN done /\ done'[i] = done[i]
    BY <1>12, <1>13, <2>1 DEF Places, Entry
  <2>2. ASSUME NEW m \in 1 .. n, done'[i].of = <<bundle, first + m>>, done'[i].sid \in {0, i}
        PROVE  done'[i].sid \in {0, i} /\ Past1(done'[i].of[1], done'[i].of[2])
    BY <1>14, <2>2
  <2>. QED
    BY <1>11, <2>1, <2>2
<1>17. \A i, j \in DOMAIN done' : i < j => Before(done'[i].of, done'[j].of)
  <2>. SUFFICES ASSUME NEW i \in DOMAIN done', NEW j \in DOMAIN done', i < j
                PROVE  Before(done'[i].of, done'[j].of)
    OBVIOUS
  <2>1. CASE j \in DOMAIN done /\ done'[j] = done[j]
    <3>1. i \in DOMAIN done /\ done'[i] = done[i]
      BY <1>7, <1>9, <1>10, <2>1
    <3>. QED
      BY <2>1, <3>1 DEF Places
  <2>2. ASSUME NEW m \in 1 .. n, j = Len(done) + m, done'[j].of = <<bundle, first + m>>
        PROVE  Before(done'[i].of, done'[j].of)
    <3>1. CASE i \in DOMAIN done /\ done'[i] = done[i]
      <4>1. done'[i].of \in Nat \X Nat /\ Past(done'[i].of[1], done'[i].of[2])
        BY <1>12, <3>1 DEF Places, Entry
      <4>2. ~Past(bundle, first + m)
        BY <1>14
      <4>. QED
        BY <1>1, <1>5, <1>7, <2>2, <4>1, <4>2 DEF Before
    <3>2. ASSUME NEW l \in 1 .. n, i = Len(done) + l, done'[i].of = <<bundle, first + l>>
          PROVE  Before(done'[i].of, done'[j].of)
      BY <1>1, <1>7, <1>10, <2>2, <3>2 DEF Before
    <3>. QED
      BY <1>11, <3>1, <3>2
  <2>. QED
    BY <1>11, <2>1, <2>2
<1>18. \A b \in DOMAIN plan : \A k \in DOMAIN plan[b] :
          Past1(b, k) => \E i \in DOMAIN done' : done'[i].of = <<b, k>>
  <2>. SUFFICES ASSUME NEW b \in DOMAIN plan, NEW k \in DOMAIN plan[b], Past1(b, k)
                PROVE  \E i \in DOMAIN done' : done'[i].of = <<b, k>>
    OBVIOUS
  <2>1. CASE Past(b, k)
    <3>1. PICK i \in DOMAIN done : done[i].of = <<b, k>>
      BY <2>1 DEF Places
    <3>2. i \in DOMAIN done' /\ done'[i] = done[i]
      BY <1>7, <1>9, <1>10
    <3>. QED
      BY <3>1, <3>2
  <2>2. CASE b = bundle /\ k - first \in 1 .. n
    <3>1. Len(done) + (k - first) \in DOMAIN done'
      BY <1>7, <1>10, <2>2
    <3>2. done'[Len(done) + (k - first)] = Outcome(<<count, k - first>>)
      BY <1>9, <2>2
    <3>3. k \in Nat /\ first + (k - first) = k
      BY <1>1
    <3>4. done'[Len(done) + (k - first)].of = <<b, k>>
      BY <1>4, <1>7, <2>2, <3>2, <3>3
    <3>. QED
      BY <3>1, <3>4
  <2>. QED
    BY <1>15, <2>1, <2>2
<1>19. /\ bundle' <= Len(plan) => first1 <= Len(plan[bundle'])
       /\ bundle' > Len(plan) => chunk' = 0
       /\ Len(done') = overallIndex' + first1
  BY <1>1, <1>2, <1>7, <1>9, NumberFacts
<1>. QED
  <2>1. \A i \in DOMAIN done' :
           done'[i].sid \in {0, i} /\ Past(done[i].of[1], done[i].of[2])'
    BY <1>16 DEF Past, first1
  <2>2. \A b \in DOMAIN plan : \A k \in DOMAIN plan[b] :
           Past(b, k)' => \E i \in DOMAIN done' : done'[i].of = <<b, k>>
    BY <1>6, <1>18
  <2>. HIDE DEF Past1
  <2>. QED
    BY <1>3, <1>17, <1>19, <2>1, <2>2 DEF Places, first1

LEMMA AnswerPlaces ==
    ASSUME Types, Places, Answer
    PROVE  Places'
<1>1. UNCHANGED <<plan, bundle, chunk, overallIndex, done>> /\ bundle > Len(plan)
  BY DEF Answer, invocation
<1>. QED
  BY <1>1 DEF Places, Past

\* The other actions leave the progress of the invocation alone.
LEMMA SamePlaces ==
    ASSUME Types, Places, UNCHANGED <<plan, bundle, chunk, overallIndex, done>>,
           reply' = reply \/ reply' = "503"
    PROVE  Places'
BY DEF Places, Past

LEMMA NextPlaces ==
    ASSUME Types, Places, [Next]_vars
    PROVE  Places'
<1>1. ASSUME NEW changed \in BOOLEAN, Invoke(changed) PROVE Places'
  BY <1>1, RestartPlaces DEF Invoke
<1>2. CASE GoOn
  BY <1>2, GoOnPlaces
<1>3. CASE Answer
  BY <1>3, AnswerPlaces
<1>4. CASE Refuse
  BY <1>4, SamePlaces DEF Refuse, invocation
<1>5. ASSUME NEW r \in Rows, Ask(r) \/ Take(r) PROVE Places'
  BY <1>5, SamePlaces DEF Ask, Take, invocation
<1>6. ASSUME NEW p, Attempt(p) PROVE Places'
  BY <1>6, SamePlaces DEF Attempt, Page, Trouble, FailForGood, invocation
<1>7. ASSUME NEW k, Expire(k) PROVE Places'
  BY <1>7, SamePlaces DEF Expire, invocation
<1>8. CASE Recycle
  BY <1>8, RestartPlaces DEF Recycle
<1>9. CASE UNCHANGED vars
  BY <1>9, SamePlaces DEF vars
<1>. QED
  BY <1>1, <1>2, <1>3, <1>4, <1>5, <1>6, <1>7, <1>8, <1>9 DEF Next

-----------------------------------------------------------------------------
(* Failures are counted.                                                   *)

LEMMA FreshEnvironmentCounted ==
    /\ Init => Counted
    /\ Recycle => Counted'
<1>1. 0 * TimeoutCost = 0
  BY NumberFacts
<1>2. Init => DOMAIN promises = {} /\ failures = 0 /\ quota = Capacity
  BY DEF Init, Nothing
<1>3. Recycle => DOMAIN promises' = {} /\ failures' = 0 /\ quota' = Capacity
  BY DEF Recycle, Nothing
<1>. QED
  BY <1>1, <1>2, <1>3, NumberFacts DEF Counted

\* Fewer promises, or the same with no more attempts, do no harm.
LEMMA SameCounted ==
    ASSUME Types, Counted, UNCHANGED <<failures, quota>>,
           \A p \in DOMAIN promises' :
              promises'[p].attempts = 0 \/ (p \in DOMAIN promises /\ promises'[p] = promises[p])
    PROVE  Counted'
BY DEF Counted, Types, KeptType

LEMMA TroubleCounted ==
    ASSUME Types, Counted, NEW p, NEW cost \in {1, TimeoutCost}, Trouble(p, cost)
    PROVE  Counted'
<1>1. /\ failures \in Nat /\ failures <= MaxAttempts /\ cost \in Nat /\ cost <= TimeoutCost
      /\ failures' = IF failures < MaxAttempts THEN failures + 1 ELSE failures
      /\ quota \in Nat /\ Capacity \in Nat /\ MaxAttempts \in Nat
      /\ failures * TimeoutCost \in Nat /\ TimeoutCost \in Nat
      /\ (failures + 1) * TimeoutCost = failures * TimeoutCost + TimeoutCost
  <2>1. failures \in 0 .. MaxAttempts /\ cost \in 1 .. TimeoutCost /\ quota \in 0 .. Capacity
    BY TroubleFacts DEF Types, KeptType
  <2>2. failures \in Nat /\ TimeoutCost \in Nat
    BY <2>1, NumberFacts
  <2>3. /\ failures * TimeoutCost \in Nat
        /\ (failures + 1) * TimeoutCost = failures * TimeoutCost + TimeoutCost
    BY <2>2
  <2>. QED
    BY <2>1, <2>2, <2>3, TroubleFacts, NumberFacts
<1>. DEFINE spent == failures * TimeoutCost
            spent1 == failures' * TimeoutCost
<1>2. failures < MaxAttempts => quota + spent >= Capacity
  BY DEF Counted
<1>3. /\ failures' < MaxAttempts => failures < MaxAttempts /\ spent1 = spent + TimeoutCost
      /\ spent \in Nat
  BY <1>1
<1>4. \A q \in DOMAIN promises : promises[q].attempts \in Nat /\ promises[q].attempts <= failures
  BY DEF Counted, Types, KeptType, PromisesOK, Promise
<1>. HIDE DEF spent, spent1
<1>5. /\ quota \in Nat /\ Capacity \in Nat /\ TimeoutCost \in Nat
      /\ cost \in Nat /\ cost <= TimeoutCost
      /\ failures \in Nat /\ failures' \in Nat /\ failures <= failures'
      /\ failures + 1 < MaxAttempts => failures' = failures + 1
      /\ MaxAttempts \in Nat /\ (failures' = failures => failures = MaxAttempts)
  BY <1>1
<1>6. CASE Broken(p) /\ quota' = quota
  <2>1. \A q \in DOMAIN promises' :
           promises'[q].attempts = 0 \/ (q \in DOMAIN promises /\ promises'[q] = promises[q])
    BY <1>6, BrokenFacts DEF Trouble, Promise
  <2>2. \A q \in DOMAIN promises' : promises'[q].attempts <= failures'
    BY <1>4, <1>5, <2>1
  <2>3. failures' < MaxAttempts => quota' + spent1 >= Capacity
    BY <1>2, <1>3, <1>5, <1>6
  <2>. QED
    BY <2>2, <2>3 DEF Counted, spent1
<1>7. CASE ~(Broken(p) /\ quota' = quota)
  <2>1. /\ promises[p].attempts + 1 < MaxAttempts /\ cost <= quota
        /\ p \in DOMAIN promises /\ DOMAIN promises' = DOMAIN promises
        /\ \A q \in DOMAIN promises \ {p} : promises'[q] = promises[q]
        /\ promises'[p].attempts = promises[p].attempts + 1
        /\ quota' = quota - cost
    BY <1>7, TroubleFacts
  <2>2. ASSUME NEW q \in DOMAIN promises'
        PROVE  promises'[q].attempts <= failures'
    <3>1. CASE q # p
      BY <1>4, <1>5, <2>1, <3>1
    <3>2. CASE q = p
      <4>1. promises[p].attempts \in Nat /\ promises[p].attempts <= failures
        BY <1>4, <2>1
      <4>. QED
        BY <1>5, <2>1, <3>2, <4>1
    <3>. QED
      BY <3>1, <3>2
  <2>3. failures' < MaxAttempts => quota' + spent1 >= Capacity
    BY <1>2, <1>3, <1>5, <2>1
  <2>. QED
    BY <2>2, <2>3 DEF Counted, spent1
<1>. QED
  BY <1>6, <1>7

LEMMA PageCounted ==
    ASSUME Types, Counted, NEW p, Page(p)
    PROVE  Counted'
<1>1. UNCHANGED failures /\ failures \in Nat
  BY NumberFacts DEF Page, history, Types, KeptType
<1>2. \A q \in DOMAIN promises' : promises'[q].attempts <= failures'
  BY <1>1, PageFacts DEF Counted
<1>3. quota \in Nat /\ quota' \in Nat /\ quota' >= quota /\ Capacity \in Nat
  BY PageFacts, NumberFacts DEF Types, KeptType
<1>. DEFINE spent == failures * TimeoutCost
<1>4. spent \in Nat
  BY <1>1, NumberFacts
<1>5. failures < MaxAttempts => quota + spent >= Capacity
  BY DEF Counted
<1>6. failures' * TimeoutCost = spent
  BY <1>1
<1>. HIDE DEF spent
<1>7. failures' < MaxAttempts => quota' + failures' * TimeoutCost >= Capacity
  BY <1>1, <1>3, <1>4, <1>5, <1>6
<1>. QED
  BY <1>2, <1>7 DEF Counted

LEMMA NextCounted ==
    ASSUME Types, Counted, [Next]_vars
    PROVE  Counted'
<1>1. ASSUME NEW changed \in BOOLEAN, Invoke(changed) PROVE Counted'
  BY <1>1, SameCounted DEF Invoke
<1>2. CASE GoOn
  BY <1>2, SameCounted DEF GoOn, history
<1>3. CASE Answer
  BY <1>3, SameCounted DEF Answer, history
<1>4. CASE Refuse
  BY <1>4, SameCounted DEF Refuse, history
<1>5. ASSUME NEW r \in Rows, Ask(r) PROVE Counted'
  <2>1. \A p \in DOMAIN promises' :
           promises'[p].attempts = 0 \/ (p \in DOMAIN promises /\ promises'[p] = promises[p])
    <3>1. PICK k \in Keys, n \in Nat \ {0} :
             \/ UNCHANGED promises
             \/ promises' = With(promises, <<k, n>>,
                   [status |-> "sent", attempts |-> 0, paid |-> 0, asks |-> Target(r)])
      BY <1>5, AskFacts
    <3>. QED
      BY <3>1 DEF With
  <2>. QED
    BY <1>5, <2>1, SameCounted DEF Ask, history
<1>6. ASSUME NEW r \in Rows, Take(r) PROVE Counted'
  <2>1. promises' = Swept(promises, memo, slots')
    BY <1>6 DEF Take
  <2>2. \A p \in DOMAIN promises' : p \in DOMAIN promises /\ promises'[p] = promises[p]
    BY <2>1, SweptFacts
  <2>. QED
    BY <1>6, <2>2, SameCounted DEF Take, history
<1>7. ASSUME NEW p, Attempt(p) PROVE Counted'
  <2>1. CASE Page(p)
    BY <2>1, PageCounted
  <2>2. ASSUME NEW cost \in {1, TimeoutCost}, Trouble(p, cost) PROVE Counted'
    BY <2>2, TroubleCounted
  <2>3. CASE FailForGood(p)
    <3>1. \A q \in DOMAIN promises' :
             promises'[q].attempts = 0 \/ (q \in DOMAIN promises /\ promises'[q] = promises[q])
      BY <2>3, BrokenFacts DEF FailForGood, Promise
    <3>. QED
      BY <2>3, <3>1, SameCounted DEF FailForGood
  <2>. QED
    BY <1>7, <2>1, <2>2, <2>3 DEF Attempt
<1>8. ASSUME NEW k, Expire(k) PROVE Counted'
  <2>1. promises' = Swept(promises, memo', slots)
    BY <1>8 DEF Expire
  <2>2. \A p \in DOMAIN promises' : p \in DOMAIN promises /\ promises'[p] = promises[p]
    BY <2>1, SweptFacts
  <2>. QED
    BY <1>8, <2>2, SameCounted DEF Expire, history
<1>9. CASE Recycle
  BY <1>9, FreshEnvironmentCounted
<1>10. CASE UNCHANGED vars
  BY <1>10, SameCounted DEF vars
<1>. QED
  BY <1>1, <1>2, <1>3, <1>4, <1>5, <1>6, <1>7, <1>8, <1>9, <1>10 DEF Next

-----------------------------------------------------------------------------
(* Causes.                                                                 *)

LEMMA PlannedCause ==
    ASSUME NEW rule, Planned(rule), Unresolvable(rule)
    PROVE  Cause
BY DEF Planned, Cause

LEMMA CauseStays ==
    ASSUME Types, Cause, UNCHANGED plan, doomed => doomed', failures \in Nat,
           failures' = failures \/ failures' = failures + 1
    PROVE  Cause'
<1>1. CASE failures' = failures
  BY <1>1 DEF Cause
<1>2. CASE failures' = failures + 1
  <2>. DEFINE spent == failures * TimeoutCost
              spent1 == failures' * TimeoutCost
  <2>1. spent1 = spent + TimeoutCost /\ spent \in Nat
    BY <1>2, NumberFacts
  <2>. HIDE DEF spent, spent1
  <2>2. spent > Capacity => spent1 > Capacity
    BY <2>1, NumberFacts
  <2>3. failures >= MaxAttempts => failures' >= MaxAttempts
    BY <1>2, NumberFacts
  <2>. QED
    BY <2>2, <2>3 DEF Cause, spent, spent1
<1>. QED
  BY <1>1, <1>2

\* A failure that breaks a promise was one too many.
LEMMA TroubleCause ==
    ASSUME Types, Counted, NEW p, NEW cost \in {1, TimeoutCost}, Trouble(p, cost),
           promises[p].attempts + 1 >= MaxAttempts \/ cost > quota
    PROVE  Cause'
<1>1. /\ failures \in 0 .. MaxAttempts
      /\ failures' = IF failures < MaxAttempts THEN failures + 1 ELSE failures
      /\ cost \in 1 .. TimeoutCost
  BY TroubleFacts
<1>2. p \in DOMAIN promises /\ promises[p].attempts \in Nat /\ quota \in 0 .. Capacity
  BY DEF Trouble, Sent, Types, KeptType, PromisesOK, Promise
<1>3. promises[p].attempts <= failures
  BY <1>2 DEF Counted
<1>4. CASE failures' >= MaxAttempts
  BY <1>4 DEF Cause
<1>5. CASE ~(failures' >= MaxAttempts)
  <2>1. failures' = failures + 1 /\ failures < MaxAttempts /\ failures \in Nat
    BY <1>1, <1>5, NumberFacts
  <2>2. cost > quota
    BY <1>2, <1>3, <1>5, <2>1, NumberFacts
  <2>. DEFINE spent == failures * TimeoutCost
              spent1 == failures' * TimeoutCost
  <2>3. spent1 = spent + TimeoutCost /\ spent \in Nat
    BY <2>1, NumberFacts
  <2>4. quota + spent >= Capacity
    BY <2>1 DEF Counted
  <2>. HIDE DEF spent, spent1
  <2>5. spent1 > Capacity
    BY <1>1, <1>2, <2>2, <2>3, <2>4, NumberFacts
  <2>. QED
    BY <2>5 DEF Cause, spent1
<1>. QED
  BY <1>4, <1>5

LEMMA InvokeErrors ==
    ASSUME Types, Errors, NEW changed \in BOOLEAN, Invoke(changed)
    PROVE  Errors'
<1>1. plan \in Plans /\ plan \in Seq(Seq(Rule)) /\ plan # <<>> /\ 1 \in DOMAIN plan
  BY PlanAssumption DEF Types, ProgressType
<1>2. 0 * ChunkSize = 0 /\ 0 * ChunkSize <= Len(plan[1])
  BY <1>1, NumberFacts
<1>. DEFINE rules == ChunkOf(plan, 1, 0)
            text == Text(stamp', 1)
<1>3. /\ rules \in Seq(Rule)
      /\ \A i \in DOMAIN rules : 0 * ChunkSize + i \in DOMAIN plan[1]
                                 /\ rules[i] = plan[1][0 * ChunkSize + i]
  BY <1>1, <1>2, ChunkFacts
<1>4. \A i \in DOMAIN rules : Planned(rules[i]) /\ rules[i] \in Rule
  <2>1. \A i \in DOMAIN rules : rules[i] \in Rule
    BY <1>3
  <2>. QED
    BY <1>1, <1>3, <2>1 DEF Planned
<1>5. text \in Nat \X Nat
  BY NumberFacts DEF Text, Invoke, Types, ProgressType
<1>6. /\ slots' = Opened(count + 1, rules, text) /\ count' = count + 1
      /\ reply' = "none" /\ plan' = plan
  BY DEF Invoke
<1>. HIDE DEF rules, text
<1>7. /\ \A r \in Rows : r[1] # count + 1 => slots'[r] = slots[r]
      /\ \A r \in Rows : r[1] = count + 1 /\ slots'[r] # NoSlot =>
            r[2] \in DOMAIN rules /\ slots'[r] = Begun(rules[r[2]], text)
  <2>. DEFINE n == count + 1
              opened == Opened(n, rules, text)
  <2>. HIDE DEF n
  <2>1. /\ \A r \in Rows : r[1] # n => opened[r] = slots[r]
        /\ \A r \in Rows : r[1] = n /\ opened[r] # NoSlot =>
              r[2] \in DOMAIN rules /\ opened[r] = Begun(rules[r[2]], text)
    BY <1>3, <1>5, OpenedFacts DEF Types
  <2>. QED
    BY <1>6, <2>1 DEF n
<1>8. count \in Nat
  BY NumberFacts DEF Types, ProgressType
<1>9. ASSUME NEW r \in Rows, slots'[r] # NoSlot PROVE Blameless(r)'
  <2>1. CASE r[1] = count + 1
    <3>1. r[2] \in DOMAIN rules /\ slots'[r] = Begun(rules[r[2]], text)
      BY <1>7, <1>9, <2>1
    <3>2. /\ slots'[r].rule = rules[r[2]] /\ slots'[r].waits = Unawaited
          /\ slots'[r].end = "rejected" => "error" \in {slots'[r].source, slots'[r].destination}
          /\ "error" \in {slots'[r].source, slots'[r].destination} => Unresolvable(rules[r[2]])
      BY <1>4, <1>5, <3>1, BegunFacts
    <3>3. Planned(rules[r[2]])
      BY <1>4, <3>1
    <3>4. Unresolvable(rules[r[2]]) => Cause'
      BY <1>6, <3>3 DEF Planned, Cause
    <3>5. r[1] = count' /\ r[1] <= count'
      BY <1>6, <1>8, <2>1
    <3>. QED
      BY <1>6, <3>2, <3>3, <3>4, <3>5 DEF Blameless, Planned
  <2>2. CASE r[1] # count + 1
    <3>1. slots'[r] = slots[r] /\ Blameless(r)
      BY <1>7, <1>9, <2>2 DEF Errors
    <3>2. r[1] # count' /\ r[1] <= count'
      BY <1>6, <1>8, <2>2, <3>1 DEF Blameless, Rows
    <3>. QED
      BY <1>6, <3>1, <3>2 DEF Blameless, Planned
  <2>. QED
    BY <2>1, <2>2
<1>. QED
  BY <1>6, <1>9 DEF Errors

LEMMA GoOnErrors ==
    ASSUME Types, Places, Errors, GoOn
    PROVE  Errors'
<1>1. plan \in Plans /\ plan \in Seq(Seq(Rule))
  BY PlanAssumption DEF Types, ProgressType
<1>2. /\ bundle' \in 1 .. Len(plan) + 1 /\ chunk' \in Nat
      /\ bundle' <= Len(plan) => chunk' * ChunkSize <= Len(plan[bundle'])
  BY GoOnFacts
<1>. DEFINE rules == IF bundle' <= Len(plan) THEN ChunkOf(plan, bundle', chunk') ELSE <<>>
            text == Text(stamp, bundle')
<1>3. /\ rules \in Seq(Rule)
      /\ \A i \in DOMAIN rules : Planned(rules[i])
  <2>1. CASE bundle' <= Len(plan)
    <3>1. bundle' \in DOMAIN plan
      BY <1>1, <1>2, <2>1
    <3>. QED
      BY <1>1, <1>2, <2>1, <3>1, ChunkFacts DEF Planned
  <2>2. CASE ~(bundle' <= Len(plan))
    BY <2>2
  <2>. QED
    BY <2>1, <2>2
<1>4. text \in Nat \X Nat
  BY <1>2, NumberFacts DEF Text, Types, ProgressType
<1>5. slots' = Opened(count, rules, text) /\ UNCHANGED <<count, reply, plan, promises, failures, doomed>>
  BY DEF GoOn, history
<1>. HIDE DEF rules, text
<1>6. /\ \A r \in Rows : r[1] # count => slots'[r] = slots[r]
      /\ \A r \in Rows : r[1] = count /\ slots'[r] # NoSlot =>
            r[2] \in DOMAIN rules /\ slots'[r] = Begun(rules[r[2]], text)
  BY <1>3, <1>4, <1>5, OpenedFacts DEF Types
<1>7. ASSUME NEW r \in Rows, slots'[r] # NoSlot PROVE Blameless(r)'
  <2>1. CASE r[1] = count
    <3>1. r[2] \in DOMAIN rules /\ slots'[r] = Begun(rules[r[2]], text) /\ rules[r[2]] \in Rule
      BY <1>3, <1>6, <1>7, <2>1
    <3>2. /\ slots'[r].rule = rules[r[2]] /\ slots'[r].waits = Unawaited
          /\ slots'[r].end = "rejected" => "error" \in {slots'[r].source, slots'[r].destination}
          /\ "error" \in {slots'[r].source, slots'[r].destination} => Unresolvable(rules[r[2]])
      BY <1>4, <3>1, BegunFacts
    <3>3. Planned(rules[r[2]])
      BY <1>3, <3>1
    <3>4. Unresolvable(rules[r[2]]) => Cause'
      BY <1>5, <3>3 DEF Planned, Cause
    <3>5. r[1] <= count'
      BY <1>5, <2>1, NumberFacts DEF Types, ProgressType
    <3>. QED
      BY <1>5, <3>2, <3>3, <3>4, <3>5 DEF Blameless, Planned
  <2>2. CASE r[1] # count
    <3>1. slots'[r] = slots[r] /\ Blameless(r)
      BY <1>6, <1>7, <2>2 DEF Errors
    <3>. QED
      BY <1>5, <2>2, <3>1 DEF Blameless, Planned
  <2>. QED
    BY <2>1, <2>2
<1>8. reply' = "503" => Cause'
  BY <1>5 DEF Errors, Cause
<1>. QED
  BY <1>7, <1>8 DEF Errors

LEMMA RefuseErrors ==
    ASSUME Types, Errors, Refuse
    PROVE  Errors'
<1>1. UNCHANGED <<count, plan, promises, failures, doomed>>
  BY DEF Refuse, invocation, history
<1>2. Cause
  <2>1. PICK r \in Current : slots[r].end = "rejected"
    BY DEF Refuse
  <2>2. r \in Rows /\ slots[r] # NoSlot /\ r[1] = count
    BY <2>1 DEF Current
  <2>. QED
    BY <2>1, <2>2 DEF Errors, Blameless
<1>3. Cause'
  BY <1>1, <1>2 DEF Cause
<1>4. ASSUME NEW r \in Rows, slots'[r] # NoSlot PROVE Blameless(r)'
  <2>1. slots'[r] = slots[r]
    BY <1>4 DEF Refuse
  <2>. QED
    BY <1>1, <1>3, <1>4, <2>1 DEF Errors, Blameless, Planned
<1>. QED
  BY <1>3, <1>4 DEF Errors

\* Promises change, but none that is awaited breaks without a cause.
LEMMA SameSlotsErrors ==
    ASSUME Types, Types', Errors, UNCHANGED <<slots, count, plan>>,
           Cause => Cause', reply' = "503" => reply = "503",
           \A p \in DOMAIN promises' : promises'[p].status = "broken" =>
              Cause' \/ (p \in DOMAIN promises /\ promises[p].status = "broken")
    PROVE  Errors'
<1>1. ASSUME NEW r \in Rows, slots'[r] # NoSlot PROVE Blameless(r)'
  <2>1. Blameless(r) /\ slots'[r] = slots[r]
    BY <1>1 DEF Errors
  <2>2. slots'[r].waits # Unawaited => slots'[r].waits \in DOMAIN promises'
    BY <1>1 DEF Types, WaitIn
  <2>. QED
    BY <2>1, <2>2 DEF Blameless, Planned
<1>. QED
  BY <1>1 DEF Errors

LEMMA AskErrors ==
    ASSUME Types, Types', Errors, NEW r \in Rows, Ask(r)
    PROVE  Errors'
<1>1. PICK k \in Keys, n \in Nat \ {0} :
             /\ slots[r] \in Slot /\ Target(r) \in Objects /\ k.object = Target(r)
             /\ slots' = [slots EXCEPT ![r].waits = <<k, n>>]
             /\ \/ k \in DOMAIN memo /\ n = memo[k] /\ UNCHANGED <<promises, memo>>
                \/ /\ <<k, n>> \notin DOMAIN promises
                   /\ memo' = With(memo, k, n)
                   /\ promises' = With(promises, <<k, n>>,
                         [status |-> "sent", attempts |-> 0, paid |-> 0, asks |-> Target(r)])
  BY AskFacts
<1>2. UNCHANGED <<count, plan, reply, failures, doomed>> /\ slots[r] # NoSlot
  BY DEF Ask, invocation, history, Unsettled
<1>3. Cause <=> Cause'
  BY <1>2 DEF Cause
<1>4. /\ \A p \in DOMAIN promises : promises'[p].status = promises[p].status
      /\ promises'[<<k, n>>].status # "broken"
  BY <1>1 DEF With, Types, GoodIn
<1>5. /\ \A q \in Rows \ {r} : slots'[q] = slots[q]
      /\ slots'[r] = [slots[r] EXCEPT !.waits = <<k, n>>]
  BY <1>1 DEF Types, SlotsType
<1>6. /\ slots'[r].waits = <<k, n>> /\ slots'[r].rule = slots[r].rule
      /\ slots'[r].end = slots[r].end /\ slots'[r].source = slots[r].source
      /\ slots'[r].destination = slots[r].destination
  BY <1>1, <1>5 DEF Slot
<1>7. ASSUME NEW q \in Rows, slots'[q] # NoSlot PROVE Blameless(q)'
  <2>1. CASE q = r
    <3>1. Blameless(r)
      BY <1>2 DEF Errors
    <3>. QED
      BY <1>2, <1>3, <1>4, <1>6, <2>1, <3>1 DEF Blameless, Planned
  <2>2. CASE q # r
    <3>1. Blameless(q) /\ slots'[q] = slots[q] /\ slots[q] # NoSlot
      BY <1>5, <1>7, <2>2 DEF Errors
    <3>2. slots[q].waits # Unawaited => slots[q].waits \in DOMAIN promises
      BY <3>1 DEF Types, WaitIn
    <3>. QED
      BY <1>2, <1>3, <1>4, <3>1, <3>2 DEF Blameless, Planned
  <2>. QED
    BY <2>1, <2>2
<1>8. reply' = "503" => Cause'
  BY <1>2, <1>3 DEF Errors
<1>. QED
  BY <1>7, <1>8 DEF Errors

LEMMA TakeErrors ==
    ASSUME Types, Types', Errors, NEW r \in Rows, Take(r)
    PROVE  Errors'
<1>1. PICK new \in Slot \cup {NoSlot} :
         /\ slots' = [slots EXCEPT ![r] = new]
         /\ new # NoSlot =>
              /\ new.rule = slots[r].rule /\ new.waits = Unawaited
              /\ new.end = "rejected" => "error" \in {new.source, new.destination}
              /\ "error" \in {new.source, new.destination} =>
                    \/ "error" \in {slots[r].source, slots[r].destination}
                    \/ promises[slots[r].waits].status = "broken"
                    \/ Unresolvable(slots[r].rule)
  BY TakeFacts
<1>2. /\ UNCHANGED <<count, plan, reply, failures, doomed>>
      /\ slots[r] # NoSlot /\ slots[r].waits # Unawaited
      /\ promises' = Swept(promises, memo, slots')
  BY DEF Take, invocation, history, Unsettled
<1>3. Cause <=> Cause'
  BY <1>2 DEF Cause
<1>4. \A p \in DOMAIN promises' : promises'[p] = promises[p]
  BY <1>2, SweptFacts
<1>5. /\ \A q \in Rows \ {r} : slots'[q] = slots[q]
      /\ slots'[r] = new
  BY <1>1 DEF Types, SlotsType
<1>6. ASSUME NEW q \in Rows, slots'[q] # NoSlot PROVE Blameless(q)'
  <2>1. CASE q = r
    <3>1. Blameless(r)
      BY <1>2 DEF Errors
    <3>2. Unresolvable(slots[r].rule) => Cause
      BY <3>1, PlannedCause DEF Blameless
    <3>. QED
      BY <1>1, <1>2, <1>3, <1>5, <1>6, <2>1, <3>1, <3>2 DEF Blameless, Planned
  <2>2. CASE q # r
    <3>1. Blameless(q) /\ slots'[q] = slots[q] /\ slots[q] # NoSlot
      BY <1>5, <1>6, <2>2 DEF Errors
    <3>2. slots'[q].waits # Unawaited => slots'[q].waits \in DOMAIN promises'
      BY <1>6 DEF Types, WaitIn
    <3>. QED
      BY <1>2, <1>3, <1>4, <3>1, <3>2 DEF Blameless, Planned
  <2>. QED
    BY <2>1, <2>2
<1>7. reply' = "503" => Cause'
  BY <1>2, <1>3 DEF Errors
<1>. QED
  BY <1>6, <1>7 DEF Errors

LEMMA AttemptErrors ==
    ASSUME Types, Types', Counted, Errors, NEW p, Attempt(p)
    PROVE  Errors'
<1>1. CASE Page(p)
  <2>1. UNCHANGED <<slots, count, plan, reply, failures, doomed>>
    BY <1>1 DEF Page, invocation, history
  <2>2. Cause => Cause'
    BY <2>1 DEF Cause
  <2>3. \A q \in DOMAIN promises' : promises'[q].status = "broken" =>
           q \in DOMAIN promises /\ promises[q].status = "broken"
    BY <1>1, PageFacts
  <2>. QED
    BY <2>1, <2>2, <2>3, SameSlotsErrors
<1>2. ASSUME NEW cost \in {1, TimeoutCost}, Trouble(p, cost) PROVE Errors'
  <2>1. UNCHANGED <<slots, count, plan, reply, doomed>>
    BY <1>2 DEF Trouble, invocation
  <2>2. /\ failures \in Nat
        /\ failures' = failures \/ failures' = failures + 1
    BY <1>2, TroubleFacts
  <2>3. Cause => Cause'
    BY <2>1, <2>2, CauseStays
  <2>4. CASE promises[p].attempts + 1 >= MaxAttempts \/ cost > quota
    BY <1>2, <2>1, <2>4, TroubleCause, SameSlotsErrors
  <2>5. CASE ~(promises[p].attempts + 1 >= MaxAttempts \/ cost > quota)
    <3>1. /\ DOMAIN promises' = DOMAIN promises
          /\ \A q \in DOMAIN promises \ {p} : promises'[q] = promises[q]
          /\ promises'[p].status = "sent"
      BY <1>2, <2>5, TroubleFacts
    <3>. QED
      BY <2>1, <2>3, <3>1, SameSlotsErrors
  <2>. QED
    BY <2>4, <2>5
<1>3. CASE FailForGood(p)
  <2>1. UNCHANGED <<slots, count, plan, reply>> /\ doomed' = TRUE
    BY <1>3 DEF FailForGood, invocation
  <2>2. Cause'
    BY <2>1 DEF Cause
  <2>. QED
    BY <2>1, <2>2, SameSlotsErrors
<1>. QED
  BY <1>1, <1>2, <1>3 DEF Attempt

LEMMA NextErrors ==
    ASSUME Types, Types', Places, Counted, Errors, [Next]_vars
    PROVE  Errors'
<1>1. ASSUME NEW changed \in BOOLEAN, Invoke(changed) PROVE Errors'
  BY <1>1, InvokeErrors
<1>2. CASE GoOn
  BY <1>2, GoOnErrors
<1>3. CASE Answer
  BY <1>3, SameSlotsErrors DEF Answer, invocation, history, Cause
<1>4. CASE Refuse
  BY <1>4, RefuseErrors
<1>5. ASSUME NEW r \in Rows, Ask(r) \/ Take(r) PROVE Errors'
  BY <1>5, AskErrors, TakeErrors
<1>6. ASSUME NEW p, Attempt(p) PROVE Errors'
  BY <1>6, AttemptErrors
<1>7. ASSUME NEW k, Expire(k) PROVE Errors'
  <2>1. UNCHANGED <<slots, count, plan, reply, failures, doomed>>
    BY <1>7 DEF Expire, invocation, history
  <2>2. Cause => Cause'
    BY <2>1 DEF Cause
  <2>3. promises' = Swept(promises, memo', slots)
    BY <1>7 DEF Expire
  <2>4. \A p \in DOMAIN promises' : p \in DOMAIN promises /\ promises'[p] = promises[p]
    BY <2>3, SweptFacts
  <2>. QED
    BY <2>1, <2>2, <2>4, SameSlotsErrors
<1>8. CASE Recycle
  BY <1>8 DEF Recycle, Errors, Idle
<1>9. CASE UNCHANGED vars
  <2>1. Cause => Cause'
    BY <1>9 DEF Cause, vars
  <2>. QED
    BY <1>9, <2>1, SameSlotsErrors DEF vars
<1>. QED
  BY <1>1, <1>2, <1>3, <1>4, <1>5, <1>6, <1>7, <1>8, <1>9 DEF Next

-----------------------------------------------------------------------------
(* What the rules know of their own objects.                               *)

Answers == {"some", "none", "error"}

LEMMA SlotIsThere ==
    ASSUME NEW slot \in Slot
    PROVE  slot # NoSlot
BY DEF Slot, NoSlot

LEMMA VerdictOwn ==
    ASSUME NEW o \in Objects, Instant(o)
    PROVE  Verdict(o) \in Answers /\ Heeds(Verdict(o), o)
BY DEF Verdict, Answers, Heeds, HasNone

LEMMA AtDestinationOwn ==
    ASSUME NEW slot \in Slot, NEW verdict \in Answers, slot.source \in Answers,
           Heeds(slot.source, slot.rule.source), Heeds(verdict, slot.rule.destination),
           ~Dangling(slot.rule)
    PROVE  OwnSlot(AtDestination(slot, verdict))
<1>. DEFINE new == AtDestination(slot, verdict)
<1>1. /\ new.rule = slot.rule /\ new.waits = Unawaited
      /\ new.source = slot.source /\ new.destination = verdict
      /\ new.end = IF "error" \in {slot.source, verdict} THEN "rejected" ELSE "resolved"
  BY DEF AtDestination, Slot
<1>. HIDE DEF new
<1>. QED
  BY <1>1 DEF OwnSlot, Answers, new

LEMMA AtSourceOwn ==
    ASSUME NEW slot \in Slot, NEW verdict \in Answers,
           Heeds(verdict, slot.rule.source), Heeds(slot.destination, slot.rule.destination),
           ~Dangling(slot.rule)
    PROVE  OwnSlot(AtSource(slot, verdict))
<1>. DEFINE next == [slot EXCEPT !.end = "destination", !.stage = 1, !.waits = Unawaited,
                                 !.source = verdict]
            o == next.rule.destination
<1>1. /\ next \in Slot /\ next.rule = slot.rule /\ next.waits = Unawaited
      /\ next.end = "destination" /\ next.source = verdict
      /\ next.destination = slot.destination
  BY DEF Slot, Answers, Verdicts
<1>2. o \in Objects /\ o = slot.rule.destination
  BY <1>1 DEF Slot, Rule
<1>3. AtSource(slot, verdict) = IF Instant(o) THEN AtDestination(next, Verdict(o)) ELSE next
  BY DEF AtSource
<1>. HIDE DEF next
<1>4. CASE Instant(o)
  <2>1. Verdict(o) \in Answers /\ Heeds(Verdict(o), next.rule.destination)
    BY <1>2, <1>4, VerdictOwn
  <2>2. OwnSlot(AtDestination(next, Verdict(o)))
    BY <1>1, <2>1, AtDestinationOwn
  <2>. QED
    BY <1>3, <1>4, <2>2
<1>5. CASE ~Instant(o)
  BY <1>1, <1>2, <1>3, <1>5 DEF OwnSlot, Answers
<1>. QED
  BY <1>4, <1>5

LEMMA BegunOwn ==
    ASSUME NEW rule \in Rule, NEW text \in Nat \X Nat
    PROVE  OwnSlot(Begun(rule, text))
<1>. DEFINE slot == [rule |-> rule, text |-> text, end |-> "source", stage |-> 1,
                     waits |-> Unawaited, source |-> "open", destination |-> "open"]
            failed == [slot EXCEPT !.end = "failed"]
<1>1. /\ slot \in Slot /\ slot.rule = rule /\ slot.waits = Unawaited
      /\ slot.source = "open" /\ slot.destination = "open" /\ slot.end = "source"
  BY DEF Slot, Verdicts
<1>2. /\ failed.rule = rule /\ failed.waits = Unawaited
      /\ failed.source = "open" /\ failed.destination = "open" /\ failed.end = "failed"
  OBVIOUS
<1>3. Begun(rule, text) =
         IF Dangling(rule) THEN failed
         ELSE IF Instant(rule.source) THEN AtSource(slot, Verdict(rule.source))
         ELSE slot
  BY DEF Begun
<1>4. rule.source \in Objects
  BY DEF Rule
<1>. HIDE DEF slot, failed
<1>5. CASE Dangling(rule)
  BY <1>2, <1>3, <1>5 DEF OwnSlot, Heeds
<1>6. CASE ~Dangling(rule) /\ Instant(rule.source)
  <2>1. Verdict(rule.source) \in Answers /\ Heeds(Verdict(rule.source), rule.source)
    BY <1>4, <1>6, VerdictOwn
  <2>2. Heeds("open", rule.destination)
    BY DEF Heeds
  <2>3. OwnSlot(AtSource(slot, Verdict(rule.source)))
    BY <1>1, <1>6, <2>1, <2>2, AtSourceOwn
  <2>. QED
    BY <1>3, <1>6, <2>3
<1>7. CASE ~Dangling(rule) /\ ~Instant(rule.source)
  BY <1>1, <1>3, <1>7 DEF OwnSlot, Heeds
<1>. QED
  BY <1>5, <1>6, <1>7

\* The rows of an opened chunk.
LEMMA OpenedOwn ==
    ASSUME SlotsType, Own, NEW n, NEW rules \in Seq(Rule), NEW text \in Nat \X Nat
    PROVE  /\ \A r \in Rows : Opened(n, rules, text)[r] # NoSlot => OwnSlot(Opened(n, rules, text)[r])
           /\ \A r \in Rows : r[1] = n /\ r[2] \in DOMAIN rules =>
                 /\ Opened(n, rules, text)[r] # NoSlot
                 /\ Opened(n, rules, text)[r].rule = rules[r[2]]
<1>. DEFINE opened == Opened(n, rules, text)
<1>1. /\ \A r \in Rows : r[1] # n => opened[r] = slots[r]
      /\ \A r \in Rows : r[1] = n /\ opened[r] # NoSlot =>
            r[2] \in DOMAIN rules /\ opened[r] = Begun(rules[r[2]], text)
  BY OpenedFacts
<1>2. \A r \in Rows : r[1] = n /\ r[2] \in DOMAIN rules => opened[r] = Begun(rules[r[2]], text)
  BY DEF Opened
<1>. HIDE DEF opened
<1>3. \A i \in DOMAIN rules : rules[i] \in Rule
  OBVIOUS
<1>4. \A i \in DOMAIN rules :
         /\ OwnSlot(Begun(rules[i], text))
         /\ Begun(rules[i], text).rule = rules[i]
         /\ Begun(rules[i], text) # NoSlot
  BY <1>3, BegunOwn, BegunFacts, SlotIsThere
<1>5. \A r \in Rows : opened[r] # NoSlot => OwnSlot(opened[r])
  BY <1>1, <1>4 DEF Own
<1>. QED
  BY <1>2, <1>4, <1>5 DEF opened

LEMMA InitOwn == Init => Own
<1>. SUFFICES ASSUME Init PROVE Own
  OBVIOUS
<1>1. /\ DOMAIN promises = {} /\ DOMAIN done = {} /\ ~Running
      /\ \A r \in Rows : slots[r] = NoSlot
  BY DEF Init, Nothing, Running, Idle
<1>. QED
  BY <1>1 DEF Own, InPlace

\* The chunk stays, and its rules stay in their slots.
LEMMA SameOwn ==
    ASSUME Own, UNCHANGED <<count, plan, bundle, chunk, done>>, Running' => Running,
           \A p \in DOMAIN promises' : promises'[p].asks = p[1].object,
           \A r \in Rows : slots'[r] # NoSlot => OwnSlot(slots'[r]),
           Running' => \A r \in Rows : r[1] = count /\ slots[r] # NoSlot =>
                          slots'[r] # NoSlot /\ slots'[r].rule = slots[r].rule
    PROVE  Own'
<1>1. InPlace'
  BY DEF Own, InPlace
<1>2. \A i \in DOMAIN done' :
         done'[i].failed <=> Fails(plan'[done'[i].of[1]][done'[i].of[2]])
  BY DEF Own
<1>. QED
  BY <1>1, <1>2 DEF Own

LEMMA AskOwn ==
    ASSUME Types, Own, NEW r \in Rows, Ask(r)
    PROVE  Own'
<1>1. PICK k \in Keys, n \in Nat \ {0} :
             /\ slots[r] \in Slot /\ k.object = Target(r)
             /\ slots' = [slots EXCEPT ![r].waits = <<k, n>>]
             /\ \/ UNCHANGED promises
                \/ promises' = With(promises, <<k, n>>,
                         [status |-> "sent", attempts |-> 0, paid |-> 0, asks |-> Target(r)])
  BY AskFacts
<1>2. UNCHANGED <<count, plan, bundle, chunk, done, reply>> /\ slots[r] # NoSlot
  BY DEF Ask, invocation, Unsettled
<1>3. \A p \in DOMAIN promises' : promises'[p].asks = p[1].object
  BY <1>1 DEF Own, With
<1>4. /\ \A q \in Rows \ {r} : slots'[q] = slots[q]
      /\ slots'[r] = [slots[r] EXCEPT !.waits = <<k, n>>]
  BY <1>1 DEF Types, SlotsType
<1>5. /\ slots'[r].waits = <<k, n>> /\ slots'[r].rule = slots[r].rule
      /\ slots'[r].end = slots[r].end /\ slots'[r].source = slots[r].source
      /\ slots'[r].destination = slots[r].destination
      /\ slots'[r] # NoSlot
  BY <1>1, <1>4 DEF Slot, NoSlot
<1>6. OwnSlot(slots'[r])
  BY <1>1, <1>2, <1>5 DEF Own, OwnSlot, Target
<1>7. \A q \in Rows : slots'[q] # NoSlot => OwnSlot(slots'[q])
  BY <1>4, <1>6 DEF Own
<1>8. \A q \in Rows : slots[q] # NoSlot => slots'[q] # NoSlot /\ slots'[q].rule = slots[q].rule
  BY <1>4, <1>5
<1>. QED
  BY <1>2, <1>3, <1>7, <1>8, SameOwn DEF Running

LEMMA TakeOwn ==
    ASSUME Types, Own, NEW r \in Rows, Take(r)
    PROVE  Own'
<1>. DEFINE p == promises[slots[r].waits]
            o == Target(r)
            found == p.asks \notin Empty
            verdict == IF p.status = "broken" THEN "error"
                       ELSE IF found THEN "some" ELSE "none"
            second == [slots[r] EXCEPT !.stage = 2, !.waits = Unawaited]
            new == IF p.status # "broken" /\ Second(r, found)
                   THEN second ELSE Settled(slots[r], verdict)
<1>1. /\ slots[r] \in Slot /\ slots[r].end \in {"source", "destination"} /\ slots[r] # NoSlot
      /\ slots[r].waits # Unawaited /\ slots[r].waits \in DOMAIN promises
  BY DEF Take, Unsettled, Types, SlotsType, WaitIn
<1>2. OwnSlot(slots[r])
  BY <1>1 DEF Own
<1>3. p.asks = o /\ ~Instant(o)
  BY <1>1, <1>2 DEF Own, OwnSlot, Target
<1>4. verdict \in Answers /\ Heeds(verdict, o)
  BY <1>3 DEF Answers, Heeds, HasNone
<1>5. Put(r, new)
  BY DEF Take
<1>6. ~Dangling(slots[r].rule)
  BY <1>1, <1>2 DEF OwnSlot
<1>. HIDE DEF verdict, second, found, p
<1>7. OwnSlot(new) /\ new # NoSlot /\ new.rule = slots[r].rule
  <2>1. CASE p.status # "broken" /\ Second(r, found)
    <3>1. /\ second \in Slot
          /\ second.rule = slots[r].rule /\ second.waits = Unawaited
          /\ second.end = slots[r].end /\ second.source = slots[r].source
          /\ second.destination = slots[r].destination
      BY <1>1 DEF Slot, second
    <3>2. OwnSlot(second)
      BY <1>2, <3>1 DEF OwnSlot
    <3>. QED
      BY <2>1, <3>1, <3>2, SlotIsThere
  <2>2. CASE ~(p.status # "broken" /\ Second(r, found)) /\ slots[r].end = "source"
    <3>1. new = AtSource(slots[r], verdict) /\ o = slots[r].rule.source
      BY <2>2 DEF Settled, Target
    <3>2. OwnSlot(AtSource(slots[r], verdict))
      BY <1>1, <1>2, <1>4, <1>6, <3>1, AtSourceOwn DEF OwnSlot
    <3>3. /\ AtSource(slots[r], verdict) \in Slot
          /\ AtSource(slots[r], verdict).rule = slots[r].rule
      BY <1>1, <1>4, AtSourceFacts DEF Answers, Verdicts
    <3>. HIDE DEF new
    <3>. QED
      BY <3>1, <3>2, <3>3, SlotIsThere
  <2>3. CASE ~(p.status # "broken" /\ Second(r, found)) /\ slots[r].end = "destination"
    <3>1. new = AtDestination(slots[r], verdict) /\ o = slots[r].rule.destination
      BY <2>3 DEF Settled, Target
    <3>2. CASE slots[r].source \in Answers
      <4>1. OwnSlot(AtDestination(slots[r], verdict))
        BY <1>1, <1>2, <1>4, <1>6, <3>1, <3>2, AtDestinationOwn DEF OwnSlot
      <4>2. /\ AtDestination(slots[r], verdict) \in Slot
            /\ AtDestination(slots[r], verdict).rule = slots[r].rule
        BY <1>1, <1>4, AtDestinationFacts DEF Answers, Verdicts
      <4>. HIDE DEF new
      <4>. QED
        BY <3>1, <4>1, <4>2, SlotIsThere
    <3>3. slots[r].source \in Answers
      BY <1>1, <1>2, <2>3 DEF OwnSlot, Slot, Verdicts, Answers
    <3>. QED
      BY <3>2, <3>3
  <2>. QED
    BY <1>1, <2>1, <2>2, <2>3
<1>. HIDE DEF new
<1>8. /\ slots' = [slots EXCEPT ![r] = new] \/ slots' = [slots EXCEPT ![r] = NoSlot]
      /\ r[1] = count => slots' = [slots EXCEPT ![r] = new]
  BY <1>5 DEF Put
<1>9. /\ \A q \in Rows \ {r} : slots'[q] = slots[q]
      /\ slots'[r] \in {new, NoSlot}
      /\ r[1] = count => slots'[r] = new
  BY <1>8 DEF Types, SlotsType
<1>10. \A q \in Rows : slots'[q] # NoSlot => OwnSlot(slots'[q])
  BY <1>7, <1>9 DEF Own
<1>11. \A q \in Rows : q[1] = count /\ slots[q] # NoSlot =>
          slots'[q] # NoSlot /\ slots'[q].rule = slots[q].rule
  BY <1>7, <1>9
<1>12. promises' = Swept(promises, memo, slots')
  BY DEF Take
<1>13. \A q \in DOMAIN promises' : promises'[q].asks = q[1].object
  BY <1>12, SweptFacts DEF Own
<1>14. UNCHANGED <<count, plan, bundle, chunk, done, reply>>
  BY DEF Take, invocation
<1>. QED
  BY <1>10, <1>11, <1>13, <1>14, SameOwn DEF Running

\* A promise goes on asking for what it asked for.
LEMMA AttemptOwn ==
    ASSUME Types, Own, NEW p, Attempt(p)
    PROVE  Own'
<1>1. UNCHANGED <<count, plan, bundle, chunk, done, reply, slots>>
  BY DEF Attempt, Page, Trouble, FailForGood, invocation
<1>2. ASSUME Sent(p), Broken(p)
      PROVE  \A q \in DOMAIN promises' : promises'[q].asks = q[1].object
  <2>. DEFINE broken == [promises[p] EXCEPT !.status = "broken", !.attempts = 0, !.paid = 0]
  <2>1. /\ DOMAIN promises' \subseteq DOMAIN promises
        /\ \A q \in DOMAIN promises' :
              promises'[q] = IF q = p THEN broken ELSE promises[q]
    BY <1>2, BrokenFacts
  <2>2. p \in DOMAIN promises /\ promises[p] \in Promise
    BY <1>2 DEF Sent, Types, KeptType, PromisesOK
  <2>3. broken.asks = promises[p].asks
    BY <2>2 DEF Promise
  <2>. HIDE DEF broken
  <2>. QED
    BY <2>1, <2>2, <2>3 DEF Own
<1>3. \A q \in DOMAIN promises' : promises'[q].asks = q[1].object
  <2>1. CASE Page(p)
    BY <2>1, PageFacts DEF Own
  <2>2. ASSUME NEW cost \in {1, TimeoutCost}, Trouble(p, cost)
        PROVE  \A q \in DOMAIN promises' : promises'[q].asks = q[1].object
    <3>1. CASE Broken(p)
      BY <1>2, <2>2, <3>1 DEF Trouble
    <3>2. CASE ~Broken(p)
      BY <2>2, <3>2, TroubleFacts DEF Own
    <3>. QED
      BY <3>1, <3>2
  <2>3. CASE FailForGood(p)
    BY <1>2, <2>3 DEF FailForGood
  <2>. QED
    BY <2>1, <2>2, <2>3 DEF Attempt
<1>. QED
  BY <1>1, <1>3, SameOwn DEF Running, Own

LEMMA InvokeOwn ==
    ASSUME Types, Own, NEW changed \in BOOLEAN, Invoke(changed)
    PROVE  Own'
<1>1. plan \in Plans /\ plan \in Seq(Seq(Rule)) /\ 1 \in DOMAIN plan
  BY PlanAssumption DEF Types, ProgressType
<1>2. 0 * ChunkSize <= Len(plan[1])
  BY <1>1, NumberFacts
<1>. DEFINE rules == ChunkOf(plan, 1, 0)
            text == Text(stamp', 1)
            n == count + 1
            opened == Opened(n, rules, text)
<1>3. rules \in Seq(Rule)
  BY <1>1, <1>2, ChunkFacts
<1>4. text \in Nat \X Nat
  BY NumberFacts DEF Text, Invoke, Types, ProgressType
<1>5. /\ slots' = opened /\ count' = n
      /\ plan' = plan /\ bundle' = 1 /\ chunk' = 0 /\ done' = <<>> /\ promises' = promises
  BY DEF Invoke
<1>6. ChunkOf(plan', bundle', chunk') = rules
  BY <1>5
<1>. HIDE DEF rules, text, n
<1>7. /\ \A r \in Rows : opened[r] # NoSlot => OwnSlot(opened[r])
      /\ \A r \in Rows : r[1] = n /\ r[2] \in DOMAIN rules =>
            opened[r] # NoSlot /\ opened[r].rule = rules[r[2]]
  BY <1>3, <1>4, OpenedOwn DEF Types
<1>. HIDE DEF opened
<1>8. InPlace'
  BY <1>5, <1>6, <1>7 DEF InPlace
<1>9. DOMAIN done' = {}
  BY <1>5
<1>. QED
  BY <1>5, <1>7, <1>8, <1>9 DEF Own

\* The entries a chunk adds, and how they came about.
LEMMA DoneFacts ==
    ASSUME Types, Places, GoOn
    PROVE  \A i \in DOMAIN done' :
              \/ i \in DOMAIN done /\ done'[i] = done[i]
              \/ \E m \in DOMAIN ChunkOf(plan, bundle, chunk) : done'[i] = Outcome(<<count, m>>)
<1>. DEFINE rules == ChunkOf(plan, bundle, chunk)
            new == [i \in 1 .. Len(rules) |-> Outcome(<<count, i>>)]
<1>1. rules \in Seq(Rule) /\ bundle \in DOMAIN plan
  <2>1. bundle \in DOMAIN plan /\ bundle <= Len(plan)
    BY GoOnFacts DEF GoOn
  <2>2. plan \in Plans /\ chunk \in Nat /\ chunk * ChunkSize <= Len(plan[bundle])
    BY <2>1 DEF Types, ProgressType, Places
  <2>. QED
    BY <2>1, <2>2, ChunkFacts
<1>2. done' = done \o new /\ done \in Seq(Entry)
  BY DEF GoOn, Types, ProgressType
<1>. HIDE DEF rules
<1>3. new \in Seq(Entry) /\ Len(new) = Len(rules) /\ DOMAIN rules = 1 .. Len(rules)
  <2>1. Len(rules) \in Nat /\ DOMAIN rules = 1 .. Len(rules)
    BY <1>1
  <2>2. \A i \in 1 .. Len(rules) : Outcome(<<count, i>>) \in Entry
    BY <2>1, OutcomeType
  <2>. QED
    BY <2>1, <2>2
<1>4. \A i \in DOMAIN rules : new[i] = Outcome(<<count, i>>)
  BY <1>3
<1>. HIDE DEF new
<1>5. /\ Len(done') = Len(done) + Len(new)
      /\ \A i \in DOMAIN done : done'[i] = done[i]
      /\ \A i \in 1 .. Len(new) : done'[Len(done) + i] = new[i]
  <2>1. /\ Len(done \o new) = Len(done) + Len(new)
        /\ \A i \in DOMAIN done : (done \o new)[i] = done[i]
        /\ \A i \in 1 .. Len(new) : (done \o new)[Len(done) + i] = new[i]
    <3>1. done \in Seq(Entry) /\ new \in Seq(Entry)
      BY <1>2, <1>3
    <3>. QED
      BY ONLY <3>1, ConcatFacts
  <2>. QED
    BY <1>2, <2>1
<1>6. done' \in Seq(Entry)
  BY <1>2, <1>3
<1>7. ASSUME NEW i \in DOMAIN done', i \notin DOMAIN done
      PROVE  \E m \in DOMAIN rules : done'[i] = Outcome(<<count, m>>)
  <2>1. i - Len(done) \in 1 .. Len(new) /\ i = Len(done) + (i - Len(done))
    BY <1>2, <1>3, <1>5, <1>6, <1>7
  <2>2. done'[i] = new[i - Len(done)]
    BY <1>5, <2>1
  <2>. QED
    BY <1>3, <1>4, <2>1, <2>2
<1>. QED
  BY <1>5, <1>7 DEF rules

\* A rule that is done has heard of both its objects.
LEMMA OutcomeOwn ==
    ASSUME Types, Places, Own, GoOn, NEW m \in DOMAIN ChunkOf(plan, bundle, chunk)
    PROVE  LET new == Outcome(<<count, m>>)
           IN new.failed <=> Fails(plan[new.of[1]][new.of[2]])
<1>. DEFINE r == <<count, m>>
            rules == ChunkOf(plan, bundle, chunk)
            slot == slots[r]
<1>1. /\ plan \in Plans /\ bundle \in DOMAIN plan /\ chunk \in Nat
      /\ chunk * ChunkSize <= Len(plan[bundle])
  <2>1. bundle \in DOMAIN plan /\ bundle <= Len(plan)
    BY GoOnFacts DEF GoOn
  <2>. QED
    BY <2>1 DEF Types, ProgressType, Places
<1>2. /\ rules \in Seq(Rule) /\ Len(rules) <= ChunkSize
      /\ rules[m] = plan[bundle][chunk * ChunkSize + m]
  <2>1. /\ rules \in Seq(Rule)
        /\ rules[m] = plan[bundle][chunk * ChunkSize + m]
        /\ Len(rules) = IF Len(plan[bundle]) < chunk * ChunkSize + ChunkSize
                        THEN Len(plan[bundle]) - chunk * ChunkSize ELSE ChunkSize
        /\ chunk * ChunkSize \in Nat
    BY <1>1, ChunkFacts
  <2>2. Len(plan[bundle]) \in Nat
    BY <1>1, PlanAssumption
  <2>. DEFINE first == chunk * ChunkSize
  <2>. HIDE DEF first, rules
  <2>3. Len(rules) <= ChunkSize
    BY <2>1, <2>2, NumberFacts DEF first
  <2>. QED
    BY <2>1, <2>3
<1>3. Running /\ bundle <= Len(plan)
  BY DEF GoOn
<1>4. r \in Rows
  <2>1. count \in 1 .. MaxInvocations
    BY <1>3, NumberFacts DEF Running, Types, ProgressType
  <2>2. m \in 1 .. ChunkSize
    BY <1>2, NumberFacts
  <2>. QED
    BY <2>1, <2>2 DEF Rows
<1>5. slot # NoSlot /\ slot.rule = rules[m]
  BY <1>3, <1>4 DEF Own, InPlace
<1>6. slot.end \in {"failed", "resolved"} /\ OwnSlot(slot)
  BY <1>4, <1>5 DEF GoOn, Current, Own
<1>. HIDE DEF slot, rules
<1>7. slot.end = "failed" \/ "none" \in {slot.source, slot.destination} <=> Fails(rules[m])
  <2>1. CASE slot.end = "failed"
    BY <1>5, <1>6, <2>1 DEF OwnSlot, Fails
  <2>2. CASE slot.end = "resolved"
    BY <1>5, <1>6, <2>2 DEF OwnSlot, Fails, Heeds, HasNone
  <2>. QED
    BY <1>6, <2>1, <2>2
<1>8. /\ Outcome(r).of = <<bundle, chunk * ChunkSize + m>>
      /\ Outcome(r).failed = (slot.end = "failed" \/ "none" \in {slot.source, slot.destination})
  BY DEF Outcome, slot
<1>. DEFINE new == Outcome(r)
<1>. HIDE DEF new
<1>9. plan[new.of[1]][new.of[2]] = rules[m]
  BY <1>2, <1>8 DEF new
<1>10. new.failed <=> Fails(rules[m])
  BY <1>7, <1>8 DEF new
<1>. QED
  BY <1>9, <1>10 DEF new

LEMMA GoOnOwn ==
    ASSUME Types, Places, Own, GoOn
    PROVE  Own'
<1>1. plan \in Plans /\ plan \in Seq(Seq(Rule))
  BY PlanAssumption DEF Types, ProgressType
<1>2. /\ bundle' \in 1 .. Len(plan) + 1 /\ chunk' \in Nat
      /\ bundle' <= Len(plan) => chunk' * ChunkSize <= Len(plan[bundle'])
  BY GoOnFacts
<1>. DEFINE rules == IF bundle' <= Len(plan) THEN ChunkOf(plan, bundle', chunk') ELSE <<>>
            text == Text(stamp, bundle')
            opened == Opened(count, rules, text)
<1>3. rules \in Seq(Rule)
  <2>1. CASE bundle' <= Len(plan)
    <3>1. bundle' \in DOMAIN plan
      BY <1>1, <1>2, <2>1
    <3>. QED
      BY <1>1, <1>2, <2>1, <3>1, ChunkFacts
  <2>2. CASE ~(bundle' <= Len(plan))
    BY <2>2
  <2>. QED
    BY <2>1, <2>2
<1>4. text \in Nat \X Nat
  BY <1>2, NumberFacts DEF Text, Types, ProgressType
<1>5. slots' = opened /\ UNCHANGED <<count, plan, promises>>
  BY DEF GoOn
<1>6. bundle' <= Len(plan') => ChunkOf(plan', bundle', chunk') = rules
  BY <1>5
<1>. HIDE DEF rules, text
<1>7. /\ \A r \in Rows : opened[r] # NoSlot => OwnSlot(opened[r])
      /\ \A r \in Rows : r[1] = count /\ r[2] \in DOMAIN rules =>
            opened[r] # NoSlot /\ opened[r].rule = rules[r[2]]
  BY <1>3, <1>4, OpenedOwn DEF Types
<1>. HIDE DEF opened
<1>8. InPlace'
  BY <1>5, <1>6, <1>7 DEF InPlace
<1>9. \A i \in DOMAIN done' :
         done'[i].failed <=> Fails(plan[done'[i].of[1]][done'[i].of[2]])
  BY DoneFacts, OutcomeOwn DEF Own
<1>. QED
  BY <1>5, <1>7, <1>8, <1>9 DEF Own

LEMMA NextOwn ==
    ASSUME Types, Places, Own, [Next]_vars
    PROVE  Own'
<1>1. ASSUME NEW changed \in BOOLEAN, Invoke(changed) PROVE Own'
  BY <1>1, InvokeOwn
<1>2. CASE GoOn
  BY <1>2, GoOnOwn
<1>3. CASE Answer
  BY <1>3, SameOwn DEF Answer, invocation, Running, Own
<1>4. CASE Refuse
  BY <1>4, SameOwn DEF Refuse, invocation, Running, Own
<1>5. ASSUME NEW r \in Rows, Ask(r) \/ Take(r) PROVE Own'
  BY <1>5, AskOwn, TakeOwn
<1>6. ASSUME NEW p, Attempt(p) PROVE Own'
  BY <1>6, AttemptOwn
<1>7. ASSUME NEW k, Expire(k) PROVE Own'
  <2>1. promises' = Swept(promises, memo', slots)
    BY <1>7 DEF Expire
  <2>2. \A p \in DOMAIN promises' : promises'[p].asks = p[1].object
    BY <2>1, SweptFacts DEF Own
  <2>. QED
    BY <1>7, <2>2, SameOwn DEF Expire, invocation, Running, Own
<1>8. CASE Recycle
  <2>1. /\ DOMAIN promises' = {} /\ DOMAIN done' = {} /\ ~Running'
        /\ \A r \in Rows : slots'[r] = NoSlot
    BY <1>8 DEF Recycle, Nothing, Running, Idle
  <2>. QED
    BY <2>1 DEF Own, InPlace
<1>9. CASE UNCHANGED vars
  BY <1>9, SameOwn DEF vars, Running, Own
<1>. QED
  BY <1>1, <1>2, <1>3, <1>4, <1>5, <1>6, <1>7, <1>8, <1>9 DEF Next

-----------------------------------------------------------------------------
(* The theorems.                                                           *)

LEMMA Induction == Spec => []IInv
<1>1. Init => IInv
  BY InitTypes, InitPlaces, InitOwn, FreshEnvironmentCounted DEF IInv, Errors, Init, Idle
<1>2. IInv /\ [Next]_vars => IInv'
  BY NextTypes, NextPlaces, NextCounted, NextErrors, NextOwn DEF IInv
<1>. QED
  BY <1>1, <1>2, PTL DEF Spec

\* The variables keep their types, tokens never exceed the quota they began with, and
\* who waits waits for a promise there is, whatever is swept, expires or breaks.
THEOREM TypeCorrect == Spec => []TypeOK
<1>1. IInv => TypeOK
  <2>. SUFFICES ASSUME IInv PROVE TypeOK
    OBVIOUS
  <2>1. ProgressType /\ KeptType /\ SlotsType /\ WaitIn(slots, promises) /\ GoodIn(memo, promises)
    BY DEF IInv, Types
  <2>2. \A r \in Rows : slots[r] # NoSlot =>
           slots[r].end \in {"source", "destination", "failed", "resolved", "rejected"}
    BY <2>1 DEF SlotsType, Slot
  <2>. QED
    BY <2>1, <2>2 DEF TypeOK, ProgressType, KeptType, WaitIn, GoodIn
<1>. QED
  BY <1>1, Induction, PTL

\* A group is refused for a cause this invocation saw, or for failures as many as the
\* limits allow, whatever promises earlier invocations left in the environment.
THEOREM RefusalsHaveCauses == Spec => []RefusedForACause
<1>1. IInv => RefusedForACause
  BY DEF IInv, Errors, RefusedForACause
<1>. QED
  BY <1>1, Induction, PTL

\* What goes to the rule group are all rules in their order, each numbered with its
\* place, for all groups and sizes of a chunk.
THEOREM PlacesAreSids == Spec => []SidsArePlaces
<1>1. IInv => SidsArePlaces
  <2>. SUFFICES ASSUME IInv PROVE SidsArePlaces
    OBVIOUS
  <2>1. Places /\ plan \in Seq(Seq(Rule)) /\ bundle \in Nat
    BY PlanAssumption DEF IInv, Types, ProgressType
  <2>2. reply = "200" => \A b \in DOMAIN plan : \A k \in DOMAIN plan[b] : Past(b, k)
    BY <2>1 DEF Places, Past
  <2>. QED
    BY <2>1, <2>2 DEF Places, SidsArePlaces
<1>. QED
  BY <1>1, Induction, PTL

\* A rule that is done is FAILED just when one of its own objects is gone or has no
\* address, whichever promises it was answered with and whoever asked for them.
THEOREM AddressesAreOwn == Spec => []OwnAddresses
<1>1. IInv => OwnAddresses
  BY DEF IInv, Own, OwnAddresses
<1>. QED
  BY <1>1, Induction, PTL

=============================================================================
