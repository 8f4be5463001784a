------------------------ MODULE SyncSchedulerProofs ------------------------
(***************************************************************************)
(* Proofs about SyncScheduler, for every number of bundles, rule groups    *)
(* and events, with partial reads or without.                              *)
(***************************************************************************)
EXTENDS SyncScheduler, TLAPS

-----------------------------------------------------------------------------
(* Type correctness.                                                       *)

LEMMA NoCallType == NoCall \in Call
BY DEF NoCall, Call, Keys

LEMMA InitTypeOK == Init => TypeOK
<1>. SUFFICES ASSUME Init PROVE TypeOK
  OBVIOUS
<1>1. calls \in [Events -> [Keys -> Call]]
  BY NoCallType DEF Init
<1>2. \A e \in Events : \A g \in Keys : calls[e][g].phase = "free"
  BY DEF Init, NoCall
<1>. QED
  BY <1>1, <1>2, BoundsAssumption, FirstAssumption DEF Init, TypeOK, Keys

LEMMA DoneType ==
    ASSUME NEW c \in Call, NEW code \in {"200", "error"}
    PROVE  /\ Done(c, code) \in Call
           /\ Done(c, code).ids = c.ids
           /\ Done(c, code).phase = "done"
BY DEF Call, NoCall, Keys, Done

LEMMA DecidedType ==
    ASSUME NEW c \in Call, NEW verdict \in {"taken", "refused"}, NEW bad \in SUBSET Bundles
    PROVE  /\ Decided(c, verdict, bad) \in Call
           /\ Decided(c, verdict, bad).ids = c.ids
           /\ Decided(c, verdict, bad).phase = verdict
BY DEF Call, Keys, Decided

LEMMA ReadyType ==
    ASSUME NEW c \in Call, NEW a \in Keys, NEW texts \in SUBSET Bundles
    PROVE  /\ Ready(c, a, texts) \in Call
           /\ Ready(c, a, texts).ids = c.ids
           /\ Ready(c, a, texts).phase = "ready"
           /\ Ready(c, a, texts).target = a
           /\ Ready(c, a, texts).texts = texts
BY DEF Call, Ready

LEMMA SentType ==
    ASSUME NEW ids \in SUBSET Bundles
    PROVE  /\ Sent(ids) \in Call
           /\ Sent(ids).ids = ids
           /\ Sent(ids).phase = "sent"
BY DEF NoCall, Call, Keys, Sent

CallsType ==
    /\ calls \in [Events -> [Keys -> Call]]
    /\ \A e \in Events : \A g \in Keys : calls[e][g].phase = "done" => pc[e] = "wait"

\* The answer of a call: the call is done or forgotten, all others stay.
LEMMA AnswerEffect ==
    ASSUME TypeOK, NEW e \in Events, NEW g \in Keys,
           NEW code \in {"200", "error"}, Answer(e, g, code), pc' = pc
    PROVE  /\ CallsType'
           /\ \A f \in Events, k \in Keys :
                \/ calls'[f][k] = calls[f][k]
                \/ /\ calls'[f][k].phase # "ready"
                   /\ calls'[f][k].ids \subseteq calls[f][k].ids
<1>. DEFINE c == Done(calls[e][g], code)
            new == IF pc[e] = "wait" THEN c ELSE NoCall
<1>1. calls[e][g] \in Call
  BY DEF TypeOK
<1>2. c \in Call /\ c.ids = calls[e][g].ids /\ c.phase = "done"
  BY <1>1, DoneType
<1>3. NoCall \in Call /\ NoCall.ids = {} /\ NoCall.phase = "free"
  BY NoCallType DEF NoCall
<1>4. calls' = [calls EXCEPT ![e][g] = new]
  BY DEF Answer
<1>5. new \in Call /\ (new.phase = "done" => pc[e] = "wait")
  BY <1>2, <1>3
<1>6. calls' \in [Events -> [Keys -> Call]]
  BY <1>4, <1>5 DEF TypeOK
<1>7. \A f \in Events, k \in Keys :
        calls'[f][k] = IF f = e /\ k = g THEN new ELSE calls[f][k]
  BY <1>4 DEF TypeOK
<1>8. CallsType'
  BY <1>5, <1>6, <1>7 DEF CallsType, TypeOK
<1>9. new.phase # "ready" /\ new.ids \subseteq calls[e][g].ids
  BY <1>2, <1>3
<1>10. \A f \in Events, k \in Keys :
        \/ calls'[f][k] = calls[f][k]
        \/ calls'[f][k].phase # "ready" /\ calls'[f][k].ids \subseteq calls[f][k].ids
  BY <1>7, <1>9
<1>. QED
  BY <1>8, <1>10

\* The decision of ANFW: the call has nothing left to send, all others stay.
LEMMA DecideEffect ==
    ASSUME TypeOK, NEW e \in Events, NEW g \in Keys, NEW verdict \in {"taken", "refused"},
           NEW bad \in SUBSET Bundles, Decide(e, g, verdict, bad), pc' = pc
    PROVE  /\ CallsType'
           /\ \A f \in Events, k \in Keys :
                \/ calls'[f][k] = calls[f][k]
                \/ /\ calls'[f][k].phase # "ready"
                   /\ calls'[f][k].ids \subseteq calls[f][k].ids
<1>. DEFINE new == Decided(calls[e][g], verdict, bad)
<1>1. calls[e][g] \in Call
  BY DEF TypeOK
<1>2. new \in Call /\ new.ids = calls[e][g].ids /\ new.phase = verdict
  BY <1>1, DecidedType
<1>3. calls' = [calls EXCEPT ![e][g] = new]
  BY DEF Decide
<1>. HIDE DEF new
<1>4. calls' \in [Events -> [Keys -> Call]]
  BY <1>2, <1>3 DEF TypeOK
<1>5. \A f \in Events, k \in Keys :
        calls'[f][k] = IF f = e /\ k = g THEN new ELSE calls[f][k]
  BY <1>3 DEF TypeOK
<1>6. CallsType'
  BY <1>2, <1>4, <1>5 DEF CallsType, TypeOK
<1>. QED
  BY <1>2, <1>5, <1>6

LEMMA RedeliverType ==
    ASSUME TypeOK, NEW e \in Events, Redeliver(e)
    PROVE  /\ pc' \in [Events -> {"none", "queued", "scan", "wait"}]
           /\ attempt' \in [Events -> 0..MaxRetries]
           /\ spare' = spare
           /\ \A f \in Events \ {e} : pc'[f] = pc[f]
BY BoundsAssumption DEF TypeOK, Redeliver

\* A call that reads the bundles is answered, or ready to call ANFW with
\* rules of bundles that all target its rule group.
LEMMA ReadCases ==
    ASSUME TypeOK, NEW e \in Events, NEW g \in Keys, Read(e, g)
    PROVE  \/ Answer(e, g, "error")
           \/ \E a \in Keys, texts \in SUBSET Bundles :
                /\ calls' = [calls EXCEPT ![e][g] =
                    Ready(calls[e][g], a, texts)]
                /\ \A b \in texts : bundles[b] = a
<1>1. PICK found \in SUBSET {b \in calls[e][g].ids : bundles[b] # Absent} :
        \/ found = {} /\ Answer(e, g, "error")
        \/ /\ \E b, c \in found : bundles[b] # bundles[c]
           /\ Answer(e, g, "error")
        \/ \E a \in Keys :
           /\ found # {} /\ \A b \in found : bundles[b] = a
           /\ calls' = [calls EXCEPT ![e][g] =
                 Ready(calls[e][g], a, found \cap filled)]
  BY DEF Read
<1>2. found \cap filled \in SUBSET Bundles
  BY DEF TypeOK
<1>3. CASE Answer(e, g, "error")
  BY <1>3
<1>4. CASE \E a \in Keys :
           /\ found # {} /\ \A b \in found : bundles[b] = a
           /\ calls' = [calls EXCEPT ![e][g] =
                 Ready(calls[e][g], a, found \cap filled)]
  <2>1. PICK a \in Keys :
           /\ \A b \in found : bundles[b] = a
           /\ calls' = [calls EXCEPT ![e][g] =
                 Ready(calls[e][g], a, found \cap filled)]
    BY <1>4
  <2>2. \A b \in found \cap filled : bundles[b] = a
    BY <2>1
  <2>. QED
    BY <1>2, <2>1, <2>2
<1>. QED
  BY <1>1, <1>3, <1>4

LEMMA NextTypeOK == TypeOK /\ [Next]_vars => TypeOK'
<1>. SUFFICES ASSUME TypeOK, [Next]_vars PROVE TypeOK'
  OBVIOUS
<1>. USE DEF apiVars, roundVars
<1>1. ASSUME NEW b \in Bundles, NEW a \in Arns, CreateBundle(b, a) PROVE TypeOK'
  <2>1. a \in Keys
    BY DEF Keys
  <2>. QED
    BY <1>1, <2>1 DEF CreateBundle, Target, TypeOK
<1>2. ASSUME NEW b \in Bundles, NEW a \in Arns, UpdateBundle(b, a) PROVE TypeOK'
  <2>1. a \in Keys
    BY DEF Keys
  <2>. QED
    BY <1>2, <2>1 DEF UpdateBundle, Target, TypeOK
<1>3. ASSUME NEW b \in Bundles, DeleteBundle(b) PROVE TypeOK'
  BY <1>3 DEF DeleteBundle, TypeOK
<1>4. ASSUME NEW b \in Bundles, Fill(b) PROVE TypeOK'
  BY <1>4 DEF Fill, TypeOK
<1>5. ASSUME NEW b \in Bundles, Empty(b) PROVE TypeOK'
  BY <1>5 DEF Empty, TypeOK
<1>6. ASSUME NEW e \in Events, Tick(e) PROVE TypeOK'
  <2>1. \A f \in Events : \A g \in Keys : calls'[f][g].phase = "done" => pc'[f] = "wait"
    BY <1>6 DEF Tick, TypeOK
  <2>. QED
    BY <1>6, <2>1, BoundsAssumption DEF Tick, TypeOK
<1>7. ASSUME NEW e \in Events, Retry(e) PROVE TypeOK'
  BY <1>7 DEF Retry, TypeOK
<1>8. ASSUME NEW e \in Events, Invoke(e) PROVE TypeOK'
  <2>1. PICK scanned \in SUBSET {b \in Bundles : bundles[b] # Absent} :
          calls' = [calls EXCEPT ![e] =
             [g \in Keys |-> IF Members(scanned, g) = {} THEN NoCall
                             ELSE Sent(Members(scanned, g))]]
    BY <1>8 DEF Invoke
  <2>2. \A g \in Keys : Members(scanned, g) \in SUBSET Bundles
    BY DEF Members
  <2>3. \A g \in Keys :
          Sent(Members(scanned, g)) \in Call /\ Sent(Members(scanned, g)).phase = "sent"
    BY <2>2, SentType
  <2>4. calls' \in [Events -> [Keys -> Call]]
    BY <2>1, <2>3, NoCallType DEF TypeOK
  <2>5. /\ pc' = [pc EXCEPT ![e] = "wait"]
        /\ UNCHANGED <<attempt, spare, bundles, filled, requests, targeted, deleted,
                       carried, stamps>>
    BY <1>8 DEF Invoke
  <2>6. \A f \in Events : \A g \in Keys : calls'[f][g].phase = "done" => pc'[f] = "wait"
    BY <2>1, <2>3, <2>5 DEF TypeOK, NoCall
  <2>. QED
    BY <2>4, <2>5, <2>6 DEF TypeOK
<1>9. ASSUME NEW e \in Events, Collect(e) PROVE TypeOK'
  <2>1. calls' = [calls EXCEPT ![e] = [g \in Keys |-> NoCall]]
    BY <1>9 DEF Collect
  <2>2. NoCall \in Call /\ NoCall.phase = "free"
    BY NoCallType DEF NoCall
  <2>3. calls' \in [Events -> [Keys -> Call]]
    BY <2>1, <2>2 DEF TypeOK
  <2>4. \A g \in Keys : calls[e][g].ids \subseteq Bundles
    BY DEF TypeOK, Call
  <2>5. Succeeded(e) \subseteq Bundles
    BY <2>4 DEF Succeeded, Named
  <2>6. stamps' \in [Events -> SUBSET Bundles]
    BY <1>9, <2>5 DEF Collect, TypeOK
  <2>7. /\ pc' \in [Events -> {"none", "queued", "scan", "wait"}]
        /\ attempt' \in [Events -> 0..MaxRetries]
        /\ spare' = spare
        /\ \A f \in Events \ {e} : pc'[f] = pc[f]
    BY <1>9, RedeliverType DEF Collect, TypeOK
  <2>8. \A f \in Events : \A g \in Keys : calls'[f][g].phase = "done" => pc'[f] = "wait"
    BY <2>1, <2>2, <2>7 DEF TypeOK
  <2>9. UNCHANGED <<bundles, filled, requests, targeted, deleted, carried>>
    BY <1>9 DEF Collect
  <2>. QED
    BY <2>3, <2>6, <2>7, <2>8, <2>9 DEF TypeOK
<1>10. ASSUME NEW e \in Events, FailRun(e) PROVE TypeOK'
  <2>1. calls' = [calls EXCEPT ![e] =
          [g \in Keys |-> IF calls[e][g].phase = "done" THEN NoCall ELSE calls[e][g]]]
    BY <1>10 DEF FailRun
  <2>2. NoCall \in Call /\ NoCall.phase = "free"
    BY NoCallType DEF NoCall
  <2>3. calls' \in [Events -> [Keys -> Call]]
    BY <2>1, <2>2 DEF TypeOK
  <2>4. /\ pc' \in [Events -> {"none", "queued", "scan", "wait"}]
        /\ attempt' \in [Events -> 0..MaxRetries]
        /\ spare' = spare
        /\ \A f \in Events \ {e} : pc'[f] = pc[f]
    BY <1>10, RedeliverType DEF FailRun
  <2>5. \A f \in Events : \A g \in Keys : calls'[f][g].phase = "done" => pc'[f] = "wait"
    BY <2>1, <2>2, <2>4 DEF TypeOK
  <2>6. UNCHANGED <<bundles, filled, requests, targeted, deleted, carried, stamps>>
    BY <1>10 DEF FailRun
  <2>. QED
    BY <2>3, <2>4, <2>5, <2>6 DEF TypeOK
<1>11. ASSUME NEW e \in Events, NEW b \in Bundles, Stamp(e, b) PROVE TypeOK'
  BY <1>11 DEF Stamp, TypeOK, Keys
<1>12. ASSUME NEW e \in Events, LoseStamps(e) PROVE TypeOK'
  BY <1>12 DEF LoseStamps, TypeOK
<1>13. ASSUME NEW e \in Events, NEW g \in Keys, Read(e, g) PROVE TypeOK'
  <2>1. UNCHANGED <<bundles, filled, requests, targeted, deleted, carried, pc, attempt,
                    spare, stamps>>
    BY <1>13 DEF Read
  <2>2. ASSUME Answer(e, g, "error") PROVE TypeOK'
    BY <2>1, <2>2, AnswerEffect DEF CallsType, TypeOK
  <2>3. ASSUME NEW a \in Keys, NEW texts \in SUBSET Bundles,
               calls' = [calls EXCEPT ![e][g] =
                 Ready(calls[e][g], a, texts)]
        PROVE  TypeOK'
    <3>. DEFINE new == Ready(calls[e][g], a, texts)
    <3>1. calls[e][g] \in Call
      BY DEF TypeOK
    <3>2. new \in Call /\ new.phase = "ready"
      BY <3>1, ReadyType
    <3>3. calls' = [calls EXCEPT ![e][g] = new]
      BY <2>3
    <3>. HIDE DEF new
    <3>4. CallsType'
      BY <2>1, <3>2, <3>3 DEF CallsType, TypeOK
    <3>. QED
      BY <2>1, <3>4 DEF CallsType, TypeOK
  <2>. QED
    BY <1>13, <2>2, <2>3, ReadCases
<1>14. ASSUME NEW e \in Events, NEW g \in Keys, Apply(e, g) PROVE TypeOK'
  <2>1. calls[e][g].texts \subseteq Bundles /\ calls[e][g].target \in Arns
    BY <1>14 DEF Apply, AtFirewall, TypeOK, Call
  <2>2. carried' \in [Arns -> SUBSET Bundles]
    BY <1>14, <2>1 DEF Apply, Carry, TypeOK
  <2>3. \E bad \in SUBSET Bundles : Decide(e, g, "taken", bad)
    BY <1>14, <2>1 DEF Apply
  <2>4. UNCHANGED <<bundles, filled, requests, targeted, deleted, pc, attempt, spare, stamps>>
    BY <1>14 DEF Apply
  <2>. QED
    BY <2>2, <2>3, <2>4, DecideEffect DEF CallsType, TypeOK
<1>15. ASSUME NEW e \in Events, NEW g \in Keys, Refuse(e, g) PROVE TypeOK'
  <2>1. calls[e][g].texts \subseteq Bundles
    BY DEF TypeOK, Call
  <2>2. \E bad \in SUBSET Bundles : Decide(e, g, "refused", bad)
    BY <1>15, <2>1 DEF Refuse
  <2>3. UNCHANGED <<bundles, filled, requests, targeted, deleted, carried, pc, attempt,
                    spare, stamps>>
    BY <1>15 DEF Refuse
  <2>. QED
    BY <2>2, <2>3, DecideEffect DEF CallsType, TypeOK
<1>16. ASSUME NEW e \in Events, NEW g \in Keys,
              ApplyDefault(e, g) \/ LoseDefault(e, g) \/ LeaveDefault(e, g)
       PROVE  TypeOK'
  <2>1. carried' \in [Arns -> SUBSET Bundles]
    BY <1>16 DEF ApplyDefault, LoseDefault, LeaveDefault, Carry, TypeOK
  <2>2. /\ \E code \in {"200", "error"} : Answer(e, g, code)
        /\ UNCHANGED <<bundles, filled, requests, targeted, deleted, pc, attempt, spare,
                       stamps>>
    BY <1>16 DEF ApplyDefault, LoseDefault, LeaveDefault, Default
  <2>. QED
    BY <2>1, <2>2, AnswerEffect DEF CallsType, TypeOK
<1>17. ASSUME NEW e \in Events, NEW g \in Keys, Record(e, g) \/ FailCall(e, g) PROVE TypeOK'
  <2>1. filled' \subseteq Bundles
    BY <1>17 DEF Record, FailCall, TypeOK
  <2>2. /\ \E code \in {"200", "error"} : Answer(e, g, code)
        /\ UNCHANGED <<bundles, requests, targeted, deleted, carried, pc, attempt, spare,
                       stamps>>
    BY <1>17 DEF Record, FailCall
  <2>. QED
    BY <2>1, <2>2, AnswerEffect DEF CallsType, TypeOK
<1>18. CASE UNCHANGED vars
  BY <1>18 DEF vars, TypeOK
<1>. QED
  BY <1>1, <1>2, <1>3, <1>4, <1>5, <1>6, <1>7, <1>8, <1>9, <1>10, <1>11, <1>12,
     <1>13, <1>14, <1>15, <1>16, <1>17, <1>18 DEF Next, ApiNext, RunNext, CallNext

\* Every variable keeps its type; only calls of a waiting run have answers
\* that are still to be collected.
THEOREM TypeCorrect == Spec => []TypeOK
BY InitTypeOK, NextTypeOK, PTL DEF Spec

-----------------------------------------------------------------------------
(* The invariant.                                                          *)

LEMMA InitIInv == Init => IInv
<1>. SUFFICES ASSUME Init PROVE IInv
  OBVIOUS
<1>1. TypeOK
  BY InitTypeOK
<1>2. \A e \in Events : \A g \in Keys :
        calls[e][g].phase = "free" /\ calls[e][g].ids = {}
  BY DEF Init, NoCall
<1>3. ArnLostOnlyByDelete /\ TargetsRecorded
  BY ArnsAssumption, FirstAssumption DEF Init, ArnLostOnlyByDelete, TargetsRecorded
<1>. QED
  BY <1>1, <1>2, <1>3 DEF Init, IInv, CarriedWasTargeted, ReadyWasTargeted, NamesKnown

\* Every call stays, or is over, or has not read anything yet.
CallsQuiet ==
    \A e \in Events, g \in Keys :
        \/ calls'[e][g] = calls[e][g]
        \/ /\ calls'[e][g].phase # "ready"
           /\ \A b \in calls'[e][g].ids : b \in calls[e][g].ids \/ bundles[b] # Absent

\* The histories grow, and no identifier loses its item unnoticed.
HistoriesGrow ==
    /\ \A b \in Bundles : targeted[b] \subseteq targeted'[b]
    /\ \A b : Known(b) => Known(b)'

\* A step that reads nothing for a call: the traces of all calls stay.
LEMMA CallsKept ==
    ASSUME TypeOK, ReadyWasTargeted, NamesKnown, CallsQuiet, HistoriesGrow,
           \A e \in Events : \A b \in stamps'[e] :
                b \in stamps[e] \/ \E g \in Keys : b \in calls[e][g].ids
    PROVE  ReadyWasTargeted' /\ NamesKnown'
<1>1. ReadyWasTargeted'
  <2>. SUFFICES ASSUME NEW e \in Events, NEW g \in Keys, calls'[e][g].phase = "ready",
                       calls'[e][g].target \in Arns, NEW b \in calls'[e][g].texts
                PROVE  calls'[e][g].target \in targeted'[b]
    BY DEF ReadyWasTargeted
  <2>1. calls'[e][g] = calls[e][g]
    BY DEF CallsQuiet
  <2>2. calls[e][g].target \in targeted[b] /\ b \in Bundles
    BY <2>1 DEF ReadyWasTargeted, TypeOK, Call
  <2>. QED
    BY <2>1, <2>2 DEF HistoriesGrow
<1>2. ASSUME NEW e \in Events, NEW b \in stamps'[e] PROVE Known(b)'
  <2>1. Known(b)
    BY <1>2 DEF NamesKnown
  <2>. QED
    BY <2>1 DEF HistoriesGrow
<1>3. ASSUME NEW e \in Events, NEW g \in Keys, NEW b \in calls'[e][g].ids PROVE Known(b)'
  <2>1. b \in calls[e][g].ids \/ bundles[b] # Absent
    BY <1>3 DEF CallsQuiet
  <2>2. Known(b)
    BY <2>1 DEF NamesKnown, Known
  <2>. QED
    BY <2>2 DEF HistoriesGrow
<1>. QED
  BY <1>1, <1>2, <1>3 DEF NamesKnown

\* A step that leaves tables and rule groups alone.
LEMMA RunStep ==
    ASSUME IInv, TypeOK', UNCHANGED <<bundles, targeted, deleted, carried>>, CallsQuiet,
           \A e \in Events : \A b \in stamps'[e] :
                b \in stamps[e] \/ \E g \in Keys : b \in calls[e][g].ids
    PROVE  IInv'
<1>1. HistoriesGrow
  BY DEF HistoriesGrow, Known
<1>2. ReadyWasTargeted' /\ NamesKnown'
  BY <1>1, CallsKept DEF IInv
<1>3. CarriedWasTargeted' /\ ArnLostOnlyByDelete' /\ TargetsRecorded'
  BY DEF IInv, CarriedWasTargeted, ArnLostOnlyByDelete, TargetsRecorded
<1>. QED
  BY <1>2, <1>3 DEF IInv

\* A write to the bundles table, by the API or by a timestamp.
LEMMA TableStep ==
    ASSUME IInv, TypeOK', UNCHANGED <<carried, calls>>, HistoriesGrow,
           \A e \in Events : stamps'[e] \subseteq stamps[e],
           ArnLostOnlyByDelete', TargetsRecorded'
    PROVE  IInv'
<1>1. CallsQuiet
  BY DEF CallsQuiet
<1>2. ReadyWasTargeted' /\ NamesKnown'
  BY <1>1, CallsKept DEF IInv
<1>3. CarriedWasTargeted'
  <2>. SUFFICES ASSUME NEW a \in Arns, NEW b \in carried[a] PROVE a \in targeted'[b]
    BY DEF CarriedWasTargeted
  <2>1. b \in Bundles /\ a \in targeted[b]
    BY DEF IInv, CarriedWasTargeted, TypeOK
  <2>. QED
    BY <2>1 DEF HistoriesGrow
<1>. QED
  BY <1>2, <1>3 DEF IInv

LEMMA TargetIInv ==
    ASSUME IInv, TypeOK', NEW b \in Bundles, NEW a \in Arns, Target(b, a),
           UNCHANGED <<deleted, carried, calls, stamps>>
    PROVE  IInv'
<1>1. a # NoArn /\ a # Absent
  BY ArnsAssumption
<1>2. HistoriesGrow
  <2>1. \A c \in Bundles : targeted[c] \subseteq targeted'[c]
    BY DEF Target, IInv, TypeOK
  <2>2. \A c : Known(c) => Known(c)'
    BY <1>1 DEF Target, Known, IInv, TypeOK
  <2>. QED
    BY <2>1, <2>2 DEF HistoriesGrow
<1>3. ArnLostOnlyByDelete'
  BY <1>1 DEF Target, ArnLostOnlyByDelete, IInv, TypeOK
<1>4. TargetsRecorded'
  BY DEF Target, TargetsRecorded, IInv, TypeOK
<1>. QED
  BY <1>2, <1>3, <1>4, TableStep

LEMMA DeleteBundleIInv ==
    ASSUME IInv, TypeOK', NEW b \in Bundles, DeleteBundle(b)
    PROVE  IInv'
<1>1. /\ bundles' = [bundles EXCEPT ![b] = Absent]
      /\ deleted' = deleted \cup {b}
      /\ UNCHANGED <<targeted, carried, calls, stamps>>
  BY DEF DeleteBundle
<1>2. HistoriesGrow
  BY <1>1 DEF HistoriesGrow, Known, IInv, TypeOK
<1>3. ArnLostOnlyByDelete' /\ TargetsRecorded'
  BY <1>1, ArnsAssumption DEF ArnLostOnlyByDelete, TargetsRecorded, IInv, TypeOK
<1>. QED
  BY <1>1, <1>2, <1>3, TableStep

LEMMA StampIInv ==
    ASSUME IInv, TypeOK', NEW e \in Events, NEW b \in Bundles, Stamp(e, b)
    PROVE  IInv'
<1>1. /\ bundles' = [bundles EXCEPT ![b] =
                        IF bundles[b] = Absent THEN NoArn ELSE bundles[b]]
      /\ UNCHANGED <<targeted, deleted, carried, calls>>
  BY DEF Stamp, roundVars
<1>2. \A f \in Events : stamps'[f] \subseteq stamps[f]
  BY DEF Stamp, IInv, TypeOK
<1>3. Known(b)
  BY DEF Stamp, IInv, NamesKnown
<1>4. HistoriesGrow
  BY <1>1, ArnsAssumption DEF HistoriesGrow, Known, IInv, TypeOK
<1>5. ArnLostOnlyByDelete'
  BY <1>1, <1>3 DEF ArnLostOnlyByDelete, Known, IInv, TypeOK
<1>6. TargetsRecorded'
  BY <1>1, ArnsAssumption DEF TargetsRecorded, IInv, TypeOK
<1>. QED
  BY <1>1, <1>2, <1>4, <1>5, <1>6, TableStep

LEMMA InvokeIInv ==
    ASSUME IInv, TypeOK', NEW e \in Events, Invoke(e)
    PROVE  IInv'
<1>1. PICK scanned \in SUBSET {b \in Bundles : bundles[b] # Absent} :
        calls' = [calls EXCEPT ![e] =
           [g \in Keys |-> IF Members(scanned, g) = {} THEN NoCall
                           ELSE Sent(Members(scanned, g))]]
  BY DEF Invoke
<1>2. \A g \in Keys : /\ Members(scanned, g) \in SUBSET Bundles
                      /\ \A b \in Members(scanned, g) : bundles[b] # Absent
  BY DEF Members
<1>3. \A g \in Keys : /\ Sent(Members(scanned, g)).phase = "sent"
                      /\ Sent(Members(scanned, g)).ids = Members(scanned, g)
  BY <1>2, SentType
<1>4. NoCall.phase = "free" /\ NoCall.ids = {}
  BY DEF NoCall
<1>5. CallsQuiet
  <2>. SUFFICES ASSUME NEW f \in Events, NEW g \in Keys
                PROVE  \/ calls'[f][g] = calls[f][g]
                       \/ /\ calls'[f][g].phase # "ready"
                          /\ \A b \in calls'[f][g].ids :
                                b \in calls[f][g].ids \/ bundles[b] # Absent
    BY DEF CallsQuiet
  <2>1. CASE f # e
    BY <1>1, <2>1 DEF IInv, TypeOK
  <2>2. CASE f = e
    <3>1. calls'[f][g] = IF Members(scanned, g) = {} THEN NoCall
                         ELSE Sent(Members(scanned, g))
      BY <1>1, <2>2 DEF IInv, TypeOK
    <3>. QED
      BY <3>1, <1>2, <1>3, <1>4
  <2>. QED
    BY <2>1, <2>2
<1>6. UNCHANGED <<bundles, targeted, deleted, carried, stamps>>
  BY DEF Invoke, apiVars
<1>. QED
  BY <1>5, <1>6, RunStep

LEMMA CollectIInv ==
    ASSUME IInv, TypeOK', NEW e \in Events, Collect(e)
    PROVE  IInv'
<1>1. /\ stamps' = [stamps EXCEPT ![e] = stamps[e] \cup Succeeded(e)]
      /\ calls' = [calls EXCEPT ![e] = [g \in Keys |-> NoCall]]
      /\ UNCHANGED <<bundles, targeted, deleted, carried>>
  BY DEF Collect, apiVars
<1>2. NoCall.phase = "free" /\ NoCall.ids = {}
  BY DEF NoCall
<1>3. CallsQuiet
  BY <1>1, <1>2 DEF CallsQuiet, IInv, TypeOK
<1>4. \A b \in Succeeded(e) : \E g \in Keys : b \in calls[e][g].ids
  BY DEF Succeeded, Named
<1>5. \A f \in Events : \A b \in stamps'[f] :
        b \in stamps[f] \/ \E g \in Keys : b \in calls[f][g].ids
  BY <1>1, <1>4 DEF IInv, TypeOK
<1>. QED
  BY <1>1, <1>3, <1>5, RunStep

LEMMA FailRunIInv ==
    ASSUME IInv, TypeOK', NEW e \in Events, FailRun(e)
    PROVE  IInv'
<1>1. /\ calls' = [calls EXCEPT ![e] =
          [g \in Keys |-> IF calls[e][g].phase = "done" THEN NoCall ELSE calls[e][g]]]
      /\ UNCHANGED <<bundles, targeted, deleted, carried, stamps>>
  BY DEF FailRun, apiVars
<1>2. NoCall.phase = "free" /\ NoCall.ids = {}
  BY DEF NoCall
<1>3. CallsQuiet
  BY <1>1, <1>2 DEF CallsQuiet, IInv, TypeOK
<1>. QED
  BY <1>1, <1>3, RunStep

\* A step of a call behind its reads.
LEMMA CallStep ==
    ASSUME IInv, TypeOK', CallsQuiet, CarriedWasTargeted',
           UNCHANGED <<bundles, targeted, deleted, stamps>>
    PROVE  IInv'
<1>1. HistoriesGrow
  BY DEF HistoriesGrow, Known
<1>2. ReadyWasTargeted' /\ NamesKnown'
  BY <1>1, CallsKept DEF IInv
<1>3. ArnLostOnlyByDelete' /\ TargetsRecorded'
  BY DEF IInv, ArnLostOnlyByDelete, TargetsRecorded
<1>. QED
  BY <1>2, <1>3 DEF IInv

LEMMA AnswerIInv ==
    ASSUME IInv, TypeOK', NEW e \in Events, NEW g \in Keys,
           NEW code \in {"200", "error"}, Answer(e, g, code),
           UNCHANGED <<pc, bundles, targeted, deleted, stamps>>, CarriedWasTargeted'
    PROVE  IInv'
<1>1. CallsQuiet
  BY AnswerEffect DEF CallsQuiet, IInv
<1>. QED
  BY <1>1, CallStep

LEMMA DecideIInv ==
    ASSUME IInv, TypeOK', NEW e \in Events, NEW g \in Keys,
           NEW verdict \in {"taken", "refused"}, NEW bad \in SUBSET Bundles,
           Decide(e, g, verdict, bad),
           UNCHANGED <<pc, bundles, targeted, deleted, stamps>>, CarriedWasTargeted'
    PROVE  IInv'
<1>1. CallsQuiet
  BY DecideEffect DEF CallsQuiet, IInv
<1>. QED
  BY <1>1, CallStep

LEMMA ReadIInv ==
    ASSUME IInv, TypeOK', NEW e \in Events, NEW g \in Keys, Read(e, g)
    PROVE  IInv'
<1>1. UNCHANGED <<pc, bundles, targeted, deleted, carried, stamps>>
  BY DEF Read, apiVars, roundVars
<1>2. CarriedWasTargeted'
  BY <1>1 DEF IInv, CarriedWasTargeted
<1>3. ASSUME Answer(e, g, "error") PROVE IInv'
  BY <1>1, <1>2, <1>3, AnswerIInv
<1>4. ASSUME NEW a \in Keys, NEW texts \in SUBSET Bundles,
             calls' = [calls EXCEPT ![e][g] = Ready(calls[e][g], a, texts)],
             \A b \in texts : bundles[b] = a
      PROVE  IInv'
  <2>. DEFINE new == Ready(calls[e][g], a, texts)
  <2>1. calls[e][g] \in Call
    BY DEF IInv, TypeOK
  <2>2. new.ids = calls[e][g].ids /\ new.target = a /\ new.texts = texts
    BY <2>1, ReadyType
  <2>3. calls' = [calls EXCEPT ![e][g] = new]
    BY <1>4
  <2>. HIDE DEF new
  <2>4. \A f \in Events, k \in Keys :
          calls'[f][k] = IF f = e /\ k = g THEN new ELSE calls[f][k]
    BY <2>3 DEF IInv, TypeOK
  <2>5. ReadyWasTargeted'
    <3>. SUFFICES ASSUME NEW f \in Events, NEW k \in Keys, calls'[f][k].phase = "ready",
                         calls'[f][k].target \in Arns, NEW b \in calls'[f][k].texts
                  PROVE  calls'[f][k].target \in targeted[b]
      BY <1>1 DEF ReadyWasTargeted
    <3>1. CASE f = e /\ k = g
      BY <3>1, <2>2, <2>4, <1>4 DEF IInv, TargetsRecorded
    <3>2. CASE ~(f = e /\ k = g)
      BY <3>2, <2>4 DEF IInv, ReadyWasTargeted
    <3>. QED
      BY <3>1, <3>2
  <2>6. NamesKnown'
    <3>1. \A f \in Events, k \in Keys : calls'[f][k].ids = calls[f][k].ids
      BY <2>2, <2>4
    <3>2. \A b : Known(b)' <=> Known(b)
      BY <1>1 DEF Known
    <3>. QED
      BY <1>1, <3>1, <3>2 DEF IInv, NamesKnown
  <2>7. ArnLostOnlyByDelete' /\ TargetsRecorded'
    BY <1>1 DEF IInv, ArnLostOnlyByDelete, TargetsRecorded
  <2>. QED
    BY <1>2, <2>5, <2>6, <2>7 DEF IInv
<1>. QED
  BY <1>3, <1>4, ReadCases DEF IInv

\* What ANFW is sent are rules the call has read.
LEMMA CarriedStays ==
    ASSUME IInv, NEW e \in Events, NEW g \in Keys, AtFirewall(e, g),
           NEW good \in SUBSET calls[e][g].texts, targeted' = targeted,
           carried' = carried \/ Carry(e, g, good)
    PROVE  CarriedWasTargeted'
<1>. DEFINE c == calls[e][g]
<1>1. c.phase = "ready" /\ c.target \in Arns
  BY DEF AtFirewall
<1>. SUFFICES ASSUME NEW a \in Arns, NEW b \in carried'[a] PROVE a \in targeted[b]
  BY DEF CarriedWasTargeted
<1>2. CASE b \in carried[a]
  BY <1>2 DEF IInv, CarriedWasTargeted
<1>3. CASE b \notin carried[a]
  <2>1. a = c.target /\ b \in c.texts
    BY <1>3 DEF Carry, IInv, TypeOK
  <2>. QED
    BY <2>1, <1>1 DEF IInv, ReadyWasTargeted
<1>. QED
  BY <1>2, <1>3

LEMMA ApplyIInv ==
    ASSUME IInv, TypeOK', NEW e \in Events, NEW g \in Keys, Apply(e, g)
    PROVE  IInv'
<1>1. PICK bad \in SUBSET calls[e][g].texts :
        /\ carried' = carried \/ Carry(e, g, calls[e][g].texts \ bad)
        /\ Decide(e, g, "taken", bad)
  BY DEF Apply
<1>2. AtFirewall(e, g) /\ UNCHANGED <<pc, bundles, targeted, deleted, stamps>>
  BY DEF Apply, apiVars, roundVars
<1>3. bad \in SUBSET Bundles
  BY DEF IInv, TypeOK, Call
<1>4. calls[e][g].texts \ bad \in SUBSET calls[e][g].texts
  OBVIOUS
<1>5. CarriedWasTargeted'
  BY <1>1, <1>2, <1>4, CarriedStays
<1>. QED
  BY <1>1, <1>2, <1>3, <1>5, DecideIInv

LEMMA DefaultIInv ==
    ASSUME IInv, TypeOK', NEW e \in Events, NEW g \in Keys,
           ApplyDefault(e, g) \/ LoseDefault(e, g) \/ LeaveDefault(e, g)
    PROVE  IInv'
<1>1. /\ AtFirewall(e, g) /\ \E code \in {"200", "error"} : Answer(e, g, code)
      /\ UNCHANGED <<pc, bundles, targeted, deleted, stamps>>
      /\ carried' = carried \/ Carry(e, g, {})
  BY DEF ApplyDefault, LoseDefault, LeaveDefault, Default, apiVars, roundVars
<1>2. {} \in SUBSET calls[e][g].texts
  OBVIOUS
<1>3. CarriedWasTargeted'
  BY <1>1, <1>2, CarriedStays
<1>. QED
  BY <1>1, <1>3, AnswerIInv

LEMMA NextIInv == IInv /\ [Next]_vars => IInv'
<1>. SUFFICES ASSUME IInv, [Next]_vars PROVE IInv'
  OBVIOUS
<1>. USE DEF apiVars, roundVars
<1>1. TypeOK'
  BY NextTypeOK DEF IInv
<1>2. ASSUME NEW b \in Bundles, NEW a \in Arns, CreateBundle(b, a) PROVE IInv'
  BY <1>1, <1>2, TargetIInv DEF CreateBundle
<1>3. ASSUME NEW b \in Bundles, NEW a \in Arns, UpdateBundle(b, a) PROVE IInv'
  BY <1>1, <1>3, TargetIInv DEF UpdateBundle
<1>4. ASSUME NEW b \in Bundles, DeleteBundle(b) PROVE IInv'
  BY <1>1, <1>4, DeleteBundleIInv
<1>5. ASSUME UNCHANGED <<bundles, targeted, deleted, carried, calls, stamps>> PROVE IInv'
  BY <1>1, <1>5, RunStep DEF CallsQuiet
<1>6. ASSUME NEW b \in Bundles, Fill(b) \/ Empty(b) PROVE IInv'
  BY <1>5, <1>6 DEF Fill, Empty
<1>7. ASSUME NEW e \in Events, Tick(e) \/ Retry(e) PROVE IInv'
  BY <1>5, <1>7 DEF Tick, Retry
<1>8. ASSUME NEW e \in Events, Invoke(e) PROVE IInv'
  BY <1>1, <1>8, InvokeIInv
<1>9. ASSUME NEW e \in Events, Collect(e) PROVE IInv'
  BY <1>1, <1>9, CollectIInv
<1>10. ASSUME NEW e \in Events, FailRun(e) PROVE IInv'
  BY <1>1, <1>10, FailRunIInv
<1>11. ASSUME NEW e \in Events, NEW b \in Bundles, Stamp(e, b) PROVE IInv'
  BY <1>1, <1>11, StampIInv
<1>12. ASSUME NEW e \in Events, LoseStamps(e) PROVE IInv'
  <2>1. \A f \in Events : stamps'[f] \subseteq stamps[f]
    BY <1>12 DEF LoseStamps, IInv, TypeOK
  <2>. QED
    BY <1>1, <1>12, <2>1, RunStep DEF LoseStamps, CallsQuiet
<1>13. ASSUME NEW e \in Events, NEW g \in Keys, Read(e, g) PROVE IInv'
  BY <1>1, <1>13, ReadIInv
<1>14. ASSUME NEW e \in Events, NEW g \in Keys, Apply(e, g) PROVE IInv'
  BY <1>1, <1>14, ApplyIInv
<1>15. ASSUME UNCHANGED <<targeted, carried>> PROVE CarriedWasTargeted'
  BY <1>15 DEF IInv, CarriedWasTargeted
<1>16. ASSUME NEW e \in Events, NEW g \in Keys, Refuse(e, g) PROVE IInv'
  <2>1. PICK bad \in SUBSET calls[e][g].texts : Decide(e, g, "refused", bad)
    BY <1>16 DEF Refuse
  <2>2. bad \in SUBSET Bundles
    BY DEF IInv, TypeOK, Call
  <2>3. UNCHANGED <<pc, bundles, targeted, deleted, carried, stamps>>
    BY <1>16 DEF Refuse
  <2>. QED
    BY <1>1, <1>15, <2>1, <2>2, <2>3, DecideIInv
<1>17. ASSUME NEW e \in Events, NEW g \in Keys,
              ApplyDefault(e, g) \/ LoseDefault(e, g) \/ LeaveDefault(e, g)
       PROVE  IInv'
  BY <1>1, <1>17, DefaultIInv
<1>18. ASSUME NEW e \in Events, NEW g \in Keys, Record(e, g) \/ FailCall(e, g) PROVE IInv'
  <2>1. /\ UNCHANGED <<pc, bundles, targeted, deleted, carried, stamps>>
        /\ \E code \in {"200", "error"} : Answer(e, g, code)
    BY <1>18 DEF Record, FailCall
  <2>. QED
    BY <1>1, <1>15, <2>1, AnswerIInv
<1>19. CASE UNCHANGED vars
  BY <1>5, <1>19 DEF vars
<1>. QED
  BY <1>2, <1>3, <1>4, <1>6, <1>7, <1>8, <1>9, <1>10, <1>11, <1>12, <1>13, <1>14,
     <1>16, <1>17, <1>18, <1>19 DEF Next, ApiNext, RunNext, CallNext

\* The inductive invariant holds in every reachable state.
THEOREM Invariance == Spec => []IInv
BY InitIInv, NextIInv, PTL DEF Spec

\* A rule group carries no rules of a bundle that never targeted it, whatever
\* is retargeted, deleted or created again while calls are under way.
THEOREM CarriedRulesWereTargeted == Spec => []CarriedWasTargeted
<1>1. IInv => CarriedWasTargeted
  BY DEF IInv
<1>. QED
  BY <1>1, Invariance, PTL

\* Only the late timestamp of a deleted bundle makes an item without rule
\* group.
THEOREM ArnsAreLostOnlyByDeletes == Spec => []ArnLostOnlyByDelete
<1>1. IInv => ArnLostOnlyByDelete
  BY DEF IInv
<1>. QED
  BY <1>1, Invariance, PTL
=============================================================================
