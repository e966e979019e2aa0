--------------------------- MODULE CachedReadProofs ---------------------------
(* Theorems about CachedRead, for any calls, cache plan, retry policy and    *)
(* bounds.                                                                   *)
EXTENDS CachedReadInvariant, TLAPS

-----------------------------------------------------------------------------
(* Types and traversals. *)

LEMMA IInvInit == Init => IInv
<1> SUFFICES ASSUME Init PROVE IInv
  OBVIOUS
<1>1. TypeOK
  BY PlanAssumption, BoundAssumption DEF Init, TypeOK, PCs, Outcomes, Versions
<1>2. FlightRuns /\ Traversals /\ Followed
  BY NoneAssumption DEF Init, FlightRuns, Traversals, Followed, Leading, Promoting, Ended
<1>3. Ages /\ Ledger
  BY BoundAssumption DEF Init, Ages, Ledger
<1> QED BY <1>1, <1>2, <1>3 DEF IInv

LEMMA TypeStep ==
  ASSUME TypeOK, Traversals, Followed, [Next]_vars
  PROVE  TypeOK'
<1> USE PlanAssumption DEF TypeOK, GotoLevel, PCs, Outcomes, Ended, Leading
<1>1. ASSUME NEW c \in Calls, Starts(c) PROVE TypeOK'
  BY <1>1 DEF Starts
<1>2. ASSUME NEW c \in Calls, TimesOut(c) \/ Aborts(c) PROVE TypeOK'
  BY <1>2 DEF TimesOut, Aborts
<1>3. ASSUME NEW c \in Calls, ReadsLevel(c) PROVE TypeOK'
  <2>1. level[c] \in 1 .. Levels
    BY <1>3 DEF ReadsLevel, Looking, LastLevel, Traversals
  <2>2. /\ level[c] - 1 \in 0 .. Levels + 1 /\ level[c] + 1 \in 0 .. Levels + 1
        /\ cache[level[c]] \in Versions \cup {None}
    BY <2>1
  <2>3. disruptions' \in 0 .. MaxDisruptions
    BY <1>3, BoundAssumption DEF ReadsLevel, Disrupt
  <2>4. pc' \in [Calls -> PCs]
    <3>1. \E label \in PCs : pc' = [pc EXCEPT ![c] = label]
      BY <1>3 DEF ReadsLevel
    <3> QED BY <3>1
  <2>6. level' \in [Calls -> 0 .. Levels + 1]
    BY <1>3, <2>2 DEF ReadsLevel
  <2>5. value' \in [Calls -> Versions \cup {None}]
    BY <1>3, <2>2 DEF ReadsLevel
  <2> QED BY <1>3, <2>3, <2>4, <2>5, <2>6 DEF ReadsLevel
<1>4. ASSUME NEW c \in Calls, WritesLevel(c) PROVE TypeOK'
  <2>1. level[c] - 1 \in 0 .. Levels + 1
    BY <1>4 DEF WritesLevel
  <2>2. cache' \in [1 .. Levels -> Versions \cup {None}]
    BY <1>4 DEF WritesLevel
  <2>3. disruptions' \in 0 .. MaxDisruptions
    BY <1>4, BoundAssumption DEF WritesLevel, Disrupt
  <2>4. pc' \in [Calls -> PCs] /\ level' \in [Calls -> 0 .. Levels + 1]
    BY <1>4, <2>1 DEF WritesLevel
  <2> QED BY <1>4, <2>2, <2>3, <2>4 DEF WritesLevel
<1>5. ASSUME NEW c \in Calls, Joins(c) \/ Leads(c) PROVE TypeOK'
  <2>1. CASE Joins(c)
    BY <2>1 DEF Joins
  <2>2. CASE Leads(c)
    BY <2>2 DEF Leads
  <2> QED BY <1>5, <2>1, <2>2
<1>6. ASSUME NEW c \in Calls, GoesDownstream(c) PROVE TypeOK'
  BY <1>6 DEF GoesDownstream
<1>7. ASSUME NEW c \in Calls, GoesToSource(c) PROVE TypeOK'
  BY <1>7 DEF GoesToSource
<1>8. ASSUME NEW c \in Calls, Returns(c) \/ FlightEnds(c) PROVE TypeOK'
  BY <1>8 DEF Returns, FlightEnds, Settles
<1>9. ASSUME NEW c \in Calls, Follows(c) PROVE TypeOK'
  <2>1. leader[c] \in Calls
    BY <1>9 DEF Follows, Followed
  <2>2. /\ value[leader[c]] \in Versions \cup {None}
        /\ pc[leader[c]] \in PCs /\ pc[leader[c]] \in Outcomes
    BY <1>9, <2>1 DEF Follows
  <2> QED BY <1>9, <2>2 DEF Follows, Settles
<1>10. ASSUME NEW c \in Calls, SourceAnswers(c) \/ SourceRetries(c) PROVE TypeOK'
  <2>1. CASE SourceAnswers(c)
    BY <2>1 DEF SourceAnswers
  <2>2. CASE SourceRetries(c)
    BY <2>2, BoundAssumption DEF SourceRetries, Disrupt
  <2> QED BY <1>10, <2>1, <2>2
<1>11. ASSUME NEW c \in Calls, SourceThrows(c) PROVE TypeOK'
  BY <1>11, BoundAssumption DEF SourceThrows, Settles, Disrupt
<1>12. CASE (\E l \in 1 .. Levels : Evict(l)) \/ SourceChanges
  BY <1>12, BoundAssumption DEF Evict, SourceChanges, Disrupt, callVars, Versions
<1>13. CASE Quiescent \/ UNCHANGED vars
  BY <1>13 DEF Quiescent, vars, callVars
<1> QED
  BY <1>1, <1>2, <1>3, <1>4, <1>5, <1>6, <1>7, <1>8, <1>9, <1>10, <1>11, <1>12, <1>13
  DEF Next, WorkStep, CacheStep, FlightStep, EndStep, SourceStep

LEMMA TraversalsStep ==
  ASSUME TypeOK, Traversals, [Next]_vars
  PROVE  Traversals'
<1> USE PlanAssumption, NoneAssumption DEF TypeOK, Traversals, GotoLevel, Promoting
<1>1. ASSUME NEW c \in Calls, Starts(c) \/ TimesOut(c) \/ Aborts(c) PROVE Traversals'
  <2>1. CASE Starts(c)
    BY <2>1 DEF Starts
  <2>2. CASE TimesOut(c) \/ Aborts(c)
    BY <2>2 DEF TimesOut, Aborts
  <2> QED BY <1>1, <2>1, <2>2
<1>2. ASSUME NEW c \in Calls, ReadsLevel(c) PROVE Traversals'
  <2>1. /\ level[c] \in 1 .. Levels /\ pc[c] \in Looking /\ UNCHANGED attempt
        /\ pc[c] \in {"local", "leaderLocal"} => level[c] <= LocalEnd
    BY <1>2 DEF ReadsLevel, Looking, LastLevel
  <2>2. \A d \in Calls \ {c} : pc'[d] = pc[d] /\ level'[d] = level[d] /\ value'[d] = value[d]
    BY <1>2 DEF ReadsLevel
  <2>3. \/ pc'[c] \in Promoting /\ level'[c] = level[c] - 1 /\ value'[c] \in Versions
        \/ pc'[c] = pc[c] /\ level'[c] = level[c] + 1
    BY <1>2, <2>1 DEF ReadsLevel
  <2> QED BY <2>1, <2>2, <2>3 DEF Looking
<1>3. ASSUME NEW c \in Calls, WritesLevel(c) PROVE Traversals'
  BY <1>3 DEF WritesLevel
<1>4. ASSUME NEW c \in Calls, FlightStep(c) PROVE Traversals'
  <2>1. CASE Joins(c)
    BY <2>1 DEF Joins
  <2>2. CASE Leads(c)
    BY <2>2 DEF Leads
  <2>3. CASE GoesDownstream(c)
    BY <2>3 DEF GoesDownstream
  <2>4. CASE GoesToSource(c)
    BY <2>4 DEF GoesToSource
  <2> QED BY <1>4, <2>1, <2>2, <2>3, <2>4 DEF FlightStep
<1>5. ASSUME NEW c \in Calls, EndStep(c) PROVE Traversals'
  BY <1>5 DEF EndStep, Returns, FlightEnds, Follows, Settles, Ended
<1>6. ASSUME NEW c \in Calls, SourceStep(c) PROVE Traversals'
  BY <1>6
  DEF SourceStep, SourceAnswers, SourceRetries, SourceThrows, Settles
<1>7. CASE (\E l \in 1 .. Levels : Evict(l)) \/ SourceChanges
  BY <1>7 DEF Evict, SourceChanges, callVars
<1>8. CASE Quiescent \/ UNCHANGED vars
  BY <1>8 DEF Quiescent, vars, callVars
<1> QED
  BY <1>1, <1>2, <1>3, <1>4, <1>5, <1>6, <1>7, <1>8 DEF Next, WorkStep, CacheStep

-----------------------------------------------------------------------------
(* The flight. *)

LEMMA FlightStepKeeps ==
  ASSUME TypeOK, FlightRuns, [Next]_vars
  PROVE  FlightRuns'
<1> USE NoneAssumption DEF TypeOK, FlightRuns, GotoLevel, Leading
<1>1. ASSUME NEW c \in Calls, Starts(c) \/ TimesOut(c) \/ Aborts(c) PROVE FlightRuns'
  BY <1>1 DEF Starts, TimesOut, Aborts
<1>2. ASSUME NEW c \in Calls, CacheStep(c) PROVE FlightRuns'
  BY <1>2 DEF CacheStep, ReadsLevel, WritesLevel, Looking, Promoting
<1>3. ASSUME NEW c \in Calls, FlightStep(c) PROVE FlightRuns'
  BY <1>3 DEF FlightStep, Joins, Leads, GoesDownstream, GoesToSource
<1>4. ASSUME NEW c \in Calls, EndStep(c) PROVE FlightRuns'
  BY <1>4 DEF EndStep, Returns, FlightEnds, Follows, Settles, Populated, Ended
<1>5. ASSUME NEW c \in Calls, SourceStep(c) PROVE FlightRuns'
  BY <1>5 DEF SourceStep, SourceAnswers, SourceRetries, SourceThrows, Settles
<1>6. CASE (\E l \in 1 .. Levels : Evict(l)) \/ SourceChanges
  BY <1>6 DEF Evict, SourceChanges, callVars
<1>7. CASE Quiescent \/ UNCHANGED vars
  BY <1>7 DEF Quiescent, vars, callVars
<1> QED
  BY <1>1, <1>2, <1>3, <1>4, <1>5, <1>6, <1>7 DEF Next, WorkStep

\* Two calls that lead are one.
LEMMA OneLeader ==
  ASSUME FlightRuns, NEW c \in Calls, NEW d \in Calls, pc[c] \in Leading, pc[d] \in Leading
  PROVE  c = d
BY DEF FlightRuns

-----------------------------------------------------------------------------
(* The ages of values. *)

\* A step that changes no value ages none.
LEMMA AgesKept ==
  ASSUME Ages, UNCHANGED <<value, cache, source>>,
         \A c \in Calls : pc'[c] = "backfill" => pc[c] = "backfill"
  PROVE  Ages'
BY DEF Ages

LEMMA AgesStep ==
  ASSUME TypeOK, FlightRuns, Traversals, Followed, Ages, [Next]_vars
  PROVE  Ages'
<1> USE PlanAssumption, NoneAssumption DEF TypeOK
<1>1. ASSUME NEW c \in Calls, Starts(c) PROVE Ages'
  BY <1>1, AgesKept DEF Starts, GotoLevel
<1>2. ASSUME NEW c \in Calls, TimesOut(c) \/ Aborts(c) PROVE Ages'
  BY <1>2, AgesKept DEF TimesOut, Aborts
<1>3. ASSUME NEW c \in Calls, ReadsLevel(c) PROVE Ages'
  <2>1. level[c] \in 1 .. Levels
    BY <1>3 DEF ReadsLevel, Looking, LastLevel, Traversals
  <2>2. UNCHANGED <<cache, source>>
        /\ \A d \in Calls : pc'[d] = "backfill" => pc[d] = "backfill"
    BY <1>3 DEF ReadsLevel, Looking, GotoLevel
  <2>3. \A d \in Calls : value'[d] = value[d] \/ value'[d] = cache[level[c]]
    BY <1>3 DEF ReadsLevel
  <2>4. \A d \in Calls : pc'[d] = "backfill" => value'[d] = value[d]
    BY <1>3 DEF ReadsLevel, GotoLevel, Looking
  <2> QED BY <2>1, <2>2, <2>3, <2>4 DEF Ages
<1>4. ASSUME NEW c \in Calls, WritesLevel(c) PROVE Ages'
  <2>1. value[c] \in Versions /\ value[c] # None
    BY <1>4 DEF WritesLevel, Traversals
  <2>2. UNCHANGED <<pc, value, source>>
    BY <1>4 DEF WritesLevel, GotoLevel
  <2>3. \A l \in 1 .. Levels : cache'[l] = cache[l] \/ cache'[l] = value[c]
    BY <1>4 DEF WritesLevel
  <2> QED BY <2>1, <2>2, <2>3 DEF Ages
<1>5. ASSUME NEW c \in Calls, FlightStep(c) PROVE Ages'
  <2>1. UNCHANGED <<value, cache, source>>
    BY <1>5 DEF FlightStep, Joins, Leads, GoesDownstream, GoesToSource
  <2>2. \A d \in Calls : pc'[d] = "backfill" => pc[d] = "backfill"
    BY <1>5 DEF FlightStep, Joins, Leads, GoesDownstream, GoesToSource, GotoLevel
  <2> QED BY <2>1, <2>2, AgesKept
<1>6. ASSUME NEW c \in Calls, Returns(c) \/ FlightEnds(c) PROVE Ages'
  BY <1>6, AgesKept DEF Returns, FlightEnds, Settles
<1>7. ASSUME NEW c \in Calls, Follows(c) PROVE Ages'
  <2>1. leader[c] \in Calls
    BY <1>7 DEF Follows, Followed
  <2>2. UNCHANGED <<cache, source>>
    BY <1>7 DEF Follows
  <2>3. \A d \in Calls : pc'[d] = "backfill" => pc[d] = "backfill" /\ value'[d] = value[d]
    BY <1>7 DEF Follows, Settles, Ended
  <2>4. \A d \in Calls : value'[d] = value[d] \/ value'[d] = value[leader[c]]
    BY <1>7 DEF Follows
  <2> QED BY <2>1, <2>2, <2>3, <2>4 DEF Ages
<1>8. ASSUME NEW c \in Calls, SourceAnswers(c) PROVE Ages'
  <2>1. \A d \in Calls : pc'[d] = "backfill" => d = c
    BY <1>8, OneLeader DEF SourceAnswers, GotoLevel, Leading
  <2>2. UNCHANGED <<cache, source>> /\ value'[c] = source
        /\ \A d \in Calls : value'[d] = value[d] \/ value'[d] = source
    BY <1>8 DEF SourceAnswers
  <2>3. source <= source
    BY DEF Versions
  <2> QED BY <2>1, <2>2, <2>3 DEF Ages
<1>9. ASSUME NEW c \in Calls, SourceRetries(c) \/ SourceThrows(c) PROVE Ages'
  BY <1>9, AgesKept DEF SourceRetries, SourceThrows, Settles
<1>10. CASE \E l \in 1 .. Levels : Evict(l)
  <2>1. UNCHANGED <<pc, value, source>>
        /\ \A l \in 1 .. Levels : cache'[l] = cache[l] \/ cache'[l] = None
    BY <1>10 DEF Evict, callVars
  <2> QED BY <2>1 DEF Ages
<1>11. CASE SourceChanges
  <2>1. UNCHANGED <<pc, value, cache>> /\ source' = source + 1
    BY <1>11 DEF SourceChanges, callVars
  <2>2. ASSUME NEW v \in Versions \cup {None}, v # None => v <= source
        PROVE  v # None => v <= source'
    BY <2>1, <2>2 DEF Versions
  <2>3. /\ \A l \in 1 .. Levels : cache[l] # None => cache[l] <= source'
        /\ \A c \in Calls : value[c] # None => value[c] <= source'
    BY <2>2 DEF Ages
  <2> QED BY <2>1, <2>3 DEF Ages
<1>12. CASE Quiescent \/ UNCHANGED vars
  BY <1>12, AgesKept DEF Quiescent, vars, callVars
<1> QED
  BY <1>1, <1>2, <1>3, <1>4, <1>5, <1>6, <1>7, <1>8, <1>9, <1>10, <1>11, <1>12
  DEF Next, WorkStep, CacheStep, EndStep, SourceStep

-----------------------------------------------------------------------------
(* What a call has from its flight. *)

LEMMA FollowedStep ==
  ASSUME TypeOK, FlightRuns, Traversals, Followed, [Next]_vars
  PROVE  Followed'
<1> USE NoneAssumption DEF TypeOK, Followed, FlightOf, Leading, Ended, GotoLevel
<1>1. ASSUME NEW c \in Calls, Starts(c) PROVE Followed'
  <2>1. /\ pc[c] = "idle" /\ pc'[c] = "local"
        /\ \A d \in Calls \ {c} : pc'[d] = pc[d]
        /\ UNCHANGED <<value, outcome, attempt, leader>>
    BY <1>1 DEF Starts
  <2> QED BY <2>1
<1>2. ASSUME NEW c \in Calls, TimesOut(c) \/ Aborts(c) PROVE Followed'
  <2>1. /\ UNCHANGED <<pc, value, attempt, leader>>
        /\ \A d \in Calls : outcome'[d] = outcome[d] \/ outcome'[d] \notin Ended
    BY <1>2 DEF TimesOut, Aborts
  <2> QED BY <2>1
<1>3. ASSUME NEW c \in Calls, ReadsLevel(c) PROVE Followed'
  <2>1. /\ pc[c] \in Looking
        /\ \/ pc'[c] = pc[c]
           \/ pc'[c] = IF pc[c] = "local" THEN "promote" ELSE "leaderPromote"
        /\ \A d \in Calls \ {c} : pc'[d] = pc[d] /\ value'[d] = value[d]
        /\ UNCHANGED <<outcome, attempt, leader>>
    BY <1>3 DEF ReadsLevel
  <2> QED BY <2>1 DEF Looking
<1>4. ASSUME NEW c \in Calls, WritesLevel(c) PROVE Followed'
  <2>1. UNCHANGED <<pc, value, outcome, attempt, leader>>
    BY <1>4 DEF WritesLevel
  <2> QED BY <2>1
<1>5. ASSUME NEW c \in Calls, Joins(c) PROVE Followed'
  <2>1. pc[flight] \in Leading /\ flight # c /\ flight \in Calls
    BY <1>5 DEF Joins, FlightRuns
  <2> QED BY <1>5, <2>1 DEF Joins
<1>6. ASSUME NEW c \in Calls, Leads(c) \/ GoesDownstream(c) \/ GoesToSource(c) PROVE Followed'
  <2>1. CASE Leads(c)
    BY <2>1 DEF Leads
  <2>2. CASE GoesDownstream(c)
    BY <2>2 DEF GoesDownstream
  <2>3. CASE GoesToSource(c)
    BY <2>3 DEF GoesToSource
  <2> QED BY <1>6, <2>1, <2>2, <2>3
<1>7. ASSUME NEW c \in Calls, Returns(c) \/ FlightEnds(c) PROVE Followed'
  <2>1. /\ pc[c] \in Promoting \cup {"backfill"} /\ Settles(c, "returned")
        /\ UNCHANGED <<value, attempt, leader>>
    BY <1>7 DEF Returns, FlightEnds, Populated, Promoting
  <2>2. value[c] \in Versions
    BY <2>1 DEF Traversals
  <2> QED BY <2>1, <2>2 DEF Settles, Promoting
<1>8. ASSUME NEW c \in Calls, Follows(c) PROVE Followed'
  <2> DEFINE l == leader[c]
  <2>1. l \in Calls /\ leader[l] = None /\ pc[l] \in Ended /\ l # c
    BY <1>8 DEF Follows
  <2>2. pc[l] = "returned" => value[l] \in Versions
    BY <2>1
  <2>3. \A d \in Calls : leader[d] # c
    BY <2>1
  <2>4. \A d \in Calls \ {c} : pc'[d] = pc[d] /\ value'[d] = value[d] /\ outcome'[d] = outcome[d]
    BY <1>8 DEF Follows, Settles
  <2>5. /\ pc'[c] = pc[l] /\ value'[c] = value[l]
        /\ outcome'[c] = IF outcome[c] = "pending" THEN pc[l] ELSE outcome[c]
        /\ UNCHANGED <<leader, attempt>> /\ pc[c] = "joined"
    BY <1>8 DEF Follows, Settles
  <2> QED BY <2>1, <2>2, <2>3, <2>4, <2>5
<1>9. ASSUME NEW c \in Calls, SourceAnswers(c) \/ SourceRetries(c) PROVE Followed'
  <2>1. CASE SourceAnswers(c)
    BY <2>1 DEF SourceAnswers
  <2>2. CASE SourceRetries(c)
    BY <2>2 DEF SourceRetries
  <2> QED BY <1>9, <2>1, <2>2
<1>10. ASSUME NEW c \in Calls, SourceThrows(c) PROVE Followed'
  BY <1>10 DEF SourceThrows, Settles, Traversals
<1>11. CASE (\E l \in 1 .. Levels : Evict(l)) \/ SourceChanges
  BY <1>11 DEF Evict, SourceChanges, callVars
<1>12. CASE Quiescent \/ UNCHANGED vars
  BY <1>12 DEF Quiescent, vars, callVars
<1> QED
  BY <1>1, <1>2, <1>3, <1>4, <1>5, <1>6, <1>7, <1>8, <1>9, <1>10, <1>11, <1>12
  DEF Next, WorkStep, CacheStep, FlightStep, EndStep, SourceStep

-----------------------------------------------------------------------------
(* The ledger: what one step does to it. *)

\* What was provided for still is.
LEMMA LedgerKept ==
  ASSUME TypeOK, Ledger, downstream' = downstream, disruptions' \in Nat,
         disruptions' >= disruptions, LocalWritable # {} => (Provided => Provided')
  PROVE  Ledger'
<1> SUFFICES ASSUME LocalWritable # {}
             PROVE  downstream' + (IF Provided' THEN 0 ELSE 1) <= 1 + disruptions'
  BY DEF Ledger, LocalWritable
<1>1. downstream \in Nat /\ disruptions \in Nat
  BY BoundAssumption DEF TypeOK
<1> DEFINE Due  == IF Provided THEN 0 ELSE 1
           Due1 == IF Provided' THEN 0 ELSE 1
<1>2. Due \in 0 .. 1 /\ Due1 \in 0 .. 1 /\ Due1 <= Due
  <2>1. CASE Provided
    <3>1. Due = 0 /\ Due1 = 0
      BY <2>1, Zenon
    <3> QED BY <3>1
  <2>2. CASE ~Provided
    <3>1. Due = 1 /\ (Due1 = 0 \/ Due1 = 1)
      BY <2>2, Zenon
    <3> QED BY <3>1
  <2> QED BY <2>1, <2>2
<1>3. downstream + Due <= 1 + disruptions
  BY DEF Ledger
<1> HIDE DEF Due, Due1
<1>4. downstream' + Due1 <= 1 + disruptions'
  <2>1. ASSUME NEW d \in Nat, NEW e \in Nat, NEW f \in Nat, NEW x \in 0 .. 1, NEW y \in 0 .. 1,
               d + x <= 1 + e, y <= x, f >= e
        PROVE  d + y <= 1 + f
    BY <2>1
  <2>2. downstream + Due1 <= 1 + disruptions'
    BY <1>1, <1>2, <1>3, <2>1
  <2> QED BY <2>2
<1> QED BY <1>4 DEF Due1

\* A disruption pays for what is no longer provided for.
LEMMA LedgerPaid ==
  ASSUME TypeOK, Ledger, downstream' = downstream, disruptions' = disruptions + 1
  PROVE  Ledger'
BY BoundAssumption DEF Ledger, TypeOK

\* No level and no leader changes.
LEMMA ProvidedKept ==
  ASSUME UNCHANGED cache, Provided,
         \A c \in Calls : pc[c] \in Leading => pc'[c] = pc[c] /\ level'[c] = level[c],
         \A c \in Calls : pc'[c] = "leaderLocal" => pc[c] = "leaderLocal"
  PROVE  Provided'
<1>1. CASE \E c \in Calls : pc[c] \in {"shared", "source"}
  BY <1>1 DEF Provided, Leading
<1>2. CASE \E c \in Calls, w \in LocalWritable :
             pc[c] \in {"leaderPromote", "backfill"} /\ w <= level[c]
  BY <1>2 DEF Provided, Leading
<1>3. CASE \E l \in 1 .. LocalEnd :
             cache[l] # None /\ \A c \in Calls : pc[c] = "leaderLocal" => level[c] <= l
  BY <1>3 DEF Provided, Leading
<1> QED BY <1>1, <1>2, <1>3 DEF Provided

LEMMA LedgerStep ==
  ASSUME TypeOK, FlightRuns, Traversals, Ledger, [Next]_vars
  PROVE  Ledger'
<1> USE PlanAssumption, BoundAssumption, NoneAssumption DEF TypeOK
<1>1. ASSUME NEW c \in Calls, Starts(c) \/ TimesOut(c) \/ Aborts(c) \/ Joins(c) \/ Returns(c) \/ Follows(c)
      PROVE  Ledger'
  <2>1. UNCHANGED <<cache, downstream, disruptions>>
    BY <1>1 DEF Starts, TimesOut, Aborts, Joins, Returns, Follows
  <2>2. /\ \A d \in Calls : pc[d] \in Leading => pc'[d] = pc[d] /\ level'[d] = level[d]
        /\ \A d \in Calls : pc'[d] = "leaderLocal" => pc[d] = "leaderLocal"
    <3>1. CASE Starts(c) \/ Joins(c)
      BY <3>1 DEF Starts, Joins, GotoLevel, Leading
    <3>2. CASE TimesOut(c) \/ Aborts(c)
      BY <3>2 DEF TimesOut, Aborts
    <3>3. CASE Returns(c) \/ Follows(c)
      BY <3>3 DEF Returns, Follows, Populated, Settles, Leading, Ended
    <3> QED BY <1>1, <3>1, <3>2, <3>3
  <2>3. Provided => Provided'
    BY <2>1, <2>2, ProvidedKept
  <2> QED BY <2>1, <2>3, LedgerKept
<1>2. ASSUME NEW c \in Calls, ReadsLevel(c) PROVE Ledger'
  <2>1. CASE Disrupt
    BY <1>2, <2>1, LedgerPaid DEF ReadsLevel, Disrupt
  <2>2. CASE ~Disrupt
    <3>1. UNCHANGED <<cache, downstream, disruptions>>
      BY <1>2, <2>2 DEF ReadsLevel
    <3>2. ASSUME LocalWritable # {}, Provided PROVE Provided'
      <4>1. CASE pc[c] = "local"
        BY <1>2, <4>1, <3>1, <3>2, ProvidedKept DEF ReadsLevel, GotoLevel, Leading
      <4>2. CASE pc[c] = "leaderLocal" /\ cache[level[c]] # None
        <5>1. level[c] \in 1 .. LocalEnd
          BY <1>2, <4>2 DEF ReadsLevel, LastLevel, Traversals
        <5>2. \A d \in Calls : pc'[d] # "leaderLocal"
          BY <1>2, <2>2, <4>2, OneLeader DEF ReadsLevel, GotoLevel, Leading
        <5> QED BY <3>1, <4>2, <5>1, <5>2 DEF Provided
      <4>3. CASE pc[c] = "leaderLocal" /\ cache[level[c]] = None
        <5>1. \A d \in Calls : pc[d] \in Leading => d = c
          BY <4>3, OneLeader DEF Leading
        <5>2. PICK l \in 1 .. LocalEnd : cache[l] # None /\ level[c] <= l
          BY <3>2, <4>3, <5>1 DEF Provided, Leading
        <5>3. UNCHANGED pc /\ level'[c] = level[c] + 1
          BY <1>2, <4>3 DEF ReadsLevel, GotoLevel
        <5>4. level'[c] <= l
          BY <4>3, <5>2, <5>3
        <5> QED BY <3>1, <5>1, <5>2, <5>3, <5>4 DEF Provided, Leading
      <4>4. CASE pc[c] = "shared"
        <5>1. level[c] \in LocalEnd + 1 .. Levels
          BY <1>2, <4>4 DEF ReadsLevel, LastLevel, Traversals
        <5>2. \/ pc'[c] = "shared"
              \/ pc'[c] = "leaderPromote" /\ level'[c] = level[c] - 1
          BY <1>2, <4>4 DEF ReadsLevel, GotoLevel
        <5>3. PICK w \in LocalWritable : TRUE
          BY <3>2
        <5>4. w <= level[c] - 1
          BY <5>1 DEF LocalWritable
        <5> QED BY <5>2, <5>4 DEF Provided
      <4> QED BY <1>2, <4>1, <4>2, <4>3, <4>4 DEF ReadsLevel, Looking
    <3> QED BY <3>1, <3>2, LedgerKept
  <2> QED BY <2>1, <2>2
<1>3. ASSUME NEW c \in Calls, WritesLevel(c) PROVE Ledger'
  <2>1. CASE Disrupt
    BY <1>3, <2>1, LedgerPaid DEF WritesLevel, Disrupt
  <2>2. CASE ~Disrupt
    <3>1. /\ UNCHANGED <<pc, downstream, disruptions>>
          /\ \A l \in 1 .. Levels : cache[l] # None => cache'[l] # None
          /\ level[c] \in Writable => cache'[level[c]] # None
          /\ level' = [level EXCEPT ![c] = level[c] - 1]
      BY <1>3, <2>2 DEF WritesLevel, GotoLevel, Traversals
    <3>2. pc[c] \in Promoting \cup {"backfill"} /\ level[c] > 0
      BY <1>3 DEF WritesLevel
    <3>3. ASSUME Provided PROVE Provided'
      <4>1. CASE \E d \in Calls : pc[d] \in {"shared", "source"}
        BY <3>1, <4>1 DEF Provided
      <4>2. CASE \E d \in Calls, w \in LocalWritable :
                   pc[d] \in {"leaderPromote", "backfill"} /\ w <= level[d]
        <5>1. PICK d \in Calls, w \in LocalWritable :
                     pc[d] \in {"leaderPromote", "backfill"} /\ w <= level[d]
          BY <4>2
        <5>2. CASE w <= level'[d]
          BY <3>1, <5>1, <5>2 DEF Provided
        <5>3. CASE ~(w <= level'[d])
          <6>1. d = c /\ w = level[c]
            BY <3>1, <5>1, <5>3 DEF LocalWritable
          <6>2. cache'[w] # None /\ w \in 1 .. LocalEnd
            BY <3>1, <6>1 DEF LocalWritable
          <6>3. \A e \in Calls : pc'[e] # "leaderLocal"
            BY <3>1, <5>1, OneLeader DEF Leading
          <6> QED BY <6>2, <6>3 DEF Provided
        <5> QED BY <5>2, <5>3
      <4>3. CASE \E l \in 1 .. LocalEnd :
                   cache[l] # None /\ \A d \in Calls : pc[d] = "leaderLocal" => level[d] <= l
        <5>1. \A d \in Calls : pc[d] = "leaderLocal" => level'[d] = level[d]
          BY <3>1, <3>2 DEF Promoting
        <5> QED BY <3>1, <4>3, <5>1 DEF Provided
      <4> QED BY <3>3, <4>1, <4>2, <4>3 DEF Provided
    <3> QED BY <3>1, <3>3, LedgerKept
  <2> QED BY <2>1, <2>2
<1>4. ASSUME NEW c \in Calls, Leads(c) PROVE Ledger'
  <2>1. UNCHANGED <<cache, downstream, disruptions>>
    BY <1>4 DEF Leads
  <2>2. /\ pc[c] = "local" /\ level'[c] = 1
        /\ \A d \in Calls \ {c} : pc'[d] = pc[d] /\ level'[d] = level[d]
    BY <1>4 DEF Leads, GotoLevel
  <2>3. ASSUME Provided PROVE Provided'
    <3>1. CASE \E d \in Calls : pc[d] \in {"shared", "source"}
      BY <2>2, <3>1 DEF Provided
    <3>2. CASE \E d \in Calls, w \in LocalWritable :
                 pc[d] \in {"leaderPromote", "backfill"} /\ w <= level[d]
      BY <2>2, <3>2 DEF Provided
    <3>3. CASE \E l \in 1 .. LocalEnd :
                 cache[l] # None /\ \A d \in Calls : pc[d] = "leaderLocal" => level[d] <= l
      <4>1. \A l \in 1 .. LocalEnd : 1 <= l
        OBVIOUS
      <4> QED BY <2>1, <2>2, <3>3, <4>1 DEF Provided
    <3> QED BY <2>3, <3>1, <3>2, <3>3 DEF Provided
  <2> QED BY <2>1, <2>3, LedgerKept
<1>5. ASSUME NEW c \in Calls, GoesDownstream(c) PROVE Ledger'
  <2>1. /\ pc[c] = "leaderLocal" /\ level[c] > LocalEnd /\ pc'[c] = "shared"
        /\ downstream' = downstream + 1 /\ UNCHANGED disruptions
    BY <1>5 DEF GoesDownstream, Missed, LastLevel, GotoLevel
  <2>2. \A d \in Calls : pc[d] \in Leading => d = c
    BY <2>1, OneLeader DEF Leading
  <2>3. ~Provided
    BY <2>1, <2>2 DEF Provided, Leading
  <2>4. Provided'
    BY <2>1 DEF Provided
  <2> QED BY <2>1, <2>3, <2>4 DEF Ledger
<1>6. ASSUME NEW c \in Calls, GoesToSource(c) PROVE Ledger'
  <2>1. UNCHANGED <<downstream, disruptions>> /\ pc'[c] = "source"
    BY <1>6 DEF GoesToSource, GotoLevel
  <2> QED BY <2>1, LedgerKept DEF Provided
<1>7. ASSUME NEW c \in Calls, FlightEnds(c) PROVE Ledger'
  <2>1. UNCHANGED <<cache, level, downstream, disruptions>>
    BY <1>7 DEF FlightEnds
  <2>2. /\ pc[c] \in {"leaderPromote", "backfill"} /\ level[c] = 0 /\ pc'[c] = "returned"
        /\ \A d \in Calls \ {c} : pc'[d] = pc[d]
    BY <1>7 DEF FlightEnds, Populated, Settles
  <2>3. \A w \in LocalWritable : ~(w <= level[c])
    BY <2>2 DEF LocalWritable
  <2>4. Provided => Provided'
    BY <2>1, <2>2, <2>3 DEF Provided
  <2> QED BY <2>1, <2>4, LedgerKept
<1>8. ASSUME NEW c \in Calls, SourceAnswers(c) PROVE Ledger'
  <2>1. /\ UNCHANGED <<downstream, disruptions>>
        /\ pc'[c] = "backfill" /\ level'[c] = Levels
    BY <1>8 DEF SourceAnswers, GotoLevel
  <2>2. \A w \in LocalWritable : w <= Levels
    BY DEF LocalWritable
  <2>3. LocalWritable # {} => Provided'
    BY <2>1, <2>2 DEF Provided
  <2> QED BY <2>1, <2>3, LedgerKept
<1>9. ASSUME NEW c \in Calls, SourceRetries(c) \/ SourceThrows(c) PROVE Ledger'
  BY <1>9, LedgerPaid DEF SourceRetries, SourceThrows, Disrupt
<1>10. CASE \E l \in 1 .. Levels : Evict(l)
  BY <1>10, LedgerPaid DEF Evict, Disrupt
<1>11. CASE SourceChanges \/ Quiescent \/ UNCHANGED vars
  <2>1. UNCHANGED <<pc, level, cache, downstream, disruptions>>
    BY <1>11 DEF SourceChanges, Quiescent, vars, callVars
  <2> QED BY <2>1, ProvidedKept, LedgerKept
<1> QED
  BY <1>1, <1>2, <1>3, <1>4, <1>5, <1>6, <1>7, <1>8, <1>9, <1>10, <1>11
  DEF Next, WorkStep, CacheStep, FlightStep, EndStep, SourceStep

-----------------------------------------------------------------------------
(* The theorems. *)

\* The inductive invariant holds in every reachable state.
THEOREM InvariantHolds == Spec => []IInv
<1>1. IInv /\ [Next]_vars => IInv'
  BY TypeStep, TraversalsStep, FlightStepKeeps, AgesStep, FollowedStep, LedgerStep DEF IInv
<1> QED BY <1>1, IInvInit, PTL DEF Spec

\* Every variable keeps its type; an attempt never exceeds maxAttempts.
THEOREM TypeCorrect == Spec => []TypeOK
<1>1. IInv => TypeOK
  BY DEF IInv
<1> QED BY <1>1, InvariantHolds, PTL

\* The flight in the map is the one that runs: at most one call leads, and no
\* flight that failed or returned is joined.
THEOREM FlightIsTheLeaders == Spec => []FlightRuns
<1>1. IInv => FlightRuns
  BY DEF IInv
<1> QED BY <1>1, InvariantHolds, PTL

\* Whatever calls arrive in whatever order, the work behind the local levels is
\* begun once and then once per disruption at most.
THEOREM WorkIsOwed == Spec => []DownstreamIsOwed
<1>1. IInv => DownstreamIsOwed
  BY BoundAssumption DEF IInv, Ledger, DownstreamIsOwed, LocalWritable, TypeOK
<1> QED BY <1>1, InvariantHolds, PTL

\* A timeout or an abort of one call is never seen by another, not even when the
\* call that gives up leads the flight.
THEOREM CallsArePrivate == Spec => []GivingUpIsPrivate
<1>1. IInv => GivingUpIsPrivate
  BY NoneAssumption DEF IInv, Followed, GivingUpIsPrivate, FlightOf, Ended
<1> QED BY <1>1, InvariantHolds, PTL

\* What the source answered never overwrites a newer cached value.
THEOREM BackfillIsFresh == Spec => BackfillNeverRegresses
<1>1. ASSUME IInv, Next PROVE BackfillStep
  <2> SUFFICES ASSUME NEW c \in Calls, NEW l \in 1 .. Levels,
                      pc[c] = "backfill", level[c] = l, level'[c] # l,
                      cache[l] # None, cache'[l] # None
               PROVE  cache'[l] >= cache[l]
    BY DEF BackfillStep
  <2>1. cache[l] \in Nat /\ cache[l] <= value[c]
    BY <1>1 DEF IInv, TypeOK, Ages, Versions
  <2>2. cache'[l] = cache[l] \/ cache'[l] = value[c]
    <3>1. ASSUME NEW d \in Calls, WorkStep(d) PROVE WritesLevel(c)
      <4>1. d = c
        BY <1>1, <3>1
        DEF WorkStep, CacheStep, FlightStep, EndStep, SourceStep, ReadsLevel, WritesLevel,
            Joins, Leads, GoesDownstream, GoesToSource, Returns, FlightEnds, Follows,
            SourceAnswers, SourceRetries, SourceThrows, GotoLevel, IInv, TypeOK
      <4> QED
        BY <1>1, <3>1, <4>1
        DEF WorkStep, CacheStep, FlightStep, EndStep, SourceStep, ReadsLevel, Looking,
            Joins, Leads, GoesDownstream, GoesToSource, Returns, FlightEnds, Follows,
            SourceAnswers, SourceRetries, SourceThrows, Populated
    <3>2. ASSUME NEW d \in Calls, Starts(d) \/ TimesOut(d) \/ Aborts(d) PROVE UNCHANGED cache
      BY <3>2 DEF Starts, TimesOut, Aborts
    <3>3. CASE \E k \in 1 .. Levels : Evict(k)
      BY <3>3 DEF Evict, callVars
    <3>4. CASE SourceChanges \/ Quiescent
      BY <3>4 DEF SourceChanges, Quiescent, vars, callVars
    <3>5. WritesLevel(c) => cache'[l] = cache[l] \/ cache'[l] = value[c]
      BY <1>1 DEF WritesLevel, IInv, TypeOK
    <3> QED BY <1>1, <3>1, <3>2, <3>3, <3>4, <3>5 DEF Next
  <2> QED BY <2>1, <2>2
<1> QED BY <1>1, InvariantHolds, PTL DEF Spec, BackfillNeverRegresses

-----------------------------------------------------------------------------
(* The work of a call shrinks. *)

LEMMA Places ==
  ASSUME NEW place, NEW at, NEW tries
  PROVE  /\ place = "idle" =>
              RemainingAt(place, at, tries) = LocalEnd + 2 * Levels + MaxAttempts + 5
         /\ place = "local" =>
              RemainingAt(place, at, tries) = LocalEnd + 2 * Levels + MaxAttempts + 5 - at
         /\ place = "leaderLocal" =>
              RemainingAt(place, at, tries) = 2 * Levels + MaxAttempts + 4 - at
         /\ place = "shared" =>
              RemainingAt(place, at, tries) = 2 * Levels + MaxAttempts + 3 - at
         /\ place = "source" =>
              RemainingAt(place, at, tries) = Levels + MaxAttempts + 2 - tries
         /\ place \in Promoting \cup {"backfill"} =>
              RemainingAt(place, at, tries) = at + 1
         /\ place = "joined" =>
              RemainingAt(place, at, tries) = 1
         /\ place \in Ended =>
              RemainingAt(place, at, tries) = 0
BY DEF RemainingAt, Promoting, Ended

LEMMA RemainingType ==
  ASSUME TypeOK, Traversals, NEW c \in Calls
  PROVE  Remaining(c) \in Nat
<1>1. /\ level[c] \in 0 .. Levels + 1 /\ attempt[c] \in 0 .. MaxAttempts
      /\ Levels \in Nat /\ LocalEnd \in 0 .. Levels /\ MaxAttempts \in Nat
  BY PlanAssumption DEF TypeOK
<1>2. pc[c] \in {"local", "leaderLocal"} => level[c] <= LocalEnd + 1
  BY <1>1 DEF Traversals
<1>3. pc[c] \in PCs
  BY DEF TypeOK
<1> QED
  BY <1>1, <1>2, <1>3, Places DEF Remaining, PCs, Leading, Promoting, Ended

LEMMA SameRemaining ==
  ASSUME TypeOK, Traversals, NEW c \in Calls,
         pc'[c] = pc[c], level'[c] = level[c], attempt'[c] = attempt[c]
  PROVE  Remaining(c)' <= Remaining(c)
<1>1. Remaining(c)' = Remaining(c)
  BY DEF Remaining
<1> QED BY <1>1, RemainingType

\* The work of one call leaves the places of the others alone.
LEMMA OwnWork ==
  ASSUME TypeOK, NEW c \in Calls, Starts(c) \/ WorkStep(c), NEW d \in Calls \ {c}
  PROVE  pc'[d] = pc[d] /\ level'[d] = level[d] /\ attempt'[d] = attempt[d]
<1> USE DEF TypeOK, GotoLevel, Settles
<1>1. CASE Starts(c) \/ CacheStep(c)
  BY <1>1 DEF Starts, CacheStep, ReadsLevel, WritesLevel
<1>2. CASE FlightStep(c)
  BY <1>2 DEF FlightStep, Joins, Leads, GoesDownstream, GoesToSource
<1>3. CASE EndStep(c)
  BY <1>3 DEF EndStep, Returns, FlightEnds, Follows
<1>4. CASE SourceStep(c)
  BY <1>4 DEF SourceStep, SourceAnswers, SourceRetries, SourceThrows
<1> QED BY <1>1, <1>2, <1>3, <1>4 DEF WorkStep

LEMMA OwnWorkShrinks ==
  ASSUME TypeOK, Traversals, NEW c \in Calls, Starts(c) \/ WorkStep(c)
  PROVE  Remaining(c)' < Remaining(c) /\ Remaining(c)' <= Remaining(c)
<1>0. /\ level[c] \in 0 .. Levels + 1 /\ attempt[c] \in 0 .. MaxAttempts
      /\ Levels \in Nat /\ LocalEnd \in 0 .. Levels /\ MaxAttempts \in Nat \ {0}
      /\ pc[c] \in PCs
  BY PlanAssumption DEF TypeOK
<1>1. CASE Starts(c)
  <2>1. pc[c] = "idle" /\ pc'[c] = "local" /\ level'[c] = 1
    BY <1>1 DEF Starts, GotoLevel, TypeOK
  <2> QED BY <1>0, <2>1, Places DEF Remaining
<1>2. CASE ReadsLevel(c)
  <2>1. /\ pc[c] \in Looking
        /\ \/ pc'[c] \in Promoting /\ level'[c] = level[c] - 1
           \/ pc'[c] = pc[c] /\ level'[c] = level[c] + 1
    BY <1>2 DEF ReadsLevel, GotoLevel, TypeOK, Promoting
  <2>2. /\ level[c] \in 1 .. Levels
        /\ pc[c] \in {"local", "leaderLocal"} => level[c] <= LocalEnd
    <3>1. /\ level[c] <= LastLevel(c)
          /\ pc[c] \in {"local", "leaderLocal"} => level[c] >= 1
          /\ pc[c] = "shared" => level[c] >= LocalEnd + 1
      BY <1>0, <1>2 DEF ReadsLevel, Traversals
    <3> QED BY <1>0, <2>1, <3>1 DEF Looking, LastLevel
  <2>3. CASE pc'[c] = pc[c] /\ level'[c] = level[c] + 1
    <3>1. CASE pc[c] = "local"
      BY <1>0, <2>3, <3>1, Places DEF Remaining
    <3>2. CASE pc[c] = "leaderLocal"
      BY <1>0, <2>3, <3>2, Places DEF Remaining
    <3>3. CASE pc[c] = "shared"
      BY <1>0, <2>3, <3>3, Places DEF Remaining
    <3> QED BY <2>1, <3>1, <3>2, <3>3 DEF Looking
  <2>4. CASE pc'[c] \in Promoting /\ level'[c] = level[c] - 1
    <3>1. Remaining(c)' = level[c]
      BY <1>0, <2>4, Places DEF Remaining, Promoting
    <3>2. Remaining(c) > level[c] /\ Remaining(c) \in Nat
      BY <1>0, <2>1, <2>2, Places DEF Remaining, Looking
    <3> QED BY <1>0, <3>1, <3>2
  <2> QED BY <2>1, <2>3, <2>4
<1>3. CASE WritesLevel(c)
  <2>1. /\ pc[c] \in Promoting \cup {"backfill"} /\ pc'[c] = pc[c]
        /\ level[c] > 0 /\ level'[c] = level[c] - 1
    BY <1>3 DEF WritesLevel, GotoLevel, TypeOK
  <2> QED BY <1>0, <2>1, Places DEF Remaining, Promoting
<1>4. CASE Joins(c) \/ Leads(c)
  <2>1. /\ pc[c] = "local" /\ level[c] = LocalEnd + 1
        /\ pc'[c] = "joined" \/ (pc'[c] = "leaderLocal" /\ level'[c] = 1)
    <3>1. /\ pc[c] = "local" /\ level[c] > LocalEnd
          /\ \/ pc' = [pc EXCEPT ![c] = "joined"]
             \/ /\ pc' = [pc EXCEPT ![c] = "leaderLocal"]
                /\ level' = [level EXCEPT ![c] = 1]
      BY <1>4 DEF Joins, Leads, Missed, LastLevel, GotoLevel
    <3>2. level[c] \in 1 .. LocalEnd + 1
      BY <3>1 DEF Traversals
    <3> QED BY <1>0, <3>1, <3>2 DEF TypeOK
  <2>2. Remaining(c) = 2 * Levels + MaxAttempts + 4
    BY <1>0, <2>1, Places DEF Remaining
  <2>3. Remaining(c)' \in {1, 2 * Levels + MaxAttempts + 3}
    BY <1>0, <2>1, Places DEF Remaining
  <2> QED BY <1>0, <2>2, <2>3
<1>5. CASE GoesDownstream(c)
  <2>1. /\ pc[c] = "leaderLocal" /\ level[c] = LocalEnd + 1
        /\ pc'[c] = "shared" /\ level'[c] = LocalEnd + 1
    BY <1>0, <1>5
    DEF GoesDownstream, Missed, LastLevel, Traversals, GotoLevel, TypeOK
  <2> QED BY <1>0, <2>1, Places DEF Remaining
<1>6. CASE GoesToSource(c)
  <2>1. /\ pc[c] = "shared" /\ level[c] = Levels + 1
        /\ pc'[c] = "source" /\ attempt'[c] = 1
    BY <1>0, <1>6
    DEF GoesToSource, Missed, LastLevel, Traversals, GotoLevel, TypeOK
  <2> QED BY <1>0, <2>1, Places DEF Remaining
<1>7. CASE EndStep(c)
  <2>1. /\ pc[c] \in Promoting \cup {"backfill", "joined"}
        /\ pc'[c] \in Ended
    BY <1>7
    DEF EndStep, Returns, FlightEnds, Follows, Settles, Populated, Promoting,
        Ended, TypeOK
  <2>2. Remaining(c)' = 0
    BY <2>1, Places DEF Remaining
  <2>3. Remaining(c) \in Nat /\ Remaining(c) > 0
    BY <1>0, <2>1, Places DEF Remaining, Promoting
  <2> QED BY <2>2, <2>3
<1>8. CASE SourceStep(c)
  <2>1. /\ pc[c] = "source"
        /\ \/ pc'[c] = "backfill" /\ level'[c] = Levels
           \/ /\ pc'[c] = "source" /\ attempt[c] < MaxAttempts
              /\ attempt'[c] = attempt[c] + 1
           \/ pc'[c] = "threw"
    BY <1>8
    DEF SourceStep, SourceAnswers, SourceRetries, SourceThrows, Settles,
        GotoLevel, TypeOK
  <2>2. Remaining(c) = Levels + MaxAttempts + 2 - attempt[c]
    BY <2>1, Places DEF Remaining
  <2>3. \/ Remaining(c)' = Levels + 1
        \/ Remaining(c)' = Levels + MaxAttempts + 2 - (attempt[c] + 1)
        \/ Remaining(c)' = 0
    BY <2>1, Places DEF Remaining, Ended
  <2> QED BY <1>0, <2>2, <2>3
<1> QED
  BY <1>1, <1>2, <1>3, <1>4, <1>5, <1>6, <1>7, <1>8
  DEF WorkStep, CacheStep, FlightStep

\* The work of a call takes at most LocalEnd + 2 Levels + MaxAttempts + 5 steps,
\* whatever the other calls, the caches and the source do, and whether or not
\* its caller still waits: no read goes round for ever.
THEOREM WorkIsBounded ==
  Spec => WorkShrinks /\ [](\A c \in Calls : Remaining(c) \in Nat)
<1>1. IInv => \A c \in Calls : Remaining(c) \in Nat
  BY RemainingType DEF IInv
<1>2. IInv /\ [Next]_vars => [\A c \in Calls : Shrinks(c)]_vars
  <2> SUFFICES ASSUME TypeOK, Traversals, Next, NEW d \in Calls
               PROVE  Shrinks(d)
    BY DEF IInv
  <2>1. ASSUME NEW c \in Calls, Starts(c) \/ WorkStep(c)
        PROVE  Remaining(d)' <= Remaining(d)
    BY <2>1, OwnWork, SameRemaining, OwnWorkShrinks
  <2>2. ASSUME UNCHANGED <<pc, level, attempt>>
        PROVE  Remaining(d)' <= Remaining(d)
    BY <2>2, SameRemaining
  <2>3. Remaining(d)' <= Remaining(d)
    BY <2>1, <2>2
    DEF Next, TimesOut, Aborts, Evict, SourceChanges, Quiescent, vars, callVars
  <2>4. Starts(d) \/ WorkStep(d) => Remaining(d)' < Remaining(d)
    BY OwnWorkShrinks
  <2> QED BY <2>3, <2>4 DEF Shrinks
<1> QED BY <1>1, <1>2, InvariantHolds, PTL DEF Spec, WorkShrinks

\* A call that joined a flight waits for one that runs, or that has ended and
\* left its result, and never for another call that waits.
THEOREM FollowersWaitForWork == Spec => []FollowersDoNotChain
<1>1. IInv => FollowersDoNotChain
  <2> SUFFICES ASSUME IInv, NEW c \in Calls, pc[c] = "joined"
               PROVE  FollowersDoNotChain!(c)!2
    BY DEF FollowersDoNotChain
  <2>1. /\ leader[c] \in Calls /\ leader[leader[c]] = None
        /\ pc[leader[c]] \in Leading \cup Ended
    BY NoneAssumption DEF IInv, TypeOK, Followed
  <2>2. leader[c] # c
    BY <2>1, NoneAssumption DEF Leading, Ended
  <2>3. pc[leader[c]] \in Leading => flight = leader[c]
    BY <2>1 DEF IInv, FlightRuns
  <2> QED BY <2>1, <2>2, <2>3
<1> QED BY <1>1, InvariantHolds, PTL

=============================================================================
