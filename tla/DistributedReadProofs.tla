------------------------ MODULE DistributedReadProofs ------------------------
(* Theorems about DistributedRead, for any finite set of runs, any owner ids *)
(* and any bounds.                                                           *)
EXTENDS DistributedReadInvariant, FiniteSetTheorems, TLAPS

\* What the scripts write is a lease, and a lease is not None.
LEMMA LeaseFields ==
  ASSUME NEW l \in Lease
  PROVE  /\ l # None
         /\ l.version \in Nat /\ l.version > 0 /\ l.ttl \in 1 .. 2
         /\ [l EXCEPT !.ttl = FullLease] \in Lease
         /\ l.ttl > 1 => [l EXCEPT !.ttl = @ - 1] \in Lease
BY NoneAssumption DEF Lease, FullLease

LEMMA GrantedLease ==
  ASSUME NEW f \in Flights, NEW n \in Nat
  PROVE  [owner |-> OwnerOf[f], version |-> n + 1, ttl |-> FullLease] \in Lease
BY OwnerAssumption DEF Lease, FullLease

-----------------------------------------------------------------------------
(* Type correctness. *)

LEMMA TypeInit == Init => TypeOK
BY BoundAssumption
DEF Init, RedisInit, TypeOK, RedisTypeOK, PCs, Versions

\* The commands the runs send to Redis, and its clock, keep its types.
LEMMA RedisTypes ==
  ASSUME RedisTypeOK, NEW f \in Flights, NEW v \in Nat,
         \/ ClaimScript(f) \/ RenewScript(f, v) \/ ReleaseScript(f, v)
         \/ Subscribe(f) \/ Unsubscribe(f) \/ UNCHANGED redisVars
  PROVE  RedisTypeOK'
<1>1. CASE ClaimScript(f)
  BY <1>1, GrantedLease DEF ClaimScript, RedisTypeOK
<1>2. CASE RenewScript(f, v)
  BY <1>2, LeaseFields DEF RenewScript, Matches, Granted, RedisTypeOK
<1>3. CASE ReleaseScript(f, v) \/ Subscribe(f) \/ Unsubscribe(f) \/ UNCHANGED redisVars
  BY <1>3 DEF ReleaseScript, Subscribe, Unsubscribe, redisVars, RedisTypeOK
<1> QED BY <1>1, <1>2, <1>3

LEMMA ElapsedTypes == RedisTypeOK /\ Elapses => RedisTypeOK'
BY LeaseFields DEF Elapses, RedisTypeOK

LEMMA TypeStep == TypeOK /\ [Next]_vars => TypeOK'
<1> SUFFICES ASSUME TypeOK, [Next]_vars PROVE TypeOK'
  OBVIOUS
<1> USE DEF TypeOK, Goto
<1>1. ASSUME NEW f \in Flights, ClaimStep(f) PROVE TypeOK'
  <2>1. RedisTypeOK'
    BY <1>1, RedisTypes DEF ClaimStep, Acquire, Refused, ClaimUnavailable
  <2>2. ClaimScript(f) => leaseKey'.version \in Nat
    BY DEF ClaimScript, RedisTypeOK
  <2> QED
    BY <1>1, <2>1, <2>2
    DEF ClaimStep, Acquire, Refused, ClaimUnavailable, PCs, Waiting, Owning,
        Awaiting, Settled, dataVars, history
<1>2. ASSUME NEW f \in Flights, WaitStep(f) \/ MessageArrives(f) \/ WaitTimesOut(f)
      PROVE TypeOK'
  <2>1. RedisTypeOK'
    BY <1>2, RedisTypes
    DEF WaitStep, MessageArrives, WaitTimesOut, LooksForLease, Subscribed, Rechecks,
        StopsWaiting, WaitUnavailable, Rereads
  <2> QED
    BY <1>2, <2>1
    DEF WaitStep, MessageArrives, WaitTimesOut, LooksForLease, Subscribed, Rechecks,
        StopsWaiting, WaitUnavailable, Rereads, ReadsShared, Disrupt, Disrupted,
        PCs, Waiting, Settled, dataVars, history
<1>3. ASSUME NEW f \in Flights, OwnerStep(f) PROVE TypeOK'
  <2>1. RedisTypeOK'
    BY <1>3, RedisTypes
    DEF OwnerStep, Checks, Synchronizes, Publishes, Drains, Releases
  <2> QED
    BY <1>3, <2>1
    DEF OwnerStep, Checks, Synchronizes, Publishes, Drains, Releases, ReadsShared,
        Finally, Disrupt, Disrupted, PCs, Owning, Awaiting, Draining, Settled,
        dataVars, history
<1>4. ASSUME NEW f \in Flights, SourceStep(f) PROVE TypeOK'
  BY <1>4, RedisTypes
  DEF SourceStep, SourceAnswers, SourceThrows, Finally, Disrupt, Disrupted,
      PCs, Owning, Draining, dataVars, history
<1>5. ASSUME NEW f \in Flights, TimerFires(f) \/ RenewalStep(f) \/ RenewalUnavailable(f)
      PROVE TypeOK'
  <2>1. RedisTypeOK'
    BY <1>5, RedisTypes
    DEF TimerFires, RenewalStep, Renewed, OwnershipLost, RenewalUnavailable
  <2> QED
    BY <1>5, <2>1
    DEF TimerFires, RenewalStep, Renewed, OwnershipLost, RenewalUnavailable,
        Renewal, Disrupt, Disrupted, dataVars, history
<1>6. ASSUME NEW f \in Flights, Crash(f) PROVE TypeOK'
  BY <1>6, RedisTypes DEF Crash, Renewal, PCs, Settled, dataVars, history
<1>7. CASE Tick
  <2>1. RedisTypeOK'
    BY <1>7, ElapsedTypes DEF Tick
  <2> QED BY <1>7, <2>1 DEF Tick, Disrupted, dataVars
<1>8. CASE Evict \/ SourceChanges
  BY <1>8, BoundAssumption
  DEF Evict, SourceChanges, Disrupt, Disrupted, RedisTypeOK, redisVars, runVars,
      history, Versions
<1>9. CASE Quiescent \/ UNCHANGED vars
  BY <1>9
  DEF Quiescent, RedisTypeOK, vars, redisVars, runVars, dataVars, history
<1> QED
  BY <1>1, <1>2, <1>3, <1>4, <1>5, <1>6, <1>7, <1>8, <1>9 DEF Next, World, RunStep

\* Every variable of DistributedRead keeps its type.
THEOREM TypeCorrect == Spec => []TypeOK
BY TypeInit, TypeStep, PTL DEF Spec

-----------------------------------------------------------------------------
(* What a step does to the lease, whoever takes it. *)

LeaseIdle == UNCHANGED <<leaseKey, generation, version>>
LeaseKept == /\ UNCHANGED <<generation, version>>
             /\ leaseKey # None /\ leaseKey' # None
             /\ leaseKey'.owner = leaseKey.owner
             /\ leaseKey'.version = leaseKey.version
LeaseFreed == /\ UNCHANGED <<generation, version>>
              /\ leaseKey # None /\ leaseKey' = None
LeaseGranted(f) ==
  /\ pc[f] = "claim" /\ leaseKey = None
  /\ generation' = generation + 1
  /\ leaseKey' # None
  /\ leaseKey'.owner = OwnerOf[f]
  /\ leaseKey'.version = generation + 1
  /\ \/ version' = [version EXCEPT ![f] = generation + 1]
     \/ version' = version /\ pc'[f] = "threw"

LeaseMoves == LeaseIdle \/ LeaseKept \/ LeaseFreed \/ \E f \in Flights : LeaseGranted(f)

LEMMA ClaimMoves ==
  ASSUME TypeOK, NEW f \in Flights, ClaimScript(f)
  PROVE  /\ leaseKey = None /\ leaseKey' # None
         /\ generation' = generation + 1
         /\ leaseKey'.owner = OwnerOf[f]
         /\ leaseKey'.version = generation + 1
BY GrantedLease, LeaseFields DEF ClaimScript, TypeOK, RedisTypeOK

LEMMA RenewMoves ==
  ASSUME TypeOK, NEW f \in Flights, NEW v \in Nat, RenewScript(f, v)
  PROVE  /\ leaseKey # None /\ leaseKey' # None
         /\ leaseKey'.owner = leaseKey.owner
         /\ leaseKey'.version = leaseKey.version
         /\ UNCHANGED <<generation, ended, subscribers, mailbox>>
<1>1. leaseKey \in Lease
  BY DEF RenewScript, Matches, Granted, TypeOK, RedisTypeOK
<1>2. [leaseKey EXCEPT !.ttl = FullLease] \in Lease
  BY <1>1, LeaseFields
<1> QED
  BY <1>1, <1>2, LeaseFields DEF RenewScript, Lease

LEMMA ElapseMoves ==
  ASSUME TypeOK, Elapses
  PROVE  /\ leaseKey # None
         /\ UNCHANGED <<generation, subscribers, mailbox>>
         /\ \/ leaseKey' = None /\ leaseKey.ttl = 1 /\ ended' = "expired"
            \/ /\ leaseKey' # None /\ UNCHANGED ended
               /\ leaseKey'.owner = leaseKey.owner
               /\ leaseKey'.version = leaseKey.version
               /\ leaseKey'.ttl < leaseKey.ttl
<1>1. leaseKey \in Lease
  BY DEF Elapses, TypeOK, RedisTypeOK
<1>2. leaseKey.ttl > 1 => [leaseKey EXCEPT !.ttl = @ - 1] \in Lease
  BY <1>1, LeaseFields
<1>3. leaseKey.ttl = 1 \/ leaseKey.ttl = 2
  BY <1>1 DEF Lease, FullLease
<1>4. UNCHANGED <<generation, subscribers, mailbox>> /\ leaseKey # None
  BY DEF Elapses
<1>5. CASE leaseKey.ttl = 1
  BY <1>4, <1>5 DEF Elapses
<1>6. CASE leaseKey.ttl = 2
  <2>1. leaseKey' = [leaseKey EXCEPT !.ttl = @ - 1] /\ UNCHANGED ended
    BY <1>6 DEF Elapses
  <2>2. leaseKey' # None
    BY <1>2, <1>6, <2>1, NoneAssumption
  <2> QED BY <1>1, <1>4, <1>6, <2>1, <2>2 DEF Lease
<1> QED BY <1>3, <1>4, <1>5, <1>6

LEMMA StepMovesLease == TypeOK /\ [Next]_vars => LeaseMoves
<1> SUFFICES ASSUME TypeOK, [Next]_vars PROVE LeaseMoves
  OBVIOUS
<1> USE DEF LeaseMoves
<1>1. ASSUME NEW f \in Flights, ClaimStep(f) PROVE LeaseMoves
  <2>1. CASE Acquire(f)
    BY <2>1, ClaimMoves DEF Acquire, LeaseGranted
  <2>2. CASE Refused(f) \/ ClaimUnavailable(f)
    BY <2>2, ClaimMoves
    DEF TypeOK, Refused, ClaimUnavailable, LeaseGranted, LeaseIdle, redisVars, Goto
  <2> QED BY <1>1, <2>1, <2>2 DEF ClaimStep
<1>2. ASSUME NEW f \in Flights, WaitStep(f) \/ MessageArrives(f) \/ WaitTimesOut(f)
      PROVE LeaseMoves
  BY <1>2
  DEF WaitStep, MessageArrives, WaitTimesOut, LooksForLease, Subscribed, Rechecks,
      StopsWaiting, WaitUnavailable, Rereads, Subscribe, Unsubscribe, LeaseIdle, redisVars
<1>3. ASSUME NEW f \in Flights, OwnerStep(f) \/ SourceStep(f) PROVE LeaseMoves
  BY <1>3
  DEF OwnerStep, SourceStep, Checks, Synchronizes, Publishes, Drains, Releases,
      SourceAnswers, SourceThrows, ReleaseScript, Matches, Granted, LeaseIdle, LeaseFreed, redisVars
<1>4. ASSUME NEW f \in Flights, TimerFires(f) \/ RenewalStep(f) \/ RenewalUnavailable(f)
      PROVE LeaseMoves
  BY <1>4, RenewMoves
  DEF TypeOK, TimerFires, RenewalStep, Renewed, OwnershipLost, RenewalUnavailable,
      LeaseIdle, LeaseKept, redisVars
<1>5. CASE Tick
  BY <1>5, ElapseMoves DEF Tick, LeaseKept, LeaseFreed
<1>6. ASSUME NEW f \in Flights, Crash(f) PROVE LeaseMoves
  BY <1>6 DEF Crash, Unsubscribe, LeaseIdle
<1>7. CASE Evict \/ SourceChanges \/ Quiescent \/ UNCHANGED vars
  BY <1>7
  DEF Evict, SourceChanges, Quiescent, LeaseIdle, vars, redisVars, runVars
<1> QED
  BY <1>1, <1>2, <1>3, <1>4, <1>5, <1>6, <1>7 DEF Next, World, RunStep

-----------------------------------------------------------------------------
(* Generations and stages. *)

LEMMA GenerationsStep ==
  ASSUME TypeOK, Generations, Stages, LeaseMoves
  PROVE  Generations'
<1> USE DEF Generations, TypeOK, RedisTypeOK
<1>1. CASE LeaseIdle \/ LeaseKept \/ LeaseFreed
  BY <1>1 DEF LeaseIdle, LeaseKept, LeaseFreed
<1>2. ASSUME NEW f \in Flights, LeaseGranted(f) PROVE Generations'
  BY <1>2 DEF LeaseGranted
<1> QED BY <1>1, <1>2 DEF LeaseMoves

LEMMA StagesStep ==
  ASSUME TypeOK, Stages, [Next]_vars
  PROVE  Stages'
<1> USE DEF TypeOK, Stages, Goto, Contending, Waiting, Owning, Awaiting, Draining
<1>1. ASSUME NEW f \in Flights, ClaimStep(f) PROVE Stages'
  BY <1>1, ClaimMoves
  DEF ClaimStep, Acquire, Refused, ClaimUnavailable, RedisTypeOK
<1>2. ASSUME NEW f \in Flights, WaitStep(f) \/ MessageArrives(f) \/ WaitTimesOut(f)
      PROVE Stages'
  BY <1>2
  DEF WaitStep, MessageArrives, WaitTimesOut, LooksForLease, Subscribed, Rechecks,
      StopsWaiting, WaitUnavailable, Rereads, ReadsShared
<1>3. ASSUME NEW f \in Flights, OwnerStep(f) PROVE Stages'
  BY <1>3
  DEF OwnerStep, Checks, Synchronizes, Publishes, Drains, Releases, ReadsShared, Finally
<1>4. ASSUME NEW f \in Flights, SourceStep(f) PROVE Stages'
  BY <1>4 DEF SourceStep, SourceAnswers, SourceThrows, Finally
<1>5. ASSUME NEW f \in Flights, TimerFires(f) \/ RenewalStep(f) \/ RenewalUnavailable(f)
      PROVE Stages'
  BY <1>5
  DEF TimerFires, RenewalStep, Renewed, OwnershipLost, RenewalUnavailable, Renewal
<1>6. ASSUME NEW f \in Flights, Crash(f) PROVE Stages'
  BY <1>6 DEF Crash, Renewal
<1>7. CASE Tick
  BY <1>7 DEF Tick
<1>8. CASE Evict \/ SourceChanges \/ Quiescent \/ UNCHANGED vars
  BY <1>8
  DEF Evict, SourceChanges, Quiescent, vars, runVars
<1> QED
  BY <1>1, <1>2, <1>3, <1>4, <1>5, <1>6, <1>7, <1>8 DEF Next, World, RunStep

-----------------------------------------------------------------------------
(* Waiting: from its subscription on, a run hears of every release. *)

LEMMA WakeupsStep ==
  ASSUME TypeOK, Wakeups, [Next]_vars
  PROVE  Wakeups'
<1> USE DEF TypeOK, RedisTypeOK, Wakeups, NoLostWakeup, Goto
<1>1. ASSUME NEW f \in Flights, ClaimStep(f) PROVE Wakeups'
  BY <1>1, ClaimMoves
  DEF ClaimStep, Acquire, Refused, ClaimUnavailable, ClaimScript, redisVars
<1>2. ASSUME NEW f \in Flights, WaitStep(f) \/ MessageArrives(f) \/ WaitTimesOut(f)
      PROVE Wakeups'
  BY <1>2
  DEF WaitStep, MessageArrives, WaitTimesOut, LooksForLease, Subscribed, Rechecks,
      StopsWaiting, WaitUnavailable, Rereads, ReadsShared, Subscribe, Unsubscribe,
      Waiting, redisVars
<1>3. ASSUME NEW f \in Flights, OwnerStep(f) \/ SourceStep(f) PROVE Wakeups'
  BY <1>3
  DEF OwnerStep, SourceStep, Checks, Synchronizes, Publishes, Drains, Releases,
      ReadsShared, Finally, SourceAnswers, SourceThrows, ReleaseScript, redisVars
<1>4. ASSUME NEW f \in Flights, TimerFires(f) \/ RenewalStep(f) \/ RenewalUnavailable(f)
      PROVE Wakeups'
  BY <1>4, RenewMoves
  DEF TimerFires, RenewalStep, Renewed, OwnershipLost, RenewalUnavailable, redisVars
<1>5. ASSUME NEW f \in Flights, Crash(f) PROVE Wakeups'
  BY <1>5 DEF Crash, Unsubscribe
<1>6. CASE Tick
  BY <1>6, ElapseMoves DEF Tick
<1>7. CASE Evict \/ SourceChanges \/ Quiescent \/ UNCHANGED vars
  BY <1>7
  DEF Evict, SourceChanges, Quiescent, vars, redisVars, runVars
<1> QED
  BY <1>1, <1>2, <1>3, <1>4, <1>5, <1>6, <1>7 DEF Next, World, RunStep

-----------------------------------------------------------------------------
(* The ledger of source executions.  A step changes which checks are stale by *)
(* at most one run; what it does to the sum is arithmetic.                    *)

\* The sum as an integer, and its parts.
LEMMA LedgerParts ==
  /\ IsFiniteSet(StaleChecks)
  /\ Cardinality(StaleChecks) \in Nat
  /\ Uncovered \in {0, 1}
BY FlightsAssumption, FS_Subset, FS_CardinalityType DEF StaleChecks, Uncovered

LEMMA LedgerPartsNext ==
  /\ IsFiniteSet(StaleChecks')
  /\ Cardinality(StaleChecks') \in Nat
  /\ Uncovered' \in {0, 1}
BY FlightsAssumption, FS_Subset, FS_CardinalityType DEF StaleChecks, Uncovered

\* Only one run holds the lease.
LEMMA HolderUnique ==
  ASSUME TypeOK, Generations, NEW f \in Flights, NEW g \in Flights, Holds(f), Holds(g)
  PROVE  f = g
BY LeaseFields DEF TypeOK, RedisTypeOK, Generations, Holds, Granted

\* Nothing that counts is disturbed.
LEMMA LedgerKeeps ==
  ASSUME TypeOK, TypeOK', Ledger, StaleChecks' \subseteq StaleChecks, Covered => Covered',
         executions' = executions, disruptions' >= disruptions
  PROVE  Ledger'
<1>1. Cardinality(StaleChecks') <= Cardinality(StaleChecks)
  BY LedgerParts, FS_Subset
<1>2. Uncovered' <= Uncovered
  BY DEF Uncovered
<1> QED
  BY <1>1, <1>2, LedgerParts, LedgerPartsNext DEF Ledger, TypeOK

\* A disruption pays for one more execution: of a key no longer covered, or of
\* one more stale check.
LEMMA LedgerPays ==
  ASSUME TypeOK, TypeOK', Ledger, executions' = executions, disruptions' = disruptions + 1,
         NEW f,
         \/ StaleChecks' \subseteq StaleChecks
         \/ StaleChecks' \subseteq StaleChecks \cup {f} /\ (Covered => Covered')
  PROVE  Ledger'
<1>1. CASE StaleChecks' \subseteq StaleChecks
  <2>1. Cardinality(StaleChecks') <= Cardinality(StaleChecks)
    BY <1>1, LedgerParts, FS_Subset
  <2> QED
    BY <2>1, LedgerParts, LedgerPartsNext DEF Ledger, TypeOK
<1>2. CASE StaleChecks' \subseteq StaleChecks \cup {f} /\ (Covered => Covered')
  <2>1. Cardinality(StaleChecks') <= Cardinality(StaleChecks) + 1
    <3>1. IsFiniteSet(StaleChecks \cup {f})
      BY LedgerParts, FS_AddElement
    <3>2. Cardinality(StaleChecks') <= Cardinality(StaleChecks \cup {f})
      BY <1>2, <3>1, FS_Subset
    <3>3. Cardinality(StaleChecks \cup {f}) =
            IF f \in StaleChecks THEN Cardinality(StaleChecks)
                                 ELSE Cardinality(StaleChecks) + 1
      BY LedgerParts, FS_AddElement
    <3> QED BY <3>2, <3>3, LedgerParts, LedgerPartsNext
  <2>2. Uncovered' <= Uncovered
    BY <1>2 DEF Uncovered
  <2> QED
    BY <2>1, <2>2, LedgerParts, LedgerPartsNext DEF Ledger, TypeOK
<1> QED BY <1>1, <1>2

\* An execution starts: it uses up a stale check, what was owed to an uncovered
\* key, or the disruption that came with it.
LEMMA LedgerSpends ==
  ASSUME TypeOK, TypeOK', Ledger, executions' = executions + 1,
         NEW f \in Flights,
         \/ /\ f \in StaleChecks /\ StaleChecks' \subseteq StaleChecks \ {f}
            /\ Covered => Covered'
            /\ disruptions' >= disruptions
         \/ /\ StaleChecks' \subseteq StaleChecks
            /\ ~Covered /\ Covered'
            /\ disruptions' >= disruptions
         \/ /\ StaleChecks' \subseteq StaleChecks
            /\ Covered => Covered'
            /\ disruptions' = disruptions + 1
  PROVE  Ledger'
<1>1. CASE /\ f \in StaleChecks /\ StaleChecks' \subseteq StaleChecks \ {f}
           /\ Covered => Covered'
           /\ disruptions' >= disruptions
  <2>1. Cardinality(StaleChecks') <= Cardinality(StaleChecks) - 1
    <3>1. IsFiniteSet(StaleChecks \ {f})
      BY LedgerParts, FS_RemoveElement
    <3>2. Cardinality(StaleChecks') <= Cardinality(StaleChecks \ {f})
      BY <1>1, <3>1, FS_Subset
    <3>3. Cardinality(StaleChecks \ {f}) = Cardinality(StaleChecks) - 1
      BY <1>1, LedgerParts, FS_RemoveElement
    <3> QED BY <3>2, <3>3
  <2>2. Uncovered' <= Uncovered
    BY <1>1 DEF Uncovered
  <2> QED
    BY <1>1, <2>1, <2>2, LedgerParts, LedgerPartsNext DEF Ledger, TypeOK
<1>2. CASE /\ StaleChecks' \subseteq StaleChecks
           /\ \/ ~Covered /\ Covered' /\ disruptions' >= disruptions
              \/ (Covered => Covered') /\ disruptions' = disruptions + 1
  <2>1. Cardinality(StaleChecks') <= Cardinality(StaleChecks)
    BY <1>2, LedgerParts, FS_Subset
  <2>2. CASE ~Covered /\ Covered' /\ disruptions' >= disruptions
    <3>1. Uncovered = 1 /\ Uncovered' = 0
      BY <2>2 DEF Uncovered
    <3> QED
      BY <2>1, <2>2, <3>1, LedgerParts, LedgerPartsNext DEF Ledger, TypeOK
  <2>3. CASE (Covered => Covered') /\ disruptions' = disruptions + 1
    <3>1. Uncovered' <= Uncovered
      BY <2>3 DEF Uncovered
    <3> QED
      BY <2>1, <2>3, <3>1, LedgerParts, LedgerPartsNext DEF Ledger, TypeOK
  <2> QED BY <1>2, <2>2, <2>3
<1> QED BY <1>1, <1>2

\* Who holds the lease after a step that did, or did not, disturb it.
LEMMA HoldsKept ==
  ASSUME LeaseIdle \/ LeaseKept, NEW f \in Flights
  PROVE  Holds(f)' <=> Holds(f)
BY DEF LeaseIdle, LeaseKept, Holds, Granted

LEMMA HoldsFreed ==
  ASSUME LeaseFreed, NEW f \in Flights
  PROVE  ~Holds(f)'
BY DEF LeaseFreed, Holds, Granted

LEMMA HoldsGranted ==
  ASSUME TypeOK, Generations, NEW f \in Flights, LeaseGranted(f), NEW g \in Flights
  PROVE  /\ ~Holds(g)
         /\ Holds(g)' => g = f /\ version'[f] = generation + 1
BY DEF TypeOK, RedisTypeOK, Generations, LeaseGranted, Holds, Granted

LEMMA ContendersHoldNothing ==
  ASSUME TypeOK, Stages, NEW f \in Flights, pc[f] \in Contending
  PROVE  ~Holds(f)
<1>1. leaseKey # None => leaseKey.version > 0
  BY LeaseFields DEF TypeOK, RedisTypeOK
<1>2. version[f] = 0
  BY DEF Stages
<1> QED BY <1>1, <1>2 DEF Holds, Granted

\* A step of one run that disturbs neither the lease nor the cache.
LEMMA LedgerOfRun ==
  ASSUME TypeOK, TypeOK', Ledger, NEW f \in Flights,
         LeaseIdle \/ LeaseKept, cached' = cached,
         \A g \in Flights \ {f} : pc'[g] = pc[g] /\ leaseState'[g] = leaseState[g],
         executions' = executions, disruptions' >= disruptions,
         pc'[f] = "check" => pc[f] = "check" /\ (Secure(f) => Secure(f)'),
         Standing(f) => Standing(f)'
  PROVE  Ledger'
<1>1. \A g \in Flights : Holds(g)' <=> Holds(g)
  BY HoldsKept
<1>2. StaleChecks' \subseteq StaleChecks
  BY <1>1 DEF StaleChecks, Secure
<1>3. Covered => Covered'
  BY <1>1 DEF Covered, Standing, Secure
<1> QED BY <1>2, <1>3, LedgerKeeps

LEMMA ClaimLedger ==
  ASSUME TypeOK, TypeOK', Generations, Stages, Ledger, LeaseMoves,
         NEW f \in Flights, ClaimStep(f)
  PROVE  Ledger'
<1>1. /\ pc[f] = "claim" /\ version[f] = 0 /\ leaseState[f] = "owned"
      /\ \A g \in Flights \ {f} : pc'[g] = pc[g] /\ version'[g] = version[g]
      /\ UNCHANGED <<cached, leaseState, executions, disruptions>>
  BY DEF ClaimStep, Acquire, Refused, ClaimUnavailable, Stages, Contending, TypeOK, Goto,
         dataVars, history
<1>2. CASE Acquire(f)
  <2>1. LeaseGranted(f) /\ version'[f] = generation + 1
    BY <1>1, <1>2, ClaimMoves DEF Acquire, LeaseGranted, TypeOK, RedisTypeOK
  <2>2. \A g \in Flights : ~Holds(g)
    BY <2>1, HoldsGranted
  <2>3. Holds(f)'
    BY <2>1 DEF LeaseGranted, Holds, Granted
  <2>4. StaleChecks' \subseteq StaleChecks
    BY <1>1, <2>2, <2>3 DEF StaleChecks, Secure
  <2>5. Covered => Covered'
    BY <1>1, <2>2 DEF Covered, Standing, Secure
  <2> QED BY <1>1, <2>4, <2>5, LedgerKeeps DEF TypeOK
<1>3. CASE ClaimUnavailable(f) /\ ClaimScript(f)
  <2>1. LeaseGranted(f) /\ version' = version
    BY <1>1, <1>3, ClaimMoves DEF ClaimUnavailable, LeaseGranted, TypeOK, Goto
  <2>2. \A g \in Flights : ~Holds(g)
    BY <2>1, HoldsGranted
  <2>3. pc'[f] # "check"
    BY <1>3 DEF ClaimUnavailable, Goto, TypeOK
  <2>4. StaleChecks' \subseteq StaleChecks
    BY <1>1, <2>2, <2>3 DEF StaleChecks, Secure
  <2>5. Covered => Covered'
    BY <1>1, <2>2 DEF Covered, Standing, Secure
  <2> QED BY <1>1, <2>4, <2>5, LedgerKeeps DEF TypeOK
<1>4. CASE Refused(f) \/ (ClaimUnavailable(f) /\ UNCHANGED redisVars)
  <2>1. LeaseIdle /\ pc'[f] \in {"exists", "threw"}
    BY <1>4 DEF Refused, ClaimUnavailable, LeaseIdle, redisVars, Goto, TypeOK
  <2>2. ~Standing(f)
    BY <1>1, ContendersHoldNothing DEF Standing, Spent, Contending
  <2> QED BY <1>1, <2>1, <2>2, LedgerOfRun DEF TypeOK
<1> QED BY <1>2, <1>3, <1>4 DEF ClaimStep, ClaimUnavailable

LEMMA WaitLedger ==
  ASSUME TypeOK, TypeOK', Stages, Ledger, NEW f \in Flights,
         WaitStep(f) \/ MessageArrives(f) \/ WaitTimesOut(f)
  PROVE  Ledger'
<1>1. /\ LeaseIdle /\ pc[f] \in Contending /\ pc'[f] # "check"
      /\ \A g \in Flights \ {f} : pc'[g] = pc[g]
      /\ UNCHANGED <<cached, leaseState, executions>>
      /\ disruptions' >= disruptions
  BY DEF WaitStep, MessageArrives, WaitTimesOut, LooksForLease, Subscribed, Rechecks,
         StopsWaiting, WaitUnavailable, Rereads, ReadsShared, Disrupt, Disrupted,
         Subscribe, Unsubscribe, LeaseIdle, Contending, Waiting, Goto, TypeOK,
         redisVars, dataVars, history
<1>2. ~Standing(f)
  BY <1>1, ContendersHoldNothing DEF Standing, Spent, Contending, Waiting
<1> QED BY <1>1, <1>2, LedgerOfRun

LEMMA ChecksLedger ==
  ASSUME TypeOK, TypeOK', Generations, Ledger, NEW f \in Flights, Checks(f)
  PROVE  Ledger'
<1>1. /\ LeaseIdle /\ pc[f] = "check" /\ pc'[f] \in {"drainReturn", "source"}
      /\ \A g \in Flights \ {f} : pc'[g] = pc[g]
      /\ UNCHANGED <<cached, leaseState>>
      /\ disruptions' \in {disruptions, disruptions + 1}
  BY DEF Checks, ReadsShared, Finally, Disrupt, Disrupted, LeaseIdle, Goto, TypeOK,
         redisVars, dataVars
<1>2. ~Standing(f)
  BY <1>1 DEF Standing, Spent
<1>3. CASE pc'[f] = "drainReturn"
  <2>1. executions' = executions
    BY <1>3 DEF Checks, ReadsShared, Finally, Goto, TypeOK
  <2> QED BY <1>1, <1>2, <1>3, <2>1, LedgerOfRun DEF TypeOK
<1>4. CASE pc'[f] = "source"
  <2>1. /\ executions' = executions + 1
        /\ disruptions' >= disruptions
        /\ cached # None => disruptions' = disruptions + 1
    BY <1>1, <1>4 DEF Checks, ReadsShared, Finally, Disrupt, Disrupted, Goto, TypeOK
  <2>2. \A g \in Flights : Holds(g)' <=> Holds(g)
    BY <1>1, HoldsKept
  <2>3. StaleChecks' \subseteq StaleChecks \ {f}
    BY <1>1, <1>4, <2>2 DEF StaleChecks, Secure
  <2>4. Covered => Covered'
    BY <1>1, <1>2, <2>2 DEF Covered, Standing, Secure
  <2>5. CASE f \in StaleChecks
    BY <2>1, <2>3, <2>4, <2>5, LedgerSpends
  <2>6. CASE f \notin StaleChecks /\ cached = None
    <3>1. Secure(f)
      BY <1>1, <2>6 DEF StaleChecks
    <3>2. ~Covered
      BY <1>1, <1>2, <2>6, <3>1, HolderUnique DEF Covered, Standing, Secure
    <3>3. Covered'
      BY <1>1, <1>4, <2>2, <3>1 DEF Covered, Standing, Secure, Spent
    <3> QED BY <2>1, <2>3, <3>2, <3>3, LedgerSpends
  <2>7. CASE cached # None
    BY <2>1, <2>3, <2>4, <2>7, LedgerSpends
  <2> QED BY <2>5, <2>6, <2>7
<1> QED BY <1>1, <1>3, <1>4

LEMMA OwnerLedger ==
  ASSUME TypeOK, TypeOK', Generations, Stages, Ledger, NEW f \in Flights,
         OwnerStep(f) \/ SourceStep(f)
  PROVE  Ledger'
<1>1. CASE Checks(f)
  BY <1>1, ChecksLedger
<1>2. CASE Synchronizes(f) \/ Drains(f) \/ SourceAnswers(f)
  <2>1. /\ LeaseIdle /\ pc'[f] # "check"
        /\ \A g \in Flights \ {f} : pc'[g] = pc[g]
        /\ UNCHANGED <<cached, leaseState, executions, disruptions>>
    BY <1>2
    DEF Synchronizes, Drains, SourceAnswers, Finally, LeaseIdle, Goto, TypeOK,
        redisVars, dataVars, history
  <2>2. Standing(f) => Standing(f)'
    BY <1>2, <2>1, HoldsKept
    DEF Synchronizes, Drains, SourceAnswers, Standing, Spent, Secure, Goto, TypeOK
  <2> QED BY <2>1, <2>2, LedgerOfRun DEF TypeOK
<1>3. CASE Publishes(f)
  <2>1. /\ LeaseIdle /\ pc[f] = "publish" /\ pc'[f] = "afterPublish"
        /\ \A g \in Flights \ {f} : pc'[g] = pc[g]
        /\ UNCHANGED <<leaseState, executions>>
    BY <1>3 DEF Publishes, LeaseIdle, Goto, TypeOK, redisVars
  <2>2. StaleChecks' \subseteq StaleChecks
    BY <2>1, HoldsKept DEF StaleChecks, Secure
  <2>3. CASE cached' = value[f] /\ UNCHANGED disruptions
    <3>1. cached' # None
      BY <2>1, <2>3, NoValueAssumption DEF Stages
    <3> QED BY <2>1, <2>2, <2>3, <3>1, LedgerKeeps DEF Covered, TypeOK
  <2>4. CASE Disrupt
    BY <2>1, <2>2, <2>4, LedgerPays DEF Disrupt, Disrupted
  <2> QED BY <1>3, <2>3, <2>4 DEF Publishes
<1>4. CASE Releases(f)
  <2>1. /\ pc[f] \in Draining /\ pc'[f] \in {"returned", "threw"}
        /\ \A g \in Flights \ {f} : pc'[g] = pc[g]
        /\ UNCHANGED <<cached, leaseState, executions, disruptions>>
    BY <1>4 DEF Releases, Draining, Goto, TypeOK, dataVars, history
  <2>2. pc[f] \notin Spent \cup {"check", "crashed"} /\ pc'[f] # "check"
    BY <2>1 DEF Spent, Draining
  <2>3. CASE ReleaseScript(f, version[f])
    <3>1. LeaseFreed /\ Holds(f)
      BY <1>4, <2>3 DEF Releases, ReleaseScript, LeaseFreed, Matches, Holds, Granted
    <3>2. \A g \in Flights \ {f} : ~Holds(g)
      BY <3>1, HolderUnique
    <3>3. StaleChecks' \subseteq StaleChecks
      BY <2>1, <3>2 DEF StaleChecks, Secure
    <3>4. ~Standing(f)
      BY <2>2, <2>3 DEF Standing, ReleaseScript, Matches
    <3>5. Covered => Covered'
      BY <2>1, <3>2, <3>4 DEF Covered, Standing, Secure
    <3> QED BY <2>1, <3>3, <3>5, LedgerKeeps DEF TypeOK
  <2>4. CASE UNCHANGED redisVars
    <3>1. LeaseIdle
      BY <1>4, <2>4 DEF Releases, LeaseIdle, redisVars
    <3>2. Standing(f) => Standing(f)'
      BY <2>2, <3>1, HoldsKept DEF Standing, Renewable
    <3> QED BY <2>1, <2>2, <3>1, <3>2, LedgerOfRun DEF TypeOK
  <2> QED BY <1>4, <2>3, <2>4 DEF Releases
<1>5. CASE SourceThrows(f)
  <2>1. /\ LeaseIdle /\ pc'[f] = "drainThrow"
        /\ \A g \in Flights \ {f} : pc'[g] = pc[g]
        /\ UNCHANGED <<leaseState, executions>>
        /\ disruptions' = disruptions + 1
    BY <1>5
    DEF SourceThrows, Finally, Disrupt, Disrupted, LeaseIdle, Goto, TypeOK, redisVars
  <2>2. StaleChecks' \subseteq StaleChecks
    BY <2>1, HoldsKept DEF StaleChecks, Secure
  <2> QED BY <2>1, <2>2, LedgerPays
<1> QED
  BY <1>1, <1>2, <1>3, <1>4, <1>5 DEF OwnerStep, SourceStep

LEMMA RenewalLedger ==
  ASSUME TypeOK, TypeOK', Generations, Ledger, NEW f \in Flights,
         TimerFires(f) \/ RenewalStep(f) \/ RenewalUnavailable(f)
  PROVE  Ledger'
<1>1. /\ LeaseIdle \/ LeaseKept
      /\ UNCHANGED <<pc, cached, executions>>
      /\ \A g \in Flights \ {f} : leaseState'[g] = leaseState[g]
  BY RenewMoves
  DEF TimerFires, RenewalStep, Renewed, OwnershipLost, RenewalUnavailable, LeaseIdle,
      LeaseKept, TypeOK, redisVars, dataVars, history
<1>2. CASE TimerFires(f) \/ Renewed(f)
  <2>1. UNCHANGED <<leaseState, disruptions>>
    BY <1>2 DEF TimerFires, Renewed, history
  <2>2. /\ Secure(f) => Secure(f)'
        /\ Standing(f) => Standing(f)'
    BY <1>1, <2>1, HoldsKept DEF Standing, Secure
  <2> QED BY <1>1, <2>1, <2>2, LedgerOfRun DEF TypeOK
<1>3. CASE OwnershipLost(f)
  <2>1. UNCHANGED disruptions /\ (~Renewable(f) \/ ~Holds(f))
    BY <1>3 DEF OwnershipLost, Matches, Holds, history
  <2>2. Holds(f)' <=> Holds(f)
    BY <1>1, HoldsKept
  <2>3. /\ Secure(f) => Secure(f)'
        /\ Standing(f) => Standing(f)'
    BY <1>1, <1>3, <2>1, <2>2 DEF OwnershipLost, Secure, Standing, Renewable, TypeOK
  <2> QED BY <1>1, <2>1, <2>3, LedgerOfRun DEF TypeOK
<1>4. CASE RenewalUnavailable(f)
  <2>1. pc[f] # "crashed" /\ disruptions' = disruptions + 1
    BY <1>4 DEF RenewalUnavailable, Disrupt, Disrupted
  <2>2. \A g \in Flights : Holds(g)' <=> Holds(g)
    BY <1>1, HoldsKept
  <2>3. CASE pc[f] = "check"
    <3>1. StaleChecks' \subseteq StaleChecks \cup {f}
      BY <1>1, <2>2 DEF StaleChecks, Secure
    <3>2. Covered => Covered'
      BY <1>1, <2>2, <2>3 DEF Covered, Standing, Secure, Spent
    <3> QED BY <1>1, <2>1, <3>1, <3>2, LedgerPays
  <2>4. CASE pc[f] # "check"
    <3>1. StaleChecks' \subseteq StaleChecks
      BY <1>1, <2>2, <2>4 DEF StaleChecks, Secure
    <3> QED BY <1>1, <2>1, <3>1, LedgerPays
  <2> QED BY <2>3, <2>4
<1> QED BY <1>2, <1>3, <1>4 DEF RenewalStep

LEMMA CrashLedger ==
  ASSUME TypeOK, TypeOK', Ledger, NEW f \in Flights, Crash(f)
  PROVE  Ledger'
<1>1. /\ LeaseIdle /\ pc'[f] = "crashed"
      /\ \A g \in Flights \ {f} : pc'[g] = pc[g]
      /\ UNCHANGED <<cached, leaseState, executions, disruptions>>
  BY DEF Crash, Unsubscribe, LeaseIdle, Goto, TypeOK, dataVars, history
<1>2. Standing(f) => Standing(f)'
  BY <1>1, HoldsKept DEF Standing, Secure
<1> QED BY <1>1, <1>2, LedgerOfRun DEF TypeOK

LEMMA TickLedger ==
  ASSUME TypeOK, TypeOK', Generations, Ledger, Tick
  PROVE  Ledger'
<1>1. UNCHANGED <<pc, version, leaseState, cached, executions>>
  BY DEF Tick, dataVars
<1>2. CASE leaseKey' # None
  <2>1. LeaseKept /\ UNCHANGED disruptions
    BY <1>1, <1>2, ElapseMoves DEF Tick, LeaseKept
  <2>2. \A g \in Flights : Holds(g)' <=> Holds(g)
    BY <2>1, HoldsKept
  <2>3. StaleChecks' \subseteq StaleChecks
    BY <1>1, <2>2 DEF StaleChecks, Secure
  <2>4. Covered => Covered'
    BY <1>1, <2>2 DEF Covered, Standing, Secure
  <2> QED BY <1>1, <2>1, <2>3, <2>4, LedgerKeeps DEF TypeOK
<1>3. CASE leaseKey' = None
  <2>1. disruptions' = disruptions + 1
    BY <1>3 DEF Tick, Disrupted
  <2>2. CASE \E h \in Flights : pc[h] = "check" /\ Secure(h)
    <3>1. PICK h \in Flights : pc[h] = "check" /\ Secure(h)
      BY <2>2
    <3>2. \A g \in Flights \ {h} : ~Holds(g)
      BY <3>1, HolderUnique DEF Secure
    <3>3. StaleChecks' \subseteq StaleChecks \cup {h}
      BY <1>1, <3>2 DEF StaleChecks, Secure
    <3>4. Covered => Covered'
      BY <1>1, <3>1, <3>2 DEF Covered, Standing, Secure, Spent
    <3> QED BY <1>1, <2>1, <3>3, <3>4, LedgerPays
  <2>3. CASE ~\E h \in Flights : pc[h] = "check" /\ Secure(h)
    <3>1. StaleChecks' \subseteq StaleChecks
      BY <1>1, <2>3 DEF StaleChecks
    <3> QED BY <1>1, <2>1, <3>1, LedgerPays
  <2> QED BY <2>2, <2>3
<1> QED BY <1>2, <1>3

LEMMA DataLedger ==
  ASSUME TypeOK, TypeOK', Ledger, Evict \/ SourceChanges \/ Quiescent \/ UNCHANGED vars
  PROVE  Ledger'
<1>1. UNCHANGED <<redisVars, runVars, executions>>
  BY DEF Evict, SourceChanges, Quiescent, vars, history
<1>2. StaleChecks' \subseteq StaleChecks
  BY <1>1 DEF redisVars, runVars, StaleChecks, Secure, Holds, Granted
<1>3. CASE Evict
  BY <1>1, <1>2, <1>3, LedgerPays DEF Evict, Disrupt, Disrupted
<1>4. CASE SourceChanges \/ Quiescent \/ UNCHANGED vars
  <2>1. UNCHANGED <<cached, disruptions>>
    BY <1>4 DEF SourceChanges, Quiescent, vars, dataVars, history
  <2>2. Covered => Covered'
    BY <1>1, <2>1 DEF redisVars, runVars, Covered, Standing, Secure, Holds, Granted
  <2> QED BY <1>1, <1>2, <2>1, <2>2, LedgerKeeps DEF TypeOK
<1> QED BY <1>3, <1>4

LEMMA LedgerStep ==
  ASSUME TypeOK, TypeOK', Generations, Stages, Ledger, LeaseMoves, [Next]_vars
  PROVE  Ledger'
BY ClaimLedger, WaitLedger, OwnerLedger, RenewalLedger, CrashLedger, TickLedger, DataLedger
DEF Next, World, RunStep

-----------------------------------------------------------------------------
(* The invariant and what it implies. *)

LEMMA IInvInit == Init => IInv
<1> SUFFICES ASSUME Init PROVE IInv
  OBVIOUS
<1>1. TypeOK
  BY TypeInit
<1>2. Generations /\ Stages /\ Wakeups
  BY <1>1
  DEF Init, RedisInit, TypeOK, Generations, Stages, Wakeups, NoLostWakeup, Contending,
      Waiting, Owning, Awaiting, Draining
<1>3. StaleChecks = {}
  BY DEF Init, StaleChecks
<1>4. Ledger
  BY <1>3, LedgerParts, FS_EmptySet DEF Init, Ledger
<1> QED BY <1>1, <1>2, <1>4 DEF IInv

LEMMA IInvStep == IInv /\ [Next]_vars => IInv'
BY TypeStep, StepMovesLease, GenerationsStep, StagesStep, WakeupsStep, LedgerStep DEF IInv

\* The inductive invariant of DistributedRead.
THEOREM InvariantHolds == Spec => []IInv
BY IInvInit, IInvStep, PTL DEF Spec

\* Of any number of runs, one executes the source, and another one only for a
\* disruption: the loop of run never goes to the source without the lease, and
\* looks at the shared cache after the claim.
THEOREM ExecutionsOwed == Spec => []SourceExecutionsAreOwed
<1>1. IInv => SourceExecutionsAreOwed
  BY LedgerParts DEF IInv, TypeOK, Ledger, SourceExecutionsAreOwed
<1> QED BY <1>1, InvariantHolds, PTL

\* No waiting run sleeps past a release (the second look of waitForRelease).
THEOREM WakeupsReach == Spec => []NoLostWakeup
<1>1. IInv => NoLostWakeup
  BY DEF IInv, Wakeups
<1> QED BY <1>1, InvariantHolds, PTL

\* At most one live owner holds the lease, whatever ids ownerIdFactory returns.
THEOREM HolderIsNewest == Spec => []OneHolder
<1>1. IInv => OneHolder
  <2> SUFFICES ASSUME IInv, NEW f \in Flights, NEW g \in Flights,
                      pc[f] \in Owning \cup Draining, Holds(f), f # g
               PROVE  version[g] < version[f]
    BY DEF OneHolder
  <2>1. version[f] = generation /\ version[f] > 0
    BY DEF IInv, Generations, Stages, Holds, Granted
  <2>2. version[g] <= generation /\ version[g] # version[f]
    BY <2>1 DEF IInv, Generations
  <2> QED BY <2>1, <2>2 DEF IInv, TypeOK, RedisTypeOK
<1> QED BY <1>1, InvariantHolds, PTL

\* The lease is taken only when it is free, with a new generation, and given up
\* before its time only by the run that was granted it (the compared lease of
\* renewScript and releaseScript).
LEMMA LeaseStepHolds == IInv /\ [Next]_vars => LeaseStep
<1> SUFFICES ASSUME IInv, [Next]_vars PROVE LeaseStep
  OBVIOUS
<1> USE DEF IInv
<1>1. CASE UNCHANGED leaseKey
  <2>1. leaseKey # None => leaseKey \in Lease
    BY DEF TypeOK, RedisTypeOK
  <2>2. leaseKey # None => ~(leaseKey.ttl > leaseKey.ttl)
    BY <2>1 DEF Lease, FullLease
  <2> QED BY <1>1, <2>2 DEF LeaseStep
<1>2. ASSUME NEW f \in Flights, LeaseGranted(f) PROVE LeaseStep
  BY <1>2 DEF LeaseGranted, LeaseStep, TypeOK, RedisTypeOK
<1>3. ASSUME NEW f \in Flights, Renewed(f) \/ RenewalUnavailable(f),
             RenewScript(f, version[f])
      PROVE LeaseStep
  <2>1. Live(f) /\ version[f] = leaseKey.version
    BY <1>3
    DEF Renewed, RenewalUnavailable, RenewScript, Matches, Granted, Stages, Live, Settled, Owning,
        Awaiting
  <2> QED BY <1>3, <2>1, RenewMoves DEF LeaseStep, TypeOK
<1>4. ASSUME NEW f \in Flights, Releases(f), ReleaseScript(f, version[f])
      PROVE LeaseStep
  <2>1. Live(f) /\ version[f] = leaseKey.version /\ pc'[f] \in Settled
    BY <1>4 DEF Releases, ReleaseScript, Matches, Granted, Live, Settled, Goto, TypeOK
  <2> QED BY <1>4, <2>1 DEF LeaseStep, ReleaseScript
<1>5. CASE Tick
  <2>1. leaseKey \in Lease
    BY <1>5, ElapseMoves DEF Tick, TypeOK, RedisTypeOK
  <2>2. leaseKey' # None => leaseKey' \in Lease
    BY TypeStep DEF TypeOK, RedisTypeOK
  <2>3. leaseKey' # None => leaseKey'.ttl < leaseKey.ttl
    BY <1>5, ElapseMoves DEF Tick
  <2>4. leaseKey' # None => ~(leaseKey'.ttl > leaseKey.ttl)
    <3> SUFFICES ASSUME leaseKey' # None PROVE ~(leaseKey'.ttl > leaseKey.ttl)
      OBVIOUS
    <3>1. leaseKey.ttl \in Nat /\ leaseKey'.ttl \in Nat
      BY <2>1, <2>2 DEF Lease, FullLease
    <3> QED BY <2>3, <3>1
  <2> QED BY <1>5, <2>4, ElapseMoves DEF Tick, LeaseStep
<1>6. CASE /\ ~UNCHANGED leaseKey
           /\ ~Tick
           /\ ~\E f \in Flights : LeaseGranted(f)
  <2>1. \A f \in Flights : ~ClaimStep(f)
    BY <1>6, ClaimMoves
    DEF ClaimStep, Acquire, Refused, ClaimUnavailable, LeaseGranted, redisVars, TypeOK, Goto
  <2>2. \A f \in Flights :
          ~(WaitStep(f) \/ MessageArrives(f) \/ WaitTimesOut(f) \/ SourceStep(f)
             \/ TimerFires(f) \/ Crash(f))
    BY <1>6
    DEF WaitStep, MessageArrives, WaitTimesOut, LooksForLease, Subscribed, Rechecks,
        StopsWaiting, WaitUnavailable, Rereads, Subscribe, Unsubscribe, SourceStep,
        SourceAnswers, SourceThrows, TimerFires, Crash, redisVars
  <2>3. ~(Evict \/ SourceChanges \/ Quiescent \/ UNCHANGED vars)
    BY <1>6 DEF Evict, SourceChanges, Quiescent, vars, redisVars
  <2>4. PICK f \in Flights : OwnerStep(f) \/ RenewalStep(f) \/ RenewalUnavailable(f)
    BY <1>6, <2>1, <2>2, <2>3 DEF Next, World, RunStep
  <2>5. CASE OwnerStep(f)
    BY <1>4, <1>6, <2>5
    DEF OwnerStep, Checks, Synchronizes, Publishes, Drains, Releases, redisVars
  <2>6. CASE RenewalStep(f) \/ RenewalUnavailable(f)
    BY <1>3, <1>6, <2>6
    DEF RenewalStep, Renewed, OwnershipLost, RenewalUnavailable, redisVars
  <2> QED BY <2>4, <2>5, <2>6
<1> QED BY <1>1, <1>2, <1>5, <1>6

THEOREM LeaseIsFenced == Spec => LeaseFence
BY InvariantHolds, LeaseStepHolds, PTL DEF Spec, LeaseFence

-----------------------------------------------------------------------------
(* What all the runs together ask of Redis and of the source. *)

\* Which runs have left contention is finite, and so is which have checked.
LEMMA RunSetsFinite ==
  /\ IsFiniteSet(Decided) /\ Cardinality(Decided) \in Nat
  /\ IsFiniteSet(Checked) /\ Cardinality(Checked) \in Nat
  /\ IsFiniteSet(Decided') /\ Cardinality(Decided') \in Nat
  /\ IsFiniteSet(Checked') /\ Cardinality(Checked') \in Nat
<1>1. /\ Decided \subseteq Flights /\ Decided' \subseteq Flights
      /\ Checked \subseteq Flights /\ Checked' \subseteq Flights
  BY DEF Decided, Checked
<1>2. /\ IsFiniteSet(Decided) /\ IsFiniteSet(Decided')
      /\ IsFiniteSet(Checked) /\ IsFiniteSet(Checked')
  BY <1>1, FlightsAssumption, FS_Subset
<1> QED BY <1>2, FS_CardinalityType

\* A set that grows counts no less, and one more for a new member.
LEMMA GrowthCounts ==
  ASSUME NEW S, NEW T, IsFiniteSet(T), S \subseteq T
  PROVE  /\ Cardinality(S) \in Nat /\ Cardinality(T) \in Nat
         /\ Cardinality(S) <= Cardinality(T)
         /\ \A x \in T \ S : Cardinality(S) + 1 <= Cardinality(T)
<1>1. /\ IsFiniteSet(S)
      /\ Cardinality(S) \in Nat /\ Cardinality(T) \in Nat
      /\ Cardinality(S) <= Cardinality(T)
  BY FS_Subset, FS_CardinalityType
<1>2. ASSUME NEW x \in T \ S PROVE Cardinality(S) + 1 <= Cardinality(T)
  <2>1. Cardinality(S) # Cardinality(T)
    BY <1>1, <1>2, FS_Subset
  <2> QED BY <1>1, <2>1
<1> QED BY <1>1, <1>2

\* Where a step takes a run that contends, or looks at the shared cache.
LEMMA RunsMoveOn ==
  ASSUME TypeOK, [Next]_vars
  PROVE  /\ \A f \in Flights : pc[f] \notin Contending => pc'[f] \notin Contending
         /\ \A f \in Flights :
              pc[f] \notin Contending \cup {"check"} => pc'[f] # "check"
         /\ \/ UNCHANGED executions
            \/ /\ executions' = executions + 1
               /\ \E f \in Flights : pc[f] = "check" /\ pc'[f] = "source"
<1> USE DEF TypeOK, Goto, Contending, Waiting
<1> DEFINE Forth == /\ \A f \in Flights : pc[f] \notin Contending => pc'[f] \notin Contending
                    /\ \A f \in Flights :
                         pc[f] \notin Contending \cup {"check"} => pc'[f] # "check"
           Once  == \/ UNCHANGED executions
                    \/ /\ executions' = executions + 1
                       /\ \E f \in Flights : pc[f] = "check" /\ pc'[f] = "source"
<1>1. ASSUME NEW f \in Flights, ClaimStep(f) PROVE Forth /\ Once
  BY <1>1 DEF ClaimStep, Acquire, Refused, ClaimUnavailable, history
<1>2. ASSUME NEW f \in Flights, WaitStep(f) \/ MessageArrives(f) \/ WaitTimesOut(f)
      PROVE Forth /\ Once
  BY <1>2
  DEF WaitStep, MessageArrives, WaitTimesOut, LooksForLease, Subscribed, Rechecks,
      StopsWaiting, WaitUnavailable, Rereads, ReadsShared, history
<1>3. ASSUME NEW f \in Flights, Checks(f) PROVE Forth /\ Once
  BY <1>3 DEF Checks, ReadsShared, Finally
<1>4. ASSUME NEW f \in Flights,
             Synchronizes(f) \/ Publishes(f) \/ Drains(f) \/ Releases(f) \/ SourceStep(f)
      PROVE Forth /\ Once
  BY <1>4
  DEF Synchronizes, Publishes, Drains, Releases, SourceStep, SourceAnswers, SourceThrows,
      Finally, history
<1>5. ASSUME NEW f \in Flights, TimerFires(f) \/ RenewalStep(f) \/ RenewalUnavailable(f)
      PROVE Forth /\ Once
  BY <1>5
  DEF TimerFires, RenewalStep, Renewed, OwnershipLost, RenewalUnavailable, history
<1>6. ASSUME NEW f \in Flights, Crash(f) PROVE Forth /\ Once
  BY <1>6 DEF Crash, history
<1>7. ASSUME Tick \/ Evict \/ SourceChanges \/ Quiescent \/ UNCHANGED vars
      PROVE Forth /\ Once
  BY <1>7
  DEF Tick, Evict, SourceChanges, Quiescent, vars, runVars, history
<1> HIDE DEF Forth, Once
<1>8. Forth /\ Once
  BY <1>1, <1>2, <1>3, <1>4, <1>5, <1>6, <1>7 DEF Next, World, RunStep, OwnerStep
<1> QED BY <1>8 DEF Forth, Once

LEMMA NoWayBackStep == TypeOK /\ [Next]_vars => NoWayBack
BY RunsMoveOn DEF NoWayBack, Decided, Checked

\* A granted lease takes its run out of contention, also when the answer is lost.
LEMMA GrantDecides ==
  ASSUME TypeOK, [Next]_vars, generation' # generation
  PROVE  /\ generation' = generation + 1
         /\ \E f \in Flights : f \in Decided' \ Decided
<1> USE DEF TypeOK, Goto
<1>1. ASSUME NEW f \in Flights, Acquire(f) \/ ClaimUnavailable(f), ClaimScript(f)
      PROVE  generation' = generation + 1 /\ f \in Decided' \ Decided
  BY <1>1, ClaimMoves
  DEF Acquire, ClaimUnavailable, Decided, Contending, Waiting
<1>2. \E f \in Flights : (Acquire(f) \/ ClaimUnavailable(f)) /\ ClaimScript(f)
  <2>1. \A f \in Flights :
          ~(WaitStep(f) \/ MessageArrives(f) \/ WaitTimesOut(f) \/ OwnerStep(f)
             \/ SourceStep(f) \/ TimerFires(f) \/ Crash(f) \/ Refused(f))
    BY DEF WaitStep, MessageArrives, WaitTimesOut, LooksForLease, Subscribed, Rechecks,
        StopsWaiting, WaitUnavailable, Rereads, Subscribe, Unsubscribe, OwnerStep, Checks,
        Synchronizes, Publishes, Drains, Releases, ReleaseScript, SourceStep, SourceAnswers,
        SourceThrows, TimerFires, Crash, Refused, redisVars
  <2>2. \A f \in Flights : ~(RenewalStep(f) \/ RenewalUnavailable(f))
    BY RenewMoves DEF RenewalStep, Renewed, OwnershipLost, RenewalUnavailable, redisVars
  <2>3. ~(Tick \/ Evict \/ SourceChanges \/ Quiescent \/ UNCHANGED vars)
    BY ElapseMoves DEF Tick, Evict, SourceChanges, Quiescent, vars, redisVars
  <2>4. PICK f \in Flights : ClaimStep(f)
    BY <2>1, <2>2, <2>3 DEF Next, World, RunStep
  <2> QED
    BY <2>1, <2>4 DEF ClaimStep, Acquire, ClaimUnavailable, redisVars
<1> QED BY <1>1, <1>2

LEMMA RunsClaimOnceStep ==
  ASSUME TypeOK, TypeOK', RunsClaimOnce, [Next]_vars
  PROVE  RunsClaimOnce'
<1>1. Decided \subseteq Decided' /\ Checked \subseteq Checked'
  BY NoWayBackStep DEF NoWayBack
<1>2. /\ Cardinality(Decided) <= Cardinality(Decided')
      /\ \A x \in Decided' \ Decided : Cardinality(Decided) + 1 <= Cardinality(Decided')
  BY <1>1, RunSetsFinite, GrowthCounts
<1>3. /\ Cardinality(Checked) <= Cardinality(Checked')
      /\ \A x \in Checked' \ Checked : Cardinality(Checked) + 1 <= Cardinality(Checked')
  BY <1>1, RunSetsFinite, GrowthCounts
<1>4. generation \in Nat /\ generation' \in Nat /\ executions \in Nat /\ executions' \in Nat
  BY DEF TypeOK, RedisTypeOK
<1>5. generation' <= Cardinality(Decided')
  <2>1. CASE UNCHANGED generation
    BY <1>2, <1>4, <2>1, RunSetsFinite DEF RunsClaimOnce
  <2>2. CASE generation' # generation
    <3>1. generation' = generation + 1 /\ Cardinality(Decided) + 1 <= Cardinality(Decided')
      BY <1>2, <2>2, GrantDecides
    <3> QED BY <1>4, <3>1, RunSetsFinite DEF RunsClaimOnce
  <2> QED BY <2>1, <2>2
<1>6. executions' <= Cardinality(Checked')
  <2>1. CASE UNCHANGED executions
    BY <1>3, <1>4, <2>1, RunSetsFinite DEF RunsClaimOnce
  <2>2. CASE ~UNCHANGED executions
    <3>1. /\ executions' = executions + 1
          /\ \E f \in Flights : pc[f] = "check" /\ pc'[f] = "source"
      BY <2>2, RunsMoveOn
    <3>2. \E f \in Flights : f \in Checked' \ Checked
      BY <3>1 DEF Checked, Decided, Contending, Waiting
    <3>3. Cardinality(Checked) + 1 <= Cardinality(Checked')
      BY <1>3, <3>2
    <3> QED BY <1>4, <3>1, <3>3, RunSetsFinite DEF RunsClaimOnce
  <2> QED BY <2>1, <2>2
<1> QED BY <1>5, <1>6 DEF RunsClaimOnce

\* However often a run waits and contends again, it is granted one lease at most
\* and goes to the source once at most; what it has left behind it does not do
\* again.  With SourceExecutionsAreOwed this bounds what n runs cost the source
\* by n and by the disruptions, whichever is less.
THEOREM OneLeasePerRun == Spec => []RunsClaimOnce /\ [][NoWayBack]_vars
<1>1. Init => RunsClaimOnce
  BY RunSetsFinite DEF Init, RedisInit, RunsClaimOnce
<1>2. TypeOK /\ TypeOK' /\ RunsClaimOnce /\ [Next]_vars => RunsClaimOnce'
  BY RunsClaimOnceStep
<1>3. TypeOK /\ [Next]_vars => [NoWayBack]_vars
  BY NoWayBackStep
<1> QED BY <1>1, <1>2, <1>3, TypeCorrect, PTL DEF Spec

-----------------------------------------------------------------------------
(* While renewals keep up. *)

LEMMA PromptIsNext == [PromptNext]_vars => [Next]_vars
BY DEF PromptNext, Next

\* As long as nobody has outlived its lease, only the holder owns.
LEMMA OwnerUnique ==
  ASSUME TypeOK, Generations, Stages, Healthy, \A h \in Flights : ~Outlived(h),
         NEW f \in Flights, NEW g \in Flights, pc[f] \in Owning, pc[g] \in Owning
  PROVE  f = g
<1>1. Holds(f) /\ Holds(g)
  BY DEF Stages, Healthy, Outlived
<1> QED BY <1>1, HolderUnique

\* A step of one run that leaves the lease to its holder and full if it was.
LEMMA HealthOfRun ==
  ASSUME Healthy, NEW f \in Flights, LeaseIdle \/ (LeaseKept /\ leaseKey'.ttl = FullLease),
         \A g \in Flights \ {f} : pc'[g] = pc[g] /\ renewal'[g] = renewal[g],
         pc'[f] \in Owning /\ Renewable(f) =>
           /\ pc[f] \in Owning
           /\ \/ renewal'[f] = renewal[f] \/ renewal'[f] \in {"due", "sent"}
              \/ LeaseKept /\ leaseKey'.ttl = FullLease /\ renewal'[f] # "off"
  PROVE  Healthy'
<1>1. \A g \in Flights : Holds(g)' <=> Holds(g)
  BY HoldsKept
<1>2. leaseKey' = leaseKey \/ (LeaseKept /\ leaseKey'.ttl = FullLease)
  BY DEF LeaseIdle
<1> QED BY <1>1, <1>2 DEF Healthy, Renewable

LEMMA ClaimHealth ==
  ASSUME TypeOK, Generations, Healthy, NEW f \in Flights, ClaimStep(f)
  PROVE  Healthy'
<1>1. \A g \in Flights \ {f} : pc'[g] = pc[g]
  BY DEF ClaimStep, Acquire, Refused, ClaimUnavailable, Goto, TypeOK
<1>2. CASE Acquire(f)
  <2>1. /\ leaseKey = None /\ leaseKey' # None
        /\ leaseKey'.owner = OwnerOf[f] /\ leaseKey'.ttl = FullLease
        /\ version'[f] = leaseKey'.version /\ renewal'[f] = "armed"
    BY <1>2, ClaimMoves DEF Acquire, ClaimScript, TypeOK
  <2>2. \A g \in Flights \ {f} : Renewable(g) => pc'[g] \notin Owning
    BY <1>1, <2>1 DEF Healthy, Holds, Granted
  <2> QED BY <2>1, <2>2 DEF Healthy, Holds, Granted, Renewable
<1>3. CASE ClaimUnavailable(f) /\ ClaimScript(f)
  <2>1. leaseKey = None /\ pc'[f] = "threw"
    BY <1>3 DEF ClaimUnavailable, ClaimScript, Goto, TypeOK
  <2> QED BY <1>1, <2>1 DEF Healthy, Holds, Granted, Owning, Awaiting, Renewable
<1>4. CASE Refused(f) \/ (ClaimUnavailable(f) /\ UNCHANGED redisVars)
  <2>1. LeaseIdle /\ UNCHANGED renewal /\ pc'[f] \in {"exists", "threw"}
    BY <1>4 DEF Refused, ClaimUnavailable, LeaseIdle, redisVars, Goto, TypeOK
  <2> QED BY <1>1, <2>1, HealthOfRun DEF Owning, Awaiting
<1> QED BY <1>2, <1>3, <1>4 DEF ClaimStep, ClaimUnavailable

LEMMA RunHealth ==
  ASSUME TypeOK, Healthy, NEW f \in Flights,
         \/ WaitStep(f) \/ MessageArrives(f) \/ WaitTimesOut(f)
         \/ Checks(f) \/ Synchronizes(f) \/ Publishes(f) \/ Drains(f) \/ SourceStep(f)
         \/ Crash(f)
  PROVE  Healthy'
<1>1. CASE WaitStep(f) \/ MessageArrives(f) \/ WaitTimesOut(f) \/ Crash(f)
  <2>1. /\ LeaseIdle /\ pc'[f] \notin Owning
        /\ \A g \in Flights \ {f} : pc'[g] = pc[g] /\ renewal'[g] = renewal[g]
    BY <1>1
    DEF WaitStep, MessageArrives, WaitTimesOut, LooksForLease, Subscribed, Rechecks,
        StopsWaiting, WaitUnavailable, Rereads, ReadsShared, Crash, Renewal, Subscribe,
        Unsubscribe, LeaseIdle, Owning, Awaiting, Goto, TypeOK, redisVars
  <2> QED BY <2>1, HealthOfRun
<1>2. CASE Checks(f) \/ Synchronizes(f) \/ Publishes(f) \/ Drains(f) \/ SourceStep(f)
  <2>1. /\ LeaseIdle
        /\ pc'[f] \in Owning => pc[f] \in Owning /\ renewal'[f] = renewal[f]
        /\ \A g \in Flights \ {f} : pc'[g] = pc[g] /\ renewal'[g] = renewal[g]
    BY <1>2
    DEF Checks, Synchronizes, Publishes, Drains, SourceStep, SourceAnswers, SourceThrows,
        ReadsShared, Finally, LeaseIdle, Owning, Awaiting, Goto, TypeOK, redisVars
  <2> QED BY <2>1, HealthOfRun
<1> QED BY <1>1, <1>2

\* A release is that of the holder, who has stopped working for the key.
LEMMA ReleaseHealth ==
  ASSUME TypeOK, Generations, Healthy, NEW f \in Flights, Releases(f)
  PROVE  Healthy'
<1>1. /\ pc[f] \notin Owning /\ pc'[f] \notin Owning
      /\ UNCHANGED renewal
      /\ \A g \in Flights \ {f} : pc'[g] = pc[g]
  BY DEF Releases, Owning, Awaiting, Goto, TypeOK
<1>2. CASE ReleaseScript(f, version[f])
  <2>1. Holds(f)
    BY <1>2 DEF ReleaseScript, Matches, Holds
  <2>2. \A g \in Flights : Renewable(g) => pc'[g] \notin Owning
    BY <1>1, <2>1, HolderUnique DEF Healthy
  <2> QED BY <2>2 DEF Healthy, Renewable
<1>3. CASE UNCHANGED redisVars
  <2>1. LeaseIdle
    BY <1>3 DEF Releases, LeaseIdle, redisVars
  <2> QED BY <1>1, <2>1, HealthOfRun
<1> QED BY <1>2, <1>3 DEF Releases

LEMMA RenewalHealth ==
  ASSUME TypeOK, Healthy, NEW f \in Flights, TimerFires(f) \/ RenewalStep(f)
  PROVE  Healthy'
<1>1. /\ UNCHANGED pc
      /\ \A g \in Flights \ {f} : renewal'[g] = renewal[g]
  BY DEF TimerFires, RenewalStep, Renewed, OwnershipLost, Renewal, TypeOK
<1>2. CASE TimerFires(f)
  <2>1. LeaseIdle /\ renewal'[f] = "sent"
    BY <1>2 DEF TimerFires, Renewal, LeaseIdle, TypeOK, redisVars
  <2> QED BY <1>1, <2>1, HealthOfRun
<1>3. CASE Renewed(f)
  <2>1. RenewScript(f, version[f]) /\ version' = version
    BY <1>3 DEF Renewed
  <2>2. LeaseKept
    BY <2>1, RenewMoves DEF LeaseKept, TypeOK
  <2>3. leaseKey'.ttl = FullLease
    <3>1. leaseKey \in Lease
      BY <2>2 DEF LeaseKept, TypeOK, RedisTypeOK
    <3> QED BY <2>1, <3>1 DEF RenewScript, Lease
  <2>4. pc'[f] \in Owning => renewal'[f] = "armed"
    BY <1>3 DEF Renewed, Renewal, TypeOK
  <2> QED BY <1>1, <2>2, <2>3, <2>4, HealthOfRun
<1>4. CASE OwnershipLost(f)
  <2>1. LeaseIdle /\ (Renewable(f) => pc'[f] \notin Owning)
    BY <1>1, <1>4 DEF OwnershipLost, Matches, Holds, Healthy, LeaseIdle, redisVars
  <2> QED BY <1>1, <2>1, HealthOfRun
<1> QED BY <1>2, <1>3, <1>4 DEF RenewalStep

\* Time passes when every renewal has been answered, so half of the lease is left.
LEMMA TickHealth ==
  ASSUME TypeOK, Healthy, KeepsUp, Tick
  PROVE  Healthy'
<1> SUFFICES ASSUME NEW f \in Flights, pc'[f] \in Owning, Renewable(f)
             PROVE  Holds(f)' /\ renewal'[f] = "due"
  BY DEF Healthy, Renewable
<1>1. pc[f] \in Owning
  BY DEF Tick
<1>2. Holds(f) /\ renewal[f] = "armed" /\ leaseKey.ttl = FullLease
  BY <1>1 DEF KeepsUp, Healthy, TypeOK
<1>3. LeaseKept
  BY <1>2, ElapseMoves DEF Tick, LeaseKept, FullLease
<1> QED BY <1>2, <1>3, HoldsKept DEF Tick

LEMMA HealthyStep ==
  ASSUME TypeOK, Generations, Healthy, [PromptNext]_vars
  PROVE  Healthy'
<1>1. CASE Evict \/ SourceChanges \/ Quiescent \/ UNCHANGED vars
  BY <1>1
  DEF Evict, SourceChanges, Quiescent, vars, redisVars, runVars, Healthy, Holds, Granted, Renewable
<1> QED
  BY <1>1, ClaimHealth, RunHealth, ReleaseHealth, RenewalHealth, TickHealth
  DEF PromptNext, World, RunStep, OwnerStep

\* A lease that is over does not come back.
LEMMA OutlivedStays ==
  ASSUME TypeOK, Generations, Stages, [Next]_vars, NEW f \in Flights, Outlived(f)
  PROVE  Outlived(f)'
<1>1. LeaseMoves
  BY StepMovesLease
<1>2. CASE LeaseIdle \/ LeaseKept
  BY <1>2, HoldsKept DEF Outlived, LeaseIdle, LeaseKept, Renewable
<1>3. CASE LeaseFreed
  BY <1>3, HoldsFreed DEF Outlived, LeaseFreed, Renewable
<1>4. ASSUME NEW g \in Flights, LeaseGranted(g) PROVE Outlived(f)'
  <2>1. version'[f] = version[f] /\ f # g
    BY <1>4 DEF Outlived, LeaseGranted, Stages, Contending, TypeOK
  <2> QED BY <1>4, <2>1, HoldsGranted DEF Outlived, Renewable
<1> QED BY <1>1, <1>2, <1>3, <1>4 DEF LeaseMoves

\* A source answer is as new as the source, the source only moves on, and as long as
\* nobody has outlived its lease only the owner publishes.
LEMMA NewerStep ==
  ASSUME TypeOK, Generations, Stages, Healthy, Newer, [PromptNext]_vars
  PROVE  Newer'
<1>0. [Next]_vars
  BY PromptIsNext
<1> DEFINE Publishing(f) == pc[f] \in {"beforePublish", "publish"}
<1>1. CASE UNCHANGED <<cached, source>>
  <2>1. ASSUME NEW f \in Flights, Publishing(f)'
        PROVE  \/ Publishing(f) /\ value'[f] = value[f]
               \/ value'[f] = source
    BY <1>1, <2>1
    DEF PromptNext, World, RunStep, ClaimStep, Acquire, Refused, ClaimUnavailable, WaitStep,
        LooksForLease, Subscribed, Rechecks, StopsWaiting, WaitUnavailable, Rereads,
        ReadsShared, OwnerStep, Checks, Synchronizes, Publishes, Drains, Releases,
        SourceStep, SourceAnswers, SourceThrows, Finally, TimerFires, RenewalStep,
        Renewed, OwnershipLost, MessageArrives, WaitTimesOut, Crash, Evict, SourceChanges,
        Quiescent, Tick, Goto, TypeOK, vars, runVars
  <2>2. (\A g \in Flights : ~Outlived(g)') => \A g \in Flights : ~Outlived(g)
    BY <1>0, OutlivedStays
  <2> QED BY <1>1, <2>1, <2>2 DEF Newer, TypeOK, Versions
<1>2. ASSUME NEW f \in Flights, Publishes(f) PROVE Newer'
  <2>1. /\ pc[f] = "publish" /\ pc'[f] = "afterPublish"
        /\ \A g \in Flights \ {f} : pc'[g] = pc[g]
        /\ UNCHANGED <<value, source>>
        /\ cached' \in {value[f], cached}
    BY <1>2 DEF Publishes, Goto, TypeOK
  <2>2. ASSUME \A g \in Flights : ~Outlived(g)'
        PROVE  \A g \in Flights \ {f} : ~Publishing(g)
    <3>1. \A g \in Flights : ~Outlived(g)
      BY <1>0, <2>2, OutlivedStays
    <3> QED BY <2>1, <3>1, OwnerUnique DEF Owning, Awaiting
  <2> QED BY <2>1, <2>2 DEF Newer
<1>3. CASE Evict
  BY <1>3 DEF Evict, Newer, runVars
<1>4. CASE SourceChanges
  <2>1. (\A g \in Flights : ~Outlived(g)') => \A g \in Flights : ~Outlived(g)
    BY <1>0, OutlivedStays
  <2> QED BY <1>4, <2>1 DEF SourceChanges, Newer, TypeOK, Stages, Versions, runVars
<1>5. CASE ~UNCHANGED <<cached, source>>
  <2>1. \/ \E f \in Flights : Publishes(f)
        \/ Evict \/ SourceChanges
    BY <1>5
    DEF PromptNext, World, RunStep, ClaimStep, Acquire, Refused, ClaimUnavailable, WaitStep,
        LooksForLease, Subscribed, Rechecks, StopsWaiting, WaitUnavailable, Rereads,
        OwnerStep, Checks, Synchronizes, Drains, Releases, SourceStep, SourceAnswers,
        SourceThrows, TimerFires, RenewalStep, Renewed, OwnershipLost, MessageArrives,
        WaitTimesOut, Crash, Quiescent, Tick, vars, dataVars
  <2> QED BY <1>2, <1>3, <1>4, <2>1
<1> QED BY <1>1, <1>5

LEMMA PromptInit == Init => PromptInv
BY IInvInit DEF Init, PromptInv, Healthy, Newer, Owning, Awaiting

LEMMA PromptStep == PromptInv /\ [PromptNext]_vars => PromptInv'
BY PromptIsNext, IInvStep, HealthyStep, NewerStep DEF PromptInv, IInv

\* The inductive invariant of DistributedRead while renewals keep up.
THEOREM PromptInvariantHolds == PromptSpec => []PromptInv
BY PromptInit, PromptStep, PTL DEF PromptSpec

\* Nobody who works for the key, under an id it can renew its lease with, loses the
\* lease to time or to another run: the renewal comes after half a lease and is
\* rescheduled after each answer.
THEOREM OwnersStayHealthy == PromptSpec => []HealthyOwnersHold
<1>1. PromptInv => HealthyOwnersHold
  BY DEF PromptInv, Healthy, HealthyOwnersHold
<1> QED BY <1>1, PromptInvariantHolds, PTL

\* As long as no run has outlived a lease it could not renew, only the one owner
\* publishes, and what it read from the source is no older than what the shared
\* cache holds.
THEOREM CacheMovesForward == PromptSpec => CacheNeverRegresses
<1>1. PromptInv /\ [PromptNext]_vars => [RegressStep]_vars
  <2> SUFFICES ASSUME PromptInv, [PromptNext]_vars, cached # None, cached' # None,
                      \A f \in Flights : ~Outlived(f)
               PROVE  ~(cached' < cached)
    BY DEF RegressStep
  <2>1. cached \in Versions
    BY DEF PromptInv, IInv, TypeOK
  <2>2. CASE UNCHANGED cached
    BY <2>1, <2>2 DEF Versions
  <2>3. ASSUME NEW f \in Flights, Publishes(f), ~UNCHANGED cached PROVE ~(cached' < cached)
    <3>1. cached' = value[f] /\ pc[f] = "publish"
      BY <2>3 DEF Publishes
    <3>2. value[f] \in Versions
      BY <3>1 DEF PromptInv, IInv, Stages
    <3> QED BY <2>1, <3>1, <3>2 DEF PromptInv, Newer, Versions
  <2>4. CASE ~UNCHANGED cached
    <3>1. \E f \in Flights : Publishes(f)
      BY <2>4
      DEF PromptNext, World, RunStep, ClaimStep, Acquire, Refused, ClaimUnavailable,
          WaitStep, LooksForLease, Subscribed, Rechecks, StopsWaiting, WaitUnavailable,
          Rereads, OwnerStep, Checks, Synchronizes, Drains, Releases, SourceStep,
          SourceAnswers, SourceThrows, TimerFires, RenewalStep, Renewed, OwnershipLost,
          MessageArrives, WaitTimesOut, Crash, Evict, SourceChanges, Quiescent, Tick,
          vars, dataVars
    <3> QED BY <2>3, <2>4, <3>1
  <2> QED BY <2>2, <2>4
<1> QED BY <1>1, PromptInvariantHolds, PTL DEF PromptSpec, CacheNeverRegresses

\* What execute-read-with-retry.ts says of a lost ownership is true of the runs that
\* can renew their lease, while renewals keep up: they publish while they hold it.
THEOREM PublishedByHolder ==
  PromptSpec => [][\A f \in Flights : Renewable(f) => PublishStep(f)]_vars
<1>1. PromptInv => \A f \in Flights : Renewable(f) => PublishStep(f)
  BY DEF PromptInv, Healthy, PublishStep, Owning, Awaiting
<1> QED BY <1>1, PromptInvariantHolds, PTL DEF PromptSpec

=============================================================================
