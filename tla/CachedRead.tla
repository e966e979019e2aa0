------------------------------ MODULE CachedRead ------------------------------
(***************************************************************************)
(* DefaultReader with a cache plan that asks for no coordination, in one   *)
(* process and for one key: the traversal of the local levels, the local   *)
(* flight (LocalReadInFlight), the leader's path through the shared levels *)
(* to the source with its retries, backfill and promotion, and the         *)
(* caller's timeout and cancellation, which end the call but not its work. *)
(*                                                                         *)
(* Every await is a step boundary; what runs between two awaits is one     *)
(* step.  What happens between processes behind the shared levels is       *)
(* DistributedRead.                                                        *)
(***************************************************************************)
EXTENDS Naturals

CONSTANTS
  Calls,          \* calls of execute() for the key
  Timed,          \* those with a timeoutMs
  Cancellable,    \* those with a signal
  Levels,         \* number of cache levels of the plan, nearest first
  LocalEnd,       \* how many of them come before the first shared one
  Writable,       \* levels with a writer
  MaxAttempts,    \* RetryOptions.maxAttempts, 1 without a retry policy
  MaxVersion,     \* bound: versions the source goes through
  MaxDisruptions, \* bound: disruptions, see Disrupt
  None            \* nothing cached, no flight, no value

ASSUME PlanAssumption == /\ Levels \in Nat /\ LocalEnd \in 0 .. Levels
                         /\ Writable \subseteq 1 .. Levels
                         /\ MaxAttempts \in Nat \ {0}
ASSUME CallAssumption == Timed \subseteq Calls /\ Cancellable \subseteq Calls
ASSUME BoundAssumption == MaxVersion \in Nat \ {0} /\ MaxDisruptions \in Nat

VARIABLES
  pc,           \* where the work of each call is
  outcome,      \* what its caller has been told
  level,        \* the cache level its work reads or writes next
  value,        \* the value its work holds
  attempt,      \* its attempts at the source
  leader,       \* the call whose flight it joined
  flight,       \* LocalReadInFlight.flights: the call whose flight runs
  cache,        \* each level: the version of the value it holds
  source,       \* the current version of the data
  downstream,   \* leaders that went past the local levels
  disruptions   \* disruptions so far

callVars == <<pc, outcome, level, value, attempt, leader>>
vars == <<callVars, flight, cache, source, downstream, disruptions>>

Looking   == {"local", "leaderLocal", "shared"}
Promoting == {"promote", "leaderPromote"}
Leading   == {"leaderLocal", "shared", "leaderPromote", "source", "backfill"}
Ended     == {"returned", "threw"}
PCs       == {"idle", "local", "promote", "joined"} \cup Leading \cup Ended
Outcomes  == {"pending", "timed-out", "cancelled"} \cup Ended

Versions == 1 .. MaxVersion

ASSUME NoneAssumption == None \notin Versions \cup Calls

TypeOK == /\ pc \in [Calls -> PCs]
          /\ outcome \in [Calls -> Outcomes]
          /\ level \in [Calls -> 0 .. Levels + 1]
          /\ value \in [Calls -> Versions \cup {None}]
          /\ attempt \in [Calls -> 0 .. MaxAttempts]
          /\ leader \in [Calls -> Calls \cup {None}]
          /\ flight \in Calls \cup {None}
          /\ cache \in [1 .. Levels -> Versions \cup {None}]
          /\ source \in Versions
          /\ downstream \in Nat
          /\ disruptions \in 0 .. MaxDisruptions

Init == /\ pc = [c \in Calls |-> "idle"]
        /\ outcome = [c \in Calls |-> "pending"]
        /\ level = [c \in Calls |-> 0]
        /\ value = [c \in Calls |-> None]
        /\ attempt = [c \in Calls |-> 0]
        /\ leader = [c \in Calls |-> None]
        /\ flight = None
        /\ cache = [l \in 1 .. Levels |-> None]
        /\ source = 1
        /\ downstream = 0
        /\ disruptions = 0

\* A cached value vanishes, is not read or not written; an attempt fails.
Disrupt == disruptions < MaxDisruptions /\ disruptions' = disruptions + 1

GotoLevel(c, label, l) ==
  pc' = [pc EXCEPT ![c] = label] /\ level' = [level EXCEPT ![c] = l]

-----------------------------------------------------------------------------
(* The caller. *)

Starts(c) ==
  /\ pc[c] = "idle" /\ outcome[c] = "pending"
  /\ GotoLevel(c, "local", 1)
  /\ UNCHANGED <<outcome, value, attempt, leader, flight, cache, source, downstream, disruptions>>

\* Mutation: giving up ends the work, and the flight with it.
TimesOutTogether(c) ==
  /\ c \in Timed /\ pc[c] # "idle" /\ outcome[c] = "pending"
  /\ outcome' = [outcome EXCEPT ![c] = "timed-out"]
  /\ pc' = [pc EXCEPT ![c] = "threw"]
  /\ flight' = IF flight = c THEN None ELSE flight
  /\ UNCHANGED <<level, value, attempt, leader, cache, source, downstream, disruptions>>

\* The timer of DefaultReadTimeout: the work goes on.
TimesOut(c) ==
  /\ c \in Timed /\ pc[c] # "idle" /\ outcome[c] = "pending"
  /\ outcome' = [outcome EXCEPT ![c] = "timed-out"]
  /\ UNCHANGED <<pc, level, value, attempt, leader, flight, cache, source, downstream, disruptions>>

\* Before execute() the work is not started; after it, it goes on.
Aborts(c) ==
  /\ c \in Cancellable /\ outcome[c] = "pending"
  /\ outcome' = [outcome EXCEPT ![c] = "cancelled"]
  /\ UNCHANGED <<pc, level, value, attempt, leader, flight, cache, source, downstream, disruptions>>

\* The work of a call settles; the caller hears of it unless it has given up.
Settles(c, end) ==
  /\ pc' = [pc EXCEPT ![c] = end]
  /\ outcome' = [outcome EXCEPT ![c] = IF @ = "pending" THEN end ELSE @]

-----------------------------------------------------------------------------
(* ReadCacheTraversal. *)

LastLevel(c) == IF pc[c] = "shared" THEN Levels ELSE LocalEnd

\* findHit: the first level that has a value; one that fails counts as a miss.
ReadsLevel(c) ==
  /\ pc[c] \in Looking /\ level[c] <= LastLevel(c)
  /\ \/ /\ cache[level[c]] # None
        /\ value' = [value EXCEPT ![c] = cache[level[c]]]
        /\ GotoLevel(c, IF pc[c] = "local" THEN "promote" ELSE "leaderPromote", level[c] - 1)
        /\ UNCHANGED disruptions
     \/ /\ IF cache[level[c]] = None THEN UNCHANGED disruptions ELSE Disrupt
        /\ GotoLevel(c, pc[c], level[c] + 1)
        /\ UNCHANGED value
  /\ UNCHANGED <<outcome, attempt, leader, flight, cache, source, downstream>>

Missed(c) == pc[c] \in Looking /\ level[c] > LastLevel(c)

\* populate: from the farthest level to the nearest; a failed write is swallowed.
WritesLevel(c) ==
  /\ pc[c] \in Promoting \cup {"backfill"} /\ level[c] > 0
  /\ \/ /\ level[c] \in Writable
        /\ \/ cache' = [cache EXCEPT ![level[c]] = value[c]] /\ UNCHANGED disruptions
           \/ Disrupt /\ UNCHANGED cache
     \/ /\ level[c] \notin Writable
        /\ UNCHANGED <<cache, disruptions>>
  /\ GotoLevel(c, pc[c], level[c] - 1)
  /\ UNCHANGED <<outcome, value, attempt, leader, flight, source, downstream>>

Populated(c, label) == pc[c] = label /\ level[c] = 0

-----------------------------------------------------------------------------
(* CachedReadExecutor and LocalReadInFlight. *)

\* A hit in the local levels does not enter the flight.
Returns(c) ==
  /\ Populated(c, "promote")
  /\ Settles(c, "returned")
  /\ UNCHANGED <<level, value, attempt, leader, flight, cache, source, downstream, disruptions>>

Joins(c) ==
  /\ pc[c] = "local" /\ Missed(c) /\ flight # None
  /\ leader' = [leader EXCEPT ![c] = flight]
  /\ GotoLevel(c, "joined", 0)
  /\ UNCHANGED <<outcome, value, attempt, flight, cache, source, downstream, disruptions>>

\* Mutation: the leader trusts the misses it had before it led.
LeadsDownstream(c) ==
  /\ pc[c] = "local" /\ Missed(c) /\ flight = None
  /\ flight' = c
  /\ GotoLevel(c, "shared", LocalEnd + 1)
  /\ downstream' = downstream + 1
  /\ UNCHANGED <<outcome, value, attempt, leader, cache, source, disruptions>>

\* The leader looks at the local levels again: its last miss may be older than
\* the flight before.
Leads(c) ==
  /\ pc[c] = "local" /\ Missed(c) /\ flight = None
  /\ flight' = c
  /\ GotoLevel(c, "leaderLocal", 1)
  /\ UNCHANGED <<outcome, value, attempt, leader, cache, source, downstream, disruptions>>

GoesDownstream(c) ==
  /\ pc[c] = "leaderLocal" /\ Missed(c)
  /\ GotoLevel(c, "shared", LocalEnd + 1)
  /\ downstream' = downstream + 1
  /\ UNCHANGED <<outcome, value, attempt, leader, flight, cache, source, disruptions>>

GoesToSource(c) ==
  /\ pc[c] = "shared" /\ Missed(c)
  /\ GotoLevel(c, "source", Levels)
  /\ attempt' = [attempt EXCEPT ![c] = 1]
  /\ UNCHANGED <<outcome, value, leader, flight, cache, source, downstream, disruptions>>

\* Mutation: the flight ends with the source, the backfill is not awaited.
SourceAnswersFirst(c) ==
  /\ pc[c] = "source"
  /\ value' = [value EXCEPT ![c] = source]
  /\ GotoLevel(c, "backfill", Levels)
  /\ flight' = None
  /\ UNCHANGED <<outcome, attempt, leader, cache, source, downstream, disruptions>>

SourceAnswers(c) ==
  /\ pc[c] = "source"
  /\ value' = [value EXCEPT ![c] = source]
  /\ GotoLevel(c, "backfill", Levels)
  /\ UNCHANGED <<outcome, attempt, leader, flight, cache, source, downstream, disruptions>>

\* executeReadWithRetry: only the leader retries.
SourceRetries(c) ==
  /\ pc[c] = "source" /\ attempt[c] < MaxAttempts
  /\ Disrupt
  /\ attempt' = [attempt EXCEPT ![c] = @ + 1]
  /\ UNCHANGED <<pc, outcome, level, value, leader, flight, cache, source, downstream>>

\* Mutation: only a flight that succeeded is removed.
SourceThrowsKept(c) ==
  /\ pc[c] = "source"
  /\ Disrupt
  /\ Settles(c, "threw")
  /\ UNCHANGED <<level, value, attempt, leader, flight, cache, source, downstream>>

\* Not retryable, or the last attempt: the flight fails and is removed.
SourceThrows(c) ==
  /\ pc[c] = "source"
  /\ Disrupt
  /\ Settles(c, "threw")
  /\ flight' = None
  /\ UNCHANGED <<level, value, attempt, leader, cache, source, downstream>>

\* finally() of run: the flight is removed before anybody hears of its result.
FlightEnds(c) ==
  /\ Populated(c, "leaderPromote") \/ Populated(c, "backfill")
  /\ Settles(c, "returned")
  /\ flight' = None
  /\ UNCHANGED <<level, value, attempt, leader, cache, source, downstream, disruptions>>

\* Mutation: only what the caller of the flight was told is passed on.
FollowsHealthy(c) ==
  /\ pc[c] = "joined" /\ pc[leader[c]] \in Ended
  /\ outcome[leader[c]] \in Ended
  /\ value' = [value EXCEPT ![c] = value[leader[c]]]
  /\ Settles(c, pc[leader[c]])
  /\ UNCHANGED <<level, attempt, leader, flight, cache, source, downstream, disruptions>>

\* Those who joined get what the flight got.
Follows(c) ==
  /\ pc[c] = "joined" /\ pc[leader[c]] \in Ended
  /\ value' = [value EXCEPT ![c] = value[leader[c]]]
  /\ Settles(c, pc[leader[c]])
  /\ UNCHANGED <<level, attempt, leader, flight, cache, source, downstream, disruptions>>

-----------------------------------------------------------------------------
(* The environment. *)

\* The time to live of a cached value ends, or it is evicted.
Evict(l) ==
  /\ cache[l] # None
  /\ Disrupt
  /\ cache' = [cache EXCEPT ![l] = None]
  /\ UNCHANGED <<callVars, flight, source, downstream>>

SourceChanges ==
  /\ source < MaxVersion
  /\ source' = source + 1
  /\ UNCHANGED <<callVars, flight, cache, downstream, disruptions>>

Over(c) == outcome[c] # "pending" /\ pc[c] \in {"idle"} \cup Ended
Quiescent == (\A c \in Calls : Over(c)) /\ UNCHANGED vars

-----------------------------------------------------------------------------
CacheStep(c)  == ReadsLevel(c) \/ WritesLevel(c)
FlightStep(c) == Joins(c) \/ Leads(c) \/ GoesDownstream(c) \/ GoesToSource(c)
EndStep(c)    == Returns(c) \/ FlightEnds(c) \/ Follows(c)
SourceStep(c) == SourceAnswers(c) \/ SourceRetries(c) \/ SourceThrows(c)
WorkStep(c)   == CacheStep(c) \/ FlightStep(c) \/ EndStep(c) \/ SourceStep(c)

Next == \/ \E c \in Calls : Starts(c) \/ TimesOut(c) \/ Aborts(c) \/ WorkStep(c)
        \/ \E l \in 1 .. Levels : Evict(l)
        \/ SourceChanges \/ Quiescent
Spec == Init /\ [][Next]_vars

\* Caches answer, promises are followed and timers fire; the source need not
\* settle.
Fairness == \A c \in Calls : /\ WF_vars(CacheStep(c) \/ FlightStep(c) \/ EndStep(c))
                             /\ WF_vars(TimesOut(c))
FairSpec == Spec /\ Fairness

-----------------------------------------------------------------------------
(* Safety. *)

\* The map holds the one flight that runs, and no flight that has ended: a
\* failure is not shared with later calls, and no two calls lead (the finally
\* of LocalReadInFlight.run).
FlightRuns == \A c \in Calls : pc[c] \in Leading <=> flight = c

\* The local flight collapses the work behind the local levels: it is begun once,
\* and again only for a value that vanished or was not read or not written, or
\* an attempt that failed (the leader's second look at the local levels).
DownstreamIsOwed ==
  Writable \cap (1 .. LocalEnd) # {} => downstream <= 1 + disruptions

FlightOf(c) == IF leader[c] = None THEN c ELSE leader[c]

\* A caller is told of nothing but its own timeout or signal, or of what its
\* flight came to, and a flight fails only at the source: giving up is private.
GivingUpIsPrivate ==
  \A c \in Calls :
    /\ outcome[c] = "returned" => value[c] # None /\ value[c] = value[FlightOf(c)]
    /\ outcome[c] = "threw" => pc[FlightOf(c)] = "threw" /\ attempt[FlightOf(c)] > 0

\* A source result never replaces a newer value: the flight lasts until its
\* backfill is written (populate is awaited).  A promotion may.
BackfillStep ==
  \A c \in Calls, l \in 1 .. Levels :
    pc[c] = "backfill" /\ level[c] = l /\ level'[c] # l
      /\ cache[l] # None /\ cache'[l] # None
      => cache'[l] >= cache[l]
BackfillNeverRegresses == [][BackfillStep]_vars

(* Liveness. *)

\* A timed call ends, whatever the source does; any other one ends or waits for
\* the source.
CallsEnd ==
  \A c \in Calls :
    pc[c] # "idle" ~> \/ outcome[c] # "pending"
                      \/ c \notin Timed /\ flight # None /\ pc[flight] = "source"

=============================================================================
