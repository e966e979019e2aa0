--------------------------- MODULE DistributedRead ---------------------------
(***************************************************************************)
(* DistributedReadFlight over the Redis coordinator and one shared cache   *)
(* level: runs in several processes that missed the same key.  One owns    *)
(* the lease, executes the source and publishes its result to the shared   *)
(* cache, while a timer renews the lease; the others wait for the release  *)
(* and read the shared cache again.                                        *)
(*                                                                         *)
(* Every await is a step boundary.  Leases expire, processes crash, Redis  *)
(* may throw before or after a command took effect, cached values vanish,  *)
(* cache reads and writes fail open, and published messages may be late.   *)
(***************************************************************************)
EXTENDS ReadCoordinator

CONSTANTS
  MaxVersion,     \* bound: versions the source goes through
  MaxDisruptions  \* bound: disruptions other than expiries, see Disrupt

ASSUME BoundAssumption == MaxVersion \in Nat \ {0} /\ MaxDisruptions \in Nat

VARIABLES
  pc,            \* where each run is
  version,       \* version of the lease a run was granted
  renewal,       \* its renewal timer: off, armed, due, or renew() under way
  leaseState,    \* what the owner has been told about its lease
  value,         \* the value a run holds
  cached,        \* the shared cache: the version of the value it holds
  source,        \* the current version of the data
  executions,    \* source executions started so far
  disruptions    \* disruptions so far

runVars  == <<pc, version, renewal, leaseState, value>>
dataVars == <<cached, source>>
history  == <<executions, disruptions>>
vars     == <<redisVars, runVars, dataVars, history>>

Settled  == {"returned", "threw", "crashed"}
Waiting  == {"subscribing", "rechecking", "waiting"}
Awaiting == {"check", "source", "publish"}
Owning   == Awaiting \cup {"beforePublish", "afterPublish"}
Draining == {"drainReturn", "drainThrow", "releaseReturn", "releaseThrow"}
PCs      == {"claim", "exists", "reread"} \cup Waiting \cup Owning \cup Draining \cup Settled

Versions == 1 .. MaxVersion

ASSUME NoValueAssumption == None \notin Versions

TypeOK == /\ RedisTypeOK
          /\ pc \in [Flights -> PCs]
          /\ version \in [Flights -> Nat]
          /\ renewal \in [Flights -> {"off", "armed", "due", "sent"}]
          /\ leaseState \in [Flights -> {"owned", "lost", "unavailable"}]
          /\ value \in [Flights -> Versions \cup {None}]
          /\ cached \in Versions \cup {None}
          /\ source \in Versions
          /\ executions \in Nat
          /\ disruptions \in Nat

Init == /\ RedisInit
        /\ pc = [f \in Flights |-> "claim"]
        /\ version = [f \in Flights |-> 0]
        /\ renewal = [f \in Flights |-> "off"]
        /\ leaseState = [f \in Flights |-> "owned"]
        /\ value = [f \in Flights |-> None]
        /\ cached = None
        /\ source = 1
        /\ executions = 0
        /\ disruptions = 0

Goto(f, label) == pc' = [pc EXCEPT ![f] = label]

\* What entitles the system to one more source execution: a lease expired, the
\* cached value vanished or was not read or not written, an execution or the
\* publication of its result failed.
Disrupted == disruptions' = disruptions + 1

\* Expiry is bounded by the number of claims; the others by MaxDisruptions.
Disrupt == disruptions < MaxDisruptions /\ Disrupted

\* The lease is the one f was granted, whether or not f can renew it.
Holds(f) == Granted(f, version[f])

-----------------------------------------------------------------------------
(* Claiming and waiting. *)

Acquire(f) ==
  /\ pc[f] = "claim"
  /\ ClaimScript(f)
  /\ version' = [version EXCEPT ![f] = leaseKey'.version]
  /\ renewal' = [renewal EXCEPT ![f] = "armed"]
  /\ Goto(f, "check")
  /\ UNCHANGED <<leaseState, value, dataVars, history>>

Refused(f) ==
  /\ pc[f] = "claim" /\ leaseKey # None
  /\ Goto(f, "exists")
  /\ UNCHANGED <<redisVars, version, renewal, leaseState, value, dataVars, history>>

\* The coordinator fails closed; the claim may have taken effect.
ClaimUnavailable(f) ==
  /\ pc[f] = "claim"
  /\ UNCHANGED redisVars \/ ClaimScript(f)
  /\ Goto(f, "threw")
  /\ UNCHANGED <<version, renewal, leaseState, value, dataVars, history>>

\* wait() looks before it subscribes.
LooksForLease(f) ==
  /\ pc[f] = "exists"
  /\ Goto(f, IF leaseKey = None THEN "reread" ELSE "subscribing")
  /\ UNCHANGED <<redisVars, version, renewal, leaseState, value, dataVars, history>>

\* Mutation: the lease is not looked for again once the subscription stands.
SubscribedWithoutRecheck(f) ==
  /\ pc[f] = "subscribing"
  /\ Subscribe(f)
  /\ Goto(f, "waiting")
  /\ UNCHANGED <<version, renewal, leaseState, value, dataVars, history>>

Subscribed(f) ==
  /\ pc[f] = "subscribing"
  /\ Subscribe(f)
  /\ Goto(f, "rechecking")
  /\ UNCHANGED <<version, renewal, leaseState, value, dataVars, history>>

\* finish() unsubscribes; later events of this wait are ignored.
StopsWaiting(f, label) ==
  /\ Unsubscribe(f)
  /\ Goto(f, label)
  /\ UNCHANGED <<version, renewal, leaseState, value, dataVars, history>>

\* The lease may have been released between the first look and the subscription.
Rechecks(f) ==
  /\ pc[f] = "rechecking"
  /\ IF leaseKey = None
       THEN StopsWaiting(f, "reread")
       ELSE /\ Goto(f, "waiting")
            /\ UNCHANGED <<redisVars, version, renewal, leaseState, value, dataVars, history>>

MessageArrives(f) ==
  /\ pc[f] \in {"rechecking", "waiting"} /\ f \in mailbox
  /\ StopsWaiting(f, "reread")

\* Mutation: the timer covers the subscription only.
WaitTimesOutEarly(f) == pc[f] = "subscribing" /\ StopsWaiting(f, "reread")

WaitTimesOut(f) == pc[f] \in Waiting /\ StopsWaiting(f, "reread")

\* connect(), exists or subscribe throws.
WaitUnavailable(f) ==
  /\ pc[f] \in {"exists", "subscribing", "rechecking"}
  /\ StopsWaiting(f, "threw")

\* readShared: a hit, or a miss that may be a failed cache read.
ReadsShared(f, hit, miss) ==
  \/ /\ cached # None
     /\ value' = [value EXCEPT ![f] = cached]
     /\ hit
     /\ UNCHANGED disruptions
  \/ /\ IF cached = None THEN UNCHANGED disruptions ELSE Disrupt
     /\ miss
     /\ UNCHANGED value

\* Whatever ended the wait, the shared cache decides; a miss contends again.
Rereads(f) ==
  /\ pc[f] = "reread"
  /\ ReadsShared(f, Goto(f, "returned"), Goto(f, "claim"))
  /\ UNCHANGED <<redisVars, version, renewal, leaseState, dataVars, executions>>

-----------------------------------------------------------------------------
(* The owner. *)

\* The finally block: no new renewal starts, one under way is awaited.
Finally(f, outcome) ==
  /\ Goto(f, outcome)
  /\ renewal' = [renewal EXCEPT ![f] = IF @ = "sent" THEN "sent" ELSE "off"]

\* Mutation: the owner trusts the miss it had before the claim.
ChecksNothing(f) ==
  /\ pc[f] = "check"
  /\ Goto(f, "source") /\ executions' = executions + 1
  /\ UNCHANGED <<redisVars, version, renewal, leaseState, value, dataVars, disruptions>>

\* An earlier owner may have published since this run's last miss.
Checks(f) ==
  /\ pc[f] = "check"
  /\ ReadsShared(f, Finally(f, "drainReturn") /\ UNCHANGED executions,
                    /\ Goto(f, "source") /\ executions' = executions + 1
                    /\ UNCHANGED renewal)
  /\ UNCHANGED <<redisVars, version, leaseState, dataVars>>

SourceAnswers(f) ==
  /\ pc[f] = "source"
  /\ value' = [value EXCEPT ![f] = source]
  /\ Goto(f, "beforePublish")
  /\ UNCHANGED <<redisVars, version, renewal, leaseState, dataVars, history>>

\* After its own retries.
SourceThrows(f) ==
  /\ pc[f] = "source"
  /\ Disrupt
  /\ Finally(f, "drainThrow")
  /\ UNCHANGED <<redisVars, version, leaseState, value, dataVars, executions>>

\* synchronizeRenewal: await a renewal under way, then assertOwnership.
Synchronizes(f) ==
  /\ pc[f] \in {"beforePublish", "afterPublish"} /\ renewal[f] # "sent"
  /\ IF leaseState[f] # "owned" THEN Finally(f, "drainThrow")
     ELSE IF pc[f] = "afterPublish" THEN Finally(f, "drainReturn")
     ELSE Goto(f, "publish") /\ UNCHANGED renewal
  /\ UNCHANGED <<redisVars, version, leaseState, value, dataVars, history>>

\* populate: a failed write is swallowed.
Publishes(f) ==
  /\ pc[f] = "publish"
  /\ \/ cached' = value[f] /\ UNCHANGED disruptions
     \/ Disrupt /\ UNCHANGED cached
  /\ Goto(f, "afterPublish")
  /\ UNCHANGED <<redisVars, version, renewal, leaseState, value, source, executions>>

\* finally: await the renewal under way.
Drains(f) ==
  /\ pc[f] \in {"drainReturn", "drainThrow"} /\ renewal[f] # "sent"
  /\ Goto(f, IF pc[f] = "drainReturn" THEN "releaseReturn" ELSE "releaseThrow")
  /\ UNCHANGED <<redisVars, version, renewal, leaseState, value, dataVars, history>>

\* release() is best effort: refused to a stale owner, and errors are swallowed.
Releases(f) ==
  /\ pc[f] \in {"releaseReturn", "releaseThrow"}
  /\ \/ ReleaseScript(f, version[f])
     \/ UNCHANGED redisVars
  /\ Goto(f, IF pc[f] = "releaseReturn" THEN "returned" ELSE "threw")
  /\ UNCHANGED <<version, renewal, leaseState, value, dataVars, history>>

-----------------------------------------------------------------------------
(* The renewal timer of an owner. *)

Renewal(f, state) == renewal' = [renewal EXCEPT ![f] = state]

\* Timers fire while the owner awaits the cache or the source; assertOwnership
\* runs in the turn in which that await, or the one of a renewal, ended.
TimerFires(f) ==
  /\ renewal[f] \in {"armed", "due"} /\ pc[f] \in Awaiting
  /\ Renewal(f, "sent")
  /\ UNCHANGED <<redisVars, pc, version, leaseState, value, dataVars, history>>

\* Mutation: a renewed lease is not renewed again.
RenewedOnce(f) ==
  /\ renewal[f] = "sent"
  /\ RenewScript(f, version[f])
  /\ Renewal(f, "off")
  /\ UNCHANGED <<pc, version, leaseState, value, dataVars, history>>

\* The next renewal is scheduled when this one has answered, unless stopped.
Renewed(f) ==
  /\ renewal[f] = "sent" /\ pc[f] # "crashed"
  /\ RenewScript(f, version[f])
  /\ Renewal(f, IF pc[f] \in Owning THEN "armed" ELSE "off")
  /\ UNCHANGED <<pc, version, leaseState, value, dataVars, history>>

\* So is answered an owner whose lease is not there, or that cannot renew it.
OwnershipLost(f) ==
  /\ renewal[f] = "sent" /\ pc[f] # "crashed" /\ ~Matches(f, version[f])
  /\ Renewal(f, "off")
  /\ leaseState' = [leaseState EXCEPT ![f] = "lost"]
  /\ UNCHANGED <<redisVars, pc, version, value, dataVars, history>>

\* renew() throws, before or after it took effect: a healthy owner will drop
\* the result of its source execution.
RenewalUnavailable(f) ==
  /\ renewal[f] = "sent" /\ pc[f] # "crashed"
  /\ Disrupt
  /\ UNCHANGED redisVars \/ RenewScript(f, version[f])
  /\ Renewal(f, "off")
  /\ leaseState' = [leaseState EXCEPT ![f] = "unavailable"]
  /\ UNCHANGED <<pc, version, value, dataVars, executions>>

-----------------------------------------------------------------------------
(* The environment. *)

\* Half a lease passes, for Redis and for every armed timer.
Tick ==
  /\ Elapses
  /\ IF leaseKey' = None THEN Disrupted ELSE UNCHANGED disruptions
  /\ renewal' = [f \in Flights |-> IF renewal[f] = "armed" THEN "due" ELSE renewal[f]]
  /\ UNCHANGED <<pc, version, leaseState, value, dataVars, executions>>

\* The time to live of the cached value ends, or it is evicted.
Evict ==
  /\ cached # None
  /\ Disrupt
  /\ cached' = None
  /\ UNCHANGED <<redisVars, runVars, source, executions>>

SourceChanges ==
  /\ source < MaxVersion
  /\ source' = source + 1
  /\ UNCHANGED <<redisVars, runVars, cached, history>>

Live(f) == pc[f] \notin Settled

Crash(f) ==
  /\ Live(f)
  /\ Unsubscribe(f)
  /\ Goto(f, "crashed")
  /\ Renewal(f, "off")
  /\ UNCHANGED <<version, leaseState, value, dataVars, history>>

Quiescent == (\A f \in Flights : ~Live(f)) /\ UNCHANGED vars

-----------------------------------------------------------------------------
ClaimStep(f)   == Acquire(f) \/ Refused(f) \/ ClaimUnavailable(f)
WaitStep(f)    == LooksForLease(f) \/ Subscribed(f) \/ Rechecks(f) \/ WaitUnavailable(f)
                    \/ Rereads(f)
OwnerStep(f)   == Checks(f) \/ Synchronizes(f) \/ Publishes(f) \/ Drains(f) \/ Releases(f)
SourceStep(f)  == SourceAnswers(f) \/ SourceThrows(f)
RenewalStep(f) == Renewed(f) \/ OwnershipLost(f)

RunStep(f) == \/ ClaimStep(f) \/ WaitStep(f) \/ OwnerStep(f) \/ SourceStep(f)
              \/ TimerFires(f) \/ RenewalStep(f) \/ MessageArrives(f) \/ WaitTimesOut(f)

World == \/ \E f \in Flights : RunStep(f) \/ Crash(f)
         \/ Evict \/ SourceChanges \/ Quiescent

Next == World \/ Tick \/ \E f \in Flights : RenewalUnavailable(f)
Spec == Init /\ [][Next]_vars

\* Redis answers, timers fire, the source settles, time passes.  Messages need
\* never arrive.
Fairness ==
  /\ \A f \in Flights :
       /\ WF_vars(ClaimStep(f)) /\ WF_vars(WaitStep(f)) /\ WF_vars(OwnerStep(f))
       /\ WF_vars(SourceStep(f)) /\ WF_vars(TimerFires(f))
       /\ WF_vars(RenewalStep(f) \/ RenewalUnavailable(f))
       /\ WF_vars(WaitTimesOut(f))
  /\ WF_vars(Tick)
FairSpec == Spec /\ Fairness

\* An environment in which renewals keep up: the event loop runs a due timer,
\* and Redis answers it without an error, before another half lease has passed.
KeepsUp == \A f \in Flights : pc[f] \in Owning => renewal[f] \notin {"due", "sent"}
PromptNext == World \/ (KeepsUp /\ Tick)
PromptSpec == Init /\ [][PromptNext]_vars

-----------------------------------------------------------------------------
(* Safety. *)

\* Coordination is worth its price: of any number of runs, one executes the
\* source, and another one only for an expired lease, a vanished or unread
\* cache value, or a failed execution, renewal or publication (the check after
\* the claim, and the loop of run, which never goes to the source without the
\* lease).
SourceExecutionsAreOwed == executions <= 1 + disruptions

\* A run that waits does not sleep past a release: the message is on its way or
\* the lease it waits for is held (the second look in waitForRelease).
NoLostWakeup ==
  \A f \in Flights :
    pc[f] = "waiting" /\ leaseKey = None /\ ended = "released" => f \in mailbox

\* At most one live owner holds the lease, even if owner ids repeat; whoever
\* does not, holds an older generation.
OneHolder ==
  \A f, g \in Flights :
    pc[f] \in Owning \cup Draining /\ pc[g] \in Owning \cup Draining /\ Holds(f) /\ f # g
      => version[g] < version[f]

\* What a step may do to the lease: it is taken only when it is free and with a
\* new generation; before its time is over it goes away only by the release of
\* the run that was granted it.
LeaseStep ==
  /\ leaseKey = None /\ leaseKey' # None => leaseKey'.version > generation
  /\ leaseKey # None /\ leaseKey' # None =>
       /\ leaseKey'.version = leaseKey.version
       /\ leaseKey'.ttl > leaseKey.ttl =>
            \E f \in Flights : Live(f) /\ version[f] = leaseKey.version
  /\ leaseKey # None /\ leaseKey' = None =>
       \/ leaseKey.ttl = 1 /\ ended' = "expired"
       \/ \E f \in Flights : /\ version[f] = leaseKey.version
                             /\ Live(f) /\ pc'[f] \in Settled
LeaseFence == [][LeaseStep]_vars

\* "the result is never returned or published once ownership is lost"
\* (execute-read-with-retry.ts:30): a published value is one of the holder.
PublishStep(f) == pc[f] = "publish" /\ cached' # cached /\ cached' # None => Holds(f)
PublishesUnderLease == [][\A f \in Flights : PublishStep(f)]_vars

\* While renewals keep up, nobody who works for the key and can renew its lease
\* loses it (the interval of half a lease, rescheduled after each answer).
HealthyOwnersHold == \A f \in Flights : pc[f] \in Owning /\ Renewable(f) => Holds(f)

\* A run that was granted a lease it cannot renew, and that lease is over.
Outlived(f) == ~Renewable(f) /\ version[f] > 0 /\ ~Holds(f)

\* Then the shared cache does not go back to an older version either, unless
\* some run has outlived a lease it could not renew.
RegressStep ==
  cached # None /\ cached' # None /\ cached' < cached => \E f \in Flights : Outlived(f)
CacheNeverRegresses == [][RegressStep]_vars

(* Liveness. *)

\* Every run ends, although messages may be lost, owners crash without a
\* release, and the lease may be held by nobody (the timeout of wait()).
RunsSettle == \A f \in Flights : <>(pc[f] \in Settled)

=============================================================================
