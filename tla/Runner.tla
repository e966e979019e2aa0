------------------------------- MODULE Runner -------------------------------
(***************************************************************************)
(* DefaultRunner: any number of concurrent executeDetailed() calls, in     *)
(* several Runner processes, against one Execution Log, one transaction    *)
(* manager and one Outbox.                                                 *)
(*                                                                         *)
(* Every await of the code is a step boundary, so the calls interleave     *)
(* there.  A process may crash at any boundary, a store call may throw     *)
(* before or after it took effect, leases expire at any time, and handlers *)
(* may never answer.                                                       *)
(***************************************************************************)
EXTENDS ExecutionLog

CONSTANTS
  Calls,         \* invocations of Runner.execute()
  Intents,       \* business intents; the execution id is derived from them
  Command        \* the Command of each call and the process that runs it

Commands == [intent      : Intents,
             operation   : Operations,
             runner      : LeaseOwners,
             guards      : Nat,         \* length of options.guards
             rateLimited : BOOLEAN,     \* options.rateLimit is present
             timed       : BOOLEAN,     \* options.timeoutMs is present
             maxAttempts : Nat \ {0}]   \* 1 when options.retry is absent

ASSUME CommandAssumption == Command \in [Calls -> Commands]
ASSUME CallAssumption    == None \notin Calls

VARIABLES
  log,           \* the Execution Log entry of each intent
  rowLock,       \* the call whose open transaction has written the entry
  effects,       \* attempts whose domain changes are durable, per intent
  outbox,        \* attempts whose Outbox records are durable, per intent
  pc,            \* where each call is
  lease,         \* lease version the call received from its last claim
  attempt,       \* handlerAttemptNumber; 0 before the handler is resolved
  passed,        \* guards that accepted the call
  consumed,      \* how often the call consumed rate-limit capacity
  result,        \* the domain result the call holds
  error          \* the error the call is handling or has thrown

storeVars == <<log, rowLock, effects, outbox>>
callVars  == <<pc, lease, attempt, passed, consumed, result, error>>
vars      == <<storeVars, callVars>>

Settled == {"returned", "threw", "crashed"}
PCs     == {"ready", "guards", "resolve", "handler", "complete", "append",
            "commit", "rollback", "committed", "fail", "backoff"} \cup Settled

\* Errors as far as the code tells them apart.  "transient" is an
\* ExecutionFailureError with retryable = true; anything else that handlers,
\* policies or adapters throw normalizes to "permanent".
Thrown    == {"transient", "permanent"}
Errors    == Thrown \cup {"none", "timed-out", "guard-rejected",
              "rate-limited", "transition-rejected", "already-in-progress",
              "intent-conflict"}
Retryable == {"transient", "timed-out", "already-in-progress"}

IntentOf(c) == Command[c].intent
EntryOf(c)  == log[IntentOf(c)]
Unlocked(c) == rowLock[IntentOf(c)] = None

\* assertCompleted / assertFailed: the exact owner and version of the claim.
OwnsAttempt(c) == HoldsLease(EntryOf(c), Command[c].runner, lease[c])

-----------------------------------------------------------------------------
TypeOK ==
  /\ log \in [Intents -> Entry]
  /\ rowLock \in [Intents -> Calls \cup {None}]
  /\ effects \in [Intents -> SUBSET Nat]
  /\ outbox \in [Intents -> SUBSET Nat]
  /\ pc \in [Calls -> PCs]
  /\ lease \in [Calls -> Nat]
  /\ attempt \in [Calls -> Nat]
  /\ passed \in [Calls -> Nat]
  /\ consumed \in [Calls -> Nat]
  /\ result \in [Calls -> Result \cup {NoResult}]
  /\ error \in [Calls -> Errors]

Init ==
  /\ log = [i \in Intents |-> Absent]
  /\ rowLock = [i \in Intents |-> None]
  /\ effects = [i \in Intents |-> {}]
  /\ outbox = [i \in Intents |-> {}]
  /\ pc = [c \in Calls |-> "ready"]
  /\ lease = [c \in Calls |-> 0]
  /\ attempt = [c \in Calls |-> 0]
  /\ passed = [c \in Calls |-> 0]
  /\ consumed = [c \in Calls |-> 0]
  /\ result = [c \in Calls |-> NoResult]
  /\ error = [c \in Calls |-> "none"]

-----------------------------------------------------------------------------
(* Claiming: the first claim of a call and the claim before each retry.    *)
(* The claim is atomic in the store and runs outside every transaction; it *)
(* waits for a transaction that has written the entry.                     *)

Goto(c, label) == pc' = [pc EXCEPT ![c] = label]

WriteEntry(c, e) == log' = [log EXCEPT ![IntentOf(c)] = e]

Throw(c, e) ==
  /\ Goto(c, "threw")
  /\ error' = [error EXCEPT ![c] = e]
  /\ result' = [result EXCEPT ![c] = NoResult]

\* Mutation: the retry loop re-evaluates the admission policies.
ClaimGrantedReadmits(c) ==
  /\ pc[c] \in {"ready", "backoff"} /\ Unlocked(c)
  /\ ClaimType(EntryOf(c), Command[c].operation) = "claimed"
  /\ WriteEntry(c, Claimed(EntryOf(c), Command[c].operation, Command[c].runner))
  /\ lease' = [lease EXCEPT ![c] = EntryOf(c).version + 1]
  /\ error' = [error EXCEPT ![c] = "none"]
  /\ Goto(c, "guards")
  /\ UNCHANGED <<rowLock, effects, outbox, attempt, passed, consumed, result>>

\* executeClaimed starts with the guards; a retry goes straight to the handler.
ClaimGranted(c) ==
  /\ pc[c] \in {"ready", "backoff"} /\ Unlocked(c)
  /\ ClaimType(EntryOf(c), Command[c].operation) = "claimed"
  /\ WriteEntry(c, Claimed(EntryOf(c), Command[c].operation, Command[c].runner))
  /\ lease' = [lease EXCEPT ![c] = EntryOf(c).version + 1]
  /\ error' = [error EXCEPT ![c] = "none"]
  /\ IF pc[c] = "ready"
       THEN Goto(c, "guards") /\ UNCHANGED attempt
       ELSE Goto(c, "handler") /\ attempt' = [attempt EXCEPT ![c] = @ + 1]
  /\ UNCHANGED <<rowLock, effects, outbox, passed, consumed, result>>

\* The stored result is returned without executing anything.
ClaimFindsResult(c) ==
  /\ pc[c] \in {"ready", "backoff"} /\ Unlocked(c)
  /\ ClaimType(EntryOf(c), Command[c].operation) = "completed"
  /\ Goto(c, "returned")
  /\ result' = [result EXCEPT ![c] = EntryOf(c).result]
  /\ error' = [error EXCEPT ![c] = "none"]
  /\ UNCHANGED <<storeVars, lease, attempt, passed, consumed>>

ClaimRefused(c) ==
  /\ pc[c] \in {"ready", "backoff"} /\ Unlocked(c)
  /\ LET type == ClaimType(EntryOf(c), Command[c].operation) IN
       /\ type \in {"already-in-progress", "intent-conflict"}
       /\ Throw(c, type)
  /\ UNCHANGED <<storeVars, lease, attempt, passed, consumed>>

\* store.claim() throws: nothing was claimed, or only the answer was lost.
ClaimFails(c) ==
  /\ pc[c] \in {"ready", "backoff"}
  /\ \/ UNCHANGED log
     \/ /\ Unlocked(c)
        /\ ClaimType(EntryOf(c), Command[c].operation) = "claimed"
        /\ WriteEntry(c, Claimed(EntryOf(c), Command[c].operation,
                                 Command[c].runner))
  /\ \E e \in Thrown : Throw(c, e)
  /\ UNCHANGED <<rowLock, effects, outbox, lease, attempt, passed, consumed>>

-----------------------------------------------------------------------------
(* Admission: guards in declaration order, then the rate limit, then the   *)
(* handler is resolved.  Every error here fails the attempt and is thrown. *)

\* An error reaches the catch block that records it; a staged transaction is
\* rolled back on the way, which releases the entry.
Catch(c, e) ==
  /\ Goto(c, "fail")
  /\ error' = [error EXCEPT ![c] = e]
  /\ result' = [result EXCEPT ![c] = NoResult]
  /\ rowLock' = [i \in Intents |-> IF rowLock[i] = c THEN None ELSE rowLock[i]]
  /\ UNCHANGED <<log, effects, outbox, lease, attempt, passed>>

GuardAccepts(c) ==
  /\ pc[c] = "guards" /\ passed[c] < Command[c].guards
  /\ passed' = [passed EXCEPT ![c] = @ + 1]
  /\ UNCHANGED <<storeVars, pc, lease, attempt, consumed, result, error>>

\* The guard rejects, or its evaluator throws or is not configured.
GuardStops(c) ==
  /\ pc[c] = "guards" /\ passed[c] < Command[c].guards
  /\ \E e \in Thrown \cup {"guard-rejected"} : Catch(c, e)
  /\ UNCHANGED consumed

RateLimitAccepts(c) ==
  /\ pc[c] = "guards" /\ passed[c] = Command[c].guards
  /\ Goto(c, "resolve")
  /\ consumed' = [consumed EXCEPT ![c] =
                    IF Command[c].rateLimited THEN @ + 1 ELSE @]
  /\ UNCHANGED <<storeVars, lease, attempt, passed, result, error>>

\* The limiter rejects, or it throws: then it may have counted the call.
RateLimitStops(c) ==
  /\ pc[c] = "guards" /\ passed[c] = Command[c].guards
  /\ Command[c].rateLimited
  /\ \/ Catch(c, "rate-limited") /\ UNCHANGED consumed
     \/ /\ \E e \in Thrown : Catch(c, e)
        /\ \/ UNCHANGED consumed
           \/ consumed' = [consumed EXCEPT ![c] = @ + 1]

HandlerResolved(c) ==
  /\ pc[c] = "resolve"
  /\ Goto(c, "handler")
  /\ attempt' = [attempt EXCEPT ![c] = 1]
  /\ UNCHANGED <<storeVars, lease, passed, consumed, result, error>>

HandlerUnresolved(c) ==
  /\ pc[c] = "resolve"
  /\ \E e \in Thrown : Catch(c, e)
  /\ UNCHANGED consumed

-----------------------------------------------------------------------------
(* One handler attempt.  The transaction stages the handler's changes, the *)
(* completion and the Outbox records; they become durable in Commit.       *)

HandlerAnswers(c) ==
  /\ pc[c] = "handler"
  /\ \E kind \in ResultKinds :
       /\ result' = [result EXCEPT ![c] = [kind |-> kind, version |-> lease[c]]]
       /\ Goto(c, IF kind = "rolled-back" THEN "rollback" ELSE "complete")
  /\ UNCHANGED <<storeVars, lease, attempt, passed, consumed, error>>

HandlerThrows(c) ==
  /\ pc[c] = "handler"
  /\ \E e \in Thrown : Catch(c, e)
  /\ UNCHANGED consumed

\* Mutation: the timeout is armed only for calls that configured none.
HandlerTimesOutInverted(c) ==
  /\ pc[c] = "handler" /\ ~Command[c].timed
  /\ Catch(c, "timed-out")
  /\ UNCHANGED consumed

\* The timer of ExecutionTimeout settles first; a later answer is ignored.
HandlerTimesOut(c) ==
  /\ pc[c] = "handler" /\ Command[c].timed
  /\ Catch(c, "timed-out")
  /\ UNCHANGED consumed

\* store.complete() inside the transaction: from here to the commit the entry
\* is written but not visible, and other writers of the entry wait.
Complete(c) ==
  /\ pc[c] = "complete" /\ Unlocked(c) /\ OwnsAttempt(c)
  /\ Goto(c, "append")
  /\ rowLock' = [rowLock EXCEPT ![IntentOf(c)] = c]
  /\ UNCHANGED <<log, effects, outbox, lease, attempt, passed, consumed,
                 result, error>>

CompleteRejected(c) ==
  /\ pc[c] = "complete" /\ Unlocked(c) /\ ~OwnsAttempt(c)
  /\ Catch(c, "transition-rejected")
  /\ UNCHANGED consumed

AppendOutbox(c) ==
  /\ pc[c] = "append"
  /\ Goto(c, "commit")
  /\ UNCHANGED <<storeVars, lease, attempt, passed, consumed, result, error>>

\* The envelope or record factory, complete(), append() or the commit throws.
TransactionFails(c) ==
  /\ pc[c] \in {"complete", "append", "commit"}
  /\ \E e \in Thrown : Catch(c, e)
  /\ UNCHANGED consumed

Commit(c) ==
  /\ pc[c] = "commit"
  /\ Goto(c, "committed")
  /\ WriteEntry(c, Completed(EntryOf(c), result[c]))
  /\ effects' = [effects EXCEPT ![IntentOf(c)] = @ \cup {lease[c]}]
  /\ outbox' = [outbox EXCEPT ![IntentOf(c)] = @ \cup {lease[c]}]
  /\ rowLock' = [rowLock EXCEPT ![IntentOf(c)] = None]
  /\ UNCHANGED <<lease, attempt, passed, consumed, result, error>>

\* Mutation: the rejection is returned without being stored.
CompleteRolledBackUnstored(c) ==
  /\ pc[c] = "rollback" /\ Unlocked(c) /\ OwnsAttempt(c)
  /\ Goto(c, "committed")
  /\ UNCHANGED <<storeVars, lease, attempt, passed, consumed, result, error>>

\* completeRolledBackResult: the handler's transaction is gone, a second one
\* stores the rejection alone.
CompleteRolledBack(c) ==
  /\ pc[c] = "rollback" /\ Unlocked(c) /\ OwnsAttempt(c)
  /\ Goto(c, "committed")
  /\ WriteEntry(c, Completed(EntryOf(c), result[c]))
  /\ UNCHANGED <<rowLock, effects, outbox, lease, attempt, passed, consumed,
                 result, error>>

\* Rolling back or the second transaction throws, or the lease was lost.
RolledBackFails(c) ==
  /\ pc[c] = "rollback"
  /\ \/ \E e \in Thrown : Catch(c, e)
     \/ Unlocked(c) /\ ~OwnsAttempt(c) /\ Catch(c, "transition-rejected")
  /\ UNCHANGED consumed

\* The answer to the commit reaches the process.
Acknowledged(c) ==
  /\ pc[c] = "committed"
  /\ Goto(c, "returned")
  /\ UNCHANGED <<storeVars, lease, attempt, passed, consumed, result, error>>

\* The commit took effect but the transaction manager throws.
AcknowledgementLost(c) ==
  /\ pc[c] = "committed"
  /\ \E e \in Thrown : Catch(c, e)
  /\ UNCHANGED consumed

-----------------------------------------------------------------------------
(* recordExecutionFailure and the retry decision. *)

\* Mutation: the retry does not wait for the failure to be recorded.
CanRetryUnrecorded(c, failureRecorded) ==
  attempt[c] \in 1 .. Command[c].maxAttempts - 1 /\ error[c] \in Retryable

CanRetry(c, failureRecorded) ==
  /\ failureRecorded
  /\ attempt[c] > 0
  /\ error[c] \in Retryable
  /\ attempt[c] < Command[c].maxAttempts

AfterRecording(c, failureRecorded) ==
  /\ Goto(c, IF CanRetry(c, failureRecorded) THEN "backoff" ELSE "threw")
  /\ UNCHANGED <<rowLock, effects, outbox, lease, attempt, passed, consumed,
                 result, error>>

FailureEntry(c) ==
  Failed(EntryOf(c), IF error[c] = "timed-out" THEN "timed-out" ELSE "failed")

FailureRecorded(c) ==
  /\ pc[c] = "fail" /\ Unlocked(c) /\ OwnsAttempt(c)
  /\ WriteEntry(c, FailureEntry(c))
  /\ AfterRecording(c, TRUE)

\* fail() is rejected or its transaction throws, before or after it took
\* effect; the error is swallowed and no retry follows.
FailureNotRecorded(c) ==
  /\ pc[c] = "fail"
  /\ \/ UNCHANGED log
     \/ Unlocked(c) /\ OwnsAttempt(c) /\ WriteEntry(c, FailureEntry(c))
  /\ AfterRecording(c, FALSE)

-----------------------------------------------------------------------------
(* The environment. *)

LeaseExpires(i) ==
  /\ log[i].status = "in-progress" /\ ~log[i].expired
  /\ log' = [log EXCEPT ![i] = Expired(@)]
  /\ UNCHANGED <<rowLock, effects, outbox, callVars>>

Live(c) == pc[c] \notin Settled \cup {"ready"}

\* The process dies with every call it runs; open transactions roll back.
Crash(r) ==
  LET dying == {c \in Calls : Command[c].runner = r /\ Live(c)} IN
  /\ dying # {}
  /\ pc' = [c \in Calls |-> IF c \in dying THEN "crashed" ELSE pc[c]]
  /\ rowLock' = [i \in Intents |->
                   IF rowLock[i] \in dying THEN None ELSE rowLock[i]]
  /\ UNCHANGED <<log, effects, outbox, lease, attempt, passed, consumed,
                 result, error>>

\* Nothing runs any more.
Quiescent == (\A c \in Calls : pc[c] \in Settled) /\ UNCHANGED vars

-----------------------------------------------------------------------------
HandlerSettles(c) == HandlerAnswers(c) \/ HandlerThrows(c)

ClaimStep(c) == ClaimGranted(c) \/ ClaimFindsResult(c) \/ ClaimRefused(c)
                  \/ ClaimFails(c)

AdmissionStep(c) ==
  \/ GuardAccepts(c) \/ GuardStops(c)
  \/ RateLimitAccepts(c) \/ RateLimitStops(c)
  \/ HandlerResolved(c) \/ HandlerUnresolved(c)

TransactionStep(c) ==
  \/ Complete(c) \/ CompleteRejected(c) \/ AppendOutbox(c)
  \/ TransactionFails(c) \/ Commit(c) \/ CompleteRolledBack(c)
  \/ RolledBackFails(c) \/ Acknowledged(c) \/ AcknowledgementLost(c)

RecordStep(c) == FailureRecorded(c) \/ FailureNotRecorded(c)

\* The steps a started call takes by itself.
CallStep(c) ==
  \/ pc[c] = "backoff" /\ ClaimStep(c)
  \/ AdmissionStep(c)
  \/ HandlerTimesOut(c)
  \/ TransactionStep(c)
  \/ RecordStep(c)

Next ==
  \/ \E c \in Calls : \/ pc[c] = "ready" /\ ClaimStep(c)
                      \/ HandlerSettles(c)
                      \/ CallStep(c)
  \/ \E i \in Intents : LeaseExpires(i)
  \/ \E r \in LeaseOwners : Crash(r)
  \/ Quiescent

Spec == Init /\ [][Next]_vars

\* The event loop runs what is runnable and timers fire.  Nothing makes a
\* handler answer, except that one without a timeout is trusted to.
Fairness ==
  /\ \A c \in Calls : WF_vars(CallStep(c))
  /\ \A c \in Calls : ~Command[c].timed => WF_vars(HandlerSettles(c))
  /\ \A i \in Intents : WF_vars(LeaseExpires(i))

FairSpec == Spec /\ Fairness

\* The part of Fairness that a store, Outbox or transaction manager which never
\* answers cannot take away: policies answer, timers fire, failures are recorded.
TimerFairness ==
  /\ \A c \in Calls : WF_vars(AdmissionStep(c)) /\ WF_vars(HandlerTimesOut(c))
                        /\ WF_vars(RecordStep(c))
                        /\ WF_vars(pc[c] = "backoff" /\ ClaimStep(c))
  /\ \A i \in Intents : WF_vars(LeaseExpires(i))

TimerSpec == Spec /\ TimerFairness

-----------------------------------------------------------------------------
(* Safety. *)

\* What an intent has done to the outside world and what its entry says are one
\* fact: domain changes and Outbox records are durable exactly when the entry
\* holds a committed result, and both come from the attempt that produced it.
\* At most one attempt therefore ever takes effect, whatever expires, crashes,
\* times out or is retried (default-runner.ts, executeHandlerAttempt).
OutcomeIsAtomic ==
  \A i \in Intents :
    /\ outbox[i] = effects[i]
    /\ effects[i] = IF log[i].result.kind \in CommittedKinds
                      THEN {log[i].result.version} ELSE {}
    /\ log[i].status = "completed" <=> log[i].result # NoResult

\* Every call that returns, whether it executed or was answered from the log,
\* returns the one stored result of its intent, and never the result of another
\* Operation snapshot under the same intent (the claim switch of
\* executeDetailed and executeHandlerAttempts).
CallersAgree ==
  \A c \in Calls :
    pc[c] = "returned" => /\ EntryOf(c).status = "completed"
                          /\ EntryOf(c).result = result[c]
                          /\ EntryOf(c).operation = Command[c].operation

\* At most one unfinished call can still complete or fail the active attempt of
\* an intent, even when calls share a lease owner id (getLeaseReference).
OneHolder ==
  \A c, d \in Calls :
    Live(c) /\ Live(d) /\ IntentOf(c) = IntentOf(d) /\ OwnsAttempt(c) /\ OwnsAttempt(d)
      => c = d

\* A call waits for its retry only when its last attempt is durably over: it
\* never runs a second handler attempt beside an attempt that could still be
\* completed (canRetry requires failureRecorded).
RetryOnlyAfterRecording ==
  \A c \in Calls : pc[c] = "backoff" => ~OwnsAttempt(c)

\* Rate-limit capacity is consumed at most once per call, retries included, and
\* never by a call a guard would have stopped; no handler attempt starts
\* without admission, nor beyond the retry budget (evaluateGuards before
\* enforceRateLimit, both outside the retry loop).
AdmissionOnce ==
  \A c \in Calls :
    /\ consumed[c] <= 1
    /\ consumed[c] = 1 => passed[c] = Command[c].guards
    /\ pc[c] = "handler" => /\ attempt[c] \in 1 .. Command[c].maxAttempts
                            /\ passed[c] = Command[c].guards
                            /\ Command[c].rateLimited => consumed[c] = 1

\* What one step may do to an entry: a completed entry never changes; an attempt
\* that is in progress is replaced only after its lease expired; it is completed
\* or failed only by a call that holds its lease; versions never go back.
EntryStep(i) ==
  LET old == log[i]  new == log'[i] IN
  /\ old.status = "completed" => new = old
  /\ new.version \in {old.version, old.version + 1}
  /\ old.status = "in-progress" /\ new.version # old.version => old.expired
  /\ old.status = "in-progress" /\ new.status # "in-progress" =>
       \E c \in Calls : /\ IntentOf(c) = i /\ Live(c) /\ OwnsAttempt(c)
                        /\ Command[c].operation = new.operation
LeasesFence == [][\A i \in Intents : EntryStep(i)]_vars

(* Liveness. *)

\* Every started call ends, under arbitrary expiries, crashes and failures of
\* others: nobody waits for ever for an entry written by a transaction that
\* ended, and a handler that never answers holds up only calls without timeout
\* (executeHandlerWithTimeout).
CallsSettle == \A c \in Calls : pc[c] # "ready" ~> pc[c] \in Settled

\* An attempt whose call is gone without recording an end does not block its
\* intent for ever: "the active lease will eventually expire and allow another
\* Runner to reclaim the execution" (recordExecutionFailure).
AbandonedIsReclaimable ==
  \A i \in Intents :
    (\A c \in Calls : IntentOf(c) = i => ~(Live(c) /\ OwnsAttempt(c)))
      ~> (\/ log[i].status = "completed" \/ Claimable(log[i])
          \/ \E c \in Calls : IntentOf(c) = i /\ Live(c) /\ OwnsAttempt(c))

\* "apply the configured per-attempt timeout to the handler/transaction work"
\* (docs/execution-release-readiness.md:91): a timed attempt does not stay in
\* its handler or in its transaction for ever, whatever fails to answer.
TimeoutCoversAttempt ==
  \A c \in Calls :
    Command[c].timed /\ pc[c] = "handler"
      ~> pc[c] \notin {"handler", "complete", "append", "commit"}

=============================================================================
