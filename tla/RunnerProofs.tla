---------------------------- MODULE RunnerProofs ----------------------------
(* Theorems about Runner, for every set of calls, intents and processes. *)
EXTENDS RunnerInvariant, TLAPS

-----------------------------------------------------------------------------
(* The fields of a command, and what the store's transitions return. *)

LEMMA CommandFields ==
  ASSUME NEW c \in Calls
  PROVE  /\ IntentOf(c) \in Intents
         /\ Command[c].operation \in Operations
         /\ Command[c].runner \in LeaseOwners
         /\ Command[c].guards \in Nat
         /\ Command[c].maxAttempts \in Nat \ {0}
         /\ c # None
BY CommandAssumption, CallAssumption DEF Commands, IntentOf

LEMMA ClaimedEntry ==
  ASSUME NEW e \in Entry, NEW op \in Operations, NEW o \in LeaseOwners
  PROVE  /\ Claimed(e, op, o) \in Entry
         /\ Claimed(e, op, o).status = "in-progress"
         /\ Claimed(e, op, o).operation = op
         /\ Claimed(e, op, o).version = e.version + 1
         /\ Claimed(e, op, o).result = NoResult
BY DEF Entry, Claimed, Statuses, EndedStatuses

LEMMA CompletedEntry ==
  ASSUME NEW e \in Entry, NEW r \in Result
  PROVE  /\ Completed(e, r) \in Entry
         /\ Completed(e, r).status = "completed"
         /\ Completed(e, r).operation = e.operation
         /\ Completed(e, r).version = e.version
         /\ Completed(e, r).result = r
BY DEF Entry, Completed, Statuses, EndedStatuses

LEMMA FailedEntry ==
  ASSUME NEW e \in Entry, NEW s \in EndedStatuses
  PROVE  /\ Failed(e, s) \in Entry
         /\ Failed(e, s).status = s
         /\ Failed(e, s).operation = e.operation
         /\ Failed(e, s).version = e.version
         /\ Failed(e, s).result = e.result
BY DEF Entry, Failed, Statuses, EndedStatuses

LEMMA ExpiredEntry ==
  ASSUME NEW e \in Entry
  PROVE  /\ Expired(e) \in Entry
         /\ Expired(e).status = e.status
         /\ Expired(e).operation = e.operation
         /\ Expired(e).owner = e.owner
         /\ Expired(e).version = e.version
         /\ Expired(e).result = e.result
BY DEF Entry, Expired

LEMMA AbsentEntry == Absent \in Entry
BY DEF Entry, Absent, Statuses

-----------------------------------------------------------------------------
(* Type correctness. *)

\* An error caught changes no entry and releases what the call had locked.
LEMMA CatchType ==
  ASSUME TypeOK, NEW c \in Calls, NEW e \in Errors, Catch(c, e),
         consumed' \in [Calls -> Nat]
  PROVE  TypeOK'
BY DEF TypeOK, Catch, Goto, PCs, Settled

LEMMA ClaimStepType ==
  ASSUME TypeOK, NEW c \in Calls, ClaimStep(c)
  PROVE  TypeOK'
<1> DEFINE claimed == Claimed(EntryOf(c), Command[c].operation,
                              Command[c].runner)
<1>1. /\ EntryOf(c) \in Entry /\ claimed \in Entry
      /\ EntryOf(c).version + 1 \in Nat
      /\ EntryOf(c).result \in Result \cup {NoResult}
  BY CommandFields, ClaimedEntry DEF TypeOK, EntryOf, Entry
<1>2. CASE ClaimGranted(c)
  BY <1>1, <1>2, CommandFields
  DEF TypeOK, ClaimGranted, WriteEntry, Goto, PCs, Settled, Errors
<1>3. CASE ClaimFindsResult(c)
  BY <1>1, <1>3, CommandFields
  DEF TypeOK, ClaimFindsResult, Goto, PCs, Settled, Errors, storeVars
<1>4. CASE ClaimRefused(c)
  BY <1>1, <1>4, CommandFields
  DEF TypeOK, ClaimRefused, Throw, Goto, PCs, Settled, Errors, storeVars
<1>5. CASE ClaimFails(c)
  BY <1>1, <1>5, CommandFields
  DEF TypeOK, ClaimFails, WriteEntry, Throw, Goto, PCs, Settled, Errors, Thrown
<1>6. QED
  BY <1>2, <1>3, <1>4, <1>5 DEF ClaimStep

LEMMA AdmissionStepType ==
  ASSUME TypeOK, NEW c \in Calls, AdmissionStep(c)
  PROVE  TypeOK'
<1>1. CASE GuardAccepts(c)
  BY <1>1 DEF TypeOK, GuardAccepts, storeVars
<1>2. CASE GuardStops(c)
  BY <1>2, CatchType DEF TypeOK, GuardStops, Errors, Thrown
<1>3. CASE RateLimitAccepts(c)
  BY <1>3 DEF TypeOK, RateLimitAccepts, Goto, PCs, Settled, storeVars
<1>4. CASE RateLimitStops(c)
  <2>1. consumed' \in [Calls -> Nat]
    BY <1>4 DEF TypeOK, RateLimitStops
  <2>2. QED
    BY <1>4, <2>1, CatchType DEF RateLimitStops, Errors, Thrown
<1>5. CASE HandlerResolved(c)
  BY <1>5 DEF TypeOK, HandlerResolved, Goto, PCs, Settled, storeVars
<1>6. CASE HandlerUnresolved(c)
  BY <1>6, CatchType DEF TypeOK, HandlerUnresolved, Errors, Thrown
<1>7. QED
  BY <1>1, <1>2, <1>3, <1>4, <1>5, <1>6 DEF AdmissionStep

LEMMA HandlerStepType ==
  ASSUME TypeOK, NEW c \in Calls, HandlerSettles(c) \/ HandlerTimesOut(c)
  PROVE  TypeOK'
<1>1. CASE HandlerAnswers(c)
  BY <1>1
  DEF TypeOK, HandlerAnswers, Goto, PCs, Settled, storeVars, Result
<1>2. CASE HandlerThrows(c)
  BY <1>2, CatchType DEF TypeOK, HandlerThrows, Errors, Thrown
<1>3. CASE HandlerTimesOut(c)
  BY <1>3, CatchType DEF TypeOK, HandlerTimesOut, Errors
<1>4. QED
  BY <1>1, <1>2, <1>3 DEF HandlerSettles

\* A committing call holds a result: TypeOK alone does not say so.
LEMMA TransactionStepType ==
  ASSUME TypeOK, NEW c \in Calls, TransactionStep(c),
         pc[c] \in {"commit", "rollback"} => result[c] \in Result
  PROVE  TypeOK'
<1>0. EntryOf(c) \in Entry /\ IntentOf(c) \in Intents
  BY CommandFields DEF TypeOK, EntryOf
<1>1. CASE Complete(c)
  BY <1>0, <1>1 DEF TypeOK, Complete, Goto, PCs, Settled
<1>2. CASE CompleteRejected(c)
  BY <1>2, CatchType DEF TypeOK, CompleteRejected, Errors
<1>3. CASE AppendOutbox(c)
  BY <1>3 DEF TypeOK, AppendOutbox, Goto, PCs, Settled, storeVars
<1>4. CASE TransactionFails(c)
  BY <1>4, CatchType DEF TypeOK, TransactionFails, Errors, Thrown
<1>5. CASE Commit(c)
  <2>1. Completed(EntryOf(c), result[c]) \in Entry
    BY <1>0, <1>5, CompletedEntry DEF Commit
  <2>2. QED
    BY <1>0, <1>5, <2>1
    DEF TypeOK, Commit, WriteEntry, Goto, PCs, Settled
<1>6. CASE CompleteRolledBack(c)
  <2>1. Completed(EntryOf(c), result[c]) \in Entry
    BY <1>0, <1>6, CompletedEntry DEF CompleteRolledBack
  <2>2. QED
    BY <1>0, <1>6, <2>1
    DEF TypeOK, CompleteRolledBack, WriteEntry, Goto, PCs, Settled
<1>7. CASE RolledBackFails(c)
  BY <1>7, CatchType DEF TypeOK, RolledBackFails, Errors, Thrown
<1>8. CASE Acknowledged(c)
  BY <1>8 DEF TypeOK, Acknowledged, Goto, PCs, Settled, storeVars
<1>9. CASE AcknowledgementLost(c)
  BY <1>9, CatchType DEF TypeOK, AcknowledgementLost, Errors, Thrown
<1>10. QED
  BY <1>1, <1>2, <1>3, <1>4, <1>5, <1>6, <1>7, <1>8, <1>9 DEF TransactionStep

LEMMA RecordStepType ==
  ASSUME TypeOK, NEW c \in Calls, RecordStep(c)
  PROVE  TypeOK'
<1>1. EntryOf(c) \in Entry /\ IntentOf(c) \in Intents
  BY CommandFields DEF TypeOK, EntryOf
<1>2. FailureEntry(c) \in Entry
  BY <1>1, FailedEntry DEF FailureEntry, EndedStatuses
<1>3. log' \in [Intents -> Entry]
  BY <1>1, <1>2
  DEF RecordStep, FailureRecorded, FailureNotRecorded, WriteEntry, TypeOK
<1>4. \E b \in BOOLEAN : AfterRecording(c, b)
  BY DEF RecordStep, FailureRecorded, FailureNotRecorded
<1>5. QED
  BY <1>3, <1>4 DEF AfterRecording, Goto, TypeOK, PCs, Settled

LEMMA EnvironmentType ==
  ASSUME TypeOK,
         \/ \E i \in Intents : LeaseExpires(i)
         \/ \E r \in LeaseOwners : Crash(r)
         \/ UNCHANGED vars
  PROVE  TypeOK'
<1>1. ASSUME NEW i \in Intents, LeaseExpires(i)
      PROVE  TypeOK'
  BY <1>1, ExpiredEntry DEF TypeOK, LeaseExpires, callVars
<1>2. ASSUME NEW r \in LeaseOwners, Crash(r)
      PROVE  TypeOK'
  BY <1>2 DEF TypeOK, Crash, PCs, Settled
<1>3. CASE UNCHANGED vars
  BY <1>3 DEF TypeOK, vars, storeVars, callVars
<1>4. QED
  BY <1>1, <1>2, <1>3

-----------------------------------------------------------------------------
(* The inductive invariant. *)

LEMMA InitInv == Init => IInv
BY AbsentEntry
DEF Init, IInv, TypeOK, HeldResults, Locks, Ownership, UniqueLeases, Backoffs,
    Answered, OutcomeIsAtomic, Live, Absent, PCs, Errors, NoResult,
    CommittedKinds

\* Catching an error leaves the log alone and ends the transaction of the call.
LEMMA CatchInv ==
  ASSUME IInv, TypeOK', NEW c \in Calls, NEW e \in Errors, Live(c), Catch(c, e)
  PROVE  IInv'
<1> USE DEF IInv
<1>1. \A d \in Calls : d # c => pc'[d] = pc[d] /\ result'[d] = result[d]
  BY DEF TypeOK, Catch, Goto
<1>2. /\ pc'[c] = "fail" /\ Live(c)'
      /\ UNCHANGED <<log, lease, effects, outbox>>
  BY DEF TypeOK, Catch, Goto, Live, Settled
<1>3. HeldResults'
  BY <1>1, <1>2 DEF HeldResults
<1>4. Locks'
  BY <1>1, <1>2, CommandFields
  DEF Locks, Catch, TypeOK, OwnsAttempt, EntryOf, IntentOf
<1>5. Ownership' /\ UniqueLeases' /\ Backoffs' /\ Answered'
  BY <1>1, <1>2
  DEF Ownership, UniqueLeases, Backoffs, Answered, Live, EntryOf, IntentOf
<1>6. OutcomeIsAtomic'
  BY <1>2 DEF OutcomeIsAtomic
<1>7. QED
  BY <1>3, <1>4, <1>5, <1>6

\* A step of one call that touches neither the log nor a transaction.
LEMMA LocalInv ==
  ASSUME IInv, TypeOK', NEW c \in Calls, Live(c),
         UNCHANGED <<log, rowLock, effects, outbox, lease>>,
         \A d \in Calls : d # c => pc'[d] = pc[d] /\ result'[d] = result[d],
         pc[c] \notin {"append", "commit"},
         pc'[c] \in {"guards", "resolve", "handler", "complete", "rollback"},
         pc'[c] \in {"complete", "rollback"} =>
           /\ result'[c].version = lease[c]
           /\ pc'[c] = "complete" => result'[c].kind \in CommittedKinds
           /\ pc'[c] = "rollback" => result'[c].kind = "rolled-back"
  PROVE  IInv'
<1> USE DEF IInv
<1>1. HeldResults'
  BY DEF HeldResults
<1>2. Locks'
  BY CallAssumption DEF Locks, TypeOK, OwnsAttempt, EntryOf, IntentOf
<1>3. Live(c)'
  BY DEF Live, Settled
<1>4. \A d \in Calls : Live(d)' <=> Live(d)
  BY <1>3 DEF Live
<1>5. Ownership' /\ UniqueLeases'
  BY <1>4 DEF Ownership, UniqueLeases, EntryOf, IntentOf
<1>6. Backoffs' /\ Answered' /\ OutcomeIsAtomic'
  BY DEF Backoffs, Answered, EntryOf, IntentOf, OutcomeIsAtomic
<1>7. QED
  BY <1>1, <1>2, <1>5, <1>6

LEMMA AdmissionStepInv ==
  ASSUME IInv, TypeOK', NEW c \in Calls, AdmissionStep(c)
  PROVE  IInv'
<1>0. TypeOK /\ Live(c)
  BY DEF IInv, AdmissionStep, GuardAccepts, GuardStops, RateLimitAccepts,
         RateLimitStops, HandlerResolved, HandlerUnresolved, Live, Settled
<1>1. CASE GuardAccepts(c)
  BY <1>0, <1>1, LocalInv DEF GuardAccepts, storeVars
<1>2. CASE GuardStops(c)
  BY <1>0, <1>2, CatchInv DEF GuardStops, Errors, Thrown
<1>3. CASE RateLimitAccepts(c)
  BY <1>0, <1>3, LocalInv DEF RateLimitAccepts, Goto, storeVars, TypeOK
<1>4. CASE RateLimitStops(c)
  BY <1>0, <1>4, CatchInv DEF RateLimitStops, Errors, Thrown
<1>5. CASE HandlerResolved(c)
  BY <1>0, <1>5, LocalInv DEF HandlerResolved, Goto, storeVars, TypeOK
<1>6. CASE HandlerUnresolved(c)
  BY <1>0, <1>6, CatchInv DEF HandlerUnresolved, Errors, Thrown
<1>7. QED
  BY <1>1, <1>2, <1>3, <1>4, <1>5, <1>6 DEF AdmissionStep

LEMMA HandlerStepInv ==
  ASSUME IInv, TypeOK', NEW c \in Calls, HandlerSettles(c) \/ HandlerTimesOut(c)
  PROVE  IInv'
<1>0. TypeOK /\ Live(c)
  BY DEF IInv, HandlerSettles, HandlerAnswers, HandlerThrows, HandlerTimesOut,
         Live, Settled
<1>1. CASE HandlerAnswers(c)
  <2>1. PICK kind \in ResultKinds :
          /\ result' = [result EXCEPT ![c] = [kind |-> kind, version |-> lease[c]]]
          /\ Goto(c, IF kind = "rolled-back" THEN "rollback" ELSE "complete")
    BY <1>1 DEF HandlerAnswers
  <2>2. /\ result'[c].kind = kind /\ result'[c].version = lease[c]
        /\ pc'[c] = IF kind = "rolled-back" THEN "rollback" ELSE "complete"
        /\ \A d \in Calls : d # c => pc'[d] = pc[d] /\ result'[d] = result[d]
    BY <1>0, <2>1 DEF TypeOK, Goto
  <2>3. QED
    BY <1>0, <1>1, <2>2, LocalInv
    DEF HandlerAnswers, storeVars, ResultKinds
<1>2. CASE HandlerThrows(c)
  BY <1>0, <1>2, CatchInv DEF HandlerThrows, Errors, Thrown
<1>3. CASE HandlerTimesOut(c)
  BY <1>0, <1>3, CatchInv DEF HandlerTimesOut, Errors
<1>4. QED
  BY <1>1, <1>2, <1>3 DEF HandlerSettles

\* A step that leaves the log alone and ends a call, or is the last of one.
LEMMA SettleInv ==
  ASSUME IInv, TypeOK', NEW c \in Calls,
         UNCHANGED <<log, rowLock, effects, outbox, lease>>,
         \A d \in Calls : d # c => pc'[d] = pc[d] /\ result'[d] = result[d],
         pc[c] \notin {"append", "commit"},
         pc'[c] \in {"returned", "threw"},
         pc'[c] = "returned" => /\ EntryOf(c).status = "completed"
                                /\ EntryOf(c).result = result'[c]
                                /\ EntryOf(c).operation = Command[c].operation
  PROVE  IInv'
<1> USE DEF IInv
<1>1. HeldResults' /\ ~Live(c)'
  BY DEF HeldResults, Live, Settled
<1>2. Locks'
  BY CallAssumption DEF Locks, TypeOK, OwnsAttempt, EntryOf, IntentOf
<1>3. Ownership' /\ UniqueLeases' /\ Backoffs' /\ Answered' /\ OutcomeIsAtomic'
  BY <1>1 DEF Ownership, UniqueLeases, Backoffs, Answered, Live, EntryOf,
              IntentOf, OutcomeIsAtomic
<1>4. QED
  BY <1>1, <1>2, <1>3

\* A claim starts a new attempt: the entry was unlocked and undecided, and the
\* new version is one no call has yet.
LEMMA ClaimedInv ==
  ASSUME IInv, TypeOK', NEW c \in Calls, Unlocked(c),
         pc[c] \in {"ready", "backoff"},
         ClaimType(EntryOf(c), Command[c].operation) = "claimed",
         WriteEntry(c, Claimed(EntryOf(c), Command[c].operation,
                               Command[c].runner)),
         UNCHANGED <<rowLock, effects, outbox>>,
         \A d \in Calls : d # c =>
           pc'[d] = pc[d] /\ result'[d] = result[d] /\ lease'[d] = lease[d],
         \/ pc'[c] = "threw"
         \/ pc'[c] \in {"guards", "handler"} /\ lease'[c] = EntryOf(c).version + 1
  PROVE  IInv'
<1> DEFINE i == IntentOf(c)  old == log[i]  op == Command[c].operation
<1> USE DEF IInv
<1>1. /\ old \in Entry /\ old.version \in Nat /\ i \in Intents
      /\ op \in Operations
      /\ \A d \in Calls : IntentOf(d) \in Intents /\ lease[d] \in Nat /\ d # None
  BY CommandFields DEF TypeOK, Entry
<1>2. /\ log'[i].status = "in-progress" /\ log'[i].operation = op
      /\ log'[i].version = old.version + 1 /\ log'[i].result = NoResult
      /\ \A j \in Intents : j # i => log'[j] = log[j]
  BY <1>1, CommandFields, ClaimedEntry DEF WriteEntry, EntryOf, TypeOK
<1>3. old.status # "completed" /\ (old.status = "absent" \/ old.operation = op)
  BY DEF ClaimType, Conflicts, Claimable, EntryOf
<1>4. old.result = NoResult
  BY <1>1, <1>3 DEF OutcomeIsAtomic
<1>5. \A d \in Calls : d # c => Live(d)' = Live(d)
  BY DEF Live
<1>6. HeldResults'
  BY DEF HeldResults
<1>7. Locks'
  <2>1. ASSUME NEW d \in Calls, pc'[d] \in {"append", "commit"}
        PROVE  rowLock'[IntentOf(d)] = d /\ OwnsAttempt(d)'
    <3>1. d # c /\ rowLock[IntentOf(d)] = d /\ OwnsAttempt(d)
      BY <2>1 DEF Locks
    <3>2. IntentOf(d) # i
      BY <1>1, <3>1 DEF Unlocked
    <3>3. QED
      BY <1>1, <1>2, <3>1, <3>2 DEF OwnsAttempt, EntryOf, IntentOf
  <2>2. ASSUME NEW j \in Intents, rowLock'[j] # None
        PROVE  IntentOf(rowLock'[j]) = j /\ pc'[rowLock'[j]] \in {"append", "commit"}
    BY <2>2 DEF Locks, TypeOK
  <2>3. QED
    BY <2>1, <2>2 DEF Locks, IntentOf
<1>8. Ownership'
  BY <1>1, <1>2, <1>3, <1>5 DEF Ownership, EntryOf, IntentOf, Live, Settled
<1>9. UniqueLeases'
  <2> SUFFICES ASSUME NEW d \in Calls, NEW e \in Calls, d # e,
                      Live(d)', Live(e)', IntentOf(d) = IntentOf(e),
                      lease'[d] = lease'[e]
               PROVE  FALSE
    BY DEF UniqueLeases, IntentOf
  <2>1. CASE d # c /\ e # c
    BY <1>5, <2>1 DEF UniqueLeases
  <2>2. ASSUME NEW f \in Calls, f # c, Live(f)', IntentOf(f) = i
        PROVE  lease'[f] < old.version + 1
    BY <1>1, <1>5, <2>2 DEF Ownership, EntryOf
  <2>3. CASE d = c
    BY <1>1, <2>2, <2>3 DEF Live, Settled, EntryOf
  <2>4. CASE e = c
    BY <1>1, <2>2, <2>4 DEF Live, Settled, EntryOf
  <2>5. QED
    BY <2>1, <2>3, <2>4
<1>10. Backoffs'
  <2> SUFFICES ASSUME NEW d \in Calls, pc'[d] = "backoff"
               PROVE  \/ log'[IntentOf(d)].status # "in-progress"
                      \/ lease'[d] < log'[IntentOf(d)].version
    BY DEF Backoffs, EntryOf, IntentOf
  <2>1. d # c /\ pc[d] = "backoff" /\ lease'[d] = lease[d] /\ Live(d)
    BY DEF Live, Settled
  <2>2. CASE IntentOf(d) = i
    BY <1>1, <1>2, <2>1, <2>2 DEF Ownership, EntryOf
  <2>3. CASE IntentOf(d) # i
    BY <1>1, <1>2, <2>1, <2>3 DEF Backoffs, EntryOf
  <2>4. QED
    BY <2>2, <2>3
<1>11. Answered'
  BY <1>1, <1>2, <1>3 DEF Answered, EntryOf, IntentOf
<1>12. OutcomeIsAtomic'
  BY <1>1, <1>2, <1>4, <1>3 DEF OutcomeIsAtomic
<1>13. QED
  BY <1>6, <1>7, <1>8, <1>9, <1>10, <1>11, <1>12

LEMMA ClaimStepInv ==
  ASSUME IInv, TypeOK', NEW c \in Calls, ClaimStep(c)
  PROVE  IInv'
<1>0. TypeOK
  BY DEF IInv
<1>1. CASE ClaimGranted(c)
  BY <1>0, <1>1, ClaimedInv DEF ClaimGranted, Goto, TypeOK
<1>2. CASE ClaimFindsResult(c)
  <2>1. EntryOf(c).status = "completed" /\ EntryOf(c).operation = Command[c].operation
    BY <1>2 DEF ClaimFindsResult, ClaimType, Conflicts
  <2>2. QED
    BY <1>0, <1>2, <2>1, SettleInv DEF ClaimFindsResult, Goto, TypeOK, storeVars
<1>3. CASE ClaimRefused(c)
  BY <1>0, <1>3, SettleInv DEF ClaimRefused, Throw, Goto, TypeOK, storeVars
<1>4. CASE ClaimFails(c)
  <2>1. CASE UNCHANGED log
    BY <1>0, <1>4, <2>1, SettleInv DEF ClaimFails, Throw, Goto, TypeOK
  <2>2. CASE ~UNCHANGED log
    BY <1>0, <1>4, <2>2, ClaimedInv DEF ClaimFails, Throw, Goto, TypeOK
  <2>3. QED
    BY <2>1, <2>2
<1>5. QED
  BY <1>1, <1>2, <1>3, <1>4 DEF ClaimStep

\* Making a result durable: the call owns the active attempt, so nobody has
\* decided the intent, and no other call is in a transaction on its entry.
LEMMA CompletedInv ==
  ASSUME IInv, TypeOK', NEW c \in Calls, OwnsAttempt(c), Live(c),
         rowLock[IntentOf(c)] \in {c, None},
         result[c] \in Result, result[c].version = lease[c],
         WriteEntry(c, Completed(EntryOf(c), result[c])),
         rowLock' = [rowLock EXCEPT ![IntentOf(c)] = None],
         pc' = [pc EXCEPT ![c] = "committed"],
         UNCHANGED <<lease, result>>,
         LET new == IF result[c].kind \in CommittedKinds THEN {lease[c]} ELSE {} IN
           /\ effects' = [effects EXCEPT ![IntentOf(c)] = @ \cup new]
           /\ outbox' = [outbox EXCEPT ![IntentOf(c)] = @ \cup new]
  PROVE  IInv'
<1> DEFINE i == IntentOf(c)  old == log[i]
<1> USE DEF IInv
<1>1. /\ old \in Entry /\ i \in Intents
      /\ \A d \in Calls : IntentOf(d) \in Intents /\ d # None
  BY CommandFields DEF TypeOK
<1>2. /\ log'[i].status = "completed" /\ log'[i].operation = old.operation
      /\ log'[i].version = old.version /\ log'[i].result = result[c]
      /\ \A j \in Intents : j # i => log'[j] = log[j]
  BY <1>1, CompletedEntry DEF WriteEntry, EntryOf, TypeOK
<1>3. old.status = "in-progress" /\ result[c] # NoResult
  BY DEF OwnsAttempt, HoldsLease, EntryOf, Result, NoResult, ResultKinds,
         CommittedKinds
<1>4. /\ pc'[c] = "committed" /\ \A d \in Calls : d # c => pc'[d] = pc[d]
      /\ \A d \in Calls : Live(d)' = Live(d)
  BY DEF TypeOK, Live, Settled
<1>5. HeldResults'
  BY <1>4 DEF HeldResults
<1>6. Locks'
  <2>1. ASSUME NEW d \in Calls, pc'[d] \in {"append", "commit"}
        PROVE  rowLock'[IntentOf(d)] = d /\ OwnsAttempt(d)'
    <3>1. d # c /\ rowLock[IntentOf(d)] = d /\ OwnsAttempt(d)
      BY <1>4, <2>1 DEF Locks
    <3>2. IntentOf(d) # i
      BY <1>1, <3>1
    <3>3. QED
      BY <1>1, <1>2, <3>1, <3>2 DEF OwnsAttempt, EntryOf, IntentOf, TypeOK
  <2>2. ASSUME NEW j \in Intents, rowLock'[j] # None
        PROVE  IntentOf(rowLock'[j]) = j /\ pc'[rowLock'[j]] \in {"append", "commit"}
    <3>1. j # i /\ rowLock'[j] = rowLock[j] /\ rowLock[j] \in Calls
      BY <1>1, <2>2 DEF TypeOK
    <3>2. QED
      BY <1>4, <2>2, <3>1 DEF Locks
  <2>3. QED
    BY <2>1, <2>2 DEF Locks, IntentOf
<1>7. Ownership' /\ UniqueLeases'
  BY <1>1, <1>2, <1>3, <1>4 DEF Ownership, UniqueLeases, EntryOf, IntentOf
<1>8. Backoffs'
  BY <1>1, <1>2, <1>4 DEF Backoffs, EntryOf, IntentOf
<1>9. Answered'
  <2> SUFFICES ASSUME NEW d \in Calls, pc'[d] \in {"committed", "returned"}
               PROVE  /\ log'[IntentOf(d)].status = "completed"
                      /\ log'[IntentOf(d)].result = result[d]
                      /\ log'[IntentOf(d)].operation = Command[d].operation
    BY DEF Answered, EntryOf, IntentOf
  <2>1. CASE d = c
    BY <1>1, <1>2, <2>1 DEF Ownership, EntryOf
  <2>2. CASE d # c
    <3>1. IntentOf(d) # i
      BY <1>3, <1>4, <2>2 DEF Answered, EntryOf
    <3>2. QED
      BY <1>1, <1>2, <1>4, <2>2, <3>1 DEF Answered, EntryOf
  <2>3. QED
    BY <2>1, <2>2
<1>10. OutcomeIsAtomic'
  <2>1. effects[i] = {} /\ outbox[i] = {}
    <3>1. old.result = NoResult
      BY <1>1, <1>3 DEF OutcomeIsAtomic
    <3>2. old.result.kind \notin CommittedKinds
      BY <3>1 DEF NoResult, CommittedKinds
    <3>3. QED
      BY <1>1, <3>2 DEF OutcomeIsAtomic
  <2>2. /\ effects'[i] = IF result[c].kind \in CommittedKinds THEN {lease[c]} ELSE {}
        /\ outbox'[i] = effects'[i]
        /\ \A j \in Intents : j # i =>
              effects'[j] = effects[j] /\ outbox'[j] = outbox[j]
    BY <1>1, <2>1 DEF TypeOK
  <2>3. ASSUME NEW j \in Intents
        PROVE  /\ outbox'[j] = effects'[j]
               /\ effects'[j] = IF log'[j].result.kind \in CommittedKinds
                                  THEN {log'[j].result.version} ELSE {}
               /\ log'[j].status = "completed" <=> log'[j].result # NoResult
    <3>1. CASE j = i
      BY <1>2, <1>3, <2>2, <3>1
    <3>2. CASE j # i
      BY <1>2, <2>2, <3>2 DEF OutcomeIsAtomic
    <3>3. QED
      BY <3>1, <3>2
  <2>4. QED
    BY <2>3 DEF OutcomeIsAtomic
<1>11. QED
  BY <1>5, <1>6, <1>7, <1>8, <1>9, <1>10

LEMMA TransactionStepInv ==
  ASSUME IInv, TypeOK', NEW c \in Calls, TransactionStep(c)
  PROVE  IInv'
<1>0. /\ TypeOK /\ Live(c) /\ c # None
      /\ IntentOf(c) \in Intents /\ rowLock \in [Intents -> Calls \cup {None}]
  BY CommandFields
  DEF IInv, TypeOK, TransactionStep, Complete, CompleteRejected, AppendOutbox,
      TransactionFails, Commit, CompleteRolledBack, RolledBackFails,
      Acknowledged, AcknowledgementLost, Live, Settled
<1>1. CASE Complete(c)
  <2>1. /\ pc' = [pc EXCEPT ![c] = "append"]
        /\ rowLock' = [rowLock EXCEPT ![IntentOf(c)] = c]
        /\ UNCHANGED <<log, effects, outbox, lease, result>>
    BY <1>1 DEF Complete, Goto
  <2>2. /\ pc[c] = "complete" /\ OwnsAttempt(c) /\ rowLock[IntentOf(c)] = None
        /\ pc'[c] = "append" /\ rowLock'[IntentOf(c)] = c
        /\ \A d \in Calls : d # c => pc'[d] = pc[d]
        /\ \A d \in Calls : Live(d)' = Live(d)
    BY <1>0, <1>1, <2>1 DEF TypeOK, Complete, Unlocked, Live, Settled
  <2>3. HeldResults' /\ Ownership' /\ UniqueLeases'
    BY <2>1, <2>2
    DEF IInv, HeldResults, Ownership, UniqueLeases, EntryOf, IntentOf
  <2>4. Backoffs' /\ Answered' /\ OutcomeIsAtomic'
    BY <2>1, <2>2
    DEF IInv, Backoffs, Answered, OutcomeIsAtomic, EntryOf, IntentOf
  <2>5. ASSUME NEW d \in Calls, pc'[d] \in {"append", "commit"}
        PROVE  rowLock'[IntentOf(d)] = d /\ OwnsAttempt(d)'
    BY <1>0, <2>1, <2>2, <2>5, CommandFields
    DEF IInv, Locks, OwnsAttempt, EntryOf, IntentOf
  <2>6. ASSUME NEW j \in Intents, rowLock'[j] # None
        PROVE  IntentOf(rowLock'[j]) = j /\ pc'[rowLock'[j]] \in {"append", "commit"}
    BY <1>0, <2>1, <2>2, <2>6 DEF IInv, Locks
  <2>7. Locks'
    BY <2>5, <2>6 DEF Locks, IntentOf
  <2>8. QED
    BY <2>3, <2>4, <2>7 DEF IInv
<1>2. CASE CompleteRejected(c)
  BY <1>0, <1>2, CatchInv DEF CompleteRejected, Errors
<1>3. CASE AppendOutbox(c)
  <2>1. /\ pc[c] = "append" /\ pc' = [pc EXCEPT ![c] = "commit"]
        /\ UNCHANGED <<log, rowLock, effects, outbox, lease, result>>
    BY <1>3 DEF AppendOutbox, Goto, storeVars
  <2>2. /\ pc'[c] = "commit"
        /\ \A d \in Calls : d # c => pc'[d] = pc[d]
        /\ \A d \in Calls : Live(d)' = Live(d)
    BY <1>0, <2>1 DEF TypeOK, Live, Settled
  <2>3. HeldResults' /\ Ownership' /\ UniqueLeases' /\ Backoffs' /\ Answered'
    BY <2>1, <2>2
    DEF IInv, HeldResults, Ownership, UniqueLeases, Backoffs, Answered, EntryOf,
        IntentOf
  <2>4. Locks'
    BY <1>0, <2>1, <2>2 DEF IInv, Locks, OwnsAttempt, EntryOf, IntentOf
  <2>5. OutcomeIsAtomic'
    BY <2>1 DEF IInv, OutcomeIsAtomic
  <2>6. QED
    BY <2>3, <2>4, <2>5 DEF IInv
<1>4. CASE TransactionFails(c)
  BY <1>0, <1>4, CatchInv DEF TransactionFails, Errors, Thrown
<1>5. CASE Commit(c)
  <2>1. /\ OwnsAttempt(c) /\ rowLock[IntentOf(c)] = c
        /\ result[c].kind \in CommittedKinds /\ result[c].version = lease[c]
    BY <1>5 DEF Commit, IInv, Locks, HeldResults
  <2>2. result[c] \in Result
    BY <1>0, <2>1 DEF TypeOK, NoResult, CommittedKinds
  <2>3. QED
    BY <1>0, <1>5, <2>1, <2>2, CompletedInv DEF Commit, Goto
<1>6. CASE CompleteRolledBack(c)
  <2>1. /\ OwnsAttempt(c) /\ rowLock[IntentOf(c)] = None
        /\ result[c].kind = "rolled-back"
    BY <1>6 DEF CompleteRolledBack, Unlocked, IInv, HeldResults
  <2>2. result[c] \in Result /\ result[c].kind \notin CommittedKinds
    BY <1>0, <2>1 DEF TypeOK, NoResult, CommittedKinds
  <2>3. /\ rowLock' = [rowLock EXCEPT ![IntentOf(c)] = None]
        /\ effects' = [effects EXCEPT ![IntentOf(c)] = @ \cup {}]
        /\ outbox' = [outbox EXCEPT ![IntentOf(c)] = @ \cup {}]
    BY <1>0, <1>6, <2>1 DEF TypeOK, CompleteRolledBack
  <2>4. result[c].version = lease[c]
    BY <1>6 DEF CompleteRolledBack, IInv, HeldResults
  <2>5. QED
    BY <1>0, <1>6, <2>1, <2>2, <2>3, <2>4, CompletedInv
    DEF CompleteRolledBack, Goto
<1>7. CASE RolledBackFails(c)
  BY <1>0, <1>7, CatchInv DEF RolledBackFails, Errors, Thrown
<1>8. CASE Acknowledged(c)
  <2>1. /\ EntryOf(c).status = "completed" /\ EntryOf(c).result = result[c]
        /\ EntryOf(c).operation = Command[c].operation
    BY <1>8 DEF Acknowledged, IInv, Answered
  <2>2. QED
    BY <1>0, <1>8, <2>1, SettleInv DEF Acknowledged, Goto, TypeOK, storeVars
<1>9. CASE AcknowledgementLost(c)
  BY <1>0, <1>9, CatchInv DEF AcknowledgementLost, Errors, Thrown
<1>10. QED
  BY <1>1, <1>2, <1>3, <1>4, <1>5, <1>6, <1>7, <1>8, <1>9 DEF TransactionStep

\* Failing the active attempt changes no result, and no other call is in a
\* transaction on the entry.
LEMMA FailedInv ==
  ASSUME IInv, TypeOK', NEW c \in Calls, pc[c] = "fail", Unlocked(c), OwnsAttempt(c),
         WriteEntry(c, FailureEntry(c)),
         pc' = [pc EXCEPT ![c] = pc'[c]], pc'[c] \in {"backoff", "threw"},
         UNCHANGED <<rowLock, effects, outbox, lease, result>>
  PROVE  IInv'
<1> DEFINE i == IntentOf(c)  old == log[i]
<1> USE DEF IInv
<1>1. /\ old \in Entry /\ i \in Intents
      /\ \A d \in Calls : IntentOf(d) \in Intents /\ d # None
  BY CommandFields DEF TypeOK
<1>2. /\ log'[i].status \in EndedStatuses /\ log'[i].operation = old.operation
      /\ log'[i].version = old.version /\ log'[i].result = old.result
      /\ \A j \in Intents : j # i => log'[j] = log[j]
  BY <1>1, FailedEntry
  DEF WriteEntry, EntryOf, TypeOK, FailureEntry, EndedStatuses
<1>3. old.status = "in-progress"
  BY DEF OwnsAttempt, HoldsLease, EntryOf
<1>4. /\ \A d \in Calls : d # c => pc'[d] = pc[d]
      /\ \A d \in Calls : Live(d)' => Live(d)
  BY DEF TypeOK, Live, Settled
<1>5. HeldResults'
  BY <1>4 DEF HeldResults
<1>6. Locks'
  <2>1. ASSUME NEW d \in Calls, pc'[d] \in {"append", "commit"}
        PROVE  rowLock'[IntentOf(d)] = d /\ OwnsAttempt(d)'
    <3>1. d # c /\ rowLock[IntentOf(d)] = d /\ OwnsAttempt(d)
      BY <1>4, <2>1 DEF Locks
    <3>2. IntentOf(d) # i
      BY <1>1, <3>1 DEF Unlocked
    <3>3. QED
      BY <1>1, <1>2, <3>1, <3>2 DEF OwnsAttempt, EntryOf, IntentOf
  <2>2. ASSUME NEW j \in Intents, rowLock'[j] # None
        PROVE  IntentOf(rowLock'[j]) = j /\ pc'[rowLock'[j]] \in {"append", "commit"}
    BY <1>4, <2>2 DEF Locks, TypeOK
  <2>3. QED
    BY <2>1, <2>2 DEF Locks, IntentOf
<1>7. Ownership' /\ UniqueLeases'
  BY <1>1, <1>2, <1>3, <1>4
  DEF Ownership, UniqueLeases, EntryOf, IntentOf, EndedStatuses
<1>8. Backoffs'
  BY <1>1, <1>2, <1>4 DEF Backoffs, EntryOf, IntentOf, EndedStatuses
<1>9. Answered'
  BY <1>1, <1>2, <1>3, <1>4 DEF Answered, EntryOf, IntentOf
<1>10. OutcomeIsAtomic'
  BY <1>1, <1>2, <1>3 DEF OutcomeIsAtomic, EndedStatuses
<1>11. QED
  BY <1>5, <1>6, <1>7, <1>8, <1>9, <1>10

LEMMA RecordStepInv ==
  ASSUME IInv, TypeOK', NEW c \in Calls, RecordStep(c)
  PROVE  IInv'
<1>1. /\ TypeOK /\ pc[c] = "fail"
      /\ UNCHANGED <<rowLock, effects, outbox, lease, result>>
      /\ pc' = [pc EXCEPT ![c] = pc'[c]] /\ pc'[c] \in {"backoff", "threw"}
  BY DEF RecordStep, FailureRecorded, FailureNotRecorded, AfterRecording, Goto,
         IInv, TypeOK
<1>2. CASE UNCHANGED log /\ FailureNotRecorded(c)
  <2>1. pc'[c] = "threw"
    BY <1>1, <1>2
    DEF FailureNotRecorded, AfterRecording, CanRetry, Goto, TypeOK
  <2>2. QED
    BY <1>1, <1>2, <2>1, SettleInv DEF TypeOK
<1>3. CASE \/ FailureRecorded(c)
           \/ /\ FailureNotRecorded(c)
              /\ Unlocked(c) /\ OwnsAttempt(c) /\ WriteEntry(c, FailureEntry(c))
  BY <1>1, <1>3, FailedInv DEF FailureRecorded
<1>4. QED
  BY <1>2, <1>3 DEF RecordStep, FailureNotRecorded

LEMMA ExpiryInv ==
  ASSUME IInv, TypeOK', NEW i \in Intents, LeaseExpires(i)
  PROVE  IInv'
<1> USE DEF IInv
<1>1. /\ UNCHANGED <<rowLock, effects, outbox, pc, lease, result>>
      /\ \A j \in Intents : /\ log'[j].status = log[j].status
                             /\ log'[j].operation = log[j].operation
                             /\ log'[j].owner = log[j].owner
                             /\ log'[j].version = log[j].version
                             /\ log'[j].result = log[j].result
  BY ExpiredEntry DEF LeaseExpires, callVars, TypeOK
<1>2. \A c \in Calls : /\ IntentOf(c) \in Intents
                       /\ Live(c)' = Live(c)
  BY <1>1, CommandFields DEF Live
<1>3. HeldResults' /\ Locks'
  BY <1>1, <1>2
  DEF HeldResults, Locks, OwnsAttempt, HoldsLease, EntryOf, IntentOf
<1>4. Ownership' /\ UniqueLeases'
  BY <1>1, <1>2 DEF Ownership, UniqueLeases, EntryOf, IntentOf
<1>5. Backoffs' /\ Answered'
  BY <1>1, <1>2 DEF Backoffs, Answered, EntryOf, IntentOf
<1>6. OutcomeIsAtomic'
  BY <1>1 DEF OutcomeIsAtomic
<1>7. QED
  BY <1>3, <1>4, <1>5, <1>6

\* A crash settles calls and releases their locks; it decides nothing.
LEMMA CrashInv ==
  ASSUME IInv, TypeOK', NEW r \in LeaseOwners, Crash(r)
  PROVE  IInv'
<1> DEFINE dying == {c \in Calls : Command[c].runner = r /\ Live(c)}
<1> USE DEF IInv
<1>1. /\ UNCHANGED <<log, effects, outbox, lease, result>>
      /\ \A c \in Calls : pc'[c] = IF c \in dying THEN "crashed" ELSE pc[c]
      /\ \A i \in Intents :
           rowLock'[i] = IF rowLock[i] \in dying THEN None ELSE rowLock[i]
  BY DEF Crash, TypeOK
<1>2. \A c \in Calls : IntentOf(c) \in Intents /\ (Live(c)' => Live(c))
  BY <1>1, CommandFields DEF Live, Settled
<1>3. HeldResults' /\ Backoffs' /\ Answered' /\ OutcomeIsAtomic'
  BY <1>1
  DEF HeldResults, Backoffs, Answered, OutcomeIsAtomic, EntryOf, IntentOf
<1>4. Ownership' /\ UniqueLeases'
  BY <1>1, <1>2 DEF Ownership, UniqueLeases, EntryOf, IntentOf
<1>5. Locks'
  BY <1>1, <1>2 DEF Locks, OwnsAttempt, EntryOf, IntentOf, TypeOK
<1>6. QED
  BY <1>3, <1>4, <1>5

\* The invariant is inductive: what the model checker confirms on three calls
\* holds for any number of calls, intents, processes and attempts.
THEOREM Inductive == Spec => []IInv
<1>1. IInv /\ [Next]_vars => IInv'
  <2> SUFFICES ASSUME IInv, [Next]_vars PROVE IInv'
    OBVIOUS
  <2>0. TypeOK
    BY DEF IInv
  <2>1. ASSUME NEW c \in Calls, ClaimStep(c) PROVE IInv'
    BY <2>0, <2>1, ClaimStepType, ClaimStepInv
  <2>2. ASSUME NEW c \in Calls, AdmissionStep(c) PROVE IInv'
    BY <2>0, <2>2, AdmissionStepType, AdmissionStepInv
  <2>3. ASSUME NEW c \in Calls, HandlerSettles(c) \/ HandlerTimesOut(c)
        PROVE  IInv'
    BY <2>0, <2>3, HandlerStepType, HandlerStepInv
  <2>4. ASSUME NEW c \in Calls, TransactionStep(c) PROVE IInv'
    <3>1. pc[c] \in {"commit", "rollback"} => result[c] \in Result
      BY <2>0 DEF IInv, HeldResults, TypeOK, NoResult, CommittedKinds
    <3>2. QED
      BY <2>0, <2>4, <3>1, TransactionStepType, TransactionStepInv
  <2>5. ASSUME NEW c \in Calls, RecordStep(c) PROVE IInv'
    BY <2>0, <2>5, RecordStepType, RecordStepInv
  <2>6. ASSUME NEW i \in Intents, LeaseExpires(i) PROVE IInv'
    BY <2>0, <2>6, EnvironmentType, ExpiryInv
  <2>7. ASSUME NEW r \in LeaseOwners, Crash(r) PROVE IInv'
    BY <2>0, <2>7, EnvironmentType, CrashInv
  <2>8. CASE UNCHANGED vars
    BY <2>8
    DEF IInv, TypeOK, HeldResults, Locks, Ownership, UniqueLeases, Backoffs,
        Answered, OutcomeIsAtomic, Live, OwnsAttempt, EntryOf, IntentOf, vars,
        storeVars, callVars
  <2>9. QED
    BY <2>1, <2>2, <2>3, <2>4, <2>5, <2>6, <2>7, <2>8
    DEF Next, CallStep, Quiescent
<1>2. QED
  BY <1>1, InitInv, PTL DEF Spec

\* Types hold in every reachable state.
THEOREM TypeCorrect == Spec => []TypeOK
BY Inductive, PTL DEF IInv

\* Changes, Outbox records and the stored result become durable together, from
\* one attempt, and at most one attempt of an intent ever takes effect.
THEOREM OutcomeAtomic == Spec => []OutcomeIsAtomic
BY Inductive, PTL DEF IInv

\* All calls that return for one intent return the stored result.
THEOREM CallersAlwaysAgree == Spec => []CallersAgree
<1>1. IInv => CallersAgree
  BY DEF IInv, Answered, CallersAgree
<1>2. QED
  BY <1>1, Inductive, PTL

\* The active attempt of an intent has one live owner.
THEOREM OneHolderAlways == Spec => []OneHolder
<1>1. IInv => OneHolder
  BY DEF IInv, UniqueLeases, OneHolder, OwnsAttempt, HoldsLease, EntryOf
<1>2. QED
  BY <1>1, Inductive, PTL

\* A call waits for a retry only after its attempt is durably over.
THEOREM RetryIsSafe == Spec => []RetryOnlyAfterRecording
<1>1. IInv => RetryOnlyAfterRecording
  <2> SUFFICES ASSUME IInv, NEW c \in Calls, pc[c] = "backoff" PROVE ~OwnsAttempt(c)
    BY DEF RetryOnlyAfterRecording
  <2>1. \/ EntryOf(c).status # "in-progress"
        \/ lease[c] < EntryOf(c).version
    BY DEF IInv, Backoffs
  <2>2. lease[c] \in Nat /\ EntryOf(c).version \in Nat
    BY CommandFields DEF IInv, TypeOK, EntryOf, Entry
  <2>3. QED
    BY <2>1, <2>2 DEF OwnsAttempt, HoldsLease
<1>2. QED
  BY <1>1, Inductive, PTL

-----------------------------------------------------------------------------
(* Admission. *)

\* A caught error keeps the admission counters, except that a limiter that
\* throws may have counted a call whose guards have all accepted.
LEMMA CatchAdmission ==
  ASSUME TypeOK, AdmissionInv, NEW c \in Calls, NEW e \in Errors, Catch(c, e),
         \/ UNCHANGED consumed
         \/ /\ pc[c] = "guards" /\ passed[c] = Command[c].guards
            /\ consumed' = [consumed EXCEPT ![c] = @ + 1]
  PROVE  AdmissionInv'
<1> SUFFICES ASSUME NEW d \in Calls PROVE AdmissionInv!(d)'
  BY DEF AdmissionInv
<1>1. /\ passed' = passed /\ attempt' = attempt
      /\ pc'[d] = IF d = c THEN "fail" ELSE pc[d]
  BY DEF Catch, Goto, TypeOK
<1>2. CASE UNCHANGED consumed
  BY <1>1, <1>2 DEF AdmissionInv, Admitted
<1>3. CASE /\ pc[c] = "guards" /\ passed[c] = Command[c].guards
           /\ consumed' = [consumed EXCEPT ![c] = @ + 1]
  BY <1>1, <1>3 DEF AdmissionInv, Admitted, TypeOK
<1>4. QED
  BY <1>2, <1>3

\* A step that keeps the counters and takes no call into the admission or the
\* handler, except by starting it or by a retry within the budget.
MovesOn(d) ==
  \/ pc'[d] = pc[d]
  \/ pc'[d] \notin {"ready", "guards", "resolve", "handler", "backoff"}
  \/ pc[d] = "ready" /\ pc'[d] = "guards"
  \/ pc'[d] = "backoff" /\ attempt[d] > 0 /\ attempt[d] < Command[d].maxAttempts

LEMMA SameAdmission ==
  ASSUME AdmissionInv, UNCHANGED <<passed, consumed, attempt>>,
         \A d \in Calls : MovesOn(d)
  PROVE  AdmissionInv'
BY DEF AdmissionInv, Admitted, MovesOn

LEMMA AdmissionInductive == Spec => [](TypeOK /\ AdmissionInv)
<1>1. Init => AdmissionInv
  BY CommandFields DEF Init, AdmissionInv
<1>2. TypeOK /\ AdmissionInv /\ [Next]_vars => AdmissionInv'
  <2> SUFFICES ASSUME TypeOK, AdmissionInv, [Next]_vars PROVE AdmissionInv'
    OBVIOUS
  <2>1. ASSUME NEW c \in Calls, ClaimStep(c) PROVE AdmissionInv'
    <3>1. CASE ClaimGranted(c) /\ pc[c] = "backoff"
      <4>1. /\ pc[c] = "backoff" /\ passed' = passed /\ consumed' = consumed
            /\ pc' = [pc EXCEPT ![c] = "handler"]
            /\ attempt' = [attempt EXCEPT ![c] = @ + 1]
        BY <3>1 DEF ClaimGranted, Goto
      <4>2. attempt[c] \in Nat /\ Command[c].maxAttempts \in Nat
        BY CommandFields DEF TypeOK
      <4>3. QED
        BY <4>1, <4>2 DEF AdmissionInv, Admitted, TypeOK
    <3>2. CASE ~(ClaimGranted(c) /\ pc[c] = "backoff")
      <4>1. UNCHANGED <<passed, consumed, attempt>> /\ \A d \in Calls : MovesOn(d)
        BY <2>1, <3>2
        DEF ClaimStep, ClaimGranted, ClaimFindsResult, ClaimRefused,
            ClaimFails, Throw, Goto, TypeOK, MovesOn
      <4>2. QED
        BY <4>1, SameAdmission
    <3>3. QED
      BY <3>1, <3>2
  <2>2. ASSUME NEW c \in Calls, AdmissionStep(c) PROVE AdmissionInv'
    <3>1. CASE GuardAccepts(c)
      BY <3>1, CommandFields DEF GuardAccepts, AdmissionInv, Admitted, TypeOK
    <3>2. CASE RateLimitAccepts(c)
      BY <3>2 DEF RateLimitAccepts, Goto, AdmissionInv, Admitted, TypeOK
    <3>3. CASE HandlerResolved(c)
      BY <3>3, CommandFields DEF HandlerResolved, Goto, AdmissionInv, Admitted, TypeOK
    <3>4. CASE GuardStops(c) \/ RateLimitStops(c) \/ HandlerUnresolved(c)
      BY <3>4, CatchAdmission
      DEF GuardStops, RateLimitStops, HandlerUnresolved, Errors, Thrown
    <3>5. QED
      BY <2>2, <3>1, <3>2, <3>3, <3>4 DEF AdmissionStep
  <2>3. ASSUME NEW c \in Calls, HandlerSettles(c) \/ HandlerTimesOut(c)
        PROVE  AdmissionInv'
    <3>1. CASE HandlerAnswers(c)
      <4>1. UNCHANGED <<passed, consumed, attempt>> /\ \A d \in Calls : MovesOn(d)
        BY <3>1 DEF HandlerAnswers, Goto, TypeOK, MovesOn
      <4>2. QED
        BY <4>1, SameAdmission
    <3>2. CASE HandlerThrows(c) \/ HandlerTimesOut(c)
      BY <3>2, CatchAdmission
      DEF HandlerThrows, HandlerTimesOut, Errors, Thrown
    <3>3. QED
      BY <2>3, <3>1, <3>2 DEF HandlerSettles
  <2>4. ASSUME NEW c \in Calls, TransactionStep(c) PROVE AdmissionInv'
    <3>1. CASE Complete(c) \/ AppendOutbox(c) \/ Commit(c)
                 \/ CompleteRolledBack(c) \/ Acknowledged(c)
      <4>1. UNCHANGED <<passed, consumed, attempt>> /\ \A d \in Calls : MovesOn(d)
        BY <3>1
        DEF Complete, AppendOutbox, Commit, CompleteRolledBack, Acknowledged,
            Goto, TypeOK, storeVars, MovesOn
      <4>2. QED
        BY <4>1, SameAdmission
    <3>2. CASE CompleteRejected(c) \/ TransactionFails(c)
                 \/ RolledBackFails(c) \/ AcknowledgementLost(c)
      BY <3>2, CatchAdmission
      DEF CompleteRejected, TransactionFails, RolledBackFails,
          AcknowledgementLost, Errors, Thrown
    <3>3. QED
      BY <2>4, <3>1, <3>2 DEF TransactionStep
  <2>5. ASSUME NEW c \in Calls, RecordStep(c) PROVE AdmissionInv'
    <3>1. PICK b \in BOOLEAN : AfterRecording(c, b)
      BY <2>5 DEF RecordStep, FailureRecorded, FailureNotRecorded
    <3>2. UNCHANGED <<passed, consumed, attempt>> /\ \A d \in Calls : MovesOn(d)
      BY <3>1 DEF AfterRecording, CanRetry, Goto, TypeOK, MovesOn
    <3>3. QED
      BY <3>2, SameAdmission
  <2>6. ASSUME NEW i \in Intents, LeaseExpires(i) PROVE AdmissionInv'
    <3>1. UNCHANGED <<passed, consumed, attempt>> /\ \A d \in Calls : MovesOn(d)
      BY <2>6 DEF LeaseExpires, callVars, MovesOn
    <3>2. QED
      BY <3>1, SameAdmission
  <2>7. ASSUME NEW r \in LeaseOwners, Crash(r) PROVE AdmissionInv'
    <3>1. UNCHANGED <<passed, consumed, attempt>> /\ \A d \in Calls : MovesOn(d)
      BY <2>7 DEF Crash, TypeOK, MovesOn
    <3>2. QED
      BY <3>1, SameAdmission
  <2>8. CASE UNCHANGED vars
    <3>1. UNCHANGED <<passed, consumed, attempt>> /\ \A d \in Calls : MovesOn(d)
      BY <2>8 DEF vars, callVars, MovesOn
    <3>2. QED
      BY <3>1, SameAdmission
  <2>9. QED
    BY <2>1, <2>2, <2>3, <2>4, <2>5, <2>6, <2>7, <2>8
    DEF Next, CallStep, Quiescent
<1>3. QED
  BY <1>1, <1>2, TypeCorrect, PTL DEF Spec

\* Capacity is consumed at most once per call and only behind its guards, and
\* no handler attempt runs without admission or beyond the retry budget.
THEOREM AdmissionHolds == Spec => []AdmissionOnce
<1>1. TypeOK /\ AdmissionInv => AdmissionOnce
  <2> SUFFICES ASSUME TypeOK, AdmissionInv, NEW c \in Calls PROVE AdmissionOnce!(c)
    BY DEF AdmissionOnce
  <2>1. attempt[c] \in Nat /\ Command[c].maxAttempts \in Nat
    BY CommandFields DEF TypeOK
  <2>2. QED
    BY <2>1 DEF AdmissionInv, Admitted
<1>2. QED
  BY <1>1, AdmissionInductive, PTL

-----------------------------------------------------------------------------
(* What one step may do: the fence, and the refinement. *)

\* The five ways a step can touch the log, with what goes with each.
WriteNothing == UNCHANGED <<log, effects, outbox>>

WriteClaim(c) ==
  /\ ClaimType(EntryOf(c), Command[c].operation) = "claimed"
  /\ WriteEntry(c, Claimed(EntryOf(c), Command[c].operation, Command[c].runner))
  /\ UNCHANGED <<effects, outbox>>

WriteResult(c) ==
  /\ Live(c) /\ OwnsAttempt(c)
  /\ result[c] \in Result /\ result[c].version = lease[c]
  /\ WriteEntry(c, Completed(EntryOf(c), result[c]))
  /\ pc' = [pc EXCEPT ![c] = "committed"] /\ UNCHANGED result
  /\ LET new == IF result[c].kind \in CommittedKinds THEN {lease[c]} ELSE {} IN
       /\ effects' = [effects EXCEPT ![IntentOf(c)] = @ \cup new]
       /\ outbox' = [outbox EXCEPT ![IntentOf(c)] = @ \cup new]

WriteFailure(c) ==
  /\ Live(c) /\ OwnsAttempt(c)
  /\ WriteEntry(c, FailureEntry(c))
  /\ UNCHANGED <<effects, outbox>>

WriteExpiry(i) ==
  /\ log[i].status = "in-progress"
  /\ log' = [log EXCEPT ![i] = Expired(@)]
  /\ UNCHANGED <<effects, outbox>>

LEMMA CallWrites ==
  ASSUME IInv, NEW c \in Calls,
         ClaimStep(c) \/ HandlerSettles(c) \/ CallStep(c)
  PROVE  WriteNothing \/ WriteClaim(c) \/ WriteResult(c) \/ WriteFailure(c)
<1>1. CASE ClaimStep(c)
  BY <1>1 DEF ClaimStep, ClaimGranted, ClaimFindsResult, ClaimRefused, ClaimFails,
              WriteNothing, WriteClaim, storeVars
<1>2. CASE AdmissionStep(c)
  BY <1>2 DEF AdmissionStep, GuardAccepts, GuardStops, RateLimitAccepts,
              RateLimitStops, HandlerResolved, HandlerUnresolved, Catch,
              WriteNothing, storeVars
<1>3. CASE HandlerSettles(c) \/ HandlerTimesOut(c)
  BY <1>3 DEF HandlerSettles, HandlerAnswers, HandlerThrows, HandlerTimesOut,
              Catch, WriteNothing, storeVars
<1>4. CASE TransactionStep(c)
  <2>1. CASE Commit(c)
    <3>1. /\ Live(c) /\ OwnsAttempt(c) /\ result[c].version = lease[c]
          /\ result[c].kind \in CommittedKinds
      BY <2>1 DEF Commit, IInv, Locks, HeldResults, Live, Settled
    <3>2. result[c] \in Result
      BY <3>1 DEF IInv, TypeOK, NoResult, CommittedKinds
    <3>3. QED
      BY <2>1, <3>1, <3>2 DEF Commit, WriteResult, Goto
  <2>2. CASE CompleteRolledBack(c)
    <3>1. /\ Live(c) /\ OwnsAttempt(c) /\ result[c].version = lease[c]
          /\ result[c].kind = "rolled-back"
      BY <2>2 DEF CompleteRolledBack, IInv, HeldResults, Live, Settled
    <3>2. result[c] \in Result /\ result[c].kind \notin CommittedKinds
      BY <3>1 DEF IInv, TypeOK, NoResult, CommittedKinds
    <3>3. /\ effects' = [effects EXCEPT ![IntentOf(c)] = @ \cup {}]
          /\ outbox' = [outbox EXCEPT ![IntentOf(c)] = @ \cup {}]
      BY <2>2, CommandFields DEF CompleteRolledBack, IInv, TypeOK
    <3>4. QED
      BY <2>2, <3>1, <3>2, <3>3 DEF CompleteRolledBack, WriteResult, Goto
  <2>3. CASE ~Commit(c) /\ ~CompleteRolledBack(c)
    BY <1>4, <2>3
    DEF TransactionStep, Complete, CompleteRejected, AppendOutbox,
        TransactionFails, RolledBackFails, Acknowledged, AcknowledgementLost,
        Catch, WriteNothing, storeVars
  <2>4. QED
    BY <2>1, <2>2, <2>3
<1>5. CASE RecordStep(c)
  BY <1>5 DEF RecordStep, FailureRecorded, FailureNotRecorded, AfterRecording,
              WriteNothing, WriteFailure, Live, Settled
<1>6. QED
  BY <1>1, <1>2, <1>3, <1>4, <1>5 DEF CallStep

LEMMA StepWrites ==
  ASSUME IInv, [Next]_vars
  PROVE  \/ WriteNothing
         \/ \E c \in Calls : WriteClaim(c) \/ WriteResult(c) \/ WriteFailure(c)
         \/ \E i \in Intents : WriteExpiry(i)
<1>1. ASSUME NEW c \in Calls, ClaimStep(c) \/ HandlerSettles(c) \/ CallStep(c)
      PROVE  WriteNothing \/ WriteClaim(c) \/ WriteResult(c) \/ WriteFailure(c)
  BY <1>1, CallWrites
<1>2. ASSUME NEW i \in Intents, LeaseExpires(i)
      PROVE  WriteExpiry(i)
  BY <1>2 DEF LeaseExpires, WriteExpiry
<1>3. ASSUME NEW r \in LeaseOwners, Crash(r)
      PROVE  WriteNothing
  BY <1>3 DEF Crash, WriteNothing
<1>4. CASE UNCHANGED vars
  BY <1>4 DEF vars, storeVars, WriteNothing
<1>5. QED
  BY <1>1, <1>2, <1>3, <1>4 DEF Next, Quiescent

\* Completed entries are final, an unexpired attempt is never replaced, and only
\* the holder of the active lease ends an attempt.
THEOREM FenceHolds == Spec => LeasesFence
<1>1. ASSUME IInv, [Next]_vars, NEW i \in Intents
      PROVE  EntryStep(i)
  <2>1. log[i] \in Entry /\ log[i].version \in Nat
    BY <1>1 DEF IInv, TypeOK, Entry
  <2>2. CASE log'[i] = log[i]
    BY <2>1, <2>2 DEF EntryStep
  <2>3. ASSUME NEW c \in Calls, IntentOf(c) = i, WriteClaim(c)
        PROVE  EntryStep(i)
    <3>1. /\ log'[i].status = "in-progress"
          /\ log'[i].version = log[i].version + 1
      BY <1>1, <2>1, <2>3, CommandFields, ClaimedEntry
      DEF WriteClaim, WriteEntry, EntryOf, IInv, TypeOK
    <3>2. /\ log[i].status # "completed"
          /\ log[i].status = "in-progress" => log[i].expired
      BY <2>3 DEF WriteClaim, ClaimType, Claimable, EndedStatuses, EntryOf
    <3>3. QED
      BY <3>1, <3>2 DEF EntryStep
  <2>4. ASSUME NEW c \in Calls, IntentOf(c) = i, WriteResult(c) \/ WriteFailure(c)
        PROVE  EntryStep(i)
    <3>1. /\ log'[i].version = log[i].version
          /\ log'[i].operation = log[i].operation
      BY <1>1, <2>1, <2>4, CompletedEntry, FailedEntry
      DEF WriteResult, WriteFailure, WriteEntry, FailureEntry, EntryOf, IInv,
          TypeOK, EndedStatuses
    <3>2. Live(c) /\ OwnsAttempt(c) /\ log[i].status = "in-progress"
      BY <2>4 DEF WriteResult, WriteFailure, OwnsAttempt, HoldsLease, EntryOf
    <3>3. Command[c].operation = log[i].operation
      BY <1>1, <2>4, <3>2 DEF IInv, Ownership, EntryOf
    <3>4. QED
      BY <2>1, <2>4, <3>1, <3>2, <3>3 DEF EntryStep
  <2>5. CASE WriteExpiry(i)
    <3>1. /\ log'[i].version = log[i].version
          /\ log[i].status = "in-progress" /\ log'[i].status = "in-progress"
      BY <1>1, <2>1, <2>5, ExpiredEntry DEF WriteExpiry, IInv, TypeOK
    <3>2. QED
      BY <2>1, <3>1 DEF EntryStep
  <2>6. ASSUME NEW c \in Calls, IntentOf(c) # i,
               WriteClaim(c) \/ WriteResult(c) \/ WriteFailure(c)
        PROVE  log'[i] = log[i]
    BY <1>1, <2>6 DEF WriteClaim, WriteResult, WriteFailure, WriteEntry, IInv, TypeOK
  <2>7. ASSUME NEW j \in Intents, j # i, WriteExpiry(j)
        PROVE  log'[i] = log[i]
    BY <1>1, <2>7 DEF WriteExpiry, IInv, TypeOK
  <2>8. WriteNothing => log'[i] = log[i]
    BY DEF WriteNothing
  <2>9. QED
    BY <1>1, <2>2, <2>3, <2>4, <2>5, <2>6, <2>7, <2>8, StepWrites
<1>2. IInv /\ [Next]_vars => [\A i \in Intents : EntryStep(i)]_vars
  BY <1>1
<1>3. QED
  BY <1>2, Inductive, PTL DEF Spec, LeasesFence

-----------------------------------------------------------------------------
(* Refinement of OperationOnce. *)

\* What a step of one call does to the answers.
LEMMA CallAnswers ==
  ASSUME IInv, NEW c \in Calls,
         ClaimStep(c) \/ HandlerSettles(c) \/ CallStep(c)
  PROVE  \/ \A d \in Calls : AnswerOf(d)' = AnswerOf(d)
         \/ /\ WriteNothing
            /\ pc[c] # "returned" /\ pc'[c] = "returned"
            /\ result'[c] = EntryOf(c).result
            /\ EntryOf(c).status = "completed"
            /\ \A d \in Calls : d # c => pc'[d] = pc[d] /\ result'[d] = result[d]
<1>0. TypeOK
  BY DEF IInv
<1>1. CASE ClaimFindsResult(c)
  BY <1>0, <1>1
  DEF ClaimFindsResult, ClaimType, Goto, TypeOK, WriteNothing, storeVars
<1>2. CASE Acknowledged(c)
  BY <1>0, <1>2
  DEF Acknowledged, Goto, TypeOK, WriteNothing, storeVars, IInv, Answered
<1>3. CASE ClaimGranted(c) \/ ClaimRefused(c) \/ ClaimFails(c)
  BY <1>0, <1>3
  DEF ClaimGranted, ClaimRefused, ClaimFails, Throw, Goto, TypeOK, AnswerOf
<1>4. CASE AdmissionStep(c)
  BY <1>0, <1>4
  DEF AdmissionStep, GuardAccepts, GuardStops, RateLimitAccepts, RateLimitStops,
      HandlerResolved, HandlerUnresolved, Catch, Goto, TypeOK, AnswerOf
<1>5. CASE HandlerSettles(c) \/ HandlerTimesOut(c)
  <2>1. CASE HandlerAnswers(c)
    <3>1. /\ pc[c] = "handler" /\ pc'[c] \in {"rollback", "complete"}
          /\ \A d \in Calls : d # c => pc'[d] = pc[d] /\ result'[d] = result[d]
      BY <1>0, <2>1 DEF HandlerAnswers, Goto, TypeOK
    <3>2. QED
      BY <3>1 DEF AnswerOf
  <2>2. CASE HandlerThrows(c) \/ HandlerTimesOut(c)
    BY <1>0, <2>2
    DEF HandlerThrows, HandlerTimesOut, Catch, Goto, TypeOK, AnswerOf
  <2>3. QED
    BY <1>5, <2>1, <2>2 DEF HandlerSettles
<1>6. CASE TransactionStep(c) /\ ~Acknowledged(c)
  BY <1>0, <1>6
  DEF TransactionStep, Complete, CompleteRejected, AppendOutbox,
      TransactionFails, Commit, CompleteRolledBack, RolledBackFails,
      AcknowledgementLost, Catch, Goto, TypeOK, AnswerOf
<1>7. CASE RecordStep(c)
  BY <1>0, <1>7
  DEF RecordStep, FailureRecorded, FailureNotRecorded, AfterRecording, Goto,
      TypeOK, AnswerOf
<1>8. QED
  BY <1>1, <1>2, <1>3, <1>4, <1>5, <1>6, <1>7 DEF ClaimStep, CallStep

\* A durable result is the decision, with its trace, and answers nobody yet.
LEMMA ResultDecides ==
  ASSUME IInv, NEW c \in Calls, WriteResult(c),
         \A d \in Calls : AnswerOf(d)' = AnswerOf(d)
  PROVE  Once!Decide(IntentOf(c))
<1> DEFINE i == IntentOf(c)
           trace == IF result[c].kind \in CommittedKinds THEN {lease[c]} ELSE {}
<1>1. /\ i \in Intents /\ log[i] \in Entry /\ TypeOK
      /\ log[i].result = NoResult
      /\ effects[i] = {} /\ outbox[i] = {}
  <2>1. i \in Intents /\ log[i] \in Entry /\ TypeOK
    BY CommandFields DEF IInv, TypeOK
  <2>2. log[i].result = NoResult
    BY <2>1
    DEF IInv, OutcomeIsAtomic, WriteResult, OwnsAttempt, HoldsLease, EntryOf
  <2>3. log[i].result.kind \notin CommittedKinds
    BY <2>2 DEF NoResult, CommittedKinds
  <2>4. QED
    BY <2>1, <2>2, <2>3 DEF IInv, OutcomeIsAtomic
<1>2. log' = [log EXCEPT ![i] = Completed(log[i], result[c])]
  BY DEF WriteResult, WriteEntry, EntryOf
<1>3. /\ log'[i].result = result[c]
      /\ [j \in Intents |-> log'[j].result]
           = [[j \in Intents |-> log[j].result] EXCEPT ![i] = result[c]]
  <2>1. log'[i].result = result[c]
    BY <1>1, <1>2, CompletedEntry DEF WriteResult, TypeOK
  <2>2. \A j \in Intents : j # i => log'[j] = log[j]
    BY <1>1, <1>2 DEF TypeOK
  <2>3. QED
    BY <1>1, <2>1, <2>2
<1>4. /\ effects' = [effects EXCEPT ![i] = trace]
      /\ outbox' = [outbox EXCEPT ![i] = trace]
  BY <1>1 DEF WriteResult, TypeOK
<1>5. result[c] \in Once!Decision /\ Once!Trace(result[c]) = trace
  BY DEF WriteResult, Once!Decision, Once!Trace, Result, ResultKinds
<1>6. [d \in Calls |-> AnswerOf(d)'] = [d \in Calls |-> AnswerOf(d)]
  OBVIOUS
<1>7. QED
  BY <1>1, <1>3, <1>4, <1>5, <1>6 DEF Once!Decide

\* Every other write leaves decisions and their traces alone.
LEMMA NoDecisionChanges ==
  ASSUME IInv,
         \/ WriteNothing
         \/ \E c \in Calls : WriteClaim(c) \/ WriteFailure(c)
         \/ \E i \in Intents : WriteExpiry(i)
  PROVE  UNCHANGED <<[i \in Intents |-> log[i].result], effects, outbox>>
<1>1. UNCHANGED <<effects, outbox>>
  BY DEF WriteNothing, WriteClaim, WriteFailure, WriteExpiry
<1>2. TypeOK
  BY DEF IInv
<1>3. ASSUME NEW c \in Calls, WriteClaim(c), NEW j \in Intents
      PROVE  log'[j].result = log[j].result
  <2>1. EntryOf(c) \in Entry /\ IntentOf(c) \in Intents
    BY <1>2, CommandFields DEF TypeOK, EntryOf
  <2>2. EntryOf(c).result = NoResult
    BY <1>3, <2>1
    DEF WriteClaim, ClaimType, IInv, OutcomeIsAtomic, EntryOf
  <2>3. QED
    BY <1>2, <1>3, <2>1, <2>2, CommandFields, ClaimedEntry
    DEF WriteClaim, WriteEntry, EntryOf, TypeOK
<1>4. ASSUME NEW c \in Calls, WriteFailure(c), NEW j \in Intents
      PROVE  log'[j].result = log[j].result
  BY <1>2, <1>4, CommandFields, FailedEntry
  DEF WriteFailure, WriteEntry, FailureEntry, EntryOf, TypeOK, EndedStatuses
<1>5. ASSUME NEW i \in Intents, WriteExpiry(i), NEW j \in Intents
      PROVE  log'[j].result = log[j].result
  BY <1>2, <1>5, ExpiredEntry DEF WriteExpiry, TypeOK
<1>6. \A j \in Intents : log'[j].result = log[j].result
  BY <1>3, <1>4, <1>5 DEF WriteNothing
<1>7. QED
  BY <1>1, <1>6

\* Runner implements OperationOnce.
THEOREM Refinement == Spec => DecidesOnce
<1>1. Init => Once!Init
  <2> SUFFICES ASSUME Init PROVE Once!Init
    OBVIOUS
  <2>1. \A c \in Calls : AnswerOf(c) = NoResult
    BY DEF Init, AnswerOf
  <2>2. QED
    BY <2>1 DEF Init, Once!Init, Absent
<1>2. IInv /\ [Next]_vars => [Once!Next]_Once!vars
  <2> SUFFICES ASSUME IInv, [Next]_vars PROVE [Once!Next]_Once!vars
    OBVIOUS
  <2>1. ASSUME NEW c \in Calls, ClaimStep(c) \/ HandlerSettles(c) \/ CallStep(c)
        PROVE  [Once!Next]_Once!vars
    <3>1. CASE \A d \in Calls : AnswerOf(d)' = AnswerOf(d)
      <4>1. CASE WriteResult(c)
        BY <3>1, <4>1, ResultDecides, CommandFields DEF Once!Next
      <4>2. CASE ~WriteResult(c)
        BY <2>1, <3>1, <4>2, CallWrites, NoDecisionChanges DEF Once!vars
      <4>3. QED
        BY <4>1, <4>2
    <3>2. CASE ~\A d \in Calls : AnswerOf(d)' = AnswerOf(d)
      <4>1. /\ WriteNothing
            /\ pc[c] # "returned" /\ pc'[c] = "returned"
            /\ result'[c] = EntryOf(c).result
            /\ EntryOf(c).status = "completed"
            /\ \A d \in Calls : d # c =>
                 pc'[d] = pc[d] /\ result'[d] = result[d]
        BY <2>1, <3>2, CallAnswers
      <4>2. UNCHANGED <<[i \in Intents |-> log[i].result], effects, outbox>>
        BY <4>1, NoDecisionChanges
      <4>3. /\ AnswerOf(c) = NoResult /\ AnswerOf(c)' = EntryOf(c).result
            /\ \A d \in Calls : d # c => AnswerOf(d)' = AnswerOf(d)
        BY <4>1 DEF AnswerOf
      <4>4. IntentOf(c) \in Intents /\ EntryOf(c).result # NoResult
        BY <4>1, CommandFields DEF IInv, OutcomeIsAtomic, EntryOf
      <4>5. [d \in Calls |-> AnswerOf(d)']
              = [[d \in Calls |-> AnswerOf(d)] EXCEPT ![c] = EntryOf(c).result]
        BY <4>3
      <4>6. Once!Answer(c)
        BY <4>2, <4>3, <4>4, <4>5 DEF Once!Answer, EntryOf, IntentOf
      <4>7. QED
        BY <4>6 DEF Once!Next
    <3>3. QED
      BY <3>1, <3>2
  <2>2. ASSUME NEW i \in Intents, LeaseExpires(i)
        PROVE  UNCHANGED Once!vars
    <3>1. WriteExpiry(i) /\ \A d \in Calls : AnswerOf(d)' = AnswerOf(d)
      BY <2>2 DEF LeaseExpires, WriteExpiry, callVars, AnswerOf
    <3>2. QED
      BY <3>1, NoDecisionChanges DEF Once!vars
  <2>3. ASSUME NEW r \in LeaseOwners, Crash(r)
        PROVE  UNCHANGED Once!vars
    <3>1. WriteNothing /\ \A d \in Calls : AnswerOf(d)' = AnswerOf(d)
      BY <2>3 DEF Crash, WriteNothing, AnswerOf, IInv, TypeOK, Live, Settled
    <3>2. QED
      BY <3>1, NoDecisionChanges DEF Once!vars
  <2>4. CASE UNCHANGED vars
    <3>1. WriteNothing /\ \A d \in Calls : AnswerOf(d)' = AnswerOf(d)
      BY <2>4 DEF vars, storeVars, callVars, WriteNothing, AnswerOf
    <3>2. QED
      BY <3>1, NoDecisionChanges DEF Once!vars
  <2>5. QED
    BY <2>1, <2>2, <2>3, <2>4 DEF Next, Quiescent
<1>3. QED
  BY <1>1, <1>2, Inductive, PTL DEF Spec, DecidesOnce, Once!Spec

-----------------------------------------------------------------------------
(* Every call comes nearer to its end. *)

LEMMA DistanceType ==
  ASSUME TypeOK, AdmissionInv, NEW c \in Calls
  PROVE  /\ Distance(c) \in Nat
         /\ pc[c] \notin Settled => Distance(c) > 0
<1>1. /\ pc[c] \in PCs /\ attempt[c] \in Nat /\ passed[c] \in Nat
      /\ Command[c].guards \in Nat /\ passed[c] <= Command[c].guards
      /\ Command[c].maxAttempts \in Nat \ {0}
      /\ attempt[c] <= Command[c].maxAttempts
  BY CommandFields DEF TypeOK, AdmissionInv
<1>2. /\ Stage(c) \in Nat
      /\ pc[c] \notin Settled => Stage(c) > 0
  BY <1>1 DEF Stage, PCs, Settled
<1>3. QED
  BY <1>1, <1>2 DEF Distance

LEMMA SameDistance ==
  ASSUME TypeOK, AdmissionInv, NEW c \in Calls,
         pc'[c] = pc[c], attempt'[c] = attempt[c], passed'[c] = passed[c]
  PROVE  Distance(c)' = Distance(c)
BY DEF Distance, Stage

\* A step of one call leaves the places of the others alone.
LEMMA OwnPlace ==
  ASSUME TypeOK, NEW c \in Calls, Moves(c), NEW d \in Calls, d # c
  PROVE  pc'[d] = pc[d] /\ attempt'[d] = attempt[d] /\ passed'[d] = passed[d]
<1>1. CASE ClaimStep(c)
  BY <1>1
  DEF ClaimStep, ClaimGranted, ClaimFindsResult, ClaimRefused, ClaimFails,
      Throw, Goto, TypeOK
<1>2. CASE AdmissionStep(c)
  BY <1>2
  DEF AdmissionStep, GuardAccepts, GuardStops, RateLimitAccepts, RateLimitStops,
      HandlerResolved, HandlerUnresolved, Catch, Goto, TypeOK
<1>3. CASE HandlerSettles(c) \/ HandlerTimesOut(c)
  BY <1>3
  DEF HandlerSettles, HandlerAnswers, HandlerThrows, HandlerTimesOut, Catch,
      Goto, TypeOK
<1>4. CASE TransactionStep(c)
  BY <1>4
  DEF TransactionStep, Complete, CompleteRejected, AppendOutbox,
      TransactionFails, Commit, CompleteRolledBack, RolledBackFails,
      Acknowledged, AcknowledgementLost, Catch, Goto, TypeOK
<1>5. CASE RecordStep(c)
  BY <1>5
  DEF RecordStep, FailureRecorded, FailureNotRecorded, AfterRecording, Goto,
      TypeOK
<1>6. QED
  BY <1>1, <1>2, <1>3, <1>4, <1>5 DEF Moves, CallStep

\* The places an own step of a call leads to.
Advances(c) ==
  \/ /\ pc'[c] \in Settled /\ pc[c] \notin Settled
  \/ /\ pc[c] = "ready" /\ pc'[c] = "guards"
     /\ attempt'[c] = attempt[c] /\ passed'[c] = passed[c]
  \/ /\ pc[c] = "guards" /\ pc'[c] = "guards"
     /\ attempt'[c] = attempt[c] /\ passed'[c] = passed[c] + 1
     /\ passed'[c] <= Command[c].guards
  \/ /\ pc[c] \in {"resolve", "backoff"} /\ pc'[c] = "handler"
     /\ attempt'[c] = attempt[c] + 1
     /\ attempt'[c] <= Command[c].maxAttempts
  \/ /\ <<pc[c], pc'[c]>> \in
          {<<"guards", "resolve">>, <<"handler", "complete">>,
           <<"handler", "rollback">>, <<"complete", "append">>,
           <<"append", "commit">>, <<"commit", "committed">>,
           <<"rollback", "committed">>, <<"fail", "backoff">>}
     /\ attempt'[c] = attempt[c] /\ passed'[c] = passed[c]
  \/ /\ pc[c] \notin Settled \cup {"ready", "fail", "backoff"}
     /\ pc'[c] = "fail"
     /\ attempt'[c] = attempt[c] /\ passed'[c] = passed[c]

LEMMA MovesAdvance ==
  ASSUME TypeOK, AdmissionInv, NEW c \in Calls, Moves(c)
  PROVE  Advances(c)
<1>0. /\ attempt[c] \in Nat /\ passed[c] \in Nat
      /\ Command[c].guards \in Nat /\ Command[c].maxAttempts \in Nat \ {0}
  BY CommandFields DEF TypeOK
<1>1. CASE ClaimStep(c)
  <2>1. CASE ClaimGranted(c)
    BY <1>0, <2>1
    DEF ClaimGranted, Goto, TypeOK, AdmissionInv, Advances
  <2>2. CASE ClaimFindsResult(c) \/ ClaimRefused(c) \/ ClaimFails(c)
    BY <2>2
    DEF ClaimFindsResult, ClaimRefused, ClaimFails, Throw, Goto, TypeOK,
        Advances, Settled
  <2>3. QED
    BY <1>1, <2>1, <2>2 DEF ClaimStep
<1>2. CASE AdmissionStep(c)
  <2>1. CASE GuardAccepts(c)
    BY <1>0, <2>1 DEF GuardAccepts, TypeOK, Advances
  <2>2. CASE RateLimitAccepts(c)
    BY <2>2 DEF RateLimitAccepts, Goto, TypeOK, Advances
  <2>3. CASE HandlerResolved(c)
    BY <1>0, <2>3 DEF HandlerResolved, Goto, TypeOK, AdmissionInv, Advances
  <2>4. CASE GuardStops(c) \/ RateLimitStops(c) \/ HandlerUnresolved(c)
    BY <2>4
    DEF GuardStops, RateLimitStops, HandlerUnresolved, Catch, Goto, TypeOK,
        Advances, Settled
  <2>5. QED
    BY <1>2, <2>1, <2>2, <2>3, <2>4 DEF AdmissionStep
<1>3. CASE HandlerSettles(c) \/ HandlerTimesOut(c)
  <2>1. CASE HandlerAnswers(c)
    BY <2>1 DEF HandlerAnswers, Goto, TypeOK, Advances
  <2>2. CASE HandlerThrows(c) \/ HandlerTimesOut(c)
    BY <2>2
    DEF HandlerThrows, HandlerTimesOut, Catch, Goto, TypeOK, Advances, Settled
  <2>3. QED
    BY <1>3, <2>1, <2>2 DEF HandlerSettles
<1>4. CASE TransactionStep(c)
  <2>1. CASE Complete(c) \/ AppendOutbox(c) \/ Commit(c)
               \/ CompleteRolledBack(c) \/ Acknowledged(c)
    BY <2>1
    DEF Complete, AppendOutbox, Commit, CompleteRolledBack, Acknowledged,
        Goto, TypeOK, Advances, Settled
  <2>2. CASE CompleteRejected(c) \/ TransactionFails(c)
               \/ RolledBackFails(c) \/ AcknowledgementLost(c)
    BY <2>2
    DEF CompleteRejected, TransactionFails, RolledBackFails,
        AcknowledgementLost, Catch, Goto, TypeOK, Advances, Settled
  <2>3. QED
    BY <1>4, <2>1, <2>2 DEF TransactionStep
<1>5. CASE RecordStep(c)
  BY <1>5
  DEF RecordStep, FailureRecorded, FailureNotRecorded, AfterRecording, Goto,
      TypeOK, Advances, Settled
<1>6. QED
  BY <1>1, <1>2, <1>3, <1>4, <1>5 DEF Moves, CallStep

LEMMA AdvancesNearer ==
  ASSUME TypeOK, AdmissionInv, NEW c \in Calls, Advances(c)
  PROVE  Distance(c)' < Distance(c) /\ Distance(c)' <= Distance(c)
<1>0. /\ attempt[c] \in Nat /\ passed[c] \in Nat
      /\ Command[c].guards \in Nat /\ passed[c] <= Command[c].guards
      /\ Command[c].maxAttempts \in Nat \ {0}
      /\ attempt[c] <= Command[c].maxAttempts
  BY CommandFields DEF TypeOK, AdmissionInv
<1>1. CASE pc'[c] \in Settled /\ pc[c] \notin Settled
  <2>1. Distance(c)' = 0 /\ Distance(c) > 0 /\ Distance(c) \in Nat
    BY <1>1, DistanceType DEF Distance
  <2>2. QED
    BY <2>1
<1>2. CASE ~(pc'[c] \in Settled /\ pc[c] \notin Settled)
  <2>1. /\ pc[c] \notin Settled /\ pc'[c] \notin Settled
        /\ Distance(c) = 10 * (Command[c].maxAttempts - attempt[c]) + Stage(c)
        /\ Distance(c)'
             = 10 * (Command[c].maxAttempts - attempt'[c]) + Stage(c)'
    BY <1>2 DEF Advances, Distance, Settled
  <2>2. /\ Stage(c) \in Nat /\ Stage(c)' \in Nat
        /\ \/ attempt'[c] = attempt[c] /\ Stage(c)' < Stage(c)
           \/ attempt'[c] = attempt[c] + 1 /\ Stage(c)' < Stage(c) + 10
    <3>1. CASE pc[c] = "ready" /\ pc'[c] = "guards"
      BY <1>0, <2>1, <3>1 DEF Advances, Stage
    <3>2. CASE pc[c] = "guards" /\ pc'[c] = "guards"
      BY <1>0, <2>1, <3>2 DEF Advances, Stage
    <3>3. CASE pc[c] \in {"resolve", "backoff"} /\ pc'[c] = "handler"
      <4>1. Stage(c) \in {10, 2} /\ Stage(c)' = 8
        BY <3>3 DEF Stage
      <4>2. attempt'[c] = attempt[c] + 1
        BY <2>1, <3>3 DEF Advances
      <4>3. QED
        BY <4>1, <4>2
    <3>4. CASE pc[c] = "guards" /\ pc'[c] \in {"resolve", "fail"}
      <4>1. Stage(c) \in Nat /\ Stage(c) > 10 /\ Stage(c)' \in {10, 3}
        BY <1>0, <3>4 DEF Stage
      <4>2. attempt'[c] = attempt[c]
        BY <2>1, <3>4 DEF Advances
      <4>3. QED
        BY <4>1, <4>2
    <3>5. CASE /\ <<pc[c], pc'[c]>> \in
                    {<<"handler", "complete">>, <<"handler", "rollback">>,
                     <<"complete", "append">>, <<"append", "commit">>,
                     <<"commit", "committed">>, <<"rollback", "committed">>,
                     <<"fail", "backoff">>}
               /\ attempt'[c] = attempt[c]
      BY <3>5 DEF Stage
    <3>6. CASE /\ pc[c] \in PCs \ (Settled \cup {"ready", "guards", "fail",
                                               "backoff"})
               /\ pc'[c] = "fail" /\ attempt'[c] = attempt[c]
      BY <3>6 DEF Stage, PCs, Settled
    <3>7. pc[c] \in PCs
      BY DEF TypeOK
    <3>8. QED
      BY <2>1, <3>1, <3>2, <3>3, <3>4, <3>5, <3>6, <3>7 DEF Advances
  <2>3. QED
    BY <1>0, <2>1, <2>2
<1>3. QED
  BY <1>1, <1>2

LEMMA StepNearer ==
  ASSUME TypeOK, AdmissionInv, AdmissionInv', TypeOK', [Next]_vars,
         NEW d \in Calls
  PROVE  Distance(d)' <= Distance(d)
<1>0. Distance(d) \in Nat
  BY DistanceType
<1>1. ASSUME NEW c \in Calls, Moves(c)
      PROVE  Distance(d)' <= Distance(d)
  <2>1. CASE c = d
    BY <1>1, <2>1, MovesAdvance, AdvancesNearer
  <2>2. CASE c # d
    BY <1>0, <1>1, <2>2, OwnPlace, SameDistance
  <2>3. QED
    BY <2>1, <2>2
<1>2. ASSUME NEW i \in Intents, LeaseExpires(i)
      PROVE  Distance(d)' <= Distance(d)
  BY <1>0, <1>2, SameDistance DEF LeaseExpires, callVars
<1>3. ASSUME NEW r \in LeaseOwners, Crash(r)
      PROVE  Distance(d)' <= Distance(d)
  <2>1. \/ pc'[d] = "crashed"
        \/ pc'[d] = pc[d]
    BY <1>3 DEF Crash
  <2>2. pc'[d] = "crashed" => Distance(d)' = 0
    BY DEF Distance, Settled
  <2>3. pc'[d] = pc[d] => Distance(d)' = Distance(d)
    BY <1>3, SameDistance DEF Crash
  <2>4. QED
    BY <1>0, <2>1, <2>2, <2>3
<1>4. CASE UNCHANGED vars
  BY <1>0, <1>4, SameDistance DEF vars, callVars
<1>5. QED
  BY <1>1, <1>2, <1>3, <1>4 DEF Next, Moves, Quiescent

\* Every own step of a call brings it nearer to its end and no other step takes
\* it farther, so a call takes at most its initial distance of steps of its own:
\* 10 per attempt of its retry budget and one per guard.
THEOREM CallsAreBounded ==
  Spec => CallsComeNearer /\ [](\A c \in Calls : Distance(c) \in Nat)
<1>1. TypeOK /\ AdmissionInv => \A c \in Calls : Distance(c) \in Nat
  BY DistanceType
<1>2. TypeOK /\ AdmissionInv /\ (TypeOK /\ AdmissionInv)' /\ [Next]_vars
        => [\A c \in Calls : Nearer(c)]_vars
  <2> SUFFICES ASSUME TypeOK, AdmissionInv, TypeOK', AdmissionInv',
                      [Next]_vars, NEW c \in Calls
               PROVE  Nearer(c)
    OBVIOUS
  <2>1. Distance(c)' <= Distance(c)
    BY StepNearer
  <2>2. Moves(c) => Distance(c)' < Distance(c)
    BY MovesAdvance, AdvancesNearer
  <2>3. QED
    BY <2>1, <2>2 DEF Nearer
<1>3. QED
  BY <1>1, <1>2, AdmissionInductive, PTL DEF Spec, CallsComeNearer

-----------------------------------------------------------------------------
(* Waiting for a row lock. *)

\* Whoever waits for an entry waits for a call that itself waits for nobody.
THEOREM LockWaitsAreShort == Spec => []LocksDoNotChain
<1>1. IInv => LocksDoNotChain
  <2> SUFFICES ASSUME IInv, NEW c \in LockWaiters PROVE LocksDoNotChain!(c)
    BY DEF LocksDoNotChain
  <2>1. c \in Calls /\ IntentOf(c) \in Intents /\ rowLock[IntentOf(c)] # None
    BY CommandFields DEF LockWaiters, Unlocked
  <2>2. /\ rowLock[IntentOf(c)] \in Calls
        /\ pc[rowLock[IntentOf(c)]] \in {"append", "commit"}
    BY <2>1 DEF IInv, TypeOK, Locks
  <2>3. QED
    BY <2>2 DEF LockWaiters
<1>2. QED
  BY <1>1, Inductive, PTL

=============================================================================
