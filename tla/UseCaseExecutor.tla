--------------------------- MODULE UseCaseExecutor ---------------------------
(***************************************************************************)
(* DefaultUseCaseExecutor: concurrent execute() calls, in several          *)
(* processes, on one UseCaseExecutionStore.  A claim grants a fixed lease  *)
(* that is never renewed and does not bound the use case: a use case may   *)
(* run on while another executor reclaims the same invocation.             *)
(*                                                                         *)
(* Every await is a step boundary.  Store calls may throw before or after  *)
(* they took effect, processes may crash, use cases may never settle.      *)
(***************************************************************************)
EXTENDS Naturals

CONSTANTS
  Invocations,   \* calls of UseCaseExecutor.execute()
  Intents,       \* intents of use cases
  ExecutionIds,  \* identities executionIdFactory.create can return
  ExecutionIdOf, \* the factory: the identity of each intent
  Owners,        \* lease owner ids: one per executor process
  Results,       \* what use cases may answer
  None,          \* no intent, no owner, no result
  Request        \* the intent of each call and the process that runs it

ASSUME ExecutionIdAssumption == ExecutionIdOf \in [Intents -> ExecutionIds]
ASSUME RequestAssumption ==
  Request \in [Invocations -> [intent : Intents, owner : Owners]]
ASSUME NoneAssumption == None \notin Intents \cup Owners \cup Results

VARIABLES
  record,        \* what the store holds for each execution id
  pc,            \* where each call is
  lease,         \* version of the lease the call was granted
  result         \* the result the call holds

vars == <<record, pc, lease, result>>

Record == [state   : {"absent", "in-progress", "completed", "released"},
           intent  : Intents \cup {None},
           version : Nat,
           owner   : Owners \cup {None},
           expired : BOOLEAN,
           result  : Results \cup {None}]

Absent == [state |-> "absent", intent |-> None, version |-> 0,
           owner |-> None, expired |-> FALSE, result |-> None]

Settled == {"returned", "threw", "crashed"}
PCs     == {"ready", "running", "completing", "releasing"} \cup Settled

Live(c)     == pc[c] \notin Settled \cup {"ready"}
IntentOf(c) == Request[c].intent
IdOf(c)     == ExecutionIdOf[IntentOf(c)]
RecordOf(c) == record[IdOf(c)]

TypeOK == /\ record \in [ExecutionIds -> Record]
          /\ pc \in [Invocations -> PCs]
          /\ lease \in [Invocations -> Nat]
          /\ result \in [Invocations -> Results \cup {None}]

Init == /\ record = [x \in ExecutionIds |-> Absent]
        /\ pc = [c \in Invocations |-> "ready"]
        /\ lease = [c \in Invocations |-> 0]
        /\ result = [c \in Invocations |-> None]

-----------------------------------------------------------------------------
(* The store. *)

\* Mutations: an expired claim is not given to anybody else; a valid one is.
ReclaimableReleased(r) == r.state \in {"absent", "released"}
ReclaimableAnyTime(r)  == r.state # "completed"

\* "a released or reclaimable incomplete invocation": the store decides when an
\* unreleased claim is reclaimable, and may do so once its lease has expired.
Reclaimable(r) == \/ r.state \in {"absent", "released"}
                  \/ r.state = "in-progress" /\ r.expired

ClaimType(r, intent) ==
  IF r.state # "absent" /\ r.intent # intent THEN "intent-conflict"
  ELSE IF r.state = "completed" THEN "completed"
  ELSE IF Reclaimable(r) THEN "claimed"
  ELSE "already-in-progress"

\* Mutation: the lease generation restarts with every claim.
ClaimedFirst(r, intent, owner) ==
  [state |-> "in-progress", intent |-> intent, version |-> 1, owner |-> owner,
   expired |-> FALSE, result |-> None]

Claimed(r, intent, owner) ==
  [state |-> "in-progress", intent |-> intent, version |-> r.version + 1,
   owner |-> owner, expired |-> FALSE, result |-> None]

\* complete and release accept the exact lease of the claim only.
SameLease(c) ==
  /\ RecordOf(c).state = "in-progress"
  /\ RecordOf(c).owner = Request[c].owner
  /\ RecordOf(c).version = lease[c]

Completed(r, res) == [r EXCEPT !.state = "completed", !.owner = None,
                               !.expired = FALSE, !.result = res]

Released(r) == [r EXCEPT !.state = "released", !.owner = None, !.expired = FALSE]

Write(c, r) == record' = [record EXCEPT ![IdOf(c)] = r]
Goto(c, label) == pc' = [pc EXCEPT ![c] = label]

-----------------------------------------------------------------------------
(* Claiming. *)

ClaimGranted(c) ==
  /\ pc[c] = "ready"
  /\ ClaimType(RecordOf(c), IntentOf(c)) = "claimed"
  /\ LET r == Claimed(RecordOf(c), IntentOf(c), Request[c].owner) IN
       /\ Write(c, r)
       /\ lease' = [lease EXCEPT ![c] = r.version]
  /\ Goto(c, "running")
  /\ UNCHANGED result

\* The stored result is returned and the use case is not entered.
ClaimFindsResult(c) ==
  /\ pc[c] = "ready"
  /\ ClaimType(RecordOf(c), IntentOf(c)) = "completed"
  /\ result' = [result EXCEPT ![c] = RecordOf(c).result]
  /\ Goto(c, "returned")
  /\ UNCHANGED <<record, lease>>

ClaimRefused(c) ==
  /\ pc[c] = "ready"
  /\ ClaimType(RecordOf(c), IntentOf(c)) \in {"already-in-progress", "intent-conflict"}
  /\ Goto(c, "threw")
  /\ UNCHANGED <<record, lease, result>>

\* store.claim() throws: nothing was claimed, or only the answer was lost.
ClaimFails(c) ==
  /\ pc[c] = "ready"
  /\ \/ UNCHANGED record
     \/ /\ ClaimType(RecordOf(c), IntentOf(c)) = "claimed"
        /\ Write(c, Claimed(RecordOf(c), IntentOf(c), Request[c].owner))
  /\ Goto(c, "threw")
  /\ UNCHANGED <<lease, result>>

-----------------------------------------------------------------------------
(* The use case, then complete() or release(). *)

UseCaseAnswers(c, res) ==
  /\ pc[c] = "running"
  /\ result' = [result EXCEPT ![c] = res]
  /\ Goto(c, "completing")
  /\ UNCHANGED <<record, lease>>

UseCaseThrows(c) ==
  /\ pc[c] = "running"
  /\ Goto(c, "releasing")
  /\ UNCHANGED <<record, lease, result>>

CompletionAccepted(c) ==
  /\ pc[c] = "completing" /\ SameLease(c)
  /\ Write(c, Completed(RecordOf(c), result[c]))
  /\ Goto(c, "returned")
  /\ UNCHANGED <<lease, result>>

\* Mutation: the answer of complete() is not looked at.
CompletionRejectedIgnored(c) ==
  /\ pc[c] = "completing" /\ ~SameLease(c)
  /\ Goto(c, "returned")
  /\ UNCHANGED <<record, lease, result>>

\* UseCaseExecutionTransitionError: the result is dropped.
CompletionRejected(c) ==
  /\ pc[c] = "completing" /\ ~SameLease(c)
  /\ Goto(c, "threw")
  /\ UNCHANGED <<record, lease, result>>

\* complete() throws, before or after it took effect.  Nothing is released.
CompletionFails(c) ==
  /\ pc[c] = "completing"
  /\ \/ UNCHANGED record
     \/ SameLease(c) /\ Write(c, Completed(RecordOf(c), result[c]))
  /\ Goto(c, "threw")
  /\ UNCHANGED <<lease, result>>

\* Best effort: the answer of release() is not looked at and an error of it is
\* swallowed; the error of the use case is rethrown.
Release(c) ==
  /\ pc[c] = "releasing"
  /\ \/ SameLease(c) /\ Write(c, Released(RecordOf(c)))
     \/ UNCHANGED record
  /\ Goto(c, "threw")
  /\ UNCHANGED <<lease, result>>

-----------------------------------------------------------------------------
(* The environment. *)

LeaseExpires(x) ==
  /\ record[x].state = "in-progress" /\ ~record[x].expired
  /\ record' = [record EXCEPT ![x].expired = TRUE]
  /\ UNCHANGED <<pc, lease, result>>

Crash(o) ==
  LET dying == {c \in Invocations : Request[c].owner = o /\ Live(c)} IN
  /\ dying # {}
  /\ pc' = [c \in Invocations |-> IF c \in dying THEN "crashed" ELSE pc[c]]
  /\ UNCHANGED <<record, lease, result>>

\* Nothing runs any more.
Quiescent == (\A c \in Invocations : pc[c] \in Settled) /\ UNCHANGED vars

-----------------------------------------------------------------------------
ClaimStep(c) == ClaimGranted(c) \/ ClaimFindsResult(c) \/ ClaimRefused(c)
                  \/ ClaimFails(c)

UseCaseSettles(c) == UseCaseThrows(c) \/ \E res \in Results : UseCaseAnswers(c, res)

StoreStep(c) == CompletionAccepted(c) \/ CompletionRejected(c)
                  \/ CompletionFails(c) \/ Release(c)

Next == \/ \E c \in Invocations : ClaimStep(c) \/ UseCaseSettles(c) \/ StoreStep(c)
        \/ \E x \in ExecutionIds : LeaseExpires(x)
        \/ \E o \in Owners : Crash(o)
        \/ Quiescent

Spec == Init /\ [][Next]_vars

\* The store answers and clocks advance; nothing makes a use case settle.
Fairness == /\ \A c \in Invocations : WF_vars(StoreStep(c))
            /\ \A x \in ExecutionIds : WF_vars(LeaseExpires(x))

FairSpec == Spec /\ Fairness

-----------------------------------------------------------------------------
(* Safety. *)

\* A call that returns, returns the durably stored result of its own intent; a
\* stale executor never returns what it computed (complete() at the end of
\* execute, and the completed case of the claim).
ReturnsAreDurable ==
  \A c \in Invocations :
    pc[c] = "returned" => /\ RecordOf(c).state = "completed"
                          /\ RecordOf(c).intent = IntentOf(c)
                          /\ RecordOf(c).result = result[c]

\* However many executors run the use case of one invocation at once, at most
\* one of them can still complete or release it.
OneDurableOwner ==
  \A c, d \in Invocations :
    Live(c) /\ Live(d) /\ IdOf(c) = IdOf(d) /\ SameLease(c) /\ SameLease(d) => c = d

\* What a step may do to a record: a completed one never changes; a claim is
\* replaced only after its lease expired or after its own release; a record is
\* completed or released only by a call that holds its lease, which ends that
\* call; the intent of a record never changes.
RecordStep(x) ==
  LET old == record[x]  new == record'[x] IN
  /\ old.state = "completed" => new = old
  /\ new.version \in {old.version, old.version + 1}
  /\ old.state # "absent" => new.intent = old.intent
  /\ old.state = "in-progress" /\ new.version # old.version => old.expired
  /\ old.state = "in-progress" /\ new.state # "in-progress" =>
       \E c \in Invocations : /\ IdOf(c) = x /\ Live(c) /\ SameLease(c)
                              /\ pc'[c] \in Settled
ClaimsFence == [][\A x \in ExecutionIds : RecordStep(x)]_vars

\* The inductive strengthening: a live call has claimed a lease generation of
\* its own intent, and no two live calls the same generation.
Claimants ==
  \A c \in Invocations : Live(c) =>
    /\ RecordOf(c).state # "absent"
    /\ RecordOf(c).intent = IntentOf(c)
    /\ lease[c] <= RecordOf(c).version
UniqueClaims ==
  \A c, d \in Invocations :
    Live(c) /\ Live(d) /\ IdOf(c) = IdOf(d) /\ lease[c] = lease[d] => c = d
IInv == TypeOK /\ Claimants /\ UniqueClaims /\ ReturnsAreDurable

(* Liveness. *)

\* An invocation that nobody works on any more, because its executor crashed or
\* lost an answer of the store, becomes reclaimable: no claim blocks its intent
\* for ever.
LostInvocationsReclaimable ==
  \A x \in ExecutionIds :
    (\A c \in Invocations : ~(IdOf(c) = x /\ Live(c) /\ SameLease(c)))
      ~> (\/ record[x].state = "completed" \/ Reclaimable(record[x])
          \/ \E c \in Invocations : IdOf(c) = x /\ Live(c) /\ SameLease(c))

=============================================================================
