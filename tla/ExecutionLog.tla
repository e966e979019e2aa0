---------------------------- MODULE ExecutionLog ----------------------------
(***************************************************************************)
(* The contract of the ExecutionLogStore port: what its atomic transitions *)
(* claim, complete and fail do to the entry of one execution.  The store   *)
(* itself is an adapter supplied by the application; what is written here  *)
(* is what the port's types and comments promise to the Runner.            *)
(***************************************************************************)
EXTENDS Naturals

CONSTANTS
  Operations,    \* Operation snapshots a Command may carry
  LeaseOwners,   \* lease owner ids: one per Runner process
  None           \* no operation, no owner, no call

ASSUME NoneAssumption == None \notin Operations /\ None \notin LeaseOwners

\* The three domain results an Operation handler can produce.  Only the first
\* two keep the domain effects of the handler and carry events.
CommittedKinds == {"success", "committed-rejection"}
ResultKinds    == CommittedKinds \cup {"rolled-back"}

\* A result is identified by its kind and by the attempt that produced it:
\* two attempts of the same execution may well compute different data.
Result   == [kind : ResultKinds, version : Nat]
NoResult == [kind |-> "none", version |-> 0]

EndedStatuses == {"failed", "timed-out"}
Statuses      == {"absent", "in-progress", "completed"} \cup EndedStatuses

\* The store assigns attempt number, attempt id and lease version together, one
\* of each per claim, so the version of the lease names the attempt.
Entry == [status    : Statuses,
          operation : Operations \cup {None},
          version   : Nat,
          owner     : LeaseOwners \cup {None},
          expired   : BOOLEAN,
          result    : Result \cup {NoResult}]

Absent == [status |-> "absent", operation |-> None, version |-> 0,
           owner |-> None, expired |-> FALSE, result |-> NoResult]

-----------------------------------------------------------------------------
(* claim() *)

\* Mutations of Claimable: leases that never expire, leases that do not exclude.
ClaimableNeverExpiring(e) == e.status \in {"absent"} \cup EndedStatuses
ClaimableUnexpired(e)     == e.status # "completed"

\* A new attempt may start when nobody holds a valid lease and no result exists.
Claimable(e) == \/ e.status \in {"absent"} \cup EndedStatuses
                \/ e.status = "in-progress" /\ e.expired

\* The Intent already belongs to another Operation snapshot.
Conflicts(e, op) == e.status # "absent" /\ e.operation # op

\* Mutation: completed entries are re-executed.
ClaimTypeReexecuting(e, op) ==
  IF Conflicts(e, op) THEN "intent-conflict"
  ELSE IF Claimable(e) \/ e.status = "completed" THEN "claimed"
  ELSE "already-in-progress"

ClaimType(e, op) ==
  IF Conflicts(e, op) THEN "intent-conflict"
  ELSE IF e.status = "completed" THEN "completed"
  ELSE IF Claimable(e) THEN "claimed"
  ELSE "already-in-progress"

Claimed(e, op, owner) ==
  [status |-> "in-progress", operation |-> op, version |-> e.version + 1,
   owner |-> owner, expired |-> FALSE, result |-> NoResult]

(* complete() and fail() *)

\* Mutations of HoldsLease: the version is ignored, the status is ignored.
HoldsLeaseOfOwner(e, owner, version) == e.status = "in-progress" /\ e.owner = owner
HoldsVersion(e, owner, version)      == e.version = version

\* The lease reference of a transition must be the one currently active.  The
\* contract compares owner and version only: an expired lease that nobody has
\* taken over still completes.
HoldsLease(e, owner, version) ==
  /\ e.status = "in-progress"
  /\ e.owner = owner
  /\ e.version = version

Completed(e, r) ==
  [e EXCEPT !.status = "completed", !.owner = None, !.expired = FALSE,
            !.result = r]

Failed(e, status) ==
  [e EXCEPT !.status = status, !.owner = None, !.expired = FALSE]

\* The clock passing expiresAt.
Expired(e) == [e EXCEPT !.expired = TRUE]

=============================================================================
