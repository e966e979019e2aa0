--------------------------- MODULE RunnerInvariant ---------------------------
(***************************************************************************)
(* The inductive invariant behind the safety properties of Runner.         *)
(***************************************************************************)
EXTENDS RunnerRefinement

\* A call in a transaction holds a result of the attempt it claimed, and the
\* kind of the result decides which transaction may complete it.
HeldResults ==
  \A c \in Calls :
    /\ pc[c] \in {"complete", "append", "commit"} =>
         /\ result[c].kind \in CommittedKinds
         /\ result[c].version = lease[c]
    /\ pc[c] = "rollback" =>
         /\ result[c].kind = "rolled-back"
         /\ result[c].version = lease[c]

\* Between complete() and the commit the entry is locked by its active attempt.
Locks ==
  /\ \A c \in Calls : pc[c] \in {"append", "commit"} =>
       rowLock[IntentOf(c)] = c /\ OwnsAttempt(c)
  /\ \A i \in Intents : rowLock[i] # None =>
       /\ IntentOf(rowLock[i]) = i
       /\ pc[rowLock[i]] \in {"append", "commit"}

\* A live call has claimed an attempt of its own Operation snapshot.
Ownership ==
  \A c \in Calls : Live(c) =>
    /\ EntryOf(c).status # "absent"
    /\ EntryOf(c).operation = Command[c].operation
    /\ lease[c] <= EntryOf(c).version

\* No two live calls hold the same lease version of one intent.
UniqueLeases ==
  \A c, d \in Calls :
    Live(c) /\ Live(d) /\ IntentOf(c) = IntentOf(d) /\ lease[c] = lease[d] => c = d

\* The attempt of a call that waits for its retry is over.
Backoffs ==
  \A c \in Calls : pc[c] = "backoff" =>
    EntryOf(c).status # "in-progress" \/ lease[c] < EntryOf(c).version

\* A call whose commit took effect, or that returned, agrees with the log.
Answered ==
  \A c \in Calls : pc[c] \in {"committed", "returned"} =>
    /\ EntryOf(c).status = "completed"
    /\ EntryOf(c).result = result[c]
    /\ EntryOf(c).operation = Command[c].operation

IInv == /\ TypeOK
        /\ HeldResults
        /\ Locks
        /\ Ownership
        /\ UniqueLeases
        /\ Backoffs
        /\ Answered
        /\ OutcomeIsAtomic

-----------------------------------------------------------------------------
\* What AdmissionOnce needs to be inductive; it concerns single calls only.
Admitted(c) ==
  /\ passed[c] = Command[c].guards
  /\ consumed[c] = IF Command[c].rateLimited THEN 1 ELSE 0

AdmissionInv ==
  \A c \in Calls :
    /\ consumed[c] <= 1
    /\ passed[c] <= Command[c].guards
    /\ consumed[c] = 1 => passed[c] = Command[c].guards
    /\ pc[c] \in {"ready", "guards", "resolve"} => attempt[c] = 0
    /\ pc[c] \in {"ready", "guards"} => consumed[c] = 0
    /\ pc[c] = "ready" => passed[c] = 0
    /\ pc[c] = "resolve" => Admitted(c)
    /\ attempt[c] > 0 => Admitted(c) /\ attempt[c] <= Command[c].maxAttempts
    /\ pc[c] = "handler" => attempt[c] > 0
    /\ pc[c] = "backoff" => attempt[c] > 0 /\ attempt[c] < Command[c].maxAttempts

-----------------------------------------------------------------------------
\* How far a call is from its end: at most this many steps of its own.  The
\* attempts left weigh more than the places inside one attempt.
Stage(c) ==
  CASE pc[c] = "ready"     -> 12 + Command[c].guards
    [] pc[c] = "guards"    -> 11 + Command[c].guards - passed[c]
    [] pc[c] = "resolve"   -> 10
    [] pc[c] = "handler"   -> 8
    [] pc[c] = "complete"  -> 7
    [] pc[c] = "append"    -> 6
    [] pc[c] = "commit"    -> 5
    [] pc[c] = "rollback"  -> 5
    [] pc[c] = "committed" -> 4
    [] pc[c] = "fail"      -> 3
    [] pc[c] = "backoff"   -> 2
    [] OTHER               -> 0

Distance(c) ==
  IF pc[c] \in Settled THEN 0
  ELSE 10 * (Command[c].maxAttempts - attempt[c]) + Stage(c)

Moves(c) == ClaimStep(c) \/ HandlerSettles(c) \/ CallStep(c)

\* What a step does to every distance: no step of another call, no expiry and
\* no crash takes a call farther from its end, and each step of its own brings
\* it nearer.  The retry budget, the guards and the stages of one attempt
\* therefore bound how long a call can run (executeHandlerAttempts).
Nearer(c) == /\ Distance(c)' <= Distance(c)
             /\ Moves(c) => Distance(c)' < Distance(c)
CallsComeNearer == [][\A c \in Calls : Nearer(c)]_vars

\* Waiting for another call's open transaction never forms a chain: the call
\* waited for is past every wait, between complete() and its commit
\* (executeHandlerAttempt).
LockWaiters ==
  {c \in Calls : pc[c] \in {"ready", "backoff", "complete", "rollback", "fail"}
                   /\ ~Unlocked(c)}
LocksDoNotChain ==
  \A c \in LockWaiters : /\ rowLock[IntentOf(c)] \in Calls \ LockWaiters
                          /\ pc[rowLock[IntentOf(c)]] \in {"append", "commit"}

=============================================================================
