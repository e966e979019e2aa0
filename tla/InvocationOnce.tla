--------------------------- MODULE InvocationOnce ---------------------------
(***************************************************************************)
(* What executors of use cases promise to their callers, without leases,   *)
(* owners, expiry or releases: an execution id serves the intent that      *)
(* claimed it first; however often its use case is entered, one result at  *)
(* most is stored, by a call that worked for it; once it is stored nobody  *)
(* begins again, and every answer is the stored result.                    *)
(***************************************************************************)
EXTENDS Naturals

CONSTANTS
  Calls,         \* invocations
  Ids,           \* execution ids
  IdOfCall,      \* the execution id of each invocation: [Calls -> Ids]
  IntentOfCall,  \* the intent each invocation carries
  Results,       \* what use cases may answer
  Nothing        \* no intent, no result

VARIABLES
  bound,     \* the intent each execution id serves
  working,   \* calls in their use case, or about to store what it answered
  stored,    \* the result of each execution id
  answer     \* what each call has been answered

vars == <<bound, working, stored, answer>>

Init == /\ bound = [x \in Ids |-> Nothing]
        /\ working = {}
        /\ stored = [x \in Ids |-> Nothing]
        /\ answer = [c \in Calls |-> Nothing]

\* A call may claim and never learn of it.
Claim(c) ==
  /\ c \notin working /\ answer[c] = Nothing
  /\ stored[IdOfCall[c]] = Nothing
  /\ bound[IdOfCall[c]] \in {Nothing, IntentOfCall[c]}
  /\ bound' = [bound EXCEPT ![IdOfCall[c]] = IntentOfCall[c]]
  /\ working' \in {working, working \cup {c}}
  /\ UNCHANGED <<stored, answer>>

\* A call may store its result and never learn of it.
Store(c, res) ==
  /\ c \in working
  /\ stored[IdOfCall[c]] = Nothing /\ bound[IdOfCall[c]] = IntentOfCall[c]
  /\ stored' = [stored EXCEPT ![IdOfCall[c]] = res]
  /\ working' = working \ {c}
  /\ answer' \in {answer, [answer EXCEPT ![c] = res]}
  /\ UNCHANGED bound

\* The stored result answers a call that did not work for it.
Answer(c) ==
  /\ c \notin working /\ answer[c] = Nothing
  /\ stored[IdOfCall[c]] # Nothing /\ bound[IdOfCall[c]] = IntentOfCall[c]
  /\ answer' = [answer EXCEPT ![c] = stored[IdOfCall[c]]]
  /\ UNCHANGED <<bound, working, stored>>

\* Use cases fail, results come too late, processes die.
Abandon(dropped) ==
  /\ dropped # {}
  /\ working' = working \ dropped
  /\ UNCHANGED <<bound, stored, answer>>

Next == \/ \E c \in Calls : \/ Claim(c) \/ Answer(c)
                            \/ \E res \in Results : Store(c, res)
        \/ \E dropped \in SUBSET working : Abandon(dropped)

Spec == Init /\ [][Next]_vars

=============================================================================
