---------------------------- MODULE OperationOnce ----------------------------
(***************************************************************************)
(* What the write side promises to its callers, without leases, attempts,  *)
(* retries, transactions or crashes: each business intent is decided at    *)
(* most once; a decision makes the domain changes and the events of its    *)
(* result durable in the same instant, or neither for a rolled-back        *)
(* rejection; every answered call is answered with the decision.           *)
(***************************************************************************)
EXTENDS Naturals

CONSTANTS
  Calls,          \* invocations
  Intents,        \* business intents
  IntentOfCall,   \* the intent each invocation carries: [Calls -> Intents]
  CommittedKinds, \* kinds of result that keep their changes and events
  RolledBackKind, \* the kind that keeps neither; not a committed one
  NoDecision      \* an intent not yet decided

Decision == [kind : CommittedKinds \cup {RolledBackKind}, version : Nat]

VARIABLES
  decided,   \* the decision on each intent
  changed,   \* versions of the results whose domain changes are durable
  published, \* versions of the results whose events are durable
  answer     \* what each call has been answered

vars == <<decided, changed, published, answer>>

Init ==
  /\ decided = [i \in Intents |-> NoDecision]
  /\ changed = [i \in Intents |-> {}]
  /\ published = [i \in Intents |-> {}]
  /\ answer = [c \in Calls |-> NoDecision]

\* The durable traces of a decision.
Trace(d) == IF d.kind \in CommittedKinds THEN {d.version} ELSE {}

Decide(i) ==
  LET d == decided'[i] IN
  /\ decided[i] = NoDecision
  /\ d \in Decision
  /\ decided' = [decided EXCEPT ![i] = d]
  /\ changed' = [changed EXCEPT ![i] = Trace(d)]
  /\ published' = [published EXCEPT ![i] = Trace(d)]
  /\ UNCHANGED answer

Answer(c) ==
  /\ answer[c] = NoDecision
  /\ decided[IntentOfCall[c]] # NoDecision
  /\ answer' = [answer EXCEPT ![c] = decided[IntentOfCall[c]]]
  /\ UNCHANGED <<decided, changed, published>>

Next == \/ \E i \in Intents : Decide(i)
        \/ \E c \in Calls : Answer(c)

Spec == Init /\ [][Next]_vars

=============================================================================
