-------------------------- MODULE RunnerRefinement --------------------------
(* Runner implements OperationOnce. *)
EXTENDS Runner

AnswerOf(c) == IF pc[c] = "returned" THEN result[c] ELSE NoResult

Once == INSTANCE OperationOnce WITH
  IntentOfCall   <- [c \in Calls |-> Command[c].intent],
  RolledBackKind <- "rolled-back",
  NoDecision     <- NoResult,
  decided        <- [i \in Intents |-> log[i].result],
  changed        <- effects,
  published      <- outbox,
  answer         <- [c \in Calls |-> AnswerOf(c)]

\* Whatever the Runner, its store, its processes and its clocks do, an intent is
\* decided once, its changes and Outbox records appear with the decision, and
\* answers repeat it.  The step that decides is the commit of the transaction
\* that contains ExecutionLogStore.complete (executeHandlerAttempt,
\* completeRolledBackResult).
DecidesOnce == Once!Spec

=============================================================================
