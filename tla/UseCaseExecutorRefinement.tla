---------------------- MODULE UseCaseExecutorRefinement ----------------------
(* UseCaseExecutor implements InvocationOnce. *)
EXTENDS UseCaseExecutor

OutcomeOf(r) == IF r.state = "completed" THEN r.result ELSE None
AnswerOf(c)  == IF pc[c] = "returned" THEN result[c] ELSE None

Once == INSTANCE InvocationOnce WITH
  Calls        <- Invocations,
  Ids          <- ExecutionIds,
  IdOfCall     <- [c \in Invocations |-> IdOf(c)],
  IntentOfCall <- [c \in Invocations |-> IntentOf(c)],
  Nothing      <- None,
  bound        <- [x \in ExecutionIds |-> record[x].intent],
  working      <- {c \in Invocations : Live(c)},
  stored       <- [x \in ExecutionIds |-> OutcomeOf(record[x])],
  answer       <- [c \in Invocations |-> AnswerOf(c)]

\* However often a use case is entered, reclaimed while it still runs, or told
\* nothing by its store, its invocation is completed once, with one result, of
\* the intent that claimed it first, and nobody is answered anything else: a
\* stale executor never returns what it computed (execute: the completed case of
\* the claim, and the rejected completion).
CompletesOnce == Once!Spec

=============================================================================
