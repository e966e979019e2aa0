------------------------- MODULE MCUseCaseExecutor -------------------------
(* Instances of UseCaseExecutor for TLC. *)
EXTENDS UseCaseExecutorRefinement, TLC

CONSTANTS c1, c2, c3, c4, e1, e2, u1, u2, x1

\* Three calls on one intent, two of them in one process, and a fourth whose
\* intent is given the same execution id.
MCRequest == c1 :> [intent |-> u1, owner |-> e1] @@ c2 :> [intent |-> u1, owner |-> e1]
          @@ c3 :> [intent |-> u1, owner |-> e2] @@ c4 :> [intent |-> u2, owner |-> e2]

MCExecutionIdOf == u1 :> x1 @@ u2 :> x1

=============================================================================
