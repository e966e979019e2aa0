----------------------------- MODULE MCRunner -----------------------------
(* Instances of Runner for TLC. *)
EXTENDS RunnerInvariant, TLC

CONSTANTS c1, c2, c3, r1, r2, i1, i2, o1, o2

Cmd(i, o, r, g, rl, timed, max) ==
  [intent |-> i, operation |-> o, runner |-> r, guards |-> g,
   rateLimited |-> rl, timed |-> timed, maxAttempts |-> max]

\* Admission policies, three attempts of a call whose handler may
\* never answer in time, untimed handlers trusted to answer, and an intent used
\* for two different operations.
MCPolicies == c1 :> Cmd(i1, o1, r1, 2, TRUE, TRUE, 3)
           @@ c2 :> Cmd(i1, o2, r2, 1, FALSE, FALSE, 1)
           @@ c3 :> Cmd(i1, o1, r1, 0, FALSE, FALSE, 1)

=============================================================================
