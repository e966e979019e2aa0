--------------------------- MODULE MCUseCaseFlow ---------------------------
(* Instances of UseCaseFlow for TLC. *)
EXTENDS UseCaseFlow, TLC

CONSTANTS c1, c2, d1, d2, e1, e2, b1

Inv(o, down) == [owner |-> o, cause |-> b1, downstream |-> down]

\* A use case, and its event delivered to two consumers.
MCDelivery == c1 :> Inv(e1, FALSE) @@ d1 :> Inv(e1, TRUE) @@ d2 :> Inv(e2, TRUE)
OneSlot == <<"create-wallet">>

\* Two executions of a use case with two children: they overlap after the lease
\* of the first expired, or the second follows a release or a crash.
MCRetry == c1 :> Inv(e1, FALSE) @@ c2 :> Inv(e2, FALSE)
TwoSlots == <<"create-wallet", "create-invoice">>

=============================================================================
