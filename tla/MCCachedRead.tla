----------------------------- MODULE MCCachedRead -----------------------------
(* Instances of CachedRead for TLC. *)
EXTENDS CachedReadInvariant

CONSTANTS c1, c2, c3

=============================================================================
