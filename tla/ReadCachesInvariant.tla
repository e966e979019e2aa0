------------------------- MODULE ReadCachesInvariant -------------------------
(***************************************************************************)
(* The inductive invariant behind the safety properties of ReadCaches.     *)
(***************************************************************************)
EXTENDS ReadCaches

\* What an age and the time left say together: the source started the life of an
\* entry in Redis, and a promotion, with at least one unit of that life left, the
\* life of an entry in the process.
Lives ==
  /\ \A p \in RedisKeys : redis[p] # None =>
       redis[p].value.age + redis[p].left <= LongestTtl
  /\ hand # None /\ hand.value # None => hand.value.age < LongestTtl
  /\ \A i \in DOMAIN entries :
       /\ entries[i].value.age + entries[i].left < LocalTtl + LongestTtl + skew
       /\ entries[i].left \in (skew - MaxSkew) .. (LocalTtl + skew)
  /\ StalenessIsBounded

\* A read looks for a value until it has one; what goes back to the caches comes
\* from the source.
Stages ==
  hand # None => /\ hand.value # None <=> hand.pc \in {"backfill", "promote"}
                 /\ hand.pc = "backfill" => hand.value.age = 0

SameTenant(k, l) == k.type = l.type /\ k.id = l.id

\* Whatever is kept under a key, or in the hand of a read for it, is of its tenant.
Tenants ==
  /\ \A k \in Keys : redis[RedisKey(k)] # None => SameTenant(redis[RedisKey(k)].value.of, k)
  /\ hand # None /\ hand.value # None => SameTenant(hand.value.of, hand.key)
  /\ \A i \in DOMAIN entries : SameTenant(entries[i].value.of, entries[i].key)
  /\ TenantsApart

IInv == TypeOK /\ Lives /\ Stages /\ Tenants /\ ExpiryFollowsInsertion

=============================================================================
