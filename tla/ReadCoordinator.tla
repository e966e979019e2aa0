--------------------------- MODULE ReadCoordinator ---------------------------
(***************************************************************************)
(* RedisReadExecutionCoordinator: the lease of one read key in Redis, the  *)
(* generation counter, and the channel on which releases are published.    *)
(* The scripts are atomic; the lease expires by itself and its expiry is   *)
(* published to nobody.                                                    *)
(*                                                                         *)
(* Time is counted in half leases: a lease lasts two of them, and its      *)
(* owner renews it after one.                                              *)
(***************************************************************************)
EXTENDS Naturals

CONSTANTS
  Flights,       \* runs of DistributedReadFlight for the key, one per process
  Owners,        \* owner ids
  OwnerOf,       \* what ownerIdFactory returned to each run; ids may repeat
  Escaped,       \* ids that cjson.encode writes otherwise than JSON.stringify
  None           \* no lease, nothing cached, no result

ASSUME OwnerAssumption == OwnerOf \in [Flights -> Owners]
ASSUME EscapedAssumption == Escaped \subseteq Owners

VARIABLES
  leaseKey,      \* the value of the lease key and its time to live
  generation,    \* the generation counter, common to all keys
  ended,         \* how the last lease ended
  subscribers,   \* runs subscribed to the release channel
  mailbox        \* subscribers a published release is on its way to

redisVars == <<leaseKey, generation, ended, subscribers, mailbox>>

FullLease == 2

Lease == [owner : Owners, version : Nat \ {0}, ttl : 1 .. FullLease]

ASSUME NoneAssumption == None \notin Lease

RedisTypeOK == /\ leaseKey \in Lease \cup {None}
               /\ generation \in Nat
               /\ ended \in {"never", "released", "expired"}
               /\ subscribers \subseteq Flights
               /\ mailbox \subseteq subscribers

RedisInit == /\ leaseKey = None
             /\ generation = 0
             /\ ended = "never"
             /\ subscribers = {}
             /\ mailbox = {}

-----------------------------------------------------------------------------
\* Mutation: the generation is read but not incremented.
ClaimScriptWithoutIncr(f) ==
  /\ leaseKey = None
  /\ leaseKey' = [owner |-> OwnerOf[f], version |-> generation + 1, ttl |-> FullLease]
  /\ UNCHANGED <<generation, ended, subscribers, mailbox>>

\* claimScript: EXISTS, INCR, PSETEX.
ClaimScript(f) ==
  /\ leaseKey = None
  /\ generation' = generation + 1
  /\ leaseKey' = [owner |-> OwnerOf[f], version |-> generation + 1, ttl |-> FullLease]
  /\ UNCHANGED <<ended, subscribers, mailbox>>

\* The lease is the one that was granted to f with that version.
Granted(f, v) == leaseKey # None /\ leaseKey.owner = OwnerOf[f] /\ leaseKey.version = v

\* One lease has two texts: the claim stores what cjson.encode makes of it, which
\* escapes "/" and DEL, and the other scripts get what JSON.stringify makes of it.
Renewable(f) == OwnerOf[f] \notin Escaped

\* Mutation: the lease is compared by its owner alone.
MatchesOwner(f, v) == Renewable(f) /\ leaseKey # None /\ leaseKey.owner = OwnerOf[f]

\* renewScript and releaseScript compare the whole lease, as text.  Texts of
\* different leases differ, as each can be read back.
Matches(f, v) == Renewable(f) /\ Granted(f, v)

\* Mutation: renewing answers without PEXPIRE.
RenewScriptKeepsTtl(f, v) == Matches(f, v) /\ UNCHANGED redisVars

\* renewScript: PEXPIRE.
RenewScript(f, v) ==
  /\ Matches(f, v)
  /\ leaseKey' = [leaseKey EXCEPT !.ttl = FullLease]
  /\ UNCHANGED <<generation, ended, subscribers, mailbox>>

\* releaseScript: DEL, PUBLISH to whoever is subscribed at that moment.
ReleaseScript(f, v) ==
  /\ Matches(f, v)
  /\ leaseKey' = None
  /\ ended' = "released"
  /\ mailbox' = subscribers
  /\ UNCHANGED <<generation, subscribers>>

Subscribe(f) ==
  /\ subscribers' = subscribers \cup {f}
  /\ UNCHANGED <<leaseKey, generation, ended, mailbox>>

Unsubscribe(f) ==
  /\ subscribers' = subscribers \ {f}
  /\ mailbox' = mailbox \ {f}
  /\ UNCHANGED <<leaseKey, generation, ended>>

\* Half a lease passes.
Elapses ==
  /\ leaseKey # None
  /\ IF leaseKey.ttl > 1
       THEN leaseKey' = [leaseKey EXCEPT !.ttl = @ - 1] /\ UNCHANGED ended
       ELSE leaseKey' = None /\ ended' = "expired"
  /\ UNCHANGED <<generation, subscribers, mailbox>>

=============================================================================
