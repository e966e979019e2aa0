------------------------------ MODULE ReadCaches ------------------------------
(***************************************************************************)
(* The two cache adapters behind one Reader of one process: the bounded    *)
(* InMemoryReadCache in front of the shared Redis cache, with the hits of  *)
(* the second promoted into the first and the answers of the source        *)
(* written to both.  Other processes write the Redis cache too.            *)
(*                                                                         *)
(* Time is relative: an entry carries what is left of its time to live and *)
(* a value its age, which counts the time it spent in caches.  Redis       *)
(* counts down by itself; the in-memory cache compares with Date.now(),    *)
(* which may be set back.                                                  *)
(***************************************************************************)
EXTENDS Integers, FiniteSets, KeyText

CONSTANTS
  Keys,          \* TenantScopedReadCacheKeys: records of type, id and logical key
  LogicalKey(_), \* RedisReadCacheKeyEncoder.encode, which the application may replace
  Capacity,      \* InMemoryReadCacheOptions.capacity
  LocalTtl,      \* InMemoryReadCacheOptions.ttlMs
  TtlMs,         \* RedisReadCacheTtlPolicyOptions.ttlMs
  JitterNum,     \* jitterRatio = JitterNum / JitterDen
  JitterDen,
  Randoms,       \* random() is r / Randoms for an r below Randoms
  MaxSkew,       \* bound: how far the clock is set back
  None           \* no entry, nothing in hand, no answer

\* What the constructor and createRedisReadCacheTtlPolicy accept.
ASSUME OptionsAssumption == /\ Capacity \in Nat \ {0} /\ LocalTtl \in Nat \ {0}
                            /\ TtlMs \in Nat \ {0} /\ Randoms \in Nat \ {0}
                            /\ JitterNum \in Nat /\ JitterDen \in Nat \ {0}
                            /\ JitterNum < JitterDen
ASSUME BoundAssumption == MaxSkew \in Nat

\* Tenant types, tenant ids and encoded logical keys are texts.
ASSUME KeysAssumption == \A k \in Keys : /\ k.type \in Seq(Chars) /\ k.id \in Seq(Chars)
                                         /\ LogicalKey(k) \in Seq(Chars)

VARIABLES
  entries,  \* InMemoryReadCache.entries: a Map, in insertion order
  redis,    \* the Redis keys in use: physical key -> entry
  hand,     \* the read under way: where it is, for which key, the value it holds
  answer,   \* what the last step answered, and for which key
  skew      \* how far the clock has been set back so far

vars == <<entries, redis, hand, answer, skew>>

-----------------------------------------------------------------------------
(* Keys and times to live. *)

\* encodeReadCacheKey: the JSON text of the list of the parts, which reads back.
EncodeReadCacheKey(k) == <<k.type, k.id, k.key>>

SameEntry(k, l) == EncodeReadCacheKey(k) = EncodeReadCacheKey(l)

\* Mutation: the parts are joined as they are.
JoinedKey(k) == JoinedBy(":", <<k.type, k.id, LogicalKey(k)>>)

\* encodeTenantScopedRedisReadCacheKey, but for the words every key begins with.
RedisKey(k) == JoinedBy(":", <<EncodeURIComponent(k.type), EncodeURIComponent(k.id),
                               EncodeURIComponent(LogicalKey(k))>>)

\* resolveTtlMs: max(1, round(ttl + random * 2 * spread - spread)) with
\* spread = ttl * ratio; round(x) is floor(x + 1/2).
ResolveTtl(r) ==
  LET double  == 2 * Randoms * JitterDen
      rounded == (double * TtlMs + 4 * r * TtlMs * JitterNum
                    - 2 * Randoms * TtlMs * JitterNum + Randoms * JitterDen) \div double
  IN IF rounded > 1 THEN rounded ELSE 1

Ttls == {ResolveTtl(r) : r \in 0 .. Randoms - 1}

\* The longest an entry can live in Redis: the time to live and all of the spread.
LongestTtl == TtlMs + (TtlMs * JitterNum + JitterDen - 1) \div JitterDen

-----------------------------------------------------------------------------
(* Entries. *)

RedisKeys == {RedisKey(k) : k \in Keys}
Values    == [of : Keys, age : 0 .. LocalTtl + LongestTtl + MaxSkew]
Fresh(k)  == [of |-> k, age |-> 0]

IsLive(e) == e.left > 0

LocalEntries == [key : Keys, value : Values, left : (-MaxSkew) .. (LocalTtl + MaxSkew)]
RedisEntries == [value : Values, left : 1 .. LongestTtl]
Reads        == [pc : {"redis", "source", "backfill", "promote"}, key : Keys,
                 value : Values \cup {None}]
AllAnswers   == [key : Keys, value : Values]

ASSUME NoneAssumption == None \notin Values \cup RedisEntries \cup Reads \cup AllAnswers

TypeOK ==
  /\ entries \in Seq(LocalEntries) /\ Len(entries) <= Capacity
  /\ \A i, j \in DOMAIN entries : SameEntry(entries[i].key, entries[j].key) => i = j
  /\ redis \in [RedisKeys -> RedisEntries \cup {None}]
  /\ hand \in Reads \cup {None}
  /\ answer \in AllAnswers \cup {None}
  /\ skew \in 0 .. MaxSkew

Init == /\ entries = <<>>
        /\ redis = [p \in RedisKeys |-> None]
        /\ hand = None
        /\ answer = None
        /\ skew = 0

\* Map.delete
Without(k) ==
  IF \E i \in DOMAIN entries : SameEntry(entries[i].key, k)
    THEN RemoveAt(entries, CHOOSE i \in DOMAIN entries : SameEntry(entries[i].key, k))
    ELSE entries

\* Mutation: Map.set alone leaves a key where it was.
WrittenInPlace(k, v) ==
  LET new   == [key |-> k, value |-> v, left |-> LocalTtl]
      grown == IF Without(k) = entries THEN Append(entries, new)
               ELSE [i \in DOMAIN entries |-> IF entries[i].key = k THEN new ELSE entries[i]]
  IN  IF Len(grown) > Capacity THEN Tail(grown) ELSE grown

\* Mutation: the entry that makes the cache overflow is not counted.
WrittenOverCapacity(k, v) ==
  LET grown == Append(Without(k), [key |-> k, value |-> v, left |-> LocalTtl])
  IN  IF Len(grown) > Capacity + 1 THEN Tail(grown) ELSE grown

\* InMemoryReadCache.write: the key goes to the end, the oldest one goes.
Written(k, v) ==
  LET grown == Append(Without(k), [key |-> k, value |-> v, left |-> LocalTtl])
  IN  IF Len(grown) > Capacity THEN Tail(grown) ELSE grown

Goes(pc, k, v) == hand' = [pc |-> pc, key |-> k, value |-> v]
Answers(k, v)  == answer' = [key |-> k, value |-> v] /\ hand' = None

-----------------------------------------------------------------------------
(* A read, level by level. *)

\* Mutation: whatever the Map holds is a hit.
LooksUpBlindly(k) ==
  /\ hand = None
  /\ \/ \E i \in DOMAIN entries : /\ entries[i].key = k
                                  /\ Answers(k, entries[i].value)
     \/ /\ \A i \in DOMAIN entries : entries[i].key # k
        /\ Goes("redis", k, None) /\ answer' = None
  /\ UNCHANGED <<entries, redis, skew>>

\* InMemoryReadCache.read: an expired entry is dropped and missed.
LooksUp(k) ==
  /\ hand = None
  /\ \/ \E i \in DOMAIN entries : /\ SameEntry(entries[i].key, k) /\ IsLive(entries[i])
                                  /\ Answers(k, entries[i].value)
                                  /\ UNCHANGED entries
     \/ /\ \A i \in DOMAIN entries : SameEntry(entries[i].key, k) => ~IsLive(entries[i])
        /\ entries' = Without(k)
        /\ Goes("redis", k, None) /\ answer' = None
  /\ UNCHANGED <<redis, skew>>

At(pc) == hand # None /\ hand.pc = pc

\* RedisReadCacheReader.read: a hit, a miss, or an error (GET throws, or the codec
\* rejects what it finds), which the traversal takes for a miss.
ReadsRedis ==
  /\ At("redis")
  /\ LET found == redis[RedisKey(hand.key)]
     IN  \/ found # None /\ Goes("promote", hand.key, found.value)
         \/ Goes("source", hand.key, None)
  /\ answer' = None
  /\ UNCHANGED <<entries, redis, skew>>

SourceAnswers ==
  /\ At("source")
  /\ Goes("backfill", hand.key, Fresh(hand.key))
  /\ answer' = None
  /\ UNCHANGED <<entries, redis, skew>>

\* RedisReadCacheWriter.write: populate swallows an error (the time to live is no
\* positive integer, the codec or SET throws), with SET done or not.
Backfills ==
  /\ At("backfill")
  /\ \/ \E ttl \in Ttls :
          redis' = [redis EXCEPT ![RedisKey(hand.key)] = [value |-> hand.value, left |-> ttl]]
     \/ UNCHANGED redis
  /\ Goes("promote", hand.key, hand.value)
  /\ answer' = None
  /\ UNCHANGED <<entries, skew>>

\* The nearest level is written last, and the read returns.
Promotes ==
  /\ At("promote")
  /\ entries' = Written(hand.key, hand.value)
  /\ Answers(hand.key, hand.value)
  /\ UNCHANGED <<redis, skew>>

-----------------------------------------------------------------------------
(* The environment. *)

\* Somebody asks for the size, which drops what has expired; the rest keeps its
\* order.
LooksAtSize ==
  /\ LET live == {i \in DOMAIN entries : IsLive(entries[i])}
     IN  \E at \in [1 .. Cardinality(live) -> live] :
           /\ \A m, n \in DOMAIN at : m < n => at[m] < at[n]
           /\ entries' = [n \in DOMAIN at |-> entries[at[n]]]
  /\ answer' = None
  /\ UNCHANGED <<redis, hand, skew>>

\* Another process executed the source and wrote the shared cache.
OtherProcessWrites(k) ==
  /\ \E ttl \in Ttls :
       redis' = [redis EXCEPT ![RedisKey(k)] = [value |-> Fresh(k), left |-> ttl]]
  /\ answer' = None
  /\ UNCHANGED <<entries, hand, skew>>

\* Another read of this process promotes its hit: promotions run outside the
\* flights, so several reads of a key may each write it.
OtherReadPromotes(k) ==
  /\ redis[RedisKey(k)] # None
  /\ entries' = Written(k, redis[RedisKey(k)].value)
  /\ answer' = None
  /\ UNCHANGED <<redis, hand, skew>>

\* The clock cannot bring back an entry that expired longer ago than it can be set
\* back: its times stop.
Aged(e) == IF e.left = skew - MaxSkew THEN e
           ELSE [e EXCEPT !.value.age = @ + 1, !.left = @ - 1]

Tick ==
  /\ entries' = [i \in DOMAIN entries |-> Aged(entries[i])]
  /\ redis' = [p \in RedisKeys |->
                 IF redis[p] = None \/ redis[p].left = 1 THEN None
                 ELSE [redis[p] EXCEPT !.value.age = @ + 1, !.left = @ - 1]]
  /\ answer' = None
  /\ UNCHANGED <<hand, skew>>

\* Date.now() is set back: what the process has cached lives longer, and an
\* expired entry nobody looked at is back.
ClockSetBack ==
  /\ skew < MaxSkew
  /\ skew' = skew + 1
  /\ entries' = [i \in DOMAIN entries |-> [entries[i] EXCEPT !.left = @ + 1]]
  /\ answer' = None
  /\ UNCHANGED <<redis, hand>>

Next == \/ \E k \in Keys : LooksUp(k) \/ OtherReadPromotes(k) \/ OtherProcessWrites(k)
        \/ ReadsRedis \/ SourceAnswers \/ Backfills \/ Promotes
        \/ LooksAtSize \/ Tick \/ ClockSetBack
Spec == Init /\ [][Next]_vars

-----------------------------------------------------------------------------
(* Safety. *)

\* An answer spent no more than one life in each cache, and what the clock was set
\* back: a promotion starts a new life in the process, and nothing starts one in
\* Redis but the source (populate writes the nearer levels only).
StalenessIsBounded ==
  answer # None =>
    answer.value.age <= (LocalTtl - 1) + (LongestTtl - 1) + skew

\* "different tenants cannot share a physical Redis cache key even when a custom
\* logical key encoder is configured" (read-cache-redis/README.md:45): an answer
\* is a value of the tenant that asked.
TenantsApart ==
  answer # None => /\ answer.value.of.type = answer.key.type
                   /\ answer.value.of.id = answer.key.id

\* The cache evicts the oldest insertion without looking whether it has expired:
\* while the clock is not set back, that never costs a live entry when an expired
\* one could go (a rewritten key goes to the end of the Map).
ExpiryFollowsInsertion ==
  skew = 0 => \A i, j \in DOMAIN entries : i < j => entries[i].left <= entries[j].left

=============================================================================
