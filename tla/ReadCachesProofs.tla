--------------------------- MODULE ReadCachesProofs ---------------------------
(* Theorems about ReadCaches, for any tenants and keys, any capacity, times to *)
(* live, jitter and skew of the clock, and any encoder of logical keys.        *)
EXTENDS ReadCachesInvariant, KeyProofs, FiniteSetTheorems

-----------------------------------------------------------------------------
(* Redis keys. *)

\* Two keys of one Redis key are of one tenant.
THEOREM RedisKeyTellsTenant ==
  ASSUME NEW k \in Keys, NEW l \in Keys, RedisKey(k) = RedisKey(l)
  PROVE  SameTenant(k, l)
<1> DEFINE Parts(m) == <<EncodeURIComponent(m.type), EncodeURIComponent(m.id),
                         EncodeURIComponent(LogicalKey(m))>>
<1>1. ASSUME NEW m \in Keys
      PROVE  /\ m.type \in Seq(Chars) /\ m.id \in Seq(Chars)
             /\ Parts(m) \in Seq(Seq(Encoded)) /\ Parts(m) # <<>>
  <2> DEFINE a == EncodeURIComponent(m.type)
             b == EncodeURIComponent(m.id)
             c == EncodeURIComponent(LogicalKey(m))
  <2>1. m.type \in Seq(Chars) /\ m.id \in Seq(Chars) /\ LogicalKey(m) \in Seq(Chars)
    BY KeysAssumption
  <2>2. a \in Seq(Encoded) /\ b \in Seq(Encoded) /\ c \in Seq(Encoded)
    BY <2>1, EncodingType
  <2> HIDE DEF a, b, c
  <2>3. <<a, b, c>> \in Seq(Seq(Encoded)) /\ <<a, b, c>> # <<>>
    BY <2>2
  <2> QED BY <2>1, <2>3 DEF a, b, c
<1>2. JoinedBy(":", Parts(k)) = JoinedBy(":", Parts(l))
  BY DEF RedisKey
<1>3. Parts(k) = Parts(l)
  <2>1. ":" \notin Encoded
    BY SeparatorsApart
  <2> HIDE DEF Parts
  <2> QED BY <1>1, <1>2, <2>1, JoinSeparates
<1>4. /\ EncodeURIComponent(k.type) = EncodeURIComponent(l.type)
      /\ EncodeURIComponent(k.id) = EncodeURIComponent(l.id)
  BY <1>3
<1>5. k.type = l.type /\ k.id = l.id
  BY <1>1, <1>4, EncodingInjective
<1> QED BY <1>5 DEF SameTenant

-----------------------------------------------------------------------------
(* Times to live. *)

LEMMA DivIsRemainderless ==
  ASSUME NEW n \in Int, NEW q \in Nat \ {0}
  PROVE  /\ n \div q \in Int
         /\ q * (n \div q) <= n
         /\ n < q * (n \div q) + q
OBVIOUS

LEMMA ProductsGrow ==
  ASSUME NEW q \in Nat, NEW m \in Int, NEW n \in Int, m <= n
  PROVE  q * m <= q * n
OBVIOUS

LEMMA DivLess ==
  ASSUME NEW n \in Int, NEW q \in Nat \ {0}, NEW m \in Int, n < q * m
  PROVE  n \div q < m
<1> DEFINE d == n \div q
<1>1. d \in Int /\ q * d <= n
  BY DivIsRemainderless
<1> HIDE DEF d
<1>2. ASSUME m <= d PROVE FALSE
  <2>1. q * m <= q * d
    BY <1>1, <1>2, ProductsGrow
  <2>2. q * m \in Int /\ q * d \in Int
    BY <1>1
  <2> QED BY <1>1, <2>1, <2>2
<1> QED BY <1>1, <1>2 DEF d

\* The jitter rounds to at most the whole spread, rounded up.
LEMMA TtlsBounded ==
  /\ LongestTtl \in Nat \ {0}
  /\ Ttls \subseteq 1 .. LongestTtl
<1> DEFINE spread == TtlMs * JitterNum
           c == (spread + JitterDen - 1) \div JitterDen
           double == 2 * Randoms * JitterDen
<1>1. /\ TtlMs \in Nat \ {0} /\ JitterNum \in Nat /\ JitterDen \in Nat \ {0}
      /\ Randoms \in Nat \ {0}
  BY OptionsAssumption
<1>2. spread \in Nat /\ double \in Nat \ {0}
  BY <1>1
<1> HIDE DEF spread
<1>3. c \in Nat /\ spread <= JitterDen * c
  <2>1. c \in Int /\ spread + JitterDen - 1 < JitterDen * c + JitterDen
    <3>1. spread + JitterDen - 1 \in Int
      BY <1>1, <1>2
    <3> QED BY <1>1, <3>1, DivIsRemainderless
  <2>2. JitterDen * c \in Int
    BY <1>1, <2>1
  <2> HIDE DEF c
  <2>3. spread <= JitterDen * c
    BY <1>1, <1>2, <2>1, <2>2
  <2>4. ASSUME c < 0 PROVE FALSE
    <3>1. JitterDen * c <= JitterDen * (-1)
      BY <1>1, <2>1, <2>4, ProductsGrow
    <3> QED BY <1>1, <1>2, <2>2, <2>3, <3>1
  <2> QED BY <2>1, <2>3, <2>4
<1>4. LongestTtl = TtlMs + c
  BY DEF LongestTtl, spread
<1> HIDE DEF c
<1>5. ASSUME NEW r \in 0 .. Randoms - 1 PROVE ResolveTtl(r) \in 1 .. LongestTtl
  <2> DEFINE num == double * TtlMs + 4 * r * TtlMs * JitterNum
                      - 2 * Randoms * TtlMs * JitterNum + Randoms * JitterDen
  <2>1. ResolveTtl(r) = IF num \div double > 1 THEN num \div double ELSE 1
    BY DEF ResolveTtl
  <2>2. num = double * TtlMs + 4 * (r * spread) - 2 * (Randoms * spread) + Randoms * JitterDen
    BY <1>1 DEF spread
  <2> DEFINE a == double * TtlMs
             rs == r * spread
             Rs == Randoms * spread
             half == Randoms * JitterDen
             all == Randoms * (JitterDen * c)
  <2>3. /\ a \in Nat /\ rs \in Nat /\ Rs \in Nat /\ half \in Nat \ {0} /\ all \in Nat
        /\ double = 2 * half
    BY <1>1, <1>2, <1>3
  <2>4. rs <= Rs
    BY <1>1, <1>2, <2>3
  <2>5. Rs <= all
    <3>1. JitterDen * c \in Int /\ Randoms \in Nat
      BY <1>1, <1>3
    <3> QED BY <1>2, <1>3, <3>1, ProductsGrow
  <2>6. double * (TtlMs + c + 1) = a + 2 * all + 2 * half
    BY <1>1, <1>3
  <2>7. num = a + 4 * rs - 2 * Rs + half
    BY <2>2
  <2> HIDE DEF num, a, rs, Rs, half, all, double
  <2>8. num \in Int /\ num < double * (TtlMs + c + 1)
    BY <2>3, <2>4, <2>5, <2>6, <2>7
  <2>9. num \div double < TtlMs + c + 1 /\ num \div double \in Int
    BY <1>1, <1>2, <1>3, <2>8, DivLess, DivIsRemainderless
  <2> QED BY <1>1, <1>3, <1>4, <2>1, <2>9
<1>6. LongestTtl \in Nat \ {0}
  BY <1>1, <1>3, <1>4
<1> QED BY <1>5, <1>6 DEF Ttls

-----------------------------------------------------------------------------
(* The list of entries. *)

EntryHolds(e, s) ==
  /\ e.value.age + e.left < LocalTtl + LongestTtl + s
  /\ e.left \in (s - MaxSkew) .. (LocalTtl + s)
  /\ SameTenant(e.value.of, e.key)

\* What IInv says of the entries, for a clock set back by s; but for the capacity.
ListHolds(es, s) ==
  /\ es \in Seq(LocalEntries)
  /\ \A i, j \in DOMAIN es : SameEntry(es[i].key, es[j].key) => i = j
  /\ \A i \in DOMAIN es : EntryHolds(es[i], s)
  /\ s = 0 => \A i, j \in DOMAIN es : i < j => es[i].left <= es[j].left

\* fs is what remains of es when some elements go and the rest keeps its order.
Remains(fs, es) ==
  \E at \in [DOMAIN fs -> DOMAIN es] :
    /\ \A m, n \in DOMAIN fs : m < n => at[m] < at[n]
    /\ \A n \in DOMAIN fs : fs[n] = es[at[n]]

LEMMA RemainsHold ==
  ASSUME NEW es, NEW s, ListHolds(es, s), NEW fs \in Seq(LocalEntries), Remains(fs, es)
  PROVE  ListHolds(fs, s)
<1>1. PICK at \in [DOMAIN fs -> DOMAIN es] :
        /\ \A m, n \in DOMAIN fs : m < n => at[m] < at[n]
        /\ \A n \in DOMAIN fs : fs[n] = es[at[n]]
  BY DEF Remains
<1>2. /\ \A i, j \in DOMAIN es : SameEntry(es[i].key, es[j].key) => i = j
      /\ \A i \in DOMAIN es : EntryHolds(es[i], s)
      /\ s = 0 => \A i, j \in DOMAIN es : i < j => es[i].left <= es[j].left
  BY DEF ListHolds
<1>3. DOMAIN fs = 1 .. Len(fs) /\ Len(fs) \in Nat /\ DOMAIN es \subseteq Int
  BY DEF ListHolds
<1>4. ASSUME NEW i \in DOMAIN fs, NEW j \in DOMAIN fs, SameEntry(fs[i].key, fs[j].key)
      PROVE  i = j
  <2>1. at[i] = at[j]
    BY <1>1, <1>2, <1>4
  <2>2. at[i] \in Int
    BY <1>1, <1>3
  <2>3. ~(at[i] < at[j]) /\ ~(at[j] < at[i])
    BY <2>1, <2>2
  <2>4. ~(i < j) /\ ~(j < i)
    BY <1>1, <2>3
  <2> QED BY <1>3, <2>4
<1>5. \A i \in DOMAIN fs : EntryHolds(fs[i], s)
  BY <1>1, <1>2
<1>6. s = 0 => \A i, j \in DOMAIN fs : i < j => fs[i].left <= fs[j].left
  BY <1>1, <1>2
<1> QED BY <1>4, <1>5, <1>6 DEF ListHolds

LEMMA RemoveAtRemains ==
  ASSUME NEW es \in Seq(LocalEntries), NEW i \in 1 .. Len(es)
  PROVE  /\ RemoveAt(es, i) \in Seq(LocalEntries)
         /\ Len(RemoveAt(es, i)) = Len(es) - 1
         /\ Remains(RemoveAt(es, i), es)
         /\ \A n \in DOMAIN RemoveAt(es, i) :
              \E m \in DOMAIN es : m # i /\ RemoveAt(es, i)[n] = es[m]
<1> DEFINE fs == RemoveAt(es, i)
           at == [n \in DOMAIN fs |-> IF n < i THEN n ELSE n + 1]
<1>1. Len(es) \in Nat /\ i \in Nat
  OBVIOUS
<1>2. /\ fs \in Seq(LocalEntries) /\ Len(fs) = Len(es) - 1
      /\ \A n \in 1 .. Len(es) - 1 : fs[n] = IF n < i THEN es[n] ELSE es[n + 1]
  <2> DEFINE a == SubSeq(es, 1, i - 1)
             b == SubSeq(es, i + 1, Len(es))
  <2>1. /\ a \in Seq(LocalEntries) /\ Len(a) = i - 1
        /\ \A n \in 1 .. i - 1 : a[n] = es[n]
    BY <1>1, SubSeqProperties
  <2>2. /\ b \in Seq(LocalEntries) /\ Len(b) = Len(es) - i
        /\ \A n \in 1 .. Len(es) - i : b[n] = es[i + n]
    BY <1>1, SubSeqProperties
  <2>3. fs = a \o b
    BY DEF RemoveAt
  <2> HIDE DEF a, b, fs
  <2>4. /\ a \o b \in Seq(LocalEntries) /\ Len(a \o b) = Len(a) + Len(b)
        /\ \A n \in 1 .. Len(a) + Len(b) : (a \o b)[n] = IF n <= Len(a) THEN a[n]
                                                             ELSE b[n - Len(a)]
    BY <2>1, <2>2, ConcatProperties
  <2>5. ASSUME NEW n \in 1 .. Len(es) - 1 PROVE fs[n] = IF n < i THEN es[n] ELSE es[n + 1]
    <3>1. n \in 1 .. Len(a) + Len(b)
      BY <1>1, <2>1, <2>2
    <3>2. CASE n < i
      BY <1>1, <2>1, <2>3, <2>4, <3>1, <3>2
    <3>3. CASE ~(n < i)
      <4> DEFINE m == n - (i - 1)
      <4>1. m \in 1 .. Len(es) - i /\ i + m = n + 1 /\ ~(n <= Len(a))
        BY <1>1, <2>1, <3>3
      <4>2. (a \o b)[n] = b[m]
        BY <2>1, <2>4, <3>1, <4>1
      <4> HIDE DEF m
      <4>3. b[m] = es[n + 1]
        BY <2>2, <4>1
      <4> QED BY <2>3, <3>3, <4>2, <4>3
    <3> QED BY <3>2, <3>3
  <2>6. Len(fs) = Len(es) - 1
    BY <1>1, <2>1, <2>2, <2>3, <2>4
  <2> QED BY <2>3, <2>4, <2>5, <2>6
<1> HIDE DEF fs
<1>3. DOMAIN fs = 1 .. Len(es) - 1 /\ DOMAIN es = 1 .. Len(es)
  BY <1>1, <1>2
<1>4. at \in [DOMAIN fs -> DOMAIN es]
  BY <1>1, <1>3
<1>5. \A m, n \in DOMAIN fs : m < n => at[m] < at[n]
  BY <1>1, <1>3
<1>6. \A n \in DOMAIN fs : at[n] # i /\ fs[n] = es[at[n]]
  BY <1>1, <1>2, <1>3
<1> HIDE DEF at
<1>7. Remains(fs, es)
  BY <1>4, <1>5, <1>6 DEF Remains
<1>8. \A n \in DOMAIN fs : \E m \in DOMAIN es : m # i /\ fs[n] = es[m]
  BY <1>4, <1>6
<1> QED BY <1>2, <1>7, <1>8 DEF fs

LEMMA AllRemains ==
  ASSUME NEW es \in Seq(LocalEntries)
  PROVE  Remains(es, es)
<1> DEFINE at == [n \in DOMAIN es |-> n]
<1>1. /\ at \in [DOMAIN es -> DOMAIN es]
      /\ \A m, n \in DOMAIN es : m < n => at[m] < at[n]
      /\ \A n \in DOMAIN es : es[n] = es[at[n]]
  OBVIOUS
<1> HIDE DEF at
<1> QED BY <1>1 DEF Remains

\* Map.delete leaves no entry of the key.
LEMMA WithoutHolds ==
  ASSUME ListHolds(entries, skew), NEW k \in Keys
  PROVE  /\ ListHolds(Without(k), skew) /\ Len(Without(k)) <= Len(entries)
         /\ \A n \in DOMAIN Without(k) : ~SameEntry(Without(k)[n].key, k)
<1>1. entries \in Seq(LocalEntries) /\ DOMAIN entries = 1 .. Len(entries) /\ Len(entries) \in Nat
  BY DEF ListHolds
<1>2. CASE \E i \in DOMAIN entries : SameEntry(entries[i].key, k)
  <2> DEFINE i == CHOOSE j \in DOMAIN entries : SameEntry(entries[j].key, k)
  <2>1. i \in DOMAIN entries /\ SameEntry(entries[i].key, k)
    BY <1>2
  <2>2. Without(k) = RemoveAt(entries, i)
    BY <1>2 DEF Without
  <2> HIDE DEF i
  <2>3. /\ Without(k) \in Seq(LocalEntries)
        /\ Len(Without(k)) = Len(entries) - 1
        /\ Remains(Without(k), entries)
        /\ \A n \in DOMAIN Without(k) :
             \E m \in DOMAIN entries : m # i /\ Without(k)[n] = entries[m]
    <3> DEFINE es == entries
    <3>1. es \in Seq(LocalEntries) /\ i \in 1 .. Len(es)
      BY <1>1, <2>1
    <3> HIDE DEF es
    <3>2. /\ RemoveAt(es, i) \in Seq(LocalEntries)
          /\ Len(RemoveAt(es, i)) = Len(es) - 1
          /\ Remains(RemoveAt(es, i), es)
          /\ \A n \in DOMAIN RemoveAt(es, i) :
               \E m \in DOMAIN es : m # i /\ RemoveAt(es, i)[n] = es[m]
      BY <3>1, RemoveAtRemains
    <3> QED BY <2>2, <3>2 DEF es
  <2>4. ASSUME NEW n \in DOMAIN Without(k), SameEntry(Without(k)[n].key, k) PROVE FALSE
    <3>1. PICK m \in DOMAIN entries : m # i /\ Without(k)[n] = entries[m]
      BY <2>3
    <3>2. SameEntry(entries[m].key, entries[i].key)
      BY <2>1, <2>4, <3>1 DEF SameEntry
    <3> QED BY <2>1, <3>1, <3>2 DEF ListHolds
  <2>5. ListHolds(Without(k), skew)
    BY <2>3, RemainsHold
  <2> QED BY <1>1, <2>3, <2>4, <2>5
<1>3. CASE ~\E i \in DOMAIN entries : SameEntry(entries[i].key, k)
  <2>1. Without(k) = entries
    BY <1>3 DEF Without
  <2> QED BY <1>1, <1>3, <2>1
<1> QED BY <1>2, <1>3

\* An entry written goes to the end, where it expires last.
LEMMA WrittenHolds ==
  ASSUME ListHolds(entries, skew), Len(entries) <= Capacity, skew \in 0 .. MaxSkew,
         NEW k \in Keys, NEW v \in Values, v.age < LongestTtl, SameTenant(v.of, k)
  PROVE  ListHolds(Written(k, v), skew) /\ Len(Written(k, v)) <= Capacity
<1> DEFINE old   == Without(k)
           new   == [key |-> k, value |-> v, left |-> LocalTtl]
           grown == Append(old, new)
<1>1. /\ ListHolds(old, skew) /\ Len(old) <= Len(entries)
      /\ \A n \in DOMAIN old : ~SameEntry(old[n].key, k)
  BY WithoutHolds
<1>2. /\ LocalTtl \in Nat \ {0} /\ LongestTtl \in Nat \ {0} /\ MaxSkew \in Nat
      /\ Capacity \in Nat \ {0} /\ Len(entries) \in Nat
  BY OptionsAssumption, BoundAssumption, TtlsBounded DEF ListHolds
<1>3. new \in LocalEntries /\ EntryHolds(new, skew) /\ new.key = k /\ new.left = LocalTtl
  BY <1>2 DEF LocalEntries, EntryHolds, Values
<1> HIDE DEF old, new
<1>4. /\ old \in Seq(LocalEntries) /\ DOMAIN old = 1 .. Len(old) /\ Len(old) \in Nat
  BY <1>1 DEF ListHolds
<1>5. /\ grown \in Seq(LocalEntries) /\ Len(grown) = Len(old) + 1
      /\ \A n \in 1 .. Len(old) : grown[n] = old[n]
      /\ grown[Len(old) + 1] = new
  BY <1>3, <1>4, AppendProperties
<1> HIDE DEF grown
<1>6. DOMAIN grown = 1 .. Len(old) + 1
  BY <1>4, <1>5
<1>7. ListHolds(grown, skew)
  <2>1. ASSUME NEW i \in DOMAIN grown, NEW j \in DOMAIN grown, SameEntry(grown[i].key, grown[j].key)
        PROVE  i = j
    <3>1. CASE i \in 1 .. Len(old) /\ j \in 1 .. Len(old)
      BY <1>1, <1>4, <1>5, <2>1, <3>1 DEF ListHolds
    <3>2. CASE i = Len(old) + 1 /\ j \in 1 .. Len(old)
      BY <1>1, <1>3, <1>4, <1>5, <2>1, <3>2 DEF SameEntry
    <3>3. CASE i \in 1 .. Len(old) /\ j = Len(old) + 1
      BY <1>1, <1>3, <1>4, <1>5, <2>1, <3>3 DEF SameEntry
    <3>4. CASE i = Len(old) + 1 /\ j = Len(old) + 1
      BY <3>4
    <3> QED BY <1>4, <1>6, <3>1, <3>2, <3>3, <3>4
  <2>2. ASSUME NEW i \in DOMAIN grown PROVE EntryHolds(grown[i], skew)
    <3>1. CASE i \in 1 .. Len(old)
      BY <1>1, <1>4, <1>5, <3>1 DEF ListHolds
    <3>2. CASE i = Len(old) + 1
      BY <1>3, <1>5, <3>2
    <3> QED BY <1>4, <1>6, <3>1, <3>2
  <2>3. ASSUME skew = 0, NEW i \in DOMAIN grown, NEW j \in DOMAIN grown, i < j
        PROVE  grown[i].left <= grown[j].left
    <3>1. i \in 1 .. Len(old)
      BY <1>4, <1>6, <2>3
    <3>2. CASE j \in 1 .. Len(old)
      BY <1>1, <1>4, <1>5, <2>3, <3>1, <3>2 DEF ListHolds
    <3>3. CASE j = Len(old) + 1
      <4>1. EntryHolds(old[i], skew) /\ grown[i] = old[i] /\ grown[j] = new
        BY <1>1, <1>4, <1>5, <3>1, <3>3 DEF ListHolds
      <4>2. old[i].left <= LocalTtl
        BY <1>2, <2>3, <4>1 DEF EntryHolds
      <4> QED BY <1>3, <4>1, <4>2
    <3> QED BY <1>4, <1>6, <3>2, <3>3
  <2> QED BY <1>5, <2>1, <2>2, <2>3 DEF ListHolds
<1>8. Written(k, v) = IF Len(grown) > Capacity THEN Tail(grown) ELSE grown
  BY DEF Written, grown, old, new
<1>9. CASE Len(grown) > Capacity
  <2>1. grown # <<>>
    BY <1>4, <1>5
  <2> DEFINE rest == Tail(grown)
             at   == [n \in DOMAIN rest |-> n + 1]
  <2>2. /\ rest \in Seq(LocalEntries) /\ Len(rest) = Len(grown) - 1
        /\ \A n \in 1 .. Len(rest) : rest[n] = grown[n + 1]
    BY <1>5, <2>1, HeadTailProperties
  <2> HIDE DEF rest
  <2>3. DOMAIN rest = 1 .. Len(old)
    BY <1>4, <1>5, <2>2
  <2>4. /\ at \in [DOMAIN rest -> DOMAIN grown]
        /\ \A m, n \in DOMAIN rest : m < n => at[m] < at[n]
        /\ \A n \in DOMAIN rest : rest[n] = grown[at[n]]
    BY <1>4, <1>5, <1>6, <2>2, <2>3
  <2> HIDE DEF at
  <2>5. Remains(rest, grown)
    BY <2>4 DEF Remains
  <2>6. ListHolds(rest, skew)
    BY <1>7, <2>2, <2>5, RemainsHold
  <2>7. Len(rest) <= Capacity
    BY <1>1, <1>2, <1>4, <1>5, <2>2
  <2> QED BY <1>8, <1>9, <2>6, <2>7 DEF rest
<1>10. CASE ~(Len(grown) > Capacity)
  BY <1>2, <1>4, <1>5, <1>7, <1>8, <1>10
<1> QED BY <1>9, <1>10

Bounds == /\ LocalTtl \in Nat \ {0} /\ LongestTtl \in Nat \ {0} /\ MaxSkew \in Nat
          /\ Capacity \in Nat \ {0}

LEMMA BoundsHold == Bounds
BY OptionsAssumption, BoundAssumption, TtlsBounded DEF Bounds

\* Expired entries go, and the rest keeps its order.
LEMMA SizeHolds ==
  ASSUME ListHolds(entries, skew), Len(entries) <= Capacity, LooksAtSize
  PROVE  ListHolds(entries', skew) /\ Len(entries') <= Capacity
<1> DEFINE live == {i \in DOMAIN entries : IsLive(entries[i])}
           size == Cardinality(live)
<1>1. PICK at \in [1 .. size -> live] :
        /\ \A m, n \in DOMAIN at : m < n => at[m] < at[n]
        /\ entries' = [n \in DOMAIN at |-> entries[at[n]]]
  BY DEF LooksAtSize
<1>2. /\ entries \in Seq(LocalEntries) /\ Len(entries) \in Nat
      /\ DOMAIN entries = 1 .. Len(entries)
  BY DEF ListHolds
<1>3. size \in Nat /\ size <= Len(entries)
  <2>1. IsFiniteSet(1 .. Len(entries)) /\ Cardinality(1 .. Len(entries)) = Len(entries)
    <3> DEFINE n == Len(entries)
    <3>1. n \in Nat /\ n \in Int /\ 1 \in Int
      BY <1>2
    <3> HIDE DEF n
    <3>2. IsFiniteSet(1 .. n) /\ Cardinality(1 .. n) = IF 1 > n THEN 0 ELSE n - 1 + 1
      BY <3>1, FS_Interval
    <3>3. (IF 1 > n THEN 0 ELSE n - 1 + 1) = n
      BY <3>1
    <3> QED BY <3>2, <3>3 DEF n
  <2>2. live \subseteq 1 .. Len(entries)
    BY <1>2
  <2> HIDE DEF live
  <2>3. IsFiniteSet(live) /\ Cardinality(live) <= Cardinality(1 .. Len(entries))
    BY <2>1, <2>2, FS_Subset
  <2>4. Cardinality(live) \in Nat
    BY <2>3, FS_CardinalityType
  <2> QED BY <2>1, <2>3, <2>4
<1>4. live \subseteq DOMAIN entries
  OBVIOUS
<1> HIDE DEF size, live
<1>5. DOMAIN at = 1 .. size /\ \A n \in 1 .. size : at[n] \in DOMAIN entries
  BY <1>1, <1>4
<1>6. /\ entries' \in Seq(LocalEntries) /\ Len(entries') = size
      /\ DOMAIN entries' = 1 .. size
  <2>1. \A n \in 1 .. size : entries[at[n]] \in LocalEntries
    BY <1>2, <1>5
  <2>2. entries' \in [1 .. size -> LocalEntries]
    BY <1>1, <1>5, <2>1
  <2> QED BY <1>3, <2>2
<1>7. Remains(entries', entries)
  <2>1. at \in [DOMAIN entries' -> DOMAIN entries]
    BY <1>1, <1>4, <1>6
  <2>2. \A n \in DOMAIN entries' : entries'[n] = entries[at[n]]
    BY <1>1, <1>5, <1>6
  <2>3. \A m, n \in DOMAIN entries' : m < n => at[m] < at[n]
    BY <1>1, <1>5, <1>6
  <2> QED BY <2>1, <2>2, <2>3 DEF Remains
<1>8. ListHolds(entries', skew)
  BY <1>6, <1>7, RemainsHold
<1>9. Len(entries') <= Capacity
  BY <1>2, <1>3, <1>6, BoundsHold DEF Bounds
<1> QED BY <1>8, <1>9

\* The times of the entries change together, and nothing else.
LEMMA RetimedHolds ==
  ASSUME ListHolds(entries, skew), Len(entries) <= Capacity, NEW s, NEW fs,
         DOMAIN fs = DOMAIN entries,
         \A i \in DOMAIN entries : /\ fs[i] \in LocalEntries /\ EntryHolds(fs[i], s)
                                   /\ fs[i].key = entries[i].key,
         fs = [i \in DOMAIN entries |-> fs[i]],
         s = 0 => \A i, j \in DOMAIN entries :
                    entries[i].left <= entries[j].left => fs[i].left <= fs[j].left,
         s = 0 => skew = 0
  PROVE  ListHolds(fs, s) /\ Len(fs) <= Capacity
<1>1. /\ entries \in Seq(LocalEntries) /\ Len(entries) \in Nat
      /\ DOMAIN entries = 1 .. Len(entries)
  BY DEF ListHolds
<1>2. fs \in Seq(LocalEntries) /\ Len(fs) = Len(entries)
  <2>1. fs \in [1 .. Len(entries) -> LocalEntries]
    BY <1>1
  <2> QED BY <1>1, <2>1
<1>3. \A i, j \in DOMAIN fs : SameEntry(fs[i].key, fs[j].key) => i = j
  BY DEF ListHolds
<1>4. s = 0 => \A i, j \in DOMAIN fs : i < j => fs[i].left <= fs[j].left
  BY DEF ListHolds
<1> QED BY <1>2, <1>3, <1>4 DEF ListHolds

LEMMA AgedHolds ==
  ASSUME ListHolds(entries, skew), Len(entries) <= Capacity, skew \in 0 .. MaxSkew
  PROVE  LET fs == [i \in DOMAIN entries |-> Aged(entries[i])]
         IN  ListHolds(fs, skew) /\ Len(fs) <= Capacity
<1> DEFINE fs == [i \in DOMAIN entries |-> Aged(entries[i])]
<1>1. Bounds
  BY BoundsHold
<1>2. ASSUME NEW e \in LocalEntries, EntryHolds(e, skew)
      PROVE  /\ Aged(e) \in LocalEntries /\ EntryHolds(Aged(e), skew) /\ Aged(e).key = e.key
             /\ Aged(e).left = IF e.left = skew - MaxSkew THEN e.left ELSE e.left - 1
  <2>1. CASE e.left = skew - MaxSkew
    BY <1>2, <2>1 DEF Aged
  <2>2. CASE e.left # skew - MaxSkew
    <3> DEFINE f == [e EXCEPT !.value.age = @ + 1, !.left = @ - 1]
    <3>1. Aged(e) = f
      BY <2>2 DEF Aged
    <3>2. /\ e.key \in Keys /\ e.value \in Values /\ e.value.of \in Keys
          /\ e.value.age \in Nat /\ e.left \in Int
          /\ e.value.age + e.left < LocalTtl + LongestTtl + skew
          /\ e.left \in (skew - MaxSkew) .. (LocalTtl + skew)
      BY <1>1, <1>2 DEF LocalEntries, Values, EntryHolds, Bounds
    <3> DEFINE older == [e.value EXCEPT !.age = @ + 1]
    <3>3. f.key = e.key /\ f.value = older /\ f.left = e.left - 1
      BY <1>2 DEF LocalEntries
    <3>4. e.left - 1 \in (skew - MaxSkew) .. (LocalTtl + skew)
      BY <1>1, <2>2, <3>2 DEF Bounds
    <3>5. e.value.age + 1 \in 0 .. LocalTtl + LongestTtl + MaxSkew
      BY <1>1, <3>2, <3>4 DEF Bounds
    <3>6. f \in LocalEntries
      <4>1. older \in Values
        BY <3>2, <3>5 DEF Values
      <4>2. e.left - 1 \in (-MaxSkew) .. (LocalTtl + MaxSkew)
        BY <1>1, <3>4 DEF Bounds
      <4> DEFINE lefts == (-MaxSkew) .. (LocalTtl + MaxSkew)
      <4>3. e \in [key : Keys, value : Values, left : lefts]
        BY <1>2 DEF LocalEntries
      <4> HIDE DEF lefts
      <4>4. f \in [key : Keys, value : Values, left : lefts]
        BY <4>1, <4>2, <4>3 DEF lefts
      <4> QED BY <4>4 DEF LocalEntries, lefts
    <3>7. EntryHolds(f, skew)
      <4>1. older.age = e.value.age + 1 /\ older.of = e.value.of
        BY <3>2 DEF Values
      <4>2. /\ f.value.age = e.value.age + 1 /\ f.value.of = e.value.of
            /\ f.left = e.left - 1 /\ f.key = e.key
        BY <3>3, <4>1
      <4> HIDE DEF f, older
      <4>3. f.value.age + f.left < LocalTtl + LongestTtl + skew
        BY <1>1, <3>2, <4>2
      <4> QED BY <1>2, <3>4, <4>2, <4>3 DEF EntryHolds
    <3> HIDE DEF f
    <3> QED BY <2>2, <3>1, <3>3, <3>6, <3>7
  <2> QED BY <2>1, <2>2
<1>3. \A i \in DOMAIN entries : /\ entries[i] \in LocalEntries /\ EntryHolds(entries[i], skew)
                                /\ fs[i] = Aged(entries[i]) /\ entries[i].left \in Int
  <2>1. \A i \in DOMAIN entries : entries[i] \in LocalEntries /\ EntryHolds(entries[i], skew)
    BY DEF ListHolds
  <2>2. \A i \in DOMAIN entries : entries[i].left \in Int
    BY <1>1, <2>1 DEF LocalEntries, Bounds
  <2> QED BY <2>1, <2>2
<1>4. /\ DOMAIN fs = DOMAIN entries /\ fs = [i \in DOMAIN entries |-> fs[i]]
  OBVIOUS
<1> HIDE DEF fs
<1>5. \A i \in DOMAIN entries : /\ fs[i] \in LocalEntries /\ EntryHolds(fs[i], skew)
                                /\ fs[i].key = entries[i].key
  BY <1>2, <1>3
<1>6. \A i, j \in DOMAIN entries :
        entries[i].left <= entries[j].left => fs[i].left <= fs[j].left
  <2> SUFFICES ASSUME NEW i \in DOMAIN entries, NEW j \in DOMAIN entries,
                      entries[i].left <= entries[j].left
               PROVE  fs[i].left <= fs[j].left
    OBVIOUS
  <2>1. /\ fs[i].left = IF entries[i].left = skew - MaxSkew THEN entries[i].left
                        ELSE entries[i].left - 1
        /\ fs[j].left = IF entries[j].left = skew - MaxSkew THEN entries[j].left
                        ELSE entries[j].left - 1
    BY <1>2, <1>3
  <2>2. entries[i].left >= skew - MaxSkew
    BY <1>1, <1>3 DEF EntryHolds, Bounds
  <2> QED BY <1>1, <1>3, <2>1, <2>2 DEF Bounds
<1>7. ListHolds(fs, skew) /\ Len(fs) <= Capacity
  BY <1>4, <1>5, <1>6, RetimedHolds
<1> QED BY <1>7 DEF fs

LEMMA SetBackHolds ==
  ASSUME ListHolds(entries, skew), Len(entries) <= Capacity, skew \in 0 .. MaxSkew,
         skew < MaxSkew
  PROVE  LET fs == [i \in DOMAIN entries |-> [entries[i] EXCEPT !.left = @ + 1]]
         IN  ListHolds(fs, skew + 1) /\ Len(fs) <= Capacity
<1> DEFINE fs == [i \in DOMAIN entries |-> [entries[i] EXCEPT !.left = @ + 1]]
<1>1. Bounds
  BY BoundsHold
<1>2. ASSUME NEW e \in LocalEntries, EntryHolds(e, skew)
      PROVE  LET f == [e EXCEPT !.left = @ + 1]
             IN  f \in LocalEntries /\ EntryHolds(f, skew + 1) /\ f.key = e.key
  <2> DEFINE f == [e EXCEPT !.left = @ + 1]
  <2>1. /\ e.key \in Keys /\ e.value \in Values /\ e.value.age \in Nat /\ e.left \in Int
        /\ e.left \in (skew - MaxSkew) .. (LocalTtl + skew)
    BY <1>1, <1>2 DEF LocalEntries, Values, EntryHolds, Bounds
  <2>2. f = [key |-> e.key, value |-> e.value, left |-> e.left + 1]
    BY <1>2 DEF LocalEntries
  <2>3. f \in LocalEntries
    BY <1>1, <2>1, <2>2 DEF LocalEntries, Bounds
  <2>4. EntryHolds(f, skew + 1)
    <3>1. f.value = e.value /\ f.left = e.left + 1 /\ f.key = e.key
      BY <2>2
    <3> HIDE DEF f
    <3>2. e.value.age + f.left < LocalTtl + LongestTtl + (skew + 1)
      BY <1>1, <1>2, <2>1, <3>1 DEF EntryHolds, Bounds
    <3>3. f.left \in ((skew + 1) - MaxSkew) .. (LocalTtl + (skew + 1))
      BY <1>1, <2>1, <3>1 DEF Bounds
    <3> QED BY <1>2, <3>1, <3>2, <3>3 DEF EntryHolds
  <2> QED BY <2>2, <2>3, <2>4
<1>3. \A i \in DOMAIN entries : entries[i] \in LocalEntries /\ EntryHolds(entries[i], skew)
  BY DEF ListHolds
<1>4. \A i \in DOMAIN entries : /\ fs[i] \in LocalEntries /\ EntryHolds(fs[i], skew + 1)
                                /\ fs[i].key = entries[i].key
  BY <1>2, <1>3
<1>5. DOMAIN fs = DOMAIN entries /\ fs = [i \in DOMAIN entries |-> fs[i]] /\ skew + 1 # 0
  BY <1>1 DEF Bounds
<1> HIDE DEF fs
<1>6. ListHolds(fs, skew + 1) /\ Len(fs) <= Capacity
  BY <1>4, <1>5, RetimedHolds
<1> QED BY <1>6 DEF fs

-----------------------------------------------------------------------------
(* The invariant, cache by cache. *)

RedisHolds(r) ==
  /\ r \in [RedisKeys -> RedisEntries \cup {None}]
  /\ \A p \in RedisKeys : r[p] # None => r[p].value.age + r[p].left <= LongestTtl
  /\ \A k \in Keys : r[RedisKey(k)] # None => SameTenant(r[RedisKey(k)].value.of, k)

HandHolds(h) ==
  /\ h \in Reads \cup {None}
  /\ h # None => /\ h.value # None <=> h.pc \in {"backfill", "promote"}
                 /\ h.pc = "backfill" => h.value.age = 0
                 /\ h.value # None => /\ h.value.age < LongestTtl
                                      /\ SameTenant(h.value.of, h.key)

AnswerHolds(a, s) ==
  /\ a \in AllAnswers \cup {None}
  /\ a # None => /\ a.value.age <= (LocalTtl - 1) + (LongestTtl - 1) + s
                 /\ SameTenant(a.value.of, a.key)

ListPart   == ListHolds(entries, skew) /\ Len(entries) <= Capacity
RedisPart  == RedisHolds(redis)
HandPart   == HandHolds(hand)
AnswerPart == AnswerHolds(answer, skew)
SkewPart   == skew \in 0 .. MaxSkew
Parts      == ListPart /\ RedisPart /\ HandPart /\ AnswerPart /\ SkewPart

LEMMA InvariantParts ==
  /\ IInv <=> Parts
  /\ IInv' <=> Parts'
<1> USE DEF Parts, IInv, TypeOK, ListPart, RedisPart, HandPart, AnswerPart, SkewPart,
            Lives, StalenessIsBounded, Stages, Tenants, TenantsApart, ExpiryFollowsInsertion,
            ListHolds, EntryHolds, RedisHolds, HandHolds, AnswerHolds
<1>1. IInv => Parts
  BY DEF SameTenant
<1>2. Parts => IInv
  BY DEF SameTenant
<1>3. IInv' => Parts'
  BY DEF SameTenant
<1>4. Parts' => IInv'
  BY DEF SameTenant
<1> QED BY <1>1, <1>2, <1>3, <1>4

LEMMA RedisWriteHolds ==
  ASSUME RedisHolds(redis), NEW k \in Keys, NEW v \in Values, v.age = 0,
         SameTenant(v.of, k), NEW ttl \in Ttls
  PROVE  RedisHolds([redis EXCEPT ![RedisKey(k)] = [value |-> v, left |-> ttl]])
<1> DEFINE new == [value |-> v, left |-> ttl]
           r   == [redis EXCEPT ![RedisKey(k)] = new]
<1>1. ttl \in 1 .. LongestTtl /\ LongestTtl \in Nat
  BY TtlsBounded
<1>2. /\ new \in RedisEntries /\ new.value.age + new.left <= LongestTtl
      /\ SameTenant(new.value.of, k)
  BY <1>1 DEF RedisEntries
<1> HIDE DEF new
<1>3. RedisKey(k) \in RedisKeys /\ redis \in [RedisKeys -> RedisEntries \cup {None}]
  BY DEF RedisKeys, RedisHolds
<1>4. \A p \in RedisKeys : r[p] = IF p = RedisKey(k) THEN new ELSE redis[p]
  BY <1>3
<1>5. r \in [RedisKeys -> RedisEntries \cup {None}]
  BY <1>2, <1>3
<1> HIDE DEF r
<1>6. \A p \in RedisKeys : r[p] # None => r[p].value.age + r[p].left <= LongestTtl
  BY <1>2, <1>4 DEF RedisHolds
<1>7. ASSUME NEW l \in Keys, r[RedisKey(l)] # None PROVE SameTenant(r[RedisKey(l)].value.of, l)
  <2>1. RedisKey(l) \in RedisKeys
    BY DEF RedisKeys
  <2>2. CASE RedisKey(l) = RedisKey(k)
    <3>1. SameTenant(l, k)
      BY <2>2, RedisKeyTellsTenant
    <3>2. r[RedisKey(l)] = new
      BY <1>4, <2>1, <2>2
    <3> QED BY <1>2, <3>1, <3>2 DEF SameTenant
  <2>3. CASE RedisKey(l) # RedisKey(k)
    <3>1. r[RedisKey(l)] = redis[RedisKey(l)]
      BY <1>4, <2>1, <2>3
    <3> QED BY <1>7, <3>1 DEF RedisHolds
  <2> QED BY <2>2, <2>3
<1>8. RedisHolds(r)
  BY <1>5, <1>6, <1>7 DEF RedisHolds
<1> QED BY <1>8 DEF r, new

LEMMA RedisAgesHolds ==
  ASSUME RedisHolds(redis)
  PROVE  RedisHolds([p \in RedisKeys |->
                       IF redis[p] = None \/ redis[p].left = 1 THEN None
                       ELSE [redis[p] EXCEPT !.value.age = @ + 1, !.left = @ - 1]])
<1> DEFINE Older(e) == [e EXCEPT !.value.age = @ + 1, !.left = @ - 1]
           r == [p \in RedisKeys |-> IF redis[p] = None \/ redis[p].left = 1 THEN None
                                     ELSE Older(redis[p])]
<1>1. Bounds
  BY BoundsHold
<1>2. ASSUME NEW e \in RedisEntries, e.left # 1, e.value.age + e.left <= LongestTtl
      PROVE  /\ Older(e) \in RedisEntries /\ Older(e).value.of = e.value.of
             /\ Older(e).value.age + Older(e).left <= LongestTtl
  <2> DEFINE older == [e.value EXCEPT !.age = @ + 1]
             f     == Older(e)
             lefts == 1 .. LongestTtl
  <2>1. e.value \in Values /\ e.value.age \in Nat /\ e.left \in 1 .. LongestTtl
    BY <1>1 DEF RedisEntries, Values, Bounds
  <2>2. e.value.age + 1 \in 0 .. LocalTtl + LongestTtl + MaxSkew
    BY <1>1, <1>2, <2>1 DEF Bounds
  <2>3. older \in Values /\ older.of = e.value.of /\ older.age = e.value.age + 1
    BY <2>1, <2>2 DEF Values
  <2>4. f.value = older /\ f.left = e.left - 1
    BY DEF RedisEntries
  <2>5. e.left - 1 \in lefts
    BY <1>1, <1>2, <2>1 DEF Bounds
  <2>6. e \in [value : Values, left : lefts]
    BY DEF RedisEntries
  <2> HIDE DEF lefts
  <2>7. f \in [value : Values, left : lefts]
    BY <2>3, <2>5, <2>6
  <2>8. f.value.of = e.value.of /\ f.value.age = e.value.age + 1
    BY <2>3, <2>4
  <2>9. f \in RedisEntries
    BY <2>7 DEF RedisEntries, lefts
  <2> HIDE DEF f, older
  <2>10. f.value.age + f.left <= LongestTtl
    BY <1>1, <1>2, <2>1, <2>4, <2>8 DEF Bounds
  <2> QED BY <2>8, <2>9, <2>10 DEF f
<1> HIDE DEF Older
<1>3. \A p \in RedisKeys : /\ redis[p] \in RedisEntries \cup {None}
                           /\ redis[p] # None => redis[p].value.age + redis[p].left <= LongestTtl
  BY DEF RedisHolds
<1>4. \A p \in RedisKeys : r[p] = None \/ /\ redis[p] # None /\ redis[p].left # 1
                                          /\ r[p] = Older(redis[p])
  OBVIOUS
<1>5. r = [p \in RedisKeys |-> r[p]]
  OBVIOUS
<1> HIDE DEF r
<1>6. ASSUME NEW p \in RedisKeys
      PROVE  \/ r[p] = None
             \/ /\ r[p] \in RedisEntries /\ redis[p] # None
                /\ r[p].value.age + r[p].left <= LongestTtl
                /\ r[p].value.of = redis[p].value.of
  <2>1. CASE r[p] = None
    BY <2>1
  <2>2. CASE redis[p] # None /\ redis[p].left # 1 /\ r[p] = Older(redis[p])
    <3>1. redis[p] \in RedisEntries /\ redis[p].value.age + redis[p].left <= LongestTtl
      BY <1>3, <2>2
    <3> QED BY <1>2, <2>2, <3>1
  <2> QED BY <1>4, <2>1, <2>2
<1>7. r \in [RedisKeys -> RedisEntries \cup {None}]
  BY <1>5, <1>6
<1>8. \A p \in RedisKeys : r[p] # None => r[p].value.age + r[p].left <= LongestTtl
  BY <1>6
<1>9. \A k \in Keys : r[RedisKey(k)] # None => SameTenant(r[RedisKey(k)].value.of, k)
  <2> SUFFICES ASSUME NEW k \in Keys, r[RedisKey(k)] # None
               PROVE  SameTenant(r[RedisKey(k)].value.of, k)
    OBVIOUS
  <2>1. RedisKey(k) \in RedisKeys
    BY DEF RedisKeys
  <2>2. redis[RedisKey(k)] # None /\ r[RedisKey(k)].value.of = redis[RedisKey(k)].value.of
    BY <1>6, <2>1
  <2>3. SameTenant(redis[RedisKey(k)].value.of, k)
    BY <2>2 DEF RedisHolds
  <2> QED BY <2>2, <2>3
<1>10. RedisHolds(r)
  BY <1>7, <1>8, <1>9 DEF RedisHolds
<1> QED BY <1>10 DEF r, Older

\* What is found in Redis has some of its life left.
LEMMA FoundInRedis ==
  ASSUME RedisHolds(redis), NEW k \in Keys, redis[RedisKey(k)] # None
  PROVE  /\ redis[RedisKey(k)].value \in Values
         /\ redis[RedisKey(k)].value.age < LongestTtl
         /\ SameTenant(redis[RedisKey(k)].value.of, k)
<1> DEFINE e == redis[RedisKey(k)]
<1>1. RedisKey(k) \in RedisKeys
  BY DEF RedisKeys
<1>2. e \in RedisEntries /\ e.value.age + e.left <= LongestTtl
  BY <1>1 DEF RedisHolds
<1>3. e.value \in Values /\ e.value.age \in Nat /\ e.left \in 1 .. LongestTtl
  BY <1>2, BoundsHold DEF RedisEntries, Values, Bounds
<1>4. SameTenant(e.value.of, k)
  BY DEF RedisHolds
<1> HIDE DEF e
<1>5. e.value.age < LongestTtl
  BY <1>2, <1>3, BoundsHold DEF Bounds
<1> QED BY <1>3, <1>4, <1>5 DEF e

LEMMA FreshHolds ==
  ASSUME NEW k \in Keys
  PROVE  /\ Fresh(k) \in Values /\ Fresh(k).age = 0 /\ Fresh(k).age < LongestTtl
         /\ SameTenant(Fresh(k).of, k)
BY BoundsHold DEF Fresh, Values, Bounds, SameTenant

LEMMA NoneIsNothing ==
  /\ None \notin Values /\ None \notin RedisEntries /\ None \notin Reads /\ None \notin AllAnswers
BY NoneAssumption

-----------------------------------------------------------------------------
(* One lemma per action. *)

LEMMA InitParts == Init => Parts
<1> SUFFICES ASSUME Init PROVE Parts
  OBVIOUS
<1> USE DEF Init
<1>1. ListPart
  <2>1. entries = <<>> /\ entries \in Seq(LocalEntries) /\ DOMAIN entries = {} /\ Len(entries) = 0
    OBVIOUS
  <2> QED BY <2>1, BoundsHold DEF ListPart, ListHolds, Bounds
<1>2. RedisPart
  BY DEF RedisPart, RedisHolds, RedisKeys
<1>3. HandPart
  BY DEF HandPart, HandHolds
<1>4. AnswerPart
  BY DEF AnswerPart, AnswerHolds
<1>5. SkewPart
  BY BoundsHold DEF SkewPart, Bounds
<1> QED BY <1>1, <1>2, <1>3, <1>4, <1>5 DEF Parts

LEMMA GoesHolds ==
  ASSUME NEW pc \in {"redis", "source", "backfill", "promote"}, NEW k \in Keys,
         NEW v \in Values \cup {None}, Goes(pc, k, v),
         v # None <=> pc \in {"backfill", "promote"},
         pc = "backfill" => v.age = 0,
         v # None => v.age < LongestTtl /\ SameTenant(v.of, k)
  PROVE  HandPart'
<1>1. hand' = [pc |-> pc, key |-> k, value |-> v]
  BY DEF Goes
<1>2. hand' \in Reads
  BY <1>1 DEF Reads
<1> QED BY <1>1, <1>2 DEF HandPart, HandHolds

LEMMA AnswersHolds ==
  ASSUME NEW k \in Keys, NEW v \in Values, Answers(k, v), skew' = skew,
         v.age <= (LocalTtl - 1) + (LongestTtl - 1) + skew, SameTenant(v.of, k)
  PROVE  HandPart' /\ AnswerPart'
<1>1. answer' = [key |-> k, value |-> v] /\ hand' = None
  BY DEF Answers
<1>2. answer' \in AllAnswers
  BY <1>1 DEF AllAnswers
<1> QED BY <1>1, <1>2 DEF HandPart, HandHolds, AnswerPart, AnswerHolds

LEMMA NoAnswerHolds ==
  ASSUME answer' = None
  PROVE  AnswerPart'
BY DEF AnswerPart, AnswerHolds

LEMMA UnchangedParts ==
  /\ UNCHANGED <<entries, skew>> /\ ListPart => ListPart'
  /\ UNCHANGED redis /\ RedisPart => RedisPart'
  /\ UNCHANGED hand /\ HandPart => HandPart'
  /\ UNCHANGED <<answer, skew>> /\ AnswerPart => AnswerPart'
  /\ UNCHANGED skew /\ SkewPart => SkewPart'
BY DEF ListPart, RedisPart, HandPart, AnswerPart, SkewPart

LEMMA LooksUpStep ==
  ASSUME Parts, NEW k \in Keys, LooksUp(k)
  PROVE  Parts'
<1>1. ListPart /\ RedisPart /\ HandPart /\ AnswerPart /\ SkewPart
  BY DEF Parts
<1>2. ListHolds(entries, skew) /\ Len(entries) <= Capacity /\ skew \in 0 .. MaxSkew
  BY <1>1 DEF ListPart, SkewPart
<1>3. UNCHANGED <<redis, skew>>
  BY DEF LooksUp
<1>4. RedisPart' /\ SkewPart'
  BY <1>1, <1>3, UnchangedParts
<1>5. ASSUME NEW i \in DOMAIN entries, SameEntry(entries[i].key, k), IsLive(entries[i]),
             Answers(k, entries[i].value), UNCHANGED entries
      PROVE  Parts'
  <2> DEFINE e == entries[i]
  <2>1. e \in LocalEntries /\ EntryHolds(e, skew)
    BY <1>2 DEF ListHolds
  <2> HIDE DEF e
  <2>2. /\ e.value \in Values /\ e.value.age \in Nat /\ e.left \in Int /\ e.key \in Keys
    BY <2>1, BoundsHold DEF LocalEntries, Values, Bounds
  <2>3. e.value.age <= (LocalTtl - 1) + (LongestTtl - 1) + skew
    <3>1. e.left > 0 /\ e.value.age + e.left < LocalTtl + LongestTtl + skew
      BY <1>5, <2>1 DEF IsLive, EntryHolds, e
    <3> QED BY <1>2, <2>2, <3>1, BoundsHold DEF Bounds
  <2>4. SameTenant(e.value.of, k)
    <3>1. SameEntry(e.key, k)
      BY <1>5 DEF e
    <3> QED BY <2>1, <3>1 DEF EntryHolds, SameEntry, EncodeReadCacheKey, SameTenant
  <2>5. HandPart' /\ AnswerPart'
    <3>1. Answers(k, e.value) /\ skew' = skew
      BY <1>3, <1>5 DEF e
    <3> QED BY <2>2, <2>3, <2>4, <3>1, AnswersHolds
  <2>6. ListPart'
    BY <1>1, <1>3, <1>5, UnchangedParts
  <2> QED BY <1>4, <2>5, <2>6 DEF Parts
<1>6. ASSUME entries' = Without(k), Goes("redis", k, None), answer' = None
      PROVE  Parts'
  <2>1. ListHolds(Without(k), skew) /\ Len(Without(k)) <= Len(entries)
    BY <1>2, WithoutHolds
  <2>2. Len(entries) \in Nat /\ Len(Without(k)) \in Nat
    BY <1>2, <2>1 DEF ListHolds
  <2>3. ListPart'
    BY <1>2, <1>3, <1>6, <2>1, <2>2, BoundsHold DEF ListPart, Bounds
  <2>4. HandPart'
    BY <1>6, GoesHolds
  <2> QED BY <1>4, <1>6, <2>3, <2>4, NoAnswerHolds DEF Parts
<1> QED BY <1>5, <1>6 DEF LooksUp

LEMMA ReadsRedisStep ==
  ASSUME Parts, ReadsRedis
  PROVE  Parts'
<1>1. ListPart /\ RedisPart /\ HandPart /\ AnswerPart /\ SkewPart
  BY DEF Parts
<1>2. hand \in Reads /\ hand.key \in Keys
  BY <1>1 DEF ReadsRedis, At, HandPart, HandHolds, Reads
<1>3. ListPart' /\ RedisPart' /\ SkewPart' /\ AnswerPart'
  BY <1>1, UnchangedParts, NoAnswerHolds DEF ReadsRedis
<1> DEFINE found == redis[RedisKey(hand.key)]
<1>4. ASSUME found # None, Goes("promote", hand.key, found.value)
      PROVE  HandPart'
  <2>1. /\ found.value \in Values /\ found.value.age < LongestTtl
        /\ SameTenant(found.value.of, hand.key)
    BY <1>1, <1>2, <1>4, FoundInRedis DEF RedisPart
  <2> HIDE DEF found
  <2> QED BY <1>2, <1>4, <2>1, NoneIsNothing, GoesHolds
<1>5. ASSUME Goes("source", hand.key, None)
      PROVE  HandPart'
  BY <1>2, <1>5, GoesHolds
<1>6. HandPart'
  BY <1>4, <1>5 DEF ReadsRedis
<1> QED BY <1>3, <1>6 DEF Parts

LEMMA SourceAnswersStep ==
  ASSUME Parts, SourceAnswers
  PROVE  Parts'
<1>1. ListPart /\ RedisPart /\ HandPart /\ AnswerPart /\ SkewPart
  BY DEF Parts
<1>2. hand \in Reads /\ hand.key \in Keys
  BY <1>1 DEF SourceAnswers, At, HandPart, HandHolds, Reads
<1>3. ListPart' /\ RedisPart' /\ SkewPart' /\ AnswerPart'
  BY <1>1, UnchangedParts, NoAnswerHolds DEF SourceAnswers
<1>4. HandPart'
  <2> DEFINE v == Fresh(hand.key)
  <2>1. v \in Values /\ v.age = 0 /\ v.age < LongestTtl /\ SameTenant(v.of, hand.key)
    BY <1>2, FreshHolds
  <2>2. Goes("backfill", hand.key, v)
    BY DEF SourceAnswers
  <2> HIDE DEF v
  <2> QED BY <1>2, <2>1, <2>2, NoneIsNothing, GoesHolds
<1> QED BY <1>3, <1>4 DEF Parts

LEMMA BackfillsStep ==
  ASSUME Parts, Backfills
  PROVE  Parts'
<1>1. ListPart /\ RedisPart /\ HandPart /\ AnswerPart /\ SkewPart
  BY DEF Parts
<1> DEFINE k == hand.key
           v == hand.value
<1>2. /\ k \in Keys /\ v \in Values /\ v.age = 0 /\ v.age < LongestTtl /\ SameTenant(v.of, k)
  BY <1>1 DEF Backfills, At, HandPart, HandHolds, Reads
<1>3. ListPart' /\ SkewPart' /\ AnswerPart'
  BY <1>1, UnchangedParts, NoAnswerHolds DEF Backfills
<1>4. Goes("promote", k, v)
  BY DEF Backfills
<1>5. ASSUME NEW ttl \in Ttls,
             redis' = [redis EXCEPT ![RedisKey(k)] = [value |-> v, left |-> ttl]]
      PROVE  RedisPart'
  <2> HIDE DEF k, v
  <2>1. RedisHolds([redis EXCEPT ![RedisKey(k)] = [value |-> v, left |-> ttl]])
    BY <1>1, <1>2, RedisWriteHolds DEF RedisPart
  <2> QED BY <1>5, <2>1 DEF RedisPart
<1>6. RedisPart'
  <2>1. CASE UNCHANGED redis
    BY <1>1, <2>1, UnchangedParts
  <2>2. CASE \E ttl \in Ttls :
               redis' = [redis EXCEPT ![RedisKey(k)] = [value |-> v, left |-> ttl]]
    BY <1>5, <2>2
  <2> QED BY <2>1, <2>2 DEF Backfills
<1> HIDE DEF k, v
<1>7. HandPart'
  BY <1>2, <1>4, NoneIsNothing, GoesHolds
<1> QED BY <1>3, <1>6, <1>7 DEF Parts

LEMMA PromotesStep ==
  ASSUME Parts, Promotes
  PROVE  Parts'
<1>1. ListPart /\ RedisPart /\ HandPart /\ AnswerPart /\ SkewPart
  BY DEF Parts
<1>2. ListHolds(entries, skew) /\ Len(entries) <= Capacity /\ skew \in 0 .. MaxSkew
  BY <1>1 DEF ListPart, SkewPart
<1> DEFINE k == hand.key
           v == hand.value
<1>3. k \in Keys /\ v \in Values /\ v.age < LongestTtl /\ SameTenant(v.of, k)
  BY <1>1 DEF Promotes, At, HandPart, HandHolds, Reads
<1>4. entries' = Written(k, v) /\ Answers(k, v) /\ UNCHANGED <<redis, skew>>
  BY DEF Promotes
<1> HIDE DEF k, v
<1>5. RedisPart' /\ SkewPart'
  BY <1>1, <1>4, UnchangedParts
<1>6. ListHolds(Written(k, v), skew) /\ Len(Written(k, v)) <= Capacity
  BY <1>2, <1>3, WrittenHolds
<1>7. ListPart'
  BY <1>4, <1>6 DEF ListPart
<1>8. v.age <= (LocalTtl - 1) + (LongestTtl - 1) + skew
  <2>1. v.age \in Nat
    BY <1>3, BoundsHold DEF Values, Bounds
  <2> QED BY <1>2, <1>3, <2>1, BoundsHold DEF Bounds
<1>9. HandPart' /\ AnswerPart'
  BY <1>3, <1>4, <1>8, AnswersHolds
<1> QED BY <1>5, <1>7, <1>9 DEF Parts

LEMMA OtherReadPromotesStep ==
  ASSUME Parts, NEW k \in Keys, OtherReadPromotes(k)
  PROVE  Parts'
<1>1. ListPart /\ RedisPart /\ HandPart /\ AnswerPart /\ SkewPart
  BY DEF Parts
<1>2. ListHolds(entries, skew) /\ Len(entries) <= Capacity /\ skew \in 0 .. MaxSkew
  BY <1>1 DEF ListPart, SkewPart
<1>3. RedisPart' /\ HandPart' /\ SkewPart' /\ AnswerPart'
  BY <1>1, UnchangedParts, NoAnswerHolds DEF OtherReadPromotes
<1> DEFINE v == redis[RedisKey(k)].value
<1>4. v \in Values /\ v.age < LongestTtl /\ SameTenant(v.of, k)
  BY <1>1, FoundInRedis DEF OtherReadPromotes, RedisPart
<1>5. entries' = Written(k, v) /\ skew' = skew
  BY DEF OtherReadPromotes
<1> HIDE DEF v
<1>6. ListHolds(Written(k, v), skew) /\ Len(Written(k, v)) <= Capacity
  BY <1>2, <1>4, WrittenHolds
<1>7. ListPart'
  BY <1>5, <1>6 DEF ListPart
<1> QED BY <1>3, <1>7 DEF Parts

LEMMA OtherProcessWritesStep ==
  ASSUME Parts, NEW k \in Keys, OtherProcessWrites(k)
  PROVE  Parts'
<1>1. ListPart /\ RedisPart /\ HandPart /\ AnswerPart /\ SkewPart
  BY DEF Parts
<1>2. ListPart' /\ HandPart' /\ SkewPart' /\ AnswerPart'
  BY <1>1, UnchangedParts, NoAnswerHolds DEF OtherProcessWrites
<1>3. RedisPart'
  <2> DEFINE v == Fresh(k)
  <2>1. v \in Values /\ v.age = 0 /\ SameTenant(v.of, k)
    BY FreshHolds
  <2>2. PICK ttl \in Ttls : redis' = [redis EXCEPT ![RedisKey(k)] = [value |-> v, left |-> ttl]]
    BY DEF OtherProcessWrites
  <2> HIDE DEF v
  <2>3. RedisHolds([redis EXCEPT ![RedisKey(k)] = [value |-> v, left |-> ttl]])
    BY <1>1, <2>1, RedisWriteHolds DEF RedisPart
  <2> QED BY <2>2, <2>3 DEF RedisPart
<1> QED BY <1>2, <1>3 DEF Parts

LEMMA LooksAtSizeStep ==
  ASSUME Parts, LooksAtSize
  PROVE  Parts'
<1>1. ListPart /\ RedisPart /\ HandPart /\ AnswerPart /\ SkewPart
  BY DEF Parts
<1>2. /\ UNCHANGED <<redis, hand, skew>> /\ answer' = None
  BY DEF LooksAtSize
<1>3. RedisPart' /\ HandPart' /\ SkewPart' /\ AnswerPart'
  BY <1>1, <1>2, UnchangedParts, NoAnswerHolds
<1>4. ListHolds(entries', skew) /\ Len(entries') <= Capacity
  BY <1>1, SizeHolds DEF ListPart
<1>5. ListPart'
  BY <1>2, <1>4 DEF ListPart
<1> QED BY <1>3, <1>5 DEF Parts

LEMMA TickStep ==
  ASSUME Parts, Tick
  PROVE  Parts'
<1>1. ListPart /\ RedisPart /\ HandPart /\ AnswerPart /\ SkewPart
  BY DEF Parts
<1>2. HandPart' /\ SkewPart' /\ AnswerPart'
  BY <1>1, UnchangedParts, NoAnswerHolds DEF Tick
<1>3. ListPart'
  <2> DEFINE fs == [i \in DOMAIN entries |-> Aged(entries[i])]
  <2>1. ListHolds(fs, skew) /\ Len(fs) <= Capacity
    BY <1>1, AgedHolds DEF ListPart, SkewPart
  <2>2. entries' = fs /\ skew' = skew
    BY DEF Tick
  <2> HIDE DEF fs
  <2> QED BY <2>1, <2>2 DEF ListPart
<1>4. RedisPart'
  BY <1>1, RedisAgesHolds DEF RedisPart, Tick
<1> QED BY <1>2, <1>3, <1>4 DEF Parts

LEMMA ClockSetBackStep ==
  ASSUME Parts, ClockSetBack
  PROVE  Parts'
<1>1. ListPart /\ RedisPart /\ HandPart /\ AnswerPart /\ SkewPart
  BY DEF Parts
<1>2. RedisPart' /\ HandPart' /\ AnswerPart'
  BY <1>1, UnchangedParts, NoAnswerHolds DEF ClockSetBack
<1>3. ListPart'
  <2> DEFINE fs == [i \in DOMAIN entries |-> [entries[i] EXCEPT !.left = @ + 1]]
  <2>1. ListHolds(fs, skew + 1) /\ Len(fs) <= Capacity
    BY <1>1, SetBackHolds DEF ListPart, SkewPart, ClockSetBack
  <2>2. entries' = fs /\ skew' = skew + 1
    BY DEF ClockSetBack
  <2> HIDE DEF fs
  <2> QED BY <2>1, <2>2 DEF ListPart
<1>4. SkewPart'
  BY <1>1, BoundsHold DEF SkewPart, ClockSetBack, Bounds
<1> QED BY <1>2, <1>3, <1>4 DEF Parts

LEMMA PartsStep == Parts /\ [Next]_vars => Parts'
<1> SUFFICES ASSUME Parts, [Next]_vars PROVE Parts'
  OBVIOUS
<1>1. ASSUME NEW k \in Keys, LooksUp(k) PROVE Parts'
  BY <1>1, LooksUpStep
<1>2. ASSUME NEW k \in Keys, OtherReadPromotes(k) PROVE Parts'
  BY <1>2, OtherReadPromotesStep
<1>3. ASSUME NEW k \in Keys, OtherProcessWrites(k) PROVE Parts'
  BY <1>3, OtherProcessWritesStep
<1>4. CASE ReadsRedis
  BY <1>4, ReadsRedisStep
<1>5. CASE SourceAnswers
  BY <1>5, SourceAnswersStep
<1>6. CASE Backfills
  BY <1>6, BackfillsStep
<1>7. CASE Promotes
  BY <1>7, PromotesStep
<1>8. CASE LooksAtSize
  BY <1>8, LooksAtSizeStep
<1>9. CASE Tick
  BY <1>9, TickStep
<1>10. CASE ClockSetBack
  BY <1>10, ClockSetBackStep
<1>11. CASE UNCHANGED vars
  BY <1>11, UnchangedParts DEF vars, Parts
<1> QED BY <1>1, <1>2, <1>3, <1>4, <1>5, <1>6, <1>7, <1>8, <1>9, <1>10, <1>11 DEF Next

-----------------------------------------------------------------------------
(* The theorems. *)

\* The inductive invariant: what an age and the time left of an entry say together,
\* whose the values are, and the order of the entries.
THEOREM InvariantHolds == Spec => []IInv
<1>1. Init => IInv
  BY InitParts, InvariantParts
<1>2. IInv /\ [Next]_vars => IInv'
  BY PartsStep, InvariantParts
<1> QED BY <1>1, <1>2, PTL DEF Spec

\* The entries are a Map of at most Capacity entries, and what the caches hold is
\* theirs to hold (InMemoryReadCache, RedisReadCacheWriter).
THEOREM TypeCorrect == Spec => []TypeOK
<1>1. IInv => TypeOK
  BY DEF IInv
<1> QED BY <1>1, InvariantHolds, PTL

\* Promotions chain no lives: an answer is never older than one life in Redis and
\* one in the process, and what the clock was set back.
THEOREM AnswersAreFresh == Spec => []StalenessIsBounded
<1>1. IInv => StalenessIsBounded
  BY DEF IInv, Lives
<1> QED BY <1>1, InvariantHolds, PTL

\* "different tenants cannot share a physical Redis cache key", whatever logical key
\* encoder the application configures, so no tenant is answered a value of another.
THEOREM TenantsStayApart == Spec => []TenantsApart
<1>1. IInv => TenantsApart
  BY DEF IInv, Tenants
<1> QED BY <1>1, InvariantHolds, PTL

\* Evicting the oldest insertion never costs a live entry when an expired one could
\* go, as long as the clock is not set back (InMemoryReadCache.write).
THEOREM OldestExpiresFirst == Spec => []ExpiryFollowsInsertion
<1>1. IInv => ExpiryFollowsInsertion
  BY DEF IInv
<1> QED BY <1>1, InvariantHolds, PTL

=============================================================================
