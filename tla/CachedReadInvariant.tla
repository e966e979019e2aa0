-------------------------- MODULE CachedReadInvariant --------------------------
(***************************************************************************)
(* The inductive invariant behind the safety properties of CachedRead.     *)
(***************************************************************************)
EXTENDS CachedRead

\* Where a traversal stands, and that it writes a value it has.
Traversals ==
  \A c \in Calls :
    /\ pc[c] \in {"local", "leaderLocal"} => level[c] \in 1 .. LocalEnd + 1
    /\ pc[c] = "shared" => level[c] \in LocalEnd + 1 .. Levels + 1
    /\ pc[c] \in Promoting \cup {"backfill"} => value[c] \in Versions /\ level[c] <= Levels
    /\ pc[c] = "source" => attempt[c] > 0

\* Nothing is newer than the source, and while a flight writes its result
\* nothing is newer than that.
Ages ==
  /\ \A l \in 1 .. Levels : cache[l] # None => cache[l] <= source
  /\ \A c \in Calls : value[c] # None => value[c] <= source
  /\ \A c \in Calls : pc[c] = "backfill" =>
       /\ \A l \in 1 .. Levels : cache[l] # None => cache[l] <= value[c]
       /\ \A d \in Calls : value[d] # None => value[d] <= value[c]

\* What a call has, it has from a flight that is not itself waiting for one.
Followed ==
  \A c \in Calls :
    /\ pc[c] = "joined" => leader[c] # None
    /\ pc[c] \in {"idle", "local", "promote"} \cup Leading => leader[c] = None
    /\ leader[c] # None => /\ leader[leader[c]] = None
                           /\ pc[leader[c]] \in Leading \cup Ended
    /\ pc[c] = "returned" => value[c] \in Versions /\ value[c] = value[FlightOf(c)]
                               /\ pc[FlightOf(c)] = "returned"
    /\ pc[c] = "threw" => pc[FlightOf(c)] = "threw" /\ attempt[FlightOf(c)] > 0
    /\ outcome[c] \in Ended => pc[c] = outcome[c]

LocalWritable == Writable \cap (1 .. LocalEnd)

\* The key is provided for: its value is found by whoever leads next, or the
\* flight is past the local levels and has yet to write one of them.
Provided ==
  \/ \E c \in Calls : pc[c] \in {"shared", "source"}
  \/ \E c \in Calls, w \in LocalWritable :
       pc[c] \in {"leaderPromote", "backfill"} /\ w <= level[c]
  \/ \E l \in 1 .. LocalEnd :
       cache[l] # None /\ \A c \in Calls : pc[c] = "leaderLocal" => level[c] <= l

\* A key that is not provided for has been paid for by a disruption, or by the
\* first miss.
Ledger ==
  LocalWritable # {} =>
    downstream + (IF Provided THEN 0 ELSE 1) <= 1 + disruptions

IInv == TypeOK /\ FlightRuns /\ Traversals /\ Ages /\ Followed /\ Ledger

-----------------------------------------------------------------------------
\* How many steps the work of a call still takes at most: what is left of the
\* traversal, of the retry budget and of the levels to write.
RemainingAt(place, at, tries) ==
  CASE place = "idle"        -> LocalEnd + 2 * Levels + MaxAttempts + 5
    [] place = "local"       -> LocalEnd + 2 * Levels + MaxAttempts + 5 - at
    [] place = "leaderLocal" -> 2 * Levels + MaxAttempts + 4 - at
    [] place = "shared"      -> 2 * Levels + MaxAttempts + 3 - at
    [] place = "source"      -> Levels + MaxAttempts + 2 - tries
    [] place \in Promoting \cup {"backfill"} -> at + 1
    [] place = "joined"      -> 1
    [] OTHER                 -> 0
Remaining(c) == RemainingAt(pc[c], level[c], attempt[c])

\* What a step does to the work of every call: nothing that others do, neither
\* an eviction, nor a newer version, nor the caller who gives up, gives it more
\* to do, and each step of its own leaves less (executeReadWithRetry,
\* ReadCacheTraversal).
Shrinks(c) == /\ Remaining(c)' <= Remaining(c)
              /\ Starts(c) \/ WorkStep(c) => Remaining(c)' < Remaining(c)
WorkShrinks == [][\A c \in Calls : Shrinks(c)]_vars

\* Who joined a flight waits for work that itself waits for no other flight, and
\* that is still the one in the map, or has ended and left its result (the
\* second look of LocalReadInFlight.run and its finally).
FollowersDoNotChain ==
  \A c \in Calls : pc[c] = "joined" =>
    /\ leader[c] \in Calls \ {c} /\ leader[leader[c]] = None
    /\ flight = leader[c] \/ pc[leader[c]] \in Ended

=============================================================================
