--------------------------- MODULE CiMonitorProofs ---------------------------
(***************************************************************************)
(* The three safety properties of CiMonitor, for any options and any CI.   *)
(***************************************************************************)
EXTENDS CiMonitor, SequenceTheorems, TLAPS

\* The rule that decides is the first whose condition holds.
LEMMA FirstThatApplies ==
  ASSUME NEW rules, NEW n \in Nat, DOMAIN rules = 1 .. n,
         NEW r \in 1 .. n, rules[r][1], \A q \in 1 .. r - 1 : ~rules[q][1]
  PROVE  First(rules) = rules[r][2]
<1>1. \A s \in DOMAIN rules :
        rules[s][1] /\ (\A q \in 1 .. s - 1 : ~rules[q][1]) => s = r
  OBVIOUS
<1>2. (CHOOSE s \in DOMAIN rules : rules[s][1] /\ \A q \in 1 .. s - 1 : ~rules[q][1]) = r
  BY <1>1
<1>. QED
  BY <1>2 DEF First

\* A wait ends in a new attempt only if there is one, in a timeout only when it
\* is due, and goes on only when it is not.
LEMMA WaitDecides ==
  /\ First(WaitRules) \in {"new_cipe_detected", "polling_timeout", "no_new_cipe",
                           "waiting_for_cipe"}
  /\ First(WaitRules) = "new_cipe_detected" => IsNewCipe
  /\ First(WaitRules) = "polling_timeout" => TimedOut
  /\ First(WaitRules) = "no_new_cipe" => ~TimedOut /\ WaitTimedOut
  /\ First(WaitRules) = "waiting_for_cipe" => ~TimedOut
<1>. DEFINE w == WaitRules
<1>0. /\ DOMAIN w = 1 .. 4
      /\ w[1][1] <=> IsNewCipe
      /\ w[2][1] <=> TimedOut
      /\ w[3][1] <=> WaitTimedOut
      /\ w[4][1]
  BY DEF WaitRules
<1>1. /\ w[1][2] = "new_cipe_detected" /\ w[2][2] = "polling_timeout"
      /\ w[3][2] = "no_new_cipe" /\ w[4][2] = "waiting_for_cipe"
  BY DEF WaitRules
<1>2. w = WaitRules
  OBVIOUS
<1>. HIDE DEF w
<1>3. ASSUME NEW r \in 1 .. 4, w[r][1], \A q \in 1 .. r - 1 : ~w[q][1]
      PROVE  First(w) = w[r][2]
  BY <1>0, <1>3, FirstThatApplies
<1>4. CASE IsNewCipe
  <2>1. w[1][1] /\ \A q \in 1 .. 1 - 1 : ~w[q][1]
    BY <1>0, <1>4
  <2>2. First(w) = "new_cipe_detected"
    BY <1>1, <1>3, <2>1
  <2>. QED
    BY <1>2, <1>4, <2>2
<1>5. CASE ~IsNewCipe /\ TimedOut
  <2>1. w[2][1] /\ \A q \in 1 .. 2 - 1 : ~w[q][1]
    BY <1>0, <1>5
  <2>2. First(w) = "polling_timeout"
    BY <1>1, <1>3, <2>1
  <2>. QED
    BY <1>2, <1>5, <2>2
<1>6. CASE ~IsNewCipe /\ ~TimedOut /\ WaitTimedOut
  <2>1. w[3][1] /\ \A q \in 1 .. 3 - 1 : ~w[q][1]
    BY <1>0, <1>6
  <2>2. First(w) = "no_new_cipe"
    BY <1>1, <1>3, <2>1
  <2>. QED
    BY <1>2, <1>6, <2>2
<1>7. CASE ~IsNewCipe /\ ~TimedOut /\ ~WaitTimedOut
  <2>1. w[4][1] /\ \A q \in 1 .. 4 - 1 : ~w[q][1]
    BY <1>0, <1>7
  <2>2. First(w) = "waiting_for_cipe"
    BY <1>1, <1>3, <2>1
  <2>. QED
    BY <1>2, <1>7, <2>2
<1>. QED
  BY <1>4, <1>5, <1>6, <1>7

LEMMA FirstTwoKept ==
  ASSUME NEW S, NEW b \in Seq(S), NEW s \in Seq(S), Len(b) >= 2
  PROVE  \E u \in Seq(S) : /\ u = b \o s /\ Len(u) = Len(b) + Len(s)
                           /\ u[1] = b[1] /\ u[2] = b[2]
<1>1. PICK u : u = b \o s
  OBVIOUS
<1>2. /\ u \in Seq(S) /\ Len(u) = Len(b) + Len(s)
      /\ \A k \in 1 .. Len(b) + Len(s) : u[k] = IF k <= Len(b) THEN b[k] ELSE s[k - Len(b)]
  BY <1>1, ConcatProperties
<1>3. Len(b) \in Nat /\ Len(s) \in Nat
  OBVIOUS
<1>4. 1 \in 1 .. Len(b) + Len(s) /\ 2 \in 1 .. Len(b) + Len(s)
  BY <1>3
<1>5. u[1] = b[1] /\ u[2] = b[2]
  BY <1>2, <1>3, <1>4
<1>. QED
  BY <1>1, <1>2, <1>5

\* A poll that finds the timeout or the breaker due stops, whatever it saw, and
\* the timeout goes first.
LEMMA LimitsDecide ==
  ASSUME NEW i, pc = "polling", TimedOut \/ NoProgress(i) >= Breaker
  PROVE  /\ Classify(i) \in {"polling_timeout", "circuit_breaker"}
         /\ TimedOut => Classify(i) = "polling_timeout"
<1>. DEFINE b    == << <<TimedOut, "polling_timeout">>,
                       <<NoProgress(i) >= Breaker, "circuit_breaker">> >>
            s    == CiRules(i)
            t    == FixRules(i)
            list == b \o s \o t
            S    == {b[k] : k \in 1 .. 2} \cup {s[k] : k \in 1 .. 11} \cup {t[k] : k \in 1 .. 9}
<1>1. Classify(i) = First(list)
  BY DEF Classify
<1>2. b \in Seq({b[k] : k \in 1 .. 2}) /\ Len(b) = 2
  OBVIOUS
<1>3. s \in Seq({s[k] : k \in 1 .. 11}) /\ Len(s) = 11
  BY DEF CiRules
<1>4. t \in Seq({t[k] : k \in 1 .. 9}) /\ Len(t) = 9
  <2>. DEFINE c(k) == FixRules(i)[k]
  <2>1. FixRules(i) = <<c(1), c(2), c(3), c(4), c(5), c(6), c(7), c(8), c(9)>>
    BY DEF FixRules
  <2>. HIDE DEF c
  <2>. QED
    BY <2>1
<1>5. /\ b[1][1] <=> TimedOut
      /\ b[2][1] <=> NoProgress(i) >= Breaker
      /\ b[1][2] = "polling_timeout" /\ b[2][2] = "circuit_breaker"
  OBVIOUS
<1>. HIDE DEF b, s, t
<1>6. DOMAIN list = 1 .. 22 /\ list[1] = b[1] /\ list[2] = b[2]
  <2>1. b \in Seq(S) /\ s \in Seq(S) /\ t \in Seq(S)
    BY <1>2, <1>3, <1>4
  <2>. HIDE DEF S
  <2>2. Len(b) >= 2
    BY <1>2
  <2>3. PICK u \in Seq(S) : u = b \o s /\ Len(u) = Len(b) + Len(s) /\ u[1] = b[1] /\ u[2] = b[2]
    BY <2>1, <2>2, FirstTwoKept, Zenon
  <2>4. Len(u) = 13
    BY <1>2, <1>3, <2>3
  <2>5. Len(u) >= 2
    BY <2>4
  <2>6. PICK v \in Seq(S) : v = u \o t /\ Len(v) = Len(u) + Len(t) /\ v[1] = u[1] /\ v[2] = u[2]
    BY <2>1, <2>5, FirstTwoKept, Zenon
  <2>7. DOMAIN v = 1 .. 22
    <3>1. Len(v) = Len(u) + Len(t)
      BY <2>6
    <3>2. Len(v) = 22
      BY <1>4, <2>4, <3>1
    <3>. QED
      BY <3>2
  <2>8. list = v
    <3>1. u = b \o s /\ v = u \o t
      BY <2>3, <2>6
    <3>. QED
      BY <3>1, Zenon
  <2>. QED
    BY <2>3, <2>6, <2>7, <2>8, Zenon
<1>. HIDE DEF list
<1>. DEFINE chosen(r) == list[r][1] /\ \A q \in 1 .. r - 1 : ~list[q][1]
<1>7. PICK r \in 1 .. 2 : chosen(r)
  <2>1. CASE list[1][1]
    <3>1. chosen(1)
      BY <2>1
    <3>. QED
      BY <3>1
  <2>2. CASE ~list[1][1]
    <3>1. \A q \in 1 .. 2 - 1 : ~list[q][1]
      BY <2>2
    <3>2. chosen(2)
      BY <1>5, <1>6, <3>1
    <3>. QED
      BY <3>2
  <2>. QED
    BY <2>1, <2>2
<1>8. First(list) = list[r][2]
  <2>1. r \in 1 .. 22 /\ list[r][1] /\ \A q \in 1 .. r - 1 : ~list[q][1]
    BY <1>7
  <2>. QED
    BY <1>6, <2>1, FirstThatApplies
<1>9. list[1][2] = "polling_timeout" /\ list[2][2] = "circuit_breaker"
  BY <1>5, <1>6
<1>10. /\ First(list) \in {"polling_timeout", "circuit_breaker"}
       /\ TimedOut => First(list) = "polling_timeout"
  <2>1. r = 1 \/ r = 2
    BY <1>7
  <2>2. TimedOut => r # 2
    <3>1. TimedOut => list[1][1]
      BY <1>5, <1>6
    <3>2. r = 2 => ~list[1][1]
      BY <1>7
    <3>. QED
      BY <3>1, <3>2
  <2>. QED
    BY <1>8, <1>9, <2>1, <2>2
<1>. QED
  BY <1>1, <1>10

-----------------------------------------------------------------------------
(* The inductive invariant. *)

Types ==
  /\ budget \in [cycles : Nat, envReruns : Nat, localFixes : Nat, agentTriggered : BOOLEAN]
  /\ tracked \in [url : Nat \cup {None}, sha : Nat \cup {None}]
  /\ attempt \in [url : Nat, sha : Nat] /\ head \in Nat
  /\ stale \in Nat /\ unchanged \in Nat /\ actions \in Nat
  /\ seen \in Nat \cup {None} /\ acted \in Nat \cup {None}

\* An attempt is polled, acted on, or taken for a new one only when it is newer
\* than the one acted on last: commits are never older than what was pushed for.
Newer ==
  /\ attempt.sha <= head
  /\ acted # None => acted <= attempt.url
  /\ acted # None /\ (pc = "polling" \/ (pc = "waiting" /\ IsNewCipe)) => attempt.url > acted
  /\ pc = "done" => seen # None /\ seen <= attempt.url
  /\ ActsOncePerAttempt

\* Until the first action nothing but a change of status resets the breaker, unless
\* the class was not in lower case.
Watched ==
  acted = None =>
    /\ tracked.url = None /\ tracked.sha = None
    /\ InLowerCase(prev) =>
         /\ unchanged <= Breaker
         /\ pc = "polling" => unchanged <= stale /\ unchanged < Breaker

IInv == Types /\ CyclesAreCounted /\ Newer /\ Watched

-----------------------------------------------------------------------------
LEMMA Initially == Init => IInv
<1>. SUFFICES ASSUME Init PROVE IInv
  OBVIOUS
<1>. USE OptionsAssumption, NoneAssumption DEF Init
<1>1. Types
  BY DEF Types
<1>2. CyclesAreCounted
  BY DEF CyclesAreCounted, Triggered
<1>3. Newer
  BY DEF Newer, ActsOncePerAttempt
<1>4. Watched
  BY DEF Watched, InLowerCase
<1>. QED
  BY <1>1, <1>2, <1>3, <1>4 DEF IInv

LEMMA LeastOfTwo ==
  ASSUME NEW m \in Nat, NEW n \in Nat
  PROVE  Least(m, n) \in Nat /\ (Least(m, n) = m \/ Least(m, n) = n)
                             /\ Least(m, n) <= m /\ Least(m, n) <= n
  BY DEF Least

LEMMA ProgressTyped ==
  ASSUME IInv, NEW i
  PROVE  NoProgress(i) \in Nat
<1>1. stale \in Nat /\ Least(stale + 1, StaleCap) \in Nat
  BY OptionsAssumption DEF IInv, Types, Least, StaleCap
<1>. QED
  BY <1>1 DEF NoProgress

LEMMA LooksKeeps ==
  ASSUME IInv, NEW i, Looks(i)
  PROVE  IInv'
<1>. USE OptionsAssumption, NoneAssumption
<1>0. NoProgress(i) \in Nat
  BY ProgressTyped
<1>1. Types'
  <2>1. budget' \in [cycles : Nat, envReruns : Nat, localFixes : Nat, agentTriggered : BOOLEAN]
    BY DEF IInv, Types, Looks
  <2>2. stale' \in Nat
    BY <1>0 DEF Looks
  <2>3. unchanged' \in Nat
    BY DEF IInv, Types, Looks, Least, StaleCap
  <2>4. UNCHANGED <<tracked, attempt, head, acted, actions>> /\ seen' = attempt.url
    BY DEF Looks, worldVars
  <2>. QED
    BY <2>1, <2>2, <2>3, <2>4 DEF IInv, Types
<1>2. CyclesAreCounted'
  BY DEF IInv, Types, CyclesAreCounted, Triggered, Looks
<1>3. pc' = "waiting" <=> code' = "waiting_for_cipe"
  BY DEF Looks, PollCodes
<1>4. pc' = "polling" <=> code' \in PollCodes
  BY DEF Looks, PollCodes
<1>5. pc' = "done" => code' \notin PollCodes /\ code' # "waiting_for_cipe"
  BY DEF Looks, PollCodes
<1>6. IsNewCipe' <=> IsNewCipe
  BY DEF Looks, IsNewCipe, worldVars
<1>7. Newer'
  <2>1. CASE pc = "polling"
    BY <2>1 DEF IInv, Types, Newer, ActsOncePerAttempt, Looks, worldVars
  <2>2. CASE pc = "waiting"
    <3>1. code' = First(WaitRules)
      BY <2>2 DEF Looks, Classify
    <3>2. /\ code' \in {"new_cipe_detected", "polling_timeout", "no_new_cipe",
                        "waiting_for_cipe"}
          /\ code' = "new_cipe_detected" => IsNewCipe
      BY <3>1, WaitDecides, Zenon
    <3>3. pc' = "polling" => IsNewCipe
      BY <1>4, <3>2 DEF PollCodes
    <3>4. pc' = "done" => code' \in ExitCodes \cup {"no_new_cipe"}
      BY <1>5, <3>2 DEF PollCodes, ExitCodes
    <3>. QED
      BY <2>2, <1>6, <3>3, <3>4
      DEF IInv, Types, Newer, ActsOncePerAttempt, Looks, worldVars
  <2>. QED
    BY <2>1, <2>2 DEF Looks
<1>8. Watched'
  <2>. SUFFICES ASSUME acted' = None PROVE Watched'
    BY DEF Watched
  <2>1. acted = None /\ ~IsNewCipe
    BY DEF IInv, Watched, Looks, IsNewCipe
  <2>2. CASE pc = "waiting"
    <3>1. unchanged' = 0 /\ stale' \in Nat
      BY <1>1, <2>2 DEF Looks, Types
    <3>. QED
      BY <2>1, <3>1 DEF IInv, Watched, Looks
  <2>3. CASE pc = "polling" /\ prev # Statuses(i)
    <3>1. unchanged' = 0 /\ stale' \in Nat
      BY <1>1, <2>3 DEF Looks, Types
    <3>. QED
      BY <2>1, <3>1 DEF IInv, Watched, Looks
  <2>4. CASE pc = "polling" /\ prev = Statuses(i)
    <3>. SUFFICES ASSUME InLowerCase(prev)'
                  PROVE  /\ unchanged' <= Breaker
                         /\ pc' = "polling" => unchanged' <= stale' /\ unchanged' < Breaker
      BY <2>1 DEF IInv, Watched, Looks
    <3>1. InLowerCase(prev)
      BY <2>4 DEF InLowerCase, Looks, Asked
    <3>2. unchanged <= stale /\ unchanged < Breaker
      BY <2>1, <2>4, <3>1 DEF IInv, Watched
    <3>3. ~StateChanged(i)
      BY <2>4, <3>1 DEF StateChanged, Statuses, InLowerCase
    <3>4. NoProgress(i) = Least(stale + 1, StaleCap)
      BY <2>1, <2>4, <3>3 DEF NoProgress
    <3>5. unchanged' <= Breaker /\ unchanged' <= NoProgress(i)
      <4>1. unchanged' = Least(unchanged + 1, StaleCap)
        BY <2>4 DEF Looks
      <4>. QED
        BY <3>2, <3>4, <4>1 DEF IInv, Types, Least, StaleCap
    <3>6. ASSUME pc' = "polling" PROVE unchanged' <= stale' /\ unchanged' < Breaker
      <4>1. code' \in PollCodes
        BY <1>4, <3>6
      <4>2. code' = Classify(i)
        BY DEF Looks
      <4>3. ~(NoProgress(i) >= Breaker)
        BY <2>4, <4>1, <4>2, LimitsDecide DEF PollCodes
      <4>4. stale' = NoProgress(i)
        BY <4>1 DEF Looks, PollCodes, ResetCodes
      <4>. QED
        BY <1>0, <1>1, <3>5, <4>3, <4>4 DEF Types
    <3>. QED
      BY <3>5, <3>6
  <2>. QED
    BY <2>2, <2>3, <2>4 DEF Looks
<1>. QED
  BY <1>1, <1>2, <1>7, <1>8 DEF IInv

LEMMA CheckedCycles ==
  ASSUME IInv, NEW c
  PROVE  /\ CheckedFor(c) \in [cycles : Nat, envReruns : Nat, localFixes : Nat, agentTriggered : BOOLEAN]
         /\ CheckedFor(c).cycles = actions /\ ~CheckedFor(c).agentTriggered
<1>0. /\ budget \in [cycles : Nat, envReruns : Nat, localFixes : Nat, agentTriggered : BOOLEAN]
      /\ actions = budget.cycles + Triggered
  BY DEF IInv, Types, CyclesAreCounted
<1>1. CASE budget.agentTriggered
  <2>1. CheckedFor(c) = [cycles |-> budget.cycles + 1, localFixes |-> budget.localFixes,
                   envReruns |-> IF c = "environment_issue" THEN budget.envReruns ELSE 0,
                   agentTriggered |-> FALSE]
    <3>1. CASE c = "environment_issue"
      <4>1. CheckedFor(c) = [budget EXCEPT !.cycles = budget.cycles + 1, !.agentTriggered = FALSE]
        BY <1>0, <1>1, <3>1 DEF CheckedFor
      <4>. QED
        BY <1>0, <3>1, <4>1
    <3>2. CASE c # "environment_issue"
      <4>1. CheckedFor(c) = [budget EXCEPT !.cycles = budget.cycles + 1, !.agentTriggered = FALSE,
                                     !.envReruns = 0]
        BY <1>0, <1>1, <3>2 DEF CheckedFor
      <4>. QED
        BY <1>0, <3>2, <4>1
    <3>. QED
      BY <3>1, <3>2
  <2>. QED
    BY <1>0, <1>1, <2>1 DEF Triggered
<1>2. CASE ~budget.agentTriggered
  <2>1. CheckedFor(c) = [cycles |-> budget.cycles, localFixes |-> budget.localFixes,
                   envReruns |-> IF c = "environment_issue" THEN budget.envReruns ELSE 0,
                   agentTriggered |-> FALSE]
    <3>1. CASE c = "environment_issue"
      <4>1. CheckedFor(c) = [budget EXCEPT !.cycles = budget.cycles, !.agentTriggered = FALSE]
        BY <1>0, <1>2, <3>1 DEF CheckedFor
      <4>. QED
        BY <1>0, <3>1, <4>1
    <3>2. CASE c # "environment_issue"
      <4>1. CheckedFor(c) = [budget EXCEPT !.cycles = budget.cycles, !.agentTriggered = FALSE,
                                     !.envReruns = 0]
        BY <1>0, <1>2, <3>2 DEF CheckedFor
      <4>. QED
        BY <1>0, <3>2, <4>1
    <3>. QED
      BY <3>1, <3>2
  <2>. QED
    BY <1>0, <1>2, <2>1 DEF Triggered
<1>. QED
  BY <1>1, <1>2

LEMMA GarbledKeeps ==
  ASSUME IInv, LooksGarbled
  PROVE  IInv'
<1>. USE OptionsAssumption, NoneAssumption DEF LooksGarbled, worldVars
<1>1. /\ budget' \in [cycles : Nat, envReruns : Nat, localFixes : Nat, agentTriggered : BOOLEAN]
      /\ budget'.cycles = actions /\ ~budget'.agentTriggered
  BY CheckedCycles
<1>2. Types'
  BY <1>1 DEF IInv, Types, Least, StaleCap
<1>3. CyclesAreCounted'
  BY <1>1 DEF IInv, Types, CyclesAreCounted, Triggered
<1>4. Newer'
  BY DEF IInv, Newer, ActsOncePerAttempt, IsNewCipe
<1>5. Watched'
  BY <1>2 DEF IInv, Types, Watched
<1>. QED
  BY <1>2, <1>3, <1>4, <1>5 DEF IInv

LEMMA ActsKeeps ==
  ASSUME IInv, NEW a \in CipeUrlActions \cup CommitShaActions, Acts(a)
  PROVE  IInv'
<1>. USE OptionsAssumption, NoneAssumption
<1>0. /\ Checked.cycles = actions /\ ~(Checked.cycles >= MaxCycles)
      /\ Gated(a) \in [cycles : Nat, envReruns : Nat, localFixes : Nat, agentTriggered : BOOLEAN]
      /\ Gated(a).cycles = Checked.cycles
  BY CheckedCycles DEF Acts, LimitReached, Checked, Gated
<1>1. /\ budget' \in [cycles : Nat, envReruns : Nat, localFixes : Nat, agentTriggered : BOOLEAN]
      /\ budget'.cycles = actions
      /\ budget'.agentTriggered <=> a # "fix-auto-applying"
  BY <1>0 DEF Acts, PostAction, AgentTriggered
<1>2. Types'
  BY <1>1 DEF IInv, Types, Acts, PostAction
<1>3. CyclesAreCounted'
  BY <1>0, <1>1 DEF IInv, Types, CyclesAreCounted, Triggered, Acts
<1>4. Newer'
  <2>1. /\ acted' = seen /\ seen' = seen /\ seen \in Nat /\ seen <= attempt.url
        /\ attempt' = attempt /\ pc' = "waiting"
    BY DEF IInv, Types, Newer, Acts, PostAction
  <2>2. attempt.sha <= head /\ head' \in Nat /\ head <= head'
    BY DEF IInv, Types, Newer, Acts
  <2>3. CASE a \in CipeUrlActions
    <3>1. tracked'.url = seen /\ tracked'.sha = None
      BY <2>3 DEF Acts, PostAction, CipeUrlActions, CommitShaActions
    <3>. QED
      BY <2>1, <2>2, <3>1 DEF IInv, Types, Newer, ActsOncePerAttempt, IsNewCipe
  <2>4. CASE a \in CommitShaActions
    <3>1. tracked'.url = None /\ tracked'.sha = head' /\ head' = head + 1
      BY <2>4 DEF Acts, PostAction, CipeUrlActions, CommitShaActions
    <3>. QED
      BY <2>1, <2>2, <3>1 DEF IInv, Types, Newer, ActsOncePerAttempt, IsNewCipe
  <2>. QED
    BY <2>3, <2>4
<1>5. Watched'
  BY DEF IInv, Newer, Watched, Acts
<1>. QED
  BY <1>2, <1>3, <1>4, <1>5 DEF IInv

LEMMA StopsKeeps ==
  ASSUME IInv, Stops
  PROVE  IInv'
<1>. USE DEF Stops, Checked, worldVars, history
<1>1. Types'
  BY CheckedCycles DEF IInv, Types
<1>2. CyclesAreCounted'
  BY CheckedCycles DEF IInv, Types, CyclesAreCounted, Triggered
<1>3. Newer'
  BY DEF IInv, Newer, ActsOncePerAttempt
<1>4. Watched'
  BY DEF IInv, Watched
<1>. QED
  BY <1>1, <1>2, <1>3, <1>4 DEF IInv

LEMMA NewAttemptKeeps ==
  ASSUME IInv, NewAttempt
  PROVE  IInv'
<1>. USE BoundAssumption, NoneAssumption DEF NewAttempt, loopVars, history
<1>1. Types'
  BY DEF IInv, Types
<1>2. CyclesAreCounted'
  BY DEF IInv, CyclesAreCounted, Triggered
<1>3. Newer'
  BY DEF IInv, Types, Newer, ActsOncePerAttempt
<1>4. Watched'
  BY DEF IInv, Watched
<1>. QED
  BY <1>1, <1>2, <1>3, <1>4 DEF IInv

LEMMA StepKeeps ==
  ASSUME IInv, [Next]_vars
  PROVE  IInv'
<1>1. ASSUME UNCHANGED vars PROVE IInv'
  BY <1>1 DEF vars, loopVars, worldVars, history, IInv, Types, CyclesAreCounted, Triggered,
              Newer, ActsOncePerAttempt, IsNewCipe, Watched
<1>2. ASSUME Next PROVE IInv'
  BY <1>1, <1>2, LooksKeeps, GarbledKeeps, ActsKeeps, StopsKeeps, NewAttemptKeeps
  DEF Next, Answered, Handles, Stopped
<1>. QED
  BY <1>1, <1>2

-----------------------------------------------------------------------------
\* The invariant holds in every reachable state, whatever the options are and
\* whatever the CI answers, in any order.
THEOREM InvariantHolds == Spec => []IInv
<1>1. IInv /\ [Next]_vars => IInv'
  BY StepKeeps
<1>. QED
  BY Initially, <1>1, PTL DEF Spec

\* Each action that causes an attempt is counted once by --max-cycles (cycleCheck
\* and postAction of ci-state-update.mjs).
THEOREM CyclesCounted == Spec => []CyclesAreCounted
<1>1. IInv => CyclesAreCounted
  BY DEF IInv
<1>. QED
  BY InvariantHolds, <1>1, PTL

\* No attempt is acted on twice (the wait of ci-poll-decide.mjs for a new one).
THEOREM ActsOnce == Spec => []ActsOncePerAttempt
<1>1. IInv => ActsOncePerAttempt
  BY DEF IInv, Newer
<1>. QED
  BY InvariantHolds, <1>1, PTL

\* Until the first action the breaker of ci-poll-decide.mjs trips in time, as long as
\* the failure class of what it watches is in lower case (hasStateChanged).
THEOREM BreakerTripsAtFirst == Spec => []StopsWithoutProgressAtFirst
<1>1. IInv => StopsWithoutProgressAtFirst
  BY DEF IInv, Watched, StopsWithoutProgressAtFirst, StopsWithoutProgress
<1>. QED
  BY InvariantHolds, <1>1, PTL

-----------------------------------------------------------------------------
(* --timeout bounds the loop. *)

\* Time stops at the timeout, and what is decided from then on is to stop.
InTime ==
  /\ pc \in {"polling", "waiting", "done", "stopped"}
  /\ elapsed \in 0 .. Timeout /\ polls \in Nat
  /\ pc = "done" /\ TimedOut => code = "polling_timeout"

\* The steps between two delays: a decision, an action, the first look of a wait.
Place ==
  IF pc = "polling" THEN 4
  ELSE IF pc = "done" THEN 3
  ELSE IF polls = 0 THEN 2 ELSE 4

\* The steps after the timeout.
LastPlace ==
  IF pc = "waiting" THEN 3
  ELSE IF pc = "polling" THEN 2
  ELSE IF pc = "done" THEN 1 ELSE 0

\* How many looks and actions are left at most.
Left ==
  IF TimedOut THEN LastPlace
  ELSE IF pc = "stopped" THEN 0 ELSE 6 * (Timeout - elapsed) + Place

\* What a step does to it: a look that is answered and the handling of a decision
\* take one away; no answer that is garbled, and nothing that others push, adds
\* any.
LoopEnds == [][/\ Left' <= Left
               /\ Answered \/ Handles => Left' < Left]_vars

LEMMA LookElapses ==
  ASSUME IInv, InTime, NEW i, Looks(i), Timeout > 0
  PROVE  /\ elapsed' \in 0 .. Timeout /\ elapsed <= elapsed'
         /\ pc' \in {"polling", "waiting"} => elapsed' > elapsed \/ TimedOut
         /\ pc' = "done" => elapsed' = elapsed
         /\ pc' = "done" <=> code' \notin PollCodes \cup {"waiting_for_cipe"}
         /\ pc' = "waiting" <=> code' = "waiting_for_cipe"
         /\ pc' \in {"polling", "waiting", "done"}
<1>1. /\ pc' \in {"polling", "waiting", "done"}
      /\ pc' = "polling" <=> code' \in PollCodes
      /\ pc' = "waiting" <=> code' = "waiting_for_cipe"
  BY DEF Looks, PollCodes
<1>2. DEFINE d == Delay(code', NoProgress(i))
<1>3. /\ d \in Nat
      /\ pc' \in {"polling", "waiting"} => d > 0
      /\ pc' = "done" => d = 0
  <2>1. Backoff(NoProgress(i)) \in {2, 3, 4, 6}
    <3>1. Least(NoProgress(i), 3) \in 0 .. 3
      BY ProgressTyped, LeastOfTwo DEF Least
    <3>. QED
      BY <3>1 DEF Backoff
  <2>. HIDE DEF Backoff
  <2>2. d \in {0, 1, 2, Backoff(NoProgress(i))}
    BY <1>1 DEF Delay
  <2>3. pc' \in {"polling", "waiting"} => d \in {1, 2, Backoff(NoProgress(i))}
    BY <1>1 DEF Delay
  <2>4. pc' = "done" => d = 0
    BY <1>1 DEF Delay, PollCodes
  <2>. QED
    BY <2>1, <2>2, <2>3, <2>4
<1>4. elapsed' = Least(elapsed + d, Timeout)
  BY DEF Looks, Elapses
<1>. HIDE DEF d
<1>5. elapsed \in 0 .. Timeout /\ Timeout \in Nat
  BY OptionsAssumption DEF InTime
<1>6. TimedOut <=> elapsed = Timeout
  BY <1>5 DEF TimedOut
<1>7. /\ elapsed' \in 0 .. Timeout /\ elapsed <= elapsed'
      /\ d > 0 => elapsed' > elapsed \/ elapsed = Timeout
      /\ d = 0 => elapsed' = elapsed
  BY <1>3, <1>4, <1>5 DEF Least
<1>. QED
  BY <1>1, <1>3, <1>6, <1>7

LEMMA InTimeStep ==
  ASSUME IInv, InTime, [Next]_vars
  PROVE  InTime'
<1>. USE OptionsAssumption
<1>1. ASSUME NEW i \in Infos, Looks(i) PROVE InTime'
  <2>1. polls' \in Nat
    BY <1>1 DEF Looks, InTime, Least
  <2>2. CASE Timeout = 0
    <3>1. elapsed' = 0 /\ ~TimedOut'
      BY <1>1, <2>2 DEF Looks, Elapses, TimedOut
    <3>2. pc' \in {"polling", "waiting", "done"}
      BY <1>1 DEF Looks
    <3>. QED
      BY <2>1, <2>2, <3>1, <3>2 DEF InTime
  <2>3. CASE Timeout > 0
    <3>1. /\ elapsed' \in 0 .. Timeout
          /\ pc' = "done" => elapsed' = elapsed
          /\ pc' = "done" <=> code' \notin PollCodes \cup {"waiting_for_cipe"}
          /\ pc' \in {"polling", "waiting", "done"}
      BY <1>1, <2>3, LookElapses
    <3>2. ASSUME pc' = "done", TimedOut' PROVE code' = "polling_timeout"
      <4>1. TimedOut
        BY <3>1, <3>2 DEF TimedOut
      <4>2. CASE pc = "polling"
        BY <1>1, <4>1, <4>2, LimitsDecide DEF Looks
      <4>3. CASE pc = "waiting"
        <5>1. code' = First(WaitRules)
          BY <1>1, <4>3 DEF Looks, Classify
        <5>2. code' \in {"new_cipe_detected", "polling_timeout"}
          BY <4>1, <5>1, WaitDecides
        <5>. QED
          BY <3>1, <3>2, <5>2 DEF PollCodes
      <4>. QED
        BY <1>1, <4>2, <4>3 DEF Looks
    <3>. QED
      BY <2>1, <3>1, <3>2 DEF InTime
  <2>. QED
    BY <2>2, <2>3
<1>2. CASE LooksGarbled
  <2>1. elapsed' \in 0 .. Timeout /\ polls' \in Nat
    BY <1>2 DEF LooksGarbled, Elapses, Least, InTime
  <2>. QED
    BY <1>2, <2>1 DEF LooksGarbled, InTime
<1>3. ASSUME NEW a \in CipeUrlActions \cup CommitShaActions, Acts(a) PROVE InTime'
  BY <1>3 DEF Acts, PostAction, InTime
<1>4. CASE Stops
  BY <1>4 DEF Stops, InTime
<1>5. CASE NewAttempt \/ UNCHANGED vars
  BY <1>5 DEF NewAttempt, vars, loopVars, InTime, TimedOut
<1>. QED
  BY <1>1, <1>2, <1>3, <1>4, <1>5 DEF Next, Answered, Handles, Stopped

LEMMA LeftType ==
  ASSUME InTime
  PROVE  Left \in Nat /\ (Left = 0 <=> pc = "stopped")
<1>1. elapsed \in 0 .. Timeout /\ Timeout \in Nat /\ Place \in {2, 3, 4}
  BY OptionsAssumption DEF InTime, Place
<1>2. LastPlace \in Nat /\ (LastPlace = 0 <=> pc = "stopped")
  BY DEF LastPlace, InTime
<1>. QED
  BY <1>1, <1>2 DEF Left

LEMMA LookTakesOne ==
  ASSUME IInv, InTime, NEW i, Looks(i), Timeout > 0
  PROVE  Left' < Left /\ Left' <= Left
<1>1. /\ elapsed \in 0 .. Timeout /\ Timeout \in Nat
      /\ pc \in {"polling", "waiting"} /\ polls \in Nat
  BY OptionsAssumption DEF InTime, Looks
<1>2. /\ elapsed' \in 0 .. Timeout /\ elapsed <= elapsed'
      /\ pc' \in {"polling", "waiting"} => elapsed' > elapsed \/ TimedOut
      /\ pc' = "done" => elapsed' = elapsed
      /\ pc' = "done" <=> code' \notin PollCodes \cup {"waiting_for_cipe"}
      /\ pc' = "waiting" <=> code' = "waiting_for_cipe"
      /\ pc' \in {"polling", "waiting", "done"}
  BY LookElapses
<1>3. /\ TimedOut <=> elapsed = Timeout
      /\ TimedOut' <=> elapsed' = Timeout
  BY <1>1, <1>2 DEF TimedOut
<1>4. Place \in {2, 3, 4} /\ Place' \in {2, 3, 4} /\ LastPlace' \in {1, 2, 3}
  BY <1>2 DEF Place, LastPlace
<1>5. CASE TimedOut
  <2>1. elapsed' = Timeout /\ TimedOut'
    BY <1>1, <1>2, <1>3, <1>5
  <2>2. CASE pc = "polling"
    <3>1. code' = "polling_timeout"
      BY <1>5, <2>2, LimitsDecide DEF Looks
    <3>2. pc' = "done"
      BY <1>2, <3>1 DEF PollCodes
    <3>. QED
      BY <1>5, <2>1, <2>2, <3>2 DEF Left, LastPlace
  <2>3. CASE pc = "waiting"
    <3>1. code' = First(WaitRules)
      BY <2>3 DEF Looks, Classify
    <3>2. code' # "waiting_for_cipe"
      BY <1>5, <3>1, WaitDecides
    <3>3. pc' \in {"polling", "done"}
      BY <1>2, <3>2
    <3>. QED
      BY <1>5, <2>1, <2>3, <3>3 DEF Left, LastPlace
  <2>. QED
    BY <1>1, <2>2, <2>3
<1>6. CASE ~TimedOut /\ elapsed' > elapsed
  <2>1. Left = 6 * (Timeout - elapsed) + Place
    BY <1>1, <1>6 DEF Left
  <2>2. \/ TimedOut' /\ Left' = LastPlace'
        \/ Left' = 6 * (Timeout - elapsed') + Place'
    BY <1>2 DEF Left
  <2>. QED
    BY <1>1, <1>2, <1>3, <1>4, <1>6, <2>1, <2>2
<1>7. CASE ~TimedOut /\ ~(elapsed' > elapsed)
  <2>1. pc' = "done" /\ elapsed' = elapsed /\ ~TimedOut'
    BY <1>1, <1>2, <1>3, <1>7
  <2>2. Place = 4
    <3>1. CASE pc = "polling"
      BY <3>1 DEF Place
    <3>2. CASE pc = "waiting"
      <4>1. code' = First(WaitRules)
        BY <3>2 DEF Looks, Classify
      <4>2. code' = "no_new_cipe"
        BY <1>2, <1>7, <2>1, <4>1, WaitDecides DEF PollCodes
      <4>3. WaitTimedOut
        BY <4>1, <4>2, WaitDecides
      <4>4. polls # 0
        BY <1>1, <4>3, OptionsAssumption DEF WaitTimedOut
      <4>. QED
        BY <3>2, <4>4 DEF Place
    <3>. QED
      BY <1>1, <3>1, <3>2
  <2>3. Place' = 3
    BY <2>1 DEF Place
  <2>4. /\ Left = 6 * (Timeout - elapsed) + 4
        /\ Left' = 6 * (Timeout - elapsed) + 3
    BY <1>1, <1>7, <2>1, <2>2, <2>3 DEF Left
  <2>. QED
    BY <1>1, <2>4
<1>. QED
  BY <1>5, <1>6, <1>7

LEMMA HandlingTakesOne ==
  ASSUME InTime, Handles, Timeout > 0
  PROVE  Left' < Left /\ Left' <= Left
<1>1. /\ elapsed \in 0 .. Timeout /\ Timeout \in Nat
      /\ pc = "done" /\ elapsed' = elapsed
  BY OptionsAssumption DEF InTime, Handles, Stops, Acts
<1>2. TimedOut' <=> TimedOut
  BY <1>1 DEF TimedOut
<1>3. CASE Stops
  <2>1. pc' = "stopped"
    BY <1>3 DEF Stops
  <2>2. Left' = 0
    BY <2>1 DEF Left, LastPlace
  <2>. QED
    BY <1>1, <2>2, LeftType
<1>4. ASSUME NEW a \in CipeUrlActions \cup CommitShaActions, Acts(a)
      PROVE  Left' < Left /\ Left' <= Left
  <2>1. ~TimedOut
    <3>1. code # "polling_timeout"
      BY <1>4 DEF Acts, Flows
    <3>. QED
      BY <1>1, <3>1 DEF InTime
  <2>2. pc' = "waiting" /\ polls' = 0
    BY <1>4 DEF Acts, PostAction
  <2>3. /\ Left = 6 * (Timeout - elapsed) + 3
        /\ Left' = 6 * (Timeout - elapsed) + 2
    BY <1>1, <1>2, <2>1, <2>2 DEF Left, Place
  <2>. QED
    BY <1>1, <2>3
<1>. QED
  BY <1>3, <1>4 DEF Handles

LEMMA GarbledAddsNothing ==
  ASSUME InTime, InTime', LooksGarbled, Timeout > 0
  PROVE  Left' <= Left
<1>1. /\ elapsed \in 0 .. Timeout /\ Timeout \in Nat
      /\ pc \in {"polling", "waiting"} /\ pc' \in {pc, "stopped"}
  BY OptionsAssumption DEF InTime, LooksGarbled
<1>2. elapsed' = Least(elapsed + 2, Timeout)
  BY DEF LooksGarbled, Elapses
<1>3. Left \in Nat
  BY LeftType
<1>4. CASE pc' = "stopped"
  <2>1. Left' = 0
    BY <1>4 DEF Left, LastPlace
  <2>. QED
    BY <1>3, <2>1
<1>5. CASE pc' = pc /\ TimedOut
  <2>1. elapsed' = Timeout
    BY <1>1, <1>2, <1>5 DEF TimedOut, Least
  <2>2. Left = LastPlace /\ Left' = LastPlace
    BY <1>1, <1>5, <2>1 DEF Left, TimedOut, LastPlace
  <2>. QED
    BY <1>3, <2>2
<1>6. CASE pc' = pc /\ ~TimedOut
  <2>1. elapsed' \in 0 .. Timeout /\ elapsed' > elapsed
    BY <1>1, <1>2, <1>6 DEF TimedOut, Least
  <2>2. Left = 6 * (Timeout - elapsed) + Place /\ Place \in {2, 3, 4}
    BY <1>1, <1>6 DEF Left, Place
  <2>3. LastPlace' \in {2, 3} /\ Place' \in {2, 3, 4}
    BY <1>1, <1>6 DEF LastPlace, Place
  <2>4. Left' = LastPlace' \/ Left' = 6 * (Timeout - elapsed') + Place'
    BY <1>1, <1>6 DEF Left
  <2>. QED
    BY <1>1, <2>1, <2>2, <2>3, <2>4
<1>. QED
  BY <1>1, <1>4, <1>5, <1>6

LEMMA OthersAddNothing ==
  ASSUME InTime, NewAttempt \/ UNCHANGED vars
  PROVE  Left' <= Left
<1>1. UNCHANGED <<pc, polls, elapsed>>
  BY DEF NewAttempt, vars, loopVars
<1>2. Left' = Left
  BY <1>1 DEF Left, TimedOut, Place, LastPlace
<1>. QED
  BY <1>2, LeftType

\* With --timeout set, the monitor acts, and takes an answered look, at most Left
\* times, and has stopped exactly when none are left: neither new attempts, pushes
\* of others nor waits that end in nothing keep it going (ci-poll-decide.mjs,
\* isTimedOut before every other rule of a poll).  A garbled answer leaves Left as
\* it is, or takes some away.
THEOREM TimeoutBoundsTheLoop ==
  ASSUME Timeout > 0
  PROVE  Spec => LoopEnds /\ [](Left \in Nat /\ (Left = 0 <=> pc = "stopped"))
<1>1. Init => InTime
  BY OptionsAssumption DEF Init, InTime, TimedOut
<1>2. IInv /\ InTime /\ [Next]_vars => InTime'
  BY InTimeStep
<1>3. InTime => Left \in Nat /\ (Left = 0 <=> pc = "stopped")
  BY LeftType
<1>4. IInv /\ InTime /\ [Next]_vars
        => [/\ Left' <= Left
            /\ Answered \/ Handles => Left' < Left]_vars
  <2>. SUFFICES ASSUME IInv, InTime, Next
                PROVE  /\ Left' <= Left
                       /\ Answered \/ Handles => Left' < Left
    OBVIOUS
  <2>1. Answered \/ Handles => Left' < Left /\ Left' <= Left
    BY LookTakesOne, HandlingTakesOne DEF Answered
  <2>2. LooksGarbled \/ NewAttempt \/ Stopped => Left' <= Left
    BY GarbledAddsNothing, OthersAddNothing, InTimeStep DEF Stopped
  <2>. QED
    BY <2>1, <2>2 DEF Next
<1>. QED
  BY <1>1, <1>2, <1>3, <1>4, InvariantHolds, PTL DEF Spec, LoopEnds

=============================================================================
