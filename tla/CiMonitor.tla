------------------------------ MODULE CiMonitor ------------------------------
(***************************************************************************)
(* The CI monitor of the repository's tooling: ci-poll-decide.mjs decides  *)
(* after every look at the CI whether to go on, ci-state-update.mjs keeps  *)
(* the budgets, and an orchestrator (an agent that follows SKILL.md, here  *)
(* the environment) runs them in a loop, acts on a decision and waits for  *)
(* the CI attempt its action should cause.  Attempts appear, change and    *)
(* fail on their own; other people push as well.                           *)
(*                                                                         *)
(* Time is counted in half minutes, the delay of a wait.                   *)
(***************************************************************************)
EXTENDS Integers, Sequences, FiniteSets

CONSTANTS
  Infos,               \* what ci_information may say of an attempt; its class is None or
                       \* a record: the kind, and whether it is written in lower case
  Timeout,             \* --timeout, 0 for none
  NewCipeTimeout,      \* --new-cipe-timeout, 0 for none
  MaxCycles,           \* --max-cycles
  LocalVerifyAttempts, \* --local-verify-attempts
  Breaker,             \* polls without progress that trip the breaker, 13 in the script
  MaxAttempts,         \* bound: CI attempts that appear
  None                 \* a field that is absent

ASSUME OptionsAssumption == /\ Timeout \in Nat /\ NewCipeTimeout \in Nat
                            /\ MaxCycles \in Nat \ {0} /\ LocalVerifyAttempts \in Nat
                            /\ Breaker \in Nat \ {0}
ASSUME BoundAssumption == MaxAttempts \in Nat \ {0}
ASSUME NoneAssumption == None \notin Nat

VARIABLES
  pc,       \* polling, waiting, done (a decision to handle) or stopped
  code,     \* the last decision
  prev,     \* the statuses of the last look
  tracked,  \* lastCipeUrl and expectedCommitSha, to tell a new attempt by
  polls,    \* pollCount
  stale,    \* noProgressCount
  budget,   \* cycleCount, envRerunCount, localVerifyCount and agentTriggered
  elapsed,  \* time since the monitor began
  attempt,  \* the newest CI attempt: its url and the commit it runs on
  head,     \* the newest commit
  seen,     \* history: the url of the last look
  acted,    \* history: the url the last action was for
  unchanged,\* history: polls in a row that saw the same statuses
  actions   \* history: actions of the agent that cause an attempt

loopVars  == <<pc, code, prev, tracked, polls, stale, budget, elapsed>>
worldVars == <<attempt, head>>
history   == <<seen, acted, unchanged, actions>>
vars      == <<loopVars, worldVars, history>>

Running == {"NOT_STARTED", "IN_PROGRESS"}

PollCodes == {"new_cipe_detected", "ci_running", "sh_running", "flaky_rerun",
              "fix_auto_applied", "verification_pending", "fallback"}
ExitCodes == {"ci_success", "cipe_canceled", "cipe_timed_out", "polling_timeout",
              "circuit_breaker", "environment_rerun_cap"}

StaleCap == Breaker + 1   \* bound: nothing asks by how much the count is above

NoStatus == [cipe |-> None, sh |-> None, verification |-> None, class |-> None]
Statuses(i) == [cipe |-> i.cipe, sh |-> i.sh, verification |-> i.verification,
                class |-> i.class]

LowerCase(class)   == IF class = None THEN None ELSE [class EXCEPT !.lower = TRUE]
IsClass(i, kind)   == i.class # None /\ i.class.kind = kind
InLowerCase(state) == state.class = LowerCase(state.class)

Init == /\ pc = "polling" /\ code = None /\ prev = NoStatus
        /\ tracked = [url |-> None, sha |-> None]
        /\ polls = 0 /\ stale = 0
        /\ budget = [cycles |-> 0, envReruns |-> 0, localFixes |-> 0, agentTriggered |-> FALSE]
        /\ elapsed = 0
        /\ attempt = [url |-> 1, sha |-> 1] /\ head = 1
        /\ seen = None /\ acted = None /\ unchanged = 0 /\ actions = 0

Least(m, n) == IF m < n THEN m ELSE n

-----------------------------------------------------------------------------
(* ci-poll-decide.mjs *)

\* backoff, in half minutes.
Backoff(n) == <<2, 3, 4, 6>>[Least(n, 3) + 1]

\* A status that was absent before is no change.  The class is put in lower case
\* and compared with what the orchestrator kept of the last answer, as it was.
StateChanged(i) ==
  LET read == [Statuses(i) EXCEPT !.class = LowerCase(i.class)]
  IN \E s \in DOMAIN prev : prev[s] # None /\ prev[s] # read[s]

\* The orchestrator always supplies --elapsed-seconds.
TimedOut     == Timeout > 0 /\ elapsed >= Timeout
WaitTimedOut == NewCipeTimeout > 0 /\ polls >= NewCipeTimeout

\* Mutation: an absent url differs from every url.
IsNewUnguarded == attempt.url # tracked.url \/ attempt.sha = tracked.sha

IsNewCipe == \/ tracked.url # None /\ attempt.url # tracked.url
             \/ tracked.sha # None /\ attempt.sha = tracked.sha

\* noProgressCount is computed before the decision.
NoProgress(i) ==
  IF pc = "waiting" THEN IF IsNewCipe THEN 0 ELSE stale
  ELSE IF IsNewCipe \/ StateChanged(i) THEN 0 ELSE Least(stale + 1, StaleCap)

\* A decision list: the code of the first rule that applies.
First(rules) ==
  rules[CHOOSE r \in DOMAIN rules : rules[r][1] /\ \A q \in 1 .. r - 1 : ~rules[q][1]][2]

WaitRules == <<
  <<IsNewCipe,    "new_cipe_detected">>,
  <<TimedOut,     "polling_timeout">>,
  <<WaitTimedOut, "no_new_cipe">>,
  <<TRUE,         "waiting_for_cipe">> >>

\* Those of a CI attempt that is over, or of a failure nobody can fix.
CiRules(i) == <<
  <<i.cipe = "SUCCEEDED",                                       "ci_success">>,
  <<i.cipe = "CANCELED",                                        "cipe_canceled">>,
  <<i.cipe = "TIMED_OUT",                                       "cipe_timed_out">>,
  <<i.cipe = "FAILED" /\ i.tasks = "none" /\ i.sh = None,       "cipe_no_tasks">>,
  <<IsClass(i, "environment_state") /\ budget.envReruns >= 2,   "environment_rerun_cap">>,
  <<IsClass(i, "environment_state"),                            "environment_issue">>,
  <<i.skipped = "THROTTLED",                                    "self_healing_throttled">>,
  <<i.cipe \in Running,                                         "ci_running">>,
  <<i.sh \in Running /\ i.skipped = None,                       "sh_running">>,
  <<IsClass(i, "flaky_task"),                                   "flaky_rerun">>,
  <<i.applied,                                                  "fix_auto_applied">> >>

\* Those of a fix.
FixRules(i) == <<
  <<i.autoApply /\ i.autoApplySkipped,                          "fix_auto_apply_skipped">>,
  <<i.autoApply /\ i.verification \in Running,                  "verification_pending">>,
  <<i.autoApply /\ i.verification = "COMPLETED",                "fix_auto_applying">>,
  <<i.sh = "COMPLETED" /\ \/ i.verification \in {"FAILED", "NOT_EXECUTABLE"}
                          \/ ~i.autoApply /\ i.verification = None,
                                                                "fix_needs_review">>,
  <<i.sh = "COMPLETED" /\ i.tasks # "unverified",               "fix_apply_ready">>,
  <<i.sh = "COMPLETED",                                         "fix_needs_local_verify">>,
  <<i.sh = "FAILED",                                            "fix_failed">>,
  <<i.cipe = "FAILED" /\ (~i.enabled \/ i.sh = "NOT_EXECUTABLE"), "no_fix">>,
  <<TRUE,                                                       "fallback">> >>

\* Mutation: the breaker is asked when nothing else applies.
ClassifyBreakerLast(i) ==
  IF pc = "waiting" THEN First(WaitRules)
  ELSE First(<<<<TimedOut, "polling_timeout">>>> \o CiRules(i)
               \o <<<<NoProgress(i) >= Breaker, "circuit_breaker">>>> \o FixRules(i))

\* Mutation: the budget caps the waits only, the breaker ends the polls.
ClassifyUntimed(i) ==
  IF pc = "waiting" THEN First(WaitRules)
  ELSE First(<< <<NoProgress(i) >= Breaker, "circuit_breaker">> >> \o CiRules(i) \o FixRules(i))

Classify(i) ==
  IF pc = "waiting" THEN First(WaitRules)
  ELSE First(<< <<TimedOut, "polling_timeout">>,
                <<NoProgress(i) >= Breaker, "circuit_breaker">> >> \o CiRules(i) \o FixRules(i))

\* resetProgressCodes
ResetCodes == {"ci_success", "fix_auto_applying", "fix_auto_apply_skipped",
               "fix_needs_review", "fix_apply_ready", "fix_needs_local_verify"}

\* buildOutput: the delay before the next look.
Delay(c, n) == CASE c = "waiting_for_cipe"  -> 1
                 [] c = "new_cipe_detected" -> 2
                 [] c \in PollCodes \ {"new_cipe_detected"} -> Backoff(n)
                 [] OTHER -> 0

Elapses(n) == elapsed' = IF Timeout = 0 THEN 0 ELSE Least(elapsed + n, Timeout)

-----------------------------------------------------------------------------
(* The loop of the orchestrator around the decision. *)

\* In wait mode only cipeStatus, the url and the commit are asked for.
Asked(i) == IF pc = "waiting" THEN [NoStatus EXCEPT !.cipe = i.cipe] ELSE Statuses(i)

Looks(i) ==
  /\ pc \in {"polling", "waiting"}
  /\ code' = Classify(i)
  /\ stale' = IF code' \in ResetCodes THEN 0 ELSE NoProgress(i)
  /\ prev' = Asked(i)
  /\ polls' = IF NewCipeTimeout = 0 THEN 0 ELSE Least(polls + 1, NewCipeTimeout)
  /\ pc' = CASE code' = "waiting_for_cipe" -> "waiting"
             [] code' \in PollCodes -> "polling"
             [] OTHER -> "done"
  /\ budget' = IF code' = "new_cipe_detected"
                 THEN [budget EXCEPT !.localFixes = 0, !.envReruns = 0] ELSE budget
  /\ Elapses(Delay(code', NoProgress(i)))
  /\ seen' = attempt.url
  /\ unchanged' = IF pc = "polling" /\ prev = Statuses(i) THEN Least(unchanged + 1, StaleCap)
                  ELSE 0
  /\ UNCHANGED <<tracked, worldVars, acted, actions>>

-----------------------------------------------------------------------------
(* ci-state-update.mjs *)

CipeUrlActions   == {"fix-auto-applying", "apply-mcp", "env-rerun"}
CommitShaActions == {"apply-local-push", "reject-fix-push", "local-fix-push",
                     "auto-fix-push", "empty-commit-push"}

\* What the flows of the skill do about a code.
Flows(c) ==
  CASE c = "fix_auto_applying"      -> {"fix-auto-applying"}
    [] c \in {"fix_apply_ready", "fix_auto_apply_skipped"} -> {"apply-mcp"}
    [] c = "fix_needs_local_verify" -> {"apply-mcp", "apply-local-push"}
    [] c = "fix_needs_review"       -> {"apply-mcp", "apply-local-push", "reject-fix-push"}
    [] c \in {"fix_failed", "no_fix"} -> {"local-fix-push"}
    [] c = "environment_issue"      -> {"env-rerun"}
    [] c = "self_healing_throttled" -> {"local-fix-push", "empty-commit-push"}
    [] c = "no_new_cipe"            -> {"auto-fix-push"}
    [] c = "cipe_no_tasks"          -> {"empty-commit-push"}
    [] OTHER -> {}

\* cycleCheck: what the budgets are before a code is handled.
CheckedFor(c) == [budget EXCEPT !.cycles = IF budget.agentTriggered THEN @ + 1 ELSE @,
                                !.agentTriggered = FALSE,
                                !.envReruns = IF c = "environment_issue" THEN @ ELSE 0]
Checked == CheckedFor(code)

LimitReached == Checked.cycles >= MaxCycles

\* gate: the budget after the action, if the budget allows it.
LocalFixes == {"reject-fix-push", "local-fix-push"}
Allowed(a) == /\ a \in LocalFixes => Checked.localFixes < LocalVerifyAttempts
              /\ a = "env-rerun" => Checked.envReruns < 2
Gated(a) == IF a \in LocalFixes THEN [Checked EXCEPT !.localFixes = @ + 1]
            ELSE IF a = "env-rerun" THEN [Checked EXCEPT !.envReruns = @ + 1] ELSE Checked

\* Mutation: only a push is the agent's doing.
AgentTriggeredByPush(a) == a \in CommitShaActions

AgentTriggered(a) == a # "fix-auto-applying"

\* postAction: what to tell the new attempt by.
PostAction(a) ==
  /\ pc' = "waiting" /\ polls' = 0
  /\ tracked' = [url |-> IF a \in CipeUrlActions THEN seen ELSE None,
                 sha |-> IF a \in CommitShaActions THEN head' ELSE None]
  /\ budget' = [Gated(a) EXCEPT !.agentTriggered = AgentTriggered(a)]

Acts(a) ==
  /\ pc = "done" /\ ~LimitReached
  /\ a \in Flows(code) /\ Allowed(a)
  /\ head' = IF a \in CommitShaActions THEN head + 1 ELSE head
  /\ PostAction(a)
  /\ acted' = seen
  /\ actions' = IF a = "fix-auto-applying" THEN actions ELSE actions + 1
  /\ UNCHANGED <<code, prev, stale, elapsed, attempt, seen, unchanged>>

\* A limit, a simple exit, a closed gate, a flow that fails, or the user says so.
Stops ==
  /\ pc = "done"
  /\ pc' = "stopped"
  /\ budget' = Checked
  /\ UNCHANGED <<code, prev, tracked, polls, stale, elapsed, worldVars, history>>

\* The answer is no JSON: "error", a decision to handle like any other.  The cycle
\* check may end the monitor, and so may the user it asks; otherwise the loop goes
\* on after a minute, in the mode it was in.
LooksGarbled ==
  /\ pc \in {"polling", "waiting"}
  /\ code' = "error"
  /\ stale' = Least(stale + 1, StaleCap)
  /\ prev' = NoStatus /\ unchanged' = 0
  /\ polls' = IF NewCipeTimeout = 0 THEN 0 ELSE Least(polls + 1, NewCipeTimeout)
  /\ budget' = CheckedFor("error")
  /\ pc' \in IF budget'.cycles >= MaxCycles THEN {"stopped"} ELSE {pc, "stopped"}
  /\ Elapses(2)
  /\ UNCHANGED <<tracked, worldVars, seen, acted, actions>>

-----------------------------------------------------------------------------
(* The environment. *)

\* A new attempt, on the newest commit or on one somebody else just pushed.
NewAttempt ==
  /\ attempt.url < MaxAttempts /\ pc # "stopped"
  /\ head' \in {head, head + 1}
  /\ attempt' = [url |-> attempt.url + 1, sha |-> head']
  /\ UNCHANGED <<loopVars, history>>

Stopped == pc = "stopped" /\ UNCHANGED vars

Answered == \E i \in Infos : Looks(i)
Handles  == Stops \/ \E a \in CipeUrlActions \cup CommitShaActions : Acts(a)

Next == Answered \/ LooksGarbled \/ Handles \/ NewAttempt \/ Stopped
Spec == Init /\ [][Next]_vars

\* The loop goes on, and it is not garbled answers for ever.
Fairness == SF_vars(Answered) /\ WF_vars(Handles)
FairSpec == Spec /\ Fairness

-----------------------------------------------------------------------------
(* Safety. *)

Triggered == IF budget.agentTriggered THEN 1 ELSE 0

\* "No progress after 13 consecutive polls. Stopping." (ci-poll-decide.mjs:302):
\* nobody watches a CI that stands still.
StopsWithoutProgress == unchanged <= Breaker

\* Until the first action this is so, of an answer whose class is in lower case, or
\* which has none.
StopsWithoutProgressAtFirst == acted = None /\ InLowerCase(prev) => StopsWithoutProgress

\* Every action of the agent that causes an attempt is counted once, whatever it
\* tracks the attempt by, and there are never more than --max-cycles of them.
CyclesAreCounted == actions = budget.cycles + Triggered /\ actions <= MaxCycles

\* One attempt is not acted on twice, as the old attempt is still there when the
\* wait for the new one begins: a code that calls for an action is one of another
\* attempt, unless it says that none appeared.
ActsOncePerAttempt ==
  pc = "done" /\ acted # None /\ code \notin ExitCodes \cup {"no_new_cipe"} => seen # acted

(* Liveness. *)

\* --timeout ends the monitor, whatever the CI does and however often it waits
\* for an attempt that never comes.
MonitorEnds == Timeout > 0 => <>(pc = "stopped")

=============================================================================
