---------------------------- MODULE MCCiMonitor ----------------------------
(* Instances of CiMonitor for TLC. *)
EXTENDS CiMonitor

\* A failed attempt without a fix, and what differs from it.
Failed == [cipe |-> "FAILED", sh |-> "NOT_EXECUTABLE", verification |-> None, class |-> None,
           tasks |-> "unverified", skipped |-> None, enabled |-> TRUE, applied |-> FALSE,
           autoApply |-> FALSE, autoApplySkipped |-> FALSE]

Class(kind) == [kind |-> kind, lower |-> TRUE]
InCapitals(class) == [class EXCEPT !.lower = FALSE]

MCInfos == {
  Failed,
  [Failed EXCEPT !.cipe = "IN_PROGRESS", !.sh = None],
  [Failed EXCEPT !.cipe = "SUCCEEDED", !.sh = None],
  [Failed EXCEPT !.sh = None, !.tasks = "none"],
  [Failed EXCEPT !.class = InCapitals(Class("environment_state"))],
  [Failed EXCEPT !.class = Class("flaky_task")],
  [Failed EXCEPT !.class = InCapitals(Class("flaky_task"))],
  [Failed EXCEPT !.skipped = "THROTTLED"],
  [Failed EXCEPT !.sh = "COMPLETED", !.verification = "COMPLETED", !.tasks = "verified"],
  [Failed EXCEPT !.sh = "COMPLETED", !.verification = "FAILED"],
  [Failed EXCEPT !.sh = "COMPLETED", !.autoApply = TRUE, !.verification = "COMPLETED"] }

=============================================================================
