---------------------- MODULE DistributedReadInvariant ----------------------
(***************************************************************************)
(* The inductive invariant behind the safety properties of DistributedRead.*)
(***************************************************************************)
EXTENDS DistributedRead, FiniteSets

ASSUME FlightsAssumption == IsFiniteSet(Flights)

Contending == {"claim", "exists", "reread"} \cup Waiting

\* The lease is of the newest generation, and no two runs have the same one.
Generations ==
  /\ leaseKey # None => leaseKey.version = generation
  /\ \A f \in Flights : version[f] <= generation
  /\ \A f, g \in Flights : version[f] = version[g] /\ version[f] > 0 => f = g

\* What a run has, by where it is.
Stages ==
  \A f \in Flights :
    /\ pc[f] \in Contending => version[f] = 0 /\ leaseState[f] = "owned"
    /\ pc[f] \in Owning \cup Draining => version[f] > 0
    /\ pc[f] \in {"beforePublish", "publish"} => value[f] \in Versions
    /\ renewal[f] # "off" =>
         \/ pc[f] \in Owning
         \/ pc[f] \in {"drainReturn", "drainThrow"} /\ renewal[f] = "sent"

\* A waiting run is subscribed, and a release since then has reached its mailbox.
Wakeups ==
  /\ \A f \in Flights : pc[f] \in {"rechecking", "waiting"} => f \in subscribers
  /\ NoLostWakeup

\* f holds the lease and, if it could give the lease back, has not been told that
\* it is lost; an owner that cannot keeps the lease until it expires.
Secure(f) == Holds(f) /\ (leaseState[f] = "owned" \/ ~Renewable(f))

\* Whose execution still stands: the holder has spent its execution and may yet
\* publish it, or has left the lease behind to expire.
Spent == {"source", "beforePublish", "publish"}
Standing(f) == \/ pc[f] \in Spent /\ Secure(f)
               \/ pc[f] = "crashed" /\ Holds(f)
               \/ pc[f] # "check" /\ ~Renewable(f) /\ Holds(f)
Covered == cached # None \/ \E f \in Flights : Standing(f)

\* Owners about to look at the shared cache that can no longer publish.
StaleChecks == {f \in Flights : pc[f] = "check" /\ ~Secure(f)}

\* Each stale check and an uncovered key are executions not yet started but
\* already paid for by a disruption, or by the first miss.
Uncovered == IF Covered THEN 0 ELSE 1
Ledger == executions + Cardinality(StaleChecks) + Uncovered <= 1 + disruptions

IInv == TypeOK /\ Generations /\ Stages /\ Wakeups /\ Ledger

-----------------------------------------------------------------------------
(* What holds besides while renewals keep up (PromptSpec). *)

\* An owner that can renew its lease holds it with the timer on, and until the
\* next renewal is due the lease has all of its time.
Healthy ==
  \A f \in Flights : pc[f] \in Owning /\ Renewable(f) =>
    /\ Holds(f)
    /\ renewal[f] # "off"
    /\ renewal[f] = "armed" => leaseKey.ttl = FullLease

\* Nothing is newer than the data, and as long as nobody has outlived its lease,
\* the owner's result is at least as new as what it is going to replace.
Newer ==
  /\ cached # None => cached <= source
  /\ \A f \in Flights : pc[f] \in {"beforePublish", "publish"} =>
       /\ value[f] <= source
       /\ cached # None /\ (\A g \in Flights : ~Outlived(g)) => cached <= value[f]

PromptInv == IInv /\ Healthy /\ Newer

-----------------------------------------------------------------------------
(* What all the runs together can ask of Redis and of the source. *)

\* Runs that contend no more, and those of them that are past the check.
Decided == {f \in Flights : pc[f] \notin Contending}
Checked == {f \in Decided : pc[f] # "check"}

\* Each run is granted one lease at most and executes the source once at most,
\* however often it waits and contends again (the loop of run returns or throws
\* after runOwner).  So the leases that can expire are bounded by the runs.
RunsClaimOnce ==
  /\ generation <= Cardinality(Decided)
  /\ executions <= Cardinality(Checked)

\* A run does not go back: it contends until it owns or settles, and looks at the
\* shared cache as an owner once.
NoWayBack == Decided \subseteq Decided' /\ Checked \subseteq Checked'

=============================================================================
