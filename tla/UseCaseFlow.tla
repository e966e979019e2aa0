---------------------------- MODULE UseCaseFlow ----------------------------
(***************************************************************************)
(* The write side end to end: UseCaseExecutor runs use cases that send     *)
(* commands to a Runner; the events of those commands are delivered at     *)
(* least once, in any order; each delivery invokes a downstream use case.  *)
(*                                                                         *)
(* The executors are those of UseCaseExecutor, the Runner is what          *)
(* OperationOnce promises and Runner implements.  What joins them is       *)
(* identity: a use case derives the intent of a child command from its own *)
(* intent and a slot, a consumer derives the intent of the downstream use  *)
(* case from the envelope of the event.                                    *)
(***************************************************************************)
EXTENDS Naturals, Sequences

CONSTANTS
  Invocations,   \* calls of UseCaseExecutor.execute()
  Owners,        \* executor processes
  Causes,        \* what the business asked for, each of them once
  Slots,         \* the slots of the child commands of a use case, in order
  Reaction,      \* the slot of the downstream use case
  Snapshots,     \* Operations a use case may build for one slot; they depend
                 \* on what it reads
  None,
  Invoked        \* the process of each call, its cause, and whether it consumes
                 \* the event of the first child of that cause

ASSUME InvokedAssumption ==
  Invoked \in [Invocations -> [owner : Owners, cause : Causes, downstream : BOOLEAN]]
\* A slot names one child of a use case.
ASSUME SlotsAssumption == /\ Slots \in Seq(STRING) /\ Slots # <<>>
                          /\ \A j, k \in 1 .. Len(Slots) : Slots[j] = Slots[k] => j = k

VARIABLES
  record, pc, lease, result,   \* of UseCaseExecutor
  seen,          \* what each execution has been answered, slot by slot
  decided,       \* the Runner's decisions, one record per child intent
  outbox         \* events made durable with the decisions

flowVars == <<seen, decided, outbox>>
vars     == <<record, pc, lease, result, flowVars>>

-----------------------------------------------------------------------------
(* Identity.  UUIDs of different keys differ and the keys separate their     *)
(* parts, so an intent is the path of its derivation.                        *)

Root(cause) == << <<"root", cause>> >>

\* Mutation: the slot does not take part in the derived identity.
DeriveWithoutSlot(parent, slot, discriminator) == Append(parent, <<discriminator>>)

Derive(parent, slot, discriminator) == Append(parent, <<slot, discriminator>>)

EventId(intent, index) == <<intent, index>>

FirstChild(cause) == Derive(Root(cause), Slots[1], None)

\* Mutation: the delivery, not the event, discriminates the downstream intent.
DownstreamOfDelivery(c) == Derive(FirstChild(Invoked[c].cause), Reaction, c)

\* The parent is the intentId of the envelope, the discriminator its eventId.
Downstream(c) ==
  LET parent == FirstChild(Invoked[c].cause) IN
    Derive(parent, Reaction, EventId(parent, 0))

FlowIntent(c) ==
  IF Invoked[c].downstream THEN Downstream(c) ELSE Root(Invoked[c].cause)

Child(c, k) == Derive(FlowIntent(c), Slots[k], None)

FlowIntents == {FlowIntent(c) : c \in Invocations}
Kinds       == {"success", "rolled-back"}
Decision    == [snapshot : Snapshots, kind : Kinds]
FlowResults == UNION {[1 .. n -> Decision] : n \in 1 .. Len(Slots)}

ASSUME NoneAssumption == None \notin FlowIntents \cup Owners \cup FlowResults

Executor == INSTANCE UseCaseExecutorRefinement WITH
  Intents       <- FlowIntents,
  ExecutionIds  <- FlowIntents,
  ExecutionIdOf <- [i \in FlowIntents |-> i],
  Results       <- FlowResults,
  Request       <- [c \in Invocations |->
                      [intent |-> FlowIntent(c), owner |-> Invoked[c].owner]]

-----------------------------------------------------------------------------
\* What the business means by the k-th child of an invocation.
Effect(c, k) == <<Invoked[c].cause, Invoked[c].downstream, k>>
Effects      == Causes \X BOOLEAN \X (1 .. Len(Slots))

ChildIntents == {Derive(i, Slots[k], None) : i \in FlowIntents, k \in 1 .. Len(Slots)}

Decided == [intent : ChildIntents, effect : Effects, run : Invocations,
            snapshot : Snapshots, kind : Kinds]

Init == /\ Executor!Init
        /\ seen = [c \in Invocations |-> <<>>]
        /\ decided = {}
        /\ outbox = {}

\* A consumer exists once the event is durable; the broker may deliver it to
\* several consumers, at any time.
Delivered(c) ==
  Invoked[c].downstream => EventId(FirstChild(Invoked[c].cause), 0) \in outbox

Claims(c) == Delivered(c) /\ Executor!ClaimStep(c) /\ UNCHANGED flowVars

\* The slot the execution is at; a rejected child ends the use case.
Rejected(c) == seen[c] # <<>> /\ seen[c][Len(seen[c])].kind = "rolled-back"
Slot(c)     == Len(seen[c]) + 1
AtChild(c)  == pc[c] = "running" /\ Slot(c) <= Len(Slots) /\ ~Rejected(c)

\* Mutation: the Runner executes a child again that it has already decided.
UndecidedAlways(i) == TRUE

Undecided(i) == \A d \in decided : d.intent # i

\* Mutation: a rolled-back rejection publishes as well.
EventsOfAnyResult(i, kind) == {EventId(i, 0)}

\* One event for a success; a rolled-back rejection carries none.
EventsOf(i, kind) == IF kind = "success" THEN {EventId(i, 0)} ELSE {}

\* Runner.execute decides the child intent of a command, whatever becomes of
\* the execution that waits for its answer.
ChildDecided(c) ==
  /\ AtChild(c) /\ Undecided(Child(c, Slot(c)))
  /\ \E d \in Decision :
       LET i == Child(c, Slot(c)) IN
       /\ decided' = decided \cup {[intent |-> i, effect |-> Effect(c, Slot(c)), run |-> c,
                                    snapshot |-> d.snapshot, kind |-> d.kind]}
       /\ outbox' = outbox \cup EventsOf(i, d.kind)
  /\ UNCHANGED <<record, pc, lease, result, seen>>

\* The decision answers the commands that carry its snapshot; for another one
\* the Runner throws intent-conflict, which UseCaseFails covers.
ChildAnswered(c) ==
  /\ AtChild(c)
  /\ \E d \in decided :
       /\ d.intent = Child(c, Slot(c))
       /\ seen' = [seen EXCEPT ![c] =
                     Append(@, [snapshot |-> d.snapshot, kind |-> d.kind])]
  /\ UNCHANGED <<record, pc, lease, result, decided, outbox>>

\* A read or a command throws, intent-conflict included, or the use case does.
UseCaseFails(c) == Executor!UseCaseThrows(c) /\ UNCHANGED flowVars

UseCaseFinishes(c) ==
  /\ seen[c] # <<>> /\ (Rejected(c) \/ Slot(c) > Len(Slots))
  /\ Executor!UseCaseAnswers(c, seen[c])
  /\ UNCHANGED flowVars

Settles(c) == Executor!StoreStep(c) /\ UNCHANGED flowVars

Expires == (\E x \in FlowIntents : Executor!LeaseExpires(x)) /\ UNCHANGED flowVars
Crashes == (\E o \in Owners : Executor!Crash(o)) /\ UNCHANGED flowVars

\* Nothing runs any more: what has not started waits for an event.
Quiescent ==
  /\ \A c \in Invocations : pc[c] \in Executor!Settled \/ ~Delivered(c)
  /\ UNCHANGED vars

Next ==
  \/ \E c \in Invocations : \/ Claims(c) \/ ChildDecided(c) \/ ChildAnswered(c)
                            \/ UseCaseFails(c) \/ UseCaseFinishes(c) \/ Settles(c)
  \/ Expires \/ Crashes \/ Quiescent

Spec == Init /\ [][Next]_vars

-----------------------------------------------------------------------------
(* The Runner's side of the flow, seen as OperationOnce. *)

Undone       == [kind |-> "none", version |-> 0]
Done(kind)   == [kind |-> kind, version |-> 1]
Traces(yes)  == IF yes THEN {1} ELSE {}

Runner == INSTANCE OperationOnce WITH
  Calls          <- Invocations \X (1 .. Len(Slots)),
  Intents        <- ChildIntents,
  IntentOfCall   <- [p \in Invocations \X (1 .. Len(Slots)) |->
                       Derive(FlowIntent(p[1]), Slots[p[2]], None)],
  CommittedKinds <- {"success"},
  RolledBackKind <- "rolled-back",
  NoDecision     <- Undone,
  decided        <- [i \in ChildIntents |->
                       IF Undecided(i) THEN Undone
                       ELSE Done((CHOOSE d \in decided : d.intent = i).kind)],
  changed        <- [i \in ChildIntents |->
                       Traces(\E d \in decided : d.intent = i /\ d.kind = "success")],
  published      <- [i \in ChildIntents |-> Traces(EventId(i, 0) \in outbox)],
  answer         <- [p \in Invocations \X (1 .. Len(Slots)) |->
                       IF p[2] <= Len(seen[p[1]]) THEN Done(seen[p[1]][p[2]].kind) ELSE Undone]

\* The flow asks no more of the Runner than OperationOnce promises.
RunnerSuffices == Runner!Spec

-----------------------------------------------------------------------------
TypeOK == /\ Executor!TypeOK
          /\ seen \in [Invocations -> {<<>>} \cup FlowResults]
          /\ decided \subseteq Decided

\* Whatever is retried, reclaimed while still running, redelivered, or rebuilt
\* from changed reads: each child command of each business cause takes effect at
\* most once, upstream and downstream (IntentFactory.derive, the claim of the
\* use case, the decision of the Runner).
EffectsOnce == \A d, e \in decided : d.effect = e.effect => d = e

\* Executions of one use case that overlap or follow each other have been given
\* the same answers, slot by slot, although each rebuilds its commands from what
\* it reads at the time.
ExecutionsAgree ==
  \A c, d \in Invocations :
    FlowIntent(c) = FlowIntent(d) =>
      \A k \in 1 .. Len(seen[c]) : k <= Len(seen[d]) => seen[c][k] = seen[d][k]

\* Each of the answers is the decision on the child of c in that slot.
DecidedFor(c, answers) ==
  \A k \in 1 .. Len(answers) :
    \E d \in decided : /\ d.effect = Effect(c, k)
                       /\ [snapshot |-> d.snapshot, kind |-> d.kind] = answers[k]

\* The durable result of a use case, and whatever its callers are returned, by
\* the execution that completed it or by a replay, is made of the decisions on its
\* own children, one for each slot it went through: no slot is answered with the
\* decision of another, and nothing comes from an execution that lost its lease.
ResultsAreDecided ==
  \A c \in Invocations :
    /\ record[FlowIntent(c)].state = "completed" =>
         DecidedFor(c, record[FlowIntent(c)].result)
    /\ pc[c] = "returned" => DecidedFor(c, result[c])

=============================================================================
