-------------------------- MODULE UseCaseFlowProofs --------------------------
(***************************************************************************)
(* The safety of UseCaseFlow, for any invocations, causes and slots: what  *)
(* identity, the claim of the use case and the decision of the Runner give *)
(* together.                                                               *)
(***************************************************************************)
EXTENDS UseCaseFlow, SequenceTheorems, TLAPS

Answered(d) == [snapshot |-> d.snapshot, kind |-> d.kind]

\* Each of the answers is what was decided on the child of its slot.
Backed(x, answers, ds) ==
  /\ answers \in Seq(Decision) /\ Len(answers) <= Len(Slots)
  /\ \A k \in 1 .. Len(answers) :
       \E d \in ds : d.intent = Derive(x, Slots[k], None) /\ Answered(d) = answers[k]

\* A decision knows the child it is of, and is the only one of its intent.
DecidedOnce ==
  /\ \A d \in decided : \E c \in Invocations, k \in 1 .. Len(Slots) :
       d.intent = Child(c, k) /\ d.effect = Effect(c, k)
  /\ \A d \in decided : Answered(d) \in Decision
  /\ \A d, e \in decided : d.intent = e.intent => d = e

SeenBacked == \A c \in Invocations : Backed(FlowIntent(c), seen[c], decided)

Fields == {"state", "intent", "version", "owner", "expired", "result"}

\* A result on its way to the store is what its execution has seen.
ResultsBacked ==
  /\ DOMAIN pc = Invocations /\ DOMAIN result = Invocations
  /\ DOMAIN record = FlowIntents
  /\ \A x \in FlowIntents : /\ DOMAIN record[x] = Fields
                            /\ record[x].state = "completed" => Backed(x, record[x].result, decided)
  /\ \A c \in Invocations : pc[c] = "completing" => result[c] = seen[c]

IInv == DOMAIN seen = Invocations /\ DecidedOnce /\ SeenBacked /\ ResultsBacked

-----------------------------------------------------------------------------
(* Identity. *)

\* The same effect is the same child.
LEMMA EffectNamesChild ==
  ASSUME NEW c \in Invocations, NEW d \in Invocations,
         NEW j \in 1 .. Len(Slots), NEW k \in 1 .. Len(Slots), Effect(c, j) = Effect(d, k)
  PROVE  FlowIntent(c) = FlowIntent(d) /\ j = k /\ Child(c, j) = Child(d, k)
<1>1. Invoked[c].cause = Invoked[d].cause /\ Invoked[c].downstream = Invoked[d].downstream /\ j = k
  BY DEF Effect
<1>2. FlowIntent(c) = FlowIntent(d)
  BY <1>1 DEF FlowIntent, Downstream, FirstChild
<1>. QED
  BY <1>1, <1>2 DEF Child

Extends(u, s, a) == u = Append(s, a)

LEMMA Longer ==
  ASSUME NEW S, NEW s \in Seq(S), NEW a \in S, NEW u, Extends(u, s, a)
  PROVE  u \in Seq(S) /\ Len(u) = Len(s) + 1
BY DEF Extends

LEMMA LastOne ==
  ASSUME NEW S, NEW s \in Seq(S), NEW a \in S, NEW u, Extends(u, s, a)
  PROVE  u[Len(s) + 1] = a /\ \A k \in 1 .. Len(s) : u[k] = s[k]
BY DEF Extends

LEMMA LastApart ==
  ASSUME NEW S, NEW s \in Seq(S), NEW t \in Seq(S), NEW a \in S, NEW b \in S,
         NEW u, Extends(u, s, a), Extends(u, t, b)
  PROVE  s = t /\ a = b
<1>1. Len(s) = Len(t)
  <2>1. Len(u) = Len(s) + 1 /\ Len(u) = Len(t) + 1 /\ Len(s) \in Nat /\ Len(t) \in Nat
    BY Longer
  <2>. QED
    BY <2>1
<1>2. s = t
  BY <1>1, LastOne, SeqEqual
<1>. QED
  BY <1>1, LastOne

\* The keys a path is made of.
Part == {<<"root", c>> : c \in Causes}
        \cup {<<Slots[k], None>> : k \in 1 .. Len(Slots)}
        \cup {<<Reaction, EventId(FirstChild(c), 0)>> : c \in Causes}

LEMMA Paths ==
  ASSUME NEW c \in Invocations
  PROVE  /\ Invoked[c].cause \in Causes /\ Invoked[c].downstream \in BOOLEAN
         /\ Root(Invoked[c].cause) \in Seq(Part) /\ Len(Root(Invoked[c].cause)) = 1
         /\ FirstChild(Invoked[c].cause) \in Seq(Part) /\ Len(FirstChild(Invoked[c].cause)) = 2
         /\ Extends(FirstChild(Invoked[c].cause), Root(Invoked[c].cause), <<Slots[1], None>>)
         /\ Downstream(c) \in Seq(Part) /\ Len(Downstream(c)) = 3
         /\ Extends(Downstream(c), FirstChild(Invoked[c].cause),
                    <<Reaction, EventId(FirstChild(Invoked[c].cause), 0)>>)
         /\ FlowIntent(c) \in Seq(Part)
<1>. DEFINE x == Invoked[c].cause
<1>1. x \in Causes /\ Invoked[c].downstream \in BOOLEAN
  BY InvokedAssumption
<1>2. <<"root", x>> \in Part /\ <<Slots[1], None>> \in Part
      /\ <<Reaction, EventId(FirstChild(x), 0)>> \in Part
  <2>1. 1 \in 1 .. Len(Slots)
    BY SlotsAssumption
  <2>. QED
    BY <1>1, <2>1 DEF Part
<1>. HIDE DEF x, Part
<1>3. Root(x) \in Seq(Part) /\ Len(Root(x)) = 1
  BY <1>2 DEF Root
<1>4. Extends(FirstChild(x), Root(x), <<Slots[1], None>>)
  BY DEF Extends, FirstChild, Derive
<1>5. FirstChild(x) \in Seq(Part) /\ Len(FirstChild(x)) = 2
  <2>1. FirstChild(x) \in Seq(Part) /\ Len(FirstChild(x)) = Len(Root(x)) + 1
    BY <1>2, <1>3, <1>4, Longer
  <2>. QED
    BY <1>3, <2>1
<1>6. Extends(Downstream(c), FirstChild(x), <<Reaction, EventId(FirstChild(x), 0)>>)
  BY DEF Extends, Downstream, Derive, x
<1>7. Downstream(c) \in Seq(Part) /\ Len(Downstream(c)) = 3
  <2>1. Downstream(c) \in Seq(Part) /\ Len(Downstream(c)) = Len(FirstChild(x)) + 1
    BY <1>2, <1>5, <1>6, Longer
  <2>. QED
    BY <1>5, <2>1
<1>8. FlowIntent(c) \in Seq(Part)
  BY <1>3, <1>7 DEF FlowIntent, x
<1>. QED
  BY <1>1, <1>3, <1>4, <1>5, <1>6, <1>7, <1>8 DEF x

\* The path of an intent tells its cause, and whether an event began it.
LEMMA IntentNamesCause ==
  ASSUME NEW c \in Invocations, NEW d \in Invocations, FlowIntent(c) = FlowIntent(d)
  PROVE  /\ Invoked[c].cause = Invoked[d].cause
         /\ Invoked[c].downstream = Invoked[d].downstream
<1>. DEFINE x == Invoked[c].cause
            y == Invoked[d].cause
<1>1. Root(x) = Root(y) => x = y
  BY DEF Root
<1>2. FlowIntent(c) = IF Invoked[c].downstream THEN Downstream(c) ELSE Root(x)
  BY DEF FlowIntent
<1>3. FlowIntent(d) = IF Invoked[d].downstream THEN Downstream(d) ELSE Root(y)
  BY DEF FlowIntent
<1>4. Len(Root(x)) = 1 /\ Len(Root(y)) = 1 /\ Len(Downstream(c)) = 3 /\ Len(Downstream(d)) = 3
      /\ Invoked[c].downstream \in BOOLEAN /\ Invoked[d].downstream \in BOOLEAN
  BY Paths
<1>5. Invoked[c].downstream = Invoked[d].downstream
  <2>1. Len(FlowIntent(c)) = IF Invoked[c].downstream THEN 3 ELSE 1
    BY <1>2, <1>4
  <2>2. Len(FlowIntent(d)) = IF Invoked[d].downstream THEN 3 ELSE 1
    BY <1>3, <1>4
  <2>. HIDE DEF x, y
  <2>. QED
    BY <1>4, <2>1, <2>2
<1>6. CASE ~Invoked[c].downstream
  BY <1>1, <1>2, <1>3, <1>5, <1>6
<1>7. CASE Invoked[c].downstream
  <2>1. Downstream(c) = Downstream(d)
    BY <1>2, <1>3, <1>5, <1>7
  <2>. DEFINE p == <<Reaction, EventId(FirstChild(x), 0)>>
              q == <<Reaction, EventId(FirstChild(y), 0)>>
              a == <<Slots[1], None>>
  <2>2. /\ Root(x) \in Seq(Part) /\ Root(y) \in Seq(Part)
        /\ FirstChild(x) \in Seq(Part) /\ FirstChild(y) \in Seq(Part)
        /\ Extends(FirstChild(x), Root(x), a) /\ Extends(FirstChild(y), Root(y), a)
        /\ Extends(Downstream(c), FirstChild(x), p) /\ Extends(Downstream(d), FirstChild(y), q)
        /\ x \in Causes /\ y \in Causes
    BY Paths
  <2>3. p \in Part /\ q \in Part /\ a \in Part
    <3>1. 1 \in 1 .. Len(Slots)
      BY SlotsAssumption
    <3>. QED
      BY <2>2, <3>1 DEF Part
  <2>. HIDE DEF p, q, a
  <2>4. FirstChild(x) = FirstChild(y)
    <3>1. Extends(Downstream(c), FirstChild(x), p) /\ Extends(Downstream(c), FirstChild(y), q)
      BY <2>1, <2>2
    <3>. QED
      BY <2>2, <2>3, <3>1, LastApart
  <2>5. Root(x) = Root(y)
    <3>1. Extends(FirstChild(x), Root(x), a) /\ Extends(FirstChild(x), Root(y), a)
      BY <2>2, <2>4
    <3>. QED
      BY <2>2, <2>3, <3>1, LastApart
  <2>. QED
    BY <1>1, <1>5, <2>5
<1>. QED
  BY <1>4, <1>5, <1>6, <1>7

\* The same child is the same effect.
LEMMA ChildNamesEffect ==
  ASSUME NEW c \in Invocations, NEW d \in Invocations,
         NEW j \in 1 .. Len(Slots), NEW k \in 1 .. Len(Slots), Child(c, j) = Child(d, k)
  PROVE  Effect(c, j) = Effect(d, k)
<1>. DEFINE a == <<Slots[j], None>>
            b == <<Slots[k], None>>
<1>1. Extends(Child(c, j), FlowIntent(c), a) /\ Extends(Child(c, j), FlowIntent(d), b)
  BY DEF Extends, Child, Derive
<1>2. a \in Part /\ b \in Part
  BY DEF Part
<1>3. FlowIntent(c) \in Seq(Part) /\ FlowIntent(d) \in Seq(Part)
  BY Paths
<1>4. FlowIntent(c) = FlowIntent(d) /\ a = b
  <2>. HIDE DEF a, b
  <2>. QED
    BY <1>1, <1>2, <1>3, LastApart
<1>5. j = k
  BY <1>4, SlotsAssumption
<1>. QED
  BY <1>4, <1>5, IntentNamesCause DEF Effect

-----------------------------------------------------------------------------
(* The invariant. *)

LEMMA BackedStays ==
  ASSUME NEW x, NEW answers, NEW ds, NEW es, ds \subseteq es, Backed(x, answers, ds)
  PROVE  Backed(x, answers, es)
BY DEF Backed

LEMMA Ids ==
  ASSUME NEW c \in Invocations
  PROVE  /\ FlowIntent(c) \in FlowIntents
         /\ Executor!IdOf(c) = FlowIntent(c) /\ Executor!IntentOf(c) = FlowIntent(c)
         /\ Executor!RecordOf(c) = record[FlowIntent(c)]
<1>1. FlowIntent(c) \in FlowIntents
  BY DEF FlowIntents
<1>. QED
  BY <1>1 DEF Executor!IdOf, Executor!IntentOf, Executor!RecordOf

LEMMA Initially == Init => IInv
<1>. SUFFICES ASSUME Init PROVE IInv
  OBVIOUS
<1>. USE DEF Init, Executor!Init
<1>1. DOMAIN seen = Invocations /\ DecidedOnce
  BY DEF DecidedOnce
<1>2. SeenBacked
  <2>1. <<>> \in Seq(Decision) /\ Len(<<>>) = 0 /\ Len(Slots) \in Nat
    BY SlotsAssumption
  <2>2. \A x : Backed(x, <<>>, decided)
    BY <2>1 DEF Backed
  <2>. QED
    BY <2>2 DEF SeenBacked
<1>3. ResultsBacked
  BY DEF ResultsBacked, Executor!Absent, Fields
<1>. QED
  BY <1>1, <1>2, <1>3 DEF IInv

\* A step of the store writes one record, at most, with what is backed.
LEMMA WriteKeeps ==
  ASSUME IInv, NEW x \in FlowIntents, NEW r,
         DOMAIN r = Fields, r.state = "completed" => Backed(x, r.result, decided),
         record' = [record EXCEPT ![x] = r]
  PROVE  /\ DOMAIN record' = FlowIntents
         /\ \A y \in FlowIntents :
              /\ DOMAIN record'[y] = Fields
              /\ record'[y].state = "completed" => Backed(y, record'[y].result, decided)
BY DEF IInv, ResultsBacked

\* What the steps of a use case do to the records, the calls and their results.
LEMMA ExecutorKeeps ==
  ASSUME IInv, UNCHANGED flowVars,
         DOMAIN record' = FlowIntents,
         \A y \in FlowIntents :
           /\ DOMAIN record'[y] = Fields
           /\ record'[y].state = "completed" => Backed(y, record'[y].result, decided),
         DOMAIN pc' = Invocations, DOMAIN result' = Invocations,
         \A c \in Invocations : pc'[c] = "completing" => result'[c] = seen[c]
  PROVE  IInv'
BY DEF IInv, flowVars, DecidedOnce, SeenBacked, ResultsBacked

LEMMA ClaimsKeep ==
  ASSUME IInv, NEW c \in Invocations, Claims(c)
  PROVE  IInv'
<1>. DEFINE x == FlowIntent(c)
            r == Executor!Claimed(record[x], x, Invoked[c].owner)
<1>0. UNCHANGED flowVars /\ x \in FlowIntents /\ Executor!RecordOf(c) = record[x]
  BY Ids DEF Claims
<1>1. /\ DOMAIN pc' = Invocations /\ DOMAIN result' = Invocations
      /\ \A d \in Invocations : pc'[d] = "completing" => result'[d] = seen[d]
  BY DEF Claims, Executor!ClaimStep, Executor!ClaimGranted, Executor!ClaimFindsResult,
         Executor!ClaimRefused, Executor!ClaimFails, Executor!Goto, IInv, ResultsBacked
<1>2. UNCHANGED record \/ record' = [record EXCEPT ![x] = r]
  BY Ids DEF Claims, Executor!ClaimStep, Executor!ClaimGranted, Executor!ClaimFindsResult,
             Executor!ClaimRefused, Executor!ClaimFails, Executor!Write
<1>3. DOMAIN r = Fields /\ r.state # "completed"
  BY DEF Executor!Claimed, Fields
<1>4. CASE UNCHANGED record
  BY <1>0, <1>1, <1>4, ExecutorKeeps DEF IInv, ResultsBacked
<1>5. CASE record' = [record EXCEPT ![x] = r]
  <2>. HIDE DEF r, x
  <2>1. /\ DOMAIN record' = FlowIntents
        /\ \A y \in FlowIntents :
             /\ DOMAIN record'[y] = Fields
             /\ record'[y].state = "completed" => Backed(y, record'[y].result, decided)
    BY <1>0, <1>3, <1>5, WriteKeeps
  <2>. QED
    BY <1>0, <1>1, <2>1, ExecutorKeeps
<1>. QED
  BY <1>2, <1>4, <1>5

LEMMA SettlesKeep ==
  ASSUME IInv, NEW c \in Invocations, Settles(c)
  PROVE  IInv'
<1>. DEFINE x == FlowIntent(c)
            done == Executor!Completed(record[x], result[c])
            free == Executor!Released(record[x])
<1>0. UNCHANGED flowVars /\ x \in FlowIntents /\ Executor!RecordOf(c) = record[x]
  BY Ids DEF Settles
<1>1. /\ DOMAIN pc' = Invocations /\ DOMAIN result' = Invocations
      /\ \A d \in Invocations : pc'[d] = "completing" => result'[d] = seen[d]
  BY DEF Settles, Executor!StoreStep, Executor!CompletionAccepted, Executor!CompletionRejected,
         Executor!CompletionFails, Executor!Release, Executor!Goto, IInv, ResultsBacked
<1>2. \/ UNCHANGED record
      \/ pc[c] = "completing" /\ record' = [record EXCEPT ![x] = done]
      \/ record' = [record EXCEPT ![x] = free]
  BY Ids DEF Settles, Executor!StoreStep, Executor!CompletionAccepted,
             Executor!CompletionRejected, Executor!CompletionFails, Executor!Release,
             Executor!Write
<1>3. DOMAIN record[x] = Fields
  BY <1>0 DEF IInv, ResultsBacked
<1>4. CASE UNCHANGED record
  BY <1>0, <1>1, <1>4, ExecutorKeeps DEF IInv, ResultsBacked
<1>5. CASE pc[c] = "completing" /\ record' = [record EXCEPT ![x] = done]
  <2>1. DOMAIN done = Fields /\ done.result = result[c]
    BY <1>3 DEF Executor!Completed, Fields
  <2>2. Backed(x, done.result, decided)
    BY <1>5, <2>1 DEF IInv, SeenBacked, ResultsBacked
  <2>. HIDE DEF done, x
  <2>3. /\ DOMAIN record' = FlowIntents
        /\ \A y \in FlowIntents :
             /\ DOMAIN record'[y] = Fields
             /\ record'[y].state = "completed" => Backed(y, record'[y].result, decided)
    BY <1>0, <1>5, <2>1, <2>2, WriteKeeps
  <2>. QED
    BY <1>0, <1>1, <2>3, ExecutorKeeps
<1>6. CASE record' = [record EXCEPT ![x] = free]
  <2>1. DOMAIN free = Fields /\ free.state # "completed"
    BY <1>3 DEF Executor!Released, Fields
  <2>. HIDE DEF free, x
  <2>3. /\ DOMAIN record' = FlowIntents
        /\ \A y \in FlowIntents :
             /\ DOMAIN record'[y] = Fields
             /\ record'[y].state = "completed" => Backed(y, record'[y].result, decided)
    BY <1>0, <1>6, <2>1, WriteKeeps
  <2>. QED
    BY <1>0, <1>1, <2>3, ExecutorKeeps
<1>. QED
  BY <1>2, <1>4, <1>5, <1>6

LEMMA RunsKeep ==
  ASSUME IInv, NEW c \in Invocations, UseCaseFails(c) \/ UseCaseFinishes(c)
  PROVE  IInv'
<1>1. /\ UNCHANGED flowVars /\ UNCHANGED record
      /\ DOMAIN pc' = Invocations /\ DOMAIN result' = Invocations
      /\ \A d \in Invocations : pc'[d] = "completing" => result'[d] = seen[d]
  BY DEF UseCaseFails, UseCaseFinishes, Executor!UseCaseThrows, Executor!UseCaseAnswers,
         Executor!Goto, IInv, ResultsBacked
<1>. QED
  BY <1>1, ExecutorKeeps DEF IInv, ResultsBacked

LEMMA WorldKeeps ==
  ASSUME IInv, Expires \/ Crashes
  PROVE  IInv'
<1>1. CASE Expires
  <2>1. PICK x \in FlowIntents : Executor!LeaseExpires(x)
    BY <1>1 DEF Expires
  <2>. DEFINE r == [record[x] EXCEPT !.expired = TRUE]
  <2>2. record' = [record EXCEPT ![x] = r] /\ UNCHANGED <<pc, result>> /\ UNCHANGED flowVars
    BY <1>1, <2>1 DEF Executor!LeaseExpires, Expires
  <2>3. DOMAIN r = Fields /\ r.state # "completed"
    BY <2>1 DEF Executor!LeaseExpires, IInv, ResultsBacked, Fields
  <2>. HIDE DEF r
  <2>4. /\ DOMAIN record' = FlowIntents
        /\ \A y \in FlowIntents :
             /\ DOMAIN record'[y] = Fields
             /\ record'[y].state = "completed" => Backed(y, record'[y].result, decided)
    BY <2>2, <2>3, WriteKeeps
  <2>. QED
    BY <2>2, <2>4, ExecutorKeeps DEF IInv, ResultsBacked
<1>2. CASE Crashes
  <2>1. /\ UNCHANGED <<record, result>> /\ UNCHANGED flowVars
        /\ DOMAIN pc' = Invocations
        /\ \A d \in Invocations : pc'[d] = "completing" => pc[d] = "completing"
    BY <1>2 DEF Crashes, Executor!Crash, IInv, ResultsBacked
  <2>. QED
    BY <2>1, ExecutorKeeps DEF IInv, ResultsBacked
<1>. QED
  BY <1>1, <1>2

LEMMA DecidedKeeps ==
  ASSUME IInv, NEW c \in Invocations, ChildDecided(c)
  PROVE  IInv'
<1>1. PICK e \in Decision :
        decided' = decided \cup
          {[intent |-> Child(c, Slot(c)), effect |-> Effect(c, Slot(c)), run |-> c,
            snapshot |-> e.snapshot, kind |-> e.kind]}
  BY DEF ChildDecided
<1>2. decided \subseteq decided' /\ UNCHANGED <<record, pc, lease, result, seen>>
  BY <1>1 DEF ChildDecided
<1>3. Slot(c) \in 1 .. Len(Slots) /\ Undecided(Child(c, Slot(c)))
  <2>1. Len(seen[c]) \in Nat /\ Slot(c) <= Len(Slots) /\ Len(Slots) \in Nat
    BY SlotsAssumption DEF ChildDecided, AtChild, IInv, SeenBacked, Backed
  <2>. QED
    BY <2>1 DEF ChildDecided, Slot
<1>4. DecidedOnce'
  <2>. DEFINE new == [intent |-> Child(c, Slot(c)), effect |-> Effect(c, Slot(c)), run |-> c,
                      snapshot |-> e.snapshot, kind |-> e.kind]
  <2>1. new.intent = Child(c, Slot(c)) /\ new.effect = Effect(c, Slot(c))
    OBVIOUS
  <2>2. decided' = decided \cup {new}
    BY <1>1
  <2>. HIDE DEF new
  <2>3. \A d \in decided' : \E f \in Invocations, k \in 1 .. Len(Slots) :
          d.intent = Child(f, k) /\ d.effect = Effect(f, k)
    BY <1>3, <2>1, <2>2 DEF IInv, DecidedOnce
  <2>4. \A d, f \in decided' : d.intent = f.intent => d = f
    BY <1>3, <2>1, <2>2 DEF IInv, DecidedOnce, Undecided
  <2>5. \A d \in decided' : Answered(d) \in Decision
    <3>1. Answered(new) = e
      BY DEF new, Answered, Decision
    <3>. QED
      BY <2>2, <3>1 DEF IInv, DecidedOnce
  <2>. QED
    BY <2>3, <2>4, <2>5 DEF DecidedOnce
<1>5. SeenBacked'
  BY <1>2, BackedStays DEF IInv, SeenBacked
<1>6. ResultsBacked'
  BY <1>2, BackedStays DEF IInv, ResultsBacked
<1>. QED
  BY <1>2, <1>4, <1>5, <1>6 DEF IInv

LEMMA AnsweredKeeps ==
  ASSUME IInv, NEW c \in Invocations, ChildAnswered(c)
  PROVE  IInv'
<1>1. PICK d \in decided :
        /\ d.intent = Child(c, Slot(c))
        /\ seen' = [seen EXCEPT ![c] = Append(@, Answered(d))]
  BY DEF ChildAnswered, Answered
<1>2. UNCHANGED <<record, pc, lease, result, decided>> /\ pc[c] = "running"
      /\ Slot(c) <= Len(Slots)
  BY DEF ChildAnswered, AtChild
<1>3. Answered(d) \in Decision
  BY <1>1 DEF IInv, DecidedOnce
<1>4. /\ seen[c] \in Seq(Decision) /\ Slot(c) = Len(seen[c]) + 1
      /\ \A k \in 1 .. Len(seen[c]) :
           \E e \in decided : e.intent = Child(c, k) /\ Answered(e) = seen[c][k]
  BY DEF IInv, SeenBacked, Backed, Slot, Child
<1>5. PICK longer : longer = Append(seen[c], Answered(d))
  OBVIOUS
<1>6. /\ longer \in Seq(Decision) /\ Len(longer) = Slot(c)
      /\ longer[Slot(c)] = Answered(d)
      /\ \A k \in 1 .. Len(seen[c]) : longer[k] = seen[c][k]
  <2>1. Extends(longer, seen[c], Answered(d))
    BY <1>5 DEF Extends
  <2>. QED
    BY <1>3, <1>4, <2>1, Longer, LastOne
<1>7. seen' = [seen EXCEPT ![c] = longer]
  BY <1>1, <1>5
<1>8. Backed(FlowIntent(c), longer, decided)
  <2>1. ASSUME NEW k \in 1 .. Len(longer)
        PROVE  \E e \in decided : e.intent = Child(c, k) /\ Answered(e) = longer[k]
    <3>1. CASE k = Slot(c)
      BY <1>1, <1>6, <3>1
    <3>2. CASE k # Slot(c)
      <4>1. k \in 1 .. Len(seen[c])
        BY <1>4, <1>6, <3>2
      <4>. QED
        BY <1>4, <1>6, <4>1
    <3>. QED
      BY <3>1, <3>2
  <2>. QED
    BY <1>2, <1>6, <2>1 DEF Backed, Child
<1>9. DecidedOnce' /\ DOMAIN seen' = Invocations
  BY <1>2, <1>7 DEF IInv, DecidedOnce
<1>10. SeenBacked'
  BY <1>2, <1>7, <1>8 DEF IInv, SeenBacked
<1>11. ResultsBacked'
  BY <1>2, <1>7 DEF IInv, ResultsBacked
<1>. QED
  BY <1>9, <1>10, <1>11 DEF IInv

LEMMA StepKeeps ==
  ASSUME IInv, [Next]_vars
  PROVE  IInv'
<1>1. ASSUME UNCHANGED vars PROVE IInv'
  BY <1>1, ExecutorKeeps DEF vars, IInv, ResultsBacked
<1>2. ASSUME Next PROVE IInv'
  <2>1. CASE Quiescent
    BY <1>1, <2>1 DEF Quiescent
  <2>2. CASE ~Quiescent
    BY <1>2, <2>2, ClaimsKeep, DecidedKeeps, AnsweredKeeps, RunsKeep, SettlesKeep, WorldKeeps
    DEF Next
  <2>. QED
    BY <2>1, <2>2
<1>. QED
  BY <1>1, <1>2

-----------------------------------------------------------------------------
\* The invariant holds in every reachable state.
THEOREM InvariantHolds == Spec => []IInv
<1>1. IInv /\ [Next]_vars => IInv'
  BY StepKeeps
<1>. QED
  BY Initially, <1>1, PTL DEF Spec

\* Each child command of each business cause takes effect at most once, however
\* many executors, executions and deliveries there are.
THEOREM EffectsHappenOnce == Spec => []EffectsOnce
<1>1. IInv => EffectsOnce
  <2>. SUFFICES ASSUME IInv, NEW d \in decided, NEW e \in decided, d.effect = e.effect
                PROVE  d = e
    BY DEF EffectsOnce
  <2>1. PICK b \in Invocations, j \in 1 .. Len(Slots) :
          d.intent = Child(b, j) /\ d.effect = Effect(b, j)
    BY DEF IInv, DecidedOnce
  <2>2. PICK c \in Invocations, k \in 1 .. Len(Slots) :
          e.intent = Child(c, k) /\ e.effect = Effect(c, k)
    BY DEF IInv, DecidedOnce
  <2>3. d.intent = e.intent
    <3>1. Effect(b, j) = Effect(c, k)
      BY <2>1, <2>2
    <3>2. Child(b, j) = Child(c, k)
      BY <3>1, EffectNamesChild
    <3>. QED
      BY <2>1, <2>2, <3>2
  <2>. QED
    BY <2>3 DEF IInv, DecidedOnce
<1>. QED
  BY InvariantHolds, <1>1, PTL

\* Executions of one use case have been given the same answers, slot by slot.
THEOREM ExecutionsAlwaysAgree == Spec => []ExecutionsAgree
<1>1. IInv => ExecutionsAgree
  <2>. SUFFICES ASSUME IInv, NEW c \in Invocations, NEW d \in Invocations,
                       FlowIntent(c) = FlowIntent(d),
                       NEW k \in 1 .. Len(seen[c]), k <= Len(seen[d])
                PROVE  seen[c][k] = seen[d][k]
    BY DEF ExecutionsAgree
  <2>1. k \in 1 .. Len(seen[d])
    BY DEF IInv, SeenBacked, Backed
  <2>2. PICK e \in decided :
          e.intent = Derive(FlowIntent(c), Slots[k], None) /\ Answered(e) = seen[c][k]
    BY DEF IInv, SeenBacked, Backed
  <2>3. PICK f \in decided :
          f.intent = Derive(FlowIntent(c), Slots[k], None) /\ Answered(f) = seen[d][k]
    BY <2>1 DEF IInv, SeenBacked, Backed
  <2>4. e = f
    BY <2>2, <2>3 DEF IInv, DecidedOnce
  <2>. QED
    BY <2>2, <2>3, <2>4
<1>. QED
  BY InvariantHolds, <1>1, PTL

\* A durable result is made of the decisions on the children of its own use case.
LEMMA StoredIsDecided ==
  ASSUME IInv, NEW c \in Invocations, record[FlowIntent(c)].state = "completed"
  PROVE  DecidedFor(c, record[FlowIntent(c)].result)
<1>. SUFFICES ASSUME NEW k \in 1 .. Len(record[FlowIntent(c)].result)
              PROVE  \E d \in decided :
                       /\ d.effect = Effect(c, k)
                       /\ Answered(d) = record[FlowIntent(c)].result[k]
  BY DEF DecidedFor, Answered
<1>1. Backed(FlowIntent(c), record[FlowIntent(c)].result, decided)
  BY Ids DEF IInv, ResultsBacked
<1>2. PICK d \in decided :
        d.intent = Child(c, k) /\ Answered(d) = record[FlowIntent(c)].result[k]
  BY <1>1 DEF Backed, Child
<1>3. k \in 1 .. Len(Slots)
  <2>1. Len(record[FlowIntent(c)].result) \in Nat /\ Len(Slots) \in Nat
        /\ Len(record[FlowIntent(c)].result) <= Len(Slots)
    BY <1>1, SlotsAssumption DEF Backed
  <2>. QED
    BY <2>1
<1>4. PICK b \in Invocations, j \in 1 .. Len(Slots) :
        d.intent = Child(b, j) /\ d.effect = Effect(b, j)
  BY DEF IInv, DecidedOnce
<1>5. Effect(b, j) = Effect(c, k)
  <2>1. Child(b, j) = Child(c, k)
    BY <1>2, <1>4
  <2>. QED
    BY <1>3, <2>1, ChildNamesEffect, Zenon
<1>. QED
  BY <1>2, <1>4, <1>5

-----------------------------------------------------------------------------
(* The flow is a behaviour of UseCaseExecutor: what is proved of executors     *)
(* holds of those of the flow.                                                 *)

LEMMA SeenIsResult ==
  ASSUME NEW c \in Invocations, SeenBacked, seen[c] # <<>>
  PROVE  seen[c] \in FlowResults
<1>1. seen[c] \in Seq(Decision) /\ Len(seen[c]) <= Len(Slots)
  BY DEF SeenBacked, Backed
<1>2. Len(Slots) \in Nat /\ Len(seen[c]) \in 1 .. Len(Slots)
  BY <1>1, SlotsAssumption
<1>3. seen[c] \in [1 .. Len(seen[c]) -> Decision]
  BY <1>1
<1>. QED
  BY <1>2, <1>3 DEF FlowResults

\* The flow does nothing that an executor and its store do not allow, for any use
\* cases, deliveries and Runner: it restricts when calls begin and what use cases
\* answer.
THEOREM ExecutorIsUsed == Spec => Executor!Spec
<1>1. Init => Executor!Init
  BY DEF Init
<1>2. IInv /\ [Next]_vars => [Executor!Next]_Executor!vars
  <2>. SUFFICES ASSUME IInv, [Next]_vars PROVE [Executor!Next]_Executor!vars
    OBVIOUS
  <2>1. ASSUME NEW c \in Invocations, Claims(c) PROVE Executor!Next
    BY <2>1 DEF Claims, Executor!Next
  <2>2. ASSUME NEW c \in Invocations, ChildDecided(c) \/ ChildAnswered(c)
        PROVE  UNCHANGED Executor!vars
    BY <2>2 DEF ChildDecided, ChildAnswered, Executor!vars
  <2>3. ASSUME NEW c \in Invocations, UseCaseFails(c) PROVE Executor!Next
    BY <2>3 DEF UseCaseFails, Executor!UseCaseSettles, Executor!Next
  <2>4. ASSUME NEW c \in Invocations, UseCaseFinishes(c) PROVE Executor!Next
    <3>1. Executor!UseCaseSettles(c)
      BY <2>4, SeenIsResult DEF UseCaseFinishes, IInv, Executor!UseCaseSettles
    <3>. QED
      BY <3>1 DEF Executor!Next
  <2>5. ASSUME NEW c \in Invocations, Settles(c) PROVE Executor!Next
    BY <2>5 DEF Settles, Executor!Next
  <2>6. ASSUME Expires \/ Crashes PROVE Executor!Next
    BY <2>6 DEF Expires, Crashes, Executor!Next
  <2>7. CASE UNCHANGED vars
    BY <2>7 DEF vars, Executor!vars
  <2>. QED
    BY <2>1, <2>2, <2>3, <2>4, <2>5, <2>6, <2>7 DEF Next, Quiescent
<1>. QED
  BY <1>1, <1>2, InvariantHolds, PTL DEF Spec, Executor!Spec

\* The theorems of UseCaseExecutorProofs, about the executors of the flow.
Proven == INSTANCE UseCaseExecutorProofs WITH
  Intents       <- FlowIntents,
  ExecutionIds  <- FlowIntents,
  ExecutionIdOf <- [i \in FlowIntents |-> i],
  Results       <- FlowResults,
  Request       <- [c \in Invocations |->
                      [intent |-> FlowIntent(c), owner |-> Invoked[c].owner]]

LEMMA ProvenInit == Executor!Init <=> Proven!Init
BY DEF Executor!Init, Proven!Init, Executor!Absent, Proven!Absent

LEMMA ProvenStep == [Executor!Next]_Executor!vars <=> [Proven!Next]_Proven!vars
BY DEF Executor!Next, Proven!Next, Executor!vars, Proven!vars, Executor!ClaimStep,
       Proven!ClaimStep, Executor!UseCaseSettles, Proven!UseCaseSettles,
       Executor!StoreStep, Proven!StoreStep, Executor!LeaseExpires,
       Proven!LeaseExpires, Executor!Crash, Proven!Crash, Executor!Quiescent,
       Proven!Quiescent, Executor!ClaimGranted, Proven!ClaimGranted,
       Executor!ClaimFindsResult, Proven!ClaimFindsResult, Executor!ClaimRefused,
       Proven!ClaimRefused, Executor!ClaimFails, Proven!ClaimFails,
       Executor!UseCaseThrows, Proven!UseCaseThrows, Executor!UseCaseAnswers,
       Proven!UseCaseAnswers, Executor!CompletionAccepted, Proven!CompletionAccepted,
       Executor!CompletionRejected, Proven!CompletionRejected,
       Executor!CompletionFails, Proven!CompletionFails, Executor!Release,
       Proven!Release, Executor!RecordOf, Proven!RecordOf, Executor!IntentOf,
       Proven!IntentOf, Executor!IdOf, Proven!IdOf, Executor!ClaimType,
       Proven!ClaimType, Executor!Claimed, Proven!Claimed, Executor!Completed,
       Proven!Completed, Executor!Released, Proven!Released, Executor!SameLease,
       Proven!SameLease, Executor!Write, Proven!Write, Executor!Goto, Proven!Goto,
       Executor!Live, Proven!Live, Executor!Settled, Proven!Settled,
       Executor!Reclaimable, Proven!Reclaimable

\* What the theorems assume of their constants.
LEMMA ProvenAssumptions ==
  /\ [i \in FlowIntents |-> i] \in [FlowIntents -> FlowIntents]
  /\ [c \in Invocations |-> [intent |-> FlowIntent(c), owner |-> Invoked[c].owner]]
       \in [Invocations -> [intent : FlowIntents, owner : Owners]]
  /\ None \notin FlowIntents \cup Owners \cup FlowResults
BY NoneAssumption, InvokedAssumption DEF FlowIntents

LEMMA FlowIsProven == Spec => Proven!Spec
BY ExecutorIsUsed, ProvenInit, ProvenStep, PTL DEF Executor!Spec, Proven!Spec

\* A use case that is retried, reclaimed or redelivered is completed once: the
\* executors of the flow keep the promise of InvocationOnce.
THEOREM FlowCompletesOnce == Spec => Proven!CompletesOnce
<1>1. Proven!Spec => Proven!CompletesOnce
  BY ProvenAssumptions, Proven!ExecutorRefines
<1>. QED
  BY FlowIsProven, <1>1, PTL

\* What is stored, and what any caller is returned, is made of the decisions on
\* the children of its own use case.
THEOREM ResultsAreAlwaysDecided == Spec => []ResultsAreDecided
<1>1. Proven!Spec => []Proven!ReturnsAreDurable
  BY ProvenAssumptions, Proven!OnlyDurableResults
<1>2. IInv /\ Proven!ReturnsAreDurable => ResultsAreDecided
  <2>. SUFFICES ASSUME IInv, Proven!ReturnsAreDurable, NEW c \in Invocations,
                       pc[c] = "returned"
                PROVE  DecidedFor(c, result[c])
    BY StoredIsDecided DEF ResultsAreDecided
  <2>1. /\ record[FlowIntent(c)].state = "completed"
        /\ record[FlowIntent(c)].result = result[c]
    BY DEF Proven!ReturnsAreDurable, Proven!RecordOf, Proven!IdOf, Proven!IntentOf, FlowIntents
  <2>. QED
    BY <2>1, StoredIsDecided
<1>. QED
  BY <1>1, <1>2, InvariantHolds, FlowIsProven, PTL

-----------------------------------------------------------------------------
(* The flow's side of its contract with the Runner: decisions, events and       *)
(* answers are an OperationOnce behaviour, which is what Runner is proved to    *)
(* implement.                                                                   *)

\* The mapped variables, as functions of those of the flow.
DecidedIn(ds) == [i \in ChildIntents |->
                    IF \A d \in ds : d.intent # i THEN Undone
                    ELSE Done((CHOOSE d \in ds : d.intent = i).kind)]
ChangedIn(ds) == [i \in ChildIntents |->
                    Traces(\E d \in ds : d.intent = i /\ d.kind = "success")]
PublishedIn(events) == [i \in ChildIntents |-> Traces(EventId(i, 0) \in events)]
AnsweredIn(answers) == [p \in Invocations \X (1 .. Len(Slots)) |->
                          IF p[2] <= Len(answers[p[1]]) THEN Done(answers[p[1]][p[2]].kind)
                          ELSE Undone]

\* An event is durable exactly when its success is.
Published == \A i \in ChildIntents :
  EventId(i, 0) \in outbox <=> \E d \in decided : d.intent = i /\ d.kind = "success"

RunnerInv == IInv /\ Published

LEMMA ChildOfSlot ==
  ASSUME NEW c \in Invocations, NEW k \in 1 .. Len(Slots)
  PROVE  Child(c, k) \in ChildIntents
BY Ids DEF Child, ChildIntents

\* The decision that is looked up is the one there is.
LEMMA DecisionFound ==
  ASSUME NEW ds, \A d, e \in ds : d.intent = e.intent => d = e,
         NEW d \in ds, d.intent \in ChildIntents
  PROVE  DecidedIn(ds)[d.intent] = Done(d.kind)
<1>1. (CHOOSE e \in ds : e.intent = d.intent) = d
  OBVIOUS
<1>2. ~\A e \in ds : e.intent # d.intent
  OBVIOUS
<1>. QED
  BY <1>1, <1>2 DEF DecidedIn

LEMMA NothingFound ==
  ASSUME NEW ds, NEW i \in ChildIntents, \A d \in ds : d.intent # i
  PROVE  DecidedIn(ds)[i] = Undone
BY DEF DecidedIn

\* One more decision, on an intent without one.
LEMMA DecisionAdded ==
  ASSUME NEW ds, NEW new, new.intent \in ChildIntents,
         \A d \in ds : d.intent # new.intent,
         \A d, e \in ds : d.intent = e.intent => d = e
  PROVE  DecidedIn(ds \cup {new}) = [DecidedIn(ds) EXCEPT ![new.intent] = Done(new.kind)]
<1>. DEFINE more == ds \cup {new}
<1>1. \A d, e \in more : d.intent = e.intent => d = e
  OBVIOUS
<1>2. new \in more /\ ds \subseteq more
  OBVIOUS
<1>3. DecidedIn(more)[new.intent] = Done(new.kind)
  BY <1>1, <1>2, DecisionFound
<1>4. ASSUME NEW j \in ChildIntents, j # new.intent
      PROVE  DecidedIn(more)[j] = DecidedIn(ds)[j]
  <2>1. CASE \E d \in ds : d.intent = j
    <3>1. PICK d \in ds : d.intent = j
      BY <2>1
    <3>2. DecidedIn(ds)[j] = Done(d.kind)
      BY <3>1, DecisionFound
    <3>3. DecidedIn(more)[j] = Done(d.kind)
      BY <1>1, <1>2, <3>1, DecisionFound
    <3>. QED
      BY <3>2, <3>3
  <2>2. CASE \A d \in ds : d.intent # j
    <3>1. \A d \in more : d.intent # j
      BY <1>4, <2>2
    <3>. QED
      BY <2>2, <3>1, NothingFound
  <2>. QED
    BY <2>1, <2>2
<1>5. DecidedIn(more) = [i \in ChildIntents |-> DecidedIn(more)[i]]
      /\ DecidedIn(ds) = [i \in ChildIntents |-> DecidedIn(ds)[i]]
  BY DEF DecidedIn
<1>. HIDE DEF more
<1>6. DecidedIn(more) = [DecidedIn(ds) EXCEPT ![new.intent] = Done(new.kind)]
  BY <1>3, <1>4, <1>5
<1>. QED
  BY <1>6 DEF more

\* What a decision of the flow adds.
LEMMA DecisionMade ==
  ASSUME NEW c \in Invocations, ChildDecided(c)
  PROVE  \E new : /\ new.intent = Child(c, Slot(c)) /\ new.kind \in Kinds
                  /\ decided' = decided \cup {new}
                  /\ outbox' = outbox \cup EventsOf(new.intent, new.kind)
<1>1. PICK d \in Decision :
        /\ decided' = decided \cup
             {[intent |-> Child(c, Slot(c)), effect |-> Effect(c, Slot(c)), run |-> c,
               snapshot |-> d.snapshot, kind |-> d.kind]}
        /\ outbox' = outbox \cup EventsOf(Child(c, Slot(c)), d.kind)
  BY DEF ChildDecided
<1>2. PICK new : new = [intent |-> Child(c, Slot(c)), effect |-> Effect(c, Slot(c)), run |-> c,
                        snapshot |-> d.snapshot, kind |-> d.kind]
  OBVIOUS
<1>3. new.intent = Child(c, Slot(c)) /\ new.kind = d.kind /\ d.kind \in Kinds
  BY <1>2 DEF Decision
<1>4. decided' = decided \cup {new}
  BY <1>1, <1>2
<1>. QED
  BY <1>1, <1>3, <1>4

LEMMA EventOfSuccess ==
  ASSUME NEW i, NEW j, NEW kind
  PROVE  EventId(j, 0) \in EventsOf(i, kind) <=> j = i /\ kind = "success"
BY DEF EventId, EventsOf

-----------------------------------------------------------------------------
LEMMA PublishedInitially == Init => Published
BY DEF Init, Published

LEMMA PublishedKeeps ==
  ASSUME Published, [Next]_vars
  PROVE  Published'
<1>1. CASE UNCHANGED <<decided, outbox>>
  BY <1>1 DEF Published
<1>2. CASE \E c \in Invocations : ChildDecided(c)
  <2>1. PICK c \in Invocations : ChildDecided(c)
    BY <1>2
  <2>2. PICK new : /\ decided' = decided \cup {new}
                   /\ outbox' = outbox \cup EventsOf(new.intent, new.kind)
    BY <2>1, DecisionMade
  <2>3. \A j : EventId(j, 0) \in EventsOf(new.intent, new.kind)
                 <=> j = new.intent /\ new.kind = "success"
    BY EventOfSuccess
  <2>. QED
    BY <2>2, <2>3 DEF Published
<1>3. CASE ~UNCHANGED <<decided, outbox>> /\ ~\E c \in Invocations : ChildDecided(c)
  BY <1>3 DEF Next, vars, flowVars, Claims, ChildAnswered, UseCaseFails, UseCaseFinishes,
              Settles, Expires, Crashes, Quiescent
<1>. QED
  BY <1>1, <1>2, <1>3

-----------------------------------------------------------------------------
(* The steps of the flow that are steps of the Runner. *)

LEMMA Decides ==
  ASSUME RunnerInv, NEW c \in Invocations, ChildDecided(c)
  PROVE  Runner!Next
<1>. DEFINE i == Child(c, Slot(c))
<1>1. i \in ChildIntents /\ Undecided(i)
  <2>1. Len(seen[c]) \in Nat /\ Slot(c) <= Len(Slots) /\ Len(Slots) \in Nat
    BY SlotsAssumption DEF ChildDecided, AtChild, RunnerInv, IInv, SeenBacked, Backed
  <2>2. Slot(c) \in 1 .. Len(Slots)
    BY <2>1 DEF Slot
  <2>. QED
    BY <2>2, ChildOfSlot DEF ChildDecided
<1>2. PICK new : /\ new.intent = i /\ new.kind \in Kinds
                 /\ decided' = decided \cup {new}
                 /\ outbox' = outbox \cup EventsOf(i, new.kind)
  BY DecisionMade
<1>3. UNCHANGED seen
  BY DEF ChildDecided
<1>. HIDE DEF i
<1>4. DecidedIn(decided') = [DecidedIn(decided) EXCEPT ![i] = Done(new.kind)]
  BY <1>1, <1>2, DecisionAdded DEF RunnerInv, IInv, DecidedOnce, Undecided
<1>5. DecidedIn(decided)[i] = Undone
  BY <1>1, NothingFound DEF Undecided
<1>6. ChangedIn(decided') = [ChangedIn(decided) EXCEPT ![i] = Traces(new.kind = "success")]
  BY <1>1, <1>2 DEF ChangedIn, Undecided
<1>7. PublishedIn(outbox') = [PublishedIn(outbox) EXCEPT ![i] = Traces(new.kind = "success")]
  <2>1. EventId(i, 0) \notin outbox
    BY <1>1 DEF RunnerInv, Published, Undecided
  <2>2. ASSUME NEW j \in ChildIntents
        PROVE  EventId(j, 0) \in outbox'
                 <=> EventId(j, 0) \in outbox \/ (j = i /\ new.kind = "success")
    BY <1>2, EventOfSuccess
  <2>3. PublishedIn(outbox')[i] = Traces(new.kind = "success")
    BY <1>1, <2>1, <2>2 DEF PublishedIn, Traces
  <2>4. ASSUME NEW j \in ChildIntents, j # i
        PROVE  PublishedIn(outbox')[j] = PublishedIn(outbox)[j]
    BY <2>2, <2>4 DEF PublishedIn, Traces
  <2>5. \A events : PublishedIn(events) = [j \in ChildIntents |-> PublishedIn(events)[j]]
    BY DEF PublishedIn
  <2>. QED
    BY <1>1, <2>3, <2>4, <2>5
<1>8. /\ Done(new.kind) \in Runner!Decision
      /\ Runner!Trace(Done(new.kind)) = Traces(new.kind = "success")
  BY <1>2 DEF Done, Runner!Decision, Runner!Trace, Traces, Kinds
<1>9. DecidedIn(decided')[i] = Done(new.kind)
  BY <1>1, <1>4 DEF DecidedIn
<1>10. Runner!Decide(i)
  BY <1>3, <1>4, <1>5, <1>6, <1>7, <1>8, <1>9
  DEF Runner!Decide, DecidedIn, ChangedIn, PublishedIn, Undecided
<1>. QED
  BY <1>1, <1>10 DEF Runner!Next

\* An answer of OperationOnce, in terms of the mapped variables.
LEMMA AnswersMapped ==
  ASSUME NEW p \in Invocations \X (1 .. Len(Slots)), NEW answer,
         AnsweredIn(seen)[p] = Undone, answer # Undone,
         DecidedIn(decided)[Derive(FlowIntent(p[1]), Slots[p[2]], None)] = answer,
         AnsweredIn(seen') = [AnsweredIn(seen) EXCEPT ![p] = answer],
         UNCHANGED <<decided, outbox>>
  PROVE  Runner!Next
<1>1. [q \in Invocations \X (1 .. Len(Slots)) |-> Derive(FlowIntent(q[1]), Slots[q[2]], None)][p]
        = Derive(FlowIntent(p[1]), Slots[p[2]], None)
  OBVIOUS
<1>2. Runner!Answer(p)
  <2>. DEFINE mapped == [i \in ChildIntents |-> IF Undecided(i) THEN Undone
                                            ELSE Done((CHOOSE d \in decided : d.intent = i).kind)]
              told   == [q \in Invocations \X (1 .. Len(Slots)) |->
                           IF q[2] <= Len(seen[q[1]]) THEN Done(seen[q[1]][q[2]].kind) ELSE Undone]
              intents == [q \in Invocations \X (1 .. Len(Slots)) |->
                            Derive(FlowIntent(q[1]), Slots[q[2]], None)]
  <2>1. mapped = DecidedIn(decided)
    BY DEF DecidedIn, Undecided
  <2>2. told = AnsweredIn(seen) /\ told' = AnsweredIn(seen')
    BY DEF AnsweredIn
  <2>3. UNCHANGED <<mapped, [i \in ChildIntents |->
                                Traces(\E d \in decided : d.intent = i /\ d.kind = "success")],
                    [i \in ChildIntents |-> Traces(EventId(i, 0) \in outbox)]>>
    BY DEF Undecided
  <2>4. mapped[intents[p]] = answer
    BY <1>1, <2>1
  <2>5. told[p] = Undone /\ mapped[intents[p]] # Undone
        /\ told' = [told EXCEPT ![p] = mapped[intents[p]]]
    <3>. HIDE DEF mapped, told, intents
    <3>. QED
      BY <2>2, <2>4
  <2>. QED
    BY <2>3, <2>5 DEF Runner!Answer
<1>. QED
  BY <1>2 DEF Runner!Next

LEMMA Answers ==
  ASSUME RunnerInv, NEW c \in Invocations, ChildAnswered(c)
  PROVE  Runner!Next
<1>. DEFINE k == Slot(c)
            p == <<c, k>>
<1>1. PICK d \in decided :
        /\ d.intent = Child(c, k)
        /\ seen' = [seen EXCEPT ![c] = Append(@, Answered(d))]
  BY DEF ChildAnswered, Answered
<1>2. UNCHANGED <<decided, outbox>> /\ k <= Len(Slots)
  BY DEF ChildAnswered, AtChild
<1>3. /\ seen[c] \in Seq(Decision) /\ k = Len(seen[c]) + 1 /\ Len(seen[c]) \in Nat
      /\ Answered(d) \in Decision /\ DOMAIN seen = Invocations
  BY DEF RunnerInv, IInv, DecidedOnce, SeenBacked, Backed, Slot
<1>. HIDE DEF k
<1>4. k \in 1 .. Len(Slots) /\ p \in Invocations \X (1 .. Len(Slots))
  BY <1>2, <1>3, SlotsAssumption
<1>5. PICK longer : longer = Append(seen[c], Answered(d))
  OBVIOUS
<1>6. /\ Len(longer) = k /\ longer[k] = Answered(d)
      /\ \A j \in 1 .. Len(seen[c]) : longer[j] = seen[c][j]
  <2>1. Extends(longer, seen[c], Answered(d))
    BY <1>5 DEF Extends
  <2>. QED
    BY <1>3, <2>1, Longer, LastOne
<1>7. seen' = [seen EXCEPT ![c] = longer]
  BY <1>1, <1>5
<1>8. Answered(d).kind = d.kind
  BY DEF Answered
<1>9. AnsweredIn(seen') = [AnsweredIn(seen) EXCEPT ![p] = Done(d.kind)]
  <2>1. AnsweredIn(seen')[p] = Done(d.kind)
    BY <1>3, <1>4, <1>6, <1>7, <1>8 DEF AnsweredIn
  <2>2. ASSUME NEW q \in Invocations \X (1 .. Len(Slots)), q # p
        PROVE  AnsweredIn(seen')[q] = AnsweredIn(seen)[q]
    <3>1. CASE q[1] # c
      BY <1>3, <1>7, <3>1 DEF AnsweredIn
    <3>2. CASE q[1] = c
      <4>1. q[2] # k /\ q[2] \in 1 .. Len(Slots)
        BY <2>2, <3>2
      <4>2. q[2] <= Len(longer) <=> q[2] <= Len(seen[c])
        BY <1>3, <1>6, <4>1
      <4>3. q[2] <= Len(seen[c]) => longer[q[2]] = seen[c][q[2]]
        BY <1>3, <1>6, <4>1
      <4>. QED
        BY <1>3, <1>7, <3>2, <4>2, <4>3 DEF AnsweredIn
    <3>. QED
      BY <3>1, <3>2
  <2>3. \A s : AnsweredIn(s) = [q \in Invocations \X (1 .. Len(Slots)) |-> AnsweredIn(s)[q]]
    BY DEF AnsweredIn
  <2>. HIDE DEF p
  <2>. QED
    BY <1>4, <2>1, <2>2, <2>3
<1>10. AnsweredIn(seen)[p] = Undone
  BY <1>3, <1>4 DEF AnsweredIn
<1>11. DecidedIn(decided)[Derive(FlowIntent(c), Slots[k], None)] = Done(d.kind)
  BY <1>1, <1>4, ChildOfSlot, DecisionFound DEF RunnerInv, IInv, DecidedOnce, Child
<1>12. Done(d.kind) # Undone
  BY DEF Done, Undone
<1>13. Derive(FlowIntent(p[1]), Slots[p[2]], None) = Derive(FlowIntent(c), Slots[k], None)
  OBVIOUS
<1>. HIDE DEF p
<1>. QED
  BY <1>2, <1>4, <1>9, <1>10, <1>11, <1>12, <1>13, AnswersMapped

\* The flow asks no more of the Runner than OperationOnce promises: what it takes
\* for decisions, durable events and answers is a behaviour of OperationOnce.
THEOREM RunnerIsEnough == Spec => RunnerSuffices
<1>1. Init => Runner!Init
  <2>. SUFFICES ASSUME Init PROVE Runner!Init
    OBVIOUS
  <2>1. decided = {} /\ outbox = {} /\ seen = [c \in Invocations |-> <<>>]
    BY DEF Init
  <2>2. \A p \in Invocations \X (1 .. Len(Slots)) : ~(p[2] <= Len(seen[p[1]]))
    BY <2>1
  <2>. QED
    BY <2>1, <2>2 DEF Runner!Init, Undecided, Traces
<1>2. RunnerInv /\ [Next]_vars => [Runner!Next]_Runner!vars
  <2>. SUFFICES ASSUME RunnerInv, [Next]_vars PROVE [Runner!Next]_Runner!vars
    OBVIOUS
  <2>1. CASE UNCHANGED flowVars
    BY <2>1 DEF flowVars, Runner!vars, Undecided
  <2>2. CASE \E c \in Invocations : ChildDecided(c) \/ ChildAnswered(c)
    BY <2>2, Decides, Answers
  <2>3. CASE ~UNCHANGED flowVars /\ ~\E c \in Invocations : ChildDecided(c) \/ ChildAnswered(c)
    BY <2>3 DEF Next, vars, Claims, UseCaseFails, UseCaseFinishes, Settles, Expires, Crashes,
                Quiescent
  <2>. QED
    BY <2>1, <2>2, <2>3
<1>3. Init => RunnerInv
  BY Initially, PublishedInitially DEF RunnerInv
<1>4. RunnerInv /\ [Next]_vars => RunnerInv'
  BY StepKeeps, PublishedKeeps DEF RunnerInv
<1>. QED
  BY <1>1, <1>2, <1>3, <1>4, PTL DEF Spec, RunnerSuffices, Runner!Spec

=============================================================================
