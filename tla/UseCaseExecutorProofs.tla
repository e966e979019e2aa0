------------------------ MODULE UseCaseExecutorProofs ------------------------
(* Theorems about UseCaseExecutor, for any calls, intents and processes. *)
EXTENDS UseCaseExecutorRefinement, TLAPS

\* What a request consists of.
LEMMA RequestFields ==
  ASSUME NEW c \in Invocations
  PROVE  /\ IntentOf(c) \in Intents
         /\ IdOf(c) \in ExecutionIds
         /\ Request[c].owner \in Owners
BY RequestAssumption, ExecutionIdAssumption DEF IntentOf, IdOf

LEMMA ClaimedRecord ==
  ASSUME NEW r \in Record, NEW i \in Intents, NEW o \in Owners
  PROVE  /\ Claimed(r, i, o) \in Record
         /\ Claimed(r, i, o).state = "in-progress"
         /\ Claimed(r, i, o).intent = i
         /\ Claimed(r, i, o).version = r.version + 1
BY DEF Record, Claimed

LEMMA EndedRecord ==
  ASSUME NEW r \in Record, NEW res \in Results \cup {None}
  PROVE  /\ Completed(r, res) \in Record /\ Released(r) \in Record
         /\ Completed(r, res).state = "completed"
         /\ Completed(r, res).result = res
         /\ Completed(r, res).intent = r.intent
         /\ Completed(r, res).version = r.version
         /\ Released(r).state = "released"
         /\ Released(r).intent = r.intent
         /\ Released(r).version = r.version
BY DEF Record, Completed, Released

-----------------------------------------------------------------------------
(* Every step writes at most one record, in one of four ways. *)

Writes(x) ==
  \/ record'[x] = record[x]
  \/ \E c \in Invocations :
       /\ IdOf(c) = x /\ pc[c] = "ready"
       /\ ClaimType(record[x], IntentOf(c)) = "claimed"
       /\ record'[x] = Claimed(record[x], IntentOf(c), Request[c].owner)
  \/ \E c \in Invocations :
       /\ IdOf(c) = x /\ Live(c) /\ SameLease(c) /\ pc'[c] \in Settled
       /\ \/ pc[c] = "completing" /\ record'[x] = Completed(record[x], result[c])
          \/ record'[x] = Released(record[x])
  \/ /\ record[x].state = "in-progress"
     /\ record'[x] = [record[x] EXCEPT !.expired = TRUE]

LEMMA StepWrites ==
  ASSUME TypeOK, [Next]_vars, NEW x \in ExecutionIds
  PROVE  Writes(x)
<1>1. ASSUME NEW c \in Invocations, ClaimStep(c) PROVE Writes(x)
  BY <1>1, RequestFields
  DEF Writes, TypeOK, ClaimStep, ClaimGranted, ClaimFindsResult, ClaimRefused,
      ClaimFails, Write, RecordOf
<1>2. ASSUME NEW c \in Invocations, UseCaseSettles(c) PROVE Writes(x)
  BY <1>2 DEF Writes, UseCaseSettles, UseCaseThrows, UseCaseAnswers
<1>3. ASSUME NEW c \in Invocations, StoreStep(c) PROVE Writes(x)
  <2>1. Live(c) /\ pc'[c] \in Settled
    BY <1>3 DEF StoreStep, CompletionAccepted, CompletionRejected,
                CompletionFails, Release, Goto, Live, Settled, TypeOK
  <2>2. \/ record' = record
        \/ /\ SameLease(c) /\ pc[c] = "completing"
           /\ Write(c, Completed(RecordOf(c), result[c]))
        \/ SameLease(c) /\ Write(c, Released(RecordOf(c)))
    BY <1>3 DEF StoreStep, CompletionAccepted, CompletionRejected,
                CompletionFails, Release
  <2>3. QED
    BY <2>1, <2>2, RequestFields DEF Writes, Write, TypeOK, RecordOf
<1>4. ASSUME NEW y \in ExecutionIds, LeaseExpires(y) PROVE Writes(x)
  BY <1>4 DEF Writes, LeaseExpires, TypeOK
<1>5. ASSUME NEW o \in Owners, Crash(o) PROVE Writes(x)
  BY <1>5 DEF Writes, Crash
<1>6. CASE UNCHANGED vars
  BY <1>6 DEF Writes, vars
<1>7. QED
  BY <1>1, <1>2, <1>3, <1>4, <1>5, <1>6 DEF Next, Quiescent

-----------------------------------------------------------------------------
(* The invariant is inductive. *)

LEMMA InitIInv == Init => IInv
BY DEF Init, IInv, TypeOK, Claimants, UniqueClaims, ReturnsAreDurable, Absent,
       Record, PCs, Settled, Live

LEMMA StepType ==
  ASSUME TypeOK, [Next]_vars
  PROVE  TypeOK'
<1>1. ASSUME NEW c \in Invocations, ClaimStep(c) PROVE TypeOK'
  <2>1. /\ RecordOf(c) \in Record
        /\ Claimed(RecordOf(c), IntentOf(c), Request[c].owner) \in Record
        /\ Claimed(RecordOf(c), IntentOf(c), Request[c].owner).version \in Nat
        /\ RecordOf(c).result \in Results \cup {None}
    BY RequestFields, ClaimedRecord DEF TypeOK, RecordOf, Record
  <2>2. QED
    BY <1>1, <2>1, RequestFields
    DEF TypeOK, ClaimStep, ClaimGranted, ClaimFindsResult, ClaimRefused,
        ClaimFails, Write, Goto, PCs, Settled
<1>2. ASSUME NEW c \in Invocations, UseCaseSettles(c) PROVE TypeOK'
  BY <1>2 DEF TypeOK, UseCaseSettles, UseCaseThrows, UseCaseAnswers, Goto, PCs
<1>3. ASSUME NEW c \in Invocations, StoreStep(c) PROVE TypeOK'
  <2>1. /\ RecordOf(c) \in Record /\ result[c] \in Results \cup {None}
        /\ Completed(RecordOf(c), result[c]) \in Record
        /\ Released(RecordOf(c)) \in Record
    BY RequestFields, EndedRecord DEF TypeOK, RecordOf
  <2>2. QED
    BY <1>3, <2>1, RequestFields
    DEF TypeOK, StoreStep, CompletionAccepted, CompletionRejected,
        CompletionFails, Release, Write, Goto, PCs, Settled
<1>4. ASSUME NEW y \in ExecutionIds, LeaseExpires(y) PROVE TypeOK'
  <2>1. [record[y] EXCEPT !.expired = TRUE] \in Record
    BY DEF TypeOK, Record
  <2>2. QED
    BY <1>4, <2>1 DEF LeaseExpires, TypeOK
<1>5. ASSUME NEW o \in Owners, Crash(o) PROVE TypeOK'
  BY <1>5 DEF Crash, TypeOK, PCs, Settled
<1>6. CASE UNCHANGED vars
  BY <1>6 DEF TypeOK, vars
<1>7. QED
  BY <1>1, <1>2, <1>3, <1>4, <1>5, <1>6 DEF Next, Quiescent

\* Who is live after a step, and with which lease.
LEMMA StepLives ==
  ASSUME TypeOK, [Next]_vars, NEW c \in Invocations, Live(c)'
  PROVE  \/ Live(c) /\ lease'[c] = lease[c]
         \/ /\ pc[c] = "ready"
            /\ ClaimType(RecordOf(c), IntentOf(c)) = "claimed"
            /\ record' = [record EXCEPT ![IdOf(c)] =
                            Claimed(RecordOf(c), IntentOf(c), Request[c].owner)]
            /\ lease' = [lease EXCEPT ![c] = RecordOf(c).version + 1]
            /\ \A d \in Invocations \ {c} : pc'[d] = pc[d]
<1>1. ASSUME NEW d \in Invocations, ClaimStep(d) \/ UseCaseSettles(d) \/ StoreStep(d)
      PROVE  \/ Live(c) /\ lease'[c] = lease[c]
             \/ c = d /\ ClaimGranted(c)
  BY <1>1
  DEF TypeOK, Live, Settled, ClaimStep, ClaimGranted, ClaimFindsResult,
      ClaimRefused, ClaimFails, UseCaseSettles, UseCaseThrows, UseCaseAnswers,
      StoreStep, CompletionAccepted, CompletionRejected, CompletionFails,
      Release, Goto
<1>2. ASSUME ClaimGranted(c)
      PROVE  /\ pc[c] = "ready"
             /\ ClaimType(RecordOf(c), IntentOf(c)) = "claimed"
             /\ record' = [record EXCEPT ![IdOf(c)] =
                             Claimed(RecordOf(c), IntentOf(c), Request[c].owner)]
             /\ lease' = [lease EXCEPT ![c] = RecordOf(c).version + 1]
             /\ \A d \in Invocations \ {c} : pc'[d] = pc[d]
  BY <1>2, RequestFields, ClaimedRecord
  DEF ClaimGranted, Write, Goto, TypeOK, RecordOf
<1>3. ASSUME NEW y \in ExecutionIds, LeaseExpires(y)
      PROVE  Live(c) /\ lease'[c] = lease[c]
  BY <1>3 DEF LeaseExpires, Live
<1>4. ASSUME NEW o \in Owners, Crash(o)
      PROVE  Live(c) /\ lease'[c] = lease[c]
  BY <1>4 DEF Crash, Live, Settled, TypeOK
<1>5. CASE UNCHANGED vars
  BY <1>5 DEF vars, Live
<1>6. QED
  BY <1>1, <1>2, <1>3, <1>4, <1>5 DEF Next, Quiescent

\* A record with a claim keeps its intent, and its generation never falls.
LEMMA RecordGrows ==
  ASSUME TypeOK, [Next]_vars, NEW x \in ExecutionIds
  PROVE  /\ record[x].version \in Nat /\ record'[x].version \in Nat
         /\ record'[x].version >= record[x].version
         /\ record[x].state # "absent" =>
              record'[x].state # "absent" /\ record'[x].intent = record[x].intent
         /\ record[x].state = "completed" => record'[x] = record[x]
<1>1. /\ record[x] \in Record /\ record[x].version \in Nat
      /\ \A c \in Invocations : result[c] \in Results \cup {None}
  BY DEF TypeOK, Record
<1>2. Writes(x)
  BY StepWrites
<1>3. CASE record'[x] = record[x]
  BY <1>1, <1>3
<1>4. ASSUME NEW c \in Invocations, ClaimType(record[x], IntentOf(c)) = "claimed",
             record'[x] = Claimed(record[x], IntentOf(c), Request[c].owner)
      PROVE  /\ record'[x].version = record[x].version + 1
             /\ record'[x].state = "in-progress"
             /\ record[x].state # "completed"
             /\ record[x].state # "absent" => record'[x].intent = record[x].intent
  BY <1>1, <1>4, RequestFields, ClaimedRecord DEF ClaimType
<1>5. ASSUME NEW c \in Invocations, IdOf(c) = x, SameLease(c),
             \/ record'[x] = Completed(record[x], result[c])
             \/ record'[x] = Released(record[x])
      PROVE  /\ record'[x].version = record[x].version
             /\ record'[x].intent = record[x].intent
             /\ record'[x].state # "absent" /\ record[x].state # "completed"
  BY <1>1, <1>5, EndedRecord DEF SameLease, RecordOf
<1>6. ASSUME record[x].state = "in-progress",
             record'[x] = [record[x] EXCEPT !.expired = TRUE]
      PROVE  /\ record'[x].version = record[x].version
             /\ record'[x].intent = record[x].intent
             /\ record'[x].state = record[x].state
  BY <1>1, <1>6 DEF Record
<1>7. QED
  BY <1>1, <1>2, <1>3, <1>4, <1>5, <1>6 DEF Writes

LEMMA StepClaims ==
  ASSUME IInv, [Next]_vars
  PROVE  Claimants' /\ UniqueClaims'
<1>1. TypeOK /\ Claimants /\ UniqueClaims
  BY DEF IInv
<1>2. ASSUME NEW c \in Invocations
      PROVE  /\ IdOf(c) \in ExecutionIds
             /\ RecordOf(c) \in Record /\ RecordOf(c).version \in Nat
             /\ lease[c] \in Nat
  BY <1>1, RequestFields DEF TypeOK, RecordOf, Record
<1>3. ASSUME NEW c \in Invocations, Live(c)'
      PROVE  /\ RecordOf(c)'.state # "absent"
             /\ RecordOf(c)'.intent = IntentOf(c)
             /\ lease'[c] <= RecordOf(c)'.version
  <2>1. CASE Live(c) /\ lease'[c] = lease[c]
    BY <1>1, <1>2, <2>1, RecordGrows DEF Claimants, RecordOf
  <2>2. CASE /\ record' = [record EXCEPT ![IdOf(c)] =
                             Claimed(RecordOf(c), IntentOf(c), Request[c].owner)]
             /\ lease' = [lease EXCEPT ![c] = RecordOf(c).version + 1]
    BY <1>1, <1>2, <2>2, RequestFields, ClaimedRecord DEF TypeOK, RecordOf
  <2>3. QED
    BY <1>1, <1>3, <2>1, <2>2, StepLives
<1>4. ASSUME NEW c \in Invocations, NEW d \in Invocations, Live(c)', Live(d)',
             IdOf(c) = IdOf(d), lease'[c] = lease'[d], c # d
      PROVE  FALSE
  <2>1. CASE /\ Live(c) /\ lease'[c] = lease[c]
             /\ Live(d) /\ lease'[d] = lease[d]
    BY <1>1, <1>4, <2>1 DEF UniqueClaims
  <2>2. ASSUME NEW a \in Invocations, NEW b \in Invocations, a # b,
               Live(b)', IdOf(a) = IdOf(b), lease'[a] = lease'[b],
               pc[a] = "ready",
               lease' = [lease EXCEPT ![a] = RecordOf(a).version + 1],
               \A e \in Invocations \ {a} : pc'[e] = pc[e]
        PROVE  FALSE
    <3>1. Live(b) /\ lease'[b] = lease[b] /\ lease'[a] = RecordOf(a).version + 1
      BY <1>1, <2>2 DEF Live, TypeOK
    <3>2. lease[b] <= RecordOf(a).version
      BY <1>1, <2>2, <3>1 DEF Claimants, RecordOf
    <3>3. QED
      BY <1>2, <2>2, <3>1, <3>2
  <2>3. QED
    BY <1>1, <1>4, <2>1, <2>2, StepLives
<1>5. QED
  BY <1>3, <1>4 DEF Claimants, UniqueClaims, IdOf, IntentOf

LEMMA StepReturns ==
  ASSUME IInv, [Next]_vars
  PROVE  ReturnsAreDurable'
<1>1. TypeOK /\ Claimants /\ ReturnsAreDurable
  BY DEF IInv
<1>2. ASSUME NEW c \in Invocations, pc'[c] = "returned", pc[c] # "returned"
      PROVE  /\ RecordOf(c)'.state = "completed"
             /\ RecordOf(c)'.intent = IntentOf(c)
             /\ RecordOf(c)'.result = result'[c]
  <2>1. ClaimFindsResult(c) \/ CompletionAccepted(c)
    BY <1>1, <1>2
    DEF Next, ClaimStep, ClaimGranted, ClaimFindsResult, ClaimRefused,
        ClaimFails, UseCaseSettles, UseCaseThrows, UseCaseAnswers, StoreStep,
        CompletionAccepted, CompletionRejected, CompletionFails, Release, Goto,
        LeaseExpires, Crash, Quiescent, vars, TypeOK
  <2>2. CASE ClaimFindsResult(c)
    BY <1>1, <2>2 DEF ClaimFindsResult, ClaimType, RecordOf, TypeOK
  <2>3. CASE CompletionAccepted(c)
    <3>1. RecordOf(c) \in Record /\ result[c] \in Results \cup {None}
      BY <1>1, RequestFields DEF TypeOK, RecordOf
    <3>2. RecordOf(c).intent = IntentOf(c)
      BY <1>1, <2>3 DEF CompletionAccepted, Claimants, Live, Settled
    <3>3. RecordOf(c)' = Completed(RecordOf(c), result[c]) /\ result' = result
      BY <1>1, <2>3, RequestFields DEF CompletionAccepted, Write, RecordOf, TypeOK
    <3>4. QED
      BY <3>1, <3>2, <3>3, EndedRecord
  <2>4. QED
    BY <2>1, <2>2, <2>3
<1>3. ASSUME NEW c \in Invocations, pc[c] = "returned"
      PROVE  result'[c] = result[c]
  BY <1>1, <1>3
  DEF Next, ClaimStep, ClaimGranted, ClaimFindsResult, ClaimRefused,
      ClaimFails, UseCaseSettles, UseCaseThrows, UseCaseAnswers, StoreStep,
      CompletionAccepted, CompletionRejected, CompletionFails, Release,
      LeaseExpires, Crash, Quiescent, vars, TypeOK
<1>4. ASSUME NEW c \in Invocations, pc[c] = "returned"
      PROVE  RecordOf(c)' = RecordOf(c) /\ RecordOf(c).state = "completed"
  BY <1>1, <1>4, RequestFields, RecordGrows DEF ReturnsAreDurable, RecordOf
<1>5. QED
  BY <1>1, <1>2, <1>3, <1>4 DEF ReturnsAreDurable, IntentOf

\* The invariant holds for any number of calls and reclaims.
THEOREM ExecutorInductive == Spec => []IInv
<1>1. IInv /\ [Next]_vars => IInv'
  BY StepType, StepClaims, StepReturns DEF IInv
<1>2. QED
  BY <1>1, InitIInv, PTL DEF Spec

\* Types hold in every reachable state.
THEOREM ExecutorTypes == Spec => []TypeOK
BY ExecutorInductive, PTL DEF IInv

\* A result is returned only when it is the stored one: a stale executor never
\* returns what it computed.
THEOREM OnlyDurableResults == Spec => []ReturnsAreDurable
BY ExecutorInductive, PTL DEF IInv

\* One live call at most can complete or release an invocation.
THEOREM OneOwner == Spec => []OneDurableOwner
<1>1. IInv => OneDurableOwner
  BY DEF IInv, UniqueClaims, OneDurableOwner, SameLease, RecordOf
<1>2. QED
  BY <1>1, ExecutorInductive, PTL

\* Every step respects the lease fence of every record.
THEOREM StoreIsFenced == Spec => ClaimsFence
<1>1. ASSUME TypeOK, [Next]_vars, NEW x \in ExecutionIds
      PROVE  RecordStep(x)
  <2>1. /\ record[x] \in Record /\ record[x].version \in Nat
        /\ \A c \in Invocations : result[c] \in Results \cup {None}
    BY <1>1 DEF TypeOK, Record
  <2>2. Writes(x)
    BY <1>1, StepWrites
  <2>3. CASE record'[x] = record[x]
    BY <2>1, <2>3 DEF RecordStep
  <2>4. ASSUME NEW c \in Invocations, ClaimType(record[x], IntentOf(c)) = "claimed",
               record'[x] = Claimed(record[x], IntentOf(c), Request[c].owner)
        PROVE  RecordStep(x)
    BY <2>1, <2>4, RequestFields, ClaimedRecord DEF ClaimType, Reclaimable, RecordStep
  <2>5. ASSUME NEW c \in Invocations,
               IdOf(c) = x, Live(c), SameLease(c), pc'[c] \in Settled,
               \/ record'[x] = Completed(record[x], result[c])
               \/ record'[x] = Released(record[x])
        PROVE  RecordStep(x)
    BY <2>1, <2>5, EndedRecord DEF SameLease, RecordOf, RecordStep
  <2>6. ASSUME record[x].state = "in-progress",
               record'[x] = [record[x] EXCEPT !.expired = TRUE]
        PROVE  RecordStep(x)
    BY <2>1, <2>6 DEF Record, RecordStep
  <2>7. QED
    BY <2>2, <2>3, <2>4, <2>5, <2>6 DEF Writes
<1>2. IInv /\ [Next]_vars => [\A x \in ExecutionIds : RecordStep(x)]_vars
  BY <1>1 DEF IInv
<1>3. QED
  BY <1>2, ExecutorInductive, PTL DEF Spec, ClaimsFence

-----------------------------------------------------------------------------
(* UseCaseExecutor implements InvocationOnce. *)

\* An execution id that nobody has claimed serves no intent; what is stored, and
\* what is about to be, is a result of a use case.
Held ==
  /\ \A x \in ExecutionIds :
       /\ record[x].state = "absent" => record[x].intent = None
       /\ record[x].state = "completed" => record[x].result \in Results
  /\ \A c \in Invocations : pc[c] = "completing" => result[c] \in Results

LEMMA HeldStep ==
  ASSUME TypeOK, Held, [Next]_vars
  PROVE  Held'
<1>1. ASSUME NEW x \in ExecutionIds
      PROVE  /\ record'[x].state = "absent" => record'[x].intent = None
             /\ record'[x].state = "completed" => record'[x].result \in Results
  <2>1. record[x] \in Record /\ \A c \in Invocations : result[c] \in Results \cup {None}
    BY DEF TypeOK
  <2>2. Writes(x)
    BY StepWrites
  <2>3. CASE record'[x] = record[x]
    BY <2>3 DEF Held
  <2>4. ASSUME NEW c \in Invocations,
               record'[x] = Claimed(record[x], IntentOf(c), Request[c].owner)
        PROVE  record'[x].state = "in-progress"
    BY <2>4, <2>1, RequestFields, ClaimedRecord
  <2>5. ASSUME NEW c \in Invocations,
               \/ pc[c] = "completing" /\ record'[x] = Completed(record[x], result[c])
               \/ record'[x] = Released(record[x])
        PROVE  /\ record'[x].state # "absent"
               /\ record'[x].state = "completed" => record'[x].result \in Results
    BY <2>5, <2>1, EndedRecord DEF Held
  <2>6. ASSUME record[x].state = "in-progress",
               record'[x] = [record[x] EXCEPT !.expired = TRUE]
        PROVE  record'[x].state = "in-progress"
    BY <2>6, <2>1 DEF Record
  <2>. QED
    BY <2>2, <2>3, <2>4, <2>5, <2>6 DEF Writes
<1>2. ASSUME NEW c \in Invocations, pc'[c] = "completing"
      PROVE  result'[c] \in Results
  <2>1. ASSUME NEW d \in Invocations, ClaimStep(d) \/ StoreStep(d)
        PROVE  pc[c] = "completing" /\ result'[c] = result[c]
    BY <1>2, <2>1
    DEF ClaimStep, ClaimGranted, ClaimFindsResult, ClaimRefused, ClaimFails, StoreStep,
        CompletionAccepted, CompletionRejected, CompletionFails, Release, Goto, TypeOK
  <2>2. ASSUME NEW d \in Invocations, UseCaseSettles(d)
        PROVE  result'[c] \in Results
    BY <1>2, <2>2 DEF UseCaseSettles, UseCaseThrows, UseCaseAnswers, Goto, TypeOK, Held
  <2>3. ASSUME NEW x \in ExecutionIds, LeaseExpires(x)
        PROVE  pc[c] = "completing" /\ result'[c] = result[c]
    BY <1>2, <2>3 DEF LeaseExpires
  <2>4. ASSUME NEW o \in Owners, Crash(o)
        PROVE  pc[c] = "completing" /\ result'[c] = result[c]
    BY <1>2, <2>4 DEF Crash
  <2>5. CASE UNCHANGED vars
    BY <1>2, <2>5 DEF vars, Held
  <2>. QED
    BY <2>1, <2>2, <2>3, <2>4, <2>5 DEF Next, Quiescent, Held
<1>. QED
  BY <1>1, <1>2 DEF Held

\* How the four variables of InvocationOnce move.

Bound   == [x \in ExecutionIds |-> record[x].intent]
Working == {c \in Invocations : Live(c)}
Stored  == [x \in ExecutionIds |-> OutcomeOf(record[x])]
Answers == [c \in Invocations |-> AnswerOf(c)]

LEMMA RecordMoves ==
  ASSUME TypeOK, NEW c \in Invocations, NEW r, Write(c, r)
  PROVE  /\ Bound' = [Bound EXCEPT ![IdOf(c)] = r.intent]
         /\ Stored' = [Stored EXCEPT ![IdOf(c)] = OutcomeOf(r)]
<1>1. IdOf(c) \in ExecutionIds
  BY RequestFields
<1>2. \A x \in ExecutionIds : record'[x] = IF x = IdOf(c) THEN r ELSE record[x]
  BY <1>1 DEF TypeOK, Write
<1>. QED
  BY <1>1, <1>2 DEF Bound, Stored

LEMMA RecordStays ==
  ASSUME TypeOK, NEW c \in Invocations, NEW r, Write(c, r),
         r.intent = RecordOf(c).intent, OutcomeOf(r) = OutcomeOf(RecordOf(c))
  PROVE  Bound' = Bound /\ Stored' = Stored
<1>1. IdOf(c) \in ExecutionIds
  BY RequestFields
<1>2. \A x \in ExecutionIds : record'[x].intent = record[x].intent
                                /\ OutcomeOf(record'[x]) = OutcomeOf(record[x])
  BY <1>1 DEF TypeOK, Write, RecordOf
<1>. QED
  BY <1>2 DEF Bound, Stored

LEMMA CallMoves ==
  ASSUME TypeOK, NEW c \in Invocations, NEW label, Goto(c, label),
         \A d \in Invocations \ {c} : result'[d] = result[d]
  PROVE  /\ label \in Settled => Working' = Working \ {c}
         /\ label \notin Settled \cup {"ready"} => Working' = Working \cup {c}
         /\ Answers' = [Answers EXCEPT ![c] =
                          IF label = "returned" THEN result'[c] ELSE None]
<1>1. \A d \in Invocations : pc'[d] = IF d = c THEN label ELSE pc[d]
  BY DEF TypeOK, Goto
<1>2. \A d \in Invocations : Live(d)' <=> IF d = c THEN label \notin Settled \cup {"ready"}
                                            ELSE Live(d)
  BY <1>1 DEF Live
<1>3. \A d \in Invocations : AnswerOf(d)' = IF d = c
                                              THEN IF label = "returned" THEN result'[c] ELSE None
                                              ELSE AnswerOf(d)
  BY <1>1 DEF AnswerOf
<1>4. /\ label \in Settled => Working' = Working \ {c}
      /\ label \notin Settled \cup {"ready"} => Working' = Working \cup {c}
  BY <1>2 DEF Working
<1>. QED
  BY <1>3, <1>4 DEF Answers

LEMMA CallStays ==
  ASSUME TypeOK, NEW c \in Invocations, NEW label, Goto(c, label), label # "returned",
         \A d \in Invocations \ {c} : result'[d] = result[d], pc[c] # "returned"
  PROVE  Answers' = Answers
BY CallMoves DEF Answers, AnswerOf

-----------------------------------------------------------------------------
\* The actions of InvocationOnce, in the terms of UseCaseExecutor.

LEMMA Claims ==
  ASSUME NEW c \in Invocations, ~Live(c), AnswerOf(c) = None,
         OutcomeOf(RecordOf(c)) = None, RecordOf(c).intent \in {None, IntentOf(c)},
         Bound' = [Bound EXCEPT ![IdOf(c)] = IntentOf(c)],
         Working' \in {Working, Working \cup {c}}, Stored' = Stored, Answers' = Answers
  PROVE  Once!Next
<1>1. Once!Claim(c)
  BY RequestFields DEF Once!Claim, Bound, Working, Stored, Answers, RecordOf
<1>. QED
  BY <1>1 DEF Once!Next

LEMMA Stores ==
  ASSUME NEW c \in Invocations, NEW res \in Results, Live(c),
         OutcomeOf(RecordOf(c)) = None, RecordOf(c).intent = IntentOf(c),
         Stored' = [Stored EXCEPT ![IdOf(c)] = res], Working' = Working \ {c},
         Answers' \in {Answers, [Answers EXCEPT ![c] = res]}, Bound' = Bound
  PROVE  Once!Next
<1>1. Once!Store(c, res)
  BY RequestFields DEF Once!Store, Bound, Working, Stored, Answers, RecordOf
<1>. QED
  BY <1>1 DEF Once!Next

LEMMA IsAnswered ==
  ASSUME NEW c \in Invocations, ~Live(c), AnswerOf(c) = None,
         OutcomeOf(RecordOf(c)) # None, RecordOf(c).intent = IntentOf(c),
         Answers' = [Answers EXCEPT ![c] = OutcomeOf(RecordOf(c))],
         Bound' = Bound, Working' = Working, Stored' = Stored
  PROVE  Once!Next
<1>1. Once!Answer(c)
  BY RequestFields DEF Once!Answer, Bound, Working, Stored, Answers, RecordOf
<1>. QED
  BY <1>1 DEF Once!Next

LEMMA Abandons ==
  ASSUME NEW dropped \in SUBSET Working, dropped # {}, Working' = Working \ dropped,
         Bound' = Bound, Stored' = Stored, Answers' = Answers
  PROVE  Once!Next
<1>1. Once!Abandon(dropped)
  BY DEF Once!Abandon, Bound, Working, Stored, Answers
<1>. QED
  BY <1>1 DEF Once!Next, Working

LEMMA Stutters ==
  ASSUME Bound' = Bound, Working' = Working, Stored' = Stored, Answers' = Answers
  PROVE  UNCHANGED Once!vars
BY DEF Once!vars, Bound, Working, Stored, Answers

\* What a claim writes, and that it writes only where nothing is stored.
LEMMA ClaimBinds ==
  ASSUME TypeOK, Held, NEW c \in Invocations,
         ClaimType(RecordOf(c), IntentOf(c)) = "claimed",
         Write(c, Claimed(RecordOf(c), IntentOf(c), Request[c].owner))
  PROVE  /\ OutcomeOf(RecordOf(c)) = None
         /\ RecordOf(c).intent \in {None, IntentOf(c)}
         /\ Bound' = [Bound EXCEPT ![IdOf(c)] = IntentOf(c)]
         /\ Stored' = Stored
<1>1. /\ IdOf(c) \in ExecutionIds /\ RecordOf(c) \in Record
      /\ RecordOf(c).state = "absent" => RecordOf(c).intent = None
  BY RequestFields DEF TypeOK, RecordOf, Held
<1>2. OutcomeOf(RecordOf(c)) = None /\ RecordOf(c).intent \in {None, IntentOf(c)}
  BY <1>1 DEF ClaimType, OutcomeOf
<1>. DEFINE r == Claimed(RecordOf(c), IntentOf(c), Request[c].owner)
<1>3. r.intent = IntentOf(c) /\ OutcomeOf(r) = None
  BY <1>1, RequestFields, ClaimedRecord DEF OutcomeOf
<1>4. Write(c, r)
  OBVIOUS
<1>. HIDE DEF r
<1>5. Bound' = [Bound EXCEPT ![IdOf(c)] = IntentOf(c)]
  BY <1>3, <1>4, RecordMoves
<1>6. Stored' = [Stored EXCEPT ![IdOf(c)] = None] /\ Stored[IdOf(c)] = None
  BY <1>1, <1>2, <1>3, <1>4, RecordMoves DEF Stored, RecordOf
<1>7. Stored' = Stored
  BY <1>1, <1>6 DEF Stored
<1>. QED
  BY <1>2, <1>5, <1>7

LEMMA ClaimMaps ==
  ASSUME IInv, Held, NEW c \in Invocations, ClaimStep(c)
  PROVE  [Once!Next]_Once!vars
<1>1. TypeOK
  BY DEF IInv
<1>2. ~Live(c) /\ pc[c] = "ready" /\ AnswerOf(c) = None
  BY DEF ClaimStep, ClaimGranted, ClaimFindsResult, ClaimRefused, ClaimFails, Live, AnswerOf
<1>3. Working \ {c} = Working
  BY <1>2 DEF Working
<1>4. CASE ClaimGranted(c)
  <2>1. /\ ClaimType(RecordOf(c), IntentOf(c)) = "claimed"
        /\ Write(c, Claimed(RecordOf(c), IntentOf(c), Request[c].owner))
        /\ Goto(c, "running") /\ result' = result
    BY <1>4 DEF ClaimGranted
  <2>2. Working' = Working \cup {c} /\ Answers' = Answers
    BY <1>1, <1>2, <2>1, CallMoves, CallStays DEF Settled
  <2>. QED
    BY <1>1, <1>2, <2>1, <2>2, ClaimBinds, Claims
<1>5. CASE ClaimFindsResult(c)
  <2>1. /\ RecordOf(c).state = "completed" /\ RecordOf(c).intent = IntentOf(c)
        /\ record' = record
    BY <1>1, <1>5 DEF ClaimFindsResult, ClaimType
  <2>2. OutcomeOf(RecordOf(c)) = RecordOf(c).result /\ RecordOf(c).result # None
    BY <2>1, RequestFields, NoneAssumption DEF OutcomeOf, Held, RecordOf
  <2>3. /\ Goto(c, "returned") /\ result'[c] = RecordOf(c).result
        /\ \A d \in Invocations \ {c} : result'[d] = result[d]
    BY <1>1, <1>5 DEF ClaimFindsResult, TypeOK
  <2>4. Working' = Working /\ Answers' = [Answers EXCEPT ![c] = RecordOf(c).result]
    BY <1>1, <1>3, <2>3, CallMoves DEF Settled
  <2>5. Bound' = Bound /\ Stored' = Stored
    BY <2>1 DEF Bound, Stored
  <2>. QED
    BY <1>2, <2>1, <2>2, <2>4, <2>5, IsAnswered
<1>6. CASE ClaimRefused(c) \/ ClaimFails(c)
  <2>1. Goto(c, "threw") /\ result' = result
    BY <1>6 DEF ClaimRefused, ClaimFails
  <2>2. Working' = Working /\ Answers' = Answers
    BY <1>1, <1>2, <1>3, <2>1, CallMoves, CallStays DEF Settled
  <2>3. CASE record' = record
    <3>1. Bound' = Bound /\ Stored' = Stored
      BY <2>3 DEF Bound, Stored
    <3>. QED
      BY <2>2, <3>1, Stutters
  <2>4. CASE record' # record
    <3>1. /\ ClaimType(RecordOf(c), IntentOf(c)) = "claimed"
          /\ Write(c, Claimed(RecordOf(c), IntentOf(c), Request[c].owner))
      BY <1>6, <2>4 DEF ClaimRefused, ClaimFails
    <3>. QED
      BY <1>1, <1>2, <2>2, <3>1, ClaimBinds, Claims
  <2>. QED
    BY <2>3, <2>4
<1>. QED
  BY <1>4, <1>5, <1>6 DEF ClaimStep

LEMMA UseCaseMaps ==
  ASSUME IInv, NEW c \in Invocations, UseCaseSettles(c)
  PROVE  UNCHANGED Once!vars
<1>1. TypeOK
  BY DEF IInv
<1>2. PICK label \in {"completing", "releasing"} :
        /\ Goto(c, label) /\ pc[c] = "running" /\ record' = record
        /\ \A d \in Invocations \ {c} : result'[d] = result[d]
  BY <1>1 DEF UseCaseSettles, UseCaseThrows, UseCaseAnswers, TypeOK
<1>3. Working' = Working /\ Answers' = Answers
  <2>1. Working' = Working \cup {c} /\ Answers' = Answers
    BY <1>1, <1>2, CallMoves, CallStays DEF Settled
  <2>. QED
    BY <1>2, <2>1 DEF Working, Live, Settled
<1>4. Bound' = Bound /\ Stored' = Stored
  BY <1>2 DEF Bound, Stored
<1>. QED
  BY <1>3, <1>4, Stutters

\* What completing writes.
LEMMA CompletionStores ==
  ASSUME IInv, Held, NEW c \in Invocations, pc[c] = "completing", SameLease(c),
         Write(c, Completed(RecordOf(c), result[c]))
  PROVE  /\ result[c] \in Results /\ OutcomeOf(RecordOf(c)) = None
         /\ RecordOf(c).intent = IntentOf(c)
         /\ Bound' = Bound /\ Stored' = [Stored EXCEPT ![IdOf(c)] = result[c]]
<1>1. TypeOK /\ IdOf(c) \in ExecutionIds /\ RecordOf(c) \in Record /\ Live(c)
  BY RequestFields DEF IInv, TypeOK, RecordOf, Live, Settled
<1>2. result[c] \in Results /\ OutcomeOf(RecordOf(c)) = None
  BY DEF Held, SameLease, OutcomeOf
<1>3. RecordOf(c).intent = IntentOf(c)
  BY <1>1 DEF IInv, Claimants
<1>. DEFINE r == Completed(RecordOf(c), result[c])
<1>4. r.intent = RecordOf(c).intent /\ OutcomeOf(r) = result[c]
  BY <1>1, <1>2, EndedRecord DEF OutcomeOf
<1>5. Write(c, r)
  OBVIOUS
<1>. HIDE DEF r
<1>6. /\ Bound' = [Bound EXCEPT ![IdOf(c)] = RecordOf(c).intent]
      /\ Stored' = [Stored EXCEPT ![IdOf(c)] = result[c]]
  BY <1>1, <1>4, <1>5, RecordMoves
<1>7. Bound' = Bound
  BY <1>1, <1>6 DEF Bound, RecordOf
<1>. QED
  BY <1>2, <1>3, <1>6, <1>7

LEMMA StoreMaps ==
  ASSUME IInv, Held, NEW c \in Invocations, StoreStep(c)
  PROVE  Once!Next
<1>1. /\ TypeOK /\ pc[c] \in {"completing", "releasing"} /\ Live(c) /\ pc[c] # "returned"
      /\ result' = result
      /\ Goto(c, "returned") \/ Goto(c, "threw")
  BY DEF IInv, StoreStep, CompletionAccepted, CompletionRejected, CompletionFails,
         Release, Live, Settled
<1>2. Working' = Working \ {c}
  BY <1>1, CallMoves DEF Settled
<1>3. ASSUME Goto(c, "threw") PROVE Answers' = Answers
  BY <1>1, <1>3, CallStays
<1>4. ASSUME Goto(c, "returned") PROVE Answers' = [Answers EXCEPT ![c] = result[c]]
  BY <1>1, <1>4, CallMoves
<1>5. CASE /\ pc[c] = "completing" /\ SameLease(c)
           /\ Write(c, Completed(RecordOf(c), result[c]))
  <2>1. Answers' \in {Answers, [Answers EXCEPT ![c] = result[c]]}
    BY <1>1, <1>3, <1>4
  <2>. QED
    BY <1>1, <1>2, <1>5, <2>1, CompletionStores, Stores
<1>6. CASE Goto(c, "threw") /\ Bound' = Bound /\ Stored' = Stored
  <2>1. {c} \in SUBSET Working /\ {c} # {}
    BY <1>1 DEF Working
  <2>. QED
    BY <1>2, <1>3, <1>6, <2>1, Abandons
<1>7. CASE SameLease(c) /\ Write(c, Released(RecordOf(c))) /\ Goto(c, "threw")
  <2>1. RecordOf(c) \in Record
    BY <1>1, RequestFields DEF TypeOK, RecordOf
  <2>. DEFINE r == Released(RecordOf(c))
  <2>2. r.intent = RecordOf(c).intent /\ OutcomeOf(r) = OutcomeOf(RecordOf(c)) /\ Write(c, r)
    BY <1>7, <2>1, EndedRecord DEF SameLease, OutcomeOf
  <2>. HIDE DEF r
  <2>3. Bound' = Bound /\ Stored' = Stored
    BY <1>1, <2>2, RecordStays
  <2>. QED
    BY <1>6, <1>7, <2>3
<1>8. ASSUME record' = record PROVE Bound' = Bound /\ Stored' = Stored
  BY <1>8 DEF Bound, Stored
<1>9. \/ /\ pc[c] = "completing" /\ SameLease(c)
         /\ Write(c, Completed(RecordOf(c), result[c]))
      \/ SameLease(c) /\ Write(c, Released(RecordOf(c))) /\ Goto(c, "threw")
      \/ record' = record /\ Goto(c, "threw")
  BY DEF StoreStep, CompletionAccepted, CompletionRejected, CompletionFails, Release
<1>. QED
  BY <1>5, <1>6, <1>7, <1>8, <1>9

LEMMA WorldMaps ==
  ASSUME IInv,
         \/ \E x \in ExecutionIds : LeaseExpires(x)
         \/ \E o \in Owners : Crash(o)
         \/ UNCHANGED vars
  PROVE  [Once!Next]_Once!vars
<1>1. TypeOK
  BY DEF IInv
<1>2. ASSUME NEW x \in ExecutionIds, LeaseExpires(x) PROVE UNCHANGED Once!vars
  <2>1. \A y \in ExecutionIds : record'[y].intent = record[y].intent
                                /\ OutcomeOf(record'[y]) = OutcomeOf(record[y])
    BY <1>1, <1>2 DEF LeaseExpires, TypeOK, Record, OutcomeOf
  <2>2. Bound' = Bound /\ Stored' = Stored
    BY <2>1 DEF Bound, Stored
  <2>3. Working' = Working /\ Answers' = Answers
    BY <1>2 DEF LeaseExpires, Working, Answers, Live, AnswerOf
  <2>. QED
    BY <2>2, <2>3, Stutters
<1>3. ASSUME NEW o \in Owners, Crash(o) PROVE Once!Next
  <2>. DEFINE dying == {c \in Invocations : Request[c].owner = o /\ Live(c)}
  <2>1. /\ dying \in SUBSET Working /\ dying # {}
        /\ pc' = [c \in Invocations |-> IF c \in dying THEN "crashed" ELSE pc[c]]
        /\ UNCHANGED <<record, result>>
    BY <1>3 DEF Crash, Working
  <2>2. \A c \in dying : pc[c] # "returned"
    BY DEF Live, Settled
  <2>. HIDE DEF dying
  <2>3. Working' = Working \ dying
    BY <2>1 DEF Working, Live, Settled
  <2>4. Answers' = Answers
    BY <2>1, <2>2 DEF Answers, AnswerOf
  <2>5. Bound' = Bound /\ Stored' = Stored
    BY <2>1 DEF Bound, Stored
  <2>. QED
    BY <2>1, <2>3, <2>4, <2>5, Abandons
<1>4. CASE UNCHANGED vars
  BY <1>4, Stutters DEF vars, Bound, Working, Stored, Answers, Live, AnswerOf
<1>. QED
  BY <1>2, <1>3, <1>4

\* The executor keeps the promise of InvocationOnce, for any number of processes,
\* calls, crashes and reclaims.
THEOREM ExecutorRefines == Spec => CompletesOnce
<1>1. Init => Held /\ Once!Init
  BY DEF Init, Held, Once!Init, Absent, Live, AnswerOf, OutcomeOf
<1>2. IInv /\ Held /\ [Next]_vars => Held' /\ [Once!Next]_Once!vars
  <2>. SUFFICES ASSUME IInv, Held, [Next]_vars PROVE Held' /\ [Once!Next]_Once!vars
    OBVIOUS
  <2>1. Held'
    BY HeldStep DEF IInv
  <2>2. [Once!Next]_Once!vars
    BY ClaimMaps, UseCaseMaps, StoreMaps, WorldMaps DEF Next, Quiescent
  <2>. QED
    BY <2>1, <2>2
<1>. QED
  BY <1>1, <1>2, ExecutorInductive, PTL DEF Spec, CompletesOnce, Once!Spec

=============================================================================
