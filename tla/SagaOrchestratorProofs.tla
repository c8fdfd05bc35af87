----------------------- MODULE SagaOrchestratorProofs -----------------------
(***************************************************************************)
(* Proofs about SagaOrchestrator, for any number of sagas, steps and       *)
(* handlers. Shape says where a saga's effects can be at each await: below *)
(* the last completed step, or at the one step whose handler may still be  *)
(* at work. Books says the same of the counters and the ring buffer.       *)
(***************************************************************************)
EXTENDS SagaOrchestrator, SequenceTheorems, FiniteSetTheorems, TLAPS

Counters == {"started", "completed", "failed", "compensated"}
Awaits == {"none", "step", "thrown", "undo", "leaving", "archived", "leaked"}

\* The types of what concerns one saga.
SagaType ==
    /\ state \in [Sagas -> States]
    /\ step \in [Sagas -> 0..N] /\ done \in [Sagas -> 0..N]
    /\ pc \in [Sagas -> Awaits]
    /\ undo \in [Sagas -> 0..N]
    /\ expired \in [Sagas -> BOOLEAN]
    /\ running \in [Sagas -> SUBSET (1..N)]
    /\ effect \in [Sagas -> SUBSET (1..N)]
    /\ refused \in [Sagas -> SUBSET (1..N)]

\* The types of what all sagas share.
BookType ==
    /\ stats \in [Counters -> Nat]
    /\ recent \in Seq(Sagas) /\ Len(recent) <= MaxCompleted

\* TypeOK in two parts, of the sagas and of the books.
LEMMA SplitType == SagaType /\ BookType <=> TypeOK
  BY DEF SagaType, BookType, TypeOK, Counters, Awaits

\* Two counters are set at once.
LEMMA TwoCounters ==
    ASSUME NEW f \in [Counters -> Nat], NEW v \in Nat, NEW w \in Nat
    PROVE  /\ [f EXCEPT !.started = v, !.completed = w] \in [Counters -> Nat]
           /\ [f EXCEPT !.compensated = v, !.failed = w] \in [Counters -> Nat]
  BY DEF Counters

\* The loop of _executeSteps keeps the types.
LEMMA ProceedType ==
    ASSUME SagaType, BookType, NEW s \in Sagas, NEW i \in 0..N, Proceed(s, i)
    PROVE  /\ state' \in [Sagas -> States] /\ pc' \in [Sagas -> Awaits]
           /\ step' \in [Sagas -> 0..N] /\ done' \in [Sagas -> 0..N]
           /\ running' \in [Sagas -> SUBSET (1..N)]
           /\ stats' \in [Counters -> Nat] /\ recent' = recent
<1>1. N \in Nat \ {0}
  BY DefinitionHasSteps
<1>2. CASE i < N /\ expired[s]
  <2>1. i \in 0..N /\ i + 1 \in 0..N
    BY <1>1, <1>2
  <2>2. /\ state' = [state EXCEPT ![s] = "STEP_COMPLETE"]
        /\ done' = [done EXCEPT ![s] = i]
        /\ step' = [step EXCEPT ![s] = i + 1]
        /\ pc' = [pc EXCEPT ![s] = "thrown"]
        /\ running' = [running EXCEPT ![s] = @ \ {i}]
        /\ stats' = stats /\ recent' = recent
    BY <1>2, Zenon DEF Proceed
  <2> QED
    BY <2>1, <2>2 DEF SagaType, BookType, States, Awaits
<1>3. CASE ~ (i < N /\ expired[s])
  <2>1. PICK j \in NextCall(i) :
           /\ done' = [done EXCEPT ![s] = j - 1]
           /\ running' = [running EXCEPT ![s] = (@ \ {i}) \cup ({j} \ {N + 1})]
           /\ IF j <= N
              THEN /\ state' = [state EXCEPT ![s] = "STEP_PENDING"]
                   /\ step' = [step EXCEPT ![s] = j]
                   /\ pc' = [pc EXCEPT ![s] = "step"]
                   /\ stats' = IF i = 0 THEN [stats EXCEPT !.started = @ + 1] ELSE stats
              ELSE /\ state' = [state EXCEPT ![s] = "COMPLETED"]
                   /\ step' = [step EXCEPT ![s] = N]
                   /\ pc' = [pc EXCEPT ![s] = "leaving"]
                   /\ stats' = [stats EXCEPT !.started = IF i = 0 THEN @ + 1 ELSE @,
                                             !.completed = @ + 1]
           /\ UNCHANGED recent
    BY <1>3, Zenon DEF Proceed
  <2>2. j \in (i + 1)..(N + 1) /\ j - 1 \in 0..N /\ N \in 0..N
    BY <1>1 DEF NextCall
  <2>3. {j} \ {N + 1} \subseteq 1..N
    BY <1>1, <2>2
  <2>4. /\ done' \in [Sagas -> 0..N]
        /\ running' \in [Sagas -> SUBSET (1..N)]
    BY <2>1, <2>2, <2>3 DEF SagaType
  <2>5. CASE j <= N
    <3>1. j \in 0..N
      BY <1>1, <2>2, <2>5
    <3>2. stats' = stats \/ stats' = [stats EXCEPT !.started = @ + 1]
      BY <2>1, <2>5
    <3>3. stats' \in [Counters -> Nat]
      BY <3>2 DEF BookType, Counters
    <3> QED
      BY <2>1, <2>4, <2>5, <3>1, <3>3 DEF SagaType, States, Awaits
  <2>6. CASE ~ (j <= N)
    <3>1. stats.started \in Nat /\ stats.started + 1 \in Nat /\ stats.completed + 1 \in Nat
      BY DEF BookType, Counters
    <3>2. PICK v \in Nat :
             stats' = [stats EXCEPT !.started = v, !.completed = stats.completed + 1]
      BY <2>1, <2>6, <3>1
    <3>3. stats \in [Counters -> Nat]
      BY DEF BookType
    <3>4. stats' \in [Counters -> Nat]
      BY ONLY <3>1, <3>2, <3>3, TwoCounters
    <3> QED
      BY <2>1, <2>2, <2>4, <2>6, <3>4 DEF SagaType, States, Awaits
  <2> QED
    BY <2>5, <2>6
<1> QED
  BY <1>2, <1>3

\* The compensation loop keeps the types.
LEMMA UnwindType ==
    ASSUME SagaType, BookType, NEW s \in Sagas, NEW i \in 0..N, Unwind(s, i)
    PROVE  /\ undo' \in [Sagas -> 0..N]
           /\ state' \in [Sagas -> States] /\ pc' \in [Sagas -> Awaits]
           /\ stats' \in [Counters -> Nat]
           /\ UNCHANGED <<step, done>>
<1>1. PICK j \in NextUndo(i) :
        /\ undo' = [undo EXCEPT ![s] = j]
        /\ IF j # 0
           THEN /\ state' = [state EXCEPT ![s] = "COMPENSATING"]
                /\ pc' = [pc EXCEPT ![s] = "undo"]
                /\ UNCHANGED stats
           ELSE /\ state' = [state EXCEPT ![s] = "FAILED"]
                /\ pc' = [pc EXCEPT ![s] = "leaving"]
                /\ stats' = [stats EXCEPT !.compensated = @ + 1, !.failed = @ + 1]
        /\ UNCHANGED <<step, done>>
  BY DEF Unwind
<1>2. j \in 0..N
  BY DefinitionHasSteps DEF NextUndo
<1>3. CASE j # 0
  BY <1>1, <1>2, <1>3 DEF SagaType, BookType, States, Awaits
<1>4. CASE j = 0
  <2>1. stats' = [stats EXCEPT !.compensated = stats.compensated + 1,
                               !.failed = stats.failed + 1]
    BY <1>1, <1>4
  <2>2. stats.failed + 1 \in Nat /\ stats.compensated + 1 \in Nat
    BY DEF BookType, Counters
  <2>3. stats \in [Counters -> Nat]
    BY DEF BookType
  <2>4. stats' \in [Counters -> Nat]
    BY ONLY <2>1, <2>2, <2>3, TwoCounters
  <2> QED
    BY <1>1, <1>2, <1>4, <2>4 DEF SagaType, States, Awaits
<1> QED
  BY <1>3, <1>4

\* The ring buffer: what it holds was there or is the new entry, in their order.
LEMMA ArchivedBuffer ==
    ASSUME BookType, NEW s \in Sagas, Archived(s)
    PROVE  /\ recent' \in Seq(Sagas) /\ Len(recent') <= MaxCompleted
           /\ \E d \in {0, 1} : /\ Len(recent') = Len(recent) + 1 - d
                                /\ \A k \in 1..Len(recent') :
                                     /\ k + d = Len(recent) + 1 => recent'[k] = s
                                     /\ k + d # Len(recent) + 1 => recent'[k] = recent[k + d]
<1> DEFINE log == Append(recent, s)
<1>1. log \in Seq(Sagas) /\ Len(log) = Len(recent) + 1 /\ Len(recent) \in Nat
      /\ \A k \in 1..Len(log) : /\ k = Len(recent) + 1 => log[k] = s
                                /\ k # Len(recent) + 1 => log[k] = recent[k]
  BY AppendProperties, LenProperties DEF BookType
<1>2. recent' = IF Len(log) > MaxCompleted THEN Tail(log) ELSE log
  BY DEF Archived
<1> HIDE DEF log
<1>3. CASE Len(log) > MaxCompleted
  <2>1. /\ Tail(log) \in Seq(Sagas) /\ Len(Tail(log)) = Len(log) - 1
        /\ \A k \in 1..Len(Tail(log)) : Tail(log)[k] = log[k + 1]
    BY <1>1, HeadTailProperties
  <2> QED
    BY <1>1, <1>2, <1>3, <2>1, MaxCompletedIsPositive DEF BookType
<1>4. CASE ~ (Len(log) > MaxCompleted)
  <2>1. recent' = log
    BY <1>2, <1>4
  <2> QED
    BY <1>1, <1>4, <2>1, MaxCompletedIsPositive
<1> QED
  BY <1>3, <1>4

-----------------------------------------------------------------------------
\* Where the effects of a saga are. A handler at work, awaited or not, is that
\* of the step after the last completed one, and so is an effect beyond it.
Shape(s) ==
    /\ running[s] \subseteq Handled \cap {step[s]} \cap {done[s] + 1}
    /\ effect[s] \subseteq 1..done[s] \cup ({step[s]} \cap {done[s] + 1})

\* What an await says of the state, and of the effects before compensation.
Stage(s) ==
    /\ pc[s] = "none" => state[s] = "CREATED" /\ step[s] = 0 /\ done[s] = 0
    /\ pc[s] = "step" => state[s] = "STEP_PENDING" /\ step[s] = done[s] + 1
    /\ pc[s] = "thrown" => state[s] \in {"STEP_PENDING", "STEP_COMPLETE"}
    /\ pc[s] \in {"none", "step", "thrown"} =>
          Handled \cap 1..done[s] \subseteq effect[s] /\ refused[s] = {}
    /\ pc[s] = "undo" => state[s] = "COMPENSATING" /\ undo[s] \in 1..done[s]
    /\ pc[s] = "leaving" =>
          state[s] = "COMPLETED" \/ (state[s] = "FAILED" /\ undo[s] = 0)
    /\ pc[s] = "archived" =>
          \/ state[s] = "COMPLETED" \/ (state[s] = "FAILED" /\ undo[s] = 0)
          \/ state[s] \in {"STEP_PENDING", "STEP_COMPLETE"} /\ done[s] = 0

\* Compensation has come down to undo[s].
Back(s) ==
    /\ state[s] = "COMPLETED" => Handled \subseteq effect[s]
    /\ Undoing(s) =>
        /\ \A i \in Handled \cap 1..done[s] : i <= undo[s] => i \in effect[s]
        /\ \A i \in Compensable \cap 1..done[s] :
              undo[s] < i => i \notin effect[s] \/ i \in refused[s]

Shapes == \A s \in Sagas : Shape(s) /\ Stage(s) /\ Back(s)

\* Every step keeps the types.
LEMMA StepType == Shapes /\ SagaType /\ BookType /\ [Next]_vars => SagaType' /\ BookType'
<1> SUFFICES ASSUME Shapes, SagaType, BookType, [Next]_vars PROVE SagaType' /\ BookType'
  OBVIOUS
<1>0. N \in Nat \ {0} /\ 0 \in 0..N /\ \A i \in 1..N : i - 1 \in 0..N
  BY DefinitionHasSteps
<1>1. CASE UNCHANGED vars
  BY <1>1 DEF SagaType, BookType, vars, instance, world
<1>2. ASSUME NEW s \in Sagas, NEW i \in 0..N, Proceed(s, i),
             UNCHANGED <<undo, expired, effect, refused>>
      PROVE  SagaType' /\ BookType'
  BY <1>2, ProceedType DEF SagaType, BookType
<1>3. ASSUME NEW s \in Sagas, Start(s) PROVE SagaType' /\ BookType'
  BY <1>0, <1>2, <1>3 DEF Start
<1>3t. ASSUME NEW s \in Sagas, StartThrows(s) PROVE SagaType' /\ BookType'
  <2>1. stats' \in [Counters -> Nat]
    BY <1>3t DEF StartThrows, BookType, Counters
  <2>2. pc' \in [Sagas -> Awaits]
    BY <1>3t DEF StartThrows, SagaType, Awaits
  <2> QED
    BY <1>3t, <2>1, <2>2 DEF StartThrows, SagaType, BookType, world
<1>4. ASSUME NEW s \in Sagas, Resolve(s) PROVE SagaType' /\ BookType'
  <2>1. step[s] \in 0..N
    BY DEF SagaType
  <2> QED
    BY <1>2, <1>4, <2>1 DEF Resolve
<1>5. ASSUME NEW s \in Sagas, ResolveUndefined(s) PROVE SagaType' /\ BookType'
  BY <1>5 DEF ResolveUndefined, SagaType, BookType, States, Awaits
<1>6. ASSUME NEW s \in Sagas, Reject(s) PROVE SagaType' /\ BookType'
  BY <1>6 DEF Reject, SagaType, BookType, Awaits
<1>7. ASSUME NEW s \in Sagas, Expire(s) PROVE SagaType' /\ BookType'
  BY <1>7 DEF Expire, SagaType, BookType, instance, world
<1>8. ASSUME NEW s \in Sagas, StepTimeout(s) PROVE SagaType' /\ BookType'
  BY <1>8 DEF StepTimeout, SagaType, BookType, Awaits, world
<1>9. ASSUME NEW s \in Sagas, NEW i \in 0..N, Unwind(s, i),
             expired' = expired, running' = running, recent' = recent,
             effect' \in [Sagas -> SUBSET (1..N)], refused' \in [Sagas -> SUBSET (1..N)]
      PROVE  SagaType' /\ BookType'
  BY <1>9, UnwindType DEF SagaType, BookType
<1>10. ASSUME NEW s \in Sagas, Compensate(s) PROVE SagaType' /\ BookType'
  <2>1. done[s] \in 0..N
    BY DEF SagaType
  <2>2. Unwind(s, done[s]) /\ UNCHANGED <<expired, running, effect, refused, recent>>
    BY <1>10 DEF Compensate, world
  <2> QED
    BY <1>9, <2>1, <2>2 DEF SagaType
<1>11. ASSUME NEW s \in Sagas, CompensationSettles(s)
       PROVE  SagaType' /\ BookType'
  <2>0. undo[s] \in 1..N
    <3>1. undo[s] \in 1..done[s] /\ done[s] \in 0..N
      BY <1>11 DEF CompensationSettles, Shapes, Stage, SagaType
    <3> QED
      BY <1>0, <3>1
  <2>1. Unwind(s, undo[s] - 1) /\ UNCHANGED <<expired, running, recent>>
    BY <1>11 DEF CompensationSettles
  <2>2. effect' \in [Sagas -> SUBSET (1..N)] /\ refused' \in [Sagas -> SUBSET (1..N)]
    <3>1. \/ effect' = [effect EXCEPT ![s] = @ \ {undo[s]}] /\ refused' = refused
          \/ refused' = [refused EXCEPT ![s] = @ \cup {undo[s]}] /\ effect' = effect
      BY <1>11 DEF CompensationSettles
    <3> QED
      BY <2>0, <3>1 DEF SagaType
  <2> QED
    BY <1>0, <1>9, <2>0, <2>1, <2>2
<1>12. ASSUME NEW s \in Sagas, GiveUp(s) PROVE SagaType' /\ BookType'
  <2>1. recent' \in Seq(Sagas) /\ Len(recent') <= MaxCompleted
    BY <1>12, ArchivedBuffer DEF GiveUp
  <2>2. stats' \in [Counters -> Nat]
    BY <1>12 DEF GiveUp, BookType, Counters
  <2>3. pc' \in [Sagas -> Awaits]
    BY <1>12 DEF GiveUp, SagaType, Awaits
  <2> QED
    BY <1>12, <2>1, <2>2, <2>3 DEF GiveUp, SagaType, BookType, world
<1>13. ASSUME NEW s \in Sagas, Leave(s) PROVE SagaType' /\ BookType'
  <2>1. recent' \in Seq(Sagas) /\ Len(recent') <= MaxCompleted
    BY <1>13, ArchivedBuffer DEF Leave
  <2> QED
    BY <1>13, <2>1 DEF Leave, SagaType, BookType, Awaits, world
<1>14. ASSUME NEW s \in Sagas, NEW i \in 1..N, Apply(s, i) \/ LateSettle(s, i)
       PROVE  SagaType' /\ BookType'
  <2>1. /\ effect' \in [Sagas -> SUBSET (1..N)] /\ running' \in [Sagas -> SUBSET (1..N)]
        /\ UNCHANGED <<instance, expired, refused, stats, recent>>
    BY <1>14 DEF Apply, LateSettle, SagaType
  <2> QED
    BY <2>1 DEF SagaType, BookType, instance
<1>15. ASSUME NEW s \in Sagas, Orchestrator(s) \/ Handler(s)
       PROVE  SagaType' /\ BookType'
  BY <1>3, <1>3t, <1>4, <1>5, <1>6, <1>7, <1>8, <1>10, <1>11, <1>12, <1>13, <1>14, <1>15
     DEF Orchestrator, Handler
<1> QED
  BY <1>1, <1>15 DEF Next

-----------------------------------------------------------------------------
\* A step of one saga leaves the others as they are.
Same(s) ==
    /\ state'[s] = state[s] /\ step'[s] = step[s] /\ done'[s] = done[s]
    /\ pc'[s] = pc[s] /\ undo'[s] = undo[s]
    /\ running'[s] = running[s] /\ effect'[s] = effect[s] /\ refused'[s] = refused[s]

\* A saga nobody touches keeps its shape.
LEMMA SameShape ==
    ASSUME NEW s \in Sagas, Same(s), Shape(s) /\ Stage(s) /\ Back(s)
    PROVE  Shape(s)' /\ Stage(s)' /\ Back(s)'
<1>1. Shape(s)'
  BY DEF Same, Shape
<1>2. Stage(s)'
  BY DEF Same, Stage
<1>3. Back(s)'
  BY DEF Same, Back, Undoing
<1> QED
  BY <1>1, <1>2, <1>3

\* A step of one saga leaves the others as they are.
LEMMA OthersStay ==
    ASSUME SagaType, NEW s \in Sagas, Orchestrator(s) \/ Handler(s), NEW t \in Sagas, t # s
    PROVE  Same(t)
<1>1. ASSUME NEW i, Proceed(s, i), UNCHANGED <<undo, effect, refused>> PROVE Same(t)
  BY <1>1 DEF Proceed, SagaType, Same
<1>2. ASSUME NEW i, Unwind(s, i), running' = running,
             effect'[t] = effect[t], refused'[t] = refused[t]
      PROVE  Same(t)
  BY <1>2 DEF Unwind, SagaType, Same
<1>3. ASSUME Start(s) \/ Resolve(s) PROVE Same(t)
  BY <1>1, <1>3 DEF Start, Resolve
<1>4. ASSUME ResolveUndefined(s) \/ Reject(s) \/ StartThrows(s) PROVE Same(t)
  BY <1>4 DEF ResolveUndefined, Reject, StartThrows, world, SagaType, Same
<1>5. ASSUME Expire(s) PROVE Same(t)
  BY <1>5 DEF Expire, instance, world, Same
<1>6. ASSUME StepTimeout(s) \/ GiveUp(s) \/ Leave(s) PROVE Same(t)
  BY <1>6 DEF StepTimeout, GiveUp, Leave, world, SagaType, Same
<1>7. ASSUME Compensate(s) PROVE Same(t)
  BY <1>2, <1>7 DEF Compensate, world
<1>8. ASSUME CompensationSettles(s) PROVE Same(t)
  BY <1>2, <1>8 DEF CompensationSettles, SagaType
<1>9. ASSUME Handler(s) PROVE Same(t)
  BY <1>9 DEF Handler, Apply, LateSettle, instance, SagaType, Same
<1> QED
  BY <1>3, <1>4, <1>5, <1>6, <1>7, <1>8, <1>9 DEF Orchestrator

\* The loop of _executeSteps, entered when all steps up to i are through.
LEMMA ProceedShape ==
    ASSUME SagaType, NEW s \in Sagas, NEW i \in 0..N, Proceed(s, i),
           UNCHANGED <<undo, effect, refused>>,
           running[s] \subseteq {i}, effect[s] \subseteq 1..i,
           Handled \cap 1..i \subseteq effect[s], refused[s] = {}
    PROVE  Shape(s)' /\ Stage(s)' /\ Back(s)'
<1>1. N \in Nat \ {0} /\ Handled \subseteq 1..N /\ i \in 0..N
  BY DefinitionHasSteps
<1>2. CASE i < N /\ expired[s]
  <2>1. /\ state'[s] = "STEP_COMPLETE" /\ done'[s] = i /\ step'[s] = i + 1
        /\ pc'[s] = "thrown" /\ running'[s] = {}
    <3>1. /\ state' = [state EXCEPT ![s] = "STEP_COMPLETE"]
          /\ done' = [done EXCEPT ![s] = i]
          /\ step' = [step EXCEPT ![s] = i + 1]
          /\ pc' = [pc EXCEPT ![s] = "thrown"]
          /\ running' = [running EXCEPT ![s] = @ \ {i}]
      BY <1>2, Zenon DEF Proceed
    <3> QED
      BY <3>1 DEF SagaType
  <2> QED
    BY <2>1 DEF Shape, Stage, Back, Undoing
<1>3. CASE ~ (i < N /\ expired[s])
  <2>1. PICK j \in NextCall(i) :
           /\ done' = [done EXCEPT ![s] = j - 1]
           /\ running' = [running EXCEPT ![s] = (@ \ {i}) \cup ({j} \ {N + 1})]
           /\ IF j <= N
              THEN /\ state' = [state EXCEPT ![s] = "STEP_PENDING"]
                   /\ step' = [step EXCEPT ![s] = j]
                   /\ pc' = [pc EXCEPT ![s] = "step"]
                   /\ stats' = IF i = 0 THEN [stats EXCEPT !.started = @ + 1] ELSE stats
              ELSE /\ state' = [state EXCEPT ![s] = "COMPLETED"]
                   /\ step' = [step EXCEPT ![s] = N]
                   /\ pc' = [pc EXCEPT ![s] = "leaving"]
                   /\ stats' = [stats EXCEPT !.started = IF i = 0 THEN @ + 1 ELSE @,
                                             !.completed = @ + 1]
           /\ UNCHANGED recent
    BY <1>3, Zenon DEF Proceed
  <2>2. /\ j \in (i + 1)..(N + 1) /\ (j \in Handled \/ j = N + 1)
        /\ \A k \in (i + 1)..(j - 1) : k \notin Handled
    BY DEF NextCall
  <2>3. /\ done'[s] = j - 1 /\ running'[s] \subseteq {j} \cap 1..N
        /\ effect'[s] = effect[s] /\ refused'[s] = {} /\ undo'[s] = undo[s]
    BY <1>1, <2>1, <2>2 DEF SagaType
  <2>4. Handled \cap 1..(j - 1) \subseteq effect[s]
    BY <1>1, <2>2
  <2>5. effect[s] \subseteq 1..(j - 1)
    BY <1>1, <2>2
  <2>6. CASE j <= N
    <3>1. state'[s] = "STEP_PENDING" /\ step'[s] = j /\ pc'[s] = "step"
      BY <2>1, <2>6 DEF SagaType
    <3>2. Shape(s)'
      BY <1>1, <2>2, <2>3, <2>5, <2>6, <3>1 DEF Shape
    <3>3. Stage(s)'
      BY <1>1, <2>2, <2>3, <2>4, <3>1 DEF Stage
    <3>4. Back(s)'
      BY <3>1 DEF Back, Undoing
    <3> QED
      BY <3>2, <3>3, <3>4
  <2>7. CASE ~ (j <= N)
    <3>1. state'[s] = "COMPLETED" /\ step'[s] = N /\ pc'[s] = "leaving" /\ j = N + 1
      BY <1>1, <2>1, <2>2, <2>7 DEF SagaType
    <3>2. Shape(s)'
      BY <1>1, <2>2, <2>3, <2>5, <3>1 DEF Shape
    <3>3. Stage(s)'
      BY <3>1 DEF Stage
    <3>4. Back(s)'
      BY <1>1, <2>3, <2>4, <3>1 DEF Back, Undoing
    <3> QED
      BY <3>2, <3>3, <3>4
  <2> QED
    BY <2>6, <2>7
<1> QED
  BY <1>2, <1>3

\* The compensation loop, entered when all steps above i are undone or refused.
LEMMA UnwindShape ==
    ASSUME SagaType, NEW s \in Sagas, NEW i \in 0..N, i <= done[s], Unwind(s, i),
           UNCHANGED running, Shape(s),
           effect'[s] \subseteq effect[s],
           \A k \in Handled \cap 1..i : k \in effect'[s],
           \A k \in Compensable \cap 1..done[s] :
               i < k => k \notin effect'[s] \/ k \in refused'[s]
    PROVE  Shape(s)' /\ Stage(s)' /\ Back(s)'
<1>1. PICK j \in NextUndo(i) :
        /\ undo' = [undo EXCEPT ![s] = j]
        /\ IF j # 0
           THEN /\ state' = [state EXCEPT ![s] = "COMPENSATING"]
                /\ pc' = [pc EXCEPT ![s] = "undo"]
                /\ UNCHANGED stats
           ELSE /\ state' = [state EXCEPT ![s] = "FAILED"]
                /\ pc' = [pc EXCEPT ![s] = "leaving"]
                /\ stats' = [stats EXCEPT !.compensated = @ + 1, !.failed = @ + 1]
        /\ UNCHANGED <<step, done>>
  BY DEF Unwind
<1>2. /\ j \in 0..i /\ \A k \in (j + 1)..i : k \notin Compensable
      /\ N \in Nat /\ done[s] \in 0..N /\ i \in 0..N
  BY DefinitionHasSteps DEF NextUndo, SagaType
<1>3. /\ undo'[s] = j /\ step'[s] = step[s] /\ done'[s] = done[s] /\ running'[s] = running[s]
      /\ state'[s] = (IF j # 0 THEN "COMPENSATING" ELSE "FAILED")
      /\ pc'[s] = (IF j # 0 THEN "undo" ELSE "leaving")
  BY <1>1 DEF SagaType
<1>4. Shape(s)'
  BY <1>3 DEF Shape
<1>5. Stage(s)'
  BY <1>2, <1>3 DEF Stage
<1>6. \A k \in Handled \cap 1..done[s] : k <= j => k \in effect'[s]
  BY <1>2
<1>7. \A k \in Compensable \cap 1..done[s] : j < k => k \notin effect'[s] \/ k \in refused'[s]
  BY <1>2
<1>8. Back(s)'
  BY <1>3, <1>6, <1>7 DEF Back
<1> QED
  BY <1>4, <1>5, <1>8

\* Every step keeps the shape of all sagas.
LEMMA StepShape ==
    ASSUME SagaType, Shapes, [Next]_vars
    PROVE  Shapes'
<1> DEFINE Kept(s) == Shape(s)' /\ Stage(s)' /\ Back(s)'
<1>0. /\ N \in Nat \ {0} /\ Handled \subseteq 1..N
      /\ \A s \in Sagas : Shape(s) /\ Stage(s) /\ Back(s)
  BY DefinitionHasSteps DEF Shapes
<1>1. CASE UNCHANGED vars
  <2>1. \A s \in Sagas : Same(s)
    BY <1>1 DEF vars, instance, world, Same
  <2> QED
    BY <1>0, <2>1, SameShape DEF Shapes
<1>2. ASSUME NEW s \in Sagas, Start(s) PROVE Kept(s)
  <2>1. Proceed(s, 0) /\ UNCHANGED <<undo, effect, refused>> /\ pc[s] = "none"
    BY <1>2 DEF Start
  <2>2. step[s] = 0 /\ done[s] = 0 /\ refused[s] = {}
    BY <1>0, <2>1 DEF Stage
  <2>3. running[s] \subseteq {0} /\ effect[s] \subseteq 1..0 /\ 1..0 = {}
    BY <1>0, <2>2 DEF Shape
  <2> QED
    BY <1>0, <2>1, <2>2, <2>3, ProceedShape
<1>2t. ASSUME NEW s \in Sagas, StartThrows(s) PROVE Kept(s)
  <2>1. /\ pc[s] = "none" /\ pc'[s] = "leaked" /\ running'[s] = running[s]
        /\ state'[s] = state[s] /\ step'[s] = step[s] /\ done'[s] = done[s]
        /\ undo'[s] = undo[s] /\ effect'[s] = effect[s] /\ refused'[s] = refused[s]
    BY <1>2t DEF StartThrows, world, SagaType
  <2>2. Shape(s)'
    BY <1>0, <2>1 DEF Shape
  <2>3. Stage(s)'
    BY <1>0, <2>1 DEF Stage
  <2>4. Back(s)'
    BY <1>0, <2>1 DEF Back, Undoing
  <2> QED
    BY <2>2, <2>3, <2>4
<1>3. ASSUME NEW s \in Sagas, Resolve(s) PROVE Kept(s)
  <2>1. /\ Proceed(s, step[s]) /\ UNCHANGED <<undo, effect, refused>> /\ pc[s] = "step"
        /\ step[s] \in effect[s]
    BY <1>3 DEF Resolve
  <2>2. /\ step[s] = done[s] + 1 /\ refused[s] = {} /\ Handled \cap 1..done[s] \subseteq effect[s]
        /\ step[s] \in 0..N /\ done[s] \in 0..N
    BY <1>0, <2>1 DEF Stage, SagaType
  <2>3. /\ running[s] \subseteq {step[s]} /\ effect[s] \subseteq 1..step[s]
        /\ Handled \cap 1..step[s] \subseteq effect[s]
    BY <1>0, <2>1, <2>2 DEF Shape
  <2> QED
    BY <2>1, <2>2, <2>3, ProceedShape
<1>4. ASSUME NEW s \in Sagas, ResolveUndefined(s) PROVE Kept(s)
  <2>1. /\ pc[s] = "step" /\ step[s] \in effect[s]
        /\ state'[s] = "STEP_COMPLETE" /\ done'[s] = step[s] /\ pc'[s] = "thrown"
        /\ running'[s] = running[s] \ {step[s]}
        /\ step'[s] = step[s] /\ undo'[s] = undo[s]
        /\ effect'[s] = effect[s] /\ refused'[s] = refused[s]
    BY <1>4 DEF ResolveUndefined, SagaType
  <2>2. /\ step[s] = done[s] + 1 /\ refused[s] = {} /\ Handled \cap 1..done[s] \subseteq effect[s]
        /\ step[s] \in 0..N /\ done[s] \in 0..N
    BY <1>0, <2>1 DEF Stage, SagaType
  <2>3. Shape(s)'
    BY <1>0, <2>1, <2>2 DEF Shape
  <2>4. Stage(s)'
    BY <1>0, <2>1, <2>2 DEF Stage
  <2>5. Back(s)'
    BY <2>1 DEF Back, Undoing
  <2> QED
    BY <2>3, <2>4, <2>5
<1>5. ASSUME NEW s \in Sagas, Reject(s) \/ StepTimeout(s) PROVE Kept(s)
  <2>1. /\ pc[s] = "step" /\ pc'[s] = "thrown" /\ running'[s] \subseteq running[s]
        /\ state'[s] = state[s] /\ step'[s] = step[s] /\ done'[s] = done[s]
        /\ undo'[s] = undo[s] /\ effect'[s] = effect[s] /\ refused'[s] = refused[s]
    BY <1>5 DEF Reject, StepTimeout, world, SagaType
  <2>2. Shape(s)'
    BY <1>0, <2>1 DEF Shape
  <2>3. Stage(s)'
    BY <1>0, <2>1 DEF Stage
  <2>4. Back(s)'
    BY <1>0, <2>1 DEF Back, Stage, Undoing
  <2> QED
    BY <2>2, <2>3, <2>4
<1>6. ASSUME NEW s \in Sagas, Expire(s) PROVE Kept(s)
  <2>1. Same(s)
    BY <1>6 DEF Expire, instance, world, Same
  <2> QED
    BY <1>0, <2>1, SameShape
<1>7. ASSUME NEW s \in Sagas, Compensate(s) PROVE Kept(s)
  <2>1. /\ Unwind(s, done[s]) /\ UNCHANGED <<running, effect, refused>> /\ pc[s] = "thrown"
        /\ done[s] \in 0..N
    BY <1>7 DEF Compensate, world, SagaType
  <2>2. \A k \in Handled \cap 1..done[s] : k \in effect'[s]
    BY <1>0, <2>1 DEF Stage
  <2>3. \A k \in Compensable \cap 1..done[s] : ~ (done[s] < k)
    BY <1>0, <2>1
  <2> QED
    BY <1>0, <2>1, <2>2, <2>3, UnwindShape
<1>8. ASSUME NEW s \in Sagas, CompensationSettles(s) PROVE Kept(s)
  <2>1. /\ Unwind(s, undo[s] - 1) /\ UNCHANGED running /\ pc[s] = "undo"
        /\ \/ effect' = [effect EXCEPT ![s] = @ \ {undo[s]}] /\ refused' = refused
           \/ refused' = [refused EXCEPT ![s] = @ \cup {undo[s]}] /\ effect' = effect
    BY <1>8 DEF CompensationSettles
  <2>2. /\ Undoing(s) /\ undo[s] \in 1..done[s] /\ done[s] \in 0..N
    BY <1>0, <2>1 DEF Stage, Undoing, SagaType
  <2>3. undo[s] - 1 \in 0..N /\ undo[s] - 1 <= done[s] /\ undo[s] \in Nat
    BY <1>0, <2>2
  <2>4. /\ effect'[s] \subseteq effect[s] /\ effect[s] \subseteq effect'[s] \cup {undo[s]}
        /\ refused[s] \subseteq refused'[s]
        /\ undo[s] \notin effect'[s] \/ undo[s] \in refused'[s]
    BY <2>1 DEF SagaType
  <2>5. \A k \in Handled \cap 1..(undo[s] - 1) : k \in effect'[s]
    BY <1>0, <2>2, <2>3, <2>4 DEF Back
  <2>6. \A k \in Compensable \cap 1..done[s] :
            undo[s] - 1 < k => k \notin effect'[s] \/ k \in refused'[s]
    BY <1>0, <2>2, <2>3, <2>4 DEF Back
  <2> QED
    BY <1>0, <2>1, <2>3, <2>4, <2>5, <2>6, UnwindShape
<1>9. ASSUME NEW s \in Sagas, GiveUp(s) \/ Leave(s) PROVE Kept(s)
  <2>1. /\ pc'[s] = "archived" /\ running'[s] = running[s]
        /\ state'[s] = state[s] /\ step'[s] = step[s] /\ done'[s] = done[s]
        /\ undo'[s] = undo[s] /\ effect'[s] = effect[s] /\ refused'[s] = refused[s]
        /\ pc[s] = "leaving" \/ (pc[s] = "thrown" /\ done[s] = 0)
    BY <1>9 DEF GiveUp, Leave, world, SagaType
  <2>2. Shape(s)'
    BY <1>0, <2>1 DEF Shape
  <2>3. Stage(s)'
    BY <1>0, <2>1 DEF Stage
  <2>4. Back(s)'
    BY <1>0, <2>1 DEF Back, Undoing
  <2> QED
    BY <2>2, <2>3, <2>4
<1>10. ASSUME NEW s \in Sagas, Handler(s) PROVE Kept(s)
  <2>1. PICK i \in 1..N : Apply(s, i) \/ LateSettle(s, i)
    BY <1>10 DEF Handler
  <2>2. /\ state'[s] = state[s] /\ step'[s] = step[s] /\ done'[s] = done[s]
        /\ pc'[s] = pc[s] /\ undo'[s] = undo[s] /\ refused'[s] = refused[s]
        /\ running'[s] \subseteq running[s] /\ effect[s] \subseteq effect'[s]
        /\ effect'[s] \subseteq effect[s] \cup {i} /\ i \in running[s]
    BY <2>1 DEF Apply, LateSettle, instance, SagaType
  <2>3. i = step[s] /\ i = done[s] + 1 /\ done[s] \in Nat
    BY <1>0, <2>2 DEF Shape, SagaType
  <2>4. Shape(s)'
    BY <1>0, <2>2, <2>3 DEF Shape
  <2>5. Stage(s)'
    BY <1>0, <2>2 DEF Stage
  <2>6. \A k \in 1..done[s] : k \in effect'[s] <=> k \in effect[s]
    BY <2>2, <2>3
  <2>7. Back(s)'
    BY <1>0, <2>2, <2>6 DEF Back, Undoing
  <2> QED
    BY <2>4, <2>5, <2>7
<1>11. ASSUME NEW s \in Sagas, Orchestrator(s) \/ Handler(s) PROVE Shapes'
  <2>1. Kept(s)
    <3> HIDE DEF Kept
    <3> QED
      BY <1>2, <1>2t, <1>3, <1>4, <1>5, <1>6, <1>7, <1>8, <1>9, <1>10, <1>11 DEF Orchestrator
  <2>2. \A t \in Sagas \ {s} : Kept(t)
    BY <1>0, <1>11, OthersStay, SameShape
  <2> QED
    BY <2>1, <2>2 DEF Shapes
<1> QED
  BY <1>1, <1>11 DEF Next

-----------------------------------------------------------------------------
\* The counters and the ring buffer.
InDoubt == {"step", "thrown", "undo", "leaked"}
Undecided == {s \in Sagas : pc[s] \in InDoubt}

Counted ==
    /\ stats.started = stats.completed + stats.failed + Cardinality(Undecided)
    /\ stats.compensated <= stats.failed

Buffered ==
    /\ \A k \in 1..Len(recent) : pc[recent[k]] = "archived"
    /\ \A k, l \in 1..Len(recent) : recent[k] = recent[l] => k = l

Fresh == \A s \in Sagas : pc[s] = "none" => ~ expired[s]

\* How a move of one saga changes the number of undecided ones.
LEMMA UndecidedMoves ==
    ASSUME SagaType, NEW s \in Sagas, NEW v, pc' = [pc EXCEPT ![s] = v]
    PROVE  /\ Cardinality(Undecided) \in Nat
           /\ pc[s] \in InDoubt /\ v \in InDoubt =>
                 Cardinality(Undecided') = Cardinality(Undecided) + 0
           /\ pc[s] \notin InDoubt /\ v \in InDoubt =>
                 Cardinality(Undecided') = Cardinality(Undecided) + 1
           /\ pc[s] \in InDoubt /\ v \notin InDoubt =>
                 Cardinality(Undecided') = Cardinality(Undecided) - 1
           /\ pc[s] \notin InDoubt /\ v \notin InDoubt =>
                 Cardinality(Undecided') = Cardinality(Undecided) + 0
<1> DEFINE A == Undecided
<1>1. IsFiniteSet(A) /\ Cardinality(A) \in Nat
  BY SagasFinite, FS_Subset, FS_CardinalityType DEF Undecided
<1>2. s \in A <=> pc[s] \in InDoubt
  BY DEF Undecided
<1>3. v \in InDoubt => Undecided' = A \cup {s}
  BY DEF Undecided, SagaType
<1>4. v \notin InDoubt => Undecided' = A \ {s}
  BY DEF Undecided, SagaType
<1> HIDE DEF A
<1>5. /\ s \in A => Cardinality(A \cup {s}) = Cardinality(A)
      /\ s \notin A => Cardinality(A \cup {s}) = Cardinality(A) + 1
  BY <1>1, FS_AddElement
<1>6. /\ s \in A => Cardinality(A \ {s}) = Cardinality(A) - 1
      /\ s \notin A => Cardinality(A \ {s}) = Cardinality(A)
  BY <1>1, FS_RemoveElement
<1>7. Cardinality(A) = Cardinality(A) + 0
  BY <1>1
<1> QED
  BY <1>1, <1>2, <1>3, <1>4, <1>5, <1>6, <1>7 DEF A

\* What _executeSteps counts up to its next await.
LEMMA ProceedCounts ==
    ASSUME SagaType, BookType, NEW s \in Sagas, NEW i \in 0..N, Proceed(s, i),
           i = 0 => ~ expired[s]
    PROVE  \E v \in {"thrown", "step", "leaving"} :
              /\ pc' = [pc EXCEPT ![s] = v]
              /\ i = 0 => stats'.started = stats.started + 1
              /\ i # 0 => stats'.started = stats.started
              /\ v = "leaving" => stats'.completed = stats.completed + 1
              /\ v # "leaving" => stats'.completed = stats.completed
              /\ stats'.failed = stats.failed /\ stats'.compensated = stats.compensated
<1>1. /\ stats \in [Counters -> Nat]
      /\ {"started", "completed", "failed", "compensated"} = Counters
  BY DEF BookType, Counters
<1>2. CASE i < N /\ expired[s]
  <2>1. pc' = [pc EXCEPT ![s] = "thrown"] /\ stats' = stats /\ i # 0
    BY <1>2, Zenon DEF Proceed
  <2> QED
    BY <2>1
<1>3. CASE ~ (i < N /\ expired[s])
  <2>1. PICK j \in NextCall(i) :
           /\ done' = [done EXCEPT ![s] = j - 1]
           /\ running' = [running EXCEPT ![s] = (@ \ {i}) \cup ({j} \ {N + 1})]
           /\ IF j <= N
              THEN /\ state' = [state EXCEPT ![s] = "STEP_PENDING"]
                   /\ step' = [step EXCEPT ![s] = j]
                   /\ pc' = [pc EXCEPT ![s] = "step"]
                   /\ stats' = IF i = 0 THEN [stats EXCEPT !.started = @ + 1] ELSE stats
              ELSE /\ state' = [state EXCEPT ![s] = "COMPLETED"]
                   /\ step' = [step EXCEPT ![s] = N]
                   /\ pc' = [pc EXCEPT ![s] = "leaving"]
                   /\ stats' = [stats EXCEPT !.started = IF i = 0 THEN @ + 1 ELSE @,
                                             !.completed = @ + 1]
           /\ UNCHANGED recent
    BY <1>3, Zenon DEF Proceed
  <2>2. CASE j <= N /\ i = 0
    <3>1. stats' = [stats EXCEPT !.started = stats.started + 1]
      BY <2>1, <2>2
    <3> QED
      BY <1>1, <2>1, <2>2, <3>1
  <2>3. CASE j <= N /\ i # 0
    BY <2>1, <2>3
  <2>4. CASE ~ (j <= N) /\ i = 0
    <3>1. stats' = [stats EXCEPT !.started = stats.started + 1, !.completed = stats.completed + 1]
      BY <2>1, <2>4
    <3> QED
      BY <1>1, <2>1, <2>4, <3>1
  <2>5. CASE ~ (j <= N) /\ i # 0
    <3>1. stats' = [stats EXCEPT !.started = stats.started, !.completed = stats.completed + 1]
      BY <2>1, <2>5
    <3> QED
      BY <1>1, <2>1, <2>5, <3>1
  <2> QED
    BY <2>2, <2>3, <2>4, <2>5
<1> QED
  BY <1>2, <1>3

\* What the compensation loop counts up to its next await.
LEMMA UnwindCounts ==
    ASSUME SagaType, BookType, NEW s \in Sagas, NEW i, Unwind(s, i)
    PROVE  \E v \in {"undo", "leaving"} :
              /\ pc' = [pc EXCEPT ![s] = v]
              /\ stats'.started = stats.started /\ stats'.completed = stats.completed
              /\ v = "undo" =>
                   stats'.failed = stats.failed /\ stats'.compensated = stats.compensated
              /\ v = "leaving" =>
                   /\ stats'.failed = stats.failed + 1
                   /\ stats'.compensated = stats.compensated + 1
<1>1. /\ stats \in [Counters -> Nat]
      /\ {"started", "completed", "failed", "compensated"} = Counters
  BY DEF BookType, Counters
<1>2. \/ pc' = [pc EXCEPT ![s] = "undo"] /\ stats' = stats
      \/ /\ pc' = [pc EXCEPT ![s] = "leaving"]
         /\ stats' = [stats EXCEPT !.compensated = stats.compensated + 1,
                                   !.failed = stats.failed + 1]
  BY DEF Unwind
<1> QED
  BY <1>1, <1>2

\* A saga that moves on unarchived leaves the ring buffer right.
LEMMA BufferMoves ==
    ASSUME SagaType, BookType, Buffered, NEW s \in Sagas, pc[s] # "archived", NEW v,
           pc' = [pc EXCEPT ![s] = v], recent' = recent
    PROVE  Buffered'
<1>1. \A k \in 1..Len(recent) : recent[k] \in Sagas
  BY ElementOfSeq DEF BookType
<1>2. \A k \in 1..Len(recent) : pc'[recent[k]] = "archived"
  BY <1>1 DEF Buffered, SagaType
<1> QED
  BY <1>2 DEF Buffered

\* A saga that is archived was not in the ring buffer.
LEMMA BufferArchives ==
    ASSUME SagaType, BookType, Buffered, NEW s \in Sagas, pc[s] # "archived",
           pc' = [pc EXCEPT ![s] = "archived"], Archived(s)
    PROVE  Buffered'
<1>1. \A k \in 1..Len(recent) : recent[k] \in Sagas /\ recent[k] # s
  BY ElementOfSeq DEF BookType, Buffered
<1>2. PICK d \in {0, 1} : /\ Len(recent') = Len(recent) + 1 - d
                          /\ \A k \in 1..Len(recent') :
                               /\ k + d = Len(recent) + 1 => recent'[k] = s
                               /\ k + d # Len(recent) + 1 => recent'[k] = recent[k + d]
  BY ArchivedBuffer
<1>3. Len(recent) \in Nat
  BY LenProperties DEF BookType
<1>4. \A k \in 1..Len(recent') : k + d # Len(recent) + 1 => k + d \in 1..Len(recent)
  BY <1>2, <1>3
<1>5. \A k \in 1..Len(recent') : pc'[recent'[k]] = "archived"
  BY <1>1, <1>2, <1>4 DEF Buffered, SagaType
<1>6. ASSUME NEW k \in 1..Len(recent'), NEW l \in 1..Len(recent'), recent'[k] = recent'[l]
      PROVE  k = l
  <2>1. CASE k + d = Len(recent) + 1
    <3>1. recent'[l] = s
      BY <1>2, <1>6, <2>1
    <3>2. l + d = Len(recent) + 1
      BY <1>1, <1>2, <1>4, <3>1
    <3> QED
      BY <1>2, <1>3, <2>1, <3>2
  <2>2. CASE k + d # Len(recent) + 1
    <3>1. k + d \in 1..Len(recent) /\ recent'[k] = recent[k + d] /\ recent'[k] # s
      BY <1>1, <1>2, <1>4, <2>2
    <3>2. l + d # Len(recent) + 1
      BY <1>2, <1>6, <3>1
    <3>3. l + d \in 1..Len(recent) /\ recent'[l] = recent[l + d]
      BY <1>2, <1>4, <3>2
    <3>4. k + d = l + d
      BY <1>6, <3>1, <3>3 DEF Buffered
    <3> QED
      BY <1>2, <1>3, <3>4
  <2> QED
    BY <2>1, <2>2
<1> QED
  BY <1>5, <1>6 DEF Buffered

Books == Counted /\ Buffered /\ Fresh

\* The arithmetic of the counters.
LEMMA Sums ==
    ASSUME NEW a \in Nat, NEW b \in Nat, NEW c \in Nat, NEW u \in Nat, a = b + c + u,
           NEW a1 \in Nat, NEW b1 \in Nat, NEW c1 \in Nat, NEW k \in Int,
           a1 + b + c = a + b1 + c1 + k
    PROVE  a1 = b1 + c1 + (u + k)
  OBVIOUS

\* Counted, when k more sagas are undecided and the counters say so too.
LEMMA CountMoves ==
    ASSUME SagaType, BookType, BookType', Counted, NEW k \in Int,
           Cardinality(Undecided') = Cardinality(Undecided) + k,
           stats'.started + stats.completed + stats.failed
              = stats.started + stats'.completed + stats'.failed + k,
           stats'.compensated + stats.failed <= stats'.failed + stats.compensated
    PROVE  Counted'
<1>1. /\ stats.started \in Nat /\ stats.completed \in Nat
      /\ stats.failed \in Nat /\ stats.compensated \in Nat
      /\ stats'.started \in Nat /\ stats'.completed \in Nat
      /\ stats'.failed \in Nat /\ stats'.compensated \in Nat
  BY DEF BookType, Counters
<1>2. stats.started = stats.completed + stats.failed + Cardinality(Undecided)
  BY DEF Counted
<1>3. Cardinality(Undecided) \in Nat
  BY SagasFinite, FS_Subset, FS_CardinalityType DEF Undecided
<1>4. stats'.started = stats'.completed + stats'.failed + Cardinality(Undecided')
  BY <1>1, <1>2, <1>3, Sums
<1>5. stats'.compensated <= stats'.failed
  BY <1>1 DEF Counted
<1> QED
  BY <1>4, <1>5 DEF Counted

\* Every step keeps the counters and the ring buffer.
LEMMA StepBooks ==
    ASSUME SagaType, BookType, SagaType', BookType', Shapes, Books, [Next]_vars
    PROVE  Books'
<1>0. /\ Counted /\ Buffered /\ Fresh /\ N \in Nat \ {0}
      /\ stats.started \in Nat /\ stats.completed \in Nat
      /\ stats.failed \in Nat /\ stats.compensated \in Nat
      /\ stats'.started \in Nat /\ stats'.completed \in Nat
      /\ stats'.failed \in Nat /\ stats'.compensated \in Nat
      /\ "none" \notin InDoubt /\ "leaving" \notin InDoubt /\ "archived" \notin InDoubt
      /\ "step" \in InDoubt /\ "thrown" \in InDoubt /\ "undo" \in InDoubt
      /\ "leaked" \in InDoubt
  BY DefinitionHasSteps DEF Books, BookType, Counters, InDoubt
<1>1. CASE UNCHANGED vars
  BY <1>0, <1>1 DEF vars, instance, world, Books, Counted, Undecided, Buffered, Fresh
<1>2. ASSUME pc' = pc, stats' = stats, recent' = recent PROVE Counted' /\ Buffered'
  BY <1>0, <1>2 DEF Counted, Undecided, Buffered
<1>3. ASSUME NEW s \in Sagas, Start(s) PROVE Books'
  <2>1. Proceed(s, 0) /\ UNCHANGED expired /\ pc[s] = "none" /\ ~ expired[s] /\ 0 \in 0..N
    BY <1>0, <1>3 DEF Start, Fresh
  <2>2. PICK v \in {"thrown", "step", "leaving"} :
              /\ pc' = [pc EXCEPT ![s] = v]
              /\ stats'.started = stats.started + 1
              /\ v = "leaving" => stats'.completed = stats.completed + 1
              /\ v # "leaving" => stats'.completed = stats.completed
              /\ stats'.failed = stats.failed /\ stats'.compensated = stats.compensated
    BY <2>1, ProceedCounts
  <2>3. recent' = recent
    BY <2>1, ProceedType
  <2>4. Counted'
    <3>1. CASE v = "leaving"
      <4>1. Cardinality(Undecided') = Cardinality(Undecided) + 0
        BY <1>0, <2>1, <2>2, <3>1, UndecidedMoves
      <4> QED
        BY <1>0, <2>2, <3>1, <4>1, CountMoves
    <3>2. CASE v # "leaving"
      <4>1. Cardinality(Undecided') = Cardinality(Undecided) + 1
        BY <1>0, <2>1, <2>2, <3>2, UndecidedMoves
      <4> QED
        BY <1>0, <2>2, <3>2, <4>1, CountMoves
    <3> QED
      BY <3>1, <3>2
  <2>5. Buffered'
    BY <1>0, <2>1, <2>2, <2>3, BufferMoves
  <2>6. Fresh'
    BY <1>0, <2>1, <2>2 DEF Fresh, SagaType
  <2> QED
    BY <2>4, <2>5, <2>6 DEF Books
<1>3t. ASSUME NEW s \in Sagas, StartThrows(s) PROVE Books'
  <2>1. /\ pc[s] = "none" /\ pc' = [pc EXCEPT ![s] = "leaked"]
        /\ recent' = recent /\ expired' = expired
        /\ stats' = [stats EXCEPT !.started = @ + 1]
    BY <1>3t DEF StartThrows
  <2>2. /\ stats'.started = stats.started + 1 /\ stats'.completed = stats.completed
        /\ stats'.failed = stats.failed /\ stats'.compensated = stats.compensated
    BY <2>1 DEF BookType, Counters
  <2>3. Counted'
    <3>1. Cardinality(Undecided') = Cardinality(Undecided) + 1
      BY <1>0, <2>1, UndecidedMoves
    <3> QED
      BY <1>0, <2>2, <3>1, CountMoves
  <2>4. Buffered'
    BY <1>0, <2>1, BufferMoves
  <2>5. Fresh'
    BY <1>0, <2>1 DEF Fresh, SagaType
  <2> QED
    BY <2>3, <2>4, <2>5 DEF Books
<1>4. ASSUME NEW s \in Sagas, Resolve(s) PROVE Books'
  <2>1. Proceed(s, step[s]) /\ UNCHANGED expired /\ pc[s] = "step" /\ step[s] \in 0..N
    BY <1>4 DEF Resolve, SagaType
  <2>2. step[s] # 0
    BY <2>1 DEF Shapes, Stage, SagaType
  <2>3. PICK v \in {"thrown", "step", "leaving"} :
              /\ pc' = [pc EXCEPT ![s] = v]
              /\ stats'.started = stats.started
              /\ v = "leaving" => stats'.completed = stats.completed + 1
              /\ v # "leaving" => stats'.completed = stats.completed
              /\ stats'.failed = stats.failed /\ stats'.compensated = stats.compensated
    BY <2>1, <2>2, ProceedCounts
  <2>4. recent' = recent
    BY <2>1, ProceedType
  <2>5. Counted'
    <3>1. CASE v = "leaving"
      <4>1. Cardinality(Undecided') = Cardinality(Undecided) + (-1)
        BY <1>0, <2>1, <2>3, <3>1, UndecidedMoves
      <4> QED
        BY <1>0, <2>3, <3>1, <4>1, CountMoves
    <3>2. CASE v # "leaving"
      <4>1. pc[s] \in InDoubt /\ v \in InDoubt
        BY <2>1, <3>2 DEF InDoubt
      <4>2. Cardinality(Undecided') = Cardinality(Undecided) + 0
        BY <2>3, <4>1, UndecidedMoves
      <4> QED
        BY <1>0, <2>3, <3>2, <4>2, CountMoves
    <3> QED
      BY <3>1, <3>2
  <2>6. Buffered'
    BY <1>0, <2>1, <2>3, <2>4, BufferMoves
  <2>7. Fresh'
    BY <1>0, <2>1, <2>3 DEF Fresh, SagaType
  <2> QED
    BY <2>5, <2>6, <2>7 DEF Books
<1>5. ASSUME NEW s \in Sagas, ResolveUndefined(s) \/ Reject(s) \/ StepTimeout(s) PROVE Books'
  <2>1. /\ pc[s] = "step" /\ pc' = [pc EXCEPT ![s] = "thrown"]
        /\ stats' = stats /\ recent' = recent /\ expired' = expired
    BY <1>5 DEF ResolveUndefined, Reject, StepTimeout
  <2>2. Counted'
    <3>1. Cardinality(Undecided') = Cardinality(Undecided) + 0
      BY <1>0, <2>1, UndecidedMoves
    <3> QED
      BY <1>0, <2>1, <3>1, CountMoves
  <2>3. Buffered'
    BY <1>0, <2>1, BufferMoves
  <2>4. Fresh'
    BY <1>0, <2>1 DEF Fresh, SagaType
  <2> QED
    BY <2>2, <2>3, <2>4 DEF Books
<1>6. ASSUME NEW s \in Sagas, Expire(s) PROVE Books'
  <2>1. Fresh'
    BY <1>0, <1>6 DEF Expire, instance, Fresh, SagaType
  <2> QED
    BY <1>2, <1>6, <2>1 DEF Expire, instance, Books
<1>7. ASSUME NEW s \in Sagas, NEW i, Unwind(s, i), pc[s] \in {"thrown", "undo"},
             recent' = recent, expired' = expired
      PROVE  Books'
  <2>1. PICK v \in {"undo", "leaving"} :
              /\ pc' = [pc EXCEPT ![s] = v]
              /\ stats'.started = stats.started /\ stats'.completed = stats.completed
              /\ v = "undo" =>
                   stats'.failed = stats.failed /\ stats'.compensated = stats.compensated
              /\ v = "leaving" =>
                   /\ stats'.failed = stats.failed + 1
                   /\ stats'.compensated = stats.compensated + 1
    BY <1>7, UnwindCounts
  <2>2. pc[s] \in InDoubt /\ pc[s] # "archived" /\ pc[s] # "none"
    BY <1>7 DEF InDoubt
  <2>3. Counted'
    <3>1. CASE v = "leaving"
      <4>1. Cardinality(Undecided') = Cardinality(Undecided) + (-1)
        BY <1>0, <2>1, <2>2, <3>1, UndecidedMoves
      <4> QED
        BY <1>0, <2>1, <3>1, <4>1, CountMoves
    <3>2. CASE v = "undo"
      <4>1. Cardinality(Undecided') = Cardinality(Undecided) + 0
        BY <1>0, <2>1, <2>2, <3>2, UndecidedMoves
      <4> QED
        BY <1>0, <2>1, <3>2, <4>1, CountMoves
    <3> QED
      BY <2>1, <3>1, <3>2
  <2>4. Buffered'
    BY <1>0, <1>7, <2>1, <2>2, BufferMoves
  <2>5. Fresh'
    BY <1>0, <1>7, <2>1 DEF Fresh, SagaType
  <2> QED
    BY <2>3, <2>4, <2>5 DEF Books
<1>8. ASSUME NEW s \in Sagas, Compensate(s) \/ CompensationSettles(s) PROVE Books'
  BY <1>7, <1>8 DEF Compensate, CompensationSettles
<1>9. ASSUME NEW s \in Sagas, GiveUp(s) PROVE Books'
  <2>1. /\ pc[s] = "thrown" /\ pc' = [pc EXCEPT ![s] = "archived"]
        /\ stats' = [stats EXCEPT !.failed = @ + 1] /\ Archived(s) /\ expired' = expired
    BY <1>9 DEF GiveUp
  <2>2. /\ stats'.failed = stats.failed + 1 /\ stats'.started = stats.started
        /\ stats'.completed = stats.completed /\ stats'.compensated = stats.compensated
    BY <2>1 DEF BookType, Counters
  <2>3. Counted'
    <3>1. Cardinality(Undecided') = Cardinality(Undecided) + (-1)
      BY <1>0, <2>1, UndecidedMoves
    <3> QED
      BY <1>0, <2>2, <3>1, CountMoves
  <2>4. Buffered'
    BY <1>0, <2>1, BufferArchives
  <2>5. Fresh'
    BY <1>0, <2>1 DEF Fresh, SagaType
  <2> QED
    BY <2>3, <2>4, <2>5 DEF Books
<1>10. ASSUME NEW s \in Sagas, Leave(s) PROVE Books'
  <2>1. /\ pc[s] = "leaving" /\ pc' = [pc EXCEPT ![s] = "archived"]
        /\ stats' = stats /\ Archived(s) /\ expired' = expired
    BY <1>10 DEF Leave
  <2>2. Counted'
    <3>1. Cardinality(Undecided') = Cardinality(Undecided) + 0
      BY <1>0, <2>1, UndecidedMoves
    <3> QED
      BY <1>0, <2>1, <3>1, CountMoves
  <2>3. Buffered'
    BY <1>0, <2>1, BufferArchives
  <2>4. Fresh'
    BY <1>0, <2>1 DEF Fresh, SagaType
  <2> QED
    BY <2>2, <2>3, <2>4 DEF Books
<1>11. ASSUME NEW s \in Sagas, Handler(s) PROVE Books'
  <2>1. UNCHANGED <<pc, expired, stats, recent>>
    BY <1>11 DEF Handler, Apply, LateSettle, instance
  <2>2. Fresh'
    BY <1>0, <2>1 DEF Fresh
  <2> QED
    BY <1>2, <2>1, <2>2 DEF Books
<1>12. CASE \E s \in Sagas : Orchestrator(s) \/ Handler(s)
  BY <1>3, <1>3t, <1>4, <1>5, <1>6, <1>8, <1>9, <1>10, <1>11, <1>12 DEF Orchestrator
<1> QED
  BY <1>1, <1>12 DEF Next

-----------------------------------------------------------------------------
\* The invariant that carries the theorems.
Inv == SagaType /\ BookType /\ Shapes /\ Books

\* Unstarted sagas satisfy the invariant.
LEMMA InitInv == Init => Inv
<1> SUFFICES ASSUME Init PROVE Inv
  OBVIOUS
<1>1. SagaType /\ BookType
  BY DefinitionHasSteps, MaxCompletedIsPositive
     DEF Init, SagaType, BookType, States, Awaits, Counters
<1>2. Shapes
  BY DEF Init, Shapes, Shape, Stage, Back, Undoing
<1>3. Undecided = {}
  BY DEF Init, Undecided, InDoubt
<1>4. Counted
  BY <1>3, FS_EmptySet DEF Init, Counted
<1>5. Buffered /\ Fresh
  BY DEF Init, Buffered, Fresh
<1> QED
  BY <1>1, <1>2, <1>4, <1>5 DEF Inv, Books

\* Every step preserves the invariant.
LEMMA StepInv == Inv /\ [Next]_vars => Inv'
  BY StepType, StepShape, StepBooks DEF Inv

\* The inductive invariant holds for any sagas and any definition.
THEOREM SpecInv == Spec => []Inv
  BY InitInv, StepInv, PTL DEF Spec

\* Every value has its type, whatever handlers do and however late.
THEOREM TypeCorrect == Spec => []TypeOK
  BY SpecInv, SplitType, PTL DEF Inv

\* Compensation runs in reverse order, for any definition.
THEOREM ReverseOrder == Spec => []UndoneInReverse
<1>1. Inv => UndoneInReverse
  <2> SUFFICES ASSUME Inv, NEW s \in Sagas, Undoing(s),
                      NEW i \in Compensable \cap Handled \cap 1..done[s],
                      NEW j \in Compensable \cap Handled \cap 1..done[s],
                      i < j, i \notin effect[s]
               PROVE  j \notin effect[s] \/ j \in refused[s]
    BY DEF UndoneInReverse
  <2>1. undo[s] \in 0..N /\ N \in Nat /\ done[s] \in 0..N
    BY DefinitionHasSteps DEF Inv, SagaType
  <2>2. Back(s)
    BY DEF Inv, Shapes
  <2>3. undo[s] < i
    BY <2>1, <2>2 DEF Back
  <2> QED
    BY <2>1, <2>2, <2>3 DEF Back
<1> QED
  BY <1>1, SpecInv, PTL

\* A saga that ends leaves no effect that nobody can account for.
THEOREM EffectsAccountedFor == Spec => []AllOrAccountedFor
<1>1. Inv => AllOrAccountedFor
  <2> SUFFICES ASSUME Inv, NEW s \in Sagas, pc[s] \in {"leaving", "archived"}
               PROVE  IF state[s] = "COMPLETED" THEN Handled \subseteq effect[s]
                      ELSE \A i \in effect[s] \cap Compensable :
                               i \in refused[s] \/ (i = step[s] /\ i = done[s] + 1)
    BY DEF AllOrAccountedFor
  <2>1. Shape(s) /\ Stage(s) /\ Back(s) /\ done[s] \in Nat
    BY DefinitionHasSteps DEF Inv, Shapes, SagaType
  <2>2. CASE state[s] = "COMPLETED"
    BY <2>1, <2>2 DEF Back
  <2>3. ASSUME state[s] # "COMPLETED", NEW i \in effect[s] \cap Compensable
        PROVE  i \in refused[s] \/ (i = step[s] /\ i = done[s] + 1)
    <3>1. i \in 1..done[s] \/ (i = step[s] /\ i = done[s] + 1)
      BY <2>1 DEF Shape
    <3>2. \/ state[s] = "FAILED" /\ undo[s] = 0
          \/ done[s] = 0
      BY <2>1, <2>3 DEF Stage
    <3>3. CASE i \in 1..done[s]
      BY <2>1, <3>2, <3>3 DEF Back, Undoing
    <3> QED
      BY <3>1, <3>3
  <2> QED
    BY <2>2, <2>3
<1> QED
  BY <1>1, SpecInv, PTL

\* The counters add up, and the ring buffer lists no saga twice or too early.
THEOREM StatsCorrect == Spec => []StatsAddUp
<1>1. Inv => StatsAddUp
  <2> SUFFICES ASSUME Inv PROVE StatsAddUp
    OBVIOUS
  <2>1. {s \in Active : pc[s] # "leaving"} = Undecided
    BY DEF Inv, SagaType, Awaits, Active, Undecided, InDoubt
  <2>2. \A k \in 1..Len(recent) : recent[k] \notin Active
    BY DEF Inv, Books, Buffered, Active
  <2>3. Len(recent) \in Nat /\ \A k \in 1..Len(recent) : recent[k] \in Sagas
    BY LenProperties, ElementOfSeq DEF Inv, BookType
  <2> DEFINE S == 1..Len(recent)
             T == {recent[k] : k \in S}
             f == [k \in S |-> recent[k]]
  <2>4. f \in Surjection(S, T) /\ f \in Injection(S, T)
    <3>1. \A k, l \in S : f[k] = f[l] => k = l
      BY DEF Inv, Books, Buffered
    <3>2. f \in [S -> T] /\ \A t \in T : \E k \in S : f[k] = t
      OBVIOUS
    <3> HIDE DEF S, T, f
    <3> QED
      BY <3>1, <3>2 DEF Surjection, Injection, IsInjective
  <2>5. IsFiniteSet(S) /\ Cardinality(S) = Len(recent)
    BY <2>3, FS_Interval
  <2> HIDE DEF S, T, f
  <2>6. Cardinality(T) = Len(recent)
    BY <2>4, <2>5, FS_Surjection
  <2> QED
    BY <2>1, <2>2, <2>6 DEF StatsAddUp, Inv, Books, Counted, S, T
<1> QED
  BY <1>1, SpecInv, PTL
=============================================================================
