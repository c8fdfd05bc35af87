-------------------------- MODULE SagaOrchestrator --------------------------
(***************************************************************************)
(* server/domain/saga-orchestrator.js: sagas of one definition run by the  *)
(* orchestrator, their step handlers and compensation handlers.            *)
(*                                                                         *)
(* JavaScript runs to an await, so an action is what happens between two   *)
(* of them: the loop passes through any steps without a handler up to the  *)
(* next handler call, and the catch and finally blocks of start() run one  *)
(* turn after the promise they wait for settles. A handler that lost the   *)
(* race against the timer goes on running and its effect may come late.    *)
(***************************************************************************)
EXTENDS Naturals, Sequences, FiniteSets

CONSTANTS
    Sagas,
    N,                  \* steps of the definition, numbered from 1
    Handled,            \* steps whose action has a registered handler
    Compensable,        \* steps whose compensation has a registered handler
    MaxCompleted        \* this.maxCompleted

ASSUME SagasFinite == IsFiniteSet(Sagas)
ASSUME DefinitionHasSteps ==
    N \in Nat \ {0} /\ Handled \subseteq 1..N /\ Compensable \subseteq 1..N
ASSUME MaxCompletedIsPositive == MaxCompleted \in Nat \ {0}

VARIABLES
    state,              \* state[s]: instance.state at an await
    step,               \* step[s]: instance.currentStep
    done,               \* done[s]: completedSteps is 1..done[s]
    pc,                 \* pc[s]: which await start(s) is at
    undo,               \* undo[s]: the step whose compensation is awaited, 0: none
    expired,            \* expired[s]: isTimedOut()
    running,            \* running[s]: steps whose handler has not settled
    effect,             \* effect[s]: steps whose effect stands
    refused,            \* refused[s]: steps whose compensation failed
    stats,              \* this.stats, without timedOut
    recent              \* this.completedSagas

instance == <<state, step, done, pc, undo>>
world == <<running, effect, refused>>
vars == <<instance, expired, world, stats, recent>>

States == {"CREATED", "STEP_PENDING", "STEP_COMPLETE", "COMPLETED", "COMPENSATING", "FAILED"}

TypeOK ==
    /\ state \in [Sagas -> States]
    /\ step \in [Sagas -> 0..N]
    /\ done \in [Sagas -> 0..N]
    /\ pc \in [Sagas -> {"none", "step", "thrown", "undo", "leaving", "archived",
                     "leaked"}]
    /\ undo \in [Sagas -> 0..N]
    /\ expired \in [Sagas -> BOOLEAN]
    /\ running \in [Sagas -> SUBSET (1..N)]
    /\ effect \in [Sagas -> SUBSET (1..N)]
    /\ refused \in [Sagas -> SUBSET (1..N)]
    /\ stats \in [{"started", "completed", "failed", "compensated"} -> Nat]
    /\ recent \in Seq(Sagas) /\ Len(recent) <= MaxCompleted

Init ==
    /\ state = [s \in Sagas |-> "CREATED"]
    /\ step = [s \in Sagas |-> 0] /\ done = [s \in Sagas |-> 0]
    /\ pc = [s \in Sagas |-> "none"]
    /\ undo = [s \in Sagas |-> 0]
    /\ expired = [s \in Sagas |-> FALSE]
    /\ running = [s \in Sagas |-> {}]
    /\ effect = [s \in Sagas |-> {}]
    /\ refused = [s \in Sagas |-> {}]
    /\ stats = [c \in {"started", "completed", "failed", "compensated"} |-> 0]
    /\ recent = <<>>

-----------------------------------------------------------------------------
\* The step the loop stops at after step i: the next with a handler, or the end.
NextCall(i) ==
    {j \in (i + 1)..(N + 1) : /\ j \in Handled \cup {N + 1}
                              /\ \A k \in (i + 1)..(j - 1) : k \notin Handled}

\* Mutant: completedIndices without .reverse(): the first step comes first.
NextUndoForward(i) ==
    {j \in 0..i : \/ j \in Compensable /\ \A k \in 1..(j - 1) : k \notin Compensable
                  \/ j = 0 /\ \A k \in 1..i : k \notin Compensable}

\* The step whose compensation is called next when those above i are through.
NextUndo(i) ==
    {j \in 0..i : /\ j \in Compensable \cup {0}
                  /\ \A k \in (j + 1)..i : k \notin Compensable}

\* The loop of _executeSteps from the end of step i to its next await. Out of
\* time, transition(TIMED_OUT) itself throws: STEP_COMPLETE does not allow it.
Proceed(s, i) ==
    IF i < N /\ expired[s]
    THEN /\ state' = [state EXCEPT ![s] = "STEP_COMPLETE"]
         /\ done' = [done EXCEPT ![s] = i]
         /\ step' = [step EXCEPT ![s] = i + 1]
         /\ pc' = [pc EXCEPT ![s] = "thrown"]
         /\ running' = [running EXCEPT ![s] = @ \ {i}]
         /\ UNCHANGED <<stats, recent>>
    ELSE \E j \in NextCall(i) :
         /\ done' = [done EXCEPT ![s] = j - 1]
         /\ running' = [running EXCEPT ![s] = (@ \ {i}) \cup ({j} \ {N + 1})]
         /\ IF j <= N
            THEN /\ state' = [state EXCEPT ![s] = "STEP_PENDING"]
                 /\ step' = [step EXCEPT ![s] = j]
                 /\ pc' = [pc EXCEPT ![s] = "step"]
                 /\ stats' = IF i = 0 THEN [stats EXCEPT !.started = @ + 1] ELSE stats
            ELSE /\ state' = [state EXCEPT ![s] = "COMPLETED"]
                 /\ step' = [step EXCEPT ![s] = N]
                 /\ pc' = [pc EXCEPT ![s] = "leaving"]
                 /\ stats' = [stats EXCEPT !.started = IF i = 0 THEN @ + 1 ELSE @,
                                           !.completed = @ + 1]
         /\ UNCHANGED recent

\* start(): no time passes before the first check.
Start(s) ==
    /\ pc[s] = "none"
    /\ Proceed(s, 0)
    /\ UNCHANGED <<undo, expired, effect, refused>>

\* Logging the trigger (JSON.stringify(triggerData).slice) throws before the try:
\* start() rejects, and the saga stays among the active ones for good.
StartThrows(s) ==
    /\ pc[s] = "none"
    /\ pc' = [pc EXCEPT ![s] = "leaked"]
    /\ stats' = [stats EXCEPT !.started = @ + 1]
    /\ UNCHANGED <<state, step, done, undo, expired, world, recent>>

\* A handler, awaited or not, does its work.
Apply(s, i) ==
    /\ i \in running[s]
    /\ effect' = [effect EXCEPT ![s] = @ \cup {i}]
    /\ UNCHANGED <<instance, expired, running, refused, stats, recent>>

\* The awaited handler wins the race with a result.
Resolve(s) ==
    /\ pc[s] = "step" /\ step[s] \in running[s] /\ step[s] \in effect[s]
    /\ Proceed(s, step[s])
    /\ UNCHANGED <<undo, expired, effect, refused>>

\* It resolves to undefined: the step is complete, but logging its result
\* (JSON.stringify(undefined).slice) throws inside the same try.
ResolveUndefined(s) ==
    /\ pc[s] = "step" /\ step[s] \in running[s] /\ step[s] \in effect[s]
    /\ state' = [state EXCEPT ![s] = "STEP_COMPLETE"]
    /\ done' = [done EXCEPT ![s] = step[s]]
    /\ pc' = [pc EXCEPT ![s] = "thrown"]
    /\ running' = [running EXCEPT ![s] = @ \ {step[s]}]
    /\ UNCHANGED <<step, undo, expired, effect, refused, stats, recent>>

\* The awaited handler rejects, before its effect or after it.
Reject(s) ==
    /\ pc[s] = "step" /\ step[s] \in running[s]
    /\ pc' = [pc EXCEPT ![s] = "thrown"]
    /\ running' = [running EXCEPT ![s] = @ \ {step[s]}]
    /\ UNCHANGED <<state, step, done, undo, expired, effect, refused, stats, recent>>

Expire(s) ==
    /\ pc[s] = "step" /\ ~ expired[s]
    /\ expired' = [expired EXCEPT ![s] = TRUE]
    /\ UNCHANGED <<instance, world, stats, recent>>

\* Mutant: the timer is started but not raced.
StepTimeoutUnraced(s) == pc[s] = "step" /\ expired[s] /\ UNCHANGED vars

\* The timer of Promise.race fires; the handler is not told.
StepTimeout(s) ==
    /\ pc[s] = "step" /\ expired[s]
    /\ pc' = [pc EXCEPT ![s] = "thrown"]
    /\ UNCHANGED <<state, step, done, undo, expired, world, stats, recent>>

\* A handler nobody waits for any more settles.
LateSettle(s, i) ==
    /\ i \in running[s] /\ ~ (pc[s] = "step" /\ step[s] = i)
    /\ running' = [running EXCEPT ![s] = @ \ {i}]
    /\ UNCHANGED <<instance, expired, effect, refused, stats, recent>>

-----------------------------------------------------------------------------
\* _archiveSaga: the ring buffer drops its oldest entry.
Archived(s) ==
    LET log == Append(recent, s)
    IN  recent' = IF Len(log) > MaxCompleted THEN Tail(log) ELSE log

\* The compensation loop from below step i to its next await or its end.
Unwind(s, i) ==
    \E j \in NextUndo(i) :
        /\ undo' = [undo EXCEPT ![s] = j]
        /\ IF j # 0
           THEN /\ state' = [state EXCEPT ![s] = "COMPENSATING"]
                /\ pc' = [pc EXCEPT ![s] = "undo"]
                /\ UNCHANGED stats
           ELSE /\ state' = [state EXCEPT ![s] = "FAILED"]
                /\ pc' = [pc EXCEPT ![s] = "leaving"]
                /\ stats' = [stats EXCEPT !.compensated = @ + 1, !.failed = @ + 1]
        /\ UNCHANGED <<step, done>>

\* Mutant: compensation starts below the last completed step.
CompensateShort(s) ==
    /\ pc[s] = "thrown" /\ done[s] > 0
    /\ Unwind(s, done[s] - 1)
    /\ UNCHANGED <<expired, world, recent>>

\* The catch block of start() with a completed step: _compensate.
Compensate(s) ==
    /\ pc[s] = "thrown" /\ done[s] > 0
    /\ Unwind(s, done[s])
    /\ UNCHANGED <<expired, world, recent>>

\* Mutant: stats.failed is counted only if the transition succeeds.
GiveUpUncounted(s) ==
    /\ pc[s] = "thrown" /\ done[s] = 0
    /\ pc' = [pc EXCEPT ![s] = "archived"]
    /\ Archived(s)
    /\ UNCHANGED <<state, step, done, undo, expired, world, stats>>

\* The catch block with no completed step: FAILED is not a successor of
\* STEP_PENDING, so transition(FAILED) throws, is swallowed, and the saga is
\* archived in the state it was in.
GiveUp(s) ==
    /\ pc[s] = "thrown" /\ done[s] = 0
    /\ pc' = [pc EXCEPT ![s] = "archived"]
    /\ stats' = [stats EXCEPT !.failed = @ + 1]
    /\ Archived(s)
    /\ UNCHANGED <<state, step, done, undo, expired, world>>

\* The awaited compensation handler undoes the step's effect, or fails.
CompensationSettles(s) ==
    /\ pc[s] = "undo"
    /\ \/ /\ effect' = [effect EXCEPT ![s] = @ \ {undo[s]}]
          /\ UNCHANGED refused
       \/ /\ refused' = [refused EXCEPT ![s] = @ \cup {undo[s]}]
          /\ UNCHANGED effect
    /\ Unwind(s, undo[s] - 1)
    /\ UNCHANGED <<expired, running, recent>>

\* The finally block of start().
Leave(s) ==
    /\ pc[s] = "leaving"
    /\ pc' = [pc EXCEPT ![s] = "archived"]
    /\ Archived(s)
    /\ UNCHANGED <<state, step, done, undo, expired, world, stats>>

Orchestrator(s) ==
    \/ Start(s) \/ StartThrows(s) \/ Resolve(s) \/ ResolveUndefined(s) \/ Reject(s)
    \/ Expire(s) \/ StepTimeout(s)
    \/ Compensate(s) \/ GiveUp(s) \/ CompensationSettles(s) \/ Leave(s)

Handler(s) == \E i \in 1..N : Apply(s, i) \/ LateSettle(s, i)

Next == \E s \in Sagas : Orchestrator(s) \/ Handler(s)

\* Time passes, timers fire and settled promises are resumed. No handler, of a
\* step or of a compensation, is ever obliged to settle.
Fairness ==
    \A s \in Sagas :
        /\ WF_vars(Expire(s)) /\ WF_vars(StepTimeout(s))
        /\ WF_vars(Compensate(s)) /\ WF_vars(GiveUp(s)) /\ WF_vars(Leave(s))

Spec == Init /\ [][Next]_vars /\ Fairness

-----------------------------------------------------------------------------
Active == {s \in Sagas : pc[s] \notin {"none", "archived"}}
Undoing(s) == state[s] \in {"COMPENSATING", "FAILED"}

\* "Run compensation in reverse order": at every await of the compensation, a
\* step's effect is gone only if the effects of the later completed steps that
\* can be compensated are gone too or refused to go.
UndoneInReverse ==
    \A s \in Sagas : Undoing(s) =>
        \A i, j \in Compensable \cap Handled \cap 1..done[s] :
            i < j /\ i \notin effect[s] => j \notin effect[s] \/ j \in refused[s]

\* What a saga leaves behind. A COMPLETED one has the effect of every step that
\* has a handler. Any other leaves only effects that have no compensation,
\* whose compensation failed, or of the one step in flight when it failed: that
\* step is not compensated, and its handler may still be at work.
AllOrAccountedFor ==
    \A s \in Sagas : pc[s] \in {"leaving", "archived"} =>
        IF state[s] = "COMPLETED" THEN Handled \subseteq effect[s]
        ELSE \A i \in effect[s] \cap Compensable :
                 i \in refused[s] \/ (i = step[s] /\ i = done[s] + 1)

\* Counted when decided, once: every saga started is completed, failed or
\* undecided, and the archive holds only sagas that are no longer active.
StatsAddUp ==
    /\ stats.started = stats.completed + stats.failed
                     + Cardinality({s \in Active : pc[s] # "leaving"})
    /\ stats.compensated <= stats.failed
    /\ \A k \in 1..Len(recent) : recent[k] \notin Active
    /\ Cardinality({recent[k] : k \in 1..Len(recent)}) = Len(recent)

\* No handler can hold a saga in its steps: it ends, or reaches compensation,
\* by the timers alone. (A compensation handler has no timer and can.)
StepsEnd == \A s \in Sagas : pc[s] = "step" ~> pc[s] \in {"undo", "archived"}
=============================================================================
