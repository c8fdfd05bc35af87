--------------------------- MODULE CircuitBreaker ---------------------------
(***************************************************************************)
(* server/middleware/circuit-breaker.js: one breaker and the concurrent    *)
(* exec() calls that go through it.                                        *)
(*                                                                         *)
(* exec() runs to its await in one step and resumes when the promise of    *)
(* _withTimeout settles; in between other calls start and settle, so a     *)
(* call may settle in another state than the one it was started in. Time   *)
(* is kept as ages (how long ago a timestamp was taken), which stop at the *)
(* largest value any comparison tells apart.                               *)
(*                                                                         *)
(* A call turned away to its fallback changes only _stats, which is not    *)
(* modelled: it is a stuttering step and has no action.                    *)
(***************************************************************************)
EXTENDS Naturals, Sequences, FiniteSets

CONSTANTS
    Calls,              \* exec() calls that can be in flight together; a slot is reused
    FailureThreshold,
    SuccessThreshold,
    HalfOpenMax,        \* halfOpenMaxConcurrent
    OpenDuration,       \* openDurationMs, in ticks
    MonitorWindow,      \* monitorWindowMs, in ticks
    Timeout             \* timeoutMs, in ticks

ASSUME CallsFinite == IsFiniteSet(Calls)
ASSUME TunablesArePositive ==
    /\ FailureThreshold \in Nat \ {0}
    /\ SuccessThreshold \in Nat \ {0}
    /\ HalfOpenMax \in Nat \ {0}
    /\ OpenDuration \in Nat \ {0}
    /\ MonitorWindow \in Nat \ {0}
    /\ Timeout \in Nat \ {0}

VARIABLES
    state,              \* this.state
    failures,           \* this._failures, as ages, oldest first
    halfOpenOk,         \* this._halfOpenOk
    halfOpenActive,     \* this._halfOpenActive
    openAge,            \* Date.now() - this._openSince
    kind,               \* kind[c]: "probe" of the present HALF_OPEN period, "normal" or "idle"
    age,                \* age[c]: time since the call was started
    strays              \* history: in this HALF_OPEN period, successes of calls not its probes

counters == <<halfOpenOk, halfOpenActive>>
breaker == <<state, failures, counters, openAge>>
vars == <<breaker, kind, age, strays>>

InFlight == {c \in Calls : kind[c] # "idle"}
Probes == {c \in Calls : kind[c] = "probe"}

TypeOK ==
    /\ state \in {"CLOSED", "OPEN", "HALF_OPEN"}
    /\ failures \in Seq(0..MonitorWindow)
    /\ halfOpenOk \in Nat /\ halfOpenActive \in Nat
    /\ openAge \in 0..OpenDuration
    /\ kind \in [Calls -> {"idle", "normal", "probe"}]
    /\ age \in [Calls -> 0..Timeout]
    /\ strays \in Nat

Init ==
    /\ state = "CLOSED"
    /\ failures = <<>>
    /\ halfOpenOk = 0 /\ halfOpenActive = 0
    /\ openAge = 0
    /\ kind = [c \in Calls |-> "idle"]
    /\ age = [c \in Calls |-> 0]
    /\ strays = 0

-----------------------------------------------------------------------------
\* Timestamps are pushed in order, so the ones the filter drops are a prefix.
Prune(ages) ==
    LET old == {i \in 1..Len(ages) : ages[i] >= MonitorWindow}
    IN  SubSeq(ages, Cardinality(old) + 1, Len(ages))

ResetCounters == halfOpenOk' = 0 /\ halfOpenActive' = 0

\* Mutant: without the early return a late failure restarts the OPEN period.
TripAgain == state' = "OPEN" /\ openAge' = 0 /\ ResetCounters

Trip ==
    IF state = "OPEN" THEN UNCHANGED <<state, openAge, counters>>
    ELSE state' = "OPEN" /\ openAge' = 0 /\ ResetCounters

Close == state' = "CLOSED" /\ failures' = <<>> /\ ResetCounters /\ openAge' = 0

ReleaseProbe == IF halfOpenActive = 0 THEN 0 ELSE halfOpenActive - 1

\* Mutant: a success does not give the probe slot back.
OnSuccessKeepingSlot ==
    IF state = "HALF_OPEN"
    THEN IF halfOpenOk + 1 >= SuccessThreshold THEN Close
         ELSE /\ halfOpenOk' = halfOpenOk + 1
              /\ failures' = Prune(failures)
              /\ UNCHANGED <<state, halfOpenActive, openAge>>
    ELSE failures' = Prune(failures) /\ UNCHANGED <<state, counters, openAge>>

OnSuccess ==
    IF state = "HALF_OPEN"
    THEN IF halfOpenOk + 1 >= SuccessThreshold THEN Close
         ELSE /\ halfOpenOk' = halfOpenOk + 1
              /\ halfOpenActive' = ReleaseProbe
              /\ failures' = Prune(failures)
              /\ UNCHANGED <<state, openAge>>
    ELSE failures' = Prune(failures) /\ UNCHANGED <<state, counters, openAge>>

\* Mutant: > for >=.
OnFailureOffByOne ==
    IF state = "HALF_OPEN" THEN Trip /\ UNCHANGED failures
    ELSE /\ failures' = Prune(Append(failures, 0))
         /\ IF Len(failures') > FailureThreshold THEN Trip
            ELSE UNCHANGED <<state, openAge, counters>>

OnFailure ==
    IF state = "HALF_OPEN" THEN Trip /\ UNCHANGED failures
    ELSE /\ failures' = Prune(Append(failures, 0))
         /\ IF Len(failures') >= FailureThreshold THEN Trip
            ELSE UNCHANGED <<state, openAge, counters>>

-----------------------------------------------------------------------------
Begin(c, k) ==
    /\ kind[c] = "idle"
    /\ kind' = [kind EXCEPT ![c] = k]
    /\ age' = [age EXCEPT ![c] = 0]

ExecClosed(c) ==
    /\ state = "CLOSED"
    /\ Begin(c, "normal")
    /\ UNCHANGED <<breaker, strays>>

\* Mutant: _shouldProbe does not look at the clock.
MayProbeAtOnce == state = "OPEN" \/ (state = "HALF_OPEN" /\ halfOpenActive < HalfOpenMax)

MayProbe ==
    \/ state = "OPEN" /\ openAge >= OpenDuration
    \/ state = "HALF_OPEN" /\ halfOpenActive < HalfOpenMax

Probe(c) ==
    /\ MayProbe
    /\ Begin(c, "probe")
    /\ state' = "HALF_OPEN"
    /\ halfOpenActive' = halfOpenActive + 1
    /\ UNCHANGED <<failures, halfOpenOk, openAge, strays>>

\* A call that outlives its HALF_OPEN period is no probe of the next one.
Settle(c) ==
    /\ kind[c] # "idle"
    /\ kind' = [d \in Calls |->
                  IF d = c THEN "idle"
                  ELSE IF kind[d] = "probe" /\ state' # "HALF_OPEN" THEN "normal"
                  ELSE kind[d]]
    /\ age' = [age EXCEPT ![c] = 0]

\* A success gives back a slot whether or not its call had taken one.
Succeed(c) ==
    /\ OnSuccess
    /\ Settle(c)
    /\ strays' = IF state' # "HALF_OPEN" THEN 0
                 ELSE IF c \in Probes THEN strays ELSE strays + 1

Lose(c) == OnFailure /\ Settle(c) /\ strays' = 0

\* fn() rejects.
Fail(c) == Lose(c)

\* The timer of _withTimeout fires first; what fn() does later is ignored.
TimeOut(c) == age[c] = Timeout /\ Lose(c)

Older(n, bound) == IF n < bound THEN n + 1 ELSE n

\* Timers fire when they are due: time does not pass a call's deadline.
Tick ==
    /\ \A c \in InFlight : age[c] < Timeout
    /\ age' = [c \in Calls |-> IF c \in InFlight THEN age[c] + 1 ELSE 0]
    /\ failures' = [i \in 1..Len(failures) |-> Older(failures[i], MonitorWindow)]
    /\ openAge' = IF state = "CLOSED" THEN 0 ELSE Older(openAge, OpenDuration)
    /\ UNCHANGED <<state, counters, kind, strays>>

Next ==
    \/ \E c \in Calls : ExecClosed(c) \/ Probe(c) \/ Succeed(c) \/ Fail(c) \/ TimeOut(c)
    \/ Tick

\* Time passes and a due timer is served; nothing forces callers or fn().
Fairness == WF_vars(Tick) /\ \A c \in Calls : WF_vars(TimeOut(c))

Spec == Init /\ [][Next]_vars /\ Fairness

-----------------------------------------------------------------------------
\* The slots counted as taken are held by probes still in flight: none is
\* leaked, by a trip or a close with probes in flight or by a call that
\* settles in another state than the one it began in.
SlotsAreHeld ==
    /\ halfOpenActive <= Cardinality(Probes)
    /\ state # "HALF_OPEN" => halfOpenActive = 0 /\ halfOpenOk = 0

\* A CLOSED breaker has seen fewer than failureThreshold failures in the window,
\* and a HALF_OPEN one has not yet earned its close.
ThresholdsDecide ==
    /\ state = "CLOSED" => Len(failures) < FailureThreshold
    /\ halfOpenOk < SuccessThreshold

\* What becomes of "halfOpenMaxConcurrent - Max concurrent requests in
\* HALF_OPEN" when a call made before the trip is still in flight, as it can be
\* with timeoutMs = openDurationMs (both 30000 by default): every call in flight
\* that is no probe of this very period is as old as the whole OPEN period, and
\* the probes exceed the maximum by at most the successes of such calls, each of
\* which gives back a slot it never took.
ProbesAreLimited ==
    state = "HALF_OPEN" =>
        /\ \A c \in InFlight \ Probes : age[c] >= OpenDuration
        /\ Cardinality(Probes) <= HalfOpenMax + strays

\* OPEN is left only by a probe after the whole open duration, and a failure
\* that arrives meanwhile neither shortens nor restarts it.
OpenPeriodIsKept ==
    [][state = "OPEN" => \/ state' = "OPEN" /\ openAge' >= openAge
                         \/ state' = "HALF_OPEN" /\ openAge = OpenDuration]_vars

\* HALF_OPEN with every slot taken does not last: the probes' own timers free a
\* slot or end the period, whatever the service does. (A breaker stuck there
\* would send every call to the fallback for ever.)
HalfOpenIsNotStuck ==
    (state = "HALF_OPEN" /\ halfOpenActive >= HalfOpenMax)
        ~> (state # "HALF_OPEN" \/ halfOpenActive < HalfOpenMax)
=============================================================================
