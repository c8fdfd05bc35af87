------------------------ MODULE CircuitBreakerProofs ------------------------
(***************************************************************************)
(* The breaker's invariants for every number of calls and every value of   *)
(* the tunables. TypeCorrect comes first; SlotsAreHeld and                 *)
(* ProbesAreLimited count probes with the library's facts about finite     *)
(* sets, the latter from the invariant Aging: no call in flight is younger *)
(* than the OPEN period, and probes exceed taken slots by the strays.      *)
(***************************************************************************)
EXTENDS CircuitBreaker, FiniteSetTheorems, SequenceTheorems, TLAPS

\* Every step is one of five kinds.
LEMMA StepKinds ==
    ASSUME [Next]_vars
    PROVE  \/ \E c \in Calls : ExecClosed(c)
           \/ \E c \in Calls : Probe(c)
           \/ \E c \in Calls : Succeed(c)
           \/ \E c \in Calls : Lose(c)
           \/ Tick
           \/ UNCHANGED vars
  BY DEF Next, Fail, TimeOut

\* Pruning keeps a sequence of ages and never lengthens it.
LEMMA PruneShortens ==
    ASSUME NEW ages \in Seq(0..MonitorWindow)
    PROVE  Prune(ages) \in Seq(0..MonitorWindow) /\ Len(Prune(ages)) <= Len(ages)
<1>1. Len(ages) \in Nat /\ \A i \in 1..Len(ages) : ages[i] \in 0..MonitorWindow
  BY LenProperties, ElementOfSeq
<1>2. IsFiniteSet(1..Len(ages)) /\ Cardinality(1..Len(ages)) = Len(ages)
  <2>1. 1 \in Int /\ Len(ages) \in Int
    BY <1>1
  <2>2. /\ IsFiniteSet(1..Len(ages))
        /\ Cardinality(1..Len(ages)) = IF 1 > Len(ages) THEN 0 ELSE Len(ages) - 1 + 1
    BY <2>1, FS_Interval
  <2> QED BY <1>1, <2>2
<1> DEFINE old == {i \in 1..Len(ages) : ages[i] >= MonitorWindow}
<1>3. IsFiniteSet(old) /\ Cardinality(old) <= Len(ages)
  <2>1. old \in SUBSET (1..Len(ages))
    OBVIOUS
  <2> QED BY <1>2, <2>1, FS_Subset
<1>4. Cardinality(old) \in Nat
  BY <1>3, FS_CardinalityType
<1> DEFINE k == Cardinality(old)
<1> HIDE DEF old
<1>5. Prune(ages) = SubSeq(ages, k + 1, Len(ages))
  BY DEF Prune, old
<1> HIDE DEF k
<1>6. k \in Nat /\ k <= Len(ages)
  BY <1>3, <1>4 DEF k
<1>7. \A i \in (k + 1)..Len(ages) : ages[i] \in 0..MonitorWindow
  BY <1>1, <1>6
<1>8. k + 1 \in Int /\ Len(ages) \in Int
  BY <1>1, <1>6
<1>9. /\ SubSeq(ages, k + 1, Len(ages)) \in Seq(0..MonitorWindow)
      /\ Len(SubSeq(ages, k + 1, Len(ages))) =
             IF k + 1 <= Len(ages) THEN Len(ages) - (k + 1) + 1 ELSE 0
  BY <1>7, <1>8, SubSeqProperties
<1> QED BY <1>1, <1>5, <1>6, <1>9

-----------------------------------------------------------------------------
LEMMA InitType == Init => TypeOK
  BY TunablesArePositive DEF Init, TypeOK

LEMMA StepType == TypeOK /\ [Next]_vars => TypeOK'
<1> SUFFICES ASSUME TypeOK, [Next]_vars PROVE TypeOK'
  OBVIOUS
<1> USE TunablesArePositive DEF TypeOK, Begin, Settle, breaker, counters
<1>1. ASSUME NEW c \in Calls, ExecClosed(c) PROVE TypeOK'
  BY <1>1 DEF ExecClosed
<1>2. ASSUME NEW c \in Calls, Probe(c) PROVE TypeOK'
  BY <1>2 DEF Probe
<1>3. ASSUME NEW c \in Calls, Succeed(c) PROVE TypeOK'
  <2>0. strays' \in Nat
    BY <1>3 DEF Succeed
  <2>1. Prune(failures) \in Seq(0..MonitorWindow)
    BY PruneShortens
  <2>2. ReleaseProbe \in Nat
    BY DEF ReleaseProbe
  <2>3. /\ kind' \in [Calls -> {"idle", "normal", "probe"}]
        /\ age' \in [Calls -> 0..Timeout]
    BY <1>3 DEF Succeed
  <2>4. /\ state' \in {"CLOSED", "OPEN", "HALF_OPEN"}
        /\ failures' \in Seq(0..MonitorWindow)
        /\ halfOpenOk' \in Nat /\ halfOpenActive' \in Nat
        /\ openAge' \in 0..OpenDuration
    <3>1. OnSuccess
      BY <1>3 DEF Succeed
    <3>2. <<>> \in Seq(0..MonitorWindow)
      OBVIOUS
    <3> HIDE DEF Begin, Settle
    <3>3. CASE state = "HALF_OPEN" /\ halfOpenOk + 1 >= SuccessThreshold
      BY <3>1, <3>2, <3>3 DEF OnSuccess, Close, ResetCounters
    <3>4. CASE state = "HALF_OPEN" /\ ~ (halfOpenOk + 1 >= SuccessThreshold)
      BY <2>1, <2>2, <3>1, <3>4 DEF OnSuccess
    <3>5. CASE state # "HALF_OPEN"
      BY <2>1, <3>1, <3>5 DEF OnSuccess
    <3> QED BY <3>3, <3>4, <3>5
  <2> QED BY <2>0, <2>3, <2>4
<1>4. ASSUME NEW c \in Calls, Lose(c) PROVE TypeOK'
  <2>1. Append(failures, 0) \in Seq(0..MonitorWindow)
    OBVIOUS
  <2>2. Prune(Append(failures, 0)) \in Seq(0..MonitorWindow)
    BY <2>1, PruneShortens
  <2> QED BY <1>4, <2>2 DEF Lose, OnFailure, Trip, ResetCounters
<1>5. ASSUME Tick PROVE TypeOK'
  <2>1. failures' \in Seq(0..MonitorWindow)
    <3>1. /\ failures' = [i \in 1..Len(failures) |-> Older(failures[i], MonitorWindow)]
          /\ Len(failures) \in Nat
      BY <1>5 DEF Tick
    <3>2. \A i \in 1..Len(failures) : Older(failures[i], MonitorWindow) \in 0..MonitorWindow
      BY DEF Older
    <3> QED BY <3>1, <3>2
  <2>2. age' \in [Calls -> 0..Timeout]
    BY <1>5 DEF Tick, InFlight
  <2> QED BY <1>5, <2>1, <2>2 DEF Tick, Older
<1>6. CASE UNCHANGED vars
  BY <1>6 DEF vars
<1> QED BY <1>1, <1>2, <1>3, <1>4, <1>5, <1>6, StepKinds

\* Every variable keeps its type.
THEOREM TypeCorrect == Spec => []TypeOK
  BY InitType, StepType, PTL DEF Spec

-----------------------------------------------------------------------------
\* The probes are finitely many, and one begins or settles at a time.
LEMMA ProbesFinite == IsFiniteSet(Probes) /\ Cardinality(Probes) \in Nat
<1>1. Probes \subseteq Calls
  BY DEF Probes
<1> QED BY <1>1, CallsFinite, FS_Subset, FS_CardinalityType

LEMMA ProbeBegins ==
    ASSUME TypeOK, NEW c \in Calls, Begin(c, "probe")
    PROVE  Probes' = Probes \cup {c} /\ Cardinality(Probes') = Cardinality(Probes) + 1
<1>1. Probes' = Probes \cup {c} /\ c \notin Probes
  BY DEF TypeOK, Begin, Probes
<1> QED BY <1>1, ProbesFinite, FS_AddElement

\* A settling call leaves the probes of a HALF_OPEN period to the others; when
\* the period ends there are none.
LEMMA CallSettles ==
    ASSUME TypeOK, NEW c \in Calls, Settle(c)
    PROVE  /\ Probes' = IF state' = "HALF_OPEN" THEN Probes \ {c} ELSE {}
           /\ Cardinality(Probes') =
                  IF state' # "HALF_OPEN" THEN 0
                  ELSE IF c \in Probes THEN Cardinality(Probes) - 1
                  ELSE Cardinality(Probes)
           /\ InFlight' = InFlight \ {c}
<1>1. Probes' = IF state' = "HALF_OPEN" THEN Probes \ {c} ELSE {}
  BY DEF TypeOK, Settle, Probes
<1>2. InFlight' = InFlight \ {c}
  BY DEF TypeOK, Settle, InFlight
<1>3. c \in Probes => Cardinality(Probes \ {c}) = Cardinality(Probes) - 1
  BY ProbesFinite, FS_RemoveElement
<1>4. c \notin Probes => Probes \ {c} = Probes
  OBVIOUS
<1>5. Cardinality({}) = 0
  BY FS_EmptySet
<1> QED BY <1>1, <1>2, <1>3, <1>4, <1>5

LEMMA StepSlots == TypeOK /\ SlotsAreHeld /\ [Next]_vars => SlotsAreHeld'
<1> SUFFICES ASSUME TypeOK, SlotsAreHeld, [Next]_vars PROVE SlotsAreHeld'
  OBVIOUS
<1>a. Cardinality(Probes) \in Nat
  BY ProbesFinite
<1>b. halfOpenActive \in Nat /\ halfOpenOk \in Nat
  BY DEF TypeOK
<1>1. ASSUME NEW c \in Calls, ExecClosed(c) PROVE SlotsAreHeld'
  <2>1. Probes' = Probes
    BY <1>1 DEF TypeOK, ExecClosed, Begin, Probes
  <2> QED BY <1>1, <2>1 DEF SlotsAreHeld, ExecClosed, breaker, counters
<1>2. ASSUME NEW c \in Calls, Probe(c) PROVE SlotsAreHeld'
  <2>1. Cardinality(Probes') = Cardinality(Probes) + 1
    BY <1>2, ProbeBegins DEF Probe
  <2> QED BY <1>2, <1>a, <1>b, <2>1 DEF SlotsAreHeld, Probe
<1>3. ASSUME NEW c \in Calls, Succeed(c) PROVE SlotsAreHeld'
  <2>1. Cardinality(Probes') = IF state' # "HALF_OPEN" THEN 0
                               ELSE IF c \in Probes THEN Cardinality(Probes) - 1
                               ELSE Cardinality(Probes)
    BY <1>3, CallSettles DEF Succeed
  <2>2. c \in Probes => Cardinality(Probes) > 0
    BY <1>a, ProbesFinite, FS_EmptySet
  <2> QED BY <1>3, <1>a, <1>b, <2>1, <2>2
          DEF SlotsAreHeld, Succeed, OnSuccess, Close, ResetCounters, ReleaseProbe, counters
<1>4. ASSUME NEW c \in Calls, Lose(c) PROVE SlotsAreHeld'
  <2>1. Cardinality(Probes') = IF state' # "HALF_OPEN" THEN 0
                               ELSE IF c \in Probes THEN Cardinality(Probes) - 1
                               ELSE Cardinality(Probes)
    BY <1>4, CallSettles DEF Lose
  <2> QED BY <1>4, <1>a, <1>b, <2>1
          DEF SlotsAreHeld, TypeOK, Lose, OnFailure, Trip, ResetCounters, counters
<1>5. ASSUME Tick PROVE SlotsAreHeld'
  BY <1>5 DEF SlotsAreHeld, Tick, Probes, counters
<1>6. CASE UNCHANGED vars
  BY <1>6 DEF SlotsAreHeld, vars, breaker, counters, Probes
<1> QED BY <1>1, <1>2, <1>3, <1>4, <1>5, <1>6, StepKinds

\* No slot is counted that no probe in flight holds, and none is counted
\* outside HALF_OPEN.
THEOREM SlotsAreHeldAlways == Spec => []SlotsAreHeld
<1>1. Init => SlotsAreHeld
  <2>1. Init => Probes = {}
    BY DEF Init, Probes
  <2> QED BY <2>1, FS_EmptySet DEF Init, SlotsAreHeld
<1> QED BY <1>1, StepSlots, TypeCorrect, PTL DEF Spec

-----------------------------------------------------------------------------
LEMMA StepThresholds ==
    TypeOK /\ SlotsAreHeld /\ ThresholdsDecide /\ [Next]_vars => ThresholdsDecide'
<1> SUFFICES ASSUME TypeOK, SlotsAreHeld, ThresholdsDecide, [Next]_vars
             PROVE  ThresholdsDecide'
  OBVIOUS
<1> USE TunablesArePositive DEF ThresholdsDecide
<1>b. halfOpenOk \in Nat /\ failures \in Seq(0..MonitorWindow) /\ Len(failures) \in Nat
  BY DEF TypeOK
<1>1. ASSUME NEW c \in Calls, ExecClosed(c) PROVE ThresholdsDecide'
  BY <1>1 DEF ExecClosed, breaker, counters
<1>2. ASSUME NEW c \in Calls, Probe(c) PROVE ThresholdsDecide'
  BY <1>2 DEF Probe
<1>3. ASSUME NEW c \in Calls, Succeed(c) PROVE ThresholdsDecide'
  <2>1. Len(Prune(failures)) <= Len(failures) /\ Len(Prune(failures)) \in Nat
    BY <1>b, PruneShortens
  <2> QED BY <1>3, <1>b, <2>1 DEF Succeed, OnSuccess, Close, ResetCounters, counters
<1>4. ASSUME NEW c \in Calls, Lose(c) PROVE ThresholdsDecide'
  <2>1. Append(failures, 0) \in Seq(0..MonitorWindow)
    BY <1>b, TunablesArePositive
  <2>2. Len(Prune(Append(failures, 0))) \in Nat
    BY <2>1, PruneShortens
  <2> QED BY <1>4, <1>b, <2>2 DEF TypeOK, Lose, OnFailure, Trip, ResetCounters, counters
<1>5. ASSUME Tick PROVE ThresholdsDecide'
  <2>1. Len(failures') = Len(failures)
    BY <1>5, <1>b DEF Tick
  <2> QED BY <1>5, <2>1 DEF Tick, counters
<1>6. CASE UNCHANGED vars
  BY <1>6 DEF vars, breaker, counters
<1> QED BY <1>1, <1>2, <1>3, <1>4, <1>5, <1>6, StepKinds

\* A CLOSED breaker is below its failure threshold whatever calls settled in
\* whatever state, and HALF_OPEN closes as soon as it has earned it.
THEOREM ThresholdsDecideAlways == Spec => []ThresholdsDecide
<1>1. Init => ThresholdsDecide
  BY TunablesArePositive DEF Init, ThresholdsDecide
<1> QED BY <1>1, StepThresholds, TypeCorrect, SlotsAreHeldAlways, PTL DEF Spec

-----------------------------------------------------------------------------
\* Why probes are limited: no call in flight is younger than the OPEN period,
\* so what is in flight when the first probe begins is as old as that period;
\* and in HALF_OPEN each probe holds a slot unless a stray gave it back.
Aging ==
    /\ state = "OPEN" => \A c \in InFlight : age[c] >= openAge
    /\ state # "HALF_OPEN" => Probes = {} /\ strays = 0
    /\ state = "HALF_OPEN" => /\ \A c \in InFlight \ Probes : age[c] >= OpenDuration
                              /\ Cardinality(Probes) <= halfOpenActive + strays
                              /\ halfOpenActive <= HalfOpenMax

LEMMA StepAging == TypeOK /\ SlotsAreHeld /\ Aging /\ [Next]_vars => Aging'
<1> SUFFICES ASSUME TypeOK, SlotsAreHeld, Aging, [Next]_vars PROVE Aging'
  OBVIOUS
<1> USE TunablesArePositive
<1>a. Cardinality(Probes) \in Nat /\ halfOpenActive \in Nat /\ strays \in Nat
  BY ProbesFinite DEF TypeOK
<1>b. /\ openAge \in 0..OpenDuration
      /\ \A d \in Calls : age[d] \in Nat
  BY DEF TypeOK
<1>1. ASSUME NEW c \in Calls, ExecClosed(c) PROVE Aging'
  <2>1. Probes' = Probes
    BY <1>1 DEF TypeOK, ExecClosed, Begin, Probes
  <2> QED BY <1>1, <2>1 DEF Aging, ExecClosed, breaker, counters
<1>2. ASSUME NEW c \in Calls, Probe(c) PROVE Aging'
  <2>1. Cardinality(Probes') = Cardinality(Probes) + 1 /\ Probes' = Probes \cup {c}
    BY <1>2, ProbeBegins DEF Probe
  <2>2. InFlight' \ Probes' = InFlight \ Probes'
    BY <1>2 DEF TypeOK, Probe, Begin, InFlight, Probes
  <2>3. \A d \in InFlight \ Probes' : d \in InFlight \ Probes /\ age'[d] = age[d]
    BY <1>2, <2>1 DEF TypeOK, Probe, Begin, InFlight
  <2>4. \A d \in InFlight \ Probes : age[d] >= OpenDuration
    <3>1. CASE state = "OPEN"
      <4>1. openAge >= OpenDuration
        BY <1>2, <3>1 DEF Probe, MayProbe
      <4>2. \A d \in InFlight : d \in Calls
        BY DEF InFlight
      <4> QED BY <1>b, <3>1, <4>1, <4>2 DEF Aging
    <3>2. CASE state = "HALF_OPEN"
      BY <3>2 DEF Aging
    <3> QED BY <1>2, <3>1, <3>2 DEF Probe, MayProbe
  <2>5. /\ Cardinality(Probes) <= halfOpenActive + strays
        /\ halfOpenActive + 1 <= HalfOpenMax
    <3>1. CASE state = "OPEN"
      <4>1. Cardinality(Probes) = 0 /\ strays = 0 /\ halfOpenActive = 0
        BY <3>1, FS_EmptySet DEF Aging, SlotsAreHeld
      <4> QED BY <4>1
    <3>2. CASE state = "HALF_OPEN"
      BY <1>2, <1>a, <3>2 DEF Aging, Probe, MayProbe
    <3> QED BY <1>2, <3>1, <3>2 DEF Probe, MayProbe
  <2>6. /\ state' = "HALF_OPEN" /\ strays' = strays
        /\ halfOpenActive' = halfOpenActive + 1
    BY <1>2 DEF Probe
  <2> QED BY <1>a, <2>1, <2>2, <2>3, <2>4, <2>5, <2>6 DEF Aging
<1>3. ASSUME NEW c \in Calls, Succeed(c) PROVE Aging'
  <2>1. /\ Probes' = IF state' = "HALF_OPEN" THEN Probes \ {c} ELSE {}
        /\ Cardinality(Probes') =
               IF state' # "HALF_OPEN" THEN 0
               ELSE IF c \in Probes THEN Cardinality(Probes) - 1
               ELSE Cardinality(Probes)
        /\ InFlight' = InFlight \ {c}
    BY <1>3, CallSettles DEF Succeed
  <2>2. \A d \in InFlight' : age'[d] = age[d]
    BY <1>3, <2>1 DEF TypeOK, Succeed, Settle, InFlight
  <2>3. CASE state' = "HALF_OPEN"
    <3>1. state = "HALF_OPEN"
      BY <1>3, <2>3 DEF Succeed, OnSuccess
    <3>2. halfOpenActive' = ReleaseProbe /\ strays' = IF c \in Probes THEN strays ELSE strays + 1
      BY <1>3, <2>3, <3>1 DEF Succeed, OnSuccess, Close
    <3>3. Cardinality(Probes') <= halfOpenActive' + strays' /\ halfOpenActive' <= HalfOpenMax
      BY <1>a, <2>1, <2>3, <3>1, <3>2 DEF Aging, ReleaseProbe
    <3>4. InFlight' \ Probes' \subseteq InFlight \ Probes
      BY <2>1, <2>3
    <3>5. \A d \in InFlight' \ Probes' : age'[d] >= OpenDuration
      BY <2>2, <3>1, <3>4 DEF Aging
    <3> QED BY <2>3, <3>3, <3>5 DEF Aging
  <2>4. CASE state' # "HALF_OPEN"
    <3>1. Probes' = {} /\ strays' = 0
      BY <1>3, <2>1, <2>4 DEF Succeed
    <3>2. state' = "OPEN" => state = "OPEN" /\ openAge' = openAge
      BY <1>3 DEF Succeed, OnSuccess, Close
    <3> QED BY <2>1, <2>2, <2>4, <3>1, <3>2 DEF Aging
  <2> QED BY <2>3, <2>4
<1>4. ASSUME NEW c \in Calls, Lose(c) PROVE Aging'
  <2>1. InFlight' = InFlight \ {c} /\ (state' # "HALF_OPEN" => Probes' = {})
    BY <1>4, CallSettles DEF Lose
  <2>2. \A d \in InFlight' : age'[d] = age[d] /\ age[d] \in Nat
    BY <1>4, <2>1 DEF TypeOK, Lose, Settle, InFlight
  <2>3. \/ state' = "CLOSED"
        \/ state' = "OPEN" /\ openAge' = IF state = "OPEN" THEN openAge ELSE 0
    BY <1>4 DEF TypeOK, Lose, OnFailure, Trip
  <2>4. strays' = 0
    BY <1>4 DEF Lose
  <2> QED BY <2>1, <2>2, <2>3, <2>4 DEF Aging
<1>5. ASSUME Tick PROVE Aging'
  <2>1. InFlight' = InFlight /\ Probes' = Probes
    BY <1>5 DEF Tick, InFlight, Probes
  <2>2. \A d \in InFlight : d \in Calls /\ age'[d] = age[d] + 1
    BY <1>5 DEF TypeOK, Tick, InFlight
  <2>3. state = "OPEN" => openAge' <= openAge + 1 /\ openAge' \in Nat
    BY <1>5, <1>b DEF Tick, Older
  <2>4. state' = state /\ halfOpenActive' = halfOpenActive /\ strays' = strays
    BY <1>5 DEF Tick, counters
  <2>5. state = "OPEN" => \A d \in InFlight : age'[d] >= openAge'
    <3> SUFFICES ASSUME state = "OPEN", NEW d \in InFlight PROVE age'[d] >= openAge'
      OBVIOUS
    <3>1. age[d] >= openAge
      BY DEF Aging
    <3> QED BY <1>b, <2>2, <2>3, <3>1
  <2>6. state = "HALF_OPEN" => \A d \in InFlight \ Probes : age'[d] >= OpenDuration
    BY <1>b, <2>2 DEF Aging
  <2> QED BY <2>1, <2>4, <2>5, <2>6 DEF Aging
<1>6. CASE UNCHANGED vars
  BY <1>6 DEF Aging, vars, breaker, counters, InFlight, Probes
<1> QED BY <1>1, <1>2, <1>3, <1>4, <1>5, <1>6, StepKinds

\* In HALF_OPEN every call that is no probe of this period is as old as the OPEN
\* period before it, and the probes exceed halfOpenMaxConcurrent by at most the
\* slots such calls gave back: for all values of the tunables, whichever of
\* timeoutMs and openDurationMs is the longer.
THEOREM ProbesAreLimitedAlways == Spec => []ProbesAreLimited
<1>1. Init => Aging
  BY DEF Init, Aging, InFlight, Probes
<1>2. TypeOK /\ Aging => ProbesAreLimited
  <2>1. Cardinality(Probes) \in Nat
    BY ProbesFinite
  <2> QED BY <2>1, TunablesArePositive DEF TypeOK, Aging, ProbesAreLimited
<1> QED BY <1>1, <1>2, StepAging, TypeCorrect, SlotsAreHeldAlways, PTL DEF Spec

-----------------------------------------------------------------------------
\* No step leaves OPEN before its time or sets its clock back.
THEOREM OpenPeriodIsKeptAlways == Spec => OpenPeriodIsKept
<1> DEFINE Kept == state = "OPEN" => \/ state' = "OPEN" /\ openAge' >= openAge
                                     \/ state' = "HALF_OPEN" /\ openAge = OpenDuration
<1>1. ASSUME TypeOK, [Next]_vars PROVE [Kept]_vars
  <2> SUFFICES ASSUME state = "OPEN"
               PROVE  \/ state' = "OPEN" /\ openAge' >= openAge
                      \/ state' = "HALF_OPEN" /\ openAge = OpenDuration
    OBVIOUS
  <2> USE <1>1, TunablesArePositive
  <2>a. openAge \in 0..OpenDuration
    BY DEF TypeOK
  <2>1. ASSUME NEW c \in Calls, ExecClosed(c) PROVE FALSE
    BY <2>1 DEF ExecClosed
  <2>2. ASSUME NEW c \in Calls, Probe(c) PROVE state' = "HALF_OPEN" /\ openAge = OpenDuration
    BY <2>2, <2>a DEF Probe, MayProbe
  <2>3. ASSUME NEW c \in Calls, Succeed(c) PROVE state' = "OPEN" /\ openAge' >= openAge
    BY <2>3, <2>a DEF Succeed, OnSuccess
  <2>4. ASSUME NEW c \in Calls, Lose(c) PROVE state' = "OPEN" /\ openAge' >= openAge
    BY <2>4, <2>a DEF Lose, OnFailure, Trip
  <2>5. ASSUME Tick PROVE state' = "OPEN" /\ openAge' >= openAge
    BY <2>5, <2>a DEF Tick, Older
  <2>6. CASE UNCHANGED vars
    BY <2>6, <2>a DEF vars, breaker, counters
  <2> QED BY <2>1, <2>2, <2>3, <2>4, <2>5, <2>6, StepKinds
<1> QED BY <1>1, TypeCorrect, PTL DEF Spec, OpenPeriodIsKept
=============================================================================
