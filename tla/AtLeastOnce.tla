---------------------------- MODULE AtLeastOnce ----------------------------
(***************************************************************************)
(* What the outbox and the event bus promise of what is given to them,     *)
(* whatever their workers, retries and transactions do in between: an item *)
(* stays open until it was done or buried, and is never opened again. It   *)
(* may be done more than once, also when it is no longer open.             *)
(***************************************************************************)
CONSTANT Items

VARIABLES
    open,               \* accepted, and still to be delivered
    done,               \* delivered at least once
    buried              \* given up, for somebody to look at

Init == open = {} /\ done = {} /\ buried = {}

Known == open \cup done \cup buried

Accept(i) ==
    /\ i \notin Known
    /\ open' = open \cup {i}
    /\ UNCHANGED <<done, buried>>

Deliver(i) ==
    /\ i \in Known
    /\ done' = done \cup {i}
    /\ UNCHANGED <<open, buried>>

GiveUp(i) ==
    /\ i \in Known
    /\ buried' = buried \cup {i}
    /\ UNCHANGED <<open, done>>

Close(S) ==
    /\ S \subseteq open \cap (done \cup buried)
    /\ open' = open \ S
    /\ UNCHANGED <<done, buried>>

Next ==
    \/ \E i \in Items : Accept(i) \/ Deliver(i) \/ GiveUp(i)
    \/ \E S \in SUBSET Items : Close(S)

Spec == Init /\ [][Next]_<<open, done, buried>>
=============================================================================
