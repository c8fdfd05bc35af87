----------------------------- MODULE KillSwitch -----------------------------
(***************************************************************************)
(* What the crisis engine promises of the kill switches, whatever its      *)
(* transactions do in between: a scope (a module, an organisation, the     *)
(* whole system) is running or halted; halting it takes as many different  *)
(* users as its crisis level requires; every change is announced once, in  *)
(* the step that makes it.                                                 *)
(***************************************************************************)
EXTENDS Naturals, Sequences, FiniteSets

CONSTANTS
    Scopes,
    Dual,               \* scopes whose level is RED or BLACK: two approvers
    Users

VARIABLES
    halted,             \* the scopes that are halted
    keys,               \* keys[s][n]: who authorised the n-th halt of s, if s is dual
    told                \* told[s]: the announced changes of s

Init ==
    /\ halted = {}
    /\ keys = [s \in Scopes |-> <<>>]
    /\ told = [s \in Scopes |-> <<>>]

Suffices(s, K) == s \in Dual => \E u, v \in K : u # v

Halt(s, K) ==
    /\ s \notin halted
    /\ Suffices(s, K)
    /\ halted' = halted \cup {s}
    /\ keys' = [keys EXCEPT ![s] = Append(@, K)]
    /\ told' = [told EXCEPT ![s] = Append(@, <<"on", Len(keys[s]) + 1>>)]

Resume(s) ==
    /\ s \in halted
    /\ halted' = halted \ {s}
    /\ told' = [told EXCEPT ![s] = Append(@, <<"off", Len(keys[s])>>)]
    /\ UNCHANGED keys

Next == \E s \in Scopes : Resume(s) \/ \E K \in SUBSET Users : Halt(s, K)

Spec == Init /\ [][Next]_<<halted, keys, told>>
=============================================================================
