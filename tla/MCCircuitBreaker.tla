-------------------------- MODULE MCCircuitBreaker --------------------------
(***************************************************************************)
(* A small breaker in the proportion of the defaults, where timeoutMs and  *)
(* openDurationMs are equal: a call made in the instant of the trip is due *)
(* in the instant the first probe is allowed, and either may come first.   *)
(* Two probe slots, and enough calls to fill the failure window, hold both *)
(* slots, still be turned away and free a slot from outside.               *)
(***************************************************************************)
EXTENDS CircuitBreaker
=============================================================================
