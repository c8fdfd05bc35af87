------------------------ MODULE MCCrisisRepository ------------------------
(***************************************************************************)
(* Safety: one single-key and two dual-key scopes, two users, two calls at *)
(* a time. That is enough for two keys in a race, two stale rows in a      *)
(* deadlock, and a switch that is set again while it is being released.    *)
(* Liveness: the two dual-key scopes alone, without symmetry.              *)
(***************************************************************************)
EXTENDS CrisisRepository, TLC

Symmetry == Permutations(Users) \cup Permutations(Calls) \cup Permutations(Dual)
=============================================================================
