--------------------------- MODULE MCDualApproval ---------------------------
(* One request (requests share no row), two calls in flight at a time and   *)
(* four users: the requester and three possible approvers.                  *)
EXTENDS DualApproval, TLC

Symmetry == Permutations(Calls) \cup Permutations(Users)
=============================================================================
