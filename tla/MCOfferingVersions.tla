------------------------- MODULE MCOfferingVersions -------------------------
(***************************************************************************)
(* One offering and three transactions at a time: it is created, changed,  *)
(* discontinued and changed again while others wait for its lock with an   *)
(* older NOW(), or an offboarding is between its two UPDATEs.              *)
(***************************************************************************)
EXTENDS OfferingVersions, TLC

Symmetry == Permutations(Calls)
=============================================================================
