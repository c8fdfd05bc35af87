------------------------ MODULE MCEntitlementCache -------------------------
(***************************************************************************)
(* Three calls, two in the same process: they share its lock and delete    *)
(* each other's, and the third has a lock of its own.                      *)
(***************************************************************************)
EXTENDS EntitlementCache, TLC

CONSTANTS c1, c2, c3, p1, p2

MCProcOf == (c1 :> p1) @@ (c2 :> p1) @@ (c3 :> p2)

Symmetry == Permutations({c1, c2})
=============================================================================
