--------------------------- MODULE MCStripeWebhook --------------------------
(***************************************************************************)
(* Two jobs at a time, so that one writes the row between the other's look *)
(* at it and its UPDATE. Two events, created at any of MaxTime + 1 moments *)
(* and received at any later one; an attempt that fails is tried again.    *)
(***************************************************************************)
EXTENDS StripeWebhook, TLC

Symmetry == Permutations(Jobs) \cup Permutations(Events)
=============================================================================
