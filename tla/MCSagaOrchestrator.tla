------------------------- MODULE MCSagaOrchestrator -------------------------
(***************************************************************************)
(* Two sagas share the counters and a ring buffer of one entry. As in the  *)
(* built-in definitions the first and the last step have no compensation;  *)
(* step 4 is passed through for want of a handler, yet is compensated.     *)
(***************************************************************************)
EXTENDS SagaOrchestrator
=============================================================================
