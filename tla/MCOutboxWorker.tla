--------------------------- MODULE MCOutboxWorker ---------------------------
(***************************************************************************)
(* Two workers with batches of two rows and three events, one of them      *)
(* poisonous: batches are cut by the limit, blocked by the poison event    *)
(* and split between the workers.                                          *)
(***************************************************************************)
EXTENDS OutboxWorker
=============================================================================
