----------------------------- MODULE MCEventBus -----------------------------
(***************************************************************************)
(* One process with its poller and one recovery round at a time: two loops *)
(* that take messages from each other. Two messages make one batch or two; *)
(* there is one retry and one fault, and one letter is replayed at a time. *)
(***************************************************************************)
EXTENDS EventBus
=============================================================================
