--------------------------- MODULE MCIdempotency ---------------------------
(***************************************************************************)
(* Three requests with one key and two payloads: a first request, a retry  *)
(* that releases or reuses what it left, and a third that meets the two.   *)
(***************************************************************************)
EXTENDS Idempotency
=============================================================================
