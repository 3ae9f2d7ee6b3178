--------------------------- MODULE MCIdempotency ----------------------------
(***************************************************************************)
(* Idempotency keys for TLC.  No symmetry: the main run checks liveness.   *)
(***************************************************************************)
EXTENDS Idempotency
=============================================================================
