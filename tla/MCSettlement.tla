---------------------------- MODULE MCSettlement ----------------------------
(***************************************************************************)
(* Settlement for TLC.  Ids of payments, batches and workers are model     *)
(* values; no symmetry, since the runs check liveness.                     *)
(***************************************************************************)
EXTENDS Settlement
=============================================================================
