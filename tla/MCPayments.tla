----------------------------- MODULE MCPayments -----------------------------
(***************************************************************************)
(* Payments for TLC.  Payment ids are random strings that the code only    *)
(* compares for equality, so permuting them maps behaviours to behaviours. *)
(***************************************************************************)
EXTENDS Payments, TLC

Symmetry == Permutations(PaymentIDs)
=============================================================================
