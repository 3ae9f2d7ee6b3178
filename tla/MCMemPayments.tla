---------------------------- MODULE MCMemPayments ----------------------------
(***************************************************************************)
(* MemPayments for TLC.  Payment ids are random strings that the code only *)
(* compares for equality.                                                  *)
(***************************************************************************)
EXTENDS MemPayments, TLC

Symmetry == Permutations(PaymentIDs)
=============================================================================
