------------------------------ MODULE MCOutbox ------------------------------
(***************************************************************************)
(* The outbox workers for TLC: events and workers are model values.        *)
(***************************************************************************)
EXTENDS Outbox, TLC

\* Nothing compares the ids of workers or of events.
Symmetry == Permutations(Workers) \cup Permutations(Events)
=============================================================================
