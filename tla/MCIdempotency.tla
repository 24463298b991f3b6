--------------------------- MODULE MCIdempotency ---------------------------
(* Definitions for TLC's runs of Idempotency.                              *)
EXTENDS Idempotency, TLC

EverySetOfFaults == SUBSET AllFaults
OnlyCreationThrows == {{"creation"}}

Symmetry == Permutations(Requests) \cup Permutations(Jobs)
=============================================================================
