------------------------------ MODULE MCGates ------------------------------
(* Definitions for TLC's runs of Gates.                                    *)
EXTENDS Gates, TLC

Symmetry == Permutations(Jobs)
=============================================================================
