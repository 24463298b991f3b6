----------------------------- MODULE MCDelivery -----------------------------
(* Definitions for TLC's runs of Delivery.                                 *)
EXTENDS DeliveryInvariant, TLC

\* Jobs, workers and operators are interchangeable.
Symmetry == Permutations(Jobs) \cup Permutations(Workers) \cup Permutations(Operators)
=============================================================================
