------------------------------ MODULE MCBilling ------------------------------
(* Billing on small instances. *)
EXTENDS Billing, TLC

\* Orders and webhook handlers are interchangeable (safety runs only).
Symmetry == Permutations(Orders) \cup Permutations(Hooks)
=============================================================================
