------------------------------- MODULE MCEvents -------------------------------
(* Events and handlers are interchangeable.                                *)
EXTENDS Events, TLC

Symmetry == Permutations(Events) \cup Permutations(Handlers)
=============================================================================
