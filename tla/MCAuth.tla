-------------------------------- MODULE MCAuth --------------------------------
(* Auth on a small instance. *)
EXTENDS Auth, TLC

Symmetry ==
    Permutations(Mails) \cup Permutations(Sessions) \cup Permutations(Handlers)
=============================================================================
