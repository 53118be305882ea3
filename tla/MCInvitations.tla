--------------------------- MODULE MCInvitations ---------------------------
(* Invitations on small instances. *)
EXTENDS Invitations, TLC

\* Guests, handlers and invitation ids are interchangeable: no definition
\* tells two of them apart.
Symmetry ==
    Permutations(Guests) \cup Permutations(Invs) \cup Permutations(Admins)
=============================================================================
