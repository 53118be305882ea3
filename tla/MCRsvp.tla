------------------------------- MODULE MCRsvp -------------------------------
(* Rsvp on small instances. *)
EXTENDS Rsvp, TLC

\* Guests, handlers and invitation ids are interchangeable: no definition
\* tells two of them apart.
Symmetry ==
    Permutations(Guests) \cup Permutations(Invs)
        \cup Permutations(Clients)
=============================================================================
