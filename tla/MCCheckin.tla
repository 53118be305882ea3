------------------------------ MODULE MCCheckin ------------------------------
(* Checkin on small instances. *)
EXTENDS Checkin, TLC

\* Handlers, row ids and invited guests are interchangeable; a walk-in's id
\* and a contact's are not.
Symmetry ==
    Permutations(Guests \ Walkins) \cup Permutations(Walkins)
        \cup Permutations(Invs) \cup Permutations(Desks)
        \cup Permutations(CheckinIds)
=============================================================================
