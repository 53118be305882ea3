------------------------------ MODULE MCContacts ------------------------------
(* Contacts and handlers are interchangeable.                              *)
EXTENDS Contacts, TLC

Symmetry == Permutations(Contacts) \cup Permutations(Handlers)
=============================================================================
