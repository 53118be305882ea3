----------------------------- MODULE MCMessaging -----------------------------
(* Two requests at a time on one guest; handlers are interchangeable.      *)
EXTENDS Messaging, TLC

Symmetry == Permutations(Handlers)
=============================================================================
