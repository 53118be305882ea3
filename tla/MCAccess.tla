------------------------------ MODULE MCAccess ------------------------------
(* Access on a small instance. *)
EXTENDS Access, TLC
=============================================================================
