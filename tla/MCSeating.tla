------------------------------ MODULE MCSeating ------------------------------
(* Seating on a small instance. *)
EXTENDS Seating, TLC

\* A small table, open or locked, that may become a larger one for VIPs.
SomeRows ==
    { [capacity |-> 1, locked |-> FALSE, vipOnly |-> FALSE],
      [capacity |-> 1, locked |-> TRUE, vipOnly |-> FALSE],
      [capacity |-> 2, locked |-> FALSE, vipOnly |-> TRUE] }

\* Tables, handlers, and guests of the same type are interchangeable.
Symmetry ==
    Permutations(Tables) \cup Permutations(Handlers)
        \cup Permutations(Vips) \cup Permutations(Guests \ Vips)
=============================================================================
