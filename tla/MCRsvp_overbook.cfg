\* Two guests answer at the same time for the last seat.
SPECIFICATION RsvpCheckedSpec
CONSTANTS
    Guests = {g1, g2}
    Invs = {i1, i2}
    Clients = {c1, c2}
    MaxPaxes = {1}
    NoGuest = NoGuest
    NoInv = NoInv
    Paxes = {1}
    Capacity = 1
SYMMETRY Symmetry
INVARIANTS
    WithinCapacity
