\* Two desks, a contact and a walk-in, one invitation.
SPECIFICATION CheckinFaultySpec
CONSTANTS
    Guests = {g1, w1}
    Walkins = {w1}
    Invs = {i1}
    Desks = {d1, d2}
    CheckinIds = {k1, k2}
    MaxPaxes = {1, 2}
    ActualPaxes = {2}
    NoGuest = NoGuest
    NoInv = NoInv
SYMMETRY Symmetry
INVARIANTS
    CheckinTypeOK
    DuplicatesBounded
    AdmittedIsKnown
    SelfWithinQuota
