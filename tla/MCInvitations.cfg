\* Two organiser handlers on two guests; ids for two invitations.
SPECIFICATION InvitationsSpec
CONSTANTS
    Guests = {g1, g2}
    Invs = {i1, i2}
    Admins = {a1, a2}
    MaxPaxes = {1}
    NoGuest = NoGuest
    NoInv = NoInv
SYMMETRY Symmetry
INVARIANTS
    OneLiveInvitation
    CreateHasRoster
PROPERTIES
    TableSpec
