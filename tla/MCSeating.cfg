\* One table, an ordinary guest and a VIP, two requests.
SPECIFICATION Spec
CONSTANTS
    Tables = {t1}
    Zones = {z1}
    Guests = {g1, v1}
    Vips = {v1}
    Handlers = {h1, h2}
    Rows <- SomeRows
    PageSize = 2
    NoTable = NoTable
    NoGuest = NoGuest
SYMMETRY Symmetry
INVARIANTS
    TypeOK
    SeatsWithinCapacity
PROPERTIES
    NewSeatAllowed
    LeftStandingOnlyIfFull
