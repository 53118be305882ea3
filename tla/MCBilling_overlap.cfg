\* Overlapping webhook requests.
CHECK_DEADLOCK FALSE
SPECIFICATION Spec
CONSTANTS
    Orders = {o1, o2}
    NoOrder = NoOrder
    Hooks = {h1, h2}
    Pages = {}
    Servers = {}
    MaxFaults = 1
SYMMETRY Symmetry
INVARIANTS
    TypeOK
    PaidHasSubscription
    OnlyPaidIsServed
    ActiveBounded
PROPERTIES
    SuccessStays
