\* Two requests on two events, two days.
SPECIFICATION Spec
CONSTANTS
    Events = {e1, e2}
    Handlers = {h1, h2}
    MaxDay = 2
    NoEvent = NoEvent
SYMMETRY Symmetry
INVARIANTS
    DatesOrdered
PROPERTIES
    LifecycleHolds
CHECK_DEADLOCK FALSE
