\* One webhook request at a time, pages beside it, one failure.
SPECIFICATION FairSpec
CONSTANTS
    Orders = {o1}
    NoOrder = NoOrder
    Hooks = {h1}
    Pages = {p1}
    Servers = {s1}
    MaxFaults = 1
PROPERTIES
    PaidIsServed
    PaidActivates
