\* Two RSVP handlers on one invitation, every route.
SPECIFICATION RsvpSpec
CONSTANTS
    Guests = {g1}
    Invs = {i1}
    Clients = {c1, c2}
    MaxPaxes = {1}
    NoGuest = NoGuest
    NoInv = NoInv
    Paxes = {1, 2}
    Capacity = 1
SYMMETRY Symmetry
INVARIANTS
    SubmitWithinMaxPax
    MarkedIsAnswered
    AnsweredIsMarked
PROPERTIES
    ClosedStaysClosed
