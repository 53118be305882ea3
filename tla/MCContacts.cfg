SPECIFICATION Spec
CONSTANTS
    Contacts = {c1, c2}
    Phones = {p1}
    Emails = {e1}
    Handlers = {h1, h2}
    MaxGuests = 2
    MaxRows = 2
    MaxImports = 1
    NoContact = NoContact
SYMMETRY Symmetry
INVARIANTS
    TypeOK
    DuplicatesAreUnchecked
    ImportFillsRoster
CHECK_DEADLOCK FALSE
