\* An owner and two accounts, a plan for a team of two, two requests.
SPECIFICATION Spec
CONSTANTS
    Users = {o, u, v}
    Owner = o
    Ushers = {u}
    Handlers = {h1, h2}
    MaxTeam = 2
    NoUser = NoUser
INVARIANTS
    OwnerManages
    TeamBounded
    StaleOnlyByLateFill
PROPERTIES
    CacheCatchesUp
