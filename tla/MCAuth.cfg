\* Two links, two sessions, one change of the password, two requests.
SPECIFICATION Spec
CONSTANTS
    Mails = {m1, m2}
    Sessions = {s1, s2}
    Handlers = {h1, h2}
    MaxPasswords = 1
    Nothing = Nothing
SYMMETRY Symmetry
INVARIANTS
    OneSessionPerCredential
    SessionsAreVerified
    OldSessionsEnd
CHECK_DEADLOCK FALSE
