SPECIFICATION Spec
CONSTANTS
    Guests = {g1}
    Kinds = {"reminder", "sms"}
    CampaignKind = "reminder"
    MaxMessages = 2
    Handlers = {h1, h2}
    NoGuest = NoGuest
SYMMETRY Symmetry
INVARIANTS
    ReminderThrottle
    CampaignOnce
PROPERTIES
    DeliverySpec
CHECK_DEADLOCK FALSE
