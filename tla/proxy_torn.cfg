\* Crashes and failures between the values of one record.
SPECIFICATION Spec
CONSTANTS
    UserSettings <- TwoSettings
    Ports <- TwoPorts
    OurBypass = "ours"
    NoPac = "none"
    NoMarker = NoMarker
    JunkMarker = JunkMarker
    TornWrites = TRUE
    EditedFields = {}
PROPERTIES PartialWritesArePutBack
