\* Crashes and failures between complete writes; the user edits the proxy.
SPECIFICATION Spec
CONSTANTS
    UserSettings <- TwoSettings
    Ports <- TwoPorts
    OurBypass = "ours"
    NoPac = "none"
    NoMarker = NoMarker
    JunkMarker = JunkMarker
    TornWrites = FALSE
    EditedFields = {"enable", "server"}
INVARIANTS SettingsAreRestorable PublishedWhileApplied
PROPERTIES MarkerDroppedWhenRestored
