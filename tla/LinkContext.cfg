\* Two callers, one dongle, and a URI for every way through the calls.
CONSTANTS
    Callers = {c1, c2}
    Uris <- MixedUris
    MaxUris = 2
    Calls = {"get_radio", "open_link", "scan", "scan_selected",
             "platform_command"}
    NoCaller = NoCaller
    NoRadio = NoRadio
SPECIFICATION FairSpec
INVARIANTS
    OpenedOnce
    SharesAreOfHeld
PROPERTIES
    IdleRadioIsFreed
    LostRadioGoes
