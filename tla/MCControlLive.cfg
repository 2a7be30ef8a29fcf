SPECIFICATION FairSpec
CONSTANTS
    home1 = home1
    home2 = home2
    Places = {home1}
    Web = Web
    Usb = Usb
    Writers = {Web}
    None = None
    Failures = FALSE
    Timeouts = FALSE
    SpacedEvidence = TRUE
    Maintenance = FALSE
    MaxEpoch = 2
PROPERTIES CommandsEnd InhibitIsTemporary HomeHeats
CHECK_DEADLOCK FALSE
