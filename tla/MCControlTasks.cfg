SPECIFICATION Spec
CONSTANTS
    home1 = home1
    home2 = home2
    Places = {home1}
    Web = Web
    Usb = Usb
    Writers = {Web, Usb}
    None = None
    Failures = FALSE
    Timeouts = TRUE
    SpacedEvidence = TRUE
    Maintenance = TRUE
    MaxEpoch = 3
INVARIANTS TypeOK RunningIsPersisted
PROPERTIES OffStaysOff
CHECK_DEADLOCK FALSE
