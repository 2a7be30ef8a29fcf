SPECIFICATION Spec
CONSTANTS
    home1 = home1
    home2 = home2
    Places = {home1}
    Web = Web
    Usb = Usb
    Writers = {Web}
    None = None
    Failures = FALSE
    Timeouts = FALSE
    SpacedEvidence = TRUE
    Maintenance = FALSE
    MaxEpoch = 3
INVARIANTS FaultMeansFailure
CHECK_DEADLOCK FALSE
