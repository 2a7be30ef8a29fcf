SPECIFICATION Spec
CONSTANTS
    home1 = home1
    home2 = home2
    Places = {home1, home2}
    Web = Web
    Usb = Usb
    Writers = {Web}
    None = None
    Failures = TRUE
    Timeouts = FALSE
    SpacedEvidence = TRUE
    Maintenance = FALSE
    MaxEpoch = 4
SYMMETRY PlaceSymmetry
INVARIANTS OffIsDurable HomeBoundToItsSettings
 
CHECK_DEADLOCK FALSE
