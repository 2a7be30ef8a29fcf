SPECIFICATION FairSpec
CONSTANTS
    o1 = o1
    o2 = o2
    Present = {o1}
    Incoming = {o2}
    Nobody = Nobody
    Web = Web
    Usb = Usb
    Worker = Worker
    Login = Login
    Failures = TRUE
INVARIANTS WholeRecords  StaysStopped
PROPERTIES Installs MigrationSticks
CHECK_DEADLOCK FALSE
