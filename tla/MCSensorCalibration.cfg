SPECIFICATION FairSpec
CONSTANTS
    Position = {open, shut}
    None = None
    Types = {"ws02", "um01"}
    Keen = TRUE
    MaxQueue = 1
    MaxOrders = 2
    MaxMoves = 1
    MaxReloads = 1
    MaxWords = 4
INVARIANT TypeOK
PROPERTIES OnlyOnWord AsConfirmed GetsCalibrated
