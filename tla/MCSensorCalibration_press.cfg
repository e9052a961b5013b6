SPECIFICATION FairSpec
CONSTANTS
    Position = {open, shut}
    None = None
    Types = {"ws02"}
    Keen = FALSE
    MaxQueue = 1
    MaxOrders = 1
    MaxMoves = 0
    MaxReloads = 0
    MaxWords = 4
PROPERTY PressCalibrates
