SPECIFICATION FairSpec
CONSTANTS
    Node = {n1}
    Mode = {"home", "away"}
    InitialMode = "home"
    AlarmKind = {"intrusion", "smoke"}
    None = None
    TimersLast = TRUE
    MaxPresses = 2
    MaxChanges = 2
    MaxFaults = 2
INVARIANTS TypeOK ModeIsShown AlarmIsShown ClosesNoLater
PROPERTY WindowCloses
CHECK_DEADLOCK FALSE
