SPECIFICATION Spec
CONSTANTS
    Device = {d1}
    Peer = {p1, p2}
    None = None
    OwnId = own
    Conn = {c1}
    Mqtt = mqtt
    Kind = {"state", "inst", "button"}
    Reconfigure = FALSE
    MaxEvents = 2
    MaxFaults = 1
INVARIANTS TypeOK  KnownIsAnnounced AttachedToBase ValueIsCurrent HeardOnce
PROPERTY PressIsHeard
SYMMETRY Symmetry
CHECK_DEADLOCK FALSE
