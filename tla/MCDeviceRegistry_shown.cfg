SPECIFICATION Spec
CONSTANTS
    Device = {d1}
    Peer = {p1}
    None = None
    OwnId = own
    Conn = {c1}
    Mqtt = mqtt
    Kind = {"state", "report"}
    Reconfigure = FALSE
    MaxEvents = 3
    MaxFaults = 0
INVARIANT ShownIsLast
CHECK_DEADLOCK FALSE
