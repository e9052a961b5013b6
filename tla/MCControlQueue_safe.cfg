SPECIFICATION Spec
SYMMETRY ThreadSymmetry
CONSTANTS
    t1 = t1
    t2 = t2
    p1 = p1
    p2 = p2
    d1 = d1
    r1 = r1
    f1 = f1
    f2 = f2
    m1 = m1
    m2 = m2
    NONE = NONE
    None = NONE
    Thread <- MCThread
    Peer <- MCPeer
    Recorder = {r1}
    Device = {}
    FileId = {f1, f2}
    MqttId = {m1}
    DeviceOf <- MCDeviceOfS
    HintOf <- MCHintOfS
    Invalid = {}
    Faults = {"crash", "save", "send"}
    MaxFaults = 2
    Overlap = FALSE
INVARIANTS TypeOK AtMostOnceIfSaved PlacedIsRemembered NoStrayRequest InOrder
PROPERTY SavedNeverQueuedAgain
