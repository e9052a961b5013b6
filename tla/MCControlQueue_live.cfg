SPECIFICATION FairSpec
CONSTANTS
    t1 = t1
    t2 = t2
    p1 = p1
    p2 = p2
    d1 = d1
    r1 = r1
    f1 = f1
    f2 = f2
    m1 = m1
    m2 = m2
    NONE = NONE
    None = NONE
    Thread <- MCThread
    Peer = {p1}
    Recorder = {r1}
    Device = {d1}
    FileId = {f1, f2}
    MqttId = {m2}
    DeviceOf <- MCDeviceOfL
    HintOf <- MCHintOfL
    Invalid = {f2}
    Faults = {"read", "save"}
    MaxFaults = 1
    Overlap = FALSE
PROPERTIES RequestDelivered ImplementsMailbox
