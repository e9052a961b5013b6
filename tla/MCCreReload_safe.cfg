SPECIFICATION Spec
CONSTANTS
    p1 = p1
    t1 = t1
    t2 = t2
    a1 = a1
    a2 = a2
    Peer = {p1}
    Thread = {t1, t2}
    Main = main
    Address = {a1, a2}
    None = None
    PollUrl = FALSE
    Known = {}
    Target <- Entries
    Bad = {}
    CanLose = TRUE
    MaxSerial = 2
    MaxVersion = 1
    MaxCrashes = 1
INVARIANTS TypeOK CachedStaysTrue 
SYMMETRY Same
CHECK_DEADLOCK FALSE
 

