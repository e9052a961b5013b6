SPECIFICATION Spec
CONSTANTS
    Writer = {w1, w2}
    Id = {i1}
    Device = {d1}
    Inode = {n1, n2, n3}
    None = None
    MaxFaults = 1
INVARIANT SavedSurvives
