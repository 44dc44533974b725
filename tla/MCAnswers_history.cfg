CONSTANTS
    Requests = {r1, r2}
    Slots = {s1}
    Materials = {m1}
    Configs = {c1}
    RequestMax = 1
    Bills = {1}
    MaxRevision = 2
    MaxEpoch = 3
    None = None
SPECIFICATION Spec
SYMMETRY Alike
PROPERTIES SendsOnlyPermitted
CHECK_DEADLOCK FALSE
