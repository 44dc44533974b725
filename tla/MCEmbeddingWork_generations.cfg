\* Works for one material: repeated activation, failures, retries, new grants.
CONSTANTS
    Works = {w1, w2}
    Reservations = {k1, k2}
    Runners = {r1}
    Materials = {m1}
    c1 = c1
    c2 = c2
    Configs = {c1}
    ConfigOf <- SameConfig
    MaxAttempts = 2
    CallMax = 1
    MaxRevision = 1
    MaxEpoch = 3
    None = None
SPECIFICATION Spec
SYMMETRY Symmetry
CHECK_DEADLOCK FALSE
INVARIANTS
    OneLiveGeneration
