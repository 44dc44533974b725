\* One work, two slots that can both be on it; no symmetry, for progress.
CONSTANTS
    Works = {w1}
    Reservations = {k1}
    Runners = {r1, r2}
    Materials = {m1}
    c1 = c1
    c2 = c2
    Configs = {c1}
    ConfigOf <- SameConfig
    MaxAttempts = 2
    CallMax = 1
    MaxRevision = 2
    MaxEpoch = 3
    None = None
SPECIFICATION FairSpec
CHECK_DEADLOCK FALSE
INVARIANTS
    OneOpenAttempt
    NothingStranded
    ReservationsSuffice
PROPERTIES
    ClosedStaysClosed
    EveryWorkEnds
