\* Two processes with different configurations; two works may share a reservation.
CONSTANTS
    Works = {w1, w2}
    Reservations = {k1}
    Runners = {r1, r2}
    Materials = {m1, m2}
    c1 = c1
    c2 = c2
    Configs = {c1, c2}
    ConfigOf <- MixedConfig
    MaxAttempts = 1
    CallMax = 1
    MaxRevision = 1
    MaxEpoch = 3
    None = None
SPECIFICATION Spec
SYMMETRY RollingSymmetry
CHECK_DEADLOCK FALSE
INVARIANTS
    CallsAreAccounted
    ReservationsSuffice
    ClosedWithItsWorks
PROPERTIES
    UseIsAllowed
