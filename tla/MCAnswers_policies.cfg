\* Two policies at once, with new grants of either.
CONSTANTS
    Requests = {r1}
    Slots = {s1, s2}
    Materials = {m1}
    Configs = {c1, c2}
    RequestMax = 1
    Bills = {0, 1}
    MaxRevision = 2
    MaxEpoch = 3
    None = None
SPECIFICATION Spec
SYMMETRY Alike
INVARIANTS ContentMatchesState
PROPERTIES NeverShownAgain PublishesOnlyPermitted KeepsThePromise
CHECK_DEADLOCK FALSE
