CONSTANTS
    Requests = {r1}
    Slots = {s1}
    Materials = {m1}
    Configs = {c1}
    RequestMax = 1
    Bills = {1}
    MaxRevision = 2
    MaxEpoch = 2
    None = None
SPECIFICATION Spec
INVARIANTS TerminalReasonReturned
CHECK_DEADLOCK FALSE
