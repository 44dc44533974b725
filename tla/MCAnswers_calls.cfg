\* A request id used again while its first call is under way; no symmetry, for progress.
CONSTANTS
    Requests = {r1}
    Slots = {s1, s2}
    Materials = {m1}
    Configs = {c1}
    RequestMax = 1
    Bills = {0, 1, 2}
    MaxRevision = 2
    MaxEpoch = 3
    None = None
SPECIFICATION FairSpec
INVARIANTS OneRecordedCall LedgerCoversBills ClosedTogether
PROPERTIES EverythingIsErased
CHECK_DEADLOCK FALSE
