CONSTANTS
    Material = {m1, m2, m3}
    Revision = {r1, r2, r3, r4}
    Key = {k1, k2, k3, k4}
    Typed <- Bodies
    Draft <- Received
    ChunkSize = 2
    Call = {c1, c2}
    None = None
    Reader = {t1}
    Library = {l1}
    MaxCalls = 3
SPECIFICATION DocumentsSpec
INVARIANTS
    RequestsAreAtomic ChunksRestoreBody FormsRepeatSafely OwnSaveIsShown
PROPERTIES
    RepeatedRequestIsNotRefused NobodyOverwritesUnseen ReportedTextIsStored
SYMMETRY Symmetry
CHECK_DEADLOCK FALSE
