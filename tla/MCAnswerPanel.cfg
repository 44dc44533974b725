CONSTANTS
    Request = {q1, q2}
    Policy = {p1, p2}
    StreamReads = 2
    MaxActs = 4
    MaxLosses = 1
    None = None
    Unserved = Unserved
    Refused = Refused
SPECIFICATION Spec
INVARIANTS
    ConsentIsKept OneAdmissionPerQuestion NeverStuck
CHECK_DEADLOCK FALSE
PROPERTIES WaitsEnd
