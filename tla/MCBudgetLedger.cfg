\* Two admissions of both purposes across a month's end.
CONSTANTS
    Reservations = {k1, k2}
    Policies <- CurrentAndFormer
    Maxima = {1, 2, 3}
    LastMonth = 2
    None = None
SPECIFICATION Spec
SYMMETRY Alike
INVARIANTS SumStillCovers
PROPERTIES NoLateAdmission ChargesOnlyFall KeepsThePromise
CHECK_DEADLOCK FALSE
