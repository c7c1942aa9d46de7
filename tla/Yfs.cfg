SPECIFICATION Spec
CONSTANTS
    Procs = {p1, p2}
    Names <- MCFewNames
    Inums <- MCInums
    Part = 2
    MaxOps = 2
    MaxFail = 1
    MaxLate = 1
SYMMETRY Symmetry
INVARIANTS
    YfsTypeOK
    CreatedStay
    NoDuplicateNames
    EntryHasFile
    ListingComplete
\* A process stops after its last request.
CHECK_DEADLOCK FALSE
