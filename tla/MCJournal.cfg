CONSTANTS
    p1 = p1
    p2 = p2
    Payload = {p1, p2}
    MaxFrames = 2
    MaxBatch = 2
    MaxFaults = 3
    BadTails = TRUE
SPECIFICATION Spec
SYMMETRY MCSymmetry
CHECK_DEADLOCK FALSE
INVARIANTS
    JournalInvariant
PROPERTIES
    ReaderSeesCommitted
    ImplementsDurableLog
