SPECIFICATION EnrollmentSpec
CONSTANTS
    p1 = p1
    p2 = p2
    Proc <- TwoProcs
    MaxKeys = 1
    MaxStops = 0
CHECK_DEADLOCK FALSE
INVARIANTS OneWriter
