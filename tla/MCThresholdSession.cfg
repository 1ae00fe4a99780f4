SPECIFICATION Spec
SYMMETRY Symmetry
CONSTANTS
    x = x
    y = y
    z = z
    Participant = {p1}
    K = 1
    Session = {s1, s2}
    Step <- MCStep
    Predecessor <- MCPredecessor
    RecoveryGen <- MCRecoveryGen
    Role = {"root", "recovery"}
    Package = {g1, g2}
    NoStep = NoStep
    NoRole = NoRole
    NoPackage = NoPackage
    Deadline = 1
    MaxTime = 2
INVARIANTS
    SigningIsSafe
