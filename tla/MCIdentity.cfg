SPECIFICATION IdentitySpec
SYMMETRY MCSymmetry
CONSTANTS
    self = self
    other1 = other1
    other2 = other2
    p1 = p1
    p2 = p2
    Node <- MCNode
    Self = self
    HasRoot = TRUE
    LocalSerial = 1
    MaxMembers = 3
    MaxSequence = 3
    MaxRevSerial = 2
    MaxTime = 1
    CompactAt = 5
    MaxFrames = 5
    MaxFaults = 2
    Proc <- MCProc
    MaxKeys = 3
    MaxStops = 4
    Certificate <- MCCertificate
    ThisDevice = "d"
    MaxCertificates = 1
    MaxRevocations = 1
    MaxUsedIds = 2
    MaxLifetime = 2
    UpdateInterval = 1
    StatusAge = 1
    FutureSkew = 0
    AuthorityEnd = 1
    MaxEpoch = 1
    MaxRevision = 2
    MaxSigned = 2
    Verifier = {"v"}
    Digest <- MCDigest
    Founding = Founding
    Content <- MCContent
    Hive = "hive"
    Key = {"k0", "k1", "k2", "kR", "kR2"}
    NoKey = NoKey
    RootGroup <- MCRoot
    RecoveryGroup <- MCRecovery
    Nothing = Nothing
    MaxRecords = 5
    Target = {"t1"}
    PresenceCap = 1
    TotalCap = 1
    LeaseTime = 2
    PolicyAge = 2
    TargetAge = 1
    AssertionTime = 1
    MaxNow = 2
    MaxHead = 2
    MaxNonce = 2
    Device = {d1, d2, d3}
    Quorum = 2
    AcceptSingleLoss = FALSE
    MaxParticipants = 16
    MaxChanged = 3
INVARIANTS
    
    KeysAreKept
    
    
    BranchStands
    
    FoundedIsGenuine
PROPERTIES
    SequencesNeverReused
    EnrollmentIsFinal
    VerifierNeverReturns
    NothingReturns
    LeasesNeverReturn
\* An enrolled computer, a full store and a halted chain have nothing more to
\* do, and time is bounded.
CHECK_DEADLOCK FALSE
