SPECIFICATION Spec
CONSTANTS
    None = None
    Release <- MCPair
    Version <- MCPairVersion
    Digest <- MCPairDigest
    MaxAttempts = 3
    MaxCommands = 2
    MaxKills = 1
INVARIANT InterruptionRecovers
\* Owner commands are bounded, and before the first install nothing else happens.
CHECK_DEADLOCK FALSE
