SPECIFICATION GossipFairSpec
CONSTANTS
    Computer = {1, 2}
    Root = 1
    Link <- MCLink
    Introduced <- MCIntroduced
    Revocable = {2}
    Room = 2
    MaxIncidents = 0
    Turn = 2
PROPERTY RevokedIsTold
\* When everything is exchanged nothing is left to do.
CHECK_DEADLOCK FALSE
