------------------------ MODULE MCThresholdSession ------------------------
(* A participant with sessions for three steps: x and y have one           *)
(* predecessor, and z is of the same recovery generation as both.          *)
EXTENDS ThresholdSession, TLC

CONSTANTS x, y, z

MCStep == {x, y, z}
MCPredecessor == [s \in MCStep |-> IF s = z THEN 2 ELSE 1]
MCRecoveryGen == [s \in MCStep |-> 1]

Symmetry == Permutations(Session) \cup Permutations(Package) \cup Permutations({x, y})

=============================================================================
