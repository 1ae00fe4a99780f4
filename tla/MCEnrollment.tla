---------------------------- MODULE MCEnrollment ----------------------------
(* Enrollment for TLC: the commands of two terminals at once. *)
EXTENDS Enrollment
CONSTANTS p1, p2
TwoProcs == {p1, p2}
=============================================================================
