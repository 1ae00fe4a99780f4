----------------------------- MODULE MCJournal -----------------------------
(* Journal with two payloads; every state is explored. *)
EXTENDS Journal, TLC

CONSTANTS p1, p2

MCPayload == {p1, p2}
MCSymmetry == Permutations(MCPayload)
=============================================================================
