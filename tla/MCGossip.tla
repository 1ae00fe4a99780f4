------------------------------ MODULE MCGossip ------------------------------
(* Gossip for TLC: the root and one member, connected to each other. *)
EXTENDS Gossip

MCLink == {{1, 2}}
MCIntroduced == <<{2}, {1}>>
=============================================================================
