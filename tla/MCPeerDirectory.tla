--------------------------- MODULE MCPeerDirectory ---------------------------
(***************************************************************************)
(* The modules about where the members of a hive are, for TLC: what a      *)
(* computer publishes about itself, what it keeps about the others, how    *)
(* it spreads and what it dials.  They share no state: a behaviour is one  *)
(* of the component that `part` names, and the others stay as they start.  *)
(***************************************************************************)
EXTENDS PeerDirectory, Reachability, RouteHistory, Publication, Gossip, Dialing

CONSTANTS mover, stayer, addr1, addr2, addr3

VARIABLE part

SignedContact(n, s, pin, addresses) ==
    [node |-> n, sequence |-> s, dial |-> [pin |-> pin, addresses |-> addresses]]

\* One computer moves between three addresses and a network without any,
\* renews its transport key once, and signs two contacts with one sequence;
\* the other one stays where it is.
TheContacts ==
    {SignedContact(mover, 1, 1, <<addr1>>),
     SignedContact(mover, 2, 1, <<addr2, addr1>>), SignedContact(mover, 2, 1, <<>>),
     SignedContact(mover, 3, 2, <<addr3>>),
     SignedContact(mover, 4, 1, <<addr1>>), SignedContact(mover, 4, 2, <<addr2>>),
     SignedContact(stayer, 1, 1, <<addr1>>)}

\* Memberships outlive the claims; two reporters see this computer and
\* each other, and the computer sees itself.
TheMemberships == [r \in Reporter \cup {Local} |-> 8]
TheSightings ==
    {<<"r", "l", "A">>, <<"r", "s", "B">>, <<"s", "l", "B">>, <<"l", "l", "A">>}

\* A private address behind two interfaces and without one, and a public one.
ThePaths == {<<"lan", "eth">>, <<"lan", "none">>, <<"lan", "wifi">>, <<"wan", "eth">>}

\* Three computers in a line, each introduced to the ones next to it.
TheLine == {{1, 2}, {2, 3}}
TheIntroduced == [n \in Computer |-> IF n = 2 THEN {1, 3} ELSE {2}]

\* A peer with more addresses than there are slots, and one with both families.
TheFamilies == <<<<4, 4, 4, 4, 4>>, <<6, 4, 6, 6>>>>

\* TLC evaluates a definition once, but what replaces a constant every time.
MCPeers == {mover, stayer}
MCContact == TheContacts
MCMemberUntil == TheMemberships
MCSighting == TheSightings
MCPath == ThePaths
MCLink == TheLine
MCIntroduced == TheIntroduced
MCFamilies == TheFamilies

-----------------------------------------------------------------------------

directoryVars ==
    <<part, vars, reachVars, routeVars, publicationVars, gossipVars, dialingVars>>

DirectoryInit ==
    /\ part \in {"contacts", "reachability", "routes", "publication", "gossip", "dialing"}
    /\ Init /\ ReachInit /\ RouteInit /\ PublicationInit /\ GossipInit /\ DialingInit

DirectoryNext ==
    /\ UNCHANGED part
    /\ \/ /\ part = "contacts" /\ Next
          /\ UNCHANGED <<reachVars, routeVars, publicationVars, gossipVars, dialingVars>>
       \/ /\ part = "reachability" /\ ReachNext
          /\ UNCHANGED <<vars, routeVars, publicationVars, gossipVars, dialingVars>>
       \/ /\ part = "routes" /\ RouteNext
          /\ UNCHANGED <<vars, reachVars, publicationVars, gossipVars, dialingVars>>
       \/ /\ part = "publication" /\ PublicationNext
          /\ UNCHANGED <<vars, reachVars, routeVars, gossipVars, dialingVars>>
       \/ /\ part = "gossip" /\ GossipNext
          /\ UNCHANGED <<vars, reachVars, routeVars, publicationVars, dialingVars>>
       \/ /\ part = "dialing" /\ DialingNext
          /\ UNCHANGED <<vars, reachVars, routeVars, publicationVars, gossipVars>>

DirectorySpec == DirectoryInit /\ [][DirectoryNext]_directoryVars

=============================================================================
