------------------------------- MODULE Gossip -------------------------------
(***************************************************************************)
(* Contact pages and revocation lists passed between the computers of a    *)
(* hive (crates/supgang/src/sync.rs, service/contact_state.rs and the      *)
(* publication and intake paths of service/local_control.rs and            *)
(* service/live_session.rs).                                               *)
(*                                                                         *)
(* Every computer publishes one page that all its sessions send: its own   *)
(* contact, as many others as fit, and its revocation list.  A cursor      *)
(* moves over the contacts from page to page.  A page is read by a session *)
(* task when it exchanges, and what was received waits in a queue for the  *)
(* service loop, so both ends may have moved on by the time it is applied. *)
(*                                                                         *)
(* A contact is the sequence number of its record.  The hive's root adds   *)
(* one computer at a time to its complete list, so lists are sets ordered  *)
(* by inclusion; LocalState models lists that conflict.                    *)
(***************************************************************************)
EXTENDS Integers, FiniteSets

CONSTANTS
    Computer,    \* node ids, natural numbers
    Root,        \* the one that holds the root key
    Link,        \* pairs of computers that can reach each other
    Introduced,  \* the contacts a computer starts with
    Revocable,   \* members that may be revoked, present or not
    Room,        \* MAX_SYNC_CONTACTS
    MaxIncidents, \* connections lost, contacts expired and contacts signed
    Turn         \* a multiple of every possible number of contacts

ASSUME GossipAssumption ==
    /\ Computer \subseteq Nat \ {0} /\ IsFiniteSet(Computer)
    /\ Root \in Computer /\ Revocable \subseteq Nat \ {0, Root}
    /\ Link \subseteq {p \in SUBSET Computer : Cardinality(p) = 2}
    /\ Room \in Nat \ {0, 1} /\ MaxIncidents \in Nat
    /\ \A n \in 1 .. Cardinality(Computer) : Turn % n = 0

VARIABLES
    running,
    sequence,  \* of each computer's own contact
    contacts,  \* the directory: the sequence of each contact, 0 for none
    denied,    \* the revocation list
    page,      \* what the watch channel holds
    cursor,    \* gossip_cursor, modulo Turn
    sessions,  \* the peers of the active connections
    proved,    \* exchanges of finished session tasks not yet admitted
    arrived,   \* PeerEvent::Contacts not yet processed
    changed,   \* directory_changed, or a contact signed, not yet published
    spent,     \* SyncMutationBudget: the peers, and 0 for the hive, inside an interval
    lap,       \* the contacts carried since the directory last changed
    owed,      \* kept for a property: computers revoked while connected to the root
    incidents

gossipVars == <<running, sequence, contacts, denied, page, cursor, sessions, proved, arrived,
                changed, spent, lap, owed, incidents>>

-----------------------------------------------------------------------------
(* gossip_page *)

Usable(c, known, list) == {p \in Computer : known[p] > 0 /\ p \notin list}

Carries == Room - 1

\* The contacts from the cursor on, in the order of their ids and round the end.
PageWindow(usable, from) ==
    {p \in usable : (Cardinality({q \in usable : q < p}) - from) % Cardinality(usable) < Carries}

\* What encode_bundle writes and decode_bundle reads.
SyncPage(from, known, list) == [from |-> from, contacts |-> known, denied |-> list]

GossipPage(c, known, list) ==
    LET carried == PageWindow(Usable(c, known, list), cursor[c]) IN
    SyncPage(c, [p \in carried \cup {c} |-> IF p = c THEN sequence[c] ELSE known[p]], list)

\* The cursor advances by what a page has room for besides the local contact.
Advanced_Room(usable, from) == IF usable = {} THEN from ELSE (from + Room) % Turn

Advanced(usable, from) == IF usable = {} THEN from ELSE (from + Carries) % Turn

\* The lap is kept for the properties alone.
NextLap(old, usable, carried) ==
    IF old.over = usable
    THEN [over |-> usable, seen |-> old.seen \cup carried,
          pages |-> IF old.pages < Cardinality(usable) THEN old.pages + 1 ELSE old.pages]
    ELSE [over |-> usable, seen |-> carried, pages |-> 1]

Published(c, known, list) ==
    LET usable == Usable(c, known, list) IN
    /\ page' = [page EXCEPT ![c] = GossipPage(c, known, list)]
    /\ cursor' = [cursor EXCEPT ![c] = Advanced(usable, @)]
    /\ lap' = [lap EXCEPT ![c] = NextLap(@, usable, PageWindow(usable, cursor[c]))]

\* publish_gossip_if, at the end of the part of a pass that changed something.
PublishIf(c) ==
    /\ running[c] /\ changed[c]
    /\ Published(c, contacts[c], denied[c])
    /\ changed' = [changed EXCEPT ![c] = FALSE]
    /\ UNCHANGED <<running, sequence, contacts, denied, sessions, proved, arrived, spent, owed, incidents>>

-----------------------------------------------------------------------------
(* Intake *)

\* The sessions of c with the peers in gone end, at both ends.
Closed_Far(old, c, gone) ==
    [d \in Computer |-> IF d \in gone THEN old[d] \ {c} ELSE old[d]]

Closed(old, c, gone) ==
    [d \in Computer |-> IF d = c THEN old[c] \ gone ELSE IF d \in gone THEN old[d] \ {c} ELSE old[d]]

\* Results and events of a session that ended are no longer current.
Dropped(old, c, gone) ==
    [d \in Computer |-> IF d = c THEN {m \in old[c] : m.from \notin gone}
                        ELSE IF d \in gone THEN {m \in old[d] : m.from # c} ELSE old[d]]

\* merge_received_revocations: lists only grow, and a computer that finds
\* itself on one keeps it and stops.
Merged(c, list) == denied[c] \cup list

\* import_page: a newer record of a member that is neither this computer nor
\* revoked.
GossipImported(c, received, list) ==
    [p \in Computer |->
        IF p \in list THEN 0
        ELSE IF p \in DOMAIN received \ {c} /\ received[p] > contacts[c][p] THEN received[p]
        ELSE contacts[c][p]]

StopRevoked(c, list) ==
    /\ denied' = [denied EXCEPT ![c] = list]
    /\ running' = [running EXCEPT ![c] = FALSE]
    /\ sessions' = Closed(sessions, c, Computer)
    /\ proved' = Dropped(proved, c, Computer)
    /\ arrived' = Dropped(arrived, c, Computer)
    /\ changed' = [changed EXCEPT ![c] = FALSE]
    /\ UNCHANGED <<sequence, contacts, page, cursor, spent, lap, owed, incidents>>

BudgetAllows(c, p) == spent[c] \cap {0, p} = {}

\* process_peer_events, PeerEvent::Contacts: the list is merged whatever the
\* budget says; only the contacts wait for it.
Process_Budget(c, m) ==
    LET allowed == BudgetAllows(c, m.from)
        list == IF allowed THEN Merged(c, m.denied) ELSE denied[c]
        gone == list \cap sessions[c]
    IN  /\ running[c] /\ m \in arrived[c]
        /\ denied' = [denied EXCEPT ![c] = list]
        /\ contacts' = [contacts EXCEPT ![c] = GossipImported(c, IF allowed THEN m.contacts ELSE <<>>, list)]
        /\ changed' = [changed EXCEPT ![c] = @ \/ list # denied[c] \/ contacts'[c] # contacts[c]]
        /\ sessions' = Closed(sessions, c, gone)
        /\ proved' = Dropped(proved, c, gone)
        /\ arrived' = [Dropped(arrived, c, gone) EXCEPT ![c] = @ \ {m}]
        /\ spent' = [spent EXCEPT ![c] = IF allowed THEN @ \cup {0, m.from} ELSE @]
        /\ UNCHANGED <<running, sequence, page, cursor, lap, owed, incidents>>

Process(c, m) ==
    LET list == Merged(c, m.denied)
        allowed == BudgetAllows(c, m.from) /\ m.from \notin list
        gone == list \cap sessions[c]
    IN  /\ running[c] /\ m \in arrived[c]
        /\ IF c \in list THEN StopRevoked(c, list) ELSE
           /\ denied' = [denied EXCEPT ![c] = list]
           /\ contacts' = [contacts EXCEPT ![c] = GossipImported(c, IF allowed THEN m.contacts ELSE <<>>, list)]
           /\ changed' = [changed EXCEPT ![c] = @ \/ list # denied[c] \/ contacts'[c] # contacts[c]]
           /\ sessions' = Closed(sessions, c, gone)
           /\ proved' = Dropped(proved, c, gone)
           /\ arrived' = [Dropped(arrived, c, gone) EXCEPT ![c] = @ \ {m}]
           /\ spent' = [spent EXCEPT ![c] = IF allowed THEN @ \cup {0, m.from} ELSE @]
           /\ UNCHANGED <<running, sequence, page, cursor, lap, owed, incidents>>

\* admit_authenticated: the exchange of a new session is applied without the
\* budget, and the page is replaced at once.  A peer revoked meanwhile is
\* turned away before its list is read.
Admit(c, m) ==
    LET list == Merged(c, m.denied)
        known == GossipImported(c, m.contacts, list)
        gone == list \cap (sessions[c] \cup {m.from})
    IN  /\ running[c] /\ m \in proved[c]
        /\ IF m.from \in denied[c]
           THEN /\ sessions' = Closed(sessions, c, {m.from})
                /\ proved' = Dropped(proved, c, {m.from})
                /\ arrived' = Dropped(arrived, c, {m.from})
                /\ UNCHANGED <<running, sequence, contacts, denied, page, cursor, changed, spent, lap, owed, incidents>>
           ELSE IF c \in list THEN StopRevoked(c, list)
           ELSE /\ denied' = [denied EXCEPT ![c] = list]
                /\ contacts' = [contacts EXCEPT ![c] = known]
                /\ sessions' = [Closed(sessions, c, gone) EXCEPT ![c] = @ \cup ({m.from} \ gone)]
                /\ proved' = [Dropped(proved, c, gone) EXCEPT ![c] = @ \ {m}]
                /\ arrived' = Dropped(arrived, c, gone)
                /\ IF m.from \in list THEN UNCHANGED <<page, cursor, lap>> ELSE Published(c, known, list)
                /\ UNCHANGED <<running, sequence, changed, spent, owed, incidents>>

-----------------------------------------------------------------------------
(* Sessions *)

\* A session task proves both ends and exchanges pages, each end with the list
\* and the page its service held when the task started; both services admit
\* the result later.
Connect(a, b) ==
    /\ running[a] /\ running[b] /\ {a, b} \in Link
    /\ b \notin sessions[a] \cup denied[a] /\ a \notin sessions[b] \cup denied[b]
    /\ \A m \in proved[a] : m.from # b
    /\ \A m \in proved[b] : m.from # a
    /\ proved' = [proved EXCEPT ![a] = @ \cup {page[b]}, ![b] = @ \cup {page[a]}]
    /\ UNCHANGED <<running, sequence, contacts, denied, page, cursor, sessions, arrived, changed, spent, lap,
                   owed, incidents>>

\* The actors of a session exchange the pages of that moment.  An actor does
\* not exchange again before the loop took what it received last.
Exchange(a, b) ==
    /\ b \in sessions[a] /\ a \in sessions[b]
    /\ \A m \in arrived[a] : m.from # b
    /\ \A m \in arrived[b] : m.from # a
    /\ arrived' = [arrived EXCEPT ![a] = @ \cup {page[b]}, ![b] = @ \cup {page[a]}]
    /\ UNCHANGED <<running, sequence, contacts, denied, page, cursor, sessions, proved, changed, spent, lap,
                   owed, incidents>>

\* A connection is lost.
Break(a, b) ==
    /\ incidents < MaxIncidents /\ b \in sessions[a] /\ a \in sessions[b]
    /\ sessions' = Closed(sessions, a, {b})
    /\ arrived' = Dropped(arrived, a, {b})
    /\ incidents' = incidents + 1
    /\ UNCHANGED <<running, sequence, contacts, denied, page, cursor, proved, changed, spent, lap, owed>>

\* refresh_contact_if_due signs a newer contact.
RefreshContact(c) ==
    /\ running[c] /\ incidents < MaxIncidents
    /\ sequence' = [sequence EXCEPT ![c] = @ + 1]
    /\ changed' = [changed EXCEPT ![c] = TRUE]
    /\ incidents' = incidents + 1
    /\ UNCHANGED <<running, contacts, denied, page, cursor, sessions, proved, arrived, spent, lap, owed>>

\* A contact nobody renewed is no longer usable.
ContactExpires(c, p) ==
    /\ running[c] /\ incidents < MaxIncidents /\ contacts[c][p] > 0 /\ p \notin sessions[c]
    /\ contacts' = [contacts EXCEPT ![c][p] = 0]
    /\ incidents' = incidents + 1
    /\ UNCHANGED <<running, sequence, denied, page, cursor, sessions, proved, arrived, changed, spent, lap, owed>>

\* An interval of the budget ends: the short one of the hive, or the longer
\* one of a peer.
IntervalEnds(c, p) ==
    /\ p \in spent[c]
    /\ spent' = [spent EXCEPT ![c] = @ \ {0, p}]
    /\ UNCHANGED <<running, sequence, contacts, denied, page, cursor, sessions, proved, arrived, changed, lap, owed, incidents>>

\* revoke_from_control, and the publication after it.
RevokeFromControl(p) ==
    LET list == denied[Root] \cup {p}
        known == GossipImported(Root, <<>>, list)
    IN  /\ p \in Revocable \ denied[Root]
        /\ denied' = [denied EXCEPT ![Root] = list]
        /\ contacts' = [contacts EXCEPT ![Root] = known]
        /\ sessions' = Closed(sessions, Root, {p})
        /\ proved' = Dropped(proved, p, {Root})
        /\ arrived' = Dropped(arrived, Root, {p})
        /\ Published(Root, known, list)
        /\ owed' = owed \cup ({p} \cap sessions[Root])
        /\ UNCHANGED <<running, sequence, changed, spent, incidents>>

GossipInit ==
    /\ running = [c \in Computer |-> TRUE]
    /\ sequence = [c \in Computer |-> 1]
    /\ contacts = [c \in Computer |-> [p \in Computer |-> IF p \in Introduced[c] THEN 1 ELSE 0]]
    /\ denied = [c \in Computer |-> {}]
    /\ cursor = [c \in Computer |-> Advanced(Introduced[c], 0)]
    /\ page = [c \in Computer |->
                   [from |-> c, contacts |-> [p \in PageWindow(Introduced[c], 0) \cup {c} |-> 1], denied |-> {}]]
    /\ sessions = [c \in Computer |-> {}]
    /\ proved = [c \in Computer |-> {}]
    /\ arrived = [c \in Computer |-> {}]
    /\ changed = [c \in Computer |-> FALSE]
    /\ spent = [c \in Computer |-> {}]
    /\ lap = [c \in Computer |-> [over |-> Introduced[c], seen |-> PageWindow(Introduced[c], 0), pages |-> 1]]
    /\ owed = {}
    /\ incidents = 0

GossipNext ==
    \/ \E c \in Computer :
        \/ PublishIf(c)
        \/ RefreshContact(c)
        \/ \E m \in arrived[c] : Process(c, m)
        \/ \E m \in proved[c] : Admit(c, m)
        \/ \E p \in Computer : ContactExpires(c, p)
        \/ \E p \in Computer \cup {0} : IntervalEnds(c, p)
    \/ \E a, b \in Computer : a < b /\ (Connect(a, b) \/ Exchange(a, b) \/ Break(a, b))
    \/ \E p \in Revocable : RevokeFromControl(p)

GossipSpec == GossipInit /\ [][GossipNext]_gossipVars

\* The service loop empties its queues in every pass, sessions exchange at an
\* interval, and members that can reach each other keep dialling.
GossipFairness ==
    /\ \A c \in Computer :
        /\ WF_gossipVars(PublishIf(c))
        /\ \A p \in Computer : {c, p} \in Link =>
            /\ WF_gossipVars(\E m \in arrived[c] : m.from = p /\ Process(c, m))
            /\ WF_gossipVars(\E m \in proved[c] : m.from = p /\ Admit(c, m))
    /\ \A a, b \in Computer : {a, b} \in Link /\ a < b =>
        WF_gossipVars(Connect(a, b)) /\ WF_gossipVars(Exchange(a, b))

GossipFairSpec == GossipSpec /\ GossipFairness

-----------------------------------------------------------------------------
(* Properties *)

\* While the usable contacts stay the same, the pages of one turn of the
\* cursor carry every one of them, wherever the cursor stood when they
\* changed (gossip_page).
GossipRotates ==
    \A c \in Computer : lap[c].pages * Carries >= Cardinality(lap[c].over) => lap[c].seen = lap[c].over

\* Whatever order events, admissions and refreshes came in, the page a
\* session would send next holds the computer's current contact and its
\* whole revocation list, and no contact the list revokes.
PageIsCurrent ==
    \A c \in Computer : running[c] /\ ~changed[c] =>
        /\ page[c].denied = denied[c]
        /\ page[c].contacts[c] = sequence[c]
        /\ DOMAIN page[c].contacts \cap denied[c] = {}

\* Wherever a list arrives from, while sessions are being made and pages are
\* under way: no computer is left with a session to a peer its own list
\* revokes (deauthorize_revoked, admit_authenticated).
RevokedHaveNoSession ==
    \A c \in Computer : running[c] => sessions[c] \cap denied[c] = {}

\* A revocation reaches every computer that is not itself revoked, over
\* exchanges that race with reconnects and with the contact budget.
RevocationReaches ==
    \A p \in Revocable, c \in Computer :
        (p \in denied[Root]) ~> (p \in denied[c] \/ c \in denied[Root])

\* "The authority ... pushes the signed proof over established authenticated
\* links.  A target that receives proof of its own revocation persists it"
\* (README.md): a computer revoked while connected to the root learns of it.
RevokedIsTold == \A p \in Revocable : (p \in owed) ~> (p \in denied[p])

\* One row per computer.
Indexed(f) == f = [c \in Computer |-> f[c]]

GossipTypeOK ==
    /\ running \in [Computer -> BOOLEAN] /\ changed \in [Computer -> BOOLEAN]
    /\ sequence \in [Computer -> Nat] /\ denied \in [Computer -> SUBSET Revocable]
    /\ Indexed(page) /\ Indexed(proved) /\ Indexed(arrived)

\* Why: only members that may be revoked are on any list, under way or kept, and no
\* computer runs on, or ever sent, a list that revokes itself.
ListsAreSound ==
    \A c \in Computer :
        /\ running[c] => c \notin denied[c]
        /\ \A m \in {page[c]} \cup proved[c] \cup arrived[c] : m.denied \subseteq Revocable \ {m.from}

\* A list that arrived is in the next page and over every session.
RevocationsHold == GossipTypeOK /\ ListsAreSound /\ PageIsCurrent /\ RevokedHaveNoSession
=============================================================================
