---------------------------- MODULE IntakeProofs ----------------------------
(***************************************************************************)
(* Proofs about what a computer takes in from its peers: pages and         *)
(* revocation lists (Gossip) and updates (UpdateReceipt).  They hold for   *)
(* any computers and links, any room in a page, any number of streams,     *)
(* authorizations, incidents and restarts.                                 *)
(*                                                                         *)
(* Gossip: every action rewrites the row of one computer and at most takes *)
(* sessions and received pages from the others, so the invariant is        *)
(* stated row by row and each action is proved for its own row.            *)
(*                                                                         *)
(* UpdateReceipt: the invariant has two halves, the order of the queue     *)
(* for admission and who holds permit, file and lock; most actions         *)
(* disturb one of them.                                                    *)
(***************************************************************************)
EXTENDS Gossip, UpdateReceipt, TLAPS

-----------------------------------------------------------------------------
(* Gossip *)

\* The invariant, for one computer.
Fair(m) == m.denied \subseteq Revocable \ {m.from}

Current(c) ==
    /\ page[c].denied = denied[c]
    /\ page[c].contacts[c] = sequence[c]
    /\ DOMAIN page[c].contacts \cap denied[c] = {}

Holds(c) ==
    /\ running[c] => c \notin denied[c] /\ sessions[c] \cap denied[c] = {}
    /\ running[c] /\ ~changed[c] => Current(c)
    /\ Fair(page[c])
    /\ \A m \in proved[c] \cup arrived[c] : Fair(m)

\* What a step leaves of the row of a computer it is not about.
Untouched(c) ==
    /\ running'[c] = running[c] /\ changed'[c] = changed[c] /\ sequence'[c] = sequence[c]
    /\ denied'[c] = denied[c] /\ page'[c] = page[c]
    /\ sessions'[c] \subseteq sessions[c] /\ proved'[c] \subseteq proved[c] /\ arrived'[c] \subseteq arrived[c]

\* The invariant, computer by computer,
LEMMA HoldsIs == RevocationsHold <=> GossipTypeOK /\ \A c \in Computer : Holds(c)
BY DEF RevocationsHold, ListsAreSound, PageIsCurrent, RevokedHaveNoSession, Holds, Fair, Current

\* and in the next state.
LEMMA HoldsNext == RevocationsHold' <=> GossipTypeOK' /\ \A c \in Computer : Holds(c)'
BY DEF RevocationsHold, ListsAreSound, PageIsCurrent, RevokedHaveNoSession, Holds, Fair, Current

\* A row that at most lost sessions and received pages holds as before.
LEMMA UntouchedHolds ==
    ASSUME NEW c \in Computer, Holds(c), Untouched(c)
    PROVE  Holds(c)'
BY DEF Holds, Fair, Current, Untouched

\* A step about one computer.
LEMMA RowHolds ==
    ASSUME RevocationsHold, GossipTypeOK', NEW c \in Computer, Holds(c)',
           \A d \in Computer \ {c} : Untouched(d)
    PROVE  RevocationsHold'
<1>1. \A d \in Computer : Holds(d)'
  BY HoldsIs, UntouchedHolds
<1> QED  BY <1>1, HoldsNext

\* Ending sessions takes from the rows and adds nothing.
LEMMA ClosedIs ==
    ASSUME NEW old, NEW c \in Computer, NEW gone
    PROVE  /\ Closed(old, c, gone)[c] = old[c] \ gone
           /\ \A d \in Computer : Closed(old, c, gone)[d] \subseteq old[d]
BY DEF Closed

\* What dropping a peer leaves of the sessions.
LEMMA DroppedIs ==
    ASSUME NEW old, NEW c, NEW gone
    PROVE  Indexed(Dropped(old, c, gone)) /\ \A d \in Computer : Dropped(old, c, gone)[d] \subseteq old[d]
BY DEF Dropped, Indexed

\* The page that replaces the old one carries the whole list, the own contact
\* as last signed, and no contact the list revokes.
LEMMA PublishedIs ==
    ASSUME Indexed(page), NEW c \in Computer, NEW known, NEW list \in SUBSET Revocable, c \notin list,
           Published(c, known, list)
    PROVE  /\ Indexed(page)' /\ \A d \in Computer \ {c} : page'[d] = page[d]
           /\ page'[c].denied = list /\ page'[c].contacts[c] = sequence[c]
           /\ DOMAIN page'[c].contacts \cap list = {} /\ Fair(page'[c])
<1> DEFINE carried == PageWindow(Usable(c, known, list), cursor[c])
           row == [p \in carried \cup {c} |-> IF p = c THEN sequence[c] ELSE known[p]]
<1>1. carried \cap list = {}
  BY DEF PageWindow, Usable
<1>2. DOMAIN row = carried \cup {c} /\ row[c] = sequence[c]
  OBVIOUS
<1>3. page' = [page EXCEPT ![c] = [from |-> c, contacts |-> row, denied |-> list]]
  BY DEF Published, GossipPage, SyncPage
<1> HIDE DEF row, carried
<1> QED  BY <1>1, <1>2, <1>3 DEF Indexed, Fair

-----------------------------------------------------------------------------
(* The actions *)

\* PublishIf keeps the invariant.
LEMMA PublishIfOK ==
    ASSUME RevocationsHold, NEW c \in Computer, PublishIf(c)
    PROVE  RevocationsHold'
<1>1. /\ GossipTypeOK /\ Holds(c) /\ running[c] /\ Published(c, contacts[c], denied[c])
      /\ changed' = [changed EXCEPT ![c] = FALSE]
      /\ UNCHANGED <<running, sequence, denied, sessions, proved, arrived>>
  BY HoldsIs, Zenon DEF PublishIf
<1>2. /\ Indexed(page)' /\ \A d \in Computer \ {c} : page'[d] = page[d]
      /\ page'[c].denied = denied[c] /\ page'[c].contacts[c] = sequence[c]
      /\ DOMAIN page'[c].contacts \cap denied[c] = {} /\ Fair(page'[c])
  BY <1>1, PublishedIs DEF GossipTypeOK, Holds
<1>3. GossipTypeOK'
  BY <1>1, <1>2, Zenon DEF GossipTypeOK, Indexed
<1>4. Holds(c)'
  BY <1>1, <1>2, Zenon DEF Holds, Fair, Current
<1>5. \A d \in Computer \ {c} : Untouched(d)
  BY <1>1, <1>2 DEF Untouched, GossipTypeOK
<1> QED  BY <1>3, <1>4, <1>5, RowHolds, Zenon

\* A computer that finds itself revoked ends every session and runs no more.
LEMMA StopRevokedOK ==
    ASSUME RevocationsHold, NEW c \in Computer, NEW list \in SUBSET Revocable, StopRevoked(c, list)
    PROVE  RevocationsHold'
<1>1. /\ GossipTypeOK /\ Holds(c)
      /\ denied' = [denied EXCEPT ![c] = list] /\ running' = [running EXCEPT ![c] = FALSE]
      /\ sessions' = Closed(sessions, c, Computer)
      /\ proved' = Dropped(proved, c, Computer) /\ arrived' = Dropped(arrived, c, Computer)
      /\ changed' = [changed EXCEPT ![c] = FALSE] /\ UNCHANGED <<sequence, page>>
  BY HoldsIs DEF StopRevoked
<1>2. /\ Indexed(proved)' /\ Indexed(arrived)'
      /\ \A d \in Computer : /\ sessions'[d] \subseteq sessions[d]
                             /\ proved'[d] \subseteq proved[d] /\ arrived'[d] \subseteq arrived[d]
  BY <1>1, ClosedIs, DroppedIs, Zenon
<1>3. GossipTypeOK'
  BY <1>1, <1>2, Zenon DEF GossipTypeOK, Indexed
<1>4. Holds(c)'
  BY <1>1, <1>2, Zenon DEF Holds, Fair, GossipTypeOK
<1>5. \A d \in Computer \ {c} : Untouched(d)
  BY <1>1, <1>2 DEF Untouched, GossipTypeOK
<1> QED  BY <1>3, <1>4, <1>5, RowHolds

\* A list that arrived ends the sessions it revokes, and is published later
\* because it marked the directory as changed.
LEMMA ProcessOK ==
    ASSUME RevocationsHold, NEW c \in Computer, NEW m \in arrived[c], Process(c, m)
    PROVE  RevocationsHold'
<1> DEFINE list == Merged(c, m.denied)
           gone == list \cap sessions[c]
<1>1. GossipTypeOK /\ Holds(c) /\ list \in SUBSET Revocable /\ denied[c] \subseteq list
  BY HoldsIs, Zenon DEF Holds, Fair, Merged, GossipTypeOK
<1>2. CASE c \in list
  BY <1>1, <1>2, StopRevokedOK DEF Process
<1>3. CASE c \notin list
  <2>1. /\ denied' = [denied EXCEPT ![c] = list]
        /\ changed' = [changed EXCEPT ![c] = @ \/ list # denied[c] \/ contacts'[c] # contacts[c]]
        /\ sessions' = Closed(sessions, c, gone) /\ proved' = Dropped(proved, c, gone)
        /\ arrived' = [Dropped(arrived, c, gone) EXCEPT ![c] = @ \ {m}]
        /\ UNCHANGED <<running, sequence, page>>
    BY <1>3, Zenon DEF Process
  <2>2. /\ Indexed(proved)' /\ Indexed(arrived)' /\ sessions'[c] = sessions[c] \ gone
        /\ \A d \in Computer : /\ sessions'[d] \subseteq sessions[d]
                               /\ proved'[d] \subseteq proved[d] /\ arrived'[d] \subseteq arrived[d]
    <3> DEFINE kept == Dropped(arrived, c, gone)
    <3>1. Indexed(kept) /\ \A d \in Computer : kept[d] \subseteq arrived[d]
      BY DroppedIs, Zenon
    <3>2. arrived' = [kept EXCEPT ![c] = @ \ {m}]
      BY <2>1
    <3> HIDE DEF kept
    <3>3. Indexed(arrived)' /\ \A d \in Computer : arrived'[d] \subseteq arrived[d]
      BY <3>1, <3>2, Zenon DEF Indexed
    <3>4. sessions'[c] = sessions[c] \ gone /\ \A d \in Computer : sessions'[d] \subseteq sessions[d]
      BY <2>1, ClosedIs
    <3>5. Indexed(proved)' /\ \A d \in Computer : proved'[d] \subseteq proved[d]
      BY <2>1, DroppedIs, Zenon
    <3> QED  BY <3>3, <3>4, <3>5, Zenon
  <2>3. sessions'[c] \cap list = {}
    BY <2>2
  <2> HIDE DEF list, gone
  <2>4. GossipTypeOK'
    BY <1>1, <2>1, <2>2, Zenon DEF GossipTypeOK, Indexed
  <2>5. Holds(c)'
    <3>1. denied'[c] = list /\ (~changed'[c] => ~changed[c] /\ list = denied[c])
      BY <1>1, <2>1, Zenon DEF GossipTypeOK
    <3> QED  BY <1>1, <1>3, <2>1, <2>2, <2>3, <3>1, Zenon DEF Holds, Fair, Current
  <2>6. \A d \in Computer \ {c} : Untouched(d)
    BY <1>1, <2>1, <2>2, Zenon DEF Untouched, GossipTypeOK
  <2> QED  BY <2>4, <2>5, <2>6, RowHolds
<1> QED  BY <1>2, <1>3, Zenon

\* A session is admitted under the list as it is at that moment, and the page
\* follows at once: a peer's page never revokes the peer itself, so the early
\* return that would leave the page behind is not taken with a longer list.
LEMMA AdmitOK ==
    ASSUME RevocationsHold, NEW c \in Computer, NEW m \in proved[c], Admit(c, m)
    PROVE  RevocationsHold'
<1> DEFINE list == Merged(c, m.denied)
           gone == list \cap (sessions[c] \cup {m.from})
           known == GossipImported(c, m.contacts, list)
<1>1. /\ GossipTypeOK /\ Holds(c) /\ list \in SUBSET Revocable
      /\ m.from \in list => m.from \in denied[c]
  BY HoldsIs, Zenon DEF Holds, Fair, Merged, GossipTypeOK
<1>2. CASE m.from \in denied[c]
  <2>1. /\ sessions' = Closed(sessions, c, {m.from})
        /\ proved' = Dropped(proved, c, {m.from}) /\ arrived' = Dropped(arrived, c, {m.from})
        /\ UNCHANGED <<running, sequence, denied, page, changed>>
    BY <1>2 DEF Admit
  <2>2. GossipTypeOK' /\ \A d \in Computer : Untouched(d)
    BY <1>1, <2>1, ClosedIs, DroppedIs, Zenon DEF GossipTypeOK, Untouched
  <2> QED  BY <2>2, HoldsIs, UntouchedHolds, HoldsNext, ZenonT(60)
<1>3. CASE m.from \notin denied[c] /\ c \in list
  BY <1>1, <1>3, StopRevokedOK, Zenon DEF Admit
<1>4. CASE m.from \notin denied[c] /\ c \notin list
  <2>1. /\ denied' = [denied EXCEPT ![c] = list]
        /\ sessions' = [Closed(sessions, c, gone) EXCEPT ![c] = @ \cup ({m.from} \ gone)]
        /\ proved' = [Dropped(proved, c, gone) EXCEPT ![c] = @ \ {m}]
        /\ arrived' = Dropped(arrived, c, gone)
        /\ Published(c, known, list) /\ UNCHANGED <<running, sequence, changed>>
    BY <1>1, <1>4, ZenonT(60) DEF Admit
  <2>2. /\ Indexed(page)' /\ \A d \in Computer \ {c} : page'[d] = page[d]
        /\ page'[c].denied = list /\ page'[c].contacts[c] = sequence[c]
        /\ DOMAIN page'[c].contacts \cap list = {} /\ Fair(page'[c])
    BY <1>1, <1>4, <2>1, PublishedIs, SMTT(30) DEF GossipTypeOK
  <2>3. /\ Indexed(proved)' /\ Indexed(arrived)'
        /\ \A d \in Computer : proved'[d] \subseteq proved[d] /\ arrived'[d] \subseteq arrived[d]
    <3> DEFINE kept == Dropped(proved, c, gone)
    <3>1. Indexed(kept) /\ \A d \in Computer : kept[d] \subseteq proved[d]
      BY DroppedIs, Zenon
    <3>2. proved' = [kept EXCEPT ![c] = @ \ {m}]
      BY <2>1, Zenon
    <3> HIDE DEF kept
    <3>3. Indexed(proved)' /\ \A d \in Computer : proved'[d] \subseteq proved[d]
      BY <3>1, <3>2 DEF Indexed
    <3> QED  BY <2>1, <3>3, DroppedIs, Zenon
  <2>4. sessions'[c] \cap list = {} /\ \A d \in Computer \ {c} : sessions'[d] \subseteq sessions[d]
    BY <2>1, Zenon DEF Closed
  <2> HIDE DEF list, gone, known
  <2>5. GossipTypeOK'
    BY <1>1, <2>1, <2>2, <2>3, Zenon DEF GossipTypeOK
  <2>6. Holds(c)'
    <3>1. denied'[c] = list
      BY <1>1, <2>1, Zenon DEF GossipTypeOK
    <3> QED  BY <1>1, <1>4, <2>1, <2>2, <2>3, <2>4, <3>1, Zenon DEF Holds, Fair, Current
  <2>7. \A d \in Computer \ {c} : Untouched(d)
    BY <1>1, <2>1, <2>2, <2>3, <2>4, Zenon DEF Untouched, GossipTypeOK
  <2> QED  BY <2>5, <2>6, <2>7, RowHolds
<1> QED  BY <1>2, <1>3, <1>4, Zenon

\* RefreshContact keeps the invariant.
LEMMA RefreshContactOK ==
    ASSUME RevocationsHold, NEW c \in Computer, RefreshContact(c)
    PROVE  RevocationsHold'
<1>1. /\ GossipTypeOK /\ Holds(c)
      /\ sequence' = [sequence EXCEPT ![c] = @ + 1] /\ changed' = [changed EXCEPT ![c] = TRUE]
      /\ UNCHANGED <<running, denied, page, sessions, proved, arrived>>
  BY HoldsIs, Zenon DEF RefreshContact
<1>2. GossipTypeOK' /\ \A d \in Computer \ {c} : Untouched(d)
  BY <1>1 DEF GossipTypeOK, Untouched, Indexed
<1>3. Holds(c)'
  BY <1>1 DEF Holds, Fair, GossipTypeOK
<1> QED  BY <1>2, <1>3, RowHolds, Zenon

\* Pages under way are pages that were published.
LEMMA ExchangesOK ==
    ASSUME RevocationsHold, NEW a \in Computer, NEW b \in Computer, Connect(a, b) \/ Exchange(a, b)
    PROVE  RevocationsHold'
<1>1. GossipTypeOK /\ \A c \in Computer : Holds(c)
  BY HoldsIs, Zenon
<1>2. UNCHANGED <<running, sequence, denied, page, sessions, changed>>
  BY Zenon DEF Connect, Exchange
<1>3. \/ UNCHANGED arrived /\ proved' = [proved EXCEPT ![a] = @ \cup {page[b]}, ![b] = @ \cup {page[a]}]
      \/ UNCHANGED proved /\ arrived' = [arrived EXCEPT ![a] = @ \cup {page[b]}, ![b] = @ \cup {page[a]}]
  BY Zenon DEF Connect, Exchange
<1>4. GossipTypeOK'
  BY <1>1, <1>2, <1>3, Zenon DEF GossipTypeOK, Indexed
<1>5. ASSUME NEW c \in Computer PROVE Holds(c)'
  <2>1. proved'[c] \cup arrived'[c] \subseteq proved[c] \cup arrived[c] \cup {page[a], page[b]}
    BY <1>1, <1>3 DEF GossipTypeOK, Indexed
  <2> QED  BY <1>1, <1>2, <2>1, Zenon DEF Holds, Fair, Current
<1> QED  BY <1>4, <1>5, HoldsNext

\* A connection breaks.
LEMMA BreakOK ==
    ASSUME RevocationsHold, NEW a \in Computer, NEW b \in Computer, Break(a, b)
    PROVE  RevocationsHold'
<1>1. GossipTypeOK' /\ \A d \in Computer : Untouched(d)
  BY HoldsIs, ClosedIs, DroppedIs, Zenon DEF Break, GossipTypeOK, Untouched
<1> QED  BY <1>1, HoldsIs, UntouchedHolds, HoldsNext, Zenon

\* The root revokes members and never itself, so its own page stays sound.
LEMMA RevokeFromControlOK ==
    ASSUME RevocationsHold, NEW p \in Revocable, RevokeFromControl(p)
    PROVE  RevocationsHold'
<1> DEFINE list == denied[Root] \cup {p}
           known == GossipImported(Root, <<>>, list)
<1>1. GossipTypeOK /\ Holds(Root) /\ list \in SUBSET Revocable /\ Root \in Computer /\ Root \notin list
  BY HoldsIs, GossipAssumption, ZenonT(60) DEF GossipTypeOK
<1>2. /\ denied' = [denied EXCEPT ![Root] = list]
      /\ sessions' = Closed(sessions, Root, {p}) /\ proved' = Dropped(proved, p, {Root})
      /\ arrived' = Dropped(arrived, Root, {p})
      /\ Published(Root, known, list) /\ UNCHANGED <<running, sequence, changed>>
  BY Zenon DEF RevokeFromControl
<1>3. /\ Indexed(page)' /\ \A d \in Computer \ {Root} : page'[d] = page[d]
      /\ page'[Root].denied = list /\ page'[Root].contacts[Root] = sequence[Root]
      /\ DOMAIN page'[Root].contacts \cap list = {} /\ Fair(page'[Root])
  BY <1>1, <1>2, PublishedIs, SMTT(30) DEF GossipTypeOK
<1>4. /\ Indexed(proved)' /\ Indexed(arrived)' /\ sessions'[Root] = sessions[Root] \ {p}
      /\ \A d \in Computer : /\ sessions'[d] \subseteq sessions[d]
                             /\ proved'[d] \subseteq proved[d] /\ arrived'[d] \subseteq arrived[d]
  <2>1. sessions'[Root] = sessions[Root] \ {p} /\ \A d \in Computer : sessions'[d] \subseteq sessions[d]
    <3>1. Root \in Computer /\ sessions' = Closed(sessions, Root, {p})
      BY <1>1, <1>2, Zenon
    <3> QED  BY <3>1, Zenon DEF Closed
  <2>2. Indexed(proved)' /\ \A d \in Computer : proved'[d] \subseteq proved[d]
    BY <1>2, DroppedIs, Zenon
  <2>3. Indexed(arrived)' /\ \A d \in Computer : arrived'[d] \subseteq arrived[d]
    BY <1>2, DroppedIs, ZenonT(60)
  <2> QED  BY <2>1, <2>2, <2>3, Zenon
<1>5. GossipTypeOK' /\ denied'[Root] = list
  BY <1>1, <1>2, <1>3, <1>4 DEF GossipTypeOK
<1>6. Holds(Root)'
  BY <1>1, <1>2, <1>3, <1>4, <1>5, ZenonT(60) DEF Holds, Fair, Current
<1>7. \A d \in Computer \ {Root} : Untouched(d)
  BY <1>1, <1>2, <1>3, <1>4, Zenon DEF Untouched, GossipTypeOK
<1> QED  BY <1>1, <1>5, <1>6, <1>7, RowHolds, Zenon

\* Steps that touch nothing the invariant reads.
LEMMA UnchangedOK ==
    ASSUME RevocationsHold, UNCHANGED <<running, sequence, denied, page, sessions, proved, arrived, changed>>
    PROVE  RevocationsHold'
BY DEF RevocationsHold, GossipTypeOK, Indexed, ListsAreSound, PageIsCurrent, RevokedHaveNoSession

-----------------------------------------------------------------------------

\* The invariant holds initially.
LEMMA RevocationsInit == GossipInit => RevocationsHold
<1> SUFFICES ASSUME GossipInit PROVE RevocationsHold
  BY Zenon
<1>1. GossipTypeOK
  BY Zenon DEF GossipInit, GossipTypeOK, Indexed
<1>2. ASSUME NEW c \in Computer PROVE Holds(c)
  BY Zenon DEF GossipInit, Holds, Fair, Current
<1> QED  BY <1>1, <1>2, HoldsIs

\* Every step keeps the invariant.
LEMMA RevocationsNext == RevocationsHold /\ [GossipNext]_gossipVars => RevocationsHold'
<1> SUFFICES ASSUME RevocationsHold, [GossipNext]_gossipVars PROVE RevocationsHold'
  BY Zenon
<1>1. CASE UNCHANGED gossipVars
  BY <1>1, UnchangedOK, Zenon DEF gossipVars
<1>2. ASSUME NEW c \in Computer,
             \/ PublishIf(c) \/ RefreshContact(c)
             \/ \E m \in arrived[c] : Process(c, m)
             \/ \E m \in proved[c] : Admit(c, m)
      PROVE  RevocationsHold'
  BY <1>2, PublishIfOK, RefreshContactOK, ProcessOK, AdmitOK, Zenon
<1>3. ASSUME NEW c, NEW p, ContactExpires(c, p) \/ IntervalEnds(c, p) PROVE RevocationsHold'
  BY <1>3, UnchangedOK, Zenon DEF ContactExpires, IntervalEnds
<1>4. ASSUME NEW a \in Computer, NEW b \in Computer, Connect(a, b) \/ Exchange(a, b) \/ Break(a, b)
      PROVE  RevocationsHold'
  BY <1>4, ExchangesOK, BreakOK, Zenon
<1>5. ASSUME NEW p \in Revocable, RevokeFromControl(p) PROVE RevocationsHold'
  BY <1>5, RevokeFromControlOK
<1> QED  BY <1>1, <1>2, <1>3, <1>4, <1>5, Zenon DEF GossipNext

\* However exchanges, admissions, refreshes, lost connections and revocations
\* interleave, the page a running computer would send next holds its whole
\* revocation list and its own contact as last signed, and it has no session
\* with a peer its list revokes (publish_gossip_if, process_peer_events,
\* admit_authenticated, revoke_from_control).
THEOREM RevocationsAlwaysHold == GossipSpec => []RevocationsHold
BY RevocationsInit, RevocationsNext, PTL DEF GossipSpec

-----------------------------------------------------------------------------
(* UpdateReceipt *)

ReceiptStates ==
    {"new", "admission", "length", "body", "verifying", "detached", "accepted", "rejected", "retry", "gone"}

\* What a handler's row keeps when only its place moves.
LEMMA MovesIs ==
    ASSUME ReceiptTypeOK, NEW s \in Stream, NEW at \in ReceiptStates, Moves(s, at)
    PROVE  /\ handler' \in [Stream -> [at : ReceiptStates, auth : Permission \cup {NoStream}, now : Nat]]
           /\ handler'[s].at = at
           /\ \A t \in Stream : handler'[t].auth = handler[t].auth /\ handler'[t].now = handler[t].now
           /\ \A t \in Stream \ {s} : handler'[t] = handler[t]
BY ZenonT(60) DEF ReceiptTypeOK, Moves, ReceiptStates

\* Leaving the queue removes one place and keeps the order of the others.
LEMMA WithoutIs ==
    ASSUME NEW queue \in Seq(Stream), NEW s
    PROVE  /\ Without(queue, s) \in Seq(Stream)
           /\ \/ Without(queue, s) = queue /\ \A i \in DOMAIN queue : queue[i] # s
              \/ \E place \in DOMAIN queue :
                    /\ queue[place] = s
                    /\ Without(queue, s) = [i \in 1 .. Len(queue) - 1 |->
                                              IF i < place THEN queue[i] ELSE queue[i + 1]]
<1>1. CASE \A i \in DOMAIN queue : queue[i] # s
  BY <1>1 DEF Without
<1>2. CASE \E i \in DOMAIN queue : queue[i] = s
  <2> DEFINE place == CHOOSE i \in DOMAIN queue : queue[i] = s
             rest == [i \in 1 .. Len(queue) - 1 |-> IF i < place THEN queue[i] ELSE queue[i + 1]]
  <2>1. place \in DOMAIN queue /\ queue[place] = s
    BY <1>2, Zenon
  <2>2. Without(queue, s) = rest
    BY <1>2 DEF Without
  <2> HIDE DEF place
  <2>3. rest \in Seq(Stream)
    <3>1. Len(queue) \in Nat /\ DOMAIN queue = 1 .. Len(queue) /\ \A i \in 1 .. Len(queue) : queue[i] \in Stream
      OBVIOUS
    <3>2. Len(queue) - 1 \in Nat
      BY <2>1, <3>1
    <3>3. \A i \in 1 .. Len(queue) - 1 : rest[i] \in Stream
      BY <2>1, <3>1
    <3>4. rest \in [1 .. Len(queue) - 1 -> Stream]
      BY <3>3
    <3> QED  BY <3>2, <3>4
  <2> QED  BY <2>1, <2>2, <2>3
<1> QED  BY <1>1, <1>2

\* The queue's order, for a queue and the rows of its streams.
Ordered(queue, rows) ==
    /\ \A i \in DOMAIN queue : LET h == rows[queue[i]] IN
          h.at = "admission" /\ h.now =< clock /\ h.auth \in Permission /\ h.now =< ExpiresAt[h.auth]
    /\ \A i, j \in DOMAIN queue : i < j =>
          queue[i] # queue[j] /\ rows[queue[i]].now =< rows[queue[j]].now

\* Used, and over for a queue.
Spent(a, queue, rows) ==
    /\ ExpiresAt[a] < clock
    /\ \A i \in DOMAIN queue : ExpiresAt[a] < rows[queue[i]].now

\* The order of the queue, in this state
LEMMA QueueIs == QueueIsOrdered <=>
    /\ Ordered(admission, handler)
    /\ \A a \in Permission : admitted[a] = 0 \/ a \in ledger \/ Spent(a, admission, handler)
BY DEF QueueIsOrdered, Ordered, Spent

\* and in the next one.
LEMMA QueueNext == QueueIsOrdered' <=>
    /\ Ordered(admission, handler)'
    /\ \A a \in Permission : admitted'[a] = 0 \/ a \in ledger' \/ Spent(a, admission, handler)'
BY Zenon DEF QueueIsOrdered, Ordered, Spent

\* Part of a queue in the same order is as good as the queue.
LEMMA WithoutOrdered ==
    ASSUME NEW queue \in Seq(Stream), NEW s, NEW rows, Ordered(queue, rows)
    PROVE  /\ Ordered(Without(queue, s), rows)
           /\ \A i \in DOMAIN Without(queue, s) : Without(queue, s)[i] # s
           /\ \A a : Spent(a, queue, rows) => Spent(a, Without(queue, s), rows)
<1> DEFINE rest == Without(queue, s)
<1>1. CASE rest = queue /\ \A i \in DOMAIN queue : queue[i] # s
  BY <1>1, Zenon
<1>2. ASSUME NEW place \in DOMAIN queue, queue[place] = s,
             rest = [i \in 1 .. Len(queue) - 1 |-> IF i < place THEN queue[i] ELSE queue[i + 1]]
      PROVE  /\ Ordered(rest, rows) /\ \A i \in DOMAIN rest : rest[i] # s
             /\ \A a : Spent(a, queue, rows) => Spent(a, rest, rows)
  <2> DEFINE from(i) == IF i < place THEN i ELSE i + 1
  <2>1. /\ \A i \in DOMAIN rest : from(i) \in DOMAIN queue /\ from(i) # place /\ rest[i] = queue[from(i)]
        /\ \A i, j \in DOMAIN rest : i < j => from(i) < from(j)
    BY <1>2
  <2> HIDE DEF rest, from
  <2>2. Ordered(rest, rows)
    BY <2>1 DEF Ordered
  <2>3. \A i \in DOMAIN queue : i # place => queue[i] # s
    BY <1>2 DEF Ordered
  <2>4. \A i \in DOMAIN rest : rest[i] # s
    BY <2>1, <2>3, Zenon
  <2>5. \A a : Spent(a, queue, rows) => Spent(a, rest, rows)
    BY <2>1, Zenon DEF Spent
  <2> QED  BY <2>2, <2>4, <2>5, Zenon
<1> HIDE DEF rest
<1>3. \/ rest = queue /\ \A i \in DOMAIN queue : queue[i] # s
      \/ \E place \in DOMAIN queue :
            /\ queue[place] = s
            /\ rest = [i \in 1 .. Len(queue) - 1 |-> IF i < place THEN queue[i] ELSE queue[i + 1]]
  BY WithoutIs DEF rest
<1> QED  BY <1>1, <1>2, <1>3, Zenon DEF rest

-----------------------------------------------------------------------------
(* The two halves of the invariant: who may be admitted, and who holds what *)

Queue == QueueIsOrdered /\ AuthorizationUsedOnce
Place == IncomingFileKept /\ VerificationIsLocked /\ PermitIsHeld

\* The invariant in its two parts, in this state
LEMMA ReceiptIs == ReceiptIsSafe <=> ReceiptTypeOK /\ Queue /\ Place
BY DEF ReceiptIsSafe, Queue, Place

\* and in the next one.
LEMMA ReceiptNextIs == ReceiptIsSafe' <=> ReceiptTypeOK' /\ Queue' /\ Place'
BY ZenonT(60) DEF ReceiptIsSafe, Queue, Place

\* Nothing about the streams that wait changes.
LEMMA QueueKept ==
    ASSUME ReceiptTypeOK, Queue, UNCHANGED <<admission, ledger, admitted, clock>>,
           \A t \in Stream : handler[t].at = "admission" => handler'[t] = handler[t]
    PROVE  Queue'
<1>1. /\ \A i \in DOMAIN admission : admission[i] \in Stream
      /\ \A i \in DOMAIN admission : handler[admission[i]].at = "admission"
  BY SMTT(30) DEF ReceiptTypeOK, Queue, QueueIsOrdered
<1>2. \A i \in DOMAIN admission : handler'[admission[i]] = handler[admission[i]]
  BY <1>1, Zenon
<1> QED  BY <1>2 DEF Queue, QueueIsOrdered, AuthorizationUsedOnce

\* A stream leaves the queue.
LEMMA QueueLeft ==
    ASSUME ReceiptTypeOK, Queue, NEW s \in Stream, UNCHANGED <<ledger, admitted, clock>>,
           admission' = Without(admission, s), \A t \in Stream \ {s} : handler'[t] = handler[t]
    PROVE  Queue' /\ admission' \in Seq(Stream)
<1> DEFINE rest == Without(admission, s)
<1>1. admission \in Seq(Stream) /\ Ordered(admission, handler)
  BY QueueIs, Zenon DEF ReceiptTypeOK, Queue
<1>2. rest \in Seq(Stream)
  BY <1>1, WithoutIs, Zenon
<1>3. /\ Ordered(rest, handler) /\ \A i \in DOMAIN rest : rest[i] # s
      /\ \A a : Spent(a, admission, handler) => Spent(a, rest, handler)
  BY <1>1, WithoutOrdered, ZenonT(60)
<1> HIDE DEF rest
<1>4. admission' = rest /\ \A i \in DOMAIN rest : handler'[rest[i]] = handler[rest[i]]
  BY <1>2, <1>3, SMTT(30) DEF rest
<1>5. Ordered(admission, handler)'
  BY <1>3, <1>4, SMTT(30) DEF Ordered
<1>6. \A a \in Permission : Spent(a, rest, handler) => Spent(a, admission, handler)'
  BY <1>4, Zenon DEF Spent
<1>7. \A a \in Permission : admitted[a] = 0 \/ a \in ledger \/ Spent(a, admission, handler)
  BY QueueIs, Zenon DEF Queue
<1> QED  BY <1>2, <1>3, <1>4, <1>5, <1>6, <1>7, QueueNext, Zenon DEF Queue, AuthorizationUsedOnce

\* The handler of a stream ends: it gives back what it held.
LEMMA PlaceLeft ==
    ASSUME Place, NEW s \in Stream, \A t \in Stream \ {s} : handler'[t] = handler[t],
           handler'[s].at \notin {"length", "body", "verifying", "detached"},
           \/ permit' = permit
           \/ permit' = (IF permit = s THEN NoStream ELSE permit),
           inbox \ {s} \subseteq inbox',
           \/ locked' = locked
           \/ locked = s
    PROVE  Place'
<1>1. ASSUME NEW t \in Stream, handler'[t].at \in {"length", "body", "verifying", "detached"}
      PROVE  t # s /\ handler'[t] = handler[t]
  BY <1>1, Zenon
<1>2. IncomingFileKept'
  BY <1>1, Zenon DEF Place, IncomingFileKept
<1>3. VerificationIsLocked'
  BY <1>1, Zenon DEF Place, VerificationIsLocked
<1>4. PermitIsHeld'
  BY <1>1, Zenon DEF Place, PermitIsHeld
<1> QED  BY <1>2, <1>3, <1>4, Zenon DEF Place

\* A handler that moves before or after admission leaves the permit where it is.
LEMMA PlaceKept ==
    ASSUME Place, UNCHANGED <<permit, inbox>>,
           \A t \in Stream : \/ handler'[t] = handler[t]
                             \/ handler'[t].at \notin {"length", "body", "verifying", "detached"},
           locked' = locked \/ locked \notin Stream
    PROVE  Place'
BY Zenon DEF Place, IncomingFileKept, VerificationIsLocked, PermitIsHeld

-----------------------------------------------------------------------------
(* The actions *)

\* Preface keeps the invariant.
LEMMA PrefaceOK ==
    ASSUME ReceiptIsSafe, NEW s \in Stream, NEW a \in Permission, Preface(s, a)
    PROVE  ReceiptIsSafe'
<1>1. /\ ReceiptTypeOK /\ Queue /\ Place /\ handler[s].at = "new"
      /\ UNCHANGED <<clock, permit, locked, ledger, inbox, entitled, admitted, stops>>
  BY ReceiptIs, Zenon DEF Preface, Waits
<1>2. CASE \E at \in {"retry", "rejected"} : Moves(s, at) /\ UNCHANGED admission
  <2>1. /\ handler' \in [Stream -> [at : ReceiptStates, auth : Permission \cup {NoStream}, now : Nat]]
        /\ handler'[s].at \in {"retry", "rejected"} /\ \A t \in Stream \ {s} : handler'[t] = handler[t]
    BY <1>1, <1>2, MovesIs, Zenon DEF ReceiptStates
  <2>2. ReceiptTypeOK'
    BY <1>1, <1>2, <2>1, Zenon DEF ReceiptTypeOK, ReceiptStates
  <2>3. Queue'
    BY <1>1, <1>2, <2>1, QueueKept, Zenon
  <2>4. Place'
    BY <1>1, <2>1, PlaceKept, Zenon
  <2> QED  BY <2>2, <2>3, <2>4, ReceiptNextIs, Zenon
<1>3. CASE /\ Verifies(a, clock)
           /\ handler' = [handler EXCEPT ![s] = [at |-> "admission", auth |-> a, now |-> clock]]
           /\ admission' = Append(admission, s)
  <2>1. /\ handler'[s] = [at |-> "admission", auth |-> a, now |-> clock]
        /\ \A t \in Stream \ {s} : handler'[t] = handler[t]
    BY <1>1, <1>3, Zenon DEF ReceiptTypeOK
  <2>2. ReceiptTypeOK'
    BY <1>1, <1>3 DEF ReceiptTypeOK
  <2>3. Place'
    BY <1>1, <2>1, PlaceKept
  <2> DEFINE n == Len(admission)
  <2>4. /\ n \in Nat /\ DOMAIN admission = 1 .. n /\ DOMAIN admission' = 1 .. n + 1 /\ admission'[n + 1] = s
        /\ \A i \in 1 .. n : admission'[i] = admission[i] /\ admission[i] \in Stream
    BY <1>1, <1>3 DEF ReceiptTypeOK
  <2>5. \A i \in 1 .. n : handler[admission[i]].at = "admission" /\ handler[admission[i]].now =< clock
    BY <1>1, <2>4, Zenon DEF Queue, QueueIsOrdered
  <2>6. \A i \in 1 .. n : admission[i] # s /\ handler'[admission'[i]] = handler[admission[i]]
    BY <1>1, <2>1, <2>4, <2>5, ZenonT(60)
  <2>7. handler'[s].at = "admission" /\ handler'[s].auth = a /\ handler'[s].now = clock /\ clock \in Nat
    BY <1>1, <2>1, SMTT(30) DEF ReceiptTypeOK
  <2> HIDE DEF n
  <2>8. Ordered(admission, handler)'
    <3>1. ASSUME NEW i \in 1 .. n + 1
          PROVE  LET h == handler'[admission'[i]] IN
                 h.at = "admission" /\ h.now =< clock' /\ h.auth \in Permission /\ h.now =< ExpiresAt[h.auth]
      <4>1. CASE i \in 1 .. n
        BY <1>1, <2>4, <2>6, <4>1, SMTT(30) DEF Queue, QueueIsOrdered
      <4>2. CASE i = n + 1
        BY <1>1, <1>3, <2>4, <2>7, <4>2 DEF Verifies
      <4> QED  BY <2>4, <4>1, <4>2
    <3>2. ASSUME NEW i \in 1 .. n + 1, NEW j \in 1 .. n + 1, i < j
          PROVE  admission'[i] # admission'[j] /\ handler'[admission'[i]].now =< handler'[admission'[j]].now
      <4>1. i \in 1 .. n
        BY <2>4, <3>2, SMTT(30)
      <4>2. CASE j \in 1 .. n
        BY <1>1, <2>4, <2>6, <3>2, <4>1, <4>2, SMTT(30) DEF Queue, QueueIsOrdered
      <4>3. CASE j = n + 1
        BY <2>4, <2>5, <2>6, <2>7, <4>1, <4>3, Zenon
      <4> QED  BY <2>4, <4>2, <4>3
    <3> QED  BY <2>4, <3>1, <3>2, Zenon DEF Ordered
  <2>9. ASSUME NEW b \in Permission, Spent(b, admission, handler) PROVE Spent(b, admission, handler)'
    <3>1. ASSUME NEW i \in 1 .. n + 1 PROVE ExpiresAt[b] < handler'[admission'[i]].now
      <4>1. CASE i \in 1 .. n
        BY <2>4, <2>6, <2>9, <4>1, Zenon DEF Spent
      <4>2. CASE i = n + 1
        BY <2>4, <2>7, <2>9, <4>2, Zenon DEF Spent
      <4> QED  BY <2>4, <4>1, <4>2
    <3> QED  BY <1>1, <2>4, <2>9, <3>1, Zenon DEF Spent
  <2>10. Queue'
    BY <1>1, <2>8, <2>9, QueueIs, QueueNext, Zenon DEF Queue, AuthorizationUsedOnce
  <2> QED  BY <2>2, <2>3, <2>10, ReceiptNextIs, Zenon
<1> QED  BY <1>2, <1>3, Zenon DEF Preface

\* The head of the queue is admitted or answered.  A record is dropped only
\* when it is over for the head, and then for everyone behind it.
LEMMA ReserveOK ==
    ASSUME ReceiptIsSafe, NEW s \in Stream, Reserve(s)
    PROVE  ReceiptIsSafe'
<1> DEFINE auth == handler[s].auth
           kept == Retained(handler[s].now)
           n == Len(admission)
<1>1. /\ ReceiptTypeOK /\ Queue /\ Place /\ admission # <<>> /\ Head(admission) = s
      /\ permit = NoStream /\ admission' = Tail(admission)
      /\ UNCHANGED <<clock, locked, inbox, entitled, stops>>
  BY ReceiptIs, Zenon DEF Reserve
<1>2. /\ n \in Nat \ {0} /\ DOMAIN admission = 1 .. n /\ admission[1] = s
      /\ DOMAIN admission' = 1 .. n - 1 /\ admission' \in Seq(Stream)
      /\ \A i \in 1 .. n - 1 : admission'[i] = admission[i + 1] /\ i + 1 \in 1 .. n
      /\ \A i \in 1 .. n : admission[i] \in Stream
  BY <1>1 DEF ReceiptTypeOK
<1> HIDE DEF n
<1>3. /\ handler[s].at = "admission" /\ handler[s].now =< clock /\ auth \in Permission
      /\ handler[s].now =< ExpiresAt[auth] /\ handler[s].now \in Nat
      /\ \A i \in 1 .. n - 1 : admission'[i] # s /\ handler[s].now =< handler[admission'[i]].now
  <2>1. 1 \in 1 .. n /\ \A i \in 1 .. n - 1 : 1 < i + 1
    BY <1>2
  <2>2. /\ handler[s].at = "admission" /\ handler[s].now =< clock /\ auth \in Permission
        /\ handler[s].now =< ExpiresAt[auth]
    BY <1>1, <1>2, <2>1, ZenonT(60) DEF Queue, QueueIsOrdered
  <2>3. ASSUME NEW i \in 1 .. n - 1 PROVE admission'[i] # s /\ handler[s].now =< handler[admission'[i]].now
    <3>1. i + 1 \in 1 .. n /\ 1 < i + 1 /\ admission'[i] = admission[i + 1]
      BY <1>2, <2>1, Zenon
    <3> QED  BY <1>1, <1>2, <2>1, <3>1, ZenonT(60) DEF Queue, QueueIsOrdered
  <2>4. handler[s].now \in Nat
    BY <1>1, Zenon DEF ReceiptTypeOK
  <2> QED  BY <2>2, <2>3, <2>4, Zenon
<1>4. /\ \E at \in ReceiptStates : Moves(s, at)
      /\ \/ /\ handler'[s].at \notin {"length", "body", "verifying", "detached"}
            /\ UNCHANGED <<permit, ledger, admitted>>
         \/ /\ locked = NoStream /\ auth \notin kept /\ handler'[s].at = "length" /\ permit' = s
            /\ ledger' = kept \cup {auth} /\ admitted' = [admitted EXCEPT ![auth] = @ + 1]
  <2>1. ASSUME NEW at \in ReceiptStates, Moves(s, at) PROVE handler'[s].at = at
    BY <1>1, <2>1, MovesIs, Zenon
  <2>2. {"rejected", "retry", "length"} \subseteq ReceiptStates
    BY Zenon DEF ReceiptStates
  <2> QED  BY <2>1, <2>2, Zenon DEF Reserve
<1>5. /\ handler' \in [Stream -> [at : ReceiptStates, auth : Permission \cup {NoStream}, now : Nat]]
      /\ \A t \in Stream \ {s} : handler'[t] = handler[t]
  BY <1>1, <1>4, MovesIs, Zenon
<1>6. \A i \in 1 .. n - 1 : handler'[admission'[i]] = handler[admission[i + 1]]
  BY <1>2, <1>3, <1>5, ZenonT(60)
<1> HIDE DEF auth, kept
<1>7. Ordered(admission, handler)'
  <2>1. \A i \in 1 .. n - 1 : LET h == handler'[admission'[i]] IN
            h.at = "admission" /\ h.now =< clock' /\ h.auth \in Permission /\ h.now =< ExpiresAt[h.auth]
    BY <1>1, <1>2, <1>6, SMTT(30) DEF Queue, QueueIsOrdered
  <2>2. ASSUME NEW i \in 1 .. n - 1, NEW j \in 1 .. n - 1, i < j
        PROVE  admission'[i] # admission'[j] /\ handler'[admission'[i]].now =< handler'[admission'[j]].now
    <3>1. i + 1 < j + 1 /\ i + 1 \in 1 .. n /\ j + 1 \in 1 .. n
      BY <1>2, <2>2
    <3>2. /\ admission[i + 1] # admission[j + 1]
          /\ handler[admission[i + 1]].now =< handler[admission[j + 1]].now
      BY <1>1, <1>2, <3>1, SMTT(30) DEF Queue, QueueIsOrdered
    <3>3. /\ admission'[i] = admission[i + 1] /\ handler'[admission'[i]] = handler[admission[i + 1]]
          /\ admission'[j] = admission[j + 1] /\ handler'[admission'[j]] = handler[admission[j + 1]]
      BY <1>2, <1>6, Zenon
    <3> QED  BY <3>2, <3>3, Zenon
  <2> QED  BY <1>2, <2>1, <2>2, Zenon DEF Ordered
<1>8. ASSUME NEW a \in Permission, Spent(a, admission, handler) PROVE Spent(a, admission, handler)'
  BY <1>1, <1>2, <1>6, <1>8, ZenonT(60) DEF Spent
<1>9. ASSUME NEW a \in Permission, a \in ledger \ kept PROVE Spent(a, admission, handler)'
  <2>1. ExpiresAt[a] < handler[s].now
    <3>1. ExpiresAt[a] \in Nat /\ ~(ExpiresAt[a] >= handler[s].now)
      BY <1>9, ReceiptAssumption, Zenon DEF kept, Retained
    <3> QED  BY <1>3, <3>1
  <2>2. ExpiresAt[a] \in Nat /\ clock \in Nat /\ \A t \in Stream : handler[t].now \in Nat
    BY <1>1, ReceiptAssumption, ZenonT(60) DEF ReceiptTypeOK
  <2>3. ASSUME NEW i \in 1 .. n - 1 PROVE ExpiresAt[a] < handler'[admission'[i]].now
    <3>1. /\ handler'[admission'[i]] = handler[admission'[i]]
          /\ handler[s].now =< handler[admission'[i]].now
      BY <1>2, <1>3, <1>6, Zenon
    <3>2. handler[s].now \in Nat /\ handler[admission'[i]].now \in Nat BY <1>2, <1>3, <2>2, Zenon
    <3> QED  BY <2>1, <2>2, <3>1, <3>2
  <2> QED  BY <1>1, <1>2, <1>3, <2>1, <2>2, <2>3, SMTT(30) DEF Spent
<1>10. CASE /\ handler'[s].at \notin {"length", "body", "verifying", "detached"}
            /\ UNCHANGED <<permit, ledger, admitted>>
  <2>1. ReceiptTypeOK'
    BY <1>1, <1>2, <1>5, <1>10 DEF ReceiptTypeOK, ReceiptStates
  <2>2. Queue'
    BY <1>1, <1>7, <1>8, <1>10, QueueIs, QueueNext, Zenon DEF Queue, AuthorizationUsedOnce
  <2>3. Place'
    BY <1>1, <1>5, <1>10, PlaceLeft, ZenonT(60)
  <2> QED  BY <2>1, <2>2, <2>3, ReceiptNextIs
<1>11. CASE /\ locked = NoStream /\ auth \notin kept /\ handler'[s].at = "length" /\ permit' = s
            /\ ledger' = kept \cup {auth} /\ admitted' = [admitted EXCEPT ![auth] = @ + 1]
  <2>1. ReceiptTypeOK'
    BY <1>1, <1>2, <1>3, <1>5, <1>11, SMTT(30) DEF ReceiptTypeOK, ReceiptStates, kept, Retained
  <2>2. admitted[auth] = 0
    <3>1. auth \in ledger => auth \in kept
      BY <1>3, ReceiptAssumption, Zenon DEF kept, Retained, auth
    <3>2. ~Spent(auth, admission, handler)
      <4>1. ASSUME Spent(auth, admission, handler) PROVE FALSE
        <5>1. ExpiresAt[auth] < handler[s].now
          BY <1>2, <4>1, SMTT(30) DEF Spent
        <5> QED  BY <1>3, <5>1, ReceiptAssumption
      <4> QED  BY <4>1, ZenonT(60)
    <3> QED  BY <1>1, <1>3, <1>11, <3>1, <3>2, QueueIs, Zenon DEF Queue
  <2>3. /\ admitted'[auth] = 1 /\ auth \in ledger'
        /\ \A a \in Permission \ {auth} : admitted'[a] = admitted[a]
    BY <1>1, <1>3, <1>11, <2>2 DEF ReceiptTypeOK
  <2>4. Queue'
    <3>1. ASSUME NEW a \in Permission
          PROVE  admitted'[a] = 0 \/ a \in ledger' \/ Spent(a, admission, handler)'
      <4>1. admitted[a] = 0 \/ a \in ledger \/ Spent(a, admission, handler)
        BY <1>1, QueueIs, ZenonT(60) DEF Queue
      <4> QED  BY <1>8, <1>9, <1>11, <2>3, <4>1, Zenon
    <3>2. AuthorizationUsedOnce'
      BY <1>1, <2>3, SMTT(30) DEF Queue, AuthorizationUsedOnce
    <3> QED  BY <1>7, <3>1, <3>2, QueueNext, Zenon DEF Queue
  <2>5. Place'
    <3>1. \A t \in Stream : handler[t].at \notin {"length", "body", "verifying", "detached"}
      BY <1>1, <1>11, ReceiptAssumption, Zenon DEF Place, PermitIsHeld, VerificationIsLocked
    <3>2. \A t \in Stream : handler'[t].at \in {"length", "body", "verifying", "detached"} =>
             t = s /\ handler'[t].at = "length"
      BY <1>5, <1>11, <3>1, Zenon
    <3> QED  BY <1>11, <3>2, Zenon DEF Place, IncomingFileKept, VerificationIsLocked, PermitIsHeld
  <2> QED  BY <2>1, <2>4, <2>5, ReceiptNextIs
<1> QED  BY <1>4, <1>10, <1>11, Zenon

\* A handler leaves the queue without being admitted.
LEMMA AdmissionTimesOutOK ==
    ASSUME ReceiptIsSafe, NEW s \in Stream, AdmissionTimesOut(s)
    PROVE  ReceiptIsSafe'
<1>1. /\ ReceiptTypeOK /\ Queue /\ Place /\ admission' = Without(admission, s) /\ Moves(s, "retry")
      /\ UNCHANGED <<clock, permit, locked, ledger, inbox, entitled, admitted, stops>>
  BY ReceiptIs, Zenon DEF AdmissionTimesOut
<1>2. /\ handler' \in [Stream -> [at : ReceiptStates, auth : Permission \cup {NoStream}, now : Nat]]
      /\ handler'[s].at = "retry" /\ \A t \in Stream \ {s} : handler'[t] = handler[t]
  BY <1>1, MovesIs, Zenon DEF ReceiptStates
<1>3. Queue' /\ admission' \in Seq(Stream)
  BY <1>1, <1>2, QueueLeft, Zenon
<1>4. ReceiptTypeOK'
  BY <1>1, <1>2, <1>3, Zenon DEF ReceiptTypeOK, ReceiptStates
<1>5. Place'
  BY <1>1, <1>2, PlaceLeft, Zenon
<1> QED  BY <1>3, <1>4, <1>5, ReceiptNextIs, Zenon

\* A handler past admission answers.
LEMMA AnswersOK ==
    ASSUME ReceiptIsSafe, NEW s \in Stream, NEW reply \in {"accepted", "rejected", "retry"},
           handler[s].at \in {"length", "body", "verifying", "detached"}, Answers(s, reply),
           \/ locked' = locked
           \/ locked = s,
           UNCHANGED <<clock, admission, ledger, admitted>>
    PROVE  ReceiptIsSafe'
<1>1. /\ ReceiptTypeOK /\ Queue /\ Place /\ Moves(s, reply)
      /\ permit' = (IF permit = s THEN NoStream ELSE permit) /\ inbox' = inbox \ {s}
  BY ReceiptIs, Zenon DEF Answers
<1>2. /\ handler' \in [Stream -> [at : ReceiptStates, auth : Permission \cup {NoStream}, now : Nat]]
      /\ handler'[s].at = reply /\ \A t \in Stream \ {s} : handler'[t] = handler[t]
  BY <1>1, MovesIs, Zenon DEF ReceiptStates
<1>3. ReceiptTypeOK'
  BY <1>1, <1>2, Zenon DEF ReceiptTypeOK, ReceiptStates
<1>4. Queue'
  BY <1>1, <1>2, QueueKept, Zenon
<1>5. Place'
  <2>1. handler'[s].at \notin {"length", "body", "verifying", "detached"}
    BY <1>2, Zenon
  <2> QED  BY <1>1, <1>2, <2>1, PlaceLeft, Zenon
<1> QED  BY <1>3, <1>4, <1>5, ReceiptNextIs, Zenon

\* The file of a stream is cleared by the only holder of the permit, when no
\* verification is left over.
LEMMA OpenIncomingOK ==
    ASSUME ReceiptIsSafe, NEW s \in Stream, OpenIncoming(s)
    PROVE  ReceiptIsSafe'
<1>1. /\ ReceiptTypeOK /\ Queue /\ Place /\ handler[s].at = "length"
      /\ UNCHANGED <<clock, admission, locked, ledger, entitled, admitted, stops>>
  BY ReceiptIs, Zenon DEF OpenIncoming, Waits
<1>2. CASE \E reply \in {"rejected", "retry"} : Answers(s, reply)
  BY <1>1, <1>2, AnswersOK, Zenon
<1>3. CASE inbox' = {s} /\ Moves(s, "body") /\ UNCHANGED permit
  <2>1. /\ handler' \in [Stream -> [at : ReceiptStates, auth : Permission \cup {NoStream}, now : Nat]]
        /\ handler'[s].at = "body" /\ \A t \in Stream \ {s} : handler'[t] = handler[t]
    BY <1>1, <1>3, MovesIs, Zenon DEF ReceiptStates
  <2>2. ReceiptTypeOK'
    BY <1>1, <1>3, <2>1, Zenon DEF ReceiptTypeOK, ReceiptStates
  <2>3. Queue'
    BY <1>1, <2>1, QueueKept, Zenon
  <2>4. permit = s /\ \A t \in Stream \ {s} : handler[t].at \notin {"length", "body", "verifying", "detached"}
    BY <1>1, Zenon DEF Place, PermitIsHeld
  <2>5. Place'
    BY <1>1, <1>3, <2>1, <2>4, ZenonT(60) DEF Place, IncomingFileKept, VerificationIsLocked, PermitIsHeld
  <2> QED  BY <2>2, <2>3, <2>5, ReceiptNextIs
<1> QED  BY <1>2, <1>3, Zenon DEF OpenIncoming

\* The body is complete, or its stream ends.
LEMMA BodyEndsOK ==
    ASSUME ReceiptIsSafe, NEW s \in Stream, BodyEnds(s)
    PROVE  ReceiptIsSafe'
<1>1. /\ ReceiptTypeOK /\ Queue /\ Place /\ handler[s].at = "body"
      /\ UNCHANGED <<clock, admission, ledger, entitled, admitted, stops>>
  BY ReceiptIs, Zenon DEF BodyEnds, Waits
<1>2. CASE \E reply \in {"rejected", "retry"} : Answers(s, reply) /\ UNCHANGED locked
  BY <1>1, <1>2, AnswersOK, Zenon
<1>3. CASE locked = NoStream /\ locked' = s /\ Moves(s, "verifying") /\ UNCHANGED <<permit, inbox>>
  <2>1. /\ handler' \in [Stream -> [at : ReceiptStates, auth : Permission \cup {NoStream}, now : Nat]]
        /\ handler'[s].at = "verifying" /\ \A t \in Stream \ {s} : handler'[t] = handler[t]
    BY <1>1, <1>3, MovesIs, Zenon DEF ReceiptStates
  <2>2. ReceiptTypeOK'
    BY <1>1, <1>3, <2>1, Zenon DEF ReceiptTypeOK, ReceiptStates
  <2>3. Queue'
    BY <1>1, <2>1, QueueKept, Zenon
  <2>4. permit = s /\ \A t \in Stream \ {s} : handler[t].at \notin {"length", "body", "verifying", "detached"}
    BY <1>1, Zenon DEF Place, PermitIsHeld
  <2>5. Place'
    BY <1>1, <1>3, <2>1, <2>4, Zenon DEF Place, IncomingFileKept, VerificationIsLocked, PermitIsHeld
  <2> QED  BY <2>2, <2>3, <2>5, ReceiptNextIs
<1> QED  BY <1>2, <1>3, Zenon DEF BodyEnds

\* The verification ends.
LEMMA TransactionEndsOK ==
    ASSUME ReceiptIsSafe, NEW s \in Stream, TransactionEnds(s)
    PROVE  ReceiptIsSafe'
<1>1. /\ handler[s].at \in {"length", "body", "verifying", "detached"} /\ locked = s
      /\ UNCHANGED <<clock, admission, ledger, admitted>>
  BY Zenon DEF TransactionEnds, ReceiptIsSafe, VerificationIsLocked
<1>2. \E reply \in {"accepted", "rejected", "retry"} : Answers(s, reply)
  BY Zenon DEF TransactionEnds
<1> QED  BY <1>1, <1>2, AnswersOK, Zenon

\* A verification that lost its connection keeps lock and file.
LEMMA StreamDroppedOK ==
    ASSUME ReceiptIsSafe, NEW s \in Stream, StreamDropped(s)
    PROVE  ReceiptIsSafe'
<1>1. /\ ReceiptTypeOK /\ Queue /\ Place /\ admission' = Without(admission, s)
      /\ permit' = (IF permit = s THEN NoStream ELSE permit)
      /\ UNCHANGED <<clock, locked, ledger, entitled, admitted, stops>>
      /\ \/ handler[s].at = "verifying" /\ Moves(s, "detached") /\ UNCHANGED inbox
         \/ Moves(s, "gone") /\ inbox' = inbox \ {s}
  BY ReceiptIs, Zenon DEF StreamDropped, Waits
<1>2. /\ handler' \in [Stream -> [at : ReceiptStates, auth : Permission \cup {NoStream}, now : Nat]]
      /\ \A t \in Stream \ {s} : handler'[t] = handler[t]
      /\ \/ handler[s].at = "verifying" /\ handler'[s].at = "detached" /\ UNCHANGED inbox
         \/ handler'[s].at = "gone" /\ inbox' = inbox \ {s}
  BY <1>1, MovesIs, Zenon DEF ReceiptStates
<1>3. Queue' /\ admission' \in Seq(Stream)
  BY <1>1, <1>2, QueueLeft, Zenon
<1>4. ReceiptTypeOK'
  BY <1>1, <1>2, <1>3, Zenon DEF ReceiptTypeOK, ReceiptStates
<1>5. CASE handler'[s].at = "gone" /\ inbox' = inbox \ {s}
  <2>1. Place'
    BY <1>1, <1>2, <1>5, PlaceLeft, Zenon
  <2> QED  BY <1>3, <1>4, <2>1, ReceiptNextIs
<1>6. CASE handler[s].at = "verifying" /\ handler'[s].at = "detached" /\ UNCHANGED inbox
  <2>1. permit = s /\ \A t \in Stream \ {s} : handler[t].at \notin {"length", "body", "verifying"}
    BY <1>1, <1>6, Zenon DEF Place, PermitIsHeld
  <2>2. Place'
    BY <1>1, <1>2, <1>6, <2>1, Zenon DEF Place, IncomingFileKept, VerificationIsLocked, PermitIsHeld
  <2> QED  BY <1>3, <1>4, <2>2, ReceiptNextIs
<1> QED  BY <1>2, <1>5, <1>6, Zenon

\* Another operation takes or releases the lock, or a session expires.
LEMMA SurroundingsOK ==
    ASSUME ReceiptIsSafe, OtherOperation \/ SessionExpires \/ UNCHANGED receiptVars
    PROVE  ReceiptIsSafe'
<1>1. /\ ReceiptTypeOK /\ Queue /\ Place
      /\ UNCHANGED <<clock, handler, admission, permit, ledger, inbox, admitted>>
      /\ locked' = locked \/ locked \notin Stream
  BY ReceiptIs, ReceiptAssumption, Zenon DEF OtherOperation, SessionExpires, receiptVars
<1>2. ReceiptTypeOK'
  BY <1>1, Zenon DEF ReceiptTypeOK
<1>3. Queue' /\ Place'
  BY <1>1, QueueKept, PlaceKept, Zenon
<1> QED  BY <1>2, <1>3, ReceiptNextIs, Zenon

\* ClockTicks keeps the invariant.
LEMMA ClockTicksOK ==
    ASSUME ReceiptIsSafe, ClockTicks
    PROVE  ReceiptIsSafe'
<1>1. /\ ReceiptTypeOK /\ Queue /\ Place /\ clock' = clock + 1
      /\ UNCHANGED <<handler, admission, permit, locked, ledger, inbox, admitted>>
  BY ReceiptIs, Zenon DEF ClockTicks
<1>2. ReceiptTypeOK'
  BY <1>1 DEF ReceiptTypeOK
<1>3. Place'
  BY <1>1, PlaceKept, Zenon
<1>4. /\ clock \in Nat /\ \A a \in Permission : ExpiresAt[a] \in Nat
      /\ \A i \in DOMAIN admission : handler[admission[i]].now \in Nat
  BY <1>1, ReceiptAssumption, SMTT(30) DEF ReceiptTypeOK
<1>5. Ordered(admission, handler)' /\ \A a \in Permission : Spent(a, admission, handler) => Spent(a, admission, handler)'
  <2>1. Ordered(admission, handler)
    BY <1>1, QueueIs, ZenonT(60) DEF Queue
  <2>2. Ordered(admission, handler)'
    BY <1>1, <1>4, <2>1 DEF Ordered
  <2> QED  BY <1>1, <1>4, <2>2 DEF Spent
<1>6. Queue'
  BY <1>1, <1>5, QueueIs, QueueNext, Zenon DEF Queue, AuthorizationUsedOnce
<1> QED  BY <1>2, <1>3, <1>6, ReceiptNextIs, Zenon

\* A restart ends every handler; the ledger keeps what was used.
LEMMA RestartsOK ==
    ASSUME ReceiptIsSafe, Restarts
    PROVE  ReceiptIsSafe'
<1>1. /\ ReceiptTypeOK /\ Queue /\ Place /\ admission' = <<>>
      /\ UNCHANGED <<clock, ledger, inbox, admitted>>
      /\ handler' = [s \in Stream |-> IF Waits(s, "new") THEN handler[s] ELSE [handler[s] EXCEPT !.at = "gone"]]
  BY ReceiptIs DEF Restarts
<1>2. ASSUME NEW s \in Stream
      PROVE  /\ handler'[s] \in [at : ReceiptStates, auth : Permission \cup {NoStream}, now : Nat]
             /\ handler'[s].at \in {"new", "gone"}
  BY <1>1, Zenon DEF ReceiptTypeOK, ReceiptStates, Waits
<1>3. ReceiptTypeOK'
  BY <1>1, <1>2 DEF ReceiptTypeOK, ReceiptStates
<1>4. Place'
  BY <1>2, Zenon DEF Place, IncomingFileKept, VerificationIsLocked, PermitIsHeld
<1>5. Queue'
  <2>1. Ordered(admission, handler)'
    BY <1>1 DEF Ordered
  <2>2. \A a \in Permission : Spent(a, admission, handler) => Spent(a, admission, handler)'
    BY <1>1, SMTT(30) DEF Spent
  <2> QED  BY <1>1, <2>1, <2>2, QueueIs, QueueNext, Zenon DEF Queue, AuthorizationUsedOnce
<1> QED  BY <1>3, <1>4, <1>5, ReceiptNextIs

-----------------------------------------------------------------------------

\* The invariant holds initially.
LEMMA ReceiptStarts == ReceiptInit => ReceiptIsSafe
BY DEF ReceiptInit, Fresh, ReceiptIsSafe, ReceiptTypeOK, AuthorizationUsedOnce, IncomingFileKept,
       VerificationIsLocked, QueueIsOrdered, PermitIsHeld

\* Every step keeps the invariant.
LEMMA ReceiptSteps == ReceiptIsSafe /\ [ReceiptNext]_receiptVars => ReceiptIsSafe'
<1> SUFFICES ASSUME ReceiptIsSafe, [ReceiptNext]_receiptVars PROVE ReceiptIsSafe'
  OBVIOUS
<1>1. ASSUME NEW s \in Stream,
             \/ \E a \in Permission : Preface(s, a)
             \/ Reserve(s) \/ AdmissionTimesOut(s) \/ OpenIncoming(s) \/ BodyEnds(s)
             \/ TransactionEnds(s) \/ StreamDropped(s)
      PROVE  ReceiptIsSafe'
  BY <1>1, PrefaceOK, ReserveOK, AdmissionTimesOutOK, OpenIncomingOK, BodyEndsOK, TransactionEndsOK, StreamDroppedOK, Zenon
<1> QED  BY <1>1, SurroundingsOK, ClockTicksOK, RestartsOK, Zenon DEF ReceiptNext

\* For any number of streams, authorizations and restarts: an authorization
\* lets one body in although its record leaves the ledger when it expires and
\* handlers compare with a time they read before they waited, and no stream
\* clears the file or takes the lock of a verification that goes on without
\* its connection (receive_inner, reserve_authorization, incoming_bundle,
\* run_owned).
THEOREM ReceiptSafe == ReceiptSpec => []ReceiptIsSafe
BY ReceiptStarts, ReceiptSteps, PTL DEF ReceiptSpec
=============================================================================
