---------------------------- MODULE PeerSessions ----------------------------
(***************************************************************************)
(* Which connection two peers keep: crates/supgang/src/service/            *)
(* live_session.rs, peer_actor.rs, liveness.rs, replacement_proof.rs,      *)
(* draining.rs, silence.rs, active.rs and the peer events of               *)
(* local_control.rs.                                                       *)
(*                                                                         *)
(* Both services run here, each with its own view of every connection.     *)
(* A session task works on a snapshot that was taken when it began, and    *)
(* its result is applied later, after dials, proofs, closes and network    *)
(* changes at either end.  A close reaches the other end later still.      *)
(* Signatures, addresses and round-trip times are choices; the path of a   *)
(* connection stands for its canonical remote address.                     *)
(***************************************************************************)
EXTENDS Integers, Sequences, FiniteSets

CONSTANTS
    Lo, Hi,     \* the two computers, Lo with the smaller node identifier
    OnLink,     \* a path over a network both are attached to
    Routed,     \* a path through a router
    LoPaths, HiPaths, \* the paths on which each end has an address of the other
    MaxEvents,  \* connections dialled plus faults: lost links, false silence,
                \* network changes, timeouts, a full table, a revocation
    MaxTunnels  \* tunnel permits held at once

ASSUME SessionConstants ==
    /\ Lo # Hi /\ OnLink # Routed
    /\ LoPaths \cup HiPaths \subseteq {OnLink, Routed}
    /\ MaxEvents \in Nat /\ MaxTunnels \in Nat

Node == {Lo, Hi}
Path == {OnLink, Routed}
Peer(n) == IF n = Lo THEN Hi ELSE Lo
Routes(n) == IF n = Lo THEN LoPaths ELSE HiPaths

Conn == 1..MaxEvents
None == 0

VARIABLES
    dialer,     \* of each connection dialled so far
    path,       \* of each connection dialled so far
    end,        \* end[n][c]: the state of connection c at n
    task,       \* task[n][c]: the session task of n for c
    active,     \* the registered connection of each end
    recent,     \* recent_admissions
    replacing,  \* the pending replacement of each end and its proof
    draining,   \* the connection each end drains
    tunnels,    \* tunnels[n]: connections on which n holds a tunnel permit
    revoked,    \* ends that hold their peer for revoked
    faults

vars == <<dialer, path, end, task, active, recent, replacing, draining,
          tunnels, revoked, faults>>
wire == <<dialer, path>>
table == <<active, recent, replacing, draining>>

dialed == Len(dialer)

\* A session task: the connection that was registered (was) or else recently
\* admitted when it began, and what the old connection was judged to be.
NoTask == [st |-> "none", old |-> None, was |-> FALSE, sup |-> "none"]
NoReplacement == [conn |-> None, old |-> None, proved |-> FALSE]

Open(n, c) == end[n][c] = "open"
Preferred(c) == dialer[c] = Lo

Init ==
    /\ dialer = <<>>
    /\ path = <<>>
    /\ end = [n \in Node |-> [c \in Conn |-> "none"]]
    /\ task = [n \in Node |-> [c \in Conn |-> NoTask]]
    /\ active = [n \in Node |-> None]
    /\ recent = [n \in Node |-> None]
    /\ replacing = [n \in Node |-> NoReplacement]
    /\ draining = [n \in Node |-> None]
    /\ tunnels = [n \in Node |-> {}]
    /\ revoked = {}
    /\ faults = 0

Fault == dialed + faults < MaxEvents /\ faults' = faults + 1

\* n closes the connections in cs that it still has.
Closing(n, cs) == end' = [end EXCEPT ![n] = [c \in Conn |-> IF c \in cs THEN "closed" ELSE @[c]]]

-----------------------------------------------------------------------------
(* Session tasks *)

\* LiveSessionState::snapshot, as the task keeps it.
Snapshot(n) ==
    [st |-> "running",
     old |-> IF active[n] # None THEN active[n] ELSE recent[n],
     was |-> active[n] # None,
     sup |-> "none"]

\* A connected peer is dialled only over another path, one at a time and not
\* while a replacement is pending; a lost peer also on a rendezvous offer.
MayDial(n, p) ==
    active[n] # None =>
        /\ p # path[active[n]]
        /\ replacing[n] = NoReplacement
        /\ \A c \in DOMAIN dialer : dialer[c] = n => task[n][c] = NoTask

Dial(n, p) ==
    /\ dialed + faults < MaxEvents
    /\ n \notin revoked
    /\ MayDial(n, p)
    /\ LET c == dialed + 1 IN
       /\ dialer' = Append(dialer, n)
       /\ path' = Append(path, p)
       /\ end' = [end EXCEPT ![n][c] = "open"]
       /\ task' = [task EXCEPT ![n][c] = Snapshot(n)]
    /\ UNCHANGED <<table, tunnels, revoked, faults>>

\* schedule_incoming_peer: the other end takes its own snapshot, both ends
\* authenticate and exchange one sync.
Incoming(n, c) ==
    /\ n = Peer(dialer[c]) /\ end[n][c] = "none"
    /\ n \notin revoked
    /\ task[dialer[c]][c].st = "running"
    /\ end' = [end EXCEPT ![n][c] = "open"]
    /\ task' = [task EXCEPT ![n][c] = [Snapshot(n) EXCEPT !.st = "synced"],
                           ![dialer[c]][c].st = "synced"]
    /\ UNCHANGED <<wire, table, tunnels, revoked, faults>>

\* It is refused: the peer is revoked, or admission, the handshake or the
\* authentication fails.
IncomingRefused(n, c) ==
    /\ n = Peer(dialer[c]) /\ end[n][c] = "none"
    /\ IF n \in revoked THEN UNCHANGED faults ELSE Fault
    /\ Closing(n, {c})
    /\ UNCHANGED <<wire, task, table, tunnels, revoked>>

\* The dialling task ends without a result: it was refused, or the answer to
\* its sync did not arrive in time.
SessionFails(n, c) ==
    /\ dialer[c] = n
    /\ task[n][c].st \in {"running", "synced"}
    /\ IF end[Peer(n)][c] = "closed" THEN UNCHANGED faults ELSE Fault
    /\ Closing(n, {c})
    /\ task' = [task EXCEPT ![n][c] = NoTask]
    /\ UNCHANGED <<wire, table, tunnels, revoked>>

\* Faulty variant: a connection that does not answer the probe is taken for dead.
Verdicts_SilentIsDead(n, old, c) ==
    CASE path[c] = OnLink /\ path[old] = Routed -> {"live"}
      [] ~Open(n, old)                          -> {"dead"}
      [] OTHER                                  -> {"none", "live", "dead"}

\* liveness::superseded for connection c while old is registered.  A probe of a
\* connection that is open here may be answered or not, and a round-trip time
\* may look much better or not.
Verdicts(n, old, c) ==
    CASE path[c] = OnLink /\ path[old] = Routed -> {"live"}
      [] ~Open(n, old) /\ path[c] = path[old]   -> {"dead"}
      [] ~Open(n, old) /\ path[c] # path[old]   -> {"dead", "live"}
      [] OTHER                                  -> {"none", "live"}

Judge(n, c) ==
    /\ task[n][c].st = "synced"
    /\ \E v \in IF task[n][c].was THEN Verdicts(n, task[n][c].old, c) ELSE {"none"} :
          task' = [task EXCEPT ![n][c] = [@ EXCEPT !.st = "done", !.sup = v]]
    /\ UNCHANGED <<wire, end, table, tunnels, revoked, faults>>

-----------------------------------------------------------------------------
(* Admission *)

\* n closes c and keeps what it has.
Drop(n, c) == Closing(n, {c}) /\ UNCHANGED <<active, recent, draining>>

\* n registers c; gone is closed.
Register(n, c, gone) ==
    /\ active' = [active EXCEPT ![n] = c]
    /\ recent' = [recent EXCEPT ![n] = c]
    /\ UNCHANGED draining
    /\ Closing(n, gone)

\* n registers c in place of old.  Drains::begin: old takes the drain slot when
\* it carries a tunnel, and what was in the slot is closed.
Supersede(n, c, old) ==
    LET kept == {old} \cap tunnels[n]
    IN  /\ active' = [active EXCEPT ![n] = c]
        /\ recent' = [recent EXCEPT ![n] = c]
        /\ draining' = [draining EXCEPT ![n] = IF kept = {} THEN None ELSE old]
        /\ Closing(n, {draining[n]} \cup ({old} \ kept))

\* admit_authenticated and register_connection for a connection that supersedes
\* old, or none when old is None.
Admit(n, c, old) ==
    CASE n \in revoked ->
            Drop(n, c)
      [] n \notin revoked /\ active[n] = None ->
            Register(n, c, {})
      [] n \notin revoked /\ active[n] # None /\ active[n] = old ->
            IF draining[n] # None THEN Drop(n, c) ELSE Supersede(n, c, old)
      [] n \notin revoked /\ active[n] # None /\ active[n] # old ->
            IF Preferred(c) /\ ~Preferred(active[n]) THEN Register(n, c, {active[n]}) ELSE Drop(n, c)

\* finish_authenticated: the candidate lost a race, or the registered connection
\* was judged good enough.
Raced(n, c) == task[n][c].old # None /\ active[n] \notin {None, task[n][c].old}
Rejected(n, c) ==
    \/ n \in revoked
    \/ Raced(n, c) /\ (task[n][c].was \/ path[active[n]] # path[c])
    \/ task[n][c].old # None /\ active[n] = task[n][c].old /\ task[n][c].sup = "none"

\* The connection that the candidate may replace only once it is proved.
MustProve(n, c) ==
    LET t == task[n][c]
    IN  CASE t.sup = "live" /\ active[n] = t.old -> t.old
          [] t.sup = "none" /\ Raced(n, c)       -> active[n]
          [] active[n] = None                    -> t.old
          [] OTHER                               -> None

Finish(n, c) ==
    /\ task[n][c].st = "done"
    /\ task' = [task EXCEPT ![n][c] = NoTask]
    /\ UNCHANGED <<wire, tunnels, revoked>>

RejectSession(n, c) ==
    /\ Finish(n, c)
    /\ Rejected(n, c)
    /\ Drop(n, c)
    /\ UNCHANGED <<replacing, faults>>

AdmitSession(n, c) ==
    /\ Finish(n, c)
    /\ ~Rejected(n, c)
    /\ MustProve(n, c) = None
    /\ Admit(n, c, IF task[n][c].sup = "dead" THEN task[n][c].old ELSE None)
    /\ UNCHANGED <<replacing, faults>>

\* Other peers fill the table (MAX_ACTIVE_PEERS).
SessionCrowdedOut(n, c) ==
    /\ Finish(n, c)
    /\ ~Rejected(n, c)
    /\ MustProve(n, c) = None /\ active[n] = None
    /\ Fault
    /\ Drop(n, c)
    /\ UNCHANGED replacing

\* A pending candidate yields only to one of the preferred direction that
\* replaces the same connection.
Yields(n, c, old) ==
    /\ Preferred(c) /\ ~Preferred(replacing[n].conn)
    /\ replacing[n].old = old

ProposeSession(n, c) ==
    LET old == MustProve(n, c) IN
    /\ Finish(n, c)
    /\ ~Rejected(n, c)
    /\ old # None
    /\ IF draining[n] = None /\ (replacing[n] = NoReplacement \/ Yields(n, c, old))
       THEN /\ Drop(n, replacing[n].conn)
            /\ replacing' = [replacing EXCEPT ![n] = [conn |-> c, old |-> old, proved |-> FALSE]]
       ELSE Drop(n, c) /\ UNCHANGED replacing
    /\ UNCHANGED faults

-----------------------------------------------------------------------------
(* Replacement proofs *)

\* The other end serves the Sync stream of c: it runs the session of c, or
\* proves c itself.
Engaged(n, c) == Open(n, c) /\ c \in {active[n], replacing[n].conn}

ProofSucceeds(n) ==
    LET c == replacing[n].conn IN
    /\ c # None /\ ~replacing[n].proved
    /\ Open(n, c) /\ Engaged(Peer(n), c)
    /\ replacing' = [replacing EXCEPT ![n].proved = TRUE]
    /\ UNCHANGED <<wire, end, task, active, recent, draining, tunnels, revoked, faults>>

\* finish_ready_replacements
ReplacementProved(n) ==
    LET r == replacing[n] IN
    /\ r.proved
    /\ replacing' = [replacing EXCEPT ![n] = NoReplacement]
    /\ IF active[n] \in {None, r.old} THEN Admit(n, r.conn, r.old) ELSE Drop(n, r.conn)
    /\ UNCHANGED <<wire, task, tunnels, revoked, faults>>

\* The proof ends because the connection is gone or its time is over.
ReplacementFails(n) ==
    LET r == replacing[n] IN
    /\ r.conn # None /\ ~r.proved
    /\ IF Open(n, r.conn) /\ r.conn # draining[Peer(n)] THEN Fault ELSE UNCHANGED faults
    /\ replacing' = [replacing EXCEPT ![n] = NoReplacement]
    /\ Drop(n, r.conn)
    /\ UNCHANGED <<wire, task, tunnels, revoked>>

-----------------------------------------------------------------------------
(* What ends connections *)

\* The close of the other end arrives, or the idle timeout ends what it left.
CloseArrives(n, c) ==
    /\ Open(n, c) /\ end[Peer(n)][c] = "closed"
    /\ task[n][c].st # "running"
    /\ Closing(n, {c})
    /\ UNCHANGED <<wire, task, table, tunnels, revoked, faults>>

\* The path of c is gone and c times out at n.
LinkLost(n, c) ==
    /\ Open(n, c) /\ task[n][c].st # "running"
    /\ Fault
    /\ Closing(n, {c})
    /\ UNCHANGED <<wire, task, table, tunnels, revoked>>

\* PeerEvent::Closed or prune_unauthorized: the registered connection ended.
ConnectionEnds(n) ==
    /\ active[n] # None /\ end[n][active[n]] = "closed"
    /\ active' = [active EXCEPT ![n] = None]
    /\ UNCHANGED <<wire, end, task, recent, replacing, draining, tunnels, revoked, faults>>

\* retire_departed: no datagram answered the probe.
SilenceRetires(n) ==
    /\ active[n] # None /\ Open(n, active[n])
    /\ Fault
    /\ Closing(n, {active[n]})
    /\ active' = [active EXCEPT ![n] = None]
    /\ UNCHANGED <<wire, task, recent, replacing, draining, tunnels, revoked>>

\* Faulty variant: the pending candidate is forgotten and not closed.
NetworkChanges_KeepsCandidate(n) ==
    /\ Fault
    /\ replacing' = [replacing EXCEPT ![n] = NoReplacement]
    /\ task' = [task EXCEPT ![n] = [c \in Conn |-> NoTask]]
    /\ \E gone \in SUBSET {active[n]} :
          /\ Closing(n, {c \in Conn : task[n][c] # NoTask} \cup gone)
          /\ active' = [active EXCEPT ![n] = IF gone = {} THEN @ ELSE None]
    /\ UNCHANGED <<wire, recent, draining, tunnels, revoked>>

\* The interfaces of n changed: cancel_pending_replacements, then
\* reset_network_recovery, which cancels every session task and retires the
\* registered connection when it ran over a network that is gone.
NetworkChanges(n) ==
    LET cancelled == {c \in Conn : task[n][c] # NoTask} \cup {replacing[n].conn}
    IN  /\ Fault
        /\ replacing' = [replacing EXCEPT ![n] = NoReplacement]
        /\ task' = [task EXCEPT ![n] = [c \in Conn |-> NoTask]]
        /\ \E gone \in SUBSET {active[n]} :
              /\ Closing(n, cancelled \cup gone)
              /\ active' = [active EXCEPT ![n] = IF gone = {} THEN @ ELSE None]
        /\ UNCHANGED <<wire, recent, draining, tunnels, revoked>>

\* reap: the last tunnel ended or the connection did.
DrainEnds(n) ==
    /\ draining[n] # None
    /\ draining[n] \notin tunnels[n] \/ end[n][draining[n]] = "closed"
    /\ Closing(n, {draining[n]})
    /\ draining' = [draining EXCEPT ![n] = None]
    /\ UNCHANGED <<wire, task, active, recent, replacing, tunnels, revoked, faults>>

\* reap: DRAIN_LIMIT is over.
DrainTimesOut(n) ==
    /\ draining[n] # None
    /\ Fault
    /\ Closing(n, {draining[n]})
    /\ draining' = [draining EXCEPT ![n] = None]
    /\ UNCHANGED <<wire, task, active, recent, replacing, tunnels, revoked>>

\* A newer revocation list reaches n: deauthorize_revoked, invalidate_revoked.
Revoke(n) ==
    /\ n \notin revoked
    /\ Fault
    /\ revoked' = revoked \cup {n}
    /\ Closing(n, {active[n], draining[n]})
    /\ active' = [active EXCEPT ![n] = None]
    /\ draining' = [draining EXCEPT ![n] = None]
    /\ UNCHANGED <<wire, task, recent, replacing, tunnels>>

\* RECENT_ADMISSION_WINDOW is over; while c is registered it is noted again.
RecentForgotten(n) ==
    /\ recent[n] # None /\ active[n] # recent[n]
    /\ Fault
    /\ recent' = [recent EXCEPT ![n] = None]
    /\ UNCHANGED <<wire, end, task, active, replacing, draining, tunnels, revoked>>

\* A tunnel takes a permit of the registered connection, at the computer that
\* asks for it and at the one that serves it.
TunnelOpens(n, c) ==
    /\ active[n] = c /\ Open(n, c)
    /\ c \notin tunnels[n]
    /\ Cardinality(tunnels[Lo]) + Cardinality(tunnels[Hi]) < MaxTunnels
    /\ tunnels' = [tunnels EXCEPT ![n] = @ \cup {c}]
    /\ UNCHANGED <<wire, end, task, table, revoked, faults>>

TunnelEnds(n, c) ==
    /\ c \in tunnels[n]
    /\ tunnels' = [tunnels EXCEPT ![n] = @ \ {c}]
    /\ UNCHANGED <<wire, end, task, table, revoked, faults>>

Next ==
    \E n \in Node :
        \/ \E p \in Routes(n) : Dial(n, p)
        \/ \E c \in DOMAIN dialer :
              \/ Incoming(n, c) \/ IncomingRefused(n, c) \/ SessionFails(n, c) \/ Judge(n, c)
              \/ RejectSession(n, c) \/ AdmitSession(n, c) \/ SessionCrowdedOut(n, c)
              \/ ProposeSession(n, c) \/ CloseArrives(n, c) \/ LinkLost(n, c)
              \/ TunnelOpens(n, c) \/ TunnelEnds(n, c)
        \/ ProofSucceeds(n) \/ ReplacementProved(n) \/ ReplacementFails(n)
        \/ ConnectionEnds(n) \/ SilenceRetires(n) \/ NetworkChanges(n)
        \/ DrainEnds(n) \/ DrainTimesOut(n) \/ Revoke(n) \/ RecentForgotten(n)

Spec == Init /\ [][Next]_vars

-----------------------------------------------------------------------------
(* Properties *)

\* A session task, and a pending replacement: PendingReplacement always names both
\* the candidate and the connection it is to replace.
SessionTask == [st : {"none", "running", "synced", "done"}, old : Conn \cup {None},
                was : BOOLEAN, sup : {"none", "live", "dead"}]
Replacement == {NoReplacement} \cup [conn : Conn, old : Conn, proved : BOOLEAN]

\* Every variable has its type.
TypeOK ==
    /\ dialer \in Seq(Node) /\ path \in Seq(Path) /\ Len(path) = dialed
    /\ faults \in Nat /\ dialed + faults <= MaxEvents
    /\ end \in [Node -> [Conn -> {"none", "open", "closed"}]]
    /\ task \in [Node -> [Conn -> SessionTask]]
    /\ active \in [Node -> Conn \cup {None}]
    /\ recent \in [Node -> Conn \cup {None}]
    /\ draining \in [Node -> Conn \cup {None}]
    /\ replacing \in [Node -> Replacement]
    /\ tunnels \in [Node -> SUBSET Conn]
    /\ revoked \subseteq Node

\* The places in which n keeps hold of connection c.
Place == {"active", "replacing", "draining", "task"}
Holds(n, place, c) ==
    CASE place = "active"    -> active[n] = c
      [] place = "replacing" -> replacing[n].conn = c
      [] place = "draining"  -> draining[n] = c
      [] place = "task"      -> task[n][c] # NoTask

OwnedOnce(n, c) == \E owner \in Place : \A place \in Place : Holds(n, place, c) <=> place = owner

\* A connection that is open at a computer has exactly one owner there: the table
\* of registered connections, the pending replacement, the drain slot or a session
\* task.  No branch of finish_authenticated, admit_authenticated,
\* finish_ready_replacements or the network reset lets go of a connection without
\* closing it, and none books it twice.
NothingLeaks == \A n \in Node, c \in Conn : Open(n, c) => OwnedOnce(n, c)

\* What the task of c at n knows was set up at n, and a connection that it judged
\* dead has ended, whatever happened since.
Backed(n, c) ==
    /\ task[n][c] # NoTask => end[n][c] # "none"
    /\ task[n][c].old \in Conn => end[n][task[n][c].old] # "none"
    /\ task[n][c].was => task[n][c].old \in Conn
    /\ task[n][c].sup = "dead" => task[n][c].old \in Conn /\ end[n][task[n][c].old] = "closed"

\* Why: what n holds was set up at n, so no connection that is yet to come is held
\* already.
HeldExists(n) ==
    /\ \A c \in {active[n], recent[n], draining[n], replacing[n].conn, replacing[n].old} :
          c \in Conn => end[n][c] # "none"
    /\ \A c \in Conn : (c \notin DOMAIN dialer => end[n][c] = "none") /\ Backed(n, c)

\* A registered connection that is open stays registered unless its replacement was
\* proved by an exchange of its own, or it was a fallback and the preferred direction
\* arrived (register_connection), or a fault or a revocation took it.  In particular a
\* judgement that liveness::superseded made on an old snapshot never costs an open
\* connection its place.
RegisteredIsKept == \A n \in Node :
    LET c == active[n]
        d == active'[n]
    IN  c # None /\ Open(n, c) /\ d # c /\ faults' = faults
        => /\ d # None
           /\ \/ replacing[n] = [conn |-> d, old |-> c, proved |-> TRUE]
              \/ Preferred(d) /\ ~Preferred(c)

\* A draining connection that is open and carries a tunnel keeps its slot, and stays
\* open unless the other end closed it: no later admission evicts it ("keep the
\* already-held tunnels instead of evicting them", admit_authenticated).
DrainIsKept == \A n \in Node :
    LET c == draining[n]
    IN  c \in tunnels[n] /\ Open(n, c) /\ faults' = faults
        => draining'[n] = c /\ (end'[n][c] = "open" \/ end[Peer(n)][c] = "closed")

\* A computer that holds its peer for revoked has no registered or draining connection
\* to it, whatever session tasks and proofs were in flight when the list arrived.
RevokedNotActive == \A n \in revoked : active[n] = None /\ draining[n] = None

\* Nothing is in flight between the two computers.
Quiet ==
    /\ \A n \in Node, c \in Conn : task[n][c] = NoTask /\ ~(Open(n, c) /\ end[Peer(n)][c] = "closed")
    /\ \A n \in Node : replacing[n] = NoReplacement
    /\ \A n \in Node : active[n] # None => Open(n, active[n])

\* "Keep a session until its peer has accepted the replacement": once nothing is in
\* flight, no computer drains the very connection that its peer keeps registered while
\* it has no registered connection itself.
NoStrandedDrain == Quiet => ~ \E n \in Node :
    /\ active[n] = None /\ draining[n] # None
    /\ draining[n] = active[Peer(n)]

\* Every open connection is owned once, and none is kept to a revoked peer.
ConnectionsOwned ==
    TypeOK /\ NothingLeaks /\ RevokedNotActive /\ \A n \in Node : HeldExists(n)

\* No step without a fault takes an open connection its place or its tunnels.
HeldIsKept == [][RegisteredIsKept /\ DrainIsKept]_vars
=============================================================================
