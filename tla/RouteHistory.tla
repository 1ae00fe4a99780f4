---------------------------- MODULE RouteHistory ----------------------------
(***************************************************************************)
(* The routes a computer has itself authenticated (crates/supgang/src/     *)
(* peer_directory/route_history.rs, remember_authenticated_route and       *)
(* authenticated_on_link_routes in peer_directory/reachability.rs): kept   *)
(* in a journal of signed attestations, newest first in memory, at most    *)
(* `limit' per peer, a limit the owner may change between two starts.      *)
(*                                                                         *)
(* The journal appends and compacts atomically (DurableLog); a process may *)
(* be lost after either and before memory follows.                         *)
(***************************************************************************)
EXTENDS Integers, Sequences, FiniteSets, SequencesExt

CONSTANTS
    RoutePeer, Pin,
    Path,          \* <<address, local interface>> pairs, NoInterface when unknown
    Private,       \* the addresses that mean something on one network only
    NoInterface,
    RouteLimit,         \* the address history limits the owner may choose
    MaxPeers,      \* MAX_HIVE_MEMBERS - 1
    CompactAfter,  \* in frames
    Repeat,        \* how soon the same route is not recorded again
    MaxRoutes, LastHour

ASSUME RouteAssumption ==
    /\ RouteLimit \subseteq Nat \ {0}
    /\ {MaxPeers, CompactAfter, Repeat, MaxRoutes, LastHour} \subseteq Nat

VARIABLES
    frames,     \* the journal
    limit,      \* of the running process, 0 when none runs
    memory,     \* RouteHistory::records
    compactAt,
    hour,
    recorded    \* every attestation the journal ever took, in order

routeVars == <<frames, limit, memory, compactAt, hour, recorded>>

SameRoute(r, s) == r.pin = s.pin /\ r.address = s.address /\ r.interface = s.interface

Empty == [p \in RoutePeer |-> <<>>]
Known(m) == {p \in RoutePeer : m[p] # <<>>}

\* RouteHistory::insert, when there is room for the peer.
Insert(m, r, n) ==
    LET others == SelectSeq(m[r.peer], LAMBDA old : ~SameRoute(old, r))
        all    == <<r>> \o others
    IN [m EXCEPT ![r.peer] = SubSeq(all, 1, IF Len(all) < n THEN Len(all) ELSE n)]

HasRoom(m, r) == r.peer \in Known(m) \/ Cardinality(Known(m)) < MaxPeers

\* The loop of open over the frames.
ReplayRoutes(log, n) == FoldLeft(LAMBDA m, r : Insert(m, r, n), Empty, log)

\* Attestation::verify: a private address needs the interface it was used on.
RouteValid(r) == r.address \in Private => r.interface # NoInterface

\* ... which fails at a frame that is not valid or is for one peer too many.
Readable(log) ==
    /\ \A i \in DOMAIN log : RouteValid(log[i])
    /\ Cardinality({log[i].peer : i \in DOMAIN log}) =< MaxPeers

\* compact_if_needed: every peer's routes, oldest first, so that a replay
\* restores the order.
Flattened_Newest(m) == FoldLeft(LAMBDA log, p : log \o m[p], <<>>, SetToSeq(RoutePeer))

Flattened(m) == FoldLeft(LAMBDA log, p : log \o Reverse(m[p]), <<>>, SetToSeq(RoutePeer))

Compacted(log, m, at) ==
    IF Len(log) < at THEN [frames |-> log, at |-> at]
    ELSE [frames |-> Flattened(m), at |-> Len(Flattened(m)) + CompactAfter]

-----------------------------------------------------------------------------
(* Operations *)

\* open, then the compaction it may begin with.
OpenRoutes(n) ==
    /\ limit = 0 /\ n \in RouteLimit
    /\ Readable(frames)
    /\ LET m == ReplayRoutes(frames, n)
           c == Compacted(frames, m, CompactAfter)
       IN memory' = m /\ frames' = c.frames /\ compactAt' = c.at
    /\ limit' = n
    /\ UNCHANGED <<hour, recorded>>

\* remember's route: a private address keeps the interface it was used on.
Attested(p, pin, path) ==
    [peer |-> p, pin |-> pin, address |-> path[1],
     interface |-> IF path[1] \in Private THEN path[2] ELSE NoInterface, at |-> hour]

\* remember's early returns: no interface for a private address, or the same
\* route was recorded lately.
Skipped(r) ==
    \/ r.address \in Private /\ r.interface = NoInterface
    \/ \E i \in DOMAIN memory[r.peer] :
          SameRoute(memory[r.peer][i], r) /\ hour - memory[r.peer][i].at < Repeat

\* remember, with the append done: memory and the compaction follow, unless the
\* process is lost first.  A peer that does not fit is an error, and the
\* service ends.
Remember(p, pin, path, lost) ==
    LET r   == Attested(p, pin, path)
        log == Append(frames, r)
        m   == Insert(memory, r, limit)
        c   == Compacted(log, m, compactAt)
    IN /\ limit # 0 /\ Len(recorded) < MaxRoutes
       /\ ~Skipped(r)
       /\ HasRoom(memory, r)
       /\ recorded' = Append(recorded, r)
       /\ IF lost
          THEN /\ frames' = log
               /\ memory' = Empty /\ limit' = 0 /\ UNCHANGED compactAt
          ELSE /\ frames' = c.frames /\ compactAt' = c.at
               /\ memory' = m /\ UNCHANGED limit
       /\ UNCHANGED hour

RefuseRoute(p, pin, path) ==
    /\ limit # 0 /\ ~Skipped(Attested(p, pin, path))
    /\ ~HasRoom(memory, Attested(p, pin, path))
    /\ limit' = 0 /\ memory' = Empty
    /\ UNCHANGED <<frames, compactAt, hour, recorded>>

StopRoutes ==
    /\ limit # 0
    /\ limit' = 0 /\ memory' = Empty
    /\ UNCHANGED <<frames, compactAt, hour, recorded>>

HourPasses == hour < LastHour /\ hour' = hour + 1 /\ UNCHANGED <<frames, limit, memory, compactAt, recorded>>

RouteInit ==
    /\ frames = <<>> /\ limit = 0 /\ memory = Empty /\ compactAt = CompactAfter
    /\ hour = 0 /\ recorded = <<>>

RouteNext ==
    \/ \E n \in RouteLimit : OpenRoutes(n)
    \/ \E p \in RoutePeer, pin \in Pin, path \in Path, lost \in BOOLEAN : Remember(p, pin, path, lost)
    \/ \E p \in RoutePeer, pin \in Pin, path \in Path : RefuseRoute(p, pin, path)
    \/ StopRoutes
    \/ HourPasses

RouteSpec == RouteInit /\ [][RouteNext]_routeVars

-----------------------------------------------------------------------------
(* Properties *)

\* No sequence of appends, losses and compactions leaves a journal that open
\* refuses, which would keep the whole peer directory from opening
\* (the check before the append in remember, DirectoryFull in insert).
RoutesReadable == Readable(frames)

\* What memory holds is what the next start would read: compaction and replay
\* keep the order of the routes, and with it which of them are tried first.
RoutesSurvive == limit # 0 => ReplayRoutes(frames, limit) = memory

\* The routes kept for a peer are the ones recorded last: those of the whole
\* history, newest first and each once, cut at the end only, whatever limits
\* the owner chose in between and whatever was compacted.
NewestRoutesKept ==
    limit # 0 => \A p \in RoutePeer : IsPrefix(memory[p], ReplayRoutes(recorded, Len(recorded) + 1)[p])

\* Appends, losses, compactions and changed limits in any order keep the
\* newest routes in a journal that opens.
RoutesAreKept == RoutesReadable /\ RoutesSurvive /\ NewestRoutesKept
=============================================================================
