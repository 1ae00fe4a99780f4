------------------------------ MODULE Tunnels ------------------------------
(***************************************************************************)
(* Service tunnels over authenticated sessions (crates/supgang/src/        *)
(* service/tunnel.rs, tunnel_policy.rs, service/local_control/             *)
(* tunnel_control.rs, and the service stream of service/peer_actor.rs).    *)
(*                                                                         *)
(* Tunnel tasks run beside the service loop: one reads which service is    *)
(* wanted, looks its port up and connects while the owner may withdraw or  *)
(* retarget it.  The policy is a file replaced by rename; a rename whose   *)
(* directory was not synchronised may be undone by a power cut.            *)
(***************************************************************************)
EXTENDS Integers, FiniteSets

CONSTANTS
    Service, Port,
    Session,       \* connections, each registered once
    Tunnel,        \* tunnel tasks, each used again after it ended
    Ceiling,       \* the limits the owner may set
    PerPeer, Total, \* the default limits
    MaxExposures,
    MaxSaves, MaxOutages

ASSUME TunnelsAssumption ==
    /\ Port \subseteq Nat \ {0} /\ Ceiling \subseteq Nat \ {0} /\ {PerPeer, Total} \subseteq Ceiling
    /\ MaxExposures \in Nat /\ MaxSaves \in Nat /\ MaxOutages \in Nat

VARIABLES
    policy,     \* the running policy: ports, per_peer, total
    file,       \* the policy file
    synced,     \* the policy file a power cut leaves
    ceiling,    \* admission_total
    session,    \* stage, valid authorization, and the size of its semaphore
    tunnel,     \* stage, session, direction, service and port of each task
    exposing,   \* expose saved its change and has not answered yet
    wanted,     \* kept for a property: the ports asked for since the last success
    saves, outages

tunnelVars == <<policy, file, synced, ceiling, session, tunnel, exposing, wanted, saves, outages>>

NoUse == 0  \* no port
IdleTunnel == [stage |-> "free"]

Busy == {t \in Tunnel : tunnel[t].stage # "free"}
Of(s) == {t \in Busy : tunnel[t].session = s}
Incoming(s) == {t \in Of(s) : tunnel[t].way = "in"}
Outgoing == {t \in Busy : tunnel[t].way = "out"}

\* TunnelPolicy::validate.
PolicyValid(p) == Cardinality({n \in Service : p.ports[n] # NoUse}) =< MaxExposures

\* SessionAuthorization::is_current.
IsCurrent(s) == session[s].valid

-----------------------------------------------------------------------------
(* tunnel_policy::save and the commands that change the policy *)

\* Success, a failure before the rename, or a failure to synchronise after it.
Outcome == {"saved", "failed", "unsynced"}

Save(new, outcome) ==
    /\ saves < MaxSaves /\ saves' = saves + 1
    /\ file' = IF outcome = "failed" THEN file ELSE new
    /\ synced' = IF outcome = "saved" THEN new ELSE synced
    /\ policy' = IF outcome = "saved" THEN new ELSE policy

\* A policy change that takes a grant away.
RemovesGrant(n, port) == policy.ports[n] # NoUse /\ policy.ports[n] # port

\* expose, up to the invalidation of sessions; port zero removes the service.
Expose(n, port, outcome) ==
    LET new == [policy EXCEPT !.ports[n] = port] IN
    /\ exposing = {}
    /\ PolicyValid(new)
    /\ Save(new, outcome)
    /\ wanted' = [wanted EXCEPT ![n] = IF outcome = "saved" THEN {port} ELSE @ \cup {port}]
    /\ exposing' = IF outcome = "saved" /\ RemovesGrant(n, port) THEN {"invalidate"} ELSE {}
    /\ UNCHANGED <<ceiling, session, tunnel, outages>>

\* Every active and every draining connection loses its authority before the
\* owner is answered.
InvalidatedByExpose_Active(s) == session[s].stage = "active"

InvalidatedByExpose(s) == session[s].stage \in {"active", "draining"}

FinishExpose ==
    /\ exposing # {}
    /\ session' = [s \in Session |-> IF InvalidatedByExpose(s) THEN [session[s] EXCEPT !.valid = FALSE] ELSE session[s]]
    /\ exposing' = {}
    /\ UNCHANGED <<policy, file, synced, ceiling, tunnel, wanted, saves, outages>>

\* save_limits.
SaveLimits(perPeer, total, outcome) ==
    /\ exposing = {}
    /\ Save([policy EXCEPT !.perPeer = perPeer, !.total = total], outcome)
    /\ UNCHANGED <<ceiling, session, tunnel, exposing, wanted, outages>>

\* The service stops, with or without a power cut, and starts with the policy
\* the file holds.
Restart(left) ==
    /\ outages < MaxOutages /\ outages' = outages + 1
    /\ left \in {file, synced}
    /\ policy' = left /\ file' = left /\ synced' = left
    /\ ceiling' = left.total
    /\ session' = [s \in Session |->
                      IF session[s].stage = "new" THEN session[s] ELSE [session[s] EXCEPT !.stage = "ended", !.valid = FALSE]]
    /\ tunnel' = [t \in Tunnel |-> IdleTunnel]
    /\ exposing' = {}
    /\ UNCHANGED <<wanted, saves>>

-----------------------------------------------------------------------------
(* Sessions, as far as tunnels see them *)

\* register_connection sizes the semaphore of a connection once.
Register(s) ==
    /\ exposing = {} /\ session[s].stage = "new"
    /\ session' = [session EXCEPT ![s] = [stage |-> "active", valid |-> TRUE, room |-> policy.perPeer]]
    /\ UNCHANGED <<policy, file, synced, ceiling, tunnel, exposing, wanted, saves, outages>>

\* begin_draining closes the semaphore; tunnels go on.
BeginDraining(s) ==
    /\ exposing = {} /\ session[s].stage = "active" /\ Of(s) # {}
    /\ session' = [session EXCEPT ![s].stage = "draining"]
    /\ UNCHANGED <<policy, file, synced, ceiling, tunnel, exposing, wanted, saves, outages>>

\* Revocation, expiry, replacement or loss of the connection.
EndSession(s) ==
    /\ session[s].stage \in {"active", "draining"}
    /\ session' = [session EXCEPT ![s].stage = "ended", ![s].valid = FALSE]
    /\ UNCHANGED <<policy, file, synced, ceiling, tunnel, exposing, wanted, saves, outages>>

-----------------------------------------------------------------------------
(* Tunnel tasks *)

\* Both semaphores, without waiting.
Admitted(s) ==
    /\ session[s].stage = "active"
    /\ Cardinality(Busy) < ceiling
    /\ Cardinality(Of(s)) < session[s].room

\* The service stream in peer_actor, and the permits of incoming.
AcceptIncoming(t, s) ==
    /\ t \notin Busy /\ Admitted(s)
    /\ Cardinality(Incoming(s)) < policy.perPeer
    /\ tunnel' = [tunnel EXCEPT ![t] = [stage |-> "reading", session |-> s, way |-> "in"]]
    /\ UNCHANGED <<policy, file, synced, ceiling, session, exposing, wanted, saves, outages>>

\* The setup of incoming, up to the connection attempt.
LookUp(t, n) ==
    /\ tunnel[t].stage = "reading"
    /\ tunnel' = [tunnel EXCEPT ![t] =
                     IF IsCurrent(@.session) /\ policy.ports[n] # NoUse
                     THEN [stage |-> "connecting", session |-> @.session, way |-> "in", service |-> n,
                           port |-> policy.ports[n]]
                     ELSE IdleTunnel]
    /\ UNCHANGED <<policy, file, synced, ceiling, session, exposing, wanted, saves, outages>>

\* The rest of the setup: the authority is looked at again once the service
\* answered.
OpenTunnel(t) ==
    /\ tunnel[t].stage = "connecting"
    /\ tunnel' = [tunnel EXCEPT ![t] = IF IsCurrent(@.session) THEN [@ EXCEPT !.stage = "open"] ELSE IdleTunnel]
    /\ UNCHANGED <<policy, file, synced, ceiling, session, exposing, wanted, saves, outages>>

\* admit and outgoing, for a local client.
ConnectOut(t, s) ==
    /\ exposing = {} /\ t \notin Busy
    /\ IsCurrent(s) /\ Cardinality(Outgoing) < policy.total /\ Admitted(s)
    /\ tunnel' = [tunnel EXCEPT ![t] = [stage |-> "sending", session |-> s, way |-> "out"]]
    /\ UNCHANGED <<policy, file, synced, ceiling, session, exposing, wanted, saves, outages>>

\* A task ends: bytes ended, setup or idle deadline, refusal, lost authority,
\* or a withdrawn exposure.
EndTunnel(t) ==
    /\ t \in Busy
    /\ tunnel' = [tunnel EXCEPT ![t] = IdleTunnel]
    /\ UNCHANGED <<policy, file, synced, ceiling, session, exposing, wanted, saves, outages>>

TunnelsInit ==
    /\ policy = [ports |-> [n \in Service |-> NoUse], perPeer |-> PerPeer, total |-> Total]
    /\ file = policy /\ synced = policy /\ ceiling = policy.total
    /\ session = [s \in Session |-> [stage |-> "new", valid |-> FALSE, room |-> 0]]
    /\ tunnel = [t \in Tunnel |-> IdleTunnel]
    /\ exposing = {}
    /\ wanted = [n \in Service |-> {NoUse}]
    /\ saves = 0 /\ outages = 0

TunnelsNext ==
    \/ \E o \in Outcome :
        \/ \E n \in Service, port \in Port \cup {NoUse} : Expose(n, port, o)
        \/ \E c, d \in Ceiling : SaveLimits(c, d, o)
    \/ FinishExpose
    \/ Restart(file) \/ Restart(synced)
    \/ \E s \in Session : Register(s) \/ BeginDraining(s) \/ EndSession(s)
    \/ \E t \in Tunnel :
        \/ \E s \in Session : AcceptIncoming(t, s) \/ ConnectOut(t, s)
        \/ \E n \in Service : LookUp(t, n)
        \/ OpenTunnel(t) \/ EndTunnel(t)

TunnelsSpec == TunnelsInit /\ [][TunnelsNext]_tunnelVars

-----------------------------------------------------------------------------
(* Properties *)

\* Once a removal or a retarget was answered, a tunnel with authority left
\* leads to the port its service is exposed at: a task that looked the port
\* up before the change has lost its session, on active and on draining
\* connections.
OpenIsExposed ==
    \A t \in Busy :
        tunnel[t].stage \in {"connecting", "open"} /\ IsCurrent(tunnel[t].session) /\ exposing = {} =>
            policy.ports[tunnel[t].service] = tunnel[t].port

\* The running policy and whatever a restart may load expose a service only
\* at a port the owner asked for since the last change that succeeded; other
\* commands that rewrite the file between failures bring nothing back.
ExposureIsWanted ==
    \A p \in {policy, file, synced}, n \in Service : p.ports[n] \in wanted[n]

\* A connection never carries more tunnels, both ways together, than its
\* peer was allowed when it was registered, and all connections together no
\* more than the runtime was started with, however limits change.
TunnelsBounded ==
    /\ Cardinality(Busy) =< ceiling
    /\ \A s \in Session : Cardinality(Of(s)) =< session[s].room

\* Every variable has its type; a task holds the service and the port it looked
\* up, and a port in use is never zero.
PolicyType == [ports : [Service -> Port \cup {NoUse}], perPeer : Ceiling, total : Ceiling]
SessionType == [stage : {"new", "active", "draining", "ended"}, valid : BOOLEAN, room : Nat]
TunnelType ==
    {IdleTunnel}
    \cup [stage : {"reading"}, session : Session, way : {"in"}]
    \cup [stage : {"connecting", "open"}, session : Session, way : {"in"}, service : Service, port : Port]
    \cup [stage : {"sending"}, session : Session, way : {"out"}]
TunnelsTypeOK ==
    /\ {policy, file, synced} \subseteq PolicyType /\ ceiling \in Ceiling
    /\ session \in [Session -> SessionType]
    /\ tunnel \in [Tunnel -> TunnelType]
    /\ exposing \subseteq {"invalidate"}
    /\ wanted \in [Service -> SUBSET (Port \cup {NoUse})]
    /\ saves \in Nat /\ outages \in Nat

\* Why a change of the policy reaches every task: authority is held only by
\* connections that FinishExpose looks at, and no task belongs to a connection
\* that is still to be registered.
AuthorityIsRegistered ==
    /\ \A s \in Session : session[s].valid => session[s].stage \in {"active", "draining"}
    /\ \A t \in Busy : session[tunnel[t].session].stage # "new"
    /\ IsFiniteSet(Busy)

\* While policies, sessions and tunnel tasks change under one another, tunnels
\* lead only where the owner wants them and stay within their limits.
TunnelsAreSafe ==
    /\ TunnelsTypeOK /\ AuthorityIsRegistered
    /\ OpenIsExposed /\ ExposureIsWanted /\ TunnelsBounded
=============================================================================
