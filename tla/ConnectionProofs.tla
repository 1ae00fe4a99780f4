-------------------------- MODULE ConnectionProofs --------------------------
(***************************************************************************)
(* What runs over the connections of a computer, for every value of the    *)
(* constants: tunnels lead only where the owner wants them and stay within *)
(* their limits (Tunnels), and a dial after an introduction answers a      *)
(* request of this computer that was still open (Rendezvous).              *)
(***************************************************************************)
EXTENDS Tunnels, Rendezvous, FiniteSetTheorems, WellFoundedInduction, TLAPS

-----------------------------------------------------------------------------
(* Tunnels *)

\* What a task's record tells, whatever the task is doing.
LEMMA TunnelShape ==
  ASSUME NEW r \in TunnelType
  PROVE  /\ r.stage = "free" <=> r = IdleTunnel
         /\ r.stage # "free" => r.session \in Session /\ r.way \in {"in", "out"}
         /\ r.stage \in {"connecting", "open"} => r.service \in Service /\ r.port \in Port
BY DEF TunnelType, IdleTunnel

\* A port in use is not the one that stands for none.
LEMMA PortIsUse == NoUse \notin Port
BY TunnelsAssumption DEF TunnelsAssumption, NoUse

\* Without tasks there is nothing to count.
LEMMA NoTasks == IsFiniteSet({}) /\ Cardinality({}) = 0
BY FS_EmptySet

\* Fewer tasks keep the limits (the end of a task, a failed setup).
LEMMA FewerTasks ==
  ASSUME TunnelsAreSafe, UNCHANGED <<ceiling, session>>,
         \A s \in Session : Of(s)' \subseteq Of(s), Busy' \subseteq Busy
  PROVE  TunnelsBounded' /\ IsFiniteSet(Busy')
<1>1. IsFiniteSet(Busy) BY DEF TunnelsAreSafe, AuthorityIsRegistered
<1>2. IsFiniteSet(Busy') /\ Cardinality(Busy') =< Cardinality(Busy)
  BY <1>1, FS_Subset
<1>3. \A s \in Session : /\ Cardinality(Of(s)') =< Cardinality(Of(s))
                         /\ Cardinality(Of(s)) \in Nat /\ Cardinality(Of(s)') \in Nat
  <2> TAKE s \in Session
  <2>1. IsFiniteSet(Of(s)) BY <1>1, FS_Subset DEF Of
  <2>2. IsFiniteSet(Of(s)') BY <1>2, FS_Subset DEF Of
  <2> QED BY <2>1, <2>2, FS_Subset, FS_CardinalityType, Zenon
<1>4. Cardinality(Busy) \in Nat /\ Cardinality(Busy') \in Nat
  BY <1>1, <1>2, FS_CardinalityType, Zenon
<1>5. ceiling \in Nat /\ \A s \in Session : session[s].room \in Nat
  BY TunnelsAssumption DEF TunnelsAssumption, TunnelsAreSafe, TunnelsTypeOK, SessionType
<1>6. TunnelsBounded BY DEF TunnelsAreSafe
<1> QED BY <1>2, <1>3, <1>4, <1>5, <1>6 DEF TunnelsBounded

\* A task that both semaphores admitted keeps the limits (admit, incoming).
LEMMA OneMoreTask ==
  ASSUME TunnelsAreSafe, UNCHANGED <<ceiling, session>>,
         NEW t \in Tunnel, NEW s \in Session, NEW r, t \notin Busy, Admitted(s),
         r.stage # "free", r.session = s, tunnel' = [tunnel EXCEPT ![t] = r]
  PROVE  TunnelsBounded' /\ IsFiniteSet(Busy')
<1>1. tunnel \in [Tunnel -> TunnelType] BY DEF TunnelsAreSafe, TunnelsTypeOK
<1>2. Busy' = Busy \cup {t} BY <1>1 DEF Busy
<1>3. Of(s)' = Of(s) \cup {t} BY <1>1, <1>2, Zenon DEF Of, Busy
<1>4. \A u \in Session : u # s => Of(u)' = Of(u)
  BY <1>1, <1>2, Zenon DEF Of, Busy
<1>5. IsFiniteSet(Busy) BY DEF TunnelsAreSafe, AuthorityIsRegistered
<1>6. /\ IsFiniteSet(Busy') /\ Cardinality(Busy) \in Nat
      /\ Cardinality(Busy') = Cardinality(Busy) + 1
  BY <1>2, <1>5, FS_AddElement, FS_CardinalityType, Zenon
<1>7. IsFiniteSet(Of(s)) /\ t \notin Of(s) BY <1>5, FS_Subset, Zenon DEF Of
<1>8. Cardinality(Of(s)) \in Nat /\ Cardinality(Of(s)') = Cardinality(Of(s)) + 1
  BY <1>3, <1>7, FS_AddElement, FS_CardinalityType, ZenonT(60)
<1>9. ceiling \in Nat /\ \A u \in Session : session[u].room \in Nat
  BY TunnelsAssumption DEF TunnelsAssumption, TunnelsAreSafe, TunnelsTypeOK, SessionType
<1>10. TunnelsBounded BY DEF TunnelsAreSafe
<1> QED BY <1>4, <1>6, <1>8, <1>9, <1>10 DEF TunnelsBounded, Admitted

\* The service starts with the file's policy, no connection and no task.
LEMMA TunnelsInitOK == TunnelsInit => TunnelsAreSafe
<1> SUFFICES ASSUME TunnelsInit PROVE TunnelsAreSafe
  OBVIOUS
<1>1. Busy = {} BY DEF TunnelsInit, Busy, IdleTunnel
<1>2. \A s \in Session : Of(s) = {} BY <1>1 DEF Of
<1>3. policy \in PolicyType /\ file = policy /\ synced = policy
  BY TunnelsAssumption, Zenon DEF TunnelsInit, TunnelsAssumption, PolicyType
<1>4. TunnelsTypeOK
  BY <1>3, TunnelsAssumption, Zenon
  DEF TunnelsInit, TunnelsTypeOK, TunnelsAssumption, SessionType, TunnelType
<1>5. AuthorityIsRegistered
  BY <1>1, FS_EmptySet, Zenon DEF AuthorityIsRegistered, TunnelsInit
<1>6. OpenIsExposed BY <1>1, Zenon DEF OpenIsExposed
<1>7. ExposureIsWanted BY <1>3 DEF ExposureIsWanted, TunnelsInit
<1>8. TunnelsBounded
  <2>1. ceiling \in Nat BY TunnelsAssumption, Zenon DEF TunnelsInit, TunnelsAssumption
  <2>2. \A s \in Session : session[s].room = 0 BY Zenon DEF TunnelsInit
  <2> QED BY <1>1, <1>2, <2>1, <2>2, NoTasks DEF TunnelsBounded
<1> QED BY <1>4, <1>5, <1>6, <1>7, <1>8, Zenon DEF TunnelsAreSafe

\* A change of the policy alone: tasks and connections are as they were.
LEMMA PolicyStep ==
  ASSUME TunnelsAreSafe, UNCHANGED <<ceiling, session, tunnel>>
  PROVE  AuthorityIsRegistered' /\ TunnelsBounded'
BY DEF TunnelsAreSafe, AuthorityIsRegistered, TunnelsBounded, Busy, Of

\* expose, up to the invalidation.
LEMMA ExposeOK ==
  ASSUME TunnelsAreSafe, NEW n \in Service, NEW port \in Port \cup {NoUse}, NEW o \in Outcome,
         Expose(n, port, o)
  PROVE  TunnelsAreSafe'
<1> DEFINE new == [policy EXCEPT !.ports[n] = port]
<1>1. /\ {policy, file, synced} \subseteq PolicyType /\ wanted \in [Service -> SUBSET (Port \cup {NoUse})]
      /\ saves \in Nat
  BY DEF TunnelsAreSafe, TunnelsTypeOK
<1>2. new \in PolicyType /\ new.ports = [policy.ports EXCEPT ![n] = port]
  BY <1>1, Zenon DEF PolicyType
<1>3. /\ policy' \in {policy, new} /\ file' \in {file, new} /\ synced' \in {synced, new}
      /\ o # "saved" => policy' = policy /\ synced' = synced
      /\ wanted' = [wanted EXCEPT ![n] = IF o = "saved" THEN {port} ELSE @ \cup {port}]
      /\ o = "saved" => policy' = new /\ file' = new /\ synced' = new
      /\ saves' \in Nat
  BY <1>1 DEF Expose, Save, Outcome
<1>4. UNCHANGED <<ceiling, session, tunnel, outages>> BY Zenon DEF Expose
<1>5. TunnelsTypeOK'
  BY <1>1, <1>2, <1>3, <1>4 DEF TunnelsAreSafe, TunnelsTypeOK, Expose
<1>6. ExposureIsWanted'
  <2> SUFFICES ASSUME NEW p \in {policy', file', synced'}, NEW m \in Service
               PROVE  p.ports[m] \in wanted'[m]
    BY DEF ExposureIsWanted
  <2>1. \A q \in {policy, file, synced} : q.ports[m] \in wanted[m] /\ q.ports \in [Service -> Port \cup {NoUse}]
    BY <1>1 DEF TunnelsAreSafe, ExposureIsWanted, PolicyType
  <2>2. CASE o = "saved"
    BY <1>1, <1>2, <1>3, <2>1, <2>2, ZenonT(60)
  <2>3. CASE o # "saved"
    BY <1>1, <1>2, <1>3, <2>1, <2>3, ZenonT(60)
  <2> QED BY <2>2, <2>3, Zenon
<1>7. OpenIsExposed'
  <2> SUFFICES ASSUME NEW t \in Busy', tunnel'[t].stage \in {"connecting", "open"},
                      IsCurrent(tunnel[t].session)', exposing' = {}
               PROVE  policy'.ports[tunnel'[t].service] = tunnel'[t].port
    BY DEF OpenIsExposed
  <2>1. t \in Busy /\ t \in Tunnel /\ tunnel[t] \in TunnelType
    BY <1>4, Zenon DEF Busy, TunnelsAreSafe, TunnelsTypeOK
  <2>2. policy.ports[tunnel[t].service] = tunnel[t].port
    BY <1>4, <2>1, Zenon DEF TunnelsAreSafe, OpenIsExposed, IsCurrent, Expose
  <2>3. tunnel[t].service \in Service /\ tunnel[t].port \in Port
    BY <1>4, <2>1, TunnelShape, Zenon
  <2>4. CASE policy' = policy BY <1>4, <2>2, <2>4, Zenon
  <2>5. CASE policy' = new /\ o = "saved"
    <3>1. ~RemovesGrant(n, port) BY <2>5 DEF Expose
    <3>2. policy.ports[n] = NoUse \/ policy.ports[n] = port BY <3>1, Zenon DEF RemovesGrant
    <3>3. policy.ports \in [Service -> Port \cup {NoUse}] BY <1>1 DEF PolicyType
    <3> QED BY <1>2, <1>4, <2>2, <2>3, <2>5, <3>2, <3>3, PortIsUse
  <2> QED BY <1>3, <2>4, <2>5
<1> QED BY <1>4, <1>5, <1>6, <1>7, PolicyStep, Zenon DEF TunnelsAreSafe

\* save_limits leaves the ports alone.
LEMMA SaveLimitsOK ==
  ASSUME TunnelsAreSafe, NEW c \in Ceiling, NEW d \in Ceiling, NEW o \in Outcome, SaveLimits(c, d, o)
  PROVE  TunnelsAreSafe'
<1> DEFINE new == [policy EXCEPT !.perPeer = c, !.total = d]
<1>1. {policy, file, synced} \subseteq PolicyType /\ saves \in Nat
  BY DEF TunnelsAreSafe, TunnelsTypeOK
<1>2. new \in PolicyType /\ new.ports = policy.ports BY <1>1, Zenon DEF PolicyType
<1>3. /\ policy' \in {policy, new} /\ file' \in {file, new} /\ synced' \in {synced, new}
      /\ saves' \in Nat
      /\ UNCHANGED <<ceiling, session, tunnel, exposing, wanted, outages>>
  BY <1>1 DEF SaveLimits, Save, Outcome
<1>4. TunnelsTypeOK' BY <1>1, <1>2, <1>3 DEF TunnelsAreSafe, TunnelsTypeOK
<1>5. \A p \in {policy', file', synced'} : \E q \in {policy, file, synced} : p.ports = q.ports
  BY <1>2, <1>3, Zenon
<1>6. ExposureIsWanted' BY <1>3, <1>5 DEF TunnelsAreSafe, ExposureIsWanted
<1>7. policy'.ports = policy.ports BY <1>2, <1>3, Zenon
<1>8. OpenIsExposed' BY <1>3, <1>7 DEF TunnelsAreSafe, OpenIsExposed, Busy, IsCurrent
<1> QED BY <1>3, <1>4, <1>6, <1>8, PolicyStep, Zenon DEF TunnelsAreSafe

\* The invalidation by expose leaves no connection with authority.
LEMMA FinishExposeOK == TunnelsAreSafe /\ FinishExpose => TunnelsAreSafe'
<1> SUFFICES ASSUME TunnelsAreSafe, FinishExpose PROVE TunnelsAreSafe'
  OBVIOUS
<1>1. session \in [Session -> SessionType] BY DEF TunnelsAreSafe, TunnelsTypeOK
<1>2. \A s \in Session : /\ session'[s] \in SessionType /\ ~session'[s].valid
                         /\ session'[s].stage = session[s].stage /\ session'[s].room = session[s].room
  <2> TAKE s \in Session
  <2>1. session[s] \in SessionType BY <1>1
  <2>2. ~session[s].valid \/ InvalidatedByExpose(s)
    BY DEF TunnelsAreSafe, AuthorityIsRegistered, InvalidatedByExpose
  <2> QED BY <2>1, <2>2, Zenon DEF FinishExpose, SessionType
<1>3. session' \in [Session -> SessionType] BY <1>2 DEF FinishExpose
<1>4. TunnelsTypeOK' BY <1>3 DEF TunnelsAreSafe, TunnelsTypeOK, FinishExpose
<1>5. tunnel' = tunnel /\ Busy' = Busy /\ \A s \in Session : Of(s)' = Of(s)
  BY DEF FinishExpose, Busy, Of
<1>6. \A t \in Busy : tunnel[t].session \in Session
  BY TunnelShape, Zenon DEF Busy, TunnelsAreSafe, TunnelsTypeOK
<1>7. AuthorityIsRegistered'
  BY <1>2, <1>5, <1>6, Zenon DEF TunnelsAreSafe, AuthorityIsRegistered
<1>8. OpenIsExposed' BY <1>2, <1>5, <1>6 DEF OpenIsExposed, IsCurrent
<1>9. ExposureIsWanted' BY DEF TunnelsAreSafe, ExposureIsWanted, FinishExpose
<1>10. TunnelsBounded' BY <1>2, <1>5 DEF TunnelsAreSafe, TunnelsBounded, FinishExpose
<1> QED BY <1>4, <1>7, <1>8, <1>9, <1>10, Zenon DEF TunnelsAreSafe

\* After a restart there is no task, and the policy is one that was written.
LEMMA RestartOK ==
  ASSUME TunnelsAreSafe, NEW left \in {file, synced}, Restart(left)
  PROVE  TunnelsAreSafe'
<1>1. left \in PolicyType BY DEF TunnelsAreSafe, TunnelsTypeOK
<1>2. Busy' = {} /\ \A s \in Session : Of(s)' = {}
  BY Zenon DEF Restart, Busy, Of, IdleTunnel
<1>3. session \in [Session -> SessionType] BY DEF TunnelsAreSafe, TunnelsTypeOK
<1>4. \A s \in Session : /\ session'[s] \in SessionType /\ session'[s].room = session[s].room
                         /\ ~session'[s].valid
  <2> TAKE s \in Session
  <2>1. session[s] \in SessionType BY <1>3, Zenon
  <2>2. session[s].stage = "new" => ~session[s].valid BY DEF TunnelsAreSafe, AuthorityIsRegistered
  <2> QED BY <2>1, <2>2, Zenon DEF Restart, SessionType
<1>5. session' \in [Session -> SessionType] BY <1>4, ZenonT(60) DEF Restart
<1>6. ceiling' \in Ceiling BY <1>1, Zenon DEF Restart, PolicyType
<1>7. TunnelsTypeOK'
  <2>1. tunnel' \in [Tunnel -> TunnelType] BY ZenonT(60) DEF Restart, TunnelType
  <2>2. {policy', file', synced'} \subseteq PolicyType BY <1>1, Zenon DEF Restart
  <2>3. outages \in Nat BY DEF TunnelsAreSafe, TunnelsTypeOK
  <2>4. outages' = outages + 1 /\ exposing' = {} /\ wanted' = wanted /\ saves' = saves
    BY Zenon DEF Restart
  <2>5. wanted \in [Service -> SUBSET (Port \cup {NoUse})] /\ saves \in Nat
    BY DEF TunnelsAreSafe, TunnelsTypeOK
  <2> QED BY <1>5, <1>6, <2>1, <2>2, <2>3, <2>4, <2>5 DEF TunnelsTypeOK
<1>8. AuthorityIsRegistered' BY <1>2, <1>4, NoTasks, Zenon DEF AuthorityIsRegistered
<1>9. OpenIsExposed' BY <1>2 DEF OpenIsExposed
<1>10. ExposureIsWanted' BY Zenon DEF TunnelsAreSafe, ExposureIsWanted, Restart
<1>11. TunnelsBounded'
  <2>1. ceiling' \in Nat BY <1>6, TunnelsAssumption, Zenon DEF TunnelsAssumption
  <2>2. \A s \in Session : session'[s].room \in Nat BY <1>4 DEF SessionType
  <2> QED BY <1>2, <2>1, <2>2, NoTasks DEF TunnelsBounded
<1> QED BY <1>7, <1>8, <1>9, <1>10, <1>11, Zenon DEF TunnelsAreSafe

\* A connection is registered, drained or ended: of these only registration
\* gives authority, and to a connection without tasks.
LEMMA SessionStepOK ==
  ASSUME TunnelsAreSafe, NEW s \in Session, Register(s) \/ BeginDraining(s) \/ EndSession(s)
  PROVE  TunnelsAreSafe'
<1>1. /\ session \in [Session -> SessionType] /\ policy \in PolicyType /\ Ceiling \subseteq Nat
      /\ UNCHANGED <<policy, file, synced, ceiling, tunnel, exposing, wanted, saves, outages>>
  BY TunnelsAssumption, Zenon
  DEF TunnelsAreSafe, TunnelsTypeOK, TunnelsAssumption, Register, BeginDraining, EndSession
<1>2. /\ session' \in [Session -> SessionType]
      /\ \A u \in Session : u # s => session'[u] = session[u]
      /\ session'[s].valid => session'[s].stage \in {"active", "draining"}
      /\ session'[s].stage # "new"
      /\ session[s].stage # "new" => /\ session'[s].room = session[s].room
                                     /\ session'[s].valid => session[s].valid
  <2>1. CASE Register(s) BY <1>1, <2>1, Zenon DEF Register, SessionType, PolicyType
  <2>2. CASE BeginDraining(s) BY <1>1, <2>2 DEF BeginDraining, SessionType
  <2>3. CASE EndSession(s) BY <1>1, <2>3, ZenonT(60) DEF EndSession, SessionType
  <2> QED BY <2>1, <2>2, <2>3
<1>3. Busy' = Busy /\ \A u \in Session : Of(u)' = Of(u) BY <1>1 DEF Busy, Of
<1>4. \A t \in Busy : /\ t \in Tunnel /\ tunnel[t].session \in Session
                      /\ session[tunnel[t].session].stage # "new"
  BY TunnelShape, Zenon DEF Busy, TunnelsAreSafe, TunnelsTypeOK, AuthorityIsRegistered
<1>5. session[s].stage = "new" => Of(s) = {} BY <1>4, Zenon DEF Of
<1>6. TunnelsTypeOK' BY <1>1, <1>2, Zenon DEF TunnelsAreSafe, TunnelsTypeOK
<1>7. AuthorityIsRegistered'
  BY <1>1, <1>2, <1>3, <1>4, ZenonT(60) DEF TunnelsAreSafe, AuthorityIsRegistered
<1>8. OpenIsExposed'
  BY <1>1, <1>2, <1>3, <1>4 DEF TunnelsAreSafe, OpenIsExposed, IsCurrent
<1>9. ExposureIsWanted' BY <1>1, Zenon DEF TunnelsAreSafe, ExposureIsWanted
<1>10. TunnelsBounded'
  <2>1. session'[s].room \in Nat BY <1>2 DEF SessionType
  <2>2. Cardinality(Busy') =< ceiling' BY <1>1, <1>3, Zenon DEF TunnelsAreSafe, TunnelsBounded
  <2>3. ASSUME NEW u \in Session PROVE Cardinality(Of(u)') =< session'[u].room
    <3>1. CASE u = s /\ session[s].stage = "new"
      <4>1. Cardinality(Of(u)') = 0 BY <1>3, <1>5, <3>1, FS_EmptySet, Zenon
      <4> QED BY <2>1, <3>1, <4>1
    <3>2. CASE u # s \/ session[s].stage # "new"
      BY <1>2, <1>3, <3>2, Zenon DEF TunnelsAreSafe, TunnelsBounded
    <3> QED BY <3>1, <3>2, Zenon
  <2> QED BY <2>2, <2>3, Zenon DEF TunnelsBounded
<1> QED BY <1>6, <1>7, <1>8, <1>9, <1>10, Zenon DEF TunnelsAreSafe

\* A task starts, with the permits of both semaphores.
LEMMA StartTaskOK ==
  ASSUME TunnelsAreSafe, NEW t \in Tunnel, NEW s \in Session, AcceptIncoming(t, s) \/ ConnectOut(t, s)
  PROVE  TunnelsAreSafe'
<1>1. /\ tunnel \in [Tunnel -> TunnelType] /\ t \notin Busy /\ Admitted(s)
      /\ UNCHANGED <<policy, file, synced, ceiling, session, exposing, wanted, saves, outages>>
  BY DEF TunnelsAreSafe, TunnelsTypeOK, AcceptIncoming, ConnectOut
<1>2. PICK r \in TunnelType : /\ r.stage \in {"reading", "sending"} /\ r.session = s
                              /\ tunnel' = [tunnel EXCEPT ![t] = r]
  BY Zenon DEF AcceptIncoming, ConnectOut, TunnelType
<1>3. TunnelsBounded' /\ IsFiniteSet(Busy') BY <1>1, <1>2, OneMoreTask, Zenon
<1>4. TunnelsTypeOK' BY <1>1, <1>2, Zenon DEF TunnelsAreSafe, TunnelsTypeOK
<1>5. \A u \in Busy' : (u = t /\ tunnel'[u] = r) \/ (u \in Busy /\ tunnel'[u] = tunnel[u])
  BY <1>1, <1>2, Zenon DEF Busy
<1>6. AuthorityIsRegistered'
  BY <1>1, <1>2, <1>3, <1>5, ZenonT(60) DEF TunnelsAreSafe, AuthorityIsRegistered, Admitted
<1>7. OpenIsExposed' BY <1>1, <1>2, <1>5 DEF TunnelsAreSafe, OpenIsExposed, IsCurrent
<1>8. ExposureIsWanted' BY <1>1, Zenon DEF TunnelsAreSafe, ExposureIsWanted
<1> QED BY <1>3, <1>4, <1>6, <1>7, <1>8 DEF TunnelsAreSafe

\* A task goes on or ends, on the connection it was started for.
LEMMA TaskStepOK ==
  ASSUME TunnelsAreSafe, NEW t \in Busy, NEW r \in TunnelType,
         tunnel' = [tunnel EXCEPT ![t] = r],
         r.stage # "free" => r.session = tunnel[t].session,
         r.stage \in {"connecting", "open"} /\ IsCurrent(r.session) /\ exposing = {} =>
            policy.ports[r.service] = r.port,
         UNCHANGED <<policy, file, synced, ceiling, session, exposing, wanted, saves, outages>>
  PROVE  TunnelsAreSafe'
<1>1. tunnel \in [Tunnel -> TunnelType] /\ t \in Tunnel BY Zenon DEF TunnelsAreSafe, TunnelsTypeOK, Busy
<1>2. \A u \in Busy' : u \in Busy /\ ((u = t /\ tunnel'[u] = r) \/ tunnel'[u] = tunnel[u])
  BY <1>1, Zenon DEF Busy
<1>3. \A s \in Session : Of(s)' \subseteq Of(s)
  <2> TAKE s \in Session
  <2> SUFFICES ASSUME NEW u \in Of(s)' PROVE u \in Of(s)
    BY Zenon
  <2>1. u \in Busy' /\ tunnel'[u].session = s BY Zenon DEF Of
  <2>2. tunnel[u].session = s BY <1>1, <1>2, <2>1, Zenon DEF Busy
  <2> QED BY <1>2, <2>1, <2>2, Zenon DEF Of
<1>4. TunnelsBounded' /\ IsFiniteSet(Busy') BY <1>2, <1>3, FewerTasks, Zenon
<1>5. TunnelsTypeOK' BY <1>1, Zenon DEF TunnelsAreSafe, TunnelsTypeOK
<1>6. \A u \in Busy' : tunnel'[u].session = tunnel[u].session
  BY <1>1, <1>2, Zenon DEF Busy
<1>7. AuthorityIsRegistered'
  BY <1>2, <1>4, <1>6, ZenonT(60) DEF TunnelsAreSafe, AuthorityIsRegistered
<1>8. OpenIsExposed' BY <1>2 DEF TunnelsAreSafe, OpenIsExposed, IsCurrent
<1>9. ExposureIsWanted' BY DEF TunnelsAreSafe, ExposureIsWanted
<1> QED BY <1>4, <1>5, <1>7, <1>8, <1>9, Zenon DEF TunnelsAreSafe

\* The setup of incoming reads the port that is exposed at that moment.
LEMMA LookUpOK ==
  ASSUME TunnelsAreSafe, NEW t \in Tunnel, NEW n \in Service, LookUp(t, n)
  PROVE  TunnelsAreSafe'
<1>1. tunnel[t] \in TunnelType /\ t \in Busy
  BY Zenon DEF TunnelsAreSafe, TunnelsTypeOK, LookUp, Busy
<1>2. tunnel[t].session \in Session BY <1>1, TunnelShape, Zenon DEF Busy
<1>3. policy.ports[n] \in Port \cup {NoUse} BY DEF TunnelsAreSafe, TunnelsTypeOK, PolicyType
<1> DEFINE found == [stage |-> "connecting", session |-> tunnel[t].session, way |-> "in", service |-> n,
                     port |-> policy.ports[n]]
<1>4. CASE IsCurrent(tunnel[t].session) /\ policy.ports[n] # NoUse
  <2>1. found \in TunnelType BY <1>2, <1>3, <1>4, Zenon DEF TunnelType
  <2>2. tunnel' = [tunnel EXCEPT ![t] = found] BY <1>4 DEF LookUp
  <2> QED BY <1>1, <2>1, <2>2, TaskStepOK, Zenon DEF LookUp
<1>5. CASE ~(IsCurrent(tunnel[t].session) /\ policy.ports[n] # NoUse)
  <2>1. IdleTunnel \in TunnelType /\ IdleTunnel.stage = "free" BY DEF TunnelType, IdleTunnel
  <2>2. tunnel' = [tunnel EXCEPT ![t] = IdleTunnel] BY <1>5, Zenon DEF LookUp
  <2> QED BY <1>1, <2>1, <2>2, TaskStepOK, Zenon DEF LookUp
<1> QED BY <1>4, <1>5, Zenon

\* The rest of the setup, and the end of a task.
LEMMA TaskEndsOK ==
  ASSUME TunnelsAreSafe, NEW t \in Tunnel, OpenTunnel(t) \/ EndTunnel(t)
  PROVE  TunnelsAreSafe'
<1>1. tunnel[t] \in TunnelType /\ t \in Busy
  BY Zenon DEF TunnelsAreSafe, TunnelsTypeOK, OpenTunnel, EndTunnel, Busy
<1>2. IdleTunnel \in TunnelType /\ IdleTunnel.stage = "free" BY DEF TunnelType, IdleTunnel
<1>3. CASE tunnel' = [tunnel EXCEPT ![t] = IdleTunnel]
  BY <1>1, <1>2, <1>3, TaskStepOK, Zenon DEF OpenTunnel, EndTunnel
<1>4. CASE tunnel[t].stage = "connecting" /\ tunnel' = [tunnel EXCEPT ![t] = [tunnel[t] EXCEPT !.stage = "open"]]
  <2> DEFINE r == [tunnel[t] EXCEPT !.stage = "open"]
  <2>1. tunnel[t] \in [stage : {"connecting", "open"}, session : Session, way : {"in"}, service : Service, port : Port]
    BY <1>1, <1>4 DEF TunnelType, IdleTunnel
  <2>2. /\ r \in TunnelType /\ r.stage = "open" /\ r.session = tunnel[t].session
        /\ r.service = tunnel[t].service /\ r.port = tunnel[t].port
    BY <2>1, Zenon DEF TunnelType
  <2>3. IsCurrent(r.session) /\ exposing = {} => policy.ports[r.service] = r.port
    BY <1>1, <1>4, <2>2, Zenon DEF TunnelsAreSafe, OpenIsExposed
  <2> HIDE DEF r
  <2>4. tunnel' = [tunnel EXCEPT ![t] = r] BY <1>4, Zenon DEF r
  <2> QED BY <1>1, <1>4, <2>2, <2>3, <2>4, TaskStepOK, Zenon DEF OpenTunnel, EndTunnel
<1> QED BY <1>3, <1>4, Zenon DEF OpenTunnel, EndTunnel

\* Every step of the service, its owner and its tasks keeps the invariant.
LEMMA TunnelsNextOK == TunnelsAreSafe /\ [TunnelsNext]_tunnelVars => TunnelsAreSafe'
<1> SUFFICES ASSUME TunnelsAreSafe, [TunnelsNext]_tunnelVars PROVE TunnelsAreSafe'
  OBVIOUS
<1>1. ASSUME NEW o \in Outcome, NEW n \in Service, NEW port \in Port \cup {NoUse}, Expose(n, port, o)
      PROVE TunnelsAreSafe'
  BY <1>1, ExposeOK, Zenon
<1>2. ASSUME NEW o \in Outcome, NEW c \in Ceiling, NEW d \in Ceiling, SaveLimits(c, d, o)
      PROVE TunnelsAreSafe'
  BY <1>2, SaveLimitsOK
<1>3. CASE FinishExpose BY <1>3, FinishExposeOK, Zenon
<1>4. CASE Restart(file) \/ Restart(synced) BY <1>4, RestartOK, Zenon
<1>5. ASSUME NEW s \in Session, Register(s) \/ BeginDraining(s) \/ EndSession(s) PROVE TunnelsAreSafe'
  BY <1>5, SessionStepOK, Zenon
<1>6. ASSUME NEW t \in Tunnel, NEW s \in Session, AcceptIncoming(t, s) \/ ConnectOut(t, s)
      PROVE TunnelsAreSafe'
  BY <1>6, StartTaskOK, Zenon
<1>7. ASSUME NEW t \in Tunnel, NEW n \in Service, LookUp(t, n) PROVE TunnelsAreSafe'
  BY <1>7, LookUpOK, Zenon
<1>8. ASSUME NEW t \in Tunnel, OpenTunnel(t) \/ EndTunnel(t) PROVE TunnelsAreSafe'
  BY <1>8, TaskEndsOK, Zenon
<1>9. CASE UNCHANGED tunnelVars
  BY <1>9, ZenonT(60) DEF tunnelVars, TunnelsAreSafe, TunnelsTypeOK, AuthorityIsRegistered, OpenIsExposed,
              ExposureIsWanted, TunnelsBounded, Busy, Of, IsCurrent
<1> QED BY <1>1, <1>2, <1>3, <1>4, <1>5, <1>6, <1>7, <1>8, <1>9, ZenonT(60) DEF TunnelsNext

\* Whatever the owner changes while tasks look ports up and connect, tunnels
\* with authority lead where the owner wants them, and the limits hold, with
\* any services, connections, tasks and limits (tunnel_policy::save, expose,
\* incoming, admit).
THEOREM TunnelsSafe == TunnelsSpec => []TunnelsAreSafe
<1> QED BY TunnelsInitOK, TunnelsNextOK, PTL DEF TunnelsSpec

-----------------------------------------------------------------------------
(* Introductions *)

\* A connection is a number, and there is none with oneself.
LEMMA CurrentIsNat ==
  ASSUME RendezvousTypeOK, NEW a \in Member, NEW b \in Member
  PROVE  Current(a, b) \in Nat
<1>1. CASE a = b BY <1>1 DEF Current
<1>2. CASE a # b
  <2>1. IsFiniteSet({a}) /\ Cardinality({a}) = 1 BY FS_Singleton, Zenon
  <2>2. Cardinality({a} \cup {b}) = 2 BY <1>2, <2>1, FS_AddElement
  <2>3. {a} \cup {b} = {a, b} OBVIOUS
  <2>4. {a, b} \in Pair BY <2>2, <2>3 DEF Pair
  <2> QED BY <1>2, <2>4 DEF Current, RendezvousTypeOK
<1> QED BY <1>1, <1>2

\* A dial that is added leaves the ones before it.
LEMMA AppendKeeps ==
  ASSUME RendezvousTypeOK
  PROVE  \A x : /\ DOMAIN dials \subseteq DOMAIN Append(dials, x)
                /\ \A d \in DOMAIN dials : Append(dials, x)[d] = dials[d]
<1>1. dials \in Seq([by : Member, target : Member, via : Member, id : Nat, at : Nat]) BY Zenon DEF RendezvousTypeOK
<1> QED BY <1>1

\* A request notes when it was made.
LEMMA AskedAt ==
  ASSUME RendezvousTypeOK, NEW k \in DOMAIN asked
  PROVE  asked[k].at \in Nat
<1> DEFINE T == [by : Member, target : Member, via : Member, at : Nat]
<1>1. asked \in Seq(T) BY DEF RendezvousTypeOK
<1>2. asked[k] \in T
  <2> HIDE DEF T
  <2> QED BY <1>1
<1> QED BY <1>2

\* Among finitely many intents one expires first.
LEMMA OldestExists ==
  ASSUME NEW S \in SUBSET Intent, S # {}
  PROVE  Oldest(S) \in S
<1> DEFINE R == OpToRel(<, Nat)
           T == {i.expires : i \in S}
<1>1. \A x, y \in Nat : y < x => <<y, x>> \in R BY DEF OpToRel
<1>2. IsWellFoundedOn(R, Nat) BY NatLessThanWellFounded
<1>3. T \subseteq Nat /\ T # {} BY DEF Intent
<1> HIDE DEF R, T
<1>4. PICK x \in T : \A y \in T : ~ (<<y, x>> \in R) BY <1>2, <1>3, WFMin, Zenon
<1>5. ASSUME NEW y \in T PROVE x =< y
  <2>1. x \in Nat /\ y \in Nat BY <1>3
  <2>2. ~ (y < x) BY <1>1, <1>4, <2>1, Zenon
  <2> QED BY <2>1, <2>2
<1>6. PICK i \in S : i.expires = x BY DEF T
<1>7. \A j \in S : i.expires =< j.expires BY <1>5, <1>6 DEF T
<1> QED BY <1>7 DEF Oldest

\* remember: what is left of the intents, and that they fit.
LEMMA RememberedFits ==
  ASSUME RendezvousTypeOK, NEW n \in Member, NEW intent, Cardinality(intents[n]) =< MaxIntents,
         \A i, j \in intents[n] : i.target = j.target => i = j
  PROVE  /\ intent \in Remembered(n, intent)
         /\ Remembered(n, intent) \subseteq PruneIntents(n) \cup {intent}
         /\ \A j \in Remembered(n, intent) : j # intent => j.target # intent.target
         /\ IsFiniteSet(Remembered(n, intent)) /\ Cardinality(Remembered(n, intent)) =< MaxIntents
<1> DEFINE live == PruneIntents(n)
           kept == {i \in live : i.target # intent.target}
           full == Cardinality(live) >= MaxIntents /\ kept = live
           room == IF full THEN kept \ {Oldest(kept)} ELSE kept
<1>1. Remembered(n, intent) = room \cup {intent} BY DEF Remembered
<1>2. IsFiniteSet(intents[n]) /\ intents[n] \subseteq Intent /\ MaxIntents \in Nat \ {0}
  BY RendezvousAssumption DEF RendezvousTypeOK
<1>3. /\ live \subseteq intents[n] /\ IsFiniteSet(live) /\ Cardinality(live) \in Nat
      /\ Cardinality(live) =< MaxIntents
  <2>1. live \subseteq intents[n] BY DEF PruneIntents
  <2>2. IsFiniteSet(live) /\ Cardinality(live) =< Cardinality(intents[n]) BY <1>2, <2>1, FS_Subset
  <2>3. Cardinality(live) \in Nat /\ Cardinality(intents[n]) \in Nat BY <1>2, <2>2, FS_CardinalityType
  <2> QED BY <1>2, <2>1, <2>2, <2>3
<1>4. kept \subseteq live /\ room \subseteq kept BY ZenonT(60)
<1> HIDE DEF live
<1>5. IsFiniteSet(room) /\ Cardinality(room) \in Nat /\ Cardinality(room) =< MaxIntents - 1
  <2>1. IsFiniteSet(kept) /\ Cardinality(kept) \in Nat /\ Cardinality(kept) =< Cardinality(live)
    BY <1>3, <1>4, FS_Subset, FS_CardinalityType
  <2>2. CASE full
    <3>1. kept # {}
      BY <1>2, <2>1, <2>2, FS_EmptySet
    <3>2. Oldest(kept) \in kept BY <1>2, <1>3, <1>4, <3>1, OldestExists, Zenon
    <3>3. IsFiniteSet(kept \ {Oldest(kept)}) /\ Cardinality(kept \ {Oldest(kept)}) = Cardinality(kept) - 1
      BY <2>1, <3>2, FS_RemoveElement, Zenon
    <3> QED BY <1>2, <1>3, <2>1, <2>2, <3>3, FS_CardinalityType
  <2>3. CASE ~full /\ kept = live BY <1>2, <1>3, <2>1, <2>3
  <2>4. CASE ~full /\ kept # live
    <3>1. PICK i \in live : i \notin kept BY <1>4, <2>4
    <3>2. kept \subseteq live \ {i} BY <1>4, <3>1
    <3>3. IsFiniteSet(live \ {i}) /\ Cardinality(live \ {i}) = Cardinality(live) - 1
      BY <1>3, <3>1, FS_RemoveElement
    <3>4. Cardinality(kept) =< Cardinality(live) - 1 BY <3>2, <3>3, FS_Subset
    <3> QED BY <1>2, <1>3, <2>1, <2>4, <3>4
  <2> QED BY <2>2, <2>3, <2>4
<1>6. IsFiniteSet(room \cup {intent}) /\ Cardinality(room \cup {intent}) =< MaxIntents
  <2> HIDE DEF room
  <2>1. CASE intent \in room
    <3>1. room \cup {intent} = room BY <2>1
    <3> QED BY <1>2, <1>5, <3>1
  <2>2. CASE intent \notin room
    <3>1. IsFiniteSet(room \cup {intent}) /\ Cardinality(room \cup {intent}) = Cardinality(room) + 1
      BY <1>5, <2>2, FS_AddElement, Zenon
    <3> QED BY <1>2, <1>5, <3>1
  <2> QED BY <2>1, <2>2
<1>7. \A j \in room : j \in live /\ j.target # intent.target OBVIOUS
<1> QED BY <1>1, <1>6, <1>7 DEF live

-----------------------------------------------------------------------------
(* The steps.  Only the requests, the intents, the dials and the clock matter *)
(* to the invariant; connections and datagrams need only their types.         *)

FramesTypeOK ==
    /\ link \in [Pair -> Nat] /\ links \in Nat
    /\ flying \subseteq [kind : {"request", "offer"}, from : Member, to : Member, on : Nat, id : Nat, target : Member]

\* Steps that leave requests, intents and dials alone.
LEMMA NothingAsked ==
  ASSUME IntroductionsAreAnswers, FramesTypeOK', UNCHANGED <<intents, asked, dials, instant>>
  PROVE  IntroductionsAreAnswers'
<1>1. RendezvousTypeOK' BY Zenon DEF IntroductionsAreAnswers, RendezvousTypeOK, FramesTypeOK
<1>2. DialAnswersRequest' /\ IntentsAreOpenRequests'
  BY DEF IntroductionsAreAnswers, DialAnswersRequest, IntentsAreOpenRequests
<1>3. NewestIntentKept' BY DEF IntroductionsAreAnswers, NewestIntentKept, Newest
<1> QED BY <1>1, <1>2, <1>3, Zenon DEF IntroductionsAreAnswers

\* Datagrams and connections come and go.
LEMMA FramesOK ==
  ASSUME IntroductionsAreAnswers,
         \/ \E m \in flying : Introduce(m) \/ Lose(m)
         \/ \E p \in Pair : Connects(p) \/ Closes(p)
  PROVE  IntroductionsAreAnswers'
<1>0. RendezvousTypeOK /\ FramesTypeOK BY Zenon DEF IntroductionsAreAnswers, RendezvousTypeOK, FramesTypeOK
<1>1. ASSUME NEW m \in flying, Introduce(m) PROVE IntroductionsAreAnswers'
  <2>1. /\ m.from \in Member /\ m.to \in Member /\ m.target \in Member /\ m.id \in Nat
    BY <1>0, Zenon DEF FramesTypeOK
  <2>2. /\ Offer(m.to, m.from, m.id, m.target) \in
              [kind : {"request", "offer"}, from : Member, to : Member, on : Nat, id : Nat, target : Member]
        /\ Offer(m.to, m.target, m.id, m.from) \in
              [kind : {"request", "offer"}, from : Member, to : Member, on : Nat, id : Nat, target : Member]
    BY <1>0, <2>1, CurrentIsNat, Zenon DEF Offer
  <2>3. flying' \subseteq flying \cup {Offer(m.to, m.from, m.id, m.target), Offer(m.to, m.target, m.id, m.from)}
    BY <1>1, Zenon DEF Introduce
  <2>4. FramesTypeOK' BY <1>0, <1>1, <2>2, <2>3, Zenon DEF Introduce, FramesTypeOK
  <2> QED BY <1>1, <2>4, NothingAsked, Zenon DEF Introduce
<1>2. ASSUME NEW m \in flying, Lose(m) PROVE IntroductionsAreAnswers'
  <2>1. FramesTypeOK' BY <1>0, <1>2, Zenon DEF Lose, FramesTypeOK
  <2> QED BY <1>2, <2>1, NothingAsked, Zenon DEF Lose
<1>3. ASSUME NEW p \in Pair, Connects(p) \/ Closes(p) PROVE IntroductionsAreAnswers'
  <2>1. FramesTypeOK' BY <1>0, <1>3 DEF Connects, Closes, FramesTypeOK
  <2> QED BY <1>3, <2>1, NothingAsked, Zenon DEF Connects, Closes
<1> QED BY <1>1, <1>2, <1>3, Zenon

\* TimePasses keeps the invariant.
LEMMA TimePassesOK ==
  ASSUME IntroductionsAreAnswers, TimePasses
  PROVE  IntroductionsAreAnswers'
<1>1. /\ instant \in Nat /\ instant' = instant + 1 /\ UNCHANGED <<link, links, flying, intents, asked, dials>>
      /\ IntentTime \in Nat
  BY RendezvousAssumption DEF TimePasses, IntroductionsAreAnswers, RendezvousTypeOK
<1>2. RendezvousTypeOK' BY <1>1 DEF IntroductionsAreAnswers, RendezvousTypeOK
<1>3. DialAnswersRequest' /\ IntentsAreOpenRequests'
  BY <1>1, ZenonT(60) DEF IntroductionsAreAnswers, DialAnswersRequest, IntentsAreOpenRequests
<1>4. NewestIntentKept'
  <2>1. \A k \in DOMAIN asked : asked[k].at \in Nat BY AskedAt DEF IntroductionsAreAnswers
  <2> QED BY <1>1, <2>1 DEF IntroductionsAreAnswers, NewestIntentKept, Newest
<1> QED BY <1>2, <1>3, <1>4, Zenon DEF IntroductionsAreAnswers

\* A request is sent and its intent remembered.
LEMMA AskOK ==
  ASSUME IntroductionsAreAnswers, NEW n \in Member, NEW target \in Member, NEW via \in Member, Ask(n, target, via)
  PROVE  IntroductionsAreAnswers'
<1> DEFINE id == Len(asked) + 1
           intent == [target |-> target, via |-> via, on |-> Current(n, via), id |-> id,
                      expires |-> instant + IntentTime]
           r == [by |-> n, target |-> target, via |-> via, at |-> instant]
<1>1. /\ asked' = Append(asked, r) /\ intents' = [intents EXCEPT ![n] = Remembered(n, intent)]
      /\ flying' = flying \cup {Request(n, via, id, target)} /\ UNCHANGED <<link, links, dials, instant>>
  BY Zenon DEF Ask
<1>2. /\ RendezvousTypeOK /\ IntentTime \in Nat /\ instant \in Nat /\ Current(n, via) \in Nat
      /\ asked \in Seq([by : Member, target : Member, via : Member, at : Nat])
      /\ Len(asked) \in Nat /\ DOMAIN asked = 1..Len(asked)
      /\ intents \in [Member -> SUBSET Intent]
  BY CurrentIsNat, RendezvousAssumption DEF IntroductionsAreAnswers, RendezvousTypeOK
<1>3. /\ intent \in Intent /\ intent.id = id /\ intent.target = target /\ intent.via = via
      /\ intent.expires = instant + IntentTime /\ intent.expires - IntentTime = instant
  BY <1>2 DEF Intent
<1>4. r \in [by : Member, target : Member, via : Member, at : Nat] /\ r.by = n /\ r.at = instant BY <1>2, Zenon
<1>5. /\ asked' \in Seq([by : Member, target : Member, via : Member, at : Nat])
      /\ DOMAIN asked' = 1..id /\ id \in Nat /\ asked'[id] = r
      /\ \A k \in DOMAIN asked : k \in DOMAIN asked' /\ k < id /\ asked'[k] = asked[k]
      /\ \A k \in DOMAIN asked' : k # id => k \in DOMAIN asked
  <2> HIDE DEF r
  <2> QED BY <1>1, <1>2, <1>4
<1> HIDE DEF intent
<1> DEFINE R == Remembered(n, intent)
<1>6. /\ intent \in R /\ R \subseteq PruneIntents(n) \cup {intent}
      /\ \A j \in R : j # intent => j.target # intent.target
      /\ IsFiniteSet(R) /\ Cardinality(R) =< MaxIntents
  <2>1. Cardinality(intents[n]) =< MaxIntents /\ \A i, j \in intents[n] : i.target = j.target => i = j
    BY Zenon DEF IntroductionsAreAnswers, NewestIntentKept
  <2> QED BY <1>2, <2>1, RememberedFits, Zenon
<1> HIDE DEF R
<1>7. intents'[n] = R /\ \A m \in Member : m # n => intents'[m] = intents[m]
  BY <1>1, <1>2, Zenon DEF R
<1>8. \A j \in R : j = intent \/ j \in intents[n] BY <1>6, Zenon DEF PruneIntents
<1>9. RendezvousTypeOK'
  <2>1. Request(n, via, id, target) \in
           [kind : {"request", "offer"}, from : Member, to : Member, on : Nat, id : Nat, target : Member]
    BY <1>2 DEF Request
  <2>2. intents' \in [Member -> SUBSET Intent]
    <3>1. R \subseteq Intent BY <1>2, <1>3, <1>8, Zenon
    <3> QED BY <1>1, <1>2, <3>1, Zenon DEF R
  <2>3. \A m \in Member : IsFiniteSet(intents'[m]) BY <1>2, <1>6, <1>7, ZenonT(60) DEF RendezvousTypeOK
  <2>4. \A d \in DOMAIN dials' : dials'[d].id \in DOMAIN asked' BY <1>1, <1>2, <1>5 DEF RendezvousTypeOK
  <2>5. flying' \subseteq [kind : {"request", "offer"}, from : Member, to : Member, on : Nat, id : Nat, target : Member]
    BY <1>1, <1>2, <2>1, ZenonT(60) DEF RendezvousTypeOK
  <2> QED BY <1>1, <1>2, <1>5, <2>2, <2>3, <2>4, <2>5, Zenon DEF RendezvousTypeOK
<1>10. DialAnswersRequest'
  <2>1. \A k \in DOMAIN dials : dials[k].id \in DOMAIN asked /\ asked'[dials[k].id] = asked[dials[k].id]
    BY <1>5, Zenon DEF IntroductionsAreAnswers, RendezvousTypeOK
  <2> QED BY <1>1, <2>1, ZenonT(60) DEF IntroductionsAreAnswers, DialAnswersRequest
<1>11. IntentsAreOpenRequests'
  <2> SUFFICES ASSUME NEW m \in Member, NEW i \in intents'[m]
               PROVE  /\ i.id \in DOMAIN asked'
                      /\ asked'[i.id] = [by |-> m, target |-> i.target, via |-> i.via, at |-> i.expires - IntentTime]
                      /\ \A d \in DOMAIN dials : dials[d].id # i.id
    BY <1>1, ZenonT(60) DEF IntentsAreOpenRequests
  <2>1. CASE i \in intents[m]
    BY <1>5, <2>1, Zenon DEF IntroductionsAreAnswers, IntentsAreOpenRequests
  <2>2. CASE i = intent /\ m = n
    <3>1. asked'[i.id] = [by |-> m, target |-> i.target, via |-> i.via, at |-> i.expires - IntentTime]
      BY <1>3, <1>5, <2>2
    <3>2. id \notin DOMAIN asked BY <1>2
    <3>3. id \in 1..id BY <1>2
    <3>4. \A d \in DOMAIN dials : dials[d].id # id
      BY <3>2, Zenon DEF IntroductionsAreAnswers, RendezvousTypeOK
    <3> HIDE DEF id
    <3> QED BY <1>3, <1>5, <2>2, <3>1, <3>3, <3>4, Zenon
  <2> QED BY <1>7, <1>8, <2>1, <2>2, Zenon
<1>12. NewestIntentKept'
  <2> SUFFICES ASSUME NEW m \in Member
               PROVE  /\ Cardinality(intents'[m]) =< MaxIntents
                      /\ \A i, j \in intents'[m] : i.target = j.target => i = j
                      /\ \A k \in DOMAIN asked' : Newest(m, k)' =>
                            \/ \E i \in intents'[m] : i.id = k
                            \/ \E d \in DOMAIN dials' : dials'[d].id = k
                            \/ instant' >= asked'[k].at + IntentTime
    BY Zenon DEF NewestIntentKept
  <2>1. CASE m = n
    <3>1. \A i, j \in R : i.target = j.target => i = j
      BY <1>6, <1>8, ZenonT(60) DEF IntroductionsAreAnswers, NewestIntentKept
    <3>2. \A k \in DOMAIN asked' : Newest(m, k)' => k = id BY <1>4, <1>5, <2>1 DEF Newest
    <3> QED BY <1>3, <1>6, <1>7, <2>1, <3>1, <3>2, Zenon
  <2>2. CASE m # n
    <3>1. ASSUME NEW k \in DOMAIN asked', Newest(m, k)' PROVE k \in DOMAIN asked /\ Newest(m, k) /\ asked'[k] = asked[k]
      <4>1. k # id BY <1>4, <1>5, <2>2, <3>1, Zenon DEF Newest
      <4>2. k \in DOMAIN asked /\ asked'[k] = asked[k] BY <1>5, <4>1, Zenon
      <4> QED BY <1>5, <3>1, <4>2, Zenon DEF Newest
    <3>2. intents'[m] = intents[m] BY <1>7, <2>2, Zenon
    <3> QED BY <1>1, <3>1, <3>2, ZenonT(60) DEF IntroductionsAreAnswers, NewestIntentKept
  <2> QED BY <2>1, <2>2, Zenon
<1> QED BY <1>9, <1>10, <1>11, <1>12, Zenon DEF IntroductionsAreAnswers

\* An offer is dialled when it answers an intent, and ignored otherwise.
LEMMA TakeOfferOK ==
  ASSUME IntroductionsAreAnswers, NEW m \in flying, TakeOffer(m)
  PROVE  IntroductionsAreAnswers'
<1> DEFINE n == m.to
           considered == OnCurrent(m) /\ m.from # m.target /\ m.target \notin Active(n)
           taken == IF considered THEN Matching(n, m) ELSE {}
           dial == [by |-> n, target |-> m.target, via |-> m.from, id |-> m.id, at |-> instant]
<1>1. /\ flying' = flying \ {m} /\ UNCHANGED <<link, links, asked, instant>>
      /\ intents' = IF considered THEN [intents EXCEPT ![n] = PruneIntents(n) \ taken] ELSE intents
      /\ dials' = IF taken = {} THEN dials ELSE Append(dials, dial)
  BY Zenon DEF TakeOffer
<1>2. /\ RendezvousTypeOK /\ IntentTime \in Nat /\ instant \in Nat
      /\ n \in Member /\ m.from \in Member /\ m.target \in Member /\ m.id \in Nat
      /\ intents \in [Member -> SUBSET Intent]
      /\ asked \in Seq([by : Member, target : Member, via : Member, at : Nat])
      /\ dials \in Seq([by : Member, target : Member, via : Member, id : Nat, at : Nat])
  BY RendezvousAssumption, Zenon DEF IntroductionsAreAnswers, RendezvousTypeOK
<1>3. FramesTypeOK' BY <1>1, <1>2, Zenon DEF RendezvousTypeOK, FramesTypeOK
<1>4. CASE ~considered
  BY <1>1, <1>3, <1>4, NothingAsked, Zenon
<1>5. CASE considered
  <2> DEFINE left == PruneIntents(n) \ taken
  <2>1. intents'[n] = left /\ \A q \in Member : q # n => intents'[q] = intents[q] BY <1>1, <1>2, <1>5, Zenon
  <2>2. \A i \in taken : i \in intents[n] /\ i.expires > instant /\ i.target = m.target /\ i.via = m.from /\ i.id = m.id
    BY Zenon DEF Matching, PruneIntents
  <2>3. /\ left \subseteq intents[n]
        /\ \A i \in intents[n] : i \in left \/ i \in taken \/ ~(i.expires > instant)
    BY Zenon DEF PruneIntents
  <2>4. \A q \in Member : intents'[q] \subseteq intents[q] BY <2>1, <2>3, Zenon
  <2>5. \A i \in intents[n] : i.expires \in Nat BY <1>2 DEF Intent
  <2>6. DOMAIN dials \subseteq DOMAIN dials' /\ \A d \in DOMAIN dials : dials'[d] = dials[d]
    <3>1. dials' = dials \/ dials' = Append(dials, dial) BY <1>1, Zenon
    <3> QED BY <3>1, AppendKeeps, Zenon DEF IntroductionsAreAnswers
  <2>7. \A k \in DOMAIN asked : asked[k].at \in Nat BY <1>2, AskedAt, ZenonT(60)
  <2>8. ASSUME taken # {}
        PROVE  /\ m.id \in DOMAIN asked
               /\ asked[m.id].by = n /\ asked[m.id].target = m.target /\ asked[m.id].via = m.from
               /\ instant < asked[m.id].at + IntentTime
               /\ \A d \in DOMAIN dials : dials[d].id # m.id
               /\ \A q \in Member : \A j \in intents'[q] : j.id # m.id
    <3>1. PICK i \in taken : TRUE BY <2>8
    <3>2. i \in intents[n] /\ i.expires > instant /\ i.target = m.target /\ i.via = m.from /\ i.id = m.id
      BY <2>2, <3>1, Zenon
    <3>3. /\ m.id \in DOMAIN asked
          /\ asked[m.id] = [by |-> n, target |-> i.target, via |-> i.via, at |-> i.expires - IntentTime]
          /\ \A d \in DOMAIN dials : dials[d].id # m.id
      <4>1. /\ i.id \in DOMAIN asked
            /\ asked[i.id] = [by |-> n, target |-> i.target, via |-> i.via, at |-> i.expires - IntentTime]
            /\ \A d \in DOMAIN dials : dials[d].id # i.id
        BY <1>2, <3>2, ZenonT(60) DEF IntroductionsAreAnswers, IntentsAreOpenRequests
      <4> QED BY <3>2, <4>1, Zenon
    <3> HIDE DEF taken
    <3>4. asked[m.id].at = i.expires - IntentTime BY <3>3
    <3>5. instant < asked[m.id].at + IntentTime
      <4>1. instant \in Nat /\ IntentTime \in Nat /\ i.expires \in Nat BY <1>2, <2>5, <3>2, Zenon
      <4> QED BY <3>2, <3>4, <4>1
    <3>6. ASSUME NEW q \in Member, NEW j \in intents'[q], j.id = m.id PROVE FALSE
      <4>1. j \in intents[q] BY <2>4, <3>6, Zenon
      <4>2. asked[j.id] = [by |-> q, target |-> j.target, via |-> j.via, at |-> j.expires - IntentTime]
        BY <4>1, ZenonT(60) DEF IntroductionsAreAnswers, IntentsAreOpenRequests
      <4>3. q = n /\ j.target = i.target BY <3>3, <3>6, <4>2
      <4>4. j = i BY <3>2, <4>1, <4>3, ZenonT(60) DEF IntroductionsAreAnswers, NewestIntentKept
      <4> QED BY <2>1, <3>1, <3>6, <4>3, <4>4, Zenon
    <3> QED BY <3>2, <3>3, <3>5, <3>6
  <2>9. ASSUME taken # {}
        PROVE  /\ dials' \in Seq([by : Member, target : Member, via : Member, id : Nat, at : Nat])
               /\ DOMAIN dials' = DOMAIN dials \cup {Len(dials) + 1} /\ Len(dials) + 1 \notin DOMAIN dials
               /\ dials'[Len(dials) + 1] = dial
    <3> DEFINE T == [by : Member, target : Member, via : Member, id : Nat, at : Nat]
    <3>1. dial \in T /\ dials \in Seq(T) BY <1>2, Zenon
    <3>2. dials' = Append(dials, dial) BY <1>1, <2>9, Zenon
    <3> HIDE DEF dial, T
    <3>3. /\ dials' \in Seq(T) /\ dials'[Len(dials) + 1] = dial
          /\ DOMAIN dials' = DOMAIN dials \cup {Len(dials) + 1} /\ Len(dials) + 1 \notin DOMAIN dials
      BY <3>1, <3>2
    <3> QED BY <3>3, Zenon DEF T
  <2>10. /\ dial.by = n /\ dial.target = m.target /\ dial.via = m.from /\ dial.id = m.id /\ dial.at = instant
    BY Zenon
  <2>11. taken = {} => dials' = dials BY <1>1, Zenon
  <2> HIDE DEF dial, taken, left, considered
  <2>12. RendezvousTypeOK'
    <3>1. intents' \in [Member -> SUBSET Intent] BY <1>1, <1>2, <1>5, <2>3, ZenonT(60) DEF left
    <3>2. \A q \in Member : IsFiniteSet(intents'[q]) BY <1>2, <2>4, FS_Subset DEF RendezvousTypeOK
    <3>3. \A d \in DOMAIN dials' : dials'[d].id \in DOMAIN asked
      <4>1. \A d \in DOMAIN dials : dials[d].id \in DOMAIN asked BY <1>2 DEF RendezvousTypeOK
      <4> QED BY <2>6, <2>8, <2>9, <2>10, <2>11, <4>1, ZenonT(60)
    <3>4. dials' \in Seq([by : Member, target : Member, via : Member, id : Nat, at : Nat])
      BY <1>2, <2>9, <2>11, Zenon
    <3> QED BY <1>1, <1>2, <1>3, <3>1, <3>2, <3>3, <3>4, Zenon DEF RendezvousTypeOK, FramesTypeOK
  <2>13. DialAnswersRequest'
    <3> SUFFICES ASSUME NEW d \in DOMAIN dials'
                 PROVE  /\ asked[dials'[d].id].by = dials'[d].by
                        /\ asked[dials'[d].id].target = dials'[d].target
                        /\ asked[dials'[d].id].via = dials'[d].via
                        /\ dials'[d].at < asked[dials'[d].id].at + IntentTime
                        /\ \A e \in DOMAIN dials' : dials'[e].id = dials'[d].id => e = d
      BY <1>1, Zenon DEF DialAnswersRequest
    <3>1. CASE taken = {}
      BY <2>11, <3>1, Zenon DEF IntroductionsAreAnswers, DialAnswersRequest
    <3>2. CASE taken # {} /\ d \in DOMAIN dials
      <4>1. dials'[d] = dials[d] BY <2>6, <3>2, Zenon
      <4>2. \A e \in DOMAIN dials' : dials'[e].id = dials[d].id => e = d
        <5>1. \A e \in DOMAIN dials : dials[e].id = dials[d].id => e = d
          BY <3>2, Zenon DEF IntroductionsAreAnswers, DialAnswersRequest
        <5>2. dials'[Len(dials) + 1].id # dials[d].id BY <2>8, <2>9, <2>10, <3>2, Zenon
        <5>3. ASSUME NEW e \in DOMAIN dials', dials'[e].id = dials[d].id PROVE e = d
          <6>1. e # Len(dials) + 1 BY <5>2, <5>3, Zenon
          <6>2. e \in DOMAIN dials BY <2>9, <3>2, <6>1, Zenon
          <6>3. dials'[e] = dials[e] BY <2>6, <6>2, Zenon
          <6> QED BY <5>1, <5>3, <6>2, <6>3, Zenon
        <5> QED BY <5>3, Zenon
      <4> QED BY <3>2, <4>1, <4>2, Zenon DEF IntroductionsAreAnswers, DialAnswersRequest
    <3>3. CASE taken # {} /\ d = Len(dials) + 1
      BY <2>6, <2>8, <2>9, <2>10, <3>3, ZenonT(60)
    <3> QED BY <2>9, <3>1, <3>2, <3>3, Zenon
  <2>14. IntentsAreOpenRequests'
    <3> SUFFICES ASSUME NEW q \in Member, NEW i \in intents'[q]
                 PROVE  /\ i.id \in DOMAIN asked
                        /\ asked[i.id] = [by |-> q, target |-> i.target, via |-> i.via, at |-> i.expires - IntentTime]
                        /\ \A d \in DOMAIN dials' : dials'[d].id # i.id
      BY <1>1 DEF IntentsAreOpenRequests
    <3>1. /\ i.id \in DOMAIN asked
          /\ asked[i.id] = [by |-> q, target |-> i.target, via |-> i.via, at |-> i.expires - IntentTime]
          /\ \A d \in DOMAIN dials : dials[d].id # i.id
      BY <2>4, Zenon DEF IntroductionsAreAnswers, IntentsAreOpenRequests
    <3> QED BY <2>6, <2>8, <2>9, <2>10, <2>11, <3>1, ZenonT(60)
  <2>15. NewestIntentKept'
    <3> SUFFICES ASSUME NEW q \in Member
                 PROVE  /\ Cardinality(intents'[q]) =< MaxIntents
                        /\ \A i, j \in intents'[q] : i.target = j.target => i = j
                        /\ \A k \in DOMAIN asked : Newest(q, k) =>
                              \/ \E i \in intents'[q] : i.id = k
                              \/ \E d \in DOMAIN dials' : dials'[d].id = k
                              \/ instant >= asked[k].at + IntentTime
      BY <1>1, Zenon DEF NewestIntentKept, Newest
    <3>1. Cardinality(intents'[q]) =< MaxIntents
      <4>1. IsFiniteSet(intents[q]) BY <1>2 DEF RendezvousTypeOK
      <4>2. intents'[q] \subseteq intents[q] BY <2>4, Zenon
      <4>3. IsFiniteSet(intents'[q]) /\ Cardinality(intents'[q]) =< Cardinality(intents[q]) BY <4>1, <4>2, FS_Subset
      <4>4. Cardinality(intents'[q]) \in Nat /\ Cardinality(intents[q]) \in Nat BY <4>1, <4>3, FS_CardinalityType
      <4>5. Cardinality(intents[q]) =< MaxIntents BY DEF IntroductionsAreAnswers, NewestIntentKept
      <4> QED BY <4>3, <4>4, <4>5, RendezvousAssumption
    <3>2. \A i, j \in intents'[q] : i.target = j.target => i = j
      BY <2>4, Zenon DEF IntroductionsAreAnswers, NewestIntentKept
    <3>3. ASSUME NEW k \in DOMAIN asked, Newest(q, k)
          PROVE  \/ \E i \in intents'[q] : i.id = k
                 \/ \E d \in DOMAIN dials' : dials'[d].id = k
                 \/ instant >= asked[k].at + IntentTime
      <4>1. CASE (\E d \in DOMAIN dials : dials[d].id = k) \/ instant >= asked[k].at + IntentTime
        BY <2>6, <4>1, Zenon
      <4>2. ASSUME NEW i \in intents[q], i.id = k
            PROVE  \/ \E j \in intents'[q] : j.id = k
                   \/ \E d \in DOMAIN dials' : dials'[d].id = k
                   \/ instant >= asked[k].at + IntentTime
        <5>1. CASE q # n \/ i \in left BY <2>1, <4>2, <5>1, Zenon
        <5>2. CASE i \in taken
          BY <2>2, <2>9, <2>10, <4>2, <5>2, ZenonT(60)
        <5>3. CASE q = n /\ ~(i.expires > instant)
          <6>1. asked[k] = [by |-> q, target |-> i.target, via |-> i.via, at |-> i.expires - IntentTime]
            BY <4>2, Zenon DEF IntroductionsAreAnswers, IntentsAreOpenRequests
          <6>2. asked[k].at = i.expires - IntentTime BY <6>1
          <6>3. instant \in Nat /\ IntentTime \in Nat /\ i.expires \in Nat BY <1>2, <2>5, <4>2, <5>3, Zenon
          <6> QED BY <5>3, <6>2, <6>3
        <5> QED BY <2>3, <4>2, <5>1, <5>2, <5>3, Zenon
      <4> QED BY <3>3, <4>1, <4>2, Zenon DEF IntroductionsAreAnswers, NewestIntentKept
    <3> QED BY <3>1, <3>2, <3>3, Zenon
  <2> QED BY <2>12, <2>13, <2>14, <2>15, Zenon DEF IntroductionsAreAnswers
<1> QED BY <1>4, <1>5, Zenon

-----------------------------------------------------------------------------
(* The theorem *)

\* Whatever datagrams are lost, late or overtaken and whichever connections are
\* replaced, only a request of this computer's own starts a dial, once and in time,
\* and the newest request is never the one that is forgotten: for any number of
\* members, introducers and requests (RendezvousIntents, process_peer_events).
THEOREM IntroductionsAlwaysAnswer == RendezvousSpec => []IntroductionsAreAnswers
<1>1. RendezvousInit => IntroductionsAreAnswers
  <2> SUFFICES ASSUME RendezvousInit PROVE IntroductionsAreAnswers OBVIOUS
  <2>1. /\ asked = <<>> /\ dials = <<>> /\ DOMAIN asked = {} /\ DOMAIN dials = {}
        /\ \A n \in Member : intents[n] = {}
    BY DEF RendezvousInit
  <2>2. IsFiniteSet({}) /\ Cardinality({}) = 0 BY FS_EmptySet
  <2>3. RendezvousTypeOK
    <3>1. link \in [Pair -> Nat] /\ intents \in [Member -> SUBSET Intent]
      BY 0 \in Nat, ZenonT(60) DEF RendezvousInit
    <3>2. /\ asked \in Seq([by : Member, target : Member, via : Member, at : Nat])
          /\ dials \in Seq([by : Member, target : Member, via : Member, id : Nat, at : Nat])
      BY <2>1
    <3> QED BY <2>1, <2>2, <3>1, <3>2 DEF RendezvousInit, RendezvousTypeOK
  <2>4. NewestIntentKept
    <3>1. \A n \in Member : Cardinality(intents[n]) = 0 BY <2>1, <2>2, Zenon
    <3>2. 0 =< MaxIntents BY RendezvousAssumption
    <3> QED BY <2>1, <3>1, <3>2 DEF NewestIntentKept
  <2>5. DialAnswersRequest /\ IntentsAreOpenRequests BY <2>1 DEF DialAnswersRequest, IntentsAreOpenRequests
  <2> QED BY <2>3, <2>4, <2>5 DEF IntroductionsAreAnswers
<1>2. ASSUME IntroductionsAreAnswers, [RendezvousNext]_rendezvousVars
      PROVE  IntroductionsAreAnswers'
  <2>1. CASE UNCHANGED rendezvousVars
    <3>1. UNCHANGED <<link, links, flying, intents, asked, dials, instant>> BY <2>1 DEF rendezvousVars
    <3>2. FramesTypeOK' BY <1>2, <3>1 DEF IntroductionsAreAnswers, RendezvousTypeOK, FramesTypeOK
    <3> QED BY <1>2, <3>1, <3>2, NothingAsked
  <2>2. CASE \E n, target, via \in Member : Ask(n, target, via) BY <1>2, <2>2, AskOK
  <2>3. CASE \E m \in flying : TakeOffer(m) BY <1>2, <2>3, TakeOfferOK
  <2>4. CASE TimePasses BY <1>2, <2>4, TimePassesOK
  <2>5. CASE \/ \E m \in flying : Introduce(m) \/ Lose(m)
             \/ \E p \in Pair : Connects(p) \/ Closes(p)
    BY <1>2, <2>5, FramesOK
  <2> QED BY <1>2, <2>1, <2>2, <2>3, <2>4, <2>5 DEF RendezvousNext
<1> QED BY <1>1, <1>2, PTL DEF RendezvousSpec

=============================================================================
