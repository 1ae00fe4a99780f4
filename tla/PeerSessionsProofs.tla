------------------------- MODULE PeerSessionsProofs -------------------------
(***************************************************************************)
(* Every open connection has one owner, for any number of connections,     *)
(* faults and tunnels (PeerSessions).  What the invariant says is split by *)
(* computer, so that a step only has to be followed on the computer that   *)
(* takes it.  The first part has the steps that let connections go or      *)
(* leave them where they are, the second one admission, candidates and     *)
(* new connections, and the last one shows that what a computer holds      *)
(* stays held until it is closed or handed on.                             *)
(***************************************************************************)
EXTENDS PeerSessions, TLAPS

-----------------------------------------------------------------------------
\* Owned once, place by place.
Once(n, c) ==
    \/ active[n] = c /\ replacing[n].conn # c /\ draining[n] # c /\ task[n][c] = NoTask
    \/ active[n] # c /\ replacing[n].conn = c /\ draining[n] # c /\ task[n][c] = NoTask
    \/ active[n] # c /\ replacing[n].conn # c /\ draining[n] = c /\ task[n][c] = NoTask
    \/ active[n] # c /\ replacing[n].conn # c /\ draining[n] # c /\ task[n][c] # NoTask

\* Owned once, place by place, in this state
LEMMA OnceIsOwned ==
  ASSUME NEW n, NEW c
  PROVE  OwnedOnce(n, c) <=> Once(n, c)
<1>1. /\ Holds(n, "active", c) <=> active[n] = c
      /\ Holds(n, "replacing", c) <=> replacing[n].conn = c
      /\ Holds(n, "draining", c) <=> draining[n] = c
      /\ Holds(n, "task", c) <=> task[n][c] # NoTask
  BY DEF Holds
<1> QED BY <1>1 DEF OwnedOnce, Place, Once

\* and in the next one.
LEMMA OnceIsOwnedNext ==
  ASSUME NEW n, NEW c
  PROVE  OwnedOnce(n, c)' <=> Once(n, c)'
<1>1. /\ Holds(n, "active", c)' <=> active'[n] = c
      /\ Holds(n, "replacing", c)' <=> replacing'[n].conn = c
      /\ Holds(n, "draining", c)' <=> draining'[n] = c
      /\ Holds(n, "task", c)' <=> task'[n][c] # NoTask
  BY DEF Holds
<1> QED BY <1>1 DEF OwnedOnce, Place, Once

\* What the invariant says of one computer.
Sound(n) ==
    /\ \A c \in Conn : end[n][c] = "open" => Once(n, c)
    /\ n \in revoked => active[n] = None /\ draining[n] = None
    /\ HeldExists(n)

\* The invariant, computer by computer, in this state
LEMMA OwnedIsSound == ConnectionsOwned <=> TypeOK /\ \A n \in Node : Sound(n)
<1>1. TypeOK => revoked \subseteq Node BY DEF TypeOK
<1> QED BY <1>1, OnceIsOwned DEF ConnectionsOwned, NothingLeaks, RevokedNotActive, Sound, Open

\* and in the next one.
LEMMA OwnedIsSoundNext == ConnectionsOwned' <=> TypeOK' /\ \A n \in Node : Sound(n)'
<1>1. TypeOK' => revoked' \subseteq Node BY Zenon DEF TypeOK
<1> QED BY <1>1, OnceIsOwnedNext DEF ConnectionsOwned, NothingLeaks, RevokedNotActive, Sound, Open

\* A computer of which nothing changes stays sound.
LEMMA OtherIsSound ==
  ASSUME NEW m \in Node, Sound(m), DOMAIN dialer \subseteq DOMAIN dialer',
         end'[m] = end[m], task'[m] = task[m], active'[m] = active[m], recent'[m] = recent[m],
         replacing'[m] = replacing[m], draining'[m] = draining[m], m \in revoked' <=> m \in revoked
  PROVE  Sound(m)'
BY DEF Sound, HeldExists, Backed, Once

\* A task that is not running knows nothing.
LEMMA Idle ==
  /\ NoTask \in SessionTask /\ NoTask.old \notin Conn /\ NoTask.was = FALSE /\ NoTask.sup = "none"
  /\ NoReplacement \in Replacement /\ NoReplacement.conn \notin Conn /\ NoReplacement.old \notin Conn
  /\ None \notin Conn
BY DEF NoTask, SessionTask, NoReplacement, Replacement, None, Conn

\* The invariant holds initially.
LEMMA InitOwned == Init => ConnectionsOwned
<1> SUFFICES ASSUME Init PROVE TypeOK /\ \A n \in Node : Sound(n) BY OwnedIsSound
<1>1. DOMAIN dialer = {} /\ dialed = 0 BY DEF Init, dialed
<1>2. TypeOK BY <1>1, Idle, SessionConstants DEF SessionConstants, Init, TypeOK
<1>3. \A n \in Node : Sound(n)
  BY <1>1, Idle DEF Init, Sound, HeldExists, Backed, Once
<1> QED BY <1>2, <1>3
-----------------------------------------------------------------------------
(* Steps of one computer *)

\* The table f becomes g and only the row of n may differ.
Rowed(n, f, g, T) == g = f \/ (g \in [Node -> T] /\ \A m \in Node \ {n} : g[m] = f[m])

EndRow == [Conn -> {"none", "open", "closed"}]
TaskRow == [Conn -> SessionTask]
ConnRow == Conn \cup {None}

\* What a step of n alone leaves as it is.
Alone(n) ==
    /\ dialer' = dialer /\ path' = path
    /\ \A m \in Node \ {n} :
          /\ end'[m] = end[m] /\ task'[m] = task[m] /\ active'[m] = active[m] /\ recent'[m] = recent[m]
          /\ replacing'[m] = replacing[m] /\ draining'[m] = draining[m] /\ (m \in revoked' <=> m \in revoked)

\* A step of one computer has to be followed on that computer only.
LEMMA RowOK ==
  ASSUME ConnectionsOwned, NEW n \in Node, UNCHANGED wire, Fault \/ UNCHANGED faults,
         Rowed(n, end, end', EndRow), Rowed(n, task, task', TaskRow),
         Rowed(n, active, active', ConnRow), Rowed(n, recent, recent', ConnRow),
         Rowed(n, draining, draining', ConnRow), Rowed(n, replacing, replacing', Replacement),
         tunnels' = tunnels \/ tunnels' \in [Node -> SUBSET Conn],
         revoked' \subseteq revoked \cup {n}, revoked \ {n} \subseteq revoked',
         Sound(n)'
  PROVE  ConnectionsOwned' /\ Alone(n)
<1>1. TypeOK BY OwnedIsSound
<1>2. /\ dialed' = dialed /\ dialer' = dialer /\ path' = path
      /\ \A m \in Node \ {n} : m \in revoked' <=> m \in revoked
  BY DEF dialed, wire
<1>3. Alone(n) BY <1>2, ZenonT(60) DEF Alone, Rowed
<1>4. TypeOK'
  <2>1. MaxEvents \in Nat BY SessionConstants DEF SessionConstants
  <2>2. faults' \in Nat /\ dialed' + faults' <= MaxEvents BY <1>1, <1>2, <2>1 DEF TypeOK, Fault
  <2>3. /\ end' \in [Node -> EndRow] /\ task' \in [Node -> TaskRow] /\ active' \in [Node -> ConnRow]
        /\ recent' \in [Node -> ConnRow] /\ draining' \in [Node -> ConnRow]
        /\ replacing' \in [Node -> Replacement]
    BY <1>1, Zenon DEF TypeOK, Rowed, EndRow, TaskRow, ConnRow
  <2> QED BY <1>1, <1>2, <2>2, <2>3 DEF TypeOK, EndRow, TaskRow, ConnRow
<1>5. \A m \in Node \ {n} : Sound(m)' BY <1>3, OwnedIsSound, OtherIsSound DEF Alone
<1> QED BY <1>3, <1>4, <1>5, OwnedIsSoundNext

\* A connection of the table of dialled connections.
LEMMA DialledIsConn ==
  ASSUME TypeOK, NEW c \in DOMAIN dialer
  PROVE  c \in Conn
<1>1. MaxEvents \in Nat BY SessionConstants DEF SessionConstants
<1>2. dialed \in Nat /\ faults \in Nat /\ dialed + faults <= MaxEvents /\ c \in 1..dialed
  BY DEF TypeOK, dialed
<1> QED BY <1>1, <1>2 DEF Conn

\* What closing does.
LEMMA ClosingIs ==
  ASSUME TypeOK, NEW n \in Node, NEW cs, Closing(n, cs)
  PROVE  /\ Rowed(n, end, end', EndRow)
         /\ \A c \in Conn : end'[n][c] = IF c \in cs THEN "closed" ELSE end[n][c]
BY DEF TypeOK, Closing, Rowed, EndRow

\* What setting one entry does.
LEMMA SetTask ==
  ASSUME TypeOK, NEW n \in Node, NEW c \in Conn, NEW t \in SessionTask, task' = [task EXCEPT ![n][c] = t]
  PROVE  /\ Rowed(n, task, task', TaskRow)
         /\ \A d \in Conn : task'[n][d] = IF d = c THEN t ELSE task[n][d]
BY DEF TypeOK, Rowed, TaskRow

\* Setting one entry of a table of connections,
LEMMA SetConn ==
  ASSUME NEW n \in Node, NEW c \in ConnRow, NEW f \in [Node -> ConnRow], NEW g,
         g = [f EXCEPT ![n] = c]
  PROVE  Rowed(n, f, g, ConnRow) /\ g[n] = c
BY DEF Rowed

\* and one of the pending replacements.
LEMMA SetReplacement ==
  ASSUME TypeOK, NEW n \in Node, NEW r \in Replacement, replacing' = [replacing EXCEPT ![n] = r]
  PROVE  Rowed(n, replacing, replacing', Replacement) /\ replacing'[n] = r
BY Zenon DEF TypeOK, Rowed

\* No end is forgotten, and none is reopened.
Grows(n) ==
    /\ \A d \in Conn : end[n][d] # "none" => end'[n][d] # "none"
    /\ \A d \in Conn : end[n][d] = "closed" => end'[n][d] = "closed"
    /\ \A d \in Conn : d \notin DOMAIN dialer' => end'[n][d] = "none"

\* What is held and what tasks know stays set up.
LEMMA ExistsStays ==
  ASSUME NEW n \in Node, HeldExists(n), Grows(n),
         \A d \in Conn : task'[n][d] \in {task[n][d], NoTask} \/ Backed(n, d)',
         \A d \in {active'[n], recent'[n], draining'[n], replacing'[n].conn, replacing'[n].old} :
           d \in Conn => \/ d \in {active[n], recent[n], draining[n], replacing[n].conn, replacing[n].old}
                         \/ end'[n][d] # "none"
  PROVE  HeldExists(n)'
<1>1. ASSUME NEW d \in Conn, task'[n][d] = task[n][d] PROVE Backed(n, d)'
  BY <1>1 DEF HeldExists, Backed, Grows
<1>2. ASSUME NEW d \in Conn, task'[n][d] = NoTask PROVE Backed(n, d)'
  BY <1>2, Idle, Zenon DEF Backed
<1>3. \A d \in {active[n], recent[n], draining[n], replacing[n].conn, replacing[n].old} :
        d \in Conn => end'[n][d] # "none"
  BY Zenon DEF HeldExists, Grows
<1>4. \A d \in {active'[n], recent'[n], draining'[n], replacing'[n].conn, replacing'[n].old} :
        d \in Conn => end'[n][d] # "none"
  BY <1>3, Zenon
<1>5. \A d \in Conn : (d \notin DOMAIN dialer' => end'[n][d] = "none") /\ Backed(n, d)'
  BY <1>1, <1>2, Zenon DEF Grows
<1> QED BY <1>4, <1>5, ZenonT(60) DEF HeldExists

-----------------------------------------------------------------------------
(* Letting go *)

\* The connections in cs are closed, now or already.
Ended(n, cs) ==
    \/ Closing(n, cs)
    \/ end' = end /\ \A d \in Conn : d \in cs => end[n][d] = "closed"

\* What n may close.
Closable(n) ==
    DOMAIN dialer \cup {None, active[n], draining[n], replacing[n].conn} \cup {d \in Conn : task[n][d] # NoTask}

\* What n lets go of in a step that closes the connections in cs.
Released(n, cs) ==
    /\ active' = active \/ (active' = [active EXCEPT ![n] = None] /\ active[n] \in cs)
    /\ recent' = recent \/ recent' = [recent EXCEPT ![n] = None]
    /\ draining' = draining \/ (draining' = [draining EXCEPT ![n] = None] /\ draining[n] \in cs)
    /\ \/ replacing' = replacing
       \/ replacing' = [replacing EXCEPT ![n] = NoReplacement] /\ replacing[n].conn \in cs
    /\ \/ task' = task
       \/ \E d \in Conn : task' = [task EXCEPT ![n][d] = NoTask] /\ d \in cs
       \/ /\ task' = [task EXCEPT ![n] = [d \in Conn |-> NoTask]]
          /\ \A d \in Conn : task[n][d] # NoTask => d \in cs

\* The rows afterwards.
LEMMA ReleasedIs ==
  ASSUME TypeOK, NEW n \in Node, NEW cs, Released(n, cs)
  PROVE  /\ Rowed(n, active, active', ConnRow) /\ Rowed(n, recent, recent', ConnRow)
         /\ Rowed(n, draining, draining', ConnRow) /\ Rowed(n, replacing, replacing', Replacement)
         /\ Rowed(n, task, task', TaskRow)
         /\ recent'[n] \in {recent[n], None}
         /\ active'[n] = active[n] \/ (active'[n] = None /\ active[n] \in cs)
         /\ draining'[n] = draining[n] \/ (draining'[n] = None /\ draining[n] \in cs)
         /\ replacing'[n] = replacing[n] \/ (replacing'[n] = NoReplacement /\ replacing[n].conn \in cs)
         /\ \A d \in Conn : task'[n][d] = task[n][d] \/ (task'[n][d] = NoTask /\ d \in cs)
<1>1. /\ active \in [Node -> ConnRow] /\ recent \in [Node -> ConnRow] /\ draining \in [Node -> ConnRow]
      /\ None \in ConnRow
  BY Zenon DEF TypeOK, ConnRow
<1>2. /\ Rowed(n, active, active', ConnRow)
      /\ active'[n] = active[n] \/ (active'[n] = None /\ active[n] \in cs)
  BY <1>1, SetConn DEF Released, Rowed
<1>3. Rowed(n, recent, recent', ConnRow) /\ recent'[n] \in {recent[n], None}
  BY <1>1, SetConn DEF Released, Rowed
<1>4. /\ Rowed(n, draining, draining', ConnRow)
      /\ draining'[n] = draining[n] \/ (draining'[n] = None /\ draining[n] \in cs)
  BY <1>1, SetConn DEF Released, Rowed
<1>5. /\ Rowed(n, replacing, replacing', Replacement)
      /\ replacing'[n] = replacing[n] \/ (replacing'[n] = NoReplacement /\ replacing[n].conn \in cs)
  BY Idle, SetReplacement, Zenon DEF Released, Rowed
<1>6. /\ Rowed(n, task, task', TaskRow)
      /\ \A d \in Conn : task'[n][d] = task[n][d] \/ (task'[n][d] = NoTask /\ d \in cs)
  <2>1. CASE task' = task BY <2>1 DEF Rowed
  <2>2. ASSUME NEW e \in Conn, task' = [task EXCEPT ![n][e] = NoTask], e \in cs
        PROVE  /\ Rowed(n, task, task', TaskRow)
               /\ \A d \in Conn : task'[n][d] = task[n][d] \/ (task'[n][d] = NoTask /\ d \in cs)
    <3>1. Rowed(n, task, task', TaskRow) /\ \A d \in Conn : task'[n][d] = IF d = e THEN NoTask ELSE task[n][d]
      BY <2>2, Idle, SetTask, ZenonT(60)
    <3> QED BY <2>2, <3>1
  <2>3. CASE /\ task' = [task EXCEPT ![n] = [d \in Conn |-> NoTask]]
             /\ \A d \in Conn : task[n][d] # NoTask => d \in cs
    BY <2>3, Idle DEF TypeOK, Rowed, TaskRow
  <2> QED BY <2>1, <2>2, <2>3, Zenon DEF Released
<1> QED BY <1>2, <1>3, <1>4, <1>5, <1>6, Zenon

\* A step that closes the connections in cs and lets go of nothing else leaves every
\* open connection with its one owner.
LEMMA LetGo ==
  ASSUME ConnectionsOwned, NEW n \in Node, NEW cs \in SUBSET Closable(n), Ended(n, cs), Released(n, cs),
         \/ revoked' = revoked
         \/ revoked' = revoked \cup {n} /\ {active[n], draining[n]} \subseteq cs
            /\ active' = [active EXCEPT ![n] = None] /\ draining' = [draining EXCEPT ![n] = None],
         UNCHANGED <<wire, tunnels>>, Fault \/ UNCHANGED faults
  PROVE  ConnectionsOwned' /\ Alone(n)
<1> TypeOK /\ Sound(n) BY OwnedIsSound
<1>1. dialer' = dialer BY Zenon DEF wire
<1>2. /\ Rowed(n, end, end', EndRow)
      /\ \A d \in Conn : end'[n][d] = IF d \in cs THEN "closed" ELSE end[n][d]
  <2>1. CASE Closing(n, cs) BY <2>1, ClosingIs, Zenon
  <2>2. CASE end' = end /\ \A d \in Conn : d \in cs => end[n][d] = "closed" BY <2>2, Zenon DEF Rowed
  <2> QED BY <2>1, <2>2, Zenon DEF Ended
<1>3. /\ active'[n] = active[n] \/ (active'[n] = None /\ active[n] \in cs)
      /\ draining'[n] = draining[n] \/ (draining'[n] = None /\ draining[n] \in cs)
      /\ replacing'[n] = replacing[n] \/ (replacing'[n] = NoReplacement /\ replacing[n].conn \in cs)
      /\ \A d \in Conn : task'[n][d] = task[n][d] \/ (task'[n][d] = NoTask /\ d \in cs)
      /\ recent'[n] \in {recent[n], None}
  BY ReleasedIs, Zenon
<1>4. \A d \in Conn : end'[n][d] = "open" => Once(n, d)'
  <2> SUFFICES ASSUME NEW d \in Conn, end'[n][d] = "open" PROVE Once(n, d)' BY Zenon
  <2>1. d \notin cs /\ Once(n, d) BY <1>2, Zenon DEF Sound
  <2>2. /\ active'[n] = d <=> active[n] = d
        /\ draining'[n] = d <=> draining[n] = d
        /\ replacing'[n].conn = d <=> replacing[n].conn = d
        /\ task'[n][d] = task[n][d]
    BY <1>3, <2>1, Idle, Zenon
  <2> QED BY <2>1, <2>2, Zenon DEF Once
<1>5. Grows(n)
  <2>1. \A d \in Conn : d \in cs => d \in DOMAIN dialer
    BY Idle, SMTT(30) DEF Closable, Sound, HeldExists, Backed
  <2> QED BY <1>1, <1>2, <2>1, ZenonT(60) DEF Grows, Sound, HeldExists
<1>6. HeldExists(n)' BY <1>3, <1>5, ExistsStays, Idle, ZenonT(60) DEF Sound
<1>7. n \in revoked' => active'[n] = None /\ draining'[n] = None BY <1>3, Zenon DEF Sound, TypeOK
<1>8. Sound(n)' BY <1>4, <1>6, <1>7, Zenon DEF Sound
<1> QED BY <1>2, <1>8, ReleasedIs, RowOK

\* A refused connection, a close that arrives and a lost path.
LEMMA ClosingStepsOK ==
  ASSUME ConnectionsOwned, NEW n \in Node, NEW c \in DOMAIN dialer,
         IncomingRefused(n, c) \/ CloseArrives(n, c) \/ LinkLost(n, c)
  PROVE  ConnectionsOwned' /\ Alone(n)
<1> PICK cs : cs = {c} BY Zenon
<1>1. /\ Ended(n, cs) /\ Released(n, cs) /\ cs \in SUBSET Closable(n)
      /\ Fault \/ UNCHANGED faults
      /\ UNCHANGED <<wire, tunnels, revoked>>
  BY DEF IncomingRefused, CloseArrives, LinkLost, Ended, Released, Closable, table
<1> QED BY <1>1, LetGo

\* A session that failed or is closed on its result.
LEMMA SessionFailsOK ==
  ASSUME ConnectionsOwned, NEW n \in Node, NEW c \in DOMAIN dialer,
         SessionFails(n, c) \/ RejectSession(n, c) \/ SessionCrowdedOut(n, c)
  PROVE  ConnectionsOwned' /\ Alone(n)
<1>1. c \in Conn BY OwnedIsSound, DialledIsConn, Zenon
<1> PICK cs : cs = {c} BY Zenon
<1>2. /\ Ended(n, cs) /\ Released(n, cs) /\ cs \in SUBSET Closable(n)
      /\ Fault \/ UNCHANGED faults
      /\ UNCHANGED <<wire, tunnels, revoked>>
  BY <1>1 DEF SessionFails, RejectSession, SessionCrowdedOut, Drop, Finish, Ended, Released, Closable, table
<1> QED BY <1>2, LetGo

\* A candidate that is given up.
LEMMA ReplacementFailsOK ==
  ASSUME ConnectionsOwned, NEW n \in Node,
         ReplacementFails(n) \/ (ReplacementProved(n) /\ Drop(n, replacing[n].conn))
  PROVE  ConnectionsOwned' /\ Alone(n)
<1> PICK cs : cs = {replacing[n].conn} BY Zenon
<1>1. /\ Ended(n, cs) /\ Released(n, cs) /\ cs \in SUBSET Closable(n)
      /\ Fault \/ UNCHANGED faults
      /\ UNCHANGED <<wire, tunnels, revoked>>
  BY DEF ReplacementFails, ReplacementProved, Drop, Ended, Released, Closable
<1> QED BY <1>1, LetGo

\* The registered connection ended or fell silent.
LEMMA ConnectionEndsOK ==
  ASSUME ConnectionsOwned, NEW n \in Node, ConnectionEnds(n) \/ SilenceRetires(n)
  PROVE  ConnectionsOwned' /\ Alone(n)
<1> PICK cs : cs = {active[n]} BY Zenon
<1>1. /\ Ended(n, cs) /\ Released(n, cs) /\ cs \in SUBSET Closable(n)
      /\ Fault \/ UNCHANGED faults
      /\ UNCHANGED <<wire, tunnels, revoked>>
  BY DEF ConnectionEnds, SilenceRetires, Ended, Released, Closable
<1> QED BY <1>1, LetGo

\* DrainOver keeps the invariant.
LEMMA DrainOverOK ==
  ASSUME ConnectionsOwned, NEW n \in Node, DrainEnds(n) \/ DrainTimesOut(n)
  PROVE  ConnectionsOwned' /\ Alone(n)
<1> PICK cs : cs = {draining[n]} BY Zenon
<1>1. /\ Ended(n, cs) /\ Released(n, cs) /\ cs \in SUBSET Closable(n)
      /\ Fault \/ UNCHANGED faults
      /\ UNCHANGED <<wire, tunnels, revoked>>
  BY DEF DrainEnds, DrainTimesOut, Ended, Released, Closable
<1> QED BY <1>1, LetGo, Zenon

\* Revoke keeps the invariant.
LEMMA RevokeOK ==
  ASSUME ConnectionsOwned, NEW n \in Node, Revoke(n)
  PROVE  ConnectionsOwned' /\ Alone(n)
<1> PICK cs : cs = {active[n], draining[n]} BY Zenon
<1>1. /\ Ended(n, cs) /\ Released(n, cs) /\ cs \in SUBSET Closable(n)
      /\ revoked' = revoked \cup {n} /\ {active[n], draining[n]} \subseteq cs
      /\ active' = [active EXCEPT ![n] = None] /\ draining' = [draining EXCEPT ![n] = None]
      /\ Fault /\ UNCHANGED <<wire, tunnels>>
  BY DEF Revoke, Ended, Released, Closable
<1> QED BY <1>1, LetGo, Zenon

\* RecentForgotten keeps the invariant.
LEMMA RecentForgottenOK ==
  ASSUME ConnectionsOwned, NEW n \in Node, RecentForgotten(n)
  PROVE  ConnectionsOwned' /\ Alone(n)
<1> PICK cs : cs = {} BY Zenon
<1>1. /\ Ended(n, cs) /\ Released(n, cs) /\ cs \in SUBSET Closable(n)
      /\ Fault /\ UNCHANGED <<wire, tunnels, revoked>>
  BY Zenon DEF RecentForgotten, Ended, Released
<1> QED BY <1>1, LetGo, Zenon

\* The interfaces changed: every task, the candidate and perhaps the registered
\* connection are closed.
LEMMA NetworkChangesOK ==
  ASSUME ConnectionsOwned, NEW n \in Node, NetworkChanges(n)
  PROVE  ConnectionsOwned' /\ Alone(n)
<1>1. PICK gone \in SUBSET {active[n]} :
        /\ Closing(n, ({c \in Conn : task[n][c] # NoTask} \cup {replacing[n].conn}) \cup gone)
        /\ active' = [active EXCEPT ![n] = IF gone = {} THEN @ ELSE None]
  BY Zenon DEF NetworkChanges
<1> PICK cs : cs = ({c \in Conn : task[n][c] # NoTask} \cup {replacing[n].conn}) \cup gone BY Zenon
<1>2. active' = active \/ (active' = [active EXCEPT ![n] = None] /\ active[n] \in cs)
  <2>1. active \in [Node -> Conn \cup {None}] BY OwnedIsSound, Zenon DEF TypeOK
  <2>2. CASE gone = {} BY <1>1, <2>1, <2>2
  <2>3. CASE gone # {} BY <1>1, <2>3, Zenon
  <2> QED BY <2>2, <2>3, Zenon
<1>3. Ended(n, cs) /\ cs \in SUBSET Closable(n) BY <1>1, Zenon DEF Ended, Closable
<1>4. /\ Released(n, cs) /\ Fault /\ UNCHANGED <<wire, tunnels, revoked>>
  BY <1>2, Zenon DEF NetworkChanges, Released
<1> QED BY <1>3, <1>4, LetGo

-----------------------------------------------------------------------------
(* Judgements, proofs and tunnels *)

\* liveness::superseded decides.
LEMMA JudgeOK ==
  ASSUME ConnectionsOwned, NEW n \in Node, NEW c \in DOMAIN dialer, Judge(n, c)
  PROVE  ConnectionsOwned' /\ Alone(n)
<1> TypeOK /\ Sound(n) /\ c \in Conn BY OwnedIsSound, DialledIsConn
<1>1. PICK v \in {"none", "live", "dead"} :
        /\ task' = [task EXCEPT ![n][c] = [@ EXCEPT !.st = "done", !.sup = v]]
        /\ v = "dead" => task[n][c].was /\ ~Open(n, task[n][c].old)
  BY Zenon DEF Judge, Verdicts
<1>2. task[n][c] \in SessionTask BY DEF TypeOK
<1>3. PICK t \in SessionTask :
        /\ t.st = "done" /\ t.sup = v /\ t.old = task[n][c].old /\ t.was = task[n][c].was
        /\ task' = [task EXCEPT ![n][c] = t]
  <2> DEFINE t == [task[n][c] EXCEPT !.st = "done", !.sup = v]
  <2>1. /\ t \in SessionTask
        /\ t.st = "done" /\ t.sup = v /\ t.old = task[n][c].old /\ t.was = task[n][c].was
    BY <1>2, Zenon DEF SessionTask
  <2>2. task' = [task EXCEPT ![n][c] = t] BY <1>1 DEF TypeOK
  <2> QED BY <2>1, <2>2, Zenon
<1>4. Rowed(n, task, task', TaskRow) /\ \A d \in Conn : task'[n][d] = IF d = c THEN t ELSE task[n][d]
  BY <1>3, SetTask, Zenon
<1>5. task[n][c] # NoTask /\ t # NoTask BY <1>3 DEF Judge, NoTask
<1>6. UNCHANGED <<wire, end, active, recent, replacing, draining, tunnels, revoked, faults>> BY Zenon DEF table, Judge
<1>7. \A d \in Conn : end'[n][d] = "open" => Once(n, d)' BY <1>4, <1>5, <1>6, ZenonT(60) DEF Sound, Once
<1>8. HeldExists(n)'
  <2>1. v = "dead" => task[n][c].old \in Conn /\ end[n][task[n][c].old] = "closed"
    BY <1>1 DEF Sound, HeldExists, Backed, Open, TypeOK
  <2>2. Backed(n, c) BY Zenon DEF Sound, HeldExists
  <2>3. Backed(n, c)' BY <1>3, <1>4, <1>5, <1>6, <2>1, <2>2, ZenonT(60) DEF Backed
  <2>4. Grows(n) BY <1>6, Zenon DEF Grows, Sound, HeldExists, wire
  <2> QED BY <1>4, <1>6, <2>3, <2>4, ExistsStays, Zenon DEF Sound
<1>9. Sound(n)' BY <1>6, <1>7, <1>8, Zenon DEF Sound
<1> QED BY <1>4, <1>6, <1>9, RowOK, Zenon DEF Rowed

\* The exchange that proves a candidate ends well.
LEMMA ProofSucceedsOK ==
  ASSUME ConnectionsOwned, NEW n \in Node, ProofSucceeds(n)
  PROVE  ConnectionsOwned' /\ Alone(n)
<1> TypeOK /\ Sound(n) BY OwnedIsSound
<1>1. replacing[n] \in [conn : Conn, old : Conn, proved : BOOLEAN]
  BY DEF TypeOK, ProofSucceeds, Replacement, NoReplacement
<1>2. /\ Rowed(n, replacing, replacing', Replacement)
      /\ replacing'[n].conn = replacing[n].conn /\ replacing'[n].old = replacing[n].old
  BY <1>1, Zenon DEF TypeOK, ProofSucceeds, Replacement, Rowed
<1>3. UNCHANGED <<wire, end, task, active, recent, draining, tunnels, revoked, faults>> BY Zenon DEF ProofSucceeds
<1>4. Grows(n) BY <1>3, Zenon DEF Grows, Sound, HeldExists, wire
<1>5. HeldExists(n)' BY <1>2, <1>3, <1>4, ExistsStays, Zenon DEF Sound
<1>6. Sound(n)' BY <1>2, <1>3, <1>5, Zenon DEF Sound, Once
<1> QED BY <1>2, <1>3, <1>6, RowOK, Zenon DEF Rowed

\* Tunnels come and go.
LEMMA TunnelsOK ==
  ASSUME ConnectionsOwned, NEW n \in Node, NEW c \in DOMAIN dialer, TunnelOpens(n, c) \/ TunnelEnds(n, c)
  PROVE  ConnectionsOwned' /\ Alone(n)
<1> TypeOK /\ Sound(n) /\ c \in Conn BY OwnedIsSound, DialledIsConn
<1>1. tunnels' \in [Node -> SUBSET Conn]
  <2>1. tunnels[n] \cup {c} \in SUBSET Conn /\ tunnels[n] \ {c} \in SUBSET Conn BY DEF TypeOK
  <2> QED BY <2>1, ZenonT(60) DEF TypeOK, TunnelOpens, TunnelEnds
<1>2. UNCHANGED <<wire, end, task, active, recent, replacing, draining, revoked, faults>>
  BY Zenon DEF TunnelOpens, TunnelEnds, table
<1>3. Sound(n)' BY <1>2, OtherIsSound DEF wire
<1> QED BY <1>1, <1>2, <1>3, RowOK, Zenon DEF Rowed

-----------------------------------------------------------------------------
(* Admission *)

\* What is left of the table when n keeps what it has, takes c in, or puts c in
\* the place of what it had.
Kept == active' = active /\ recent' = recent /\ draining' = draining
Taken(n, c) ==
    /\ active' = [active EXCEPT ![n] = c] /\ recent' = [recent EXCEPT ![n] = c]
    /\ draining' = draining
Drained(n, c) ==
    /\ active' = [active EXCEPT ![n] = c] /\ recent' = [recent EXCEPT ![n] = c]
    /\ draining' = [draining EXCEPT ![n] = active[n]]

\* admit_authenticated and register_connection, outcome by outcome.
LEMMA AdmitIs ==
  ASSUME TypeOK, NEW n \in Node, NEW c, NEW old, Admit(n, c, old)
  PROVE  \/ Kept /\ Closing(n, {c})
         \/ /\ n \notin revoked /\ Taken(n, c) /\ active[n] = None /\ Closing(n, {})
         \/ /\ n \notin revoked /\ Taken(n, c) /\ active[n] # None /\ Closing(n, {active[n]})
            /\ active[n] # old /\ Preferred(c) /\ ~Preferred(active[n])
         \/ /\ n \notin revoked /\ active[n] # None /\ active[n] = old /\ draining[n] = None
            /\ \/ Drained(n, c) /\ Closing(n, {None})
               \/ Taken(n, c) /\ Closing(n, {None, active[n]})
<1>1. CASE n \in revoked BY <1>1, Zenon DEF Admit, Drop, Kept
<1>2. CASE n \notin revoked /\ active[n] = None BY <1>2 DEF Admit, Register, Taken
<1>3. CASE n \notin revoked /\ active[n] # None /\ active[n] # old
  BY <1>3, Zenon DEF Admit, Register, Drop, Taken, Kept
<1>4. CASE n \notin revoked /\ active[n] # None /\ active[n] = old
  <2>1. draining[n] # None => Kept /\ Closing(n, {c}) BY <1>4 DEF Admit, Drop, Kept
  <2>2. draining[n] = None => Supersede(n, c, old) BY <1>4 DEF Admit
  <2>3. ASSUME draining[n] = None, old \in tunnels[n] PROVE Drained(n, c) /\ Closing(n, {None})
    <3>1. {old} \cap tunnels[n] = {old} /\ {draining[n]} \cup ({old} \ {old}) = {None} BY <2>3, Zenon
    <3> QED BY <1>4, <2>2, <2>3, <3>1, Zenon DEF Supersede, Drained
  <2>4. ASSUME draining[n] = None, old \notin tunnels[n] PROVE Taken(n, c) /\ Closing(n, {None, active[n]})
    <3>1. {old} \cap tunnels[n] = {} /\ {draining[n]} \cup ({old} \ {}) = {None, active[n]} BY <1>4, <2>4, Zenon
    <3>2. [draining EXCEPT ![n] = None] = draining BY <2>4, Zenon DEF TypeOK
    <3> QED BY <1>4, <2>2, <2>4, <3>1, <3>2, Zenon DEF Supersede, Taken
  <2> QED BY <1>4, <2>1, <2>3, <2>4, Zenon
<1> QED BY <1>1, <1>2, <1>3, <1>4, Zenon

\* The same, row by row: cs is what is closed.
LEMMA AdmitRows ==
  ASSUME TypeOK, NEW n \in Node, NEW c \in Conn, NEW old, Admit(n, c, old)
  PROVE  /\ Rowed(n, end, end', EndRow) /\ Rowed(n, active, active', ConnRow)
         /\ Rowed(n, recent, recent', ConnRow) /\ Rowed(n, draining, draining', ConnRow)
         /\ \E cs \in SUBSET {c, active[n], None} :
              /\ \A d \in Conn : end'[n][d] = IF d \in cs THEN "closed" ELSE end[n][d]
              /\ \/ /\ active'[n] = active[n] /\ recent'[n] = recent[n] /\ draining'[n] = draining[n]
                    /\ c \in cs
                 \/ /\ n \notin revoked /\ active'[n] = c /\ recent'[n] = c /\ draining'[n] = draining[n]
                    /\ active[n] \in cs \cup {None}
                 \/ /\ n \notin revoked /\ active'[n] = c /\ recent'[n] = c /\ draining'[n] = active[n]
                    /\ draining[n] = None
<1>1. PICK cs \in SUBSET {c, active[n], None} :
        /\ Closing(n, cs)
        /\ \/ Kept /\ c \in cs
           \/ n \notin revoked /\ Taken(n, c) /\ active[n] \in cs \cup {None}
           \/ n \notin revoked /\ Drained(n, c) /\ draining[n] = None
  <2>1. CASE Kept /\ Closing(n, {c}) BY <2>1
  <2>2. CASE n \notin revoked /\ Taken(n, c) /\ active[n] = None /\ Closing(n, {}) BY <2>2
  <2>3. CASE n \notin revoked /\ Taken(n, c) /\ Closing(n, {active[n]}) BY <2>3, Zenon
  <2>4. CASE n \notin revoked /\ Taken(n, c) /\ Closing(n, {None, active[n]}) BY <2>4, Zenon
  <2>5. CASE n \notin revoked /\ Drained(n, c) /\ draining[n] = None /\ Closing(n, {None}) BY <2>5, Zenon
  <2> QED BY <2>1, <2>2, <2>3, <2>4, <2>5, AdmitIs, Zenon
<1>2. Rowed(n, end, end', EndRow) /\ \A d \in Conn : end'[n][d] = IF d \in cs THEN "closed" ELSE end[n][d]
  BY <1>1, ClosingIs, Zenon
<1>3. /\ active \in [Node -> ConnRow] /\ recent \in [Node -> ConnRow] /\ draining \in [Node -> ConnRow]
      /\ c \in ConnRow /\ active[n] \in ConnRow
  BY Zenon DEF TypeOK, ConnRow
<1>4. CASE Kept /\ c \in cs BY <1>2, <1>4, Zenon DEF Kept, Rowed
<1>5. CASE n \notin revoked /\ Taken(n, c) /\ active[n] \in cs \cup {None}
  <2>1. /\ Rowed(n, active, active', ConnRow) /\ Rowed(n, recent, recent', ConnRow)
        /\ active'[n] = c /\ recent'[n] = c /\ draining' = draining
    BY <1>3, <1>5, SetConn, Zenon DEF Taken
  <2> QED BY <1>2, <1>5, <2>1, Zenon DEF Rowed
<1>6. CASE n \notin revoked /\ Drained(n, c) /\ draining[n] = None
  <2>1. /\ Rowed(n, active, active', ConnRow) /\ Rowed(n, recent, recent', ConnRow)
        /\ Rowed(n, draining, draining', ConnRow)
        /\ active'[n] = c /\ recent'[n] = c /\ draining'[n] = active[n]
    BY <1>3, <1>6, SetConn, ZenonT(60) DEF Drained
  <2> QED BY <1>2, <1>6, <2>1, Zenon
<1> QED BY <1>1, <1>4, <1>5, <1>6, Zenon

\* The candidate c was let go by its task or by the pending replacement, and no
\* other connection was.
LEMMA AdmitOK ==
  ASSUME ConnectionsOwned, NEW n \in Node, NEW c \in Conn, NEW old, Admit(n, c, old),
         end[n][c] # "none",
         end[n][c] = "open" => /\ active[n] # c /\ draining[n] # c
                               /\ replacing'[n].conn # c /\ task'[n][c] = NoTask,
         Rowed(n, task, task', TaskRow), task'[n][c] \in {NoTask, task[n][c]},
         \A d \in Conn \ {c} : task'[n][d] = task[n][d],
         Rowed(n, replacing, replacing', Replacement),
         \/ replacing'[n] = replacing[n]
         \/ replacing'[n] = NoReplacement /\ replacing[n].conn = c,
         UNCHANGED <<wire, tunnels, revoked, faults>>
  PROVE  ConnectionsOwned' /\ Alone(n)
<1> TypeOK /\ Sound(n) BY OwnedIsSound, Zenon
<1>1. /\ replacing'[n].conn \in Conn => replacing'[n].conn = replacing[n].conn
      /\ replacing'[n].old \in Conn => replacing'[n].old = replacing[n].old
      /\ \A d \in Conn \ {c} : replacing'[n].conn = d <=> replacing[n].conn = d
  BY Idle
<1>2. PICK cs \in SUBSET {c, active[n], None} :
        /\ \A d \in Conn : end'[n][d] = IF d \in cs THEN "closed" ELSE end[n][d]
        /\ \/ /\ active'[n] = active[n] /\ recent'[n] = recent[n] /\ draining'[n] = draining[n]
              /\ c \in cs
           \/ /\ n \notin revoked /\ active'[n] = c /\ recent'[n] = c /\ draining'[n] = draining[n]
              /\ active[n] \in cs \cup {None}
           \/ /\ n \notin revoked /\ active'[n] = c /\ recent'[n] = c /\ draining'[n] = active[n]
              /\ draining[n] = None
  BY AdmitRows, Zenon
<1>3. Grows(n) BY <1>2, Idle, ZenonT(60) DEF Grows, Sound, HeldExists, wire
<1>4. HeldExists(n)'
  <2>1. end'[n][c] # "none" BY <1>3, Zenon DEF Grows
  <2>2. \A d \in Conn : task'[n][d] \in {task[n][d], NoTask} BY Zenon
  <2> QED BY <1>1, <1>2, <1>3, <2>1, <2>2, ExistsStays DEF Sound
<1>5. \A d \in Conn : end'[n][d] = "open" => Once(n, d)'
  <2> SUFFICES ASSUME NEW d \in Conn, end'[n][d] = "open" PROVE Once(n, d)' BY Zenon
  <2>1. d \notin cs /\ end[n][d] = "open" /\ Once(n, d) BY <1>2, Zenon DEF Sound
  <2>2. CASE d = c BY <1>2, <2>1, <2>2, Idle, Zenon DEF Once
  <2>3. CASE d # c BY <1>1, <1>2, <2>1, <2>3, Idle, ZenonT(60) DEF Once
  <2> QED BY <2>2, <2>3, Zenon
<1>6. Sound(n)' BY <1>2, <1>4, <1>5, Zenon DEF Sound
<1> QED BY <1>6, AdmitRows, RowOK, Zenon

\* What a task that has finished leaves behind.
LEMMA FinishIs ==
  ASSUME TypeOK, NEW n \in Node, Sound(n), NEW c \in Conn, Finish(n, c)
  PROVE  /\ Rowed(n, task, task', TaskRow)
         /\ task'[n][c] = NoTask /\ \A d \in Conn \ {c} : task'[n][d] = task[n][d]
         /\ end[n][c] # "none"
         /\ end[n][c] = "open" => active[n] # c /\ draining[n] # c /\ replacing[n].conn # c
         /\ UNCHANGED <<wire, tunnels, revoked>>
<1>1. task[n][c] # NoTask BY DEF Finish, NoTask
<1>2. Rowed(n, task, task', TaskRow) /\ \A d \in Conn : task'[n][d] = IF d = c THEN NoTask ELSE task[n][d]
  BY Idle, SetTask, ZenonT(60) DEF Finish
<1>3. end[n][c] # "none" BY <1>1, Zenon DEF Sound, HeldExists, Backed
<1>4. end[n][c] = "open" => active[n] # c /\ draining[n] # c /\ replacing[n].conn # c
  BY <1>1, Zenon DEF Sound, Once
<1> QED BY <1>2, <1>3, <1>4, Zenon DEF Finish

\* finish_authenticated registers the connection at once.
LEMMA AdmitSessionOK ==
  ASSUME ConnectionsOwned, NEW n \in Node, NEW c \in DOMAIN dialer, AdmitSession(n, c)
  PROVE  ConnectionsOwned' /\ Alone(n)
<1> TypeOK /\ Sound(n) /\ c \in Conn BY OwnedIsSound, DialledIsConn, Zenon
<1>1. PICK old : Admit(n, c, old) BY Zenon DEF AdmitSession
<1>2. Finish(n, c) /\ replacing' = replacing /\ faults' = faults BY Zenon DEF AdmitSession
<1> QED BY <1>1, <1>2, FinishIs, AdmitOK DEF Rowed

\* finish_ready_replacements
LEMMA ReplacementProvedOK ==
  ASSUME ConnectionsOwned, NEW n \in Node, ReplacementProved(n)
  PROVE  ConnectionsOwned' /\ Alone(n)
<1> TypeOK /\ Sound(n) BY OwnedIsSound
<1> PICK c, old : c = replacing[n].conn /\ old = replacing[n].old BY Zenon
<1>1. c \in Conn /\ end[n][c] # "none"
  BY DEF TypeOK, ReplacementProved, Replacement, NoReplacement, Sound, HeldExists
<1>2. Rowed(n, replacing, replacing', Replacement) /\ replacing'[n] = NoReplacement
  BY Idle, SetReplacement, Zenon DEF ReplacementProved
<1>3. UNCHANGED <<wire, task, tunnels, revoked, faults>> BY Zenon DEF ReplacementProved
<1>4. end[n][c] = "open" => active[n] # c /\ draining[n] # c /\ task[n][c] = NoTask
  BY <1>1, Zenon DEF Sound, Once
<1>5. CASE Admit(n, c, old)
  BY <1>1, <1>2, <1>3, <1>4, <1>5, Idle, AdmitOK, Zenon DEF Rowed
<1>6. CASE Drop(n, c) BY <1>6, ReplacementFailsOK, Zenon
<1> QED BY <1>5, <1>6, Zenon DEF ReplacementProved

-----------------------------------------------------------------------------
(* Candidates and new connections *)

\* finish_authenticated proposes a candidate that is yet to be proved.
LEMMA ProposeSessionOK ==
  ASSUME ConnectionsOwned, NEW n \in Node, NEW c \in DOMAIN dialer, ProposeSession(n, c)
  PROVE  ConnectionsOwned' /\ Alone(n)
<1> TypeOK /\ Sound(n) /\ c \in Conn BY OwnedIsSound, DialledIsConn
<1>1. Finish(n, c) /\ UNCHANGED <<active, recent, draining, faults>> BY DEF ProposeSession, Drop
<1>2. /\ Rowed(n, task, task', TaskRow)
      /\ task'[n][c] = NoTask /\ \A d \in Conn \ {c} : task'[n][d] = task[n][d]
      /\ end[n][c] # "none"
      /\ end[n][c] = "open" => active[n] # c /\ draining[n] # c /\ replacing[n].conn # c
      /\ UNCHANGED <<wire, tunnels, revoked>>
  BY <1>1, FinishIs, Zenon
<1> PICK old, next, r : /\ old = MustProve(n, c) /\ r = replacing[n].conn
                        /\ next = [conn |-> c, old |-> old, proved |-> FALSE]
  BY Zenon
<1>3. CASE Drop(n, r) /\ replacing' = [replacing EXCEPT ![n] = next]
  <2>1. old \in Conn /\ end[n][old] # "none"
    <3>1. old # None /\ old \in {task[n][c].old, active[n], None} BY Zenon DEF ProposeSession, MustProve
    <3>2. old \in Conn BY <3>1 DEF TypeOK, SessionTask
    <3> QED BY <3>1, <3>2 DEF Sound, HeldExists, Backed
  <2>2. next \in Replacement /\ next.conn = c /\ next.old = old BY <2>1 DEF Replacement
  <2>3. Rowed(n, replacing, replacing', Replacement) /\ replacing'[n] = next
    BY <1>3, <2>2, SetReplacement, ZenonT(60)
  <2>4. Rowed(n, end, end', EndRow) /\ \A d \in Conn : end'[n][d] = IF d = r THEN "closed" ELSE end[n][d]
    BY <1>3, ClosingIs DEF Drop
  <2>5. \A d \in Conn : end'[n][d] = "open" => Once(n, d)'
    <3> SUFFICES ASSUME NEW d \in Conn, end'[n][d] = "open" PROVE Once(n, d)' BY Zenon
    <3>1. d # r /\ end[n][d] = "open" /\ Once(n, d) BY <2>4, Zenon DEF Sound
    <3>2. /\ active'[n] = active[n] /\ draining'[n] = draining[n] /\ replacing'[n].conn = c
          /\ replacing[n].conn # d
      BY <1>1, <2>2, <2>3, <3>1, Zenon
    <3>3. CASE d = c BY <1>2, <3>1, <3>2, <3>3, Zenon DEF Once
    <3>4. CASE d # c BY <1>2, <3>1, <3>2, <3>4, Zenon DEF Once
    <3> QED BY <3>3, <3>4, Zenon
  <2>6. Grows(n) BY <1>2, <2>4, Zenon DEF Grows, Sound, HeldExists, wire
  <2>7. HeldExists(n)'
    <3>1. end'[n][c] # "none" /\ end'[n][old] # "none" BY <1>2, <2>1, <2>6, Zenon DEF Grows
    <3>2. \A d \in Conn : task'[n][d] \in {task[n][d], NoTask} BY <1>2, Zenon
    <3> QED BY <1>1, <2>2, <2>3, <2>6, <3>1, <3>2, ExistsStays, ZenonT(60) DEF Sound
  <2>8. Sound(n)' BY <1>1, <1>2, <2>5, <2>7, Zenon DEF Sound
  <2> QED BY <1>1, <1>2, <2>3, <2>4, <2>8, RowOK, ZenonT(60) DEF Rowed
<1>4. CASE Drop(n, c) /\ replacing' = replacing
  <2> PICK cs : cs = {c} BY Zenon
  <2>1. Ended(n, cs) /\ Released(n, cs) /\ cs \in SUBSET Closable(n)
    BY <1>1, <1>4, Zenon DEF Drop, Finish, Ended, Released, Closable
  <2> QED BY <1>1, <1>2, <2>1, LetGo, Zenon
<1> QED BY <1>3, <1>4, Zenon DEF ProposeSession

\* What a task knows when it begins.
LEMMA SnapshotIs ==
  ASSUME TypeOK, NEW n \in Node, Sound(n), NEW t, t = Snapshot(n)
  PROVE  /\ t \in SessionTask /\ t.st = "running" /\ t.sup = "none"
         /\ t.old \in Conn => end[n][t.old] # "none"
         /\ t.was => t.old \in Conn
<1>1. /\ t.st = "running" /\ t.sup = "none" /\ t.old = (IF active[n] # None THEN active[n] ELSE recent[n])
      /\ t.was = (active[n] # None)
  BY Zenon DEF Snapshot
<1>2. active[n] \in Conn \cup {None} /\ recent[n] \in Conn \cup {None} BY Zenon DEF TypeOK
<1>3. t \in SessionTask BY <1>2, Zenon DEF Snapshot, SessionTask
<1>4. t.old \in Conn => end[n][t.old] # "none" BY <1>1 DEF Sound, HeldExists
<1>5. t.was => t.old \in Conn BY <1>1, <1>2, Zenon
<1> QED BY <1>1, <1>3, <1>4, <1>5, Zenon

\* n takes in a new connection c with the task t.
LEMMA OpensOK ==
  ASSUME TypeOK, NEW n \in Node, Sound(n), NEW c \in Conn, NEW t \in SessionTask,
         end[n][c] = "none", c \in DOMAIN dialer', DOMAIN dialer \subseteq DOMAIN dialer',
         \A d \in Conn : end'[n][d] = IF d = c THEN "open" ELSE end[n][d],
         \A d \in Conn : task'[n][d] = IF d = c THEN t ELSE task[n][d],
         t # NoTask, t.sup = "none", t.was => t.old \in Conn, t.old \in Conn => end[n][t.old] # "none",
         UNCHANGED <<active, recent, replacing, draining, revoked>>
  PROVE  Sound(n)'
<1>1. active[n] # c /\ draining[n] # c /\ replacing[n].conn # c BY Zenon DEF Sound, HeldExists
<1>2. \A d \in Conn : end'[n][d] = "open" => Once(n, d)'
  <2> SUFFICES ASSUME NEW d \in Conn, end'[n][d] = "open" PROVE Once(n, d)' BY Zenon
  <2>1. CASE d = c BY <1>1, <2>1, Zenon DEF Once
  <2>2. CASE d # c
    <3>1. Once(n, d) /\ task'[n][d] = task[n][d] BY <2>2, Zenon DEF Sound
    <3> QED BY <3>1, Zenon DEF Once
  <2> QED BY <2>1, <2>2, Zenon
<1>3. Grows(n)
  <2>1. \A d \in Conn : d \notin DOMAIN dialer => end[n][d] = "none" BY Zenon DEF Sound, HeldExists
  <2> QED BY <2>1, Zenon DEF Grows
<1>4. HeldExists(n)'
  <2>1. task'[n][c] = t /\ end'[n][c] # "none" BY Zenon
  <2>2. Backed(n, c)' BY <1>3, <2>1, Zenon DEF Backed, Grows
  <2> QED BY <1>3, <2>2, ExistsStays, Zenon DEF Sound
<1> QED BY <1>2, <1>4, Zenon DEF Sound

\* A connection is dialled.
LEMMA DialOK ==
  ASSUME ConnectionsOwned, NEW n \in Node, NEW p \in Routes(n), Dial(n, p)
  PROVE  ConnectionsOwned'
<1> TypeOK /\ Sound(n) BY OwnedIsSound
<1> PICK c, t : c = dialed + 1 /\ t = Snapshot(n) BY Zenon
<1>1. MaxEvents \in Nat /\ p \in Path BY SessionConstants, Zenon DEF SessionConstants, Routes, Path
<1>2. /\ dialed \in Nat /\ faults \in Nat /\ dialed + faults < MaxEvents
      /\ DOMAIN dialer = 1..dialed
  BY DEF Dial, TypeOK, dialed
<1>3. c \in Conn /\ c \notin DOMAIN dialer BY <1>1, <1>2 DEF Conn
<1>4. /\ dialer' = Append(dialer, n) /\ path' = Append(path, p)
      /\ end' = [end EXCEPT ![n][c] = "open"]
      /\ task' = [task EXCEPT ![n][c] = t]
      /\ UNCHANGED <<active, recent, replacing, draining, tunnels, revoked, faults>>
  BY Zenon DEF Dial, table
<1>5. /\ dialed' = c /\ Len(path') = c /\ c \in DOMAIN dialer' /\ DOMAIN dialer \subseteq DOMAIN dialer'
      /\ dialer' \in Seq(Node) /\ path' \in Seq(Path)
  BY <1>1, <1>4 DEF dialed, TypeOK
<1>6. t \in SessionTask /\ t # NoTask /\ t.sup = "none" /\ (t.was => t.old \in Conn)
      /\ (t.old \in Conn => end[n][t.old] # "none")
  <2>1. t.st = "running" => t # NoTask BY DEF NoTask
  <2> QED BY <2>1, SnapshotIs, Zenon
<1>7. /\ end' \in [Node -> EndRow] /\ \A m \in Node \ {n} : end'[m] = end[m]
      /\ \A d \in Conn : end'[n][d] = IF d = c THEN "open" ELSE end[n][d]
  BY <1>3, <1>4, Zenon DEF TypeOK, EndRow
<1>8. /\ task' \in [Node -> TaskRow] /\ \A m \in Node \ {n} : task'[m] = task[m]
      /\ \A d \in Conn : task'[n][d] = IF d = c THEN t ELSE task[n][d]
  BY <1>3, <1>4, <1>6, Zenon DEF TypeOK, TaskRow
<1>9. TypeOK'
  <2>1. faults' \in Nat /\ dialed' + faults' <= MaxEvents BY <1>1, <1>2, <1>4, <1>5, SMTT(30)
  <2> QED BY <1>4, <1>5, <1>7, <1>8, <2>1, ZenonT(60) DEF TypeOK, EndRow, TaskRow
<1>10. end[n][c] = "none" BY <1>3, ZenonT(60) DEF Sound, HeldExists
<1>11. Sound(n)' BY <1>3, <1>4, <1>5, <1>6, <1>7, <1>8, <1>10, OpensOK, SMTT(30)
<1>12. \A m \in Node \ {n} : Sound(m)'
  BY <1>4, <1>5, <1>7, <1>8, OwnedIsSound, OtherIsSound, ZenonT(60)
<1> QED BY <1>9, <1>11, <1>12, OwnedIsSoundNext, Zenon

\* The other end takes the connection in, and both ends synchronise.
LEMMA IncomingOK ==
  ASSUME ConnectionsOwned, NEW n \in Node, NEW c \in DOMAIN dialer, Incoming(n, c)
  PROVE  ConnectionsOwned'
<1> TypeOK /\ Sound(n) /\ c \in Conn BY OwnedIsSound, DialledIsConn
<1> PICK far, t : far = dialer[c] /\ t = Snapshot(n) BY ZenonT(60)
<1>1. far \in Node /\ far # n /\ Node = {n, far}
  BY SessionConstants DEF SessionConstants, TypeOK, Incoming, Peer, Node
<1>2. Sound(far) BY <1>1, OwnedIsSound, Zenon
<1> PICK here, there : here = [t EXCEPT !.st = "synced"] /\ there = [task[far][c] EXCEPT !.st = "synced"]
  BY Zenon
<1>3. /\ here \in SessionTask /\ here # NoTask /\ here.sup = "none" /\ (here.was => here.old \in Conn)
      /\ (here.old \in Conn => end[n][here.old] # "none")
  <2>1. /\ t \in SessionTask /\ t.sup = "none" /\ (t.was => t.old \in Conn)
        /\ (t.old \in Conn => end[n][t.old] # "none")
    BY SnapshotIs, Zenon
  <2>2. here \in SessionTask /\ here.sup = t.sup /\ here.old = t.old /\ here.was = t.was /\ here.st = "synced"
    BY <2>1, Zenon DEF SessionTask
  <2>3. here # NoTask BY <2>2, Zenon DEF NoTask
  <2> QED BY <2>1, <2>2, <2>3, Zenon
<1>4. /\ there \in SessionTask /\ there # NoTask /\ task[far][c] # NoTask
      /\ there.sup = task[far][c].sup /\ there.old = task[far][c].old /\ there.was = task[far][c].was
  <2>1. task[far][c] \in SessionTask /\ task[far][c].st = "running" BY <1>1 DEF TypeOK, Incoming
  <2>2. /\ there \in SessionTask /\ there.st = "synced"
        /\ there.sup = task[far][c].sup /\ there.old = task[far][c].old /\ there.was = task[far][c].was
    BY <2>1, Zenon DEF SessionTask
  <2>3. task[far][c] # NoTask /\ there # NoTask BY <2>1, <2>2 DEF NoTask
  <2> QED BY <2>2, <2>3, ZenonT(60)
<1>5. /\ end[n][c] = "none"
      /\ UNCHANGED <<wire, active, recent, replacing, draining, tunnels, revoked, faults>>
  BY Zenon DEF Incoming, table
<1>6. /\ task' \in [Node -> TaskRow]
      /\ \A d \in Conn : task'[n][d] = IF d = c THEN here ELSE task[n][d]
      /\ \A d \in Conn : task'[far][d] = IF d = c THEN there ELSE task[far][d]
  <2>1. task' = [task EXCEPT ![n][c] = here, ![far][c].st = "synced"] BY Zenon DEF Incoming
  <2>2. task \in [Node -> TaskRow] BY Zenon DEF TypeOK, TaskRow
  <2> QED BY <1>1, <1>3, <1>4, <2>1, <2>2, Zenon DEF TaskRow
<1>7. /\ end' \in [Node -> EndRow] /\ end'[far] = end[far]
      /\ \A d \in Conn : end'[n][d] = IF d = c THEN "open" ELSE end[n][d]
  BY <1>1, ZenonT(60) DEF TypeOK, Incoming, EndRow
<1>8. TypeOK' BY <1>5, <1>6, <1>7, Zenon DEF TypeOK, wire, dialed, EndRow, TaskRow
<1>9. Sound(n)' BY <1>3, <1>5, <1>6, <1>7, OpensOK, ZenonT(60) DEF wire
<1>10. Sound(far)'
  <2>1. \A d \in Conn : end'[far][d] = "open" => Once(far, d)'
    BY <1>2, <1>4, <1>5, <1>6, <1>7, SMTT(30) DEF Sound, Once
  <2>2. Grows(far) BY <1>1, <1>2, <1>5, <1>7, ZenonT(60) DEF Grows, Sound, HeldExists, wire
  <2>3. HeldExists(far)'
    <3>1. task'[far][c] = there /\ Backed(far, c) BY <1>2, <1>6, ZenonT(60) DEF Sound, HeldExists
    <3>2. Backed(far, c)' BY <1>4, <1>7, <3>1 DEF Backed
    <3> QED BY <1>1, <1>2, <1>5, <1>6, <2>2, <3>2, ExistsStays, Zenon DEF Sound
  <2> QED BY <1>2, <1>5, <2>1, <2>3 DEF Sound
<1> QED BY <1>1, <1>8, <1>9, <1>10, OwnedIsSoundNext, ZenonT(60)

-----------------------------------------------------------------------------
(* Every step *)

\* A step that changes nothing.
LEMMA UnchangedOwned ==
  ASSUME ConnectionsOwned, UNCHANGED vars
  PROVE  ConnectionsOwned'
<1>1. TypeOK' BY OwnedIsSound, Zenon DEF TypeOK, vars, wire, dialed
<1>2. \A n \in Node : Sound(n)' BY OwnedIsSound, OtherIsSound, Zenon DEF vars, wire
<1> QED BY <1>1, <1>2, OwnedIsSoundNext, Zenon

\* Every step keeps the invariant.
LEMMA NextOwned ==
  ASSUME ConnectionsOwned, [Next]_vars
  PROVE  ConnectionsOwned'
<1>1. CASE UNCHANGED vars BY <1>1, UnchangedOwned, Zenon
<1>2. ASSUME NEW n \in Node, \E p \in Routes(n) : Dial(n, p)
      PROVE  ConnectionsOwned'
  BY <1>2, DialOK, Zenon
<1>3. ASSUME NEW n \in Node, NEW c \in DOMAIN dialer,
             \/ Incoming(n, c) \/ IncomingRefused(n, c) \/ SessionFails(n, c) \/ Judge(n, c)
             \/ RejectSession(n, c) \/ AdmitSession(n, c) \/ SessionCrowdedOut(n, c)
             \/ ProposeSession(n, c) \/ CloseArrives(n, c) \/ LinkLost(n, c)
             \/ TunnelOpens(n, c) \/ TunnelEnds(n, c)
      PROVE  ConnectionsOwned'
  BY <1>3, IncomingOK, ClosingStepsOK, SessionFailsOK, JudgeOK, TunnelsOK, AdmitSessionOK,
     ProposeSessionOK, Zenon
<1>4. ASSUME NEW n \in Node,
             \/ ProofSucceeds(n) \/ ReplacementProved(n) \/ ReplacementFails(n)
             \/ ConnectionEnds(n) \/ SilenceRetires(n) \/ NetworkChanges(n)
             \/ DrainEnds(n) \/ DrainTimesOut(n) \/ Revoke(n) \/ RecentForgotten(n)
      PROVE  ConnectionsOwned'
  BY <1>4, ProofSucceedsOK, ReplacementProvedOK, ReplacementFailsOK, ConnectionEndsOK,
     NetworkChangesOK, DrainOverOK, RevokeOK, RecentForgottenOK, Zenon
<1> QED BY <1>1, <1>2, <1>3, <1>4, Zenon DEF Next

\* finish_authenticated, admit_authenticated, finish_ready_replacements, the drains,
\* network resets and revocations of both services: every open connection is owned
\* once, and none is kept to a revoked peer.
THEOREM SessionsOwned == Spec => []ConnectionsOwned
<1>1. ConnectionsOwned /\ [Next]_vars => ConnectionsOwned' BY NextOwned
<1> QED BY InitOwned, <1>1, PTL DEF Spec

-----------------------------------------------------------------------------
(* What is held is kept *)

\* What RegisteredIsKept and DrainIsKept say of one computer.
PlaceKept(n) ==
    active[n] # None /\ Open(n, active[n]) /\ active'[n] # active[n] /\ faults' = faults
    => /\ active'[n] # None
       /\ \/ replacing[n] = [conn |-> active'[n], old |-> active[n], proved |-> TRUE]
          \/ Preferred(active'[n]) /\ ~Preferred(active[n])

TunnelsKept(n) ==
    draining[n] \in tunnels[n] /\ Open(n, draining[n]) /\ faults' = faults
    => /\ draining'[n] = draining[n]
       /\ end'[n][draining[n]] = "open" \/ end[Peer(n)][draining[n]] = "closed"

\* What is kept at each computer is kept.
LEMMA KeptByAll ==
  ASSUME \A n \in Node : PlaceKept(n) /\ TunnelsKept(n)
  PROVE  RegisteredIsKept /\ DrainIsKept
BY Zenon DEF RegisteredIsKept, DrainIsKept, PlaceKept, TunnelsKept

\* A step of n alone keeps the places of the other computer.
LEMMA KeptAlone ==
  ASSUME NEW n \in Node, Alone(n), PlaceKept(n), TunnelsKept(n)
  PROVE  RegisteredIsKept /\ DrainIsKept
<1>1. \A m \in Node \ {n} : PlaceKept(m) /\ TunnelsKept(m)
  BY Zenon DEF Alone, PlaceKept, TunnelsKept, Open
<1> QED BY <1>1, KeptByAll, Zenon

\* A fault may cost a connection its place.
LEMMA KeptByFault ==
  ASSUME TypeOK, Fault
  PROVE  RegisteredIsKept /\ DrainIsKept
<1>1. faults' # faults BY DEF TypeOK, Fault
<1> QED BY <1>1, KeptByAll, Zenon DEF PlaceKept, TunnelsKept

\* The connection that drains with a tunnel, and what else holds it: nothing.
LEMMA DrainingIsConn ==
  ASSUME TypeOK, NEW n \in Node, Sound(n), draining[n] \in tunnels[n], Open(n, draining[n])
  PROVE  /\ draining[n] \in Conn /\ draining[n] # None
         /\ active[n] # draining[n] /\ replacing[n].conn # draining[n] /\ task[n][draining[n]] = NoTask
BY SMTT(30) DEF TypeOK, Sound, Once, Open, None, Conn

\* A step that closes the connections in cs and changes no place.
LEMMA KeptWhenClosing ==
  ASSUME TypeOK, NEW n \in Node, Sound(n), NEW cs, Closing(n, cs),
         active'[n] = active[n] \/ ~Open(n, active[n]), draining'[n] = draining[n],
         draining[n] \in cs /\ draining[n] \in tunnels[n] /\ Open(n, draining[n])
           => end[Peer(n)][draining[n]] = "closed"
  PROVE  PlaceKept(n) /\ TunnelsKept(n)
<1>1. PlaceKept(n) BY Zenon DEF PlaceKept
<1>2. \A d \in Conn : end'[n][d] = IF d \in cs THEN "closed" ELSE end[n][d] BY ClosingIs, Zenon
<1>3. TunnelsKept(n) BY <1>2, DrainingIsConn, Zenon DEF TunnelsKept, Open
<1> QED BY <1>1, <1>3, Zenon

\* The steps that close a connection nobody registered or drains.
LEMMA ClosingStepsKeep ==
  ASSUME ConnectionsOwned, NEW n \in Node, NEW c \in DOMAIN dialer,
         \/ IncomingRefused(n, c) \/ CloseArrives(n, c) \/ LinkLost(n, c) \/ SessionFails(n, c)
         \/ RejectSession(n, c) \/ SessionCrowdedOut(n, c)
  PROVE  RegisteredIsKept /\ DrainIsKept
<1>1. TypeOK /\ Sound(n) /\ c \in Conn BY OwnedIsSound, DialledIsConn, Zenon
<1>2. Alone(n) BY ClosingStepsOK, SessionFailsOK, Zenon
<1>3. Closing(n, {c}) /\ active' = active /\ draining' = draining
  BY Zenon DEF IncomingRefused, CloseArrives, LinkLost, SessionFails, RejectSession, SessionCrowdedOut, Drop, table
<1>4. CASE IncomingRefused(n, c)
  <2>1. end[n][c] = "none" BY <1>4, Zenon DEF IncomingRefused
  <2> QED BY <1>1, <1>2, <1>3, <2>1, KeptWhenClosing, KeptAlone, Zenon DEF Open
<1>5. CASE CloseArrives(n, c)
  <2>1. end[Peer(n)][c] = "closed" BY <1>5, Zenon DEF CloseArrives
  <2> QED BY <1>1, <1>2, <1>3, <2>1, KeptWhenClosing, KeptAlone, ZenonT(60)
<1>6. CASE LinkLost(n, c) BY <1>1, <1>6, KeptByFault, Zenon DEF LinkLost
<1>7. CASE SessionFails(n, c) \/ RejectSession(n, c) \/ SessionCrowdedOut(n, c)
  <2>1. task[n][c] # NoTask
    BY <1>7 DEF SessionFails, RejectSession, SessionCrowdedOut, Finish, NoTask
  <2> QED BY <1>1, <1>2, <1>3, <2>1, DrainingIsConn, KeptWhenClosing, KeptAlone, ZenonT(60)
<1> QED BY <1>4, <1>5, <1>6, <1>7, Zenon

\* The steps that leave the places and the ends alone.
LEMMA QuietStepsKeep ==
  ASSUME NEW n \in Node, NEW c,
         Judge(n, c) \/ ProofSucceeds(n) \/ TunnelOpens(n, c) \/ TunnelEnds(n, c)
  PROVE  RegisteredIsKept /\ DrainIsKept
<1>1. active' = active /\ draining' = draining /\ end' = end
  BY Zenon DEF Judge, ProofSucceeds, TunnelOpens, TunnelEnds, table
<1>2. \A m \in Node : PlaceKept(m) BY <1>1, Zenon DEF PlaceKept
<1>3. \A m \in Node : TunnelsKept(m) BY <1>1, Zenon DEF TunnelsKept, Open
<1> QED BY <1>2, <1>3, KeptByAll, Zenon

\* The steps that open a connection.
LEMMA OpeningStepsKeep ==
  ASSUME ConnectionsOwned, NEW n \in Node,
         (\E p \in Routes(n) : Dial(n, p)) \/ (\E c \in DOMAIN dialer : Incoming(n, c))
  PROVE  RegisteredIsKept /\ DrainIsKept
<1>1. TypeOK BY OwnedIsSound, Zenon
<1>2. active' = active /\ draining' = draining BY Zenon DEF Dial, Incoming, table
<1>3. \E c : end' = [end EXCEPT ![n][c] = "open"] BY Zenon DEF Dial, Incoming
<1>4. \A m \in Node, d \in Conn : end[m][d] = "open" => end'[m][d] = "open" BY <1>1, <1>3 DEF TypeOK
<1> QED BY <1>1, <1>2, <1>4, KeptByAll, Zenon DEF PlaceKept, TunnelsKept, Open, TypeOK

\* A registration that is due replaces an open connection only as PlaceKept says.
LEMMA AdmissionKeeps ==
  ASSUME TypeOK, NEW n \in Node, Sound(n), NEW c \in Conn, NEW old, Admit(n, c, old),
         active[n] = old /\ old # None /\ Open(n, old) => replacing[n] = [conn |-> c, old |-> old, proved |-> TRUE],
         Open(n, c) => active[n] # c /\ draining[n] # c
  PROVE  PlaceKept(n) /\ TunnelsKept(n)
<1>1. c # None BY SMTT(30) DEF Conn, None
<1>2. CASE Kept /\ Closing(n, {c}) BY <1>2, KeptWhenClosing, Zenon DEF Kept
<1>3. CASE Taken(n, c) /\ active[n] = None /\ Closing(n, {})
  <2>1. draining'[n] = draining[n] BY <1>3, Zenon DEF Taken
  <2>2. PlaceKept(n) BY <1>3, ZenonT(60) DEF PlaceKept
  <2>3. \A d \in Conn : end'[n][d] = end[n][d] BY <1>3, ClosingIs, SMTT(30)
  <2>4. TunnelsKept(n) BY <2>1, <2>3, DrainingIsConn, ZenonT(60) DEF TunnelsKept, Open
  <2> QED BY <2>2, <2>4, Zenon
<1>4. CASE /\ Taken(n, c) /\ active[n] # None /\ Closing(n, {active[n]})
           /\ active[n] # old /\ Preferred(c) /\ ~Preferred(active[n])
  <2>1. draining'[n] = draining[n] /\ active'[n] = c BY <1>4, Zenon DEF Taken, TypeOK
  <2>2. PlaceKept(n) BY <1>1, <1>4, <2>1, ZenonT(60) DEF PlaceKept
  <2>3. \A d \in Conn : end'[n][d] = IF d = active[n] THEN "closed" ELSE end[n][d] BY <1>4, ClosingIs, SMTT(30)
  <2>4. TunnelsKept(n) BY <2>1, <2>3, DrainingIsConn, Zenon DEF TunnelsKept, Open
  <2> QED BY <2>2, <2>4
<1>5. CASE /\ active[n] # None /\ active[n] = old /\ draining[n] = None
           /\ Taken(n, c) \/ Drained(n, c)
  <2>1. active'[n] = c BY <1>5, Zenon DEF Taken, Drained, TypeOK
  <2>2. PlaceKept(n) BY <1>1, <1>5, <2>1, Zenon DEF PlaceKept
  <2>3. TunnelsKept(n) BY <1>5, DrainingIsConn, Zenon DEF TunnelsKept
  <2> QED BY <2>2, <2>3
<1> QED BY <1>2, <1>3, <1>4, <1>5, AdmitIs, ZenonT(60)

\* A connection that a task found dead has ended: no judgement costs an open one
\* its place.
LEMMA AdmitSessionKeeps ==
  ASSUME ConnectionsOwned, NEW n \in Node, NEW c \in DOMAIN dialer, AdmitSession(n, c)
  PROVE  RegisteredIsKept /\ DrainIsKept
<1>1. TypeOK /\ Sound(n) /\ c \in Conn BY OwnedIsSound, DialledIsConn
<1>2. Alone(n) BY AdmitSessionOK, Zenon
<1> PICK old : old = IF task[n][c].sup = "dead" THEN task[n][c].old ELSE None BY Zenon
<1>3. Admit(n, c, old) /\ Finish(n, c) BY Zenon DEF AdmitSession
<1>4. old # None => ~Open(n, old) BY <1>1, Zenon DEF Sound, HeldExists, Backed, Open
<1>5. Open(n, c) => active[n] # c /\ draining[n] # c BY <1>1, <1>3, FinishIs, ZenonT(60) DEF Open
<1> QED BY <1>1, <1>2, <1>3, <1>4, <1>5, AdmissionKeeps, KeptAlone, ZenonT(60)

\* The candidate gives way, or the pending one does: neither has a place yet.
LEMMA ProposeSessionKeeps ==
  ASSUME ConnectionsOwned, NEW n \in Node, NEW c \in DOMAIN dialer, ProposeSession(n, c)
  PROVE  RegisteredIsKept /\ DrainIsKept
<1>1. TypeOK /\ Sound(n) /\ c \in Conn BY OwnedIsSound, DialledIsConn
<1>2. Alone(n) /\ Finish(n, c) BY ProposeSessionOK, Zenon DEF ProposeSession
<1>3. active' = active /\ draining' = draining BY Zenon DEF ProposeSession, Drop
<1>4. Closing(n, {c}) \/ Closing(n, {replacing[n].conn}) BY Zenon DEF ProposeSession, Drop
<1>5. Open(n, c) => draining[n] # c BY <1>1, <1>2, FinishIs, ZenonT(60) DEF Open
<1>6. draining[n] \in tunnels[n] /\ Open(n, draining[n]) => draining[n] # replacing[n].conn
  BY <1>1, DrainingIsConn, Zenon
<1>7. PlaceKept(n) /\ TunnelsKept(n) BY <1>1, <1>3, <1>4, <1>5, <1>6, KeptWhenClosing, ZenonT(60)
<1> QED BY <1>2, <1>7, KeptAlone, Zenon

\* A replacement takes the place only once it is proved, and when it fails it is
\* the candidate that is closed.
LEMMA ReplacementKeeps ==
  ASSUME ConnectionsOwned, NEW n \in Node, ReplacementProved(n) \/ ReplacementFails(n)
  PROVE  RegisteredIsKept /\ DrainIsKept
<1>1. TypeOK /\ Sound(n) BY OwnedIsSound, Zenon
<1>2. Alone(n) BY ReplacementProvedOK, ReplacementFailsOK, Zenon
<1> PICK c, old : c = replacing[n].conn /\ old = replacing[n].old BY Zenon
<1>3. draining[n] \in tunnels[n] /\ Open(n, draining[n]) => draining[n] # c BY <1>1, DrainingIsConn, Zenon
<1>4. CASE Drop(n, c)
  <2>1. PlaceKept(n) /\ TunnelsKept(n) BY <1>1, <1>3, <1>4, KeptWhenClosing, ZenonT(60) DEF Drop
  <2> QED BY <1>2, <2>1, KeptAlone, Zenon
<1>5. CASE ReplacementProved(n) /\ Admit(n, c, old)
  <2>1. replacing[n].proved BY <1>5, Zenon DEF ReplacementProved
  <2>2. replacing[n] \in [conn : Conn, old : Conn, proved : BOOLEAN]
    BY <1>1, <2>1 DEF TypeOK, Replacement, NoReplacement
  <2>3. c \in Conn /\ replacing[n] = [conn |-> c, old |-> old, proved |-> TRUE] BY <2>1, <2>2, Zenon
  <2>4. Open(n, c) => active[n] # c /\ draining[n] # c BY <1>1, <2>3, Zenon DEF Sound, Once, Open
  <2>5. PlaceKept(n) /\ TunnelsKept(n) BY <1>1, <1>5, <2>3, <2>4, AdmissionKeeps, ZenonT(60)
  <2> QED BY <1>2, <2>5, KeptAlone
<1> QED BY <1>4, <1>5, Zenon DEF ReplacementProved, ReplacementFails

\* What has ended, and a drain that is over.
LEMMA EndingStepsKeep ==
  ASSUME ConnectionsOwned, NEW n \in Node, ConnectionEnds(n) \/ DrainEnds(n)
  PROVE  RegisteredIsKept /\ DrainIsKept
<1>1. TypeOK /\ Sound(n) BY OwnedIsSound
<1>2. Alone(n) BY ConnectionEndsOK, DrainOverOK, Zenon
<1>3. CASE ConnectionEnds(n)
  <2>1. PlaceKept(n) BY <1>3, Zenon DEF ConnectionEnds, PlaceKept, Open
  <2>2. TunnelsKept(n) BY <1>3, Zenon DEF ConnectionEnds, TunnelsKept, Open
  <2> QED BY <1>2, <2>1, <2>2, KeptAlone, ZenonT(60)
<1>4. CASE DrainEnds(n)
  <2>1. PlaceKept(n) BY <1>4, Zenon DEF DrainEnds, PlaceKept
  <2>2. TunnelsKept(n) BY <1>4, Zenon DEF DrainEnds, TunnelsKept, Open
  <2> QED BY <1>2, <2>1, <2>2, KeptAlone
<1> QED BY <1>3, <1>4, Zenon

\* The steps that are faults.
LEMMA FaultyStepsKeep ==
  ASSUME ConnectionsOwned, NEW n \in Node,
         SilenceRetires(n) \/ NetworkChanges(n) \/ DrainTimesOut(n) \/ Revoke(n) \/ RecentForgotten(n)
  PROVE  RegisteredIsKept /\ DrainIsKept
BY OwnedIsSound, KeptByFault, Zenon DEF SilenceRetires, NetworkChanges, DrainTimesOut, Revoke, RecentForgotten

-----------------------------------------------------------------------------
(* Every step *)

\* Every step keeps what is held.
LEMMA NextKeeps ==
  ASSUME ConnectionsOwned, Next
  PROVE  RegisteredIsKept /\ DrainIsKept
<1>1. ASSUME NEW n \in Node, \E p \in Routes(n) : Dial(n, p)
      PROVE  RegisteredIsKept /\ DrainIsKept
  BY <1>1, OpeningStepsKeep, Zenon
<1>2. ASSUME NEW n \in Node, NEW c \in DOMAIN dialer,
             \/ Incoming(n, c) \/ IncomingRefused(n, c) \/ SessionFails(n, c) \/ Judge(n, c)
             \/ RejectSession(n, c) \/ AdmitSession(n, c) \/ SessionCrowdedOut(n, c)
             \/ ProposeSession(n, c) \/ CloseArrives(n, c) \/ LinkLost(n, c)
             \/ TunnelOpens(n, c) \/ TunnelEnds(n, c)
      PROVE  RegisteredIsKept /\ DrainIsKept
  BY <1>2, OpeningStepsKeep, ClosingStepsKeep, QuietStepsKeep, AdmitSessionKeeps, ProposeSessionKeeps, ZenonT(60)
<1>3. ASSUME NEW n \in Node,
             \/ ProofSucceeds(n) \/ ReplacementProved(n) \/ ReplacementFails(n)
             \/ ConnectionEnds(n) \/ SilenceRetires(n) \/ NetworkChanges(n)
             \/ DrainEnds(n) \/ DrainTimesOut(n) \/ Revoke(n) \/ RecentForgotten(n)
      PROVE  RegisteredIsKept /\ DrainIsKept
  BY <1>3, QuietStepsKeep, ReplacementKeeps, EndingStepsKeep, FaultyStepsKeep, ZenonT(60)
<1> QED BY <1>1, <1>2, <1>3, Zenon DEF Next

\* No step without a fault takes an open connection its place (register_connection,
\* finish_ready_replacements) or its tunnels (Drains::begin).
THEOREM SessionsKept == Spec => HeldIsKept
<1>1. ConnectionsOwned /\ [Next]_vars => [RegisteredIsKept /\ DrainIsKept]_vars BY NextKeeps
<1> QED BY SessionsOwned, <1>1, PTL DEF Spec, HeldIsKept

=============================================================================
