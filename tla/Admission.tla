------------------------------ MODULE Admission ------------------------------
(***************************************************************************)
(* Inbound admission (service/admission.rs): which connection attempts of  *)
(* validated sources start an authentication task, in which of the two     *)
(* pools, and what one source may occupy.  A source is what                *)
(* `canonical_source` leaves of an address.                                *)
(***************************************************************************)
EXTENDS Integers, FiniteSets, FiniteSetsExt

CONSTANTS
  Source,        \* canonical sources
  KnownSource,    \* those at an address the directory holds
  SourceWindow,  \* SOURCE_WINDOW
  TaskTime,      \* CONNECT_TIMEOUT + SESSION_TIMEOUT
  Tracked,       \* MAX_TRACKED_SOURCES
  OrdinaryPool,  \* MAX_PENDING_INBOUND_SESSIONS
  PriorityPool,  \* MAX_PENDING_PRIORITY_INBOUND_SESSIONS
  LastInstant    \* bound on time

VARIABLES
  sources,   \* InboundAdmission::sources
  tasks,     \* pending authentications of both pools
  refused,   \* the last refusal: what it found, or {}
  moment     \* the monotonic clock

admissionVars == <<sources, tasks, refused, moment>>

\* The constant assertion of admission.rs:10.
ASSUME AdmissionAssumption ==
  /\ TaskTime \in Nat /\ SourceWindow \in Nat /\ TaskTime < SourceWindow
  /\ Tracked \in Nat \ {0} /\ OrdinaryPool \in Nat /\ PriorityPool \in Nat
  /\ KnownSource \subseteq Source /\ LastInstant \in Nat

SourceRecord ==
  [source : Source, started : Nat, admitted : 1..2, authenticated : BOOLEAN]

\* `back` marks the return of a source that authenticated in this window;
\* `since` collects the other sources admitted after the task started.
Task ==
  [id : 1..(OrdinaryPool + PriorityPool), source : Source, priority : BOOLEAN,
   started : Nat, back : BOOLEAN, since : SUBSET Source]

InPool(priority) == {t \in tasks : t.priority = priority}

\* retain: windows that have run out are forgotten.
Unexpired == {w \in sources : moment - w.started < SourceWindow}

Evicted_Newest(windows) ==
  IF Cardinality(windows) < Tracked THEN windows
  ELSE windows \ {CHOOSE w \in windows : \A v \in windows : v.started <= w.started}

\* The oldest window makes room when the table is full.
Evicted(windows) ==
  IF Cardinality(windows) < Tracked THEN windows
  ELSE windows \ {CHOOSE w \in windows : \A v \in windows : w.started <= v.started}

\* A source gets one session in its window, two once it has authenticated.
Exhausted(w) == w.admitted >= IF w.authenticated THEN 2 ELSE 1

Allow(source) == \A w \in Unexpired : w.source = source => ~Exhausted(w)

Counted(source) ==
  LET own == {w \in Unexpired : w.source = source}
  IN IF own # {}
     THEN {IF w \in own THEN [w EXCEPT !.admitted = @ + 1] ELSE w : w \in Unexpired}
     ELSE Evicted(Unexpired) \cup
            {[source |-> source, started |-> moment, admitted |-> 1, authenticated |-> FALSE]}

\* Only a remembered source uses the priority pool, while that has room.
UsePriority(source) == source \in KnownSource /\ Cardinality(InPool(TRUE)) < PriorityPool

\* Refused on a full pool before the window is asked, or by the window.
TurnsAway(source) ==
  \/ ~UsePriority(source) /\ Cardinality(InPool(FALSE)) >= OrdinaryPool
  \/ ~Allow(source)

\* The other sources whose admission can push the window of this task out:
\* those admitted no earlier than the window started.
Since(source) ==
  LET start == Min({moment} \cup {w.started : w \in {v \in Unexpired : v.source = source}})
  IN {w.source : w \in {v \in Unexpired : v.started >= start}} \ {source}

\* Once there are enough of them, which ones they are no longer matters.
Crowd(others) == IF Cardinality(others) >= Tracked THEN Source ELSE others

Started(source) ==
  [id |-> Min({i \in 1..(OrdinaryPool + PriorityPool) : \A t \in tasks : t.id # i}),
   source |-> source, priority |-> UsePriority(source), started |-> moment,
   back |-> \E w \in Unexpired : w.source = source,
   since |-> Crowd(Since(source))]

AdmissionInit == sources = {} /\ tasks = {} /\ refused = {} /\ moment = 0

(***************************************************************************)
(* An unvalidated address is only asked to retry, which changes nothing.   *)
(***************************************************************************)
ScheduleAdmittedIncoming(source) ==
  \/ /\ TurnsAway(source)
     /\ sources' = IF ~UsePriority(source) /\ Cardinality(InPool(FALSE)) >= OrdinaryPool
                   THEN sources ELSE Unexpired
     /\ refused' = {[source |-> source, owed |-> Allow(source), holders |->
                      {t.source : t \in InPool(TRUE)}]}
     /\ UNCHANGED <<tasks, moment>>
  \/ /\ ~TurnsAway(source)
     /\ sources' = Counted(source)
     /\ tasks' = {[t EXCEPT !.since = Crowd(@ \cup ({source} \ {t.source}))] : t \in tasks}
                 \cup {Started(source)}
     /\ refused' = {}
     /\ UNCHANGED moment

\* note_authenticated, on a window that is still current.
Returned(w) == [w EXCEPT !.authenticated = TRUE]

\* A session that authenticated earns its source one return in this window.
NoteAuthenticated(t) ==
  /\ tasks' = tasks \ {t}
  /\ sources' = {IF w.source = t.source /\ moment - w.started < SourceWindow
                 THEN Returned(w) ELSE w : w \in sources}
  /\ refused' = {}
  /\ UNCHANGED moment

TaskFails(t) == tasks' = tasks \ {t} /\ refused' = {} /\ UNCHANGED <<sources, moment>>

\* Every task ends within its two timeouts.
AdmissionTick ==
  /\ moment < LastInstant
  /\ \A t \in tasks : moment - t.started < TaskTime
  /\ moment' = moment + 1
  /\ refused' = {}
  /\ UNCHANGED <<sources, tasks>>

AdmissionNext ==
  \/ \E s \in Source : ScheduleAdmittedIncoming(s)
  \/ \E t \in tasks : NoteAuthenticated(t) \/ TaskFails(t)
  \/ AdmissionTick

AdmissionSpec == AdmissionInit /\ [][AdmissionNext]_admissionVars

-----------------------------------------------------------------------------

(***************************************************************************)
(* The two hard ceilings hold, the table never outgrows its bound and      *)
(* never holds two windows of one source (`allow`'s retain, lookup and     *)
(* eviction, the pool test of `schedule_admitted_incoming`).               *)
(***************************************************************************)
PoolsBounded ==
  /\ Cardinality(InPool(FALSE)) <= OrdinaryPool
  /\ Cardinality(InPool(TRUE)) <= PriorityPool
  /\ Cardinality(sources) <= Tracked
  /\ \A v, w \in sources : v.source = w.source => v = w

(***************************************************************************)
(* One source never holds more than two authentication tasks, and only one *)
(* of them without having authenticated, unless at least as many other     *)
(* sources as the table tracks were admitted meanwhile and pushed its      *)
(* window out.  It rests on the window outlasting both timeouts (the       *)
(* constant assertion at admission.rs:10), on the one return being granted *)
(* only when the first task is over (`note_authenticated`), and on the     *)
(* OLDEST window making room.                                              *)
(***************************************************************************)
SourceShare ==
  \A s \in Source :
    LET mine == {t \in tasks : t.source = s /\ Cardinality(t.since) < Tracked}
    IN /\ Cardinality(mine) <= 2
       /\ Cardinality({t \in mine : ~t.back}) <= 1

(***************************************************************************)
(* A remembered source that has a session left in its window is refused    *)
(* only while remembered sources hold the whole priority pool: strangers   *)
(* can fill the ordinary pool but never keep a known member out            *)
(* (`schedule_admitted_incoming`, use_priority).                           *)
(***************************************************************************)
MembersGetIn ==
  \A r \in refused :
    r.source \in KnownSource /\ r.owed =>
      r.holders \subseteq KnownSource /\ (PriorityPool > 0 => r.holders # {})

\* The pools are bounded, shared between sources, and open to known members.
AdmissionIsFair == PoolsBounded /\ SourceShare /\ MembersGetIn
=============================================================================
