--------------------------- MODULE ThresholdProofs ---------------------------
(***************************************************************************)
(* Proofs about ThresholdSession, for any group and threshold, any         *)
(* sessions, steps, roles and packages.                                    *)
(*                                                                         *)
(* First, lemmas about each way a store is changed: the new store is       *)
(* consistent if the old one is, and keeps what the old one has signed.    *)
(* Then SessionInvariant is preserved by every action, and the properties  *)
(* follow from it; NoFork needs that two sets of K participants meet.      *)
(***************************************************************************)
EXTENDS ThresholdSession, FiniteSetTheorems, TLAPS

\* Store e has everything that was signed in store d.
Keeps(d, e) ==
    \A id \in Session : d.records[id].package # NoPackage =>
        /\ e.records[id].package = d.records[id].package
        /\ e.records[id].step = d.records[id].step
        /\ e.records[id].role = d.records[id].role
        /\ d.records[id].cached # NoPackage => e.records[id].cached = d.records[id].cached

\* The empty store that a first open finds is well formed
\* (FileSessionStore::open, Snapshot::default).
LEMMA EmptyOK == Empty \in Store /\ Consistent(Empty)
BY ThresholdAssumption DEF Empty, Store, Record, Phase, Time, NoRecord, Consistent, Holds

\* Session::open leaves a consistent store that keeps what was signed.
LEMMA BurntOK ==
    ASSUME NEW d \in Store, Consistent(d)
    PROVE  Burnt(d) \in Store /\ Consistent(Burnt(d)) /\ Keeps(d, Burnt(d))
<1> DEFINE e == Burnt(d)
<1>1. \A id \in Session :
         /\ e.records[id] \in Record
         /\ e.records[id].step = d.records[id].step
         /\ e.records[id].role = d.records[id].role
         /\ e.records[id].package = d.records[id].package
         /\ e.records[id].cached = d.records[id].cached
         /\ e.records[id].phase = IF d.records[id].phase \in {"absent", "signed", "discarded"}
                                  THEN d.records[id].phase ELSE "discarded"
  BY DEF Burnt, Store, Record, Phase
<1>2. e \in Store
  BY <1>1, Zenon DEF Burnt, Store
<1>3. \A id \in Session : Holds(e.records[id]) => Holds(d.records[id])
  BY <1>1, ZenonT(60) DEF Holds
<1>4. Consistent(e)
  <2> HIDE DEF e
  <2> QED BY <1>1, <1>3 DEF Consistent, Holds, Store, Record, Phase
<1>5. Keeps(d, e)
  <2> HIDE DEF e
  <2> QED BY <1>1 DEF Keeps
<1> QED BY <1>2, <1>4, <1>5, Zenon

\* The fields of a store in which one record was replaced.
LEMMA WithOK ==
    ASSUME NEW d \in Store, NEW now \in Time, NEW id \in Session, NEW r \in Record
    PROVE  /\ With(d, now, id, r) \in Store
           /\ With(d, now, id, r).records[id] = r
           /\ \A x \in Session : x # id => With(d, now, id, r).records[x] = d.records[x]
BY Zenon DEF With, Store

\* A store in which the record of one session changed is consistent if the
\* new record is well formed and competes with no other record for its place.
LEMMA ChangeOK ==
    ASSUME NEW d \in Store, Consistent(d), NEW now \in Time, NEW id \in Session, NEW r \in Record,
           r.phase \in {"absent", "proposed", "committed", "issued"} => r.package = NoPackage,
           r.phase \in {"consumed", "signed"} => r.package # NoPackage,
           r.cached # NoPackage => r.cached = r.package,
           r.phase # "absent" => r.step \in Step,
           Holds(r) => r.role \in Role /\ r.step \in Step,
           Holds(r) => Holds(d.records[id]) /\ r.role = d.records[id].role,
           r.step = d.records[id].step \/ ~Holds(r),
           d.records[id].package # NoPackage =>
              /\ r.package = d.records[id].package
              /\ r.step = d.records[id].step
              /\ r.role = d.records[id].role
              /\ d.records[id].cached # NoPackage => r.cached = d.records[id].cached
    PROVE  /\ With(d, now, id, r) \in Store
           /\ Consistent(With(d, now, id, r))
           /\ Keeps(d, With(d, now, id, r))
<1> DEFINE e == With(d, now, id, r)
<1>1. /\ e \in Store
      /\ e.records[id] = r
      /\ \A x \in Session : x # id => e.records[x] = d.records[x]
  BY WithOK
<1> HIDE DEF e
<1>2. \A x \in Session : Holds(e.records[x]) =>
         /\ Holds(d.records[x])
         /\ e.records[x].role = d.records[x].role
         /\ e.records[x].step = d.records[x].step
  BY <1>1, ZenonT(60)
<1>3. ASSUME NEW x \in Session, NEW y \in Session,
             Holds(e.records[x]), Holds(e.records[y]),
             e.records[x].role = e.records[y].role,
             SameScope(e.records[x].role, e.records[x].step, e.records[y].step)
      PROVE  e.records[x].step = e.records[y].step
  BY <1>2, <1>3 DEF Consistent
<1>4. Consistent(e)
  <2>1. ASSUME NEW x \in Session
        PROVE  /\ e.records[x].phase \in {"absent", "proposed", "committed", "issued"}
                     => e.records[x].package = NoPackage
               /\ e.records[x].phase \in {"consumed", "signed"} => e.records[x].package # NoPackage
               /\ e.records[x].cached # NoPackage => e.records[x].cached = e.records[x].package
               /\ e.records[x].phase # "absent" => e.records[x].step \in Step
               /\ Holds(e.records[x]) => e.records[x].role \in Role /\ e.records[x].step \in Step
    BY <1>1, SMTT(60) DEF Consistent
  <2> QED BY <2>1, <1>3, ZenonT(60) DEF Consistent
<1>5. Keeps(d, e)
  BY <1>1 DEF Keeps
<1> QED BY <1>1, <1>4, <1>5, Zenon DEF e

\* Session::propose adds a record that holds nothing.
LEMMA ProposedOK ==
    ASSUME NEW d \in Store, Consistent(d), NEW now \in Time, NEW id \in Session, NEW step \in Step,
           d.records[id].phase = "absent"
    PROVE  LET e == ProposedIn(d, id, step, now) IN e \in Store /\ Consistent(e) /\ Keeps(d, e)
<1> DEFINE r == [NoRecord EXCEPT !.phase = "proposed", !.step = step]
<1>1. r \in Record /\ r.phase = "proposed" /\ r.package = NoPackage /\ r.cached = NoPackage
      /\ r.step = step
  <2>1. NoRecord \in Record /\ NoRecord.package = NoPackage /\ NoRecord.cached = NoPackage
    BY ThresholdAssumption DEF NoRecord, Record, Phase, Time
  <2> QED BY <2>1, Zenon DEF Record, Phase
<1>2. d.records[id].package = NoPackage
  BY DEF Consistent
<1> HIDE DEF r
<1>3. ~Holds(r)
  BY <1>1, Zenon DEF Holds
<1>4. /\ With(d, now, id, r) \in Store
      /\ Consistent(With(d, now, id, r))
      /\ Keeps(d, With(d, now, id, r))
  BY <1>1, <1>2, <1>3, ChangeOK, Zenon
<1> QED BY <1>4 DEF ProposedIn, r

\* The second write of Session::commit changes the phase only.
LEMMA IssuedOK ==
    ASSUME NEW d \in Store, Consistent(d), NEW id \in Session, d.records[id].phase = "committed"
    PROVE  LET e == IssuedIn(d, id) IN e \in Store /\ Consistent(e) /\ Keeps(d, e)
<1> DEFINE r == [d.records[id] EXCEPT !.phase = "issued"]
<1>1. /\ d.last_time \in Time
      /\ d.records[id] \in Record
  BY DEF Store
<1>2. /\ r \in Record /\ r.phase = "issued" /\ r.step = d.records[id].step
      /\ r.role = d.records[id].role /\ r.package = d.records[id].package
      /\ r.cached = d.records[id].cached
  BY <1>1, Zenon DEF Record, Phase
<1>3. Holds(d.records[id]) /\ d.records[id].package = NoPackage
  BY Zenon DEF Consistent, Holds
<1>4. d.records[id].role \in Role /\ d.records[id].step \in Step
      /\ (d.records[id].cached # NoPackage => d.records[id].cached = d.records[id].package)
  BY <1>3, Zenon DEF Consistent
<1> HIDE DEF r
<1>5. /\ With(d, d.last_time, id, r) \in Store
      /\ Consistent(With(d, d.last_time, id, r))
      /\ Keeps(d, With(d, d.last_time, id, r))
  BY <1>1, <1>2, <1>3, <1>4, ChangeOK, Zenon
<1> QED BY <1>5 DEF IssuedIn, r

\* The first write of Session::sign turns a live lock into a permanent one.
LEMMA ConsumedOK ==
    ASSUME NEW d \in Store, Consistent(d), NEW id \in Session, NEW now \in Time,
           NEW package \in Package, MaySign(d.records[id], now)
    PROVE  LET e == ConsumedIn(d, id, package, now) IN
              e \in Store /\ Consistent(e) /\ Keeps(d, e) /\ e.records[id].phase = "consumed"
<1> DEFINE r == [d.records[id] EXCEPT !.phase = "consumed", !.package = package]
<1>1. d.records[id] \in Record
  BY DEF Store
<1>2. /\ r \in Record /\ r.phase = "consumed" /\ r.step = d.records[id].step
      /\ r.role = d.records[id].role /\ r.package = package
      /\ r.cached = d.records[id].cached
  BY <1>1, Zenon DEF Record, Phase
<1>3. Holds(d.records[id]) /\ d.records[id].package = NoPackage /\ package # NoPackage
  BY ThresholdAssumption, Zenon DEF MaySign, Holds
<1>4. d.records[id].role \in Role /\ d.records[id].step \in Step
      /\ d.records[id].cached = NoPackage
  BY <1>3, Zenon DEF Consistent
<1> HIDE DEF r
<1>5. /\ With(d, now, id, r) \in Store
      /\ Consistent(With(d, now, id, r))
      /\ Keeps(d, With(d, now, id, r))
  BY <1>2, <1>3, <1>4, ChangeOK, ZenonT(60)
<1>6. With(d, now, id, r).records[id] = r
  BY <1>2, WithOK
<1> QED BY <1>2, <1>5, <1>6, Zenon DEF ConsumedIn, r

\* The second write of Session::sign adds the share to its record.
LEMMA CachedOK ==
    ASSUME NEW d \in Store, Consistent(d), NEW id \in Session, d.records[id].phase = "consumed"
    PROVE  LET e == CachedIn(d, id) IN
              /\ e \in Store /\ Consistent(e) /\ Keeps(d, e)
              /\ e.records[id].phase = "signed"
              /\ e.records[id].cached = e.records[id].package
<1> DEFINE r == [d.records[id] EXCEPT !.phase = "signed", !.cached = d.records[id].package]
<1>1. d.last_time \in Time /\ d.records[id] \in Record
  BY DEF Store
<1>2. /\ r \in Record /\ r.phase = "signed" /\ r.step = d.records[id].step
      /\ r.role = d.records[id].role /\ r.package = d.records[id].package
      /\ r.cached = d.records[id].package
  BY <1>1, Zenon DEF Record, Phase
<1>3. Holds(d.records[id]) /\ d.records[id].package # NoPackage
  BY Zenon DEF Consistent, Holds
<1>4. d.records[id].role \in Role /\ d.records[id].step \in Step
      /\ (d.records[id].cached # NoPackage => d.records[id].cached = d.records[id].package)
  BY <1>3, Zenon DEF Consistent
<1> HIDE DEF r
<1>5. /\ With(d, d.last_time, id, r) \in Store
      /\ Consistent(With(d, d.last_time, id, r))
      /\ Keeps(d, With(d, d.last_time, id, r))
  BY <1>1, <1>2, <1>3, <1>4, ChangeOK, ZenonT(60)
<1>6. With(d, d.last_time, id, r).records[id] = r
  BY <1>1, <1>2, WithOK
<1> QED BY <1>2, <1>5, <1>6, Zenon DEF CachedIn, r

\* Session::discard gives up nothing that was signed.
LEMMA DiscardedOK ==
    ASSUME NEW d \in Store, Consistent(d), NEW id \in Session, NEW now \in Time,
           d.records[id].phase # "absent"
    PROVE  LET e == DiscardedIn(d, id, now) IN e \in Store /\ Consistent(e) /\ Keeps(d, e)
<1> DEFINE r == [d.records[id] EXCEPT !.phase = "discarded"]
<1>1. d.records[id] \in Record
  BY DEF Store
<1>2. /\ r \in Record /\ r.phase = "discarded" /\ r.step = d.records[id].step
      /\ r.role = d.records[id].role /\ r.package = d.records[id].package
      /\ r.cached = d.records[id].cached
  BY <1>1, Zenon DEF Record, Phase
<1> HIDE DEF r
<1>3. Holds(r) => Holds(d.records[id])
  BY <1>2, Zenon DEF Holds
<1>4. /\ d.records[id].cached # NoPackage => d.records[id].cached = d.records[id].package
      /\ d.records[id].step \in Step
      /\ Holds(d.records[id]) => d.records[id].role \in Role
  BY Zenon DEF Consistent
<1>5. /\ With(d, now, id, r) \in Store
      /\ Consistent(With(d, now, id, r))
      /\ Keeps(d, With(d, now, id, r))
  BY <1>2, <1>3, <1>4, ChangeOK, Zenon
<1> QED BY <1>5 DEF DiscardedIn, r

\* The first write of Session::commit: after the loop over the earlier records
\* no record that competes with the approved step holds the place.
LEMMA ApprovedOK ==
    ASSUME NEW d \in Store, Consistent(d), NEW id \in Session, NEW role \in Role, NEW now \in Time,
           d.records[id].phase = "proposed",
           \A prior \in Session : ~Blocks(d, id, role, now, prior)
    PROVE  LET e == Approved(d, id, role, now) IN
              e \in Store /\ Consistent(e) /\ Keeps(d, e) /\ e.records[id].phase = "committed"
<1> DEFINE e == Approved(d, id, role, now)
           G == GivenUp(d, id, role, now)
<1>1. \A x \in Session : d.records[x] \in Record
  BY DEF Store
<1>2. e.records[id] = [d.records[id] EXCEPT !.phase = "committed", !.role = role, !.committed_at = now]
  BY DEF Approved
<1>3. /\ e.records[id] \in Record /\ e.records[id].phase = "committed"
      /\ e.records[id].role = role /\ e.records[id].step = d.records[id].step
      /\ e.records[id].package = d.records[id].package
      /\ e.records[id].cached = d.records[id].cached
  <2> HIDE DEF e
  <2> QED BY <1>1, <1>2, ZenonT(60) DEF Record, Phase
<1>4. \A x \in Session : x # id =>
         e.records[x] = IF x \in G THEN [d.records[x] EXCEPT !.phase = "discarded"] ELSE d.records[x]
  BY DEF Approved
<1>5. \A x \in Session : x # id =>
         /\ e.records[x] \in Record
         /\ e.records[x].phase = IF x \in G THEN "discarded" ELSE d.records[x].phase
         /\ e.records[x].role = d.records[x].role
         /\ e.records[x].step = d.records[x].step
         /\ e.records[x].package = d.records[x].package
         /\ e.records[x].cached = d.records[x].cached
  <2> HIDE DEF e, G
  <2> SUFFICES ASSUME NEW x \in Session, x # id
               PROVE  /\ e.records[x] \in Record
                      /\ e.records[x].phase = IF x \in G THEN "discarded" ELSE d.records[x].phase
                      /\ e.records[x].role = d.records[x].role
                      /\ e.records[x].step = d.records[x].step
                      /\ e.records[x].package = d.records[x].package
                      /\ e.records[x].cached = d.records[x].cached
    OBVIOUS
  <2>1. CASE x \in G
    <3>1. e.records[x] = [d.records[x] EXCEPT !.phase = "discarded"]
      BY <1>4, <2>1, Zenon
    <3> QED BY <1>1, <2>1, <3>1 DEF Record, Phase
  <2>2. CASE x \notin G
    <3>1. e.records[x] = d.records[x]
      BY <1>4, <2>2, Zenon
    <3> QED BY <1>1, <2>2, <3>1, Zenon
  <2> QED BY <2>1, <2>2, Zenon
<1>6. e = [last_time |-> now, records |-> e.records] /\ e.records = [x \in Session |-> e.records[x]]
  BY Zenon DEF Approved
<1>7. e \in Store
  <2> HIDE DEF e
  <2> QED BY <1>3, <1>5, <1>6 DEF Store
<1>8. d.records[id].package = NoPackage /\ d.records[id].cached = NoPackage /\ d.records[id].step \in Step
  BY ThresholdAssumption DEF Consistent
<1>9. ASSUME NEW x \in Session, x # id, Holds(e.records[x]), e.records[x].role = role,
             SameScope(role, d.records[x].step, d.records[id].step)
      PROVE  d.records[x].step = d.records[id].step
  <2>1. d.records[x].phase \notin {"absent", "proposed"}
    BY <1>5, <1>9, SMTT(60) DEF Consistent, Holds
  <2>2. Competes(d, id, role, x)
    BY <1>5, <1>9, <2>1, Zenon DEF Competes
  <2>3. SUFFICES ASSUME d.records[x].step # d.records[id].step PROVE FALSE
    BY Zenon
  <2>4. d.records[x].package = NoPackage /\ Expired(d.records[x], now)
    BY <2>2, <2>3, Zenon DEF Blocks
  <2>5. d.records[x].phase # "discarded"
    BY <1>5, <1>9, <2>4, Zenon DEF Holds
  <2>6. x \in G
    BY <2>2, <2>4, <2>5, Zenon DEF GivenUp
  <2> QED BY <1>5, <1>9, <2>4, <2>6, ZenonT(60) DEF Holds
<1>10. \A x \in Session : x # id /\ Holds(e.records[x]) => Holds(d.records[x])
  <2> HIDE DEF e, G
  <2> QED BY <1>5, Zenon DEF Holds
<1> HIDE DEF e, G
<1>11. ASSUME NEW x \in Session, NEW y \in Session,
              Holds(e.records[x]), Holds(e.records[y]),
              e.records[x].role = e.records[y].role,
              SameScope(e.records[x].role, e.records[x].step, e.records[y].step)
       PROVE  e.records[x].step = e.records[y].step
  <2>1. CASE x = id /\ y = id
    BY <2>1, Zenon
  <2>2. CASE x # id /\ y = id
    BY <1>3, <1>5, <1>9, <1>11, <2>2, ZenonT(60)
  <2>3. CASE x = id /\ y # id
    <3>1. SameScope(role, d.records[y].step, d.records[id].step)
      BY <1>3, <1>5, <1>11, <2>3, Zenon DEF SameScope
    <3> QED BY <3>1, <1>3, <1>5, <1>9, <1>11, <2>3, ZenonT(60)
  <2>4. CASE x # id /\ y # id
    <3>1. Holds(d.records[x]) /\ Holds(d.records[y])
      BY <1>10, <1>11, <2>4, Zenon
    <3>2. /\ e.records[x].role = d.records[x].role /\ e.records[y].role = d.records[y].role
          /\ e.records[x].step = d.records[x].step /\ e.records[y].step = d.records[y].step
      BY <1>5, <2>4, Zenon
    <3>3. /\ d.records[x].role = d.records[y].role
          /\ SameScope(d.records[x].role, d.records[x].step, d.records[y].step)
      BY <1>11, <3>2, Zenon
    <3>4. d.records[x].step = d.records[y].step
      BY <3>1, <3>3, Zenon DEF Consistent
    <3> QED BY <3>2, <3>4, Zenon
  <2> QED BY <2>1, <2>2, <2>3, <2>4, Zenon
<1>12. ASSUME NEW x \in Session
       PROVE  /\ e.records[x].phase \in {"absent", "proposed", "committed", "issued"}
                    => e.records[x].package = NoPackage
              /\ e.records[x].phase \in {"consumed", "signed"} => e.records[x].package # NoPackage
              /\ e.records[x].cached # NoPackage => e.records[x].cached = e.records[x].package
              /\ e.records[x].phase # "absent" => e.records[x].step \in Step
              /\ Holds(e.records[x]) => e.records[x].role \in Role /\ e.records[x].step \in Step
  <2>1. CASE x = id
    BY <1>3, <1>8, <2>1, ZenonT(60)
  <2>2. CASE x # id
    <3>1. x \in G => d.records[x].phase # "absent"
      BY Zenon DEF G, GivenUp, Competes
    <3> QED BY <1>5, <1>10, <2>2, <3>1, ZenonT(60) DEF Consistent
  <2> QED BY <2>1, <2>2, Zenon
<1>13. Consistent(e)
  BY <1>11, <1>12, ZenonT(60) DEF Consistent
<1>14. Keeps(d, e)
  BY <1>5, <1>8, Zenon DEF Keeps
<1> QED BY <1>3, <1>7, <1>13, <1>14, Zenon DEF e

-----------------------------------------------------------------------------

\* When the stores a participant may find are replaced by ones that keep what
\* was signed, every share stays recorded and cached.
LEMMA Replaced ==
    ASSUME TypeOK, SessionInvariant, NEW i \in Participant, NEW D \in SUBSET Store, D # {},
           disk' = [disk EXCEPT ![i] = D],
           \A e \in D : Consistent(e) /\ \E d \in disk[i] : Keeps(d, e)
    PROVE  /\ disk' \in [Participant -> SUBSET Store]
           /\ disk'[i] = D
           /\ \A j \in Participant : j # i => disk'[j] = disk[j]
           /\ \A j \in Participant : disk'[j] # {} /\ \A d \in disk'[j] : Consistent(d)
           /\ \A s \in shares : \A d \in disk'[s.who] :
                 /\ d.records[s.id].package = s.package
                 /\ d.records[s.id].step = s.step
                 /\ d.records[s.id].role = s.role
           /\ \A s \in released : \A d \in disk'[s.who] :
                 /\ d.records[s.id].package = s.package
                 /\ d.records[s.id].cached = s.package
<1>1. /\ disk' \in [Participant -> SUBSET Store]
      /\ disk'[i] = D
      /\ \A j \in Participant : j # i => disk'[j] = disk[j]
  BY Zenon DEF TypeOK
<1>2. \A j \in Participant : disk'[j] # {} /\ \A d \in disk'[j] : Consistent(d)
  BY <1>1, Zenon DEF SessionInvariant, InProgress
<1>3. \A s \in shares \cup released :
         s.who \in Participant /\ s.id \in Session /\ s.package \in Package /\ s.package # NoPackage
  BY ThresholdAssumption, Zenon DEF TypeOK, Share
<1>4. ASSUME NEW s \in shares, NEW e \in disk'[s.who]
      PROVE  /\ e.records[s.id].package = s.package
             /\ e.records[s.id].step = s.step
             /\ e.records[s.id].role = s.role
  <2>1. CASE s.who # i
    BY <1>1, <1>3, <2>1, Zenon DEF SessionInvariant, Recorded
  <2>2. CASE s.who = i
    <3>1. PICK d \in disk[i] : Keeps(d, e)
      BY <1>1, <1>4, <2>2, Zenon
    <3>2. d.records[s.id].package = s.package /\ d.records[s.id].step = s.step
          /\ d.records[s.id].role = s.role
      BY <2>2, Zenon DEF SessionInvariant, Recorded
    <3> QED BY <1>3, <3>1, <3>2, ZenonT(60) DEF Keeps
  <2> QED BY <2>1, <2>2, Zenon
<1>5. ASSUME NEW s \in released, NEW e \in disk'[s.who]
      PROVE  e.records[s.id].package = s.package /\ e.records[s.id].cached = s.package
  <2>1. CASE s.who # i
    BY <1>1, <1>3, <2>1, Zenon DEF SessionInvariant, ReleasedIsCached
  <2>2. CASE s.who = i
    <3>1. PICK d \in disk[i] : Keeps(d, e)
      BY <1>1, <1>5, <2>2
    <3>2. d.records[s.id].package = s.package /\ d.records[s.id].cached = s.package
      BY <2>2, Zenon DEF SessionInvariant, ReleasedIsCached
    <3> QED BY <1>3, <3>1, <3>2, ZenonT(60) DEF Keeps
  <2> QED BY <2>1, <2>2, Zenon
<1> QED BY <1>1, <1>2, <1>4, <1>5, Zenon

\* The steps of one participant leave the calls of the others alone.
LEMMA OthersInProgress ==
    ASSUME TypeOK, SessionInvariant, NEW i \in Participant, NEW j \in Participant, j # i,
           disk'[j] = disk[j], store'[j] = store[j], pc'[j] = pc[j], next'[j] = next[j], at'[j] = at[j]
    PROVE  InProgress(j)'
<1>1. InProgress(j)
  BY Zenon DEF SessionInvariant
<1> QED BY <1>1, Zenon DEF InProgress, Midway

\* FileSessionStore::persist starts with a store that keeps what is in memory.
LEMMA WriteOK ==
    ASSUME TypeOK, SessionInvariant, NEW i \in Participant, NEW op \in Writing, NEW id \in Session,
           NEW s \in Store, Consistent(s), Keeps(store[i], s), Midway(op, s, id),
           pc[i] # "down", Write(i, op, id, s),
           nonces' \in [Participant -> SUBSET Session],
           UNCHANGED <<store, shares, released>>
    PROVE  (TypeOK /\ SessionInvariant)'
<1> DEFINE D == disk[i] \cup {s}
<1>1. /\ D \in SUBSET Store /\ D # {}
      /\ disk' = [disk EXCEPT ![i] = D]
      /\ store[i] \in disk[i]
  BY Zenon DEF TypeOK, Write, SessionInvariant, InProgress
<1>2. \A d \in disk[i] : Keeps(d, d)
  BY Zenon DEF Keeps
<1>3. \A e \in D : Consistent(e) /\ \E d \in disk[i] : Keeps(d, e)
  BY <1>1, <1>2, Zenon DEF SessionInvariant
<1> HIDE DEF D
<1>4. /\ disk' \in [Participant -> SUBSET Store]
      /\ disk'[i] = D
      /\ \A j \in Participant : j # i => disk'[j] = disk[j]
      /\ \A j \in Participant : disk'[j] # {} /\ \A d \in disk'[j] : Consistent(d)
      /\ \A t \in shares : \A d \in disk'[t.who] :
            /\ d.records[t.id].package = t.package
            /\ d.records[t.id].step = t.step
            /\ d.records[t.id].role = t.role
      /\ \A t \in released : \A d \in disk'[t.who] :
            /\ d.records[t.id].package = t.package
            /\ d.records[t.id].cached = t.package
  BY <1>1, <1>3, Replaced, Zenon
<1>5. TypeOK'
  BY <1>4, Zenon DEF TypeOK, Write
<1>6. InProgress(i)'
  <2>1. next'[i] = s /\ pc'[i] = op /\ at'[i] = id /\ store'[i] = store[i]
    BY Zenon DEF Write, TypeOK
  <2>2. s \in disk'[i] /\ store[i] \in disk'[i]
    BY <1>1, <1>4, Zenon DEF D
  <2> QED BY <1>4, <2>1, <2>2, Zenon DEF InProgress, Midway, Writing
<1>7. ASSUME NEW j \in Participant, j # i PROVE InProgress(j)'
  <2>1. store'[j] = store[j] /\ pc'[j] = pc[j] /\ next'[j] = next[j] /\ at'[j] = at[j]
    BY <1>7, Zenon DEF Write, TypeOK
  <2> QED BY <1>4, <1>7, <2>1, OthersInProgress, Zenon
<1>8. SessionInvariant'
  BY <1>4, <1>6, <1>7, Zenon DEF SessionInvariant, Recorded, ReleasedIsCached
<1> QED BY <1>5, <1>8, Zenon

\* persist returns: the new store is the only one that can be found.
LEMMA WrittenOK ==
    ASSUME TypeOK, SessionInvariant, NEW i \in Participant, pc[i] \in Writing, Written(i),
           nonces' \in [Participant -> SUBSET Session],
           UNCHANGED shares, released' \subseteq Share,
           \A t \in released' : t \in released \/
               /\ t.who = i
               /\ next[i].records[t.id].package = t.package
               /\ next[i].records[t.id].cached = t.package
    PROVE  (TypeOK /\ SessionInvariant)'
<1> DEFINE D == {next[i]}
<1>1. /\ D \in SUBSET Store /\ D # {}
      /\ disk' = [disk EXCEPT ![i] = D]
      /\ next[i] \in disk[i]
  <2>1. next[i] \in Store
    BY Zenon DEF TypeOK
  <2>2. disk' = [disk EXCEPT ![i] = D]
    BY Zenon DEF Written
  <2>3. next[i] \in disk[i]
    BY Zenon DEF SessionInvariant, InProgress
  <2> QED BY <2>1, <2>2, <2>3, Zenon
<1>2. Keeps(next[i], next[i])
  BY Zenon DEF Keeps
<1>3. \A e \in D : Consistent(e) /\ \E d \in disk[i] : Keeps(d, e)
  BY <1>1, <1>2, Zenon DEF SessionInvariant
<1> HIDE DEF D
<1>4. /\ disk' \in [Participant -> SUBSET Store]
      /\ disk'[i] = D
      /\ \A j \in Participant : j # i => disk'[j] = disk[j]
      /\ \A j \in Participant : disk'[j] # {} /\ \A d \in disk'[j] : Consistent(d)
      /\ \A t \in shares : \A d \in disk'[t.who] :
            /\ d.records[t.id].package = t.package
            /\ d.records[t.id].step = t.step
            /\ d.records[t.id].role = t.role
      /\ \A t \in released : \A d \in disk'[t.who] :
            /\ d.records[t.id].package = t.package
            /\ d.records[t.id].cached = t.package
  BY <1>1, <1>3, Replaced, Zenon
<1>5. TypeOK'
  BY <1>4, Zenon DEF TypeOK, Written, Writing
<1>6. InProgress(i)'
  <2>1. next'[i] = next[i] /\ pc'[i] = "idle" /\ store'[i] = next[i]
    BY Zenon DEF Written, TypeOK
  <2>2. disk'[i] = {store'[i]}
    BY <1>4, <2>1, Zenon DEF D
  <2> QED BY <1>4, <2>1, <2>2, Zenon DEF InProgress, Midway, Writing
<1>7. ASSUME NEW j \in Participant, j # i PROVE InProgress(j)'
  <2>1. store'[j] = store[j] /\ pc'[j] = pc[j] /\ next'[j] = next[j] /\ at'[j] = at[j]
    BY <1>7, ZenonT(60) DEF Written, TypeOK
  <2> QED BY <1>4, <1>7, <2>1, OthersInProgress, ZenonT(60)
<1>8. \A t \in released' : \A d \in disk'[t.who] :
         d.records[t.id].package = t.package /\ d.records[t.id].cached = t.package
  BY <1>4, SMTT(30) DEF D
<1>9. SessionInvariant'
  BY <1>4, <1>6, <1>7, <1>8, ZenonT(60) DEF SessionInvariant, Recorded, ReleasedIsCached
<1> QED BY <1>5, <1>9, Zenon

\* persist returns and the same call writes again, perhaps with a share that
\* the first write has paid for (Session::commit, Session::sign).
LEMMA WrittenThenOK ==
    ASSUME TypeOK, SessionInvariant, NEW i \in Participant, pc[i] \in Writing,
           NEW op \in Writing, NEW s \in Store, Consistent(s), Keeps(next[i], s),
           Midway(op, s, at[i]), WrittenThen(i, op, s),
           nonces' \in [Participant -> SUBSET Session],
           UNCHANGED released, shares' \subseteq Share,
           \A t \in shares' : t \in shares \/
               /\ t.who = i
               /\ next[i].records[t.id].package = t.package
               /\ next[i].records[t.id].step = t.step
               /\ next[i].records[t.id].role = t.role
    PROVE  (TypeOK /\ SessionInvariant)'
<1> DEFINE D == {next[i], s}
<1>1. /\ D \in SUBSET Store /\ D # {}
      /\ disk' = [disk EXCEPT ![i] = D]
      /\ next[i] \in disk[i]
  <2>1. next[i] \in Store
    BY Zenon DEF TypeOK
  <2>2. disk' = [disk EXCEPT ![i] = D]
    BY Zenon DEF WrittenThen
  <2>3. next[i] \in disk[i]
    BY Zenon DEF SessionInvariant, InProgress
  <2> QED BY <2>1, <2>2, <2>3, Zenon
<1>2. Keeps(next[i], next[i])
  BY Zenon DEF Keeps
<1>3. \A e \in D : Consistent(e) /\ \E d \in disk[i] : Keeps(d, e)
  BY <1>1, <1>2, Zenon DEF SessionInvariant
<1> HIDE DEF D
<1>4. /\ disk' \in [Participant -> SUBSET Store]
      /\ disk'[i] = D
      /\ \A j \in Participant : j # i => disk'[j] = disk[j]
      /\ \A j \in Participant : disk'[j] # {} /\ \A d \in disk'[j] : Consistent(d)
      /\ \A t \in shares : \A d \in disk'[t.who] :
            /\ d.records[t.id].package = t.package
            /\ d.records[t.id].step = t.step
            /\ d.records[t.id].role = t.role
      /\ \A t \in released : \A d \in disk'[t.who] :
            /\ d.records[t.id].package = t.package
            /\ d.records[t.id].cached = t.package
  BY <1>1, <1>3, Replaced, Zenon
<1>5. TypeOK'
  BY <1>4, Zenon DEF TypeOK, WrittenThen
<1>6. InProgress(i)'
  <2>1. next'[i] = s /\ pc'[i] = op /\ store'[i] = next[i] /\ at'[i] = at[i]
    BY Zenon DEF WrittenThen, TypeOK
  <2>2. store'[i] \in disk'[i] /\ next'[i] \in disk'[i]
    BY <1>4, <2>1, Zenon DEF D
  <2> QED BY <1>4, <2>1, <2>2, Zenon DEF InProgress, Midway, Writing
<1>7. ASSUME NEW j \in Participant, j # i PROVE InProgress(j)'
  <2>1. store'[j] = store[j] /\ pc'[j] = pc[j] /\ next'[j] = next[j] /\ at'[j] = at[j]
    BY <1>7, Zenon DEF WrittenThen, TypeOK
  <2> QED BY <1>4, <1>7, <2>1, OthersInProgress, Zenon
<1>8. ASSUME NEW t \in shares', NEW d \in disk'[t.who]
      PROVE  /\ d.records[t.id].package = t.package
             /\ d.records[t.id].step = t.step
             /\ d.records[t.id].role = t.role
  <2>1. CASE t \in shares
    BY <1>4, <1>8, <2>1, Zenon
  <2>2. CASE t \notin shares
    <3>1. t.who = i /\ t.id \in Session /\ t.package # NoPackage
      BY <2>2, ThresholdAssumption, Zenon DEF Share
    <3>2. next[i].records[t.id].package = t.package /\ next[i].records[t.id].step = t.step
          /\ next[i].records[t.id].role = t.role
      BY <2>2, Zenon
    <3>3. d \in {next[i], s}
      BY <1>4, <1>8, <3>1, Zenon DEF D
    <3>4. CASE d = next[i]
      BY <3>2, <3>4, Zenon
    <3>5. CASE d = s
      BY <3>1, <3>2, <3>5, Zenon DEF Keeps
    <3> QED BY <3>3, <3>4, <3>5, Zenon
  <2> QED BY <2>1, <2>2, Zenon
<1>9. SessionInvariant'
  BY <1>4, <1>6, <1>7, <1>8, ZenonT(60) DEF SessionInvariant, Recorded, ReleasedIsCached
<1> QED BY <1>5, <1>9, Zenon

\* A step that leaves the stores alone, apart from the nonces in memory and
\* shares that are returned from the record.
LEMMA InMemoryOK ==
    ASSUME TypeOK, SessionInvariant, NEW i \in Participant,
           nonces' \in [Participant -> SUBSET Session],
           UNCHANGED <<disk, store, at, next, shares>>,
           pc' = pc \/ pc' = [pc EXCEPT ![i] = "down"],
           released' \subseteq Share,
           \A t \in released' : t \in released \/ \A d \in disk[t.who] :
               d.records[t.id].package = t.package /\ d.records[t.id].cached = t.package
    PROVE  (TypeOK /\ SessionInvariant)'
<1>1. TypeOK'
  BY Zenon DEF TypeOK
<1>2. ASSUME NEW j \in Participant PROVE InProgress(j)'
  <2>1. InProgress(j)
    BY Zenon DEF SessionInvariant
  <2>2. pc'[j] = pc[j] \/ pc'[j] = "down"
    BY Zenon DEF TypeOK
  <2> QED BY <2>1, <2>2, Zenon DEF InProgress, Midway, Writing
<1>3. SessionInvariant'
  BY <1>2, Zenon DEF SessionInvariant, Recorded, ReleasedIsCached
<1> QED BY <1>1, <1>3, Zenon

\* SessionInvariant is true at first: no store, no share.
LEMMA InitOK == Init => TypeOK /\ SessionInvariant
<1> SUFFICES ASSUME Init PROVE TypeOK /\ SessionInvariant
  BY Zenon
<1>1. TypeOK
  BY EmptyOK, Zenon DEF Init, TypeOK
<1>2. \A i \in Participant : InProgress(i) /\ \A d \in disk[i] : Consistent(d)
  BY EmptyOK, Zenon DEF Init, InProgress, Midway, Writing
<1>3. SessionInvariant
  BY <1>2, Zenon DEF Init, SessionInvariant, ReleasedIsCached
<1> QED BY <1>1, <1>3, Zenon

\* FileSessionStore::open may find any of the stores and writes it again.
LEMMA LoadOK ==
    ASSUME TypeOK, SessionInvariant, NEW i \in Participant, Load(i)
    PROVE  (TypeOK /\ SessionInvariant)'
<1>1. PICK s \in disk[i] : store' = [store EXCEPT ![i] = s] /\ Write(i, "load", at[i], s)
  BY Zenon DEF Load
<1>2. disk' = disk /\ s \in Store
  BY <1>1, Zenon DEF Write, TypeOK
<1>3. TypeOK'
  BY <1>1, <1>2, Zenon DEF Load, Write, TypeOK, Writing
<1>4. InProgress(i)'
  <2>1. next'[i] = s /\ pc'[i] = "load" /\ store'[i] = s /\ disk'[i] = disk[i]
    BY <1>1, <1>2, Zenon DEF Write, TypeOK
  <2> QED BY <2>1, Zenon DEF InProgress, Midway
<1>5. ASSUME NEW j \in Participant, j # i PROVE InProgress(j)'
  <2>1. /\ disk'[j] = disk[j] /\ store'[j] = store[j] /\ pc'[j] = pc[j]
        /\ next'[j] = next[j] /\ at'[j] = at[j]
    BY <1>1, <1>2, <1>5, ZenonT(60) DEF Write, TypeOK
  <2> QED BY <1>5, <2>1, OthersInProgress, Zenon
<1>6. SessionInvariant'
  BY <1>2, <1>4, <1>5, Zenon DEF Load, SessionInvariant, Recorded, ReleasedIsCached
<1> QED BY <1>3, <1>6, Zenon

\* A share made from the record of a session that has consumed its nonces.
LEMMA ShareOfOK ==
    ASSUME NEW i \in Participant, NEW id \in Session, NEW d \in Store, Consistent(d),
           d.records[id].package # NoPackage
    PROVE  /\ ShareOf(i, id, d.records[id]) \in Share
           /\ ShareOf(i, id, d.records[id]).who = i
           /\ ShareOf(i, id, d.records[id]).id = id
           /\ ShareOf(i, id, d.records[id]).package = d.records[id].package
           /\ ShareOf(i, id, d.records[id]).step = d.records[id].step
           /\ ShareOf(i, id, d.records[id]).role = d.records[id].role
<1>1. d.records[id] \in Record
  BY Zenon DEF Store
<1>2. d.records[id].package \in Package
  BY <1>1, Zenon DEF Record
<1>3. d.records[id].role \in Role /\ d.records[id].step \in Step
  BY Zenon DEF Consistent, Holds
<1> QED BY <1>2, <1>3, Zenon DEF ShareOf, Share

\* Every call of a session and every step of it preserves the invariant.
LEMMA NextOK == TypeOK /\ SessionInvariant /\ [Next]_vars => (TypeOK /\ SessionInvariant)'
<1> SUFFICES ASSUME TypeOK, SessionInvariant, [Next]_vars PROVE (TypeOK /\ SessionInvariant)'
  BY Zenon
<1>1. CASE UNCHANGED vars
  BY <1>1, Zenon DEF vars, TypeOK, SessionInvariant, InProgress, Recorded, ReleasedIsCached
<1>2. CASE Next
  <2>1. PICK i \in Participant :
           \/ Load(i) \/ Loaded(i) \/ Returned(i)
           \/ Committed(i) \/ Issued(i) \/ Consumed(i) \/ Signed(i)
           \/ Crash(i)
           \/ \E id \in Session, now \in Time : Call(i, id, now)
    BY <1>2, Zenon DEF Next
  <2>2. /\ store[i] \in Store /\ next[i] \in Store /\ at[i] \in Session
        /\ pc[i] # "down" => store[i] \in disk[i] /\ Consistent(store[i])
        /\ pc[i] \in Writing => next[i] \in disk[i] /\ Consistent(next[i])
        /\ Midway(pc[i], next[i], at[i])
    BY Zenon DEF TypeOK, SessionInvariant, InProgress
  <2>3. \A S \in SUBSET Session :
           /\ [nonces EXCEPT ![i] = S] \in [Participant -> SUBSET Session]
           /\ [nonces EXCEPT ![i] = @ \ S] \in [Participant -> SUBSET Session]
           /\ [nonces EXCEPT ![i] = @ \cup S] \in [Participant -> SUBSET Session]
    BY Zenon DEF TypeOK
  <2>4. nonces \in [Participant -> SUBSET Session] /\ released \subseteq Share /\ shares \subseteq Share
    BY Zenon DEF TypeOK
  <2>5. CASE Load(i)
    BY <2>5, LoadOK, Zenon
  <2>6. CASE Loaded(i)
    <3>1. /\ pc[i] \in Writing /\ nonces' = nonces /\ shares' = shares /\ released' = released
          /\ Written(i) \/ WrittenThen(i, "burn", Burnt(next[i]))
      BY <2>6, Zenon DEF Loaded, Writing
    <3>2. CASE Written(i)
      BY <2>4, <3>1, <3>2, WrittenOK, ZenonT(60)
    <3>3. CASE WrittenThen(i, "burn", Burnt(next[i]))
      <4>1. /\ Burnt(next[i]) \in Store /\ Consistent(Burnt(next[i]))
            /\ Keeps(next[i], Burnt(next[i]))
        BY <2>2, <3>1, BurntOK, Zenon
      <4>2. "burn" \in Writing /\ Midway("burn", Burnt(next[i]), at[i])
        BY Zenon DEF Writing, Midway
      <4> QED BY <2>4, <3>1, <3>3, <4>1, <4>2, WrittenThenOK, ZenonT(60)
    <3> QED BY <3>1, <3>2, <3>3, Zenon
  <2>7. CASE Returned(i)
    <3>1. /\ pc[i] \in Writing /\ nonces' = nonces /\ shares' = shares /\ released' = released
          /\ Written(i)
      BY <2>7, Zenon DEF Returned, Writing
    <3> QED BY <2>4, <3>1, WrittenOK, Zenon
  <2>8. CASE Committed(i)
    <3>1. /\ pc[i] \in Writing /\ pc[i] = "commit"
          /\ nonces' = nonces /\ shares' = shares /\ released' = released
          /\ WrittenThen(i, "issue", IssuedIn(next[i], at[i]))
      BY <2>8, Zenon DEF Committed, Writing
    <3>2. /\ IssuedIn(next[i], at[i]) \in Store /\ Consistent(IssuedIn(next[i], at[i]))
          /\ Keeps(next[i], IssuedIn(next[i], at[i]))
      BY <2>2, <3>1, IssuedOK, Zenon DEF Midway
    <3>3. "issue" \in Writing /\ Midway("issue", IssuedIn(next[i], at[i]), at[i])
      BY Zenon DEF Writing, Midway
    <3> QED BY <2>4, <3>1, <3>2, <3>3, WrittenThenOK, ZenonT(60)
  <2>9. CASE Issued(i)
    <3>1. /\ pc[i] \in Writing /\ shares' = shares /\ released' = released /\ Written(i)
          /\ nonces' = [nonces EXCEPT ![i] = @ \cup {at[i]}]
      BY <2>9, Zenon DEF Issued, Writing
    <3>2. nonces' \in [Participant -> SUBSET Session]
      BY <2>2, <2>3, <3>1, Zenon
    <3> QED BY <2>4, <3>1, <3>2, WrittenOK, ZenonT(60)
  <2>10. CASE Consumed(i)
    <3> DEFINE t == ShareOf(i, at[i], next[i].records[at[i]])
    <3>1. /\ pc[i] \in Writing /\ pc[i] = "consume" /\ released' = released
          /\ nonces' = [nonces EXCEPT ![i] = @ \ {at[i]}]
          /\ \/ WrittenThen(i, "cache", CachedIn(next[i], at[i])) /\ shares' = shares \cup {t}
             \/ Written(i) /\ shares' = shares
      BY <2>10, Zenon DEF Consumed, Writing
    <3>2. nonces' \in [Participant -> SUBSET Session]
      BY <2>2, <2>3, <3>1, ZenonT(60)
    <3>3. next[i].records[at[i]].phase = "consumed"
      BY <2>2, <3>1, ZenonT(60) DEF Midway
    <3>4. next[i].records[at[i]].package # NoPackage
      BY <2>2, <3>1, <3>3, ZenonT(60) DEF Consistent
    <3>5. /\ t \in Share /\ t.who = i /\ t.id = at[i]
          /\ t.package = next[i].records[at[i]].package
          /\ t.step = next[i].records[at[i]].step /\ t.role = next[i].records[at[i]].role
      <4>1. next[i] \in Store /\ at[i] \in Session /\ Consistent(next[i])
        BY <2>2, <3>1, Zenon
      <4> QED BY <4>1, <3>4, ShareOfOK, ZenonT(60)
    <3> HIDE DEF t
    <3>6. CASE Written(i) /\ shares' = shares
      BY <2>4, <3>1, <3>2, <3>6, WrittenOK
    <3>7. CASE WrittenThen(i, "cache", CachedIn(next[i], at[i])) /\ shares' = shares \cup {t}
      <4>1. /\ CachedIn(next[i], at[i]) \in Store /\ Consistent(CachedIn(next[i], at[i]))
            /\ Keeps(next[i], CachedIn(next[i], at[i]))
            /\ Midway("cache", CachedIn(next[i], at[i]), at[i])
        BY <2>2, <3>1, <3>3, CachedOK, Zenon DEF Midway
      <4>2. "cache" \in Writing
        BY DEF Writing
      <4>3. shares' \subseteq Share
        BY <2>4, <3>5, <3>7
      <4>4. \A u \in shares' : u \in shares \/
               /\ u.who = i
               /\ next[i].records[u.id].package = u.package
               /\ next[i].records[u.id].step = u.step
               /\ next[i].records[u.id].role = u.role
        BY <3>5, <3>7, SMTT(30)
      <4> QED BY <3>1, <3>2, <3>7, <4>1, <4>2, <4>3, <4>4, WrittenThenOK, ZenonT(60)
    <3> QED BY <3>1, <3>6, <3>7, Zenon
  <2>11. CASE Signed(i)
    <3> DEFINE t == ShareOf(i, at[i], next[i].records[at[i]])
    <3>1. /\ pc[i] \in Writing /\ pc[i] = "cache" /\ nonces' = nonces /\ shares' = shares
          /\ Written(i) /\ released' = released \cup {t}
      BY <2>11, Zenon DEF Signed, Writing
    <3>2. next[i].records[at[i]].phase = "signed"
          /\ next[i].records[at[i]].cached = next[i].records[at[i]].package
      BY <2>2, <3>1, Zenon DEF Midway
    <3>3. next[i].records[at[i]].package # NoPackage
      BY <2>2, <3>1, <3>2, Zenon DEF Consistent
    <3>4. t \in Share /\ t.who = i /\ t.id = at[i] /\ t.package = next[i].records[at[i]].package
      <4>1. next[i] \in Store /\ at[i] \in Session /\ Consistent(next[i])
        BY <2>2, <3>1, ZenonT(60)
      <4> QED BY <4>1, <3>3, ShareOfOK, ZenonT(60)
    <3> HIDE DEF t
    <3>5. released' \subseteq Share
      BY <2>4, <3>1, <3>4, Zenon
    <3>6. \A u \in released' : u \in released \/
             /\ u.who = i
             /\ next[i].records[u.id].package = u.package
             /\ next[i].records[u.id].cached = u.package
      BY <3>1, <3>2, <3>4, Zenon
    <3> QED BY <2>4, <3>1, <3>5, <3>6, WrittenOK, Zenon
  <2>12. CASE Crash(i)
    <3>1. nonces' \in [Participant -> SUBSET Session]
      BY <2>3, <2>12, Zenon DEF Crash
    <3> QED BY <2>4, <2>12, <3>1, InMemoryOK, ZenonT(60) DEF Crash
  <2>13. ASSUME NEW id \in Session, NEW now \in Time, Call(i, id, now)
         PROVE  (TypeOK /\ SessionInvariant)'
    <3>1. ASSUME NEW step \in Step, Propose(i, id, step, now)
          PROVE  (TypeOK /\ SessionInvariant)'
      <4> DEFINE e == ProposedIn(store[i], id, step, now)
      <4>1. /\ pc[i] # "down" /\ store[i].records[id].phase = "absent"
            /\ Write(i, "propose", id, e) /\ nonces' = nonces
            /\ UNCHANGED <<store, shares, released>>
        BY <3>1, Zenon DEF Propose
      <4>2. e \in Store /\ Consistent(e) /\ Keeps(store[i], e)
        BY <2>2, <4>1, ProposedOK, Zenon
      <4>3. "propose" \in Writing /\ Midway("propose", e, id)
        BY Zenon DEF Writing, Midway
      <4> HIDE DEF e
      <4> QED BY <2>4, <4>1, <4>2, <4>3, WriteOK, ZenonT(60)
    <3>2. ASSUME NEW role \in Role, Commit(i, id, role, now)
          PROVE  (TypeOK /\ SessionInvariant)'
      <4> DEFINE e == Approved(store[i], id, role, now)
      <4>1. /\ pc[i] # "down" /\ store[i].records[id].phase = "proposed"
            /\ \A prior \in Session : ~Blocks(store[i], id, role, now, prior)
            /\ Write(i, "commit", id, e)
            /\ nonces' = [nonces EXCEPT ![i] = @ \ GivenUp(store[i], id, role, now)]
            /\ UNCHANGED <<store, shares, released>>
        BY <3>2, Zenon DEF Commit
      <4>2. GivenUp(store[i], id, role, now) \in SUBSET Session
        BY Zenon DEF GivenUp
      <4>3. nonces' \in [Participant -> SUBSET Session]
        BY <2>3, <4>1, <4>2, Zenon
      <4>4. e \in Store /\ Consistent(e) /\ Keeps(store[i], e) /\ e.records[id].phase = "committed"
        BY <2>2, <4>1, ApprovedOK, Zenon
      <4>5. "commit" \in Writing /\ Midway("commit", e, id)
        BY <4>4, Zenon DEF Writing, Midway
      <4> HIDE DEF e
      <4> QED BY <4>1, <4>3, <4>4, <4>5, WriteOK, ZenonT(60)
    <3>3. ASSUME NEW role \in Role, CommitRefused(i, id, role, now)
          PROVE  (TypeOK /\ SessionInvariant)'
      <4>1. PICK S \in SUBSET Session : nonces' = [nonces EXCEPT ![i] = @ \ S]
        BY <3>3, Zenon DEF CommitRefused, GivenUp
      <4>2. nonces' \in [Participant -> SUBSET Session]
        BY <2>3, <4>1, Zenon
      <4> QED BY <2>4, <3>3, <4>2, InMemoryOK, ZenonT(60) DEF CommitRefused
    <3>4. ASSUME NEW package \in Package, Sign(i, id, package, now)
          PROVE  (TypeOK /\ SessionInvariant)'
      <4> DEFINE e == ConsumedIn(store[i], id, package, now)
      <4>1. /\ pc[i] # "down" /\ MaySign(store[i].records[id], now)
            /\ Write(i, "consume", id, e) /\ nonces' = nonces
            /\ UNCHANGED <<store, shares, released>>
        BY <3>4, Zenon DEF Sign
      <4>2. e \in Store /\ Consistent(e) /\ Keeps(store[i], e) /\ e.records[id].phase = "consumed"
        BY <2>2, <4>1, ConsumedOK, ZenonT(60)
      <4>3. "consume" \in Writing /\ Midway("consume", e, id)
        BY <4>2, Zenon DEF Writing, Midway
      <4> HIDE DEF e
      <4> QED BY <2>4, <4>1, <4>2, <4>3, WriteOK, ZenonT(60)
    <3>5. ASSUME NEW package \in Package, Repeat(i, id, package, now)
          PROVE  (TypeOK /\ SessionInvariant)'
      <4> DEFINE t == ShareOf(i, id, store[i].records[id])
      <4>1. /\ pc[i] = "idle" /\ store[i].records[id].package # NoPackage
            /\ store[i].records[id].cached # NoPackage
            /\ released' = released \cup {t}
            /\ UNCHANGED <<disk, store, pc, at, next, nonces, shares>>
        BY <3>5, ThresholdAssumption, Zenon DEF Repeat
      <4>2. t \in Share /\ t.who = i /\ t.id = id /\ t.package = store[i].records[id].package
        BY <2>2, <4>1, ShareOfOK, ZenonT(60)
      <4>3. store[i].records[id].cached = store[i].records[id].package
        BY <2>2, <4>1, Zenon DEF Consistent
      <4> HIDE DEF t
      <4>4. released' \subseteq Share
        BY <2>4, <4>1, <4>2
      <4>5. disk[i] = {store[i]}
        BY <4>1 DEF SessionInvariant, InProgress
      <4>6. \A u \in released' : u \in released \/ \A d \in disk[u.who] :
               d.records[u.id].package = u.package /\ d.records[u.id].cached = u.package
        BY <4>1, <4>2, <4>3, <4>5, Zenon
      <4> QED BY <2>4, <4>1, <4>4, <4>6, InMemoryOK, ZenonT(60)
    <3>6. CASE Discard(i, id, now)
      <4> DEFINE e == DiscardedIn(store[i], id, now)
      <4>1. nonces' \in [Participant -> SUBSET Session] /\ UNCHANGED <<store, shares, released>>
            /\ pc[i] # "down"
        BY <2>3, <3>6, Zenon DEF Discard
      <4>2. CASE store[i].records[id].phase # "absent" /\ Write(i, "discard", id, e)
        <5>1. e \in Store /\ Consistent(e) /\ Keeps(store[i], e)
          BY <2>2, <4>1, <4>2, DiscardedOK, Zenon
        <5>2. "discard" \in Writing /\ Midway("discard", e, id)
          BY Zenon DEF Writing, Midway
        <5> HIDE DEF e
        <5> QED BY <4>1, <4>2, <5>1, <5>2, WriteOK, Zenon
      <4>3. CASE UNCHANGED <<disk, pc, at, next>>
        BY <2>4, <4>1, <4>3, InMemoryOK, Zenon
      <4> QED BY <3>6, <4>2, <4>3, Zenon DEF Discard
    <3> QED BY <2>13, <3>1, <3>2, <3>3, <3>4, <3>5, <3>6, ZenonT(60) DEF Call
  <2> QED BY <2>1, <2>5, <2>6, <2>7, <2>8, <2>9, <2>10, <2>11, <2>12, <2>13, ZenonT(60)
<1> QED BY <1>1, <1>2, Zenon

-----------------------------------------------------------------------------

\* Two sessions of one store that have both signed have signed one step, if
\* they compete; and so have two shares of one participant (Session::commit).
LEMMA OneStep ==
    ASSUME TypeOK, SessionInvariant, NEW s \in shares, NEW t \in shares,
           s.who = t.who, s.role = t.role, SameScope(s.role, s.step, t.step)
    PROVE  s.step = t.step
<1>1. /\ s.who \in Participant /\ s.id \in Session /\ s.package # NoPackage
      /\ t.id \in Session /\ t.package # NoPackage
  BY ThresholdAssumption, Zenon DEF TypeOK, Share
<1>2. PICK d \in disk[s.who] : Consistent(d)
  BY <1>1, SMTT(30) DEF SessionInvariant, InProgress
<1>3. /\ d.records[s.id].package = s.package /\ d.records[s.id].step = s.step
      /\ d.records[s.id].role = s.role
      /\ d.records[t.id].package = t.package /\ d.records[t.id].step = t.step
      /\ d.records[t.id].role = t.role
  BY ZenonT(60) DEF SessionInvariant, Recorded
<1>4. Holds(d.records[s.id]) /\ Holds(d.records[t.id])
  BY <1>1, <1>3, Zenon DEF Holds
<1> QED BY <1>1, <1>2, <1>3, <1>4, ZenonT(60) DEF Consistent

\* The invariant rules out a second package for the nonces of a session
\* (Session::sign).
LEMMA NonceUsedOnceHolds == TypeOK /\ SessionInvariant => NonceUsedOnce
<1> SUFFICES ASSUME TypeOK, SessionInvariant, NEW s \in shares, NEW t \in shares,
                    s.who = t.who, s.id = t.id
             PROVE  s = t
  BY Zenon DEF NonceUsedOnce
<1>1. s \in Share /\ t \in Share
  BY Zenon DEF TypeOK
<1>2. PICK d \in disk[s.who] : TRUE
  BY <1>1, Zenon DEF SessionInvariant, InProgress, Share
<1>3. s.package = t.package /\ s.step = t.step /\ s.role = t.role
  BY <1>2, SMTT(60) DEF SessionInvariant, Recorded
<1> QED BY <1>1, <1>3 DEF Share

\* The invariant rules out a fork: where 2K > N two sets of K participants have
\* a member in common, and that one has signed one step only (Session::commit).
LEMMA NoForkHolds == TypeOK /\ SessionInvariant => NoFork
<1> SUFFICES ASSUME TypeOK, SessionInvariant, NEW role \in Role, NEW s \in Step, NEW t \in Step,
                    2 * K > Cardinality(Participant), SameScope(role, s, t),
                    Cardinality(Signers(role, s)) >= K,
                    Cardinality(Signers(role, t)) >= K
             PROVE  s = t
  BY Zenon DEF NoFork
<1> DEFINE A == Signers(role, s)
           B == Signers(role, t)
<1>1. A \subseteq Participant /\ B \subseteq Participant /\ IsFiniteSet(Participant)
  BY ThresholdAssumption, Zenon DEF Signers
<1>2. /\ Cardinality(A) \in Nat /\ Cardinality(B) \in Nat /\ Cardinality(Participant) \in Nat
  BY <1>1, FS_Subset, FS_CardinalityType, Zenon
<1>3. Cardinality(A) >= K /\ Cardinality(B) >= K /\ K \in Nat /\ 2 * K > Cardinality(Participant)
  BY ThresholdAssumption, Zenon
<1> HIDE DEF A, B
<1>4. Cardinality(A) + Cardinality(B) > Cardinality(Participant)
  BY <1>2, <1>3
<1>5. A \cap B # {}
  BY <1>1, <1>4, FS_MajoritiesIntersect, Zenon
<1>6. PICK i : i \in A /\ i \in B
  BY <1>5, Zenon
<1>7. PICK u \in shares : u.who = i /\ u.role = role /\ u.step = s
  BY <1>6, Zenon DEF A, Signers
<1>8. PICK v \in shares : v.who = i /\ v.role = role /\ v.step = t
  BY <1>6, Zenon DEF B, Signers
<1> QED BY <1>7, <1>8, OneStep, Zenon

\* The invariant holds throughout, whatever is interrupted (Session,
\* FileSessionStore).
THEOREM SessionInvariantHolds == Spec => [](TypeOK /\ SessionInvariant)
<1> QED BY InitOK, NextOK, PTL DEF Spec

\* Every variable keeps its type (Session, FileSessionStore).
THEOREM TypeCorrect == Spec => []TypeOK
<1> QED BY SessionInvariantHolds, PTL

\* A participant's nonces answer one package at most, through any number of
\* crashes and retries (Session::sign).
THEOREM NoncesAreUsedOnce == Spec => []NonceUsedOnce
<1> QED BY SessionInvariantHolds, NonceUsedOnceHolds, PTL

\* In a group with 2K > N, two competing steps never both find K signers
\* (Session::commit).
THEOREM NoForks == Spec => []NoFork
<1> QED BY SessionInvariantHolds, NoForkHolds, PTL

\* A share that was returned is found again after every crash (Session::sign).
THEOREM ReleasedSharesAreKept == Spec => []ReleasedIsCached
<1>1. SessionInvariant => ReleasedIsCached
  BY DEF SessionInvariant
<1> QED BY <1>1, SessionInvariantHolds, PTL

\* All of it together: what the locks, the durable nonces and the cached shares
\* promise holds for any number of sessions, participants and crashes
\* (Session, FileSessionStore).
THEOREM SigningSafe == Spec => []SigningIsSafe
<1>1. TypeOK /\ SessionInvariant => SigningIsSafe
  BY NonceUsedOnceHolds, NoForkHolds DEF SigningIsSafe
<1> QED BY <1>1, SessionInvariantHolds, PTL

=============================================================================
