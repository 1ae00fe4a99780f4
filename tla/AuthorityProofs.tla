--------------------------- MODULE AuthorityProofs ---------------------------
(***************************************************************************)
(* Proofs about Authority, for any certificates, epochs, limits, failures, *)
(* power losses and lost directories.                                      *)
(*                                                                         *)
(* First the store: both copies of its file cover everything signed and    *)
(* returned, so that the next reservation is ahead of every signature.     *)
(* Then the verifier: what it remembers comes from manifests the store     *)
(* returned, which succeed one another, so it can take each newer one and  *)
(* never forgets what one of them revoked.                                 *)
(***************************************************************************)
EXTENDS Authority, FiniteSetTheorems, TLAPS

-----------------------------------------------------------------------------
(* The records *)

\* Everything the records name is finite.
LEMMA CertificatesAreFinite ==
  /\ IsFiniteSet(Certificate) /\ IsFiniteSet(CertIds)
  /\ \A S \in SUBSET Certificate : IsFiniteSet(S) /\ Ids(S) \subseteq CertIds
  /\ \A S \in SUBSET CertIds : IsFiniteSet(S)
<1> DEFINE f == [c \in Certificate |-> c.id]
<1>1. IsFiniteSet(Certificate) BY AuthorityAssumption
<1>2. f \in Surjection(Certificate, CertIds) BY DEF Surjection, CertIds
<1>3. IsFiniteSet(CertIds) BY <1>1, <1>2, FS_Surjection, Zenon
<1>4. \A S \in SUBSET Certificate : IsFiniteSet(S) BY <1>1, FS_Subset
<1>5. \A S \in SUBSET CertIds : IsFiniteSet(S) BY <1>3, FS_Subset
<1>6. \A S \in SUBSET Certificate : Ids(S) \subseteq CertIds BY DEF Ids, CertIds
<1> QED BY <1>1, <1>3, <1>4, <1>5, <1>6, Zenon

\* Counting the ids of a manifest tells that no two certificates share one.
LEMMA IdsAreUnique ==
  ASSUME NEW S \in SUBSET Certificate, Cardinality(Ids(S)) = Cardinality(S),
         NEW c \in S, NEW e \in S, c.id = e.id
  PROVE  c = e
<1> DEFINE f == [x \in S |-> x.id]
<1>1. IsFiniteSet(S) BY CertificatesAreFinite
<1>2. f \in Surjection(S, Ids(S)) BY DEF Surjection, Ids
<1>3. f \in Injection(S, Ids(S)) BY <1>1, <1>2, FS_Surjection
<1>4. f[c] = f[e] OBVIOUS
<1> QED BY <1>3, <1>4, Zenon DEF Injection, IsInjective

\* The order of epochs and revisions is transitive.
LEMMA AtMostIsTransitive ==
  ASSUME NEW a \in Nat, NEW b \in Nat, NEW c \in Nat, NEW e \in Nat, NEW f \in Nat, NEW g \in Nat,
         AtMost(a, b, c, e), AtMost(c, e, f, g)
  PROVE  AtMost(a, b, f, g)
BY DEF AtMost

\* The bounds are numbers.
LEMMA EpochsAreNumbers == 0..MaxEpoch \subseteq Nat /\ MaxEpoch \in Nat /\ MaxRevision \in Nat /\ MaxUsedIds \in Nat
BY AuthorityAssumption

\* What is left of a store when its pending reservation is given up.
LEMMA BurntIs ==
  ASSUME NEW s \in StoreStates
  PROVE  /\ Burnt(s) \in StoreStates
         /\ Burnt(s).epoch = s.epoch /\ Burnt(s).revision = s.revision
         /\ Burnt(s).current = s.current /\ Burnt(s).used = s.used
         /\ Burnt(s).pending = Missing
BY DEF Burnt, StoreStates

\* What commit leaves in the file.
LEMMA CommittedIs ==
  ASSUME NEW s \in StoreStates, NEW m \in Manifests
  PROVE  /\ Committed(s, m) \in StoreStates
         /\ Committed(s, m).epoch = s.epoch /\ Committed(s, m).revision = s.revision
         /\ Committed(s, m).current = m /\ Committed(s, m).used = s.used
         /\ Committed(s, m).pending = Missing
BY Zenon DEF Committed, StoreStates

\* The content an update proposes keeps to its predecessor within an epoch.
LEMMA ProposedIs ==
  ASSUME NEW current \in Manifests \cup {Missing}, NEW add \in SUBSET Certificate,
         NEW revoke \in SUBSET CertIds, NEW advance \in BOOLEAN, NEW t \in ClockTime,
         UpdateValid(current, add, revoke, advance, t)
  PROVE  LET p == Proposed(current, add, revoke, advance, t)
         IN /\ p \in Manifests /\ ContentValid(p)
            /\ current.present =>
                 /\ p.epoch >= current.epoch /\ p.issued >= current.issued
                 /\ p.epoch = current.epoch =>
                      /\ current.revs \subseteq p.revs
                      /\ \A c \in current.certs : c \in p.certs \/ c.id \in p.revs
<1> DEFINE p == Proposed(current, add, revoke, advance, t)
<1>1. ContentValid(p) /\ p.epoch <= MaxEpoch BY DEF UpdateValid
<1>0. current.present => current \in Manifests BY DEF Missing
<1>2. OldEpoch(current) \in Nat
  <2>1. current.present => current.epoch \in Nat BY <1>0, EpochsAreNumbers DEF Manifests
  <2> QED BY <2>1 DEF OldEpoch
<1>3. p.epoch = OldEpoch(current) + (IF advance THEN 1 ELSE 0) /\ p.issued = t /\ p.present = TRUE /\ p.revision = 1
  BY Zenon DEF Proposed
<1>4. p.revs = (IF current.present /\ ~advance THEN current.revs ELSE {}) \cup revoke BY Zenon DEF Proposed
<1>5. p.certs = add \cup {c \in IF current.present /\ ~advance THEN current.certs ELSE {} : c.id \notin p.revs}
  BY DEF Proposed
<1>6. p \in Manifests
  <2>1. p.epoch \in 0..MaxEpoch BY <1>1, <1>2, <1>3, EpochsAreNumbers
  <2>2. p.issued \in Nat BY <1>3, AuthorityAssumption DEF ClockTime
  <2>3. p.revs \subseteq CertIds BY <1>0, <1>4, Zenon DEF Manifests
  <2>4. p.certs \subseteq Certificate BY <1>0, <1>5, ZenonT(60) DEF Manifests
  <2>5. p = [present |-> p.present, epoch |-> p.epoch, revision |-> p.revision, issued |-> p.issued,
             certs |-> p.certs, revs |-> p.revs]
    BY DEF Proposed
  <2>6. p.present = TRUE /\ p.revision \in Nat BY <1>3
  <2> HIDE DEF p
  <2> QED BY <2>1, <2>2, <2>3, <2>4, <2>5, <2>6, Zenon DEF Manifests
<1>7. ASSUME current.present
      PROVE  /\ p.epoch >= current.epoch /\ p.issued >= current.issued
             /\ p.epoch = current.epoch =>
                  current.revs \subseteq p.revs /\ \A c \in current.certs : c \in p.certs \/ c.id \in p.revs
  <2>1. p.issued >= current.issued BY <1>3, <1>7 DEF UpdateValid
  <2>2. OldEpoch(current) = current.epoch BY <1>7 DEF OldEpoch
  <2>3. p.epoch >= current.epoch BY <1>2, <1>3, <2>2
  <2>4. p.epoch = current.epoch => ~advance BY <1>2, <1>3, <2>2
  <2> HIDE DEF p
  <2> QED BY <1>4, <1>5, <1>7, <2>1, <2>3, <2>4, ZenonT(60)
<1> HIDE DEF p
<1> QED BY <1>1, <1>6, <1>7 DEF p

\* What a reservation writes.
LEMMA ReservedIs ==
  ASSUME NEW s \in StoreStates, NEW p \in Manifests,
         NEW r, r = Reserved(s, p), NEW q, q = r.pending
  PROVE  /\ r \in StoreStates /\ q \in Manifests
         /\ q.epoch = p.epoch /\ q.revision = Revisions(s, p.epoch)
         /\ q.issued = p.issued /\ q.certs = p.certs /\ q.revs = p.revs
         /\ r.epoch = q.epoch /\ r.revision = q.revision /\ r.current = s.current
         /\ r.used = s.used \cup Ids(p.certs) \cup p.revs
<1> DEFINE n == Revisions(s, p.epoch)
<1>1. n \in Nat BY DEF Revisions, StoreStates
<1> DEFINE k == [p EXCEPT !.revision = n]
<1>2. /\ k \in Manifests /\ k.epoch = p.epoch /\ k.revision = n
      /\ k.issued = p.issued /\ k.certs = p.certs /\ k.revs = p.revs
  <2> HIDE DEF n
  <2> QED BY <1>1, Zenon DEF Manifests
<1>3. r = [s EXCEPT !.epoch = k.epoch, !.revision = k.revision,
                    !.used = s.used \cup Ids(k.certs) \cup k.revs, !.pending = k]
  BY DEF Reserved, StoreStates
<1> HIDE DEF k
<1>4. k.epoch \in 0..MaxEpoch /\ k.revision \in Nat /\ k.revs \subseteq CertIds /\ k.certs \subseteq Certificate
  BY <1>2 DEF Manifests
<1>5. s.used \cup Ids(k.certs) \cup k.revs \subseteq CertIds BY <1>4, CertificatesAreFinite DEF StoreStates
<1>6. r \in StoreStates /\ r.pending = k /\ r.epoch = k.epoch /\ r.revision = k.revision
      /\ r.current = s.current /\ r.used = s.used \cup Ids(k.certs) \cup k.revs
  BY <1>2, <1>3, <1>4, <1>5, ZenonT(60) DEF StoreStates
<1> QED BY <1>2, <1>6, Zenon

-----------------------------------------------------------------------------
(* The issuer *)

Chained(given) ==
    \A m, n \in given : AtMost(m.epoch, m.revision, n.epoch, n.revision) => Succeeds(m, n)

\* The fields of what the publisher works with.
LEMMA StoreShape ==
  ASSUME AuthorityTypeOK
  PROVE  /\ store.open = FALSE => store = Closed
         /\ store.open =>
              /\ store \in [open : {TRUE}, poisoned : BOOLEAN, state : StoreStates]
              /\ store.state \in StoreStates
         /\ call # Idle => call \in [stage : {"reserved", "signed"}, content : Manifests]
         /\ call.stage \in {"reserved", "signed"} => call # Idle
<1>1. store = Closed \/ store \in [open : {TRUE}, poisoned : BOOLEAN, state : StoreStates] BY Zenon DEF AuthorityTypeOK
<1>2. call = Idle \/ call \in [stage : {"reserved", "signed"}, content : Manifests] BY DEF AuthorityTypeOK
<1>3. Closed.open = FALSE BY DEF Closed
<1>4. Idle.stage = "idle" BY DEF Idle
<1>5. store.open = FALSE => store = Closed BY <1>1, Zenon
<1>6. store.open => /\ store \in [open : {TRUE}, poisoned : BOOLEAN, state : StoreStates]
                    /\ store.state \in StoreStates
  BY <1>1, <1>3, Zenon
<1> QED BY <1>2, <1>4, <1>5, <1>6, Zenon

\* An issuer step that leaves no call behind keeps the promises when the files
\* it leaves do.
LEMMA IssuerStep ==
  ASSUME RevisionsAreSafe, UNCHANGED <<signed, restored, verifierVars>>,
         visible' \in StoreStates, durable' \in StoreStates,
         FileSound(visible'), FileSound(durable'),
         store' = Closed \/ store' = Holding(visible') \/ (store.open /\ store' = Poisoned),
         call' = Idle, returned' \subseteq signed, \A m \in returned' : ManifestVerifies(m),
         ~restored =>
           Covers(visible', signed, returned') /\ Covers(durable', signed, returned') /\ Chained(returned')
  PROVE  RevisionsAreSafe'
<1> USE DEF RevisionsAreSafe
<1>1. /\ store' \in {Closed} \cup [open : {TRUE}, poisoned : BOOLEAN, state : StoreStates]
      /\ store'.open /\ ~store'.poisoned => store'.state = visible'
      /\ store'.open => StateReadable(store'.state)
  <2>1. CASE store' = Closed BY <2>1 DEF Closed
  <2>2. CASE store' = Holding(visible') BY <2>2 DEF Holding, FileSound
  <2>3. CASE store.open /\ store' = Poisoned
    <3>1. store \in [open : {TRUE}, poisoned : BOOLEAN, state : StoreStates] BY <2>3, StoreShape, Zenon
    <3>2. /\ store' \in [open : {TRUE}, poisoned : BOOLEAN, state : StoreStates]
          /\ store'.poisoned = TRUE /\ store'.state = store.state
      BY <2>3, <3>1, Zenon DEF Poisoned
    <3> QED BY <2>3, <3>2, Zenon DEF StoreReadable
  <2> QED BY <2>1, <2>2, <2>3, Zenon
<1>2. call'.stage = "idle" BY DEF Idle
<1>3. AuthorityTypeOK' BY <1>1, <1>2, Zenon DEF AuthorityTypeOK, verifierVars
<1>4. StoreReadable' BY <1>1 DEF StoreReadable, verifierVars
<1>5. RevisionOnce' BY DEF RevisionOnce
<1>6. FileCoversHistory' BY <1>2, ZenonT(60) DEF FileCoversHistory, Chained
<1>7. RevocationsKept'
  BY <1>3, <1>6, EpochsAreNumbers DEF RevocationsKept, FileCoversHistory, Succeeds, AtMost, AuthorityTypeOK, Manifests
<1> QED BY <1>3, <1>4, <1>5, <1>6, <1>7

\* OpenStore keeps the invariant.
LEMMA OpenStoreOK ==
  ASSUME RevisionsAreSafe, OpenStore
  PROVE  RevisionsAreSafe'
<1>1. /\ visible \in StoreStates /\ durable \in StoreStates /\ FileSound(visible) /\ FileSound(durable)
      /\ returned \subseteq signed /\ \A m \in returned : ManifestVerifies(m)
  BY Zenon DEF RevisionsAreSafe, AuthorityTypeOK, StoreReadable
<1>2. ~restored => Covers(visible, signed, returned) /\ Covers(durable, signed, returned) /\ Chained(returned)
  BY Zenon DEF RevisionsAreSafe, FileCoversHistory, Chained
<1>3. call = Idle BY ZenonT(60) DEF RevisionsAreSafe, AuthorityTypeOK, OpenStore
<1> DEFINE b == Burnt(visible)
<1>4. b \in StoreStates /\ FileSound(b) /\ (~restored => Covers(b, signed, returned))
  BY <1>1, <1>2, BurntIs DEF FileSound, StateReadable, Covers, Missing
<1>5. UNCHANGED <<call, signed, returned, restored, verifierVars>> BY Zenon DEF OpenStore
<1> HIDE DEF b
<1>6. CASE store' = Holding(visible) /\ UNCHANGED <<visible, durable>>
  BY <1>1, <1>2, <1>3, <1>5, <1>6, IssuerStep, Zenon
<1>7. ASSUME NEW done \in BOOLEAN, Persist(b, done), store' = IF done THEN Holding(b) ELSE Closed
      PROVE  RevisionsAreSafe'
  <2>1. visible' \in {visible, b} /\ durable' \in {durable, b} /\ (store' = Closed \/ store' = Holding(visible'))
    BY <1>7 DEF Persist
  <2> QED BY <1>1, <1>2, <1>3, <1>4, <1>5, <2>1, IssuerStep, ZenonT(60)
<1> QED BY <1>6, <1>7, Zenon DEF OpenStore, b

\* The process ends, the power fails, or the directory is restored.
LEMMA EndingsOK ==
  ASSUME RevisionsAreSafe, ProcessEnds \/ PowerLoss \/ RestoreDirectory
  PROVE  RevisionsAreSafe'
<1>1. /\ visible \in StoreStates /\ durable \in StoreStates /\ FileSound(visible) /\ FileSound(durable)
      /\ returned \subseteq signed /\ \A m \in returned : ManifestVerifies(m)
  BY Zenon DEF RevisionsAreSafe, AuthorityTypeOK, StoreReadable
<1>2. ~restored => Covers(visible, signed, returned) /\ Covers(durable, signed, returned) /\ Chained(returned)
  BY Zenon DEF RevisionsAreSafe, FileCoversHistory, Chained
<1>3. CASE ProcessEnds BY <1>1, <1>2, <1>3, IssuerStep, Zenon DEF ProcessEnds
<1>4. CASE PowerLoss BY <1>1, <1>2, <1>4, IssuerStep, Zenon DEF PowerLoss
<1>5. CASE RestoreDirectory
  <2>1. store = Closed /\ call = Idle BY <1>5, StoreShape, Zenon DEF RestoreDirectory, RevisionsAreSafe, AuthorityTypeOK
  <2>2. NewStore \in StoreStates /\ NewStore.current = Missing /\ NewStore.pending = Missing /\ NewStore.used = {}
    BY EpochsAreNumbers DEF NewStore, StoreStates
  <2>3. FileSound(NewStore) BY <2>2, FS_EmptySet, EpochsAreNumbers DEF FileSound, StateReadable, Missing
  <2>4. AuthorityTypeOK' BY <1>5, <2>1, <2>2, ZenonT(60)
    DEF RevisionsAreSafe, AuthorityTypeOK, RestoreDirectory, verifierVars, Closed, Idle
  <2>5. StoreReadable' BY <1>5, <2>1, <2>3
    DEF RevisionsAreSafe, StoreReadable, RestoreDirectory, verifierVars, Closed
  <2>6. restored' BY <1>5, Zenon DEF RestoreDirectory
  <2> QED BY <2>4, <2>5, <2>6, Zenon DEF RevisionsAreSafe, RevisionOnce, RevocationsKept, FileCoversHistory
<1> QED BY <1>3, <1>4, <1>5, Zenon

\* A reservation draws a revision above the watermark, so above everything the
\* device ever signed, and continues every manifest it returned.
LEMMA ReservationOK ==
  ASSUME NEW s \in StoreStates, FileSound(s), NEW p \in Manifests, ContentValid(p),
         ReserveValid(s, s.current, p),
         NEW r, r = Reserved(s, p), NEW q, q = r.pending
  PROVE  /\ r \in StoreStates /\ FileSound(r) /\ q \in Manifests /\ q.present
         /\ ManifestRecord(q) /\ ~AtMost(q.epoch, q.revision, s.epoch, s.revision)
         /\ AtMost(s.epoch, s.revision, q.epoch, q.revision)
<1>1. /\ r \in StoreStates /\ q \in Manifests
      /\ q.epoch = p.epoch /\ q.revision = Revisions(s, p.epoch)
      /\ q.issued = p.issued /\ q.certs = p.certs /\ q.revs = p.revs
      /\ r.epoch = q.epoch /\ r.revision = q.revision /\ r.current = s.current
      /\ r.used = s.used \cup Ids(p.certs) \cup p.revs
  BY ReservedIs
<1>2. /\ p.epoch >= s.epoch /\ Revisions(s, p.epoch) <= MaxRevision
      /\ Cardinality(s.used \cup Ids(p.certs) \cup p.revs) <= MaxUsedIds
  BY DEF ReserveValid
<1>3. p.epoch \in Nat /\ s.epoch \in Nat /\ s.revision \in Nat BY EpochsAreNumbers DEF StoreStates, Manifests
<1>4. q.revision >= 1 /\ q.revision \in Nat BY <1>1, <1>3 DEF Revisions
<1>5. ~AtMost(q.epoch, q.revision, s.epoch, s.revision) /\ AtMost(s.epoch, s.revision, q.epoch, q.revision)
  BY <1>1, <1>2, <1>3 DEF AtMost, Revisions
<1>6. ManifestRecord(q)
  <2>1. Cardinality(q.certs) <= MaxCertificates /\ RevocationsValid(q.revs) BY <1>1, Zenon DEF ContentValid
  <2>2. q.epoch \in 0..MaxEpoch /\ q.issued \in Nat /\ q.certs \subseteq Certificate BY <1>1, ZenonT(60) DEF Manifests
  <2>3. q.revision \in 1..MaxRevision BY <1>1, <1>2, <1>4, EpochsAreNumbers
  <2> QED BY <2>1, <2>2, <2>3, Zenon DEF ManifestRecord
<1>7. StateReadable(r)
  <2> SUFFICES ASSUME s.current.present PROVE StateReadable(r) BY <1>1, Zenon DEF StateReadable
  <2>1. s.current \in Manifests BY DEF StoreStates, Missing
  <2>2. s.current.epoch \in Nat /\ s.current.revision \in Nat BY <2>1, EpochsAreNumbers, ZenonT(60) DEF Manifests
  <2>3. AtMost(s.current.epoch, s.current.revision, s.epoch, s.revision) BY DEF FileSound, StateReadable
  <2>4. AtMost(s.current.epoch, s.current.revision, q.epoch, q.revision)
    BY <1>1, <1>3, <1>4, <1>5, <2>2, <2>3, AtMostIsTransitive, ZenonT(60)
  <2> QED BY <1>1, <2>4, Zenon DEF FileSound, StateReadable
<1>8. FileSound(r) BY <1>1, <1>2, <1>6, <1>7, ZenonT(60) DEF FileSound
<1> QED BY <1>1, <1>5, <1>6, <1>8, ZenonT(60) DEF Manifests

\* A reservation continues what the file it replaces says.
LEMMA ReservationContinues ==
  ASSUME NEW s \in StoreStates, FileSound(s), NEW p \in Manifests, ContentValid(p),
         ReserveValid(s, s.current, p),
         NEW r, r = Reserved(s, p), NEW q, q = r.pending,
         s.current.present =>
           /\ p.epoch >= s.current.epoch /\ p.issued >= s.current.issued
           /\ p.epoch = s.current.epoch =>
                s.current.revs \subseteq p.revs /\ \A c \in s.current.certs : c \in p.certs \/ c.id \in p.revs,
         NEW made \in SUBSET Manifests, NEW given \in SUBSET made, Covers(s, made, given)
  PROVE  /\ Covers(r, made, given)
         /\ \A m \in made : Ahead(q, m)
         /\ \A m \in given : Succeeds(m, q)
<1>1. /\ r \in StoreStates /\ q \in Manifests
      /\ q.epoch = p.epoch /\ q.issued = p.issued /\ q.certs = p.certs /\ q.revs = p.revs
      /\ r.epoch = q.epoch /\ r.revision = q.revision /\ r.current = s.current
      /\ r.used = s.used \cup Ids(p.certs) \cup p.revs
  BY ReservedIs
<1>2. ~AtMost(q.epoch, q.revision, s.epoch, s.revision) /\ AtMost(s.epoch, s.revision, q.epoch, q.revision)
  BY ReservationOK, Zenon
<1>3. s.epoch \in Nat /\ s.revision \in Nat /\ q.epoch \in Nat /\ q.revision \in Nat
  BY <1>1, EpochsAreNumbers, ZenonT(60) DEF StoreStates, Manifests
<1>4. ASSUME NEW m \in made
      PROVE  Ahead(q, m) /\ AtMost(m.epoch, m.revision, q.epoch, q.revision)
  <2>1. m.epoch \in Nat /\ m.revision \in Nat BY EpochsAreNumbers, ZenonT(60) DEF Manifests
  <2>2. AtMost(m.epoch, m.revision, s.epoch, s.revision) BY ZenonT(60) DEF Covers
  <2> QED BY <1>2, <1>3, <2>1, <2>2 DEF Ahead, AtMost
<1>5. ASSUME NEW m \in given
      PROVE  Succeeds(m, q)
  <2>1. s.current.present /\ Succeeds(m, s.current) /\ Ids(m.certs) \cup m.revs \subseteq s.used BY DEF Covers
  <2>2. s.current \in Manifests BY <2>1 DEF StoreStates, Missing
  <2>3. /\ m.epoch \in Nat /\ s.current.epoch \in Nat /\ p.epoch \in Nat
        /\ m.issued \in Nat /\ s.current.issued \in Nat /\ p.issued \in Nat
    BY <2>2, EpochsAreNumbers, ZenonT(60) DEF Manifests
  <2>4. m.issued <= q.issued BY <1>1, <2>1, <2>3 DEF Succeeds
  <2>5. m.epoch = q.epoch => m.epoch = s.current.epoch /\ p.epoch = s.current.epoch
    BY <1>1, <2>1, <2>3 DEF Succeeds, AtMost
  <2>6. m.epoch = q.epoch => m.revs \subseteq q.revs /\ \A c \in m.certs : c \in q.certs \/ c.id \in q.revs
    BY <1>1, <2>1, <2>5, Zenon DEF Succeeds
  <2>7. ASSUME NEW c \in q.certs, c.id \in Ids(m.certs) \cup m.revs
        PROVE  c \in m.certs
    <3>1. c \in s.current.certs BY <1>1, <2>1, <2>7, Zenon DEF ReserveValid
    <3> QED BY <2>1, <2>7, <3>1, Zenon DEF Succeeds
  <2> QED BY <1>4, <2>4, <2>6, <2>7, ZenonT(60) DEF Succeeds
<1>6. Covers(r, made, given) BY <1>1, <1>4, Zenon DEF Covers
<1> QED BY <1>4, <1>5, <1>6, ZenonT(60)

\* Reserve keeps the invariant.
LEMMA ReserveOK ==
  ASSUME RevisionsAreSafe, NEW add \in SUBSET Certificate, NEW revoke \in SUBSET CertIds,
         NEW advance \in BOOLEAN, NEW t \in ClockTime, Reserve(add, revoke, advance, t)
  PROVE  RevisionsAreSafe'
<1> DEFINE s == store.state
           p == Proposed(s.current, add, revoke, advance, t)
           r == Reserved(s, p)
           q == r.pending
<1>1. UpdateValid(s.current, add, revoke, advance, t) /\ ReserveValid(s, s.current, p) BY Zenon DEF Reserve
<1>2. store.open /\ ~store.poisoned /\ call = Idle BY <1>1, Zenon DEF Reserve, ReserveValid
<1>3. /\ s = visible /\ s \in StoreStates /\ FileSound(s) /\ durable \in StoreStates /\ FileSound(durable)
      /\ signed \subseteq Manifests /\ returned \subseteq signed /\ \A m \in returned : ManifestVerifies(m)
  BY <1>2, Zenon DEF RevisionsAreSafe, AuthorityTypeOK, StoreReadable
<1>4. ~restored => Covers(s, signed, returned) /\ Covers(durable, signed, returned) /\ Chained(returned)
  BY <1>3, Zenon DEF RevisionsAreSafe, FileCoversHistory, Chained
<1>5. s.current \in Manifests \cup {Missing} BY <1>3, Zenon DEF StoreStates
<1>6. PICK done \in BOOLEAN :
        /\ Persist(r, done)
        /\ store' = IF done THEN Holding(r) ELSE Poisoned
        /\ call' = IF done THEN [stage |-> "reserved", content |-> q] ELSE Idle
  BY Zenon DEF Reserve
<1>7. UNCHANGED <<signed, returned, restored, verifierVars>> BY Zenon DEF Reserve
<1> HIDE DEF p
<1>8. /\ p \in Manifests /\ ContentValid(p)
      /\ s.current.present =>
           /\ p.epoch >= s.current.epoch /\ p.issued >= s.current.issued
           /\ p.epoch = s.current.epoch =>
                s.current.revs \subseteq p.revs /\ \A c \in s.current.certs : c \in p.certs \/ c.id \in p.revs
  BY <1>1, <1>5, ProposedIs, ZenonT(60) DEF p
<1> HIDE DEF s, r, q
<1>9. r \in StoreStates /\ FileSound(r) /\ q \in Manifests /\ q.present /\ ManifestRecord(q)
  BY <1>1, <1>3, <1>8, ReservationOK, Zenon DEF r, q
<1>10. ~restored => /\ Covers(r, signed, returned)
                    /\ \A m \in signed : Ahead(q, m)
                    /\ \A m \in returned : Succeeds(m, q)
  <2> SUFFICES ASSUME ~restored
               PROVE  /\ Covers(r, signed, returned)
                      /\ \A m \in signed : Ahead(q, m)
                      /\ \A m \in returned : Succeeds(m, q)
    OBVIOUS
  <2>1. Covers(s, signed, returned) BY <1>4
  <2>2. r = Reserved(s, p) /\ q = r.pending BY DEF r, q
  <2> QED BY <1>1, <1>3, <1>8, <2>1, <2>2, ReservationContinues, ZenonT(60)
<1>11. CASE ~done
  <2>1. visible' \in {visible, r} /\ durable' = durable /\ store' = Poisoned /\ call' = Idle
    BY <1>6, <1>11 DEF Persist
  <2> QED BY <1>2, <1>3, <1>4, <1>7, <1>9, <1>10, <2>1, IssuerStep, ZenonT(60)
<1>12. CASE done
  <2>1. visible' = r /\ durable' = r /\ store' = Holding(r) /\ call' = [stage |-> "reserved", content |-> q]
    BY <1>6, <1>12, Zenon DEF Persist
  <2>2. call' # Idle /\ call'.stage = "reserved" /\ call'.content = q BY <2>1, Zenon DEF Idle
  <2>3. AuthorityTypeOK' BY <1>7, <1>9, <2>1, <2>2, Zenon DEF RevisionsAreSafe, AuthorityTypeOK, Holding, verifierVars
  <2>4. StoreReadable' BY <1>7, <1>9, <2>1, <2>2, Zenon
    DEF RevisionsAreSafe, StoreReadable, Holding, verifierVars, FileSound, q
  <2>5. FileCoversHistory' BY <1>3, <1>4, <1>7, <1>10, <2>1, <2>2, Zenon DEF FileCoversHistory, Chained
  <2> QED BY <1>7, <2>3, <2>4, <2>5, Zenon DEF RevisionsAreSafe, RevisionOnce, RevocationsKept
<1> QED BY <1>11, <1>12, Zenon

\* Sign keeps the invariant.
LEMMA SignOK ==
  ASSUME RevisionsAreSafe, Sign
  PROVE  RevisionsAreSafe'
<1> USE DEF RevisionsAreSafe
<1>1. call \in [stage : {"reserved", "signed"}, content : Manifests] /\ call # Idle /\ call.stage = "reserved"
  BY StoreShape DEF Sign
<1>2. UNCHANGED <<visible, durable, store, returned, restored, verifierVars>> BY Zenon DEF Sign
<1>3. ASSUME signed' = signed, call' = Idle
      PROVE  RevisionsAreSafe'
  <2>1. call'.stage = "idle" BY <1>3, Zenon DEF Idle
  <2>2. AuthorityTypeOK' BY <1>2, <1>3, <2>1, ZenonT(60) DEF AuthorityTypeOK, verifierVars
  <2>3. StoreReadable' BY <1>2, <1>3 DEF StoreReadable, verifierVars
  <2>4. FileCoversHistory' BY <1>2, <1>3, <2>1 DEF FileCoversHistory
  <2> QED BY <1>2, <1>3, <2>2, <2>3, <2>4, Zenon DEF RevisionOnce, RevocationsKept
<1>4. ASSUME signed' = signed \cup {call.content}, call' = [call EXCEPT !.stage = "signed"]
      PROVE  RevisionsAreSafe'
  <2>1. /\ call' \in [stage : {"reserved", "signed"}, content : Manifests]
        /\ call'.stage = "signed" /\ call'.content = call.content /\ call' # Idle
    BY <1>1, <1>4, Zenon DEF Idle
  <2>2. call.content \in Manifests BY <1>1, Zenon
  <2>3. AuthorityTypeOK' BY <1>1, <1>2, <1>4, <2>1, <2>2, ZenonT(60) DEF AuthorityTypeOK, verifierVars
  <2>4. call.content = visible.pending /\ ManifestRecord(call.content)
        /\ call.content.epoch = visible.epoch /\ call.content.revision = visible.revision /\ durable = visible
    BY <1>1 DEF StoreReadable, FileSound
  <2>5. StoreReadable' BY <1>1, <1>2, <1>4, <2>1, <2>4 DEF StoreReadable, verifierVars
  <2>6. ASSUME ~restored
        PROVE  \A m, n \in signed' : (m.epoch = n.epoch /\ m.revision = n.revision) => m = n
    <3>1. \A m \in signed : Ahead(call.content, m) BY <1>1, <2>6 DEF FileCoversHistory
    <3>2. call.content.epoch \in Nat /\ call.content.revision \in Nat BY <2>2, EpochsAreNumbers, Zenon DEF Manifests
    <3>3. \A m \in signed : ~(m.epoch = call.content.epoch /\ m.revision = call.content.revision)
      BY <3>1, <3>2 DEF Ahead, AtMost
    <3> QED BY <1>4, <2>6, <3>3 DEF RevisionOnce
  <2>7. FileCoversHistory'
    <3>0. call.content.revision \in Nat BY <2>2, Zenon DEF Manifests
    <3>1. AtMost(call.content.epoch, call.content.revision, visible.epoch, visible.revision)
      BY <2>4, <3>0 DEF AtMost
    <3> QED BY <1>1, <1>2, <1>4, <2>1, <2>4, <3>1, ZenonT(60) DEF FileCoversHistory, Covers
  <2> QED BY <1>2, <2>3, <2>5, <2>6, <2>7 DEF RevisionOnce, RevocationsKept
<1> QED BY <1>3, <1>4, Zenon DEF Sign

\* Commit keeps the invariant.
LEMMA CommitOK ==
  ASSUME RevisionsAreSafe, Commit
  PROVE  RevisionsAreSafe'
<1> DEFINE m == call.content
           s == Committed(store.state, m)
<1>1. call \in [stage : {"reserved", "signed"}, content : Manifests] /\ call # Idle /\ call.stage = "signed"
  BY StoreShape DEF Commit, RevisionsAreSafe
<1>2. /\ store.open /\ store.state = visible /\ durable = visible /\ visible \in StoreStates /\ FileSound(visible)
      /\ visible.pending = m /\ visible.pending.present
      /\ returned \subseteq signed /\ m \in signed /\ m \in Manifests
      /\ \A n \in returned : ManifestVerifies(n)
  BY <1>1 DEF RevisionsAreSafe, AuthorityTypeOK, StoreReadable, Commit
<1>3. ManifestVerifies(m) BY Zenon DEF Commit
<1>4. PICK done \in BOOLEAN :
        /\ Persist(s, done)
        /\ store' = IF done THEN Holding(s) ELSE Poisoned
        /\ returned' = IF done THEN returned \cup {m} ELSE returned
  BY Zenon DEF Commit
<1>5. call' = Idle /\ UNCHANGED <<signed, restored, verifierVars>> BY Zenon DEF Commit
<1>6. /\ s \in StoreStates /\ s.epoch = visible.epoch /\ s.revision = visible.revision
      /\ s.current = m /\ s.used = visible.used /\ s.pending = Missing
  BY <1>2, CommittedIs, ZenonT(60)
<1> HIDE DEF s
<1>7. /\ m.epoch = visible.epoch /\ m.revision = visible.revision
      /\ Ids(m.certs) \cup m.revs \subseteq visible.used /\ Cardinality(visible.used) <= MaxUsedIds
  BY <1>2, Zenon DEF FileSound
<1>8. m.epoch \in Nat /\ m.revision \in Nat /\ m.issued \in Nat /\ m.present
  BY <1>2, EpochsAreNumbers, Zenon DEF Manifests
<1>9. AtMost(m.epoch, m.revision, m.epoch, m.revision) BY <1>8 DEF AtMost
<1>10. FileSound(s) BY <1>3, <1>6, <1>7, <1>9 DEF FileSound, StateReadable, Missing
<1>11. Succeeds(m, m) BY <1>8, <1>9 DEF Succeeds
<1> HIDE DEF m
<1>12. ASSUME ~restored
       PROVE  /\ Covers(visible, signed, returned) /\ Chained(returned)
              /\ Covers(s, signed, returned \cup {m}) /\ Chained(returned \cup {m})
              /\ Covers(s, signed, returned)
  <2>1. \A n \in returned : Succeeds(n, m) /\ Ahead(m, n) BY <1>1, <1>12, Zenon DEF RevisionsAreSafe, FileCoversHistory, m
  <2>2. Covers(visible, signed, returned) /\ Chained(returned)
    BY <1>12, Zenon DEF RevisionsAreSafe, FileCoversHistory, Chained
  <2>3. Covers(s, signed, returned \cup {m}) BY <1>6, <1>7, <1>8, <1>11, <2>1, <2>2, ZenonT(60) DEF Covers
  <2>4. Chained(returned \cup {m}) BY <1>11, <2>1, <2>2, Zenon DEF Chained, Ahead
  <2>5. Covers(s, signed, returned) BY <2>3, Zenon DEF Covers
  <2> QED BY <2>2, <2>3, <2>4, <2>5, Zenon
<1>13. CASE done
  <2>1. visible' = s /\ durable' = s /\ store' = Holding(s) /\ returned' = returned \cup {m} BY <1>4, <1>13, Zenon DEF Persist
  <2> QED BY <1>2, <1>3, <1>5, <1>6, <1>10, <1>12, <2>1, IssuerStep, ZenonT(60)
<1>14. CASE ~done
  <2>1. visible' \in {visible, s} /\ durable' = durable /\ store' = Poisoned /\ returned' = returned
    BY <1>4, <1>14, ZenonT(60) DEF Persist
  <2> QED BY <1>2, <1>5, <1>6, <1>10, <1>12, <2>1, IssuerStep, ZenonT(60)
<1> QED BY <1>13, <1>14

-----------------------------------------------------------------------------
(* The verifier *)

\* The fields of what a verifier has seen.
LEMMA SeenShape ==
  ASSUME AuthorityTypeOK, seen.known
  PROVE  seen \in DeviceStates
BY DEF AuthorityTypeOK, Unknown

\* What an id stands for is a certificate or a tombstone, never both.
LEMMA HistoryShape ==
  ASSUME NEW d \in DeviceStates, NEW h \in d.history
  PROVE  /\ h = <<h[1], h[2]>> /\ h[1] \in CertIds
         /\ h[2] \in Certificate \/ h[2] = Tombstone
         /\ h[2] # Tombstone => h[2] \in Certificate /\ h[2].epoch \in Nat
<1>1. h \in CertIds \X (Certificate \cup {Tombstone}) BY Zenon DEF DeviceStates
<1>2. \A c \in Certificate : c.epoch \in Nat BY AuthorityAssumption, ZenonT(60) DEF CertificateRecord
<1> QED BY <1>1, <1>2

\* A revoked id is not usable: what it stands for is not what the current
\* manifest certifies.
LEMMA RevokedFollows ==
  ASSUME AuthorityTypeOK, SeenIsConsistent
  PROVE  RevokedNeverUsable
<1> SUFFICES ASSUME NEW c \in Certificate, NEW now \in ClockTime, Usable(seen, c, now), c.id \in told
             PROVE  FALSE
  BY Zenon DEF RevokedNeverUsable
<1>1. seen.known /\ seen.manifest.present /\ c \in seen.certs
      /\ c.id \notin seen.manifest.revs /\ c.epoch = seen.manifest.epoch
  BY Zenon DEF Usable
<1>2. seen \in DeviceStates BY <1>1, SeenShape, Zenon
<1>3. seen.manifest = seen.digest /\ ~seen.exhausted /\ seen.epoch = seen.digest.epoch /\ seen.revs = seen.digest.revs
  BY <1>1, Zenon DEF SeenIsConsistent
<1>4. PICK h \in seen.history :
        h[1] = c.id /\ (h[2] = Tombstone \/ ~seen.manifest.present \/ h[2].epoch < seen.epoch \/ c.id \in seen.revs)
  BY <1>1, <1>3, Zenon DEF SeenIsConsistent
<1>5. <<c.id, c>> \in seen.history BY <1>1, ZenonT(60) DEF SeenIsConsistent
<1>6. h[2] = c
  <2> DEFINE g == <<c.id, c>>
  <2>1. g \in seen.history /\ g[1] = c.id /\ g[2] = c BY <1>5, Zenon
  <2> HIDE DEF g
  <2> QED BY <1>1, <1>4, <2>1 DEF SeenIsConsistent
<1>7. c # Tombstone BY AuthorityAssumption, Zenon
<1>8. seen.epoch \in Nat /\ c.epoch = seen.epoch BY <1>1, <1>2, <1>3, EpochsAreNumbers, Zenon DEF DeviceStates
<1> QED BY <1>1, <1>3, <1>4, <1>6, <1>7, <1>8

\* Every id the verifier remembers, and every id of a manifest it may take, is
\* among the ids the issuer has used.
LEMMA RememberedIsUsed ==
  ASSUME RevisionsAreSafe, SeenIsConsistent, SeenIsHonest, ~restored, seen.known
  PROVE  Remembered(seen) \subseteq visible.used
<1> SUFFICES ASSUME NEW h \in seen.history
             PROVE  h[1] \in visible.used
  BY Zenon DEF Remembered
<1>1. PICK a \in returned : h[2] \in a.certs \/ (h[2] = Tombstone /\ h[1] \in a.revs) BY Zenon DEF SeenIsHonest
<1>2. Ids(a.certs) \cup a.revs \subseteq visible.used BY Zenon DEF RevisionsAreSafe, FileCoversHistory, Covers
<1>3. a.certs \subseteq Certificate BY ZenonT(60) DEF RevisionsAreSafe, AuthorityTypeOK, Manifests
<1>4. CASE h[2] \in a.certs
  <2>1. h[2] # Tombstone BY <1>3, <1>4, AuthorityAssumption, ZenonT(60)
  <2>2. h[2].id = h[1] BY <2>1, ZenonT(60) DEF SeenIsConsistent
  <2> QED BY <1>2, <1>4, <2>2, ZenonT(60) DEF Ids
<1> QED BY <1>1, <1>2, <1>4, Zenon

\* A manifest that was returned and is newer can be taken next.
LEMMA HonestFollows ==
  ASSUME RevisionsAreSafe, SeenIsConsistent, SeenIsHonest
  PROVE  HonestManifestTaken
<1> SUFFICES ASSUME ~restored, seen.known, NEW m \in returned, NEW now \in ClockTime, NewerThan(seen, m)
             PROVE  NextStateValid(seen, m, now)
  BY Zenon DEF HonestManifestTaken
<1>1. seen \in DeviceStates BY SeenShape, Zenon DEF RevisionsAreSafe
<1>2. /\ seen.manifest.present /\ ~seen.exhausted /\ seen.digest \in returned
      /\ seen.epoch = seen.digest.epoch /\ seen.revision = seen.digest.revision
      /\ seen.revs = seen.digest.revs /\ seen.issued = seen.digest.issued
  BY Zenon DEF SeenIsConsistent, SeenIsHonest
<1>3. returned \subseteq Manifests /\ returned \subseteq signed BY Zenon DEF RevisionsAreSafe, AuthorityTypeOK
<1>4. \A a \in returned : a.epoch \in Nat /\ a.revision \in Nat /\ a.certs \subseteq Certificate /\ a.revs \subseteq CertIds
  BY <1>3, EpochsAreNumbers, ZenonT(60) DEF Manifests
<1>5. AtMost(seen.epoch, seen.revision, m.epoch, m.revision)
  BY <1>2, <1>4 DEF NewerThan, AtMost
<1>6. \A a \in returned : AtMost(a.epoch, a.revision, seen.epoch, seen.revision) => Succeeds(a, m)
  <2> SUFFICES ASSUME NEW a \in returned, AtMost(a.epoch, a.revision, seen.epoch, seen.revision)
               PROVE  Succeeds(a, m)
    OBVIOUS
  <2>1. seen.epoch \in Nat /\ seen.revision \in Nat BY <1>2, <1>4
  <2>2. AtMost(a.epoch, a.revision, m.epoch, m.revision) BY <1>4, <1>5, <2>1, AtMostIsTransitive, ZenonT(60)
  <2> QED BY <2>2 DEF RevisionsAreSafe, FileCoversHistory
<1>7. Succeeds(seen.digest, m) BY <1>2, <1>4, <1>6 DEF AtMost
<1>8. m.issued >= seen.issued
  <2>1. m.issued \in Nat /\ seen.digest.issued \in Nat BY <1>2, <1>3, ZenonT(60) DEF Manifests
  <2> QED BY <1>2, <1>7, <2>1 DEF Succeeds
<1>9. m.epoch = seen.epoch => Extends(m.revs, seen.revs)
  <2>1. RevocationsValid(m.revs) /\ RevocationsValid(seen.revs)
    BY <1>2, <1>3 DEF RevisionsAreSafe, StoreReadable, ManifestRecord
  <2> QED BY <1>2, <1>7, <2>1, ZenonT(60) DEF Extends, Succeeds
<1>10. ASSUME NEW c \in m.certs, NEW h \in seen.history, h[1] = c.id
       PROVE  h[2] = c
  <2>1. PICK a \in returned :
          /\ AtMost(a.epoch, a.revision, seen.epoch, seen.revision)
          /\ h[2] \in a.certs \/ (h[2] = Tombstone /\ h[1] \in a.revs)
    BY Zenon DEF SeenIsHonest
  <2>2. Succeeds(a, m) /\ a.certs \subseteq Certificate BY <1>4, <1>6, <2>1, Zenon
  <2>3. ContentValid(a) BY Zenon DEF RevisionsAreSafe, StoreReadable, ManifestVerifies
  <2>4. CASE h[2] \in a.certs
    <3>1. h[2] # Tombstone BY <2>2, <2>4, AuthorityAssumption, Zenon
    <3>2. h[2].id = c.id BY <1>10, <3>1, Zenon DEF SeenIsConsistent
    <3>3. c \in a.certs BY <2>2, <2>4, <3>2, Zenon DEF Succeeds, Ids
    <3>4. Cardinality(Ids(a.certs)) = Cardinality(a.certs) BY <2>3, Zenon DEF ContentValid
    <3> QED BY <2>2, <2>4, <3>2, <3>3, <3>4, IdsAreUnique, ZenonT(60)
  <2>5. CASE h[1] \in a.revs
    <3>1. c \in a.certs BY <1>10, <2>2, <2>5, Zenon DEF Succeeds
    <3> QED BY <1>10, <2>3, <2>5, <3>1, Zenon DEF ContentValid
  <2> QED BY <2>1, <2>4, <2>5, Zenon
<1>11. Cardinality(Remembered(seen) \cup Ids(m.certs) \cup m.revs) <= MaxUsedIds
  <2>1. Remembered(seen) \cup Ids(m.certs) \cup m.revs \subseteq visible.used
    BY RememberedIsUsed, Zenon DEF RevisionsAreSafe, FileCoversHistory, Covers
  <2>2. visible.used \subseteq CertIds /\ Cardinality(visible.used) <= MaxUsedIds
    BY Zenon DEF RevisionsAreSafe, AuthorityTypeOK, StoreStates, StoreReadable, FileSound
  <2>3. IsFiniteSet(visible.used) BY <2>2, CertificatesAreFinite, Zenon
  <2> DEFINE R == Remembered(seen) \cup Ids(m.certs) \cup m.revs
  <2>4. IsFiniteSet(R) /\ Cardinality(R) <= Cardinality(visible.used) BY <2>1, <2>3, FS_Subset, Zenon
  <2>5. Cardinality(R) \in Nat /\ Cardinality(visible.used) \in Nat BY <2>3, <2>4, FS_CardinalityType, Zenon
  <2> HIDE DEF R
  <2>6. Cardinality(R) <= MaxUsedIds BY <2>2, <2>4, <2>5, EpochsAreNumbers
  <2> QED BY <2>6, Zenon DEF R
<1>12. Cardinality(Kept(seen, m, now)) <= MaxCertificates
  <2>1. ASSUME NEW c \in seen.certs, m.epoch = seen.epoch, c.id \notin m.revs
        PROVE  c \in m.certs
    <3>1. PICK a \in returned : a.epoch = seen.epoch /\ a.revision <= seen.revision /\ c \in a.certs
      BY Zenon DEF SeenIsHonest
    <3>2. Succeeds(a, m) BY <1>2, <1>4, <1>6, <3>1, Zenon DEF AtMost
    <3> QED BY <2>1, <3>1, <3>2, Zenon DEF Succeeds
  <2>2. Kept(seen, m, now) \subseteq m.certs BY <2>1, Zenon DEF Kept
  <2>3. IsFiniteSet(m.certs) BY <1>4, CertificatesAreFinite, Zenon
  <2>4. IsFiniteSet(Kept(seen, m, now)) /\ Cardinality(Kept(seen, m, now)) <= Cardinality(m.certs)
    BY <2>2, <2>3, FS_Subset, Zenon
  <2>5. Cardinality(Kept(seen, m, now)) \in Nat /\ Cardinality(m.certs) \in Nat BY <2>3, <2>4, FS_CardinalityType, Zenon
  <2>6. Cardinality(m.certs) <= MaxCertificates BY <1>3, Zenon DEF RevisionsAreSafe, StoreReadable, ManifestRecord
  <2> QED BY <2>4, <2>5, <2>6, AuthorityAssumption
<1> QED BY <1>2, <1>8, <1>9, <1>10, <1>11, <1>12 DEF NextStateValid

\* The ids that a history of tombstones, or of certificates, remembers.
LEMMA FirstOfTombstones ==
  ASSUME NEW S PROVE {x[1] : x \in {<<i, Tombstone>> : i \in S}} = S
<1>1. \A i \in S : <<i, Tombstone>>[1] = i OBVIOUS
<1> QED BY <1>1, Zenon

\* The ids of certificates that are paired with them.
LEMMA FirstOfCertificates ==
  ASSUME NEW S PROVE {x[1] : x \in {<<c.id, c>> : c \in S}} = {c.id : c \in S}
<1>1. \A c \in S : <<c.id, c>>[1] = c.id BY Zenon
<1> QED BY <1>1, Zenon

\* What a device state promises by itself: an id stands for one thing, and
\* what it certifies is remembered.
Consistent(d) ==
    /\ d \in DeviceStates
    /\ \A c \in d.certs : <<c.id, c>> \in d.history
    /\ \A g, h \in d.history : g[1] = h[1] => g[2] = h[2]
    /\ \A h \in d.history : h[2] # Tombstone => h[2].id = h[1] /\ h[2].epoch <= d.epoch

\* A verifier that takes its first manifest is consistent.
LEMMA FreshIsConsistent ==
  ASSUME NEW m \in Manifests
  PROVE  /\ Consistent(FreshDevice(m)) /\ ~FreshDevice(m).exhausted
         /\ FreshDevice(m).epoch = m.epoch /\ FreshDevice(m).history = {} /\ FreshDevice(m).certs = {}
BY Zenon DEF Consistent, FreshDevice, DeviceStates, Manifests

\* The state n that taking manifest m leaves of d.
Took(d, m, now, n) ==
    /\ Consistent(n)
    /\ n.known /\ n.epoch = m.epoch /\ n.revision = m.revision /\ n.issued = m.issued
    /\ n.digest = m /\ n.manifest = m /\ n.revs = m.revs /\ ~n.exhausted /\ n.certs = Kept(d, m, now)
    /\ d.history \subseteq n.history
    /\ \A h \in n.history : h \in d.history \/ h[2] \in m.certs \/ (h[2] = Tombstone /\ h[1] \in m.revs)
    /\ Remembered(n) = Remembered(d) \cup Ids(m.certs) \cup m.revs

\* Taking a manifest adds its certificates and tombstones to the history, and
\* an id keeps standing for what it stood for.
LEMMA TakenHistory ==
  ASSUME NEW d, Consistent(d), NEW m \in Manifests, ContentValid(m), d.epoch <= m.epoch,
         NEW now \in ClockTime, NextStateValid(d, m, now), NEW n, n = NextState(d, m, now)
  PROVE  Took(d, m, now, n)
<1> DEFINE P == {<<c.id, c>> : c \in m.certs}
           C == d.history \cup P
           T == {<<i, Tombstone>> : i \in m.revs \ {h[1] : h \in C}}
<1>1. d \in DeviceStates BY Zenon DEF Consistent
<1>2. Tombs([d EXCEPT !.history = C], m.revs) = T
  <2>1. [d EXCEPT !.history = C].history = C BY <1>1, Zenon DEF DeviceStates
  <2> QED BY <2>1, Zenon DEF Tombs, Remembered
<1>3. n = [known |-> TRUE, epoch |-> m.epoch, revision |-> m.revision,
           issued |-> m.issued, digest |-> m, manifest |-> m, certs |-> Kept(d, m, now),
           history |-> C \cup T, exhausted |-> d.exhausted, revs |-> m.revs]
  BY <1>2, ZenonT(60) DEF NextState
<1>4. /\ n.known /\ n.epoch = m.epoch /\ n.revision = m.revision /\ n.issued = m.issued
      /\ n.digest = m /\ n.manifest = m /\ n.revs = m.revs /\ n.exhausted = d.exhausted
      /\ n.certs = Kept(d, m, now) /\ n.history = C \cup T
  <2> HIDE DEF C, T
  <2> QED BY <1>3
<1>5. d.exhausted = FALSE BY <1>1 DEF NextStateValid, DeviceStates
<1>6. \A x \in P : x[2] \in m.certs /\ x[1] = x[2].id /\ x = <<x[1], x[2]>> OBVIOUS
<1>7. \A x \in T : x[2] = Tombstone /\ x[1] \in m.revs /\ x = <<x[1], x[2]>> /\ \A h \in C : h[1] # x[1] OBVIOUS
<1>8. m.certs \subseteq Certificate /\ m.revs \subseteq CertIds /\ m.epoch \in Nat /\ m.epoch \in 0..MaxEpoch
      /\ m.revision \in Nat /\ m.issued \in Nat
  BY EpochsAreNumbers, ZenonT(60) DEF Manifests
<1>9. P \subseteq CertIds \X (Certificate \cup {Tombstone}) BY <1>8 DEF CertIds
<1>10. T \subseteq CertIds \X (Certificate \cup {Tombstone}) BY <1>8
<1>11. Kept(d, m, now) \subseteq d.certs \cup m.certs /\ (m.epoch # d.epoch => Kept(d, m, now) \subseteq m.certs)
  BY ZenonT(60) DEF Kept
<1>12. n \in DeviceStates
  <2>1. C \cup T \subseteq CertIds \X (Certificate \cup {Tombstone}) BY <1>1, <1>9, <1>10, Zenon DEF DeviceStates
  <2>2. Kept(d, m, now) \subseteq Certificate BY <1>1, <1>8, <1>11, Zenon DEF DeviceStates
  <2> DEFINE H == C \cup T
             K == Kept(d, m, now)
  <2>3. n = [known |-> TRUE, epoch |-> m.epoch, revision |-> m.revision,
             issued |-> m.issued, digest |-> m, manifest |-> m, certs |-> K,
             history |-> H, exhausted |-> FALSE, revs |-> m.revs]
    BY <1>3, <1>5, Zenon
  <2>4. H \subseteq CertIds \X (Certificate \cup {Tombstone}) /\ K \subseteq Certificate BY <2>1, <2>2, Zenon
  <2> HIDE DEF H, K
  <2> QED BY <1>8, <2>3, <2>4 DEF DeviceStates
<1>13. \A c \in m.certs : <<c.id, c>> \in P BY Zenon
<1>14. \A c \in n.certs : <<c.id, c>> \in n.history
  <2>1. \A c \in d.certs : <<c.id, c>> \in d.history BY Zenon DEF Consistent
  <2> HIDE DEF P, T
  <2> QED BY <1>4, <1>11, <1>13, <2>1, ZenonT(60)
<1>15. \A g, h \in C : g[1] = h[1] => g[2] = h[2]
  <2>1. \A g, h \in d.history : g[1] = h[1] => g[2] = h[2] BY Zenon DEF Consistent
  <2>2. \A g \in P, h \in d.history : g[1] = h[1] => g[2] = h[2] BY <1>6 DEF NextStateValid
  <2>3. ASSUME NEW g \in P, NEW h \in P, g[1] = h[1]
        PROVE  g[2] = h[2]
    <3>1. g[2] \in m.certs /\ h[2] \in m.certs /\ g[2].id = h[2].id BY <1>6, <2>3, Zenon
    <3>2. Cardinality(Ids(m.certs)) = Cardinality(m.certs) BY ZenonT(60) DEF ContentValid
    <3> QED BY <1>8, <3>1, <3>2, IdsAreUnique, ZenonT(60)
  <2> HIDE DEF P
  <2> QED BY <2>1, <2>2, <2>3, ZenonT(60)
<1>16. \A g, h \in n.history : g[1] = h[1] => g[2] = h[2]
  <2> HIDE DEF C, T
  <2> QED BY <1>4, <1>7, <1>15
<1>17. \A h \in n.history : h[2] # Tombstone => h[2].id = h[1] /\ h[2].epoch <= n.epoch
  <2> SUFFICES ASSUME NEW h \in n.history, h[2] # Tombstone
               PROVE  h[2].id = h[1] /\ h[2].epoch <= m.epoch
    BY <1>4, ZenonT(60)
  <2>1. CASE h \in d.history
    <3>1. h[2].epoch \in Nat BY <1>1, <2>1, HistoryShape, Zenon
    <3>2. d.epoch \in Nat BY <1>1, EpochsAreNumbers, Zenon DEF DeviceStates
    <3>3. h[2].id = h[1] /\ h[2].epoch <= d.epoch BY <2>1, ZenonT(60) DEF Consistent
    <3> QED BY <1>8, <3>1, <3>2, <3>3
  <2>2. CASE h \in P
    <3>1. h[2] \in m.certs /\ h[2].id = h[1] BY <1>6, <2>2, Zenon
    <3> QED BY <1>8, <3>1 DEF ContentValid
  <2>3. h \in d.history \/ h \in P \/ h \in T BY <1>4, Zenon
  <2> QED BY <1>7, <2>1, <2>2, <2>3, ZenonT(60)
<1>18. Remembered(n) = Remembered(d) \cup Ids(m.certs) \cup m.revs
  <2>1. {h[1] : h \in P} = Ids(m.certs) BY FirstOfCertificates, ZenonT(60) DEF Ids
  <2>2. {h[1] : h \in C} = Remembered(d) \cup Ids(m.certs) BY <2>1 DEF Remembered
  <2>3. {h[1] : h \in T} = m.revs \ {h[1] : h \in C} BY FirstOfTombstones, Zenon
  <2> HIDE DEF C, T
  <2>4. Remembered(n) = {h[1] : h \in C} \cup {h[1] : h \in T} BY <1>4, Zenon DEF Remembered
  <2> QED BY <2>2, <2>3, <2>4, Zenon
<1>19. d.history \subseteq n.history BY <1>4, Zenon
<1>20. \A h \in n.history : h \in d.history \/ h[2] \in m.certs \/ (h[2] = Tombstone /\ h[1] \in m.revs)
  <2> HIDE DEF P, T
  <2> QED BY <1>4, <1>6, <1>7, Zenon
<1>21. Consistent(n) BY <1>12, <1>14, <1>16, <1>17, Zenon DEF Consistent
<1> HIDE DEF C, T
<1> QED BY <1>4, <1>5, <1>18, <1>19, <1>20, <1>21, ZenonT(60) DEF Took

\* A step of the verifier leaves what is known of the store as it is.
LEMMA VerifierStep ==
  ASSUME RevisionsAreSafe, UNCHANGED storeVars, seen' \in DeviceStates, told' \subseteq CertIds,
         Cardinality(Remembered(seen')) <= MaxUsedIds
  PROVE  RevisionsAreSafe'
<1> USE DEF RevisionsAreSafe, storeVars
<1>1. AuthorityTypeOK' BY Zenon DEF AuthorityTypeOK
<1>2. StoreReadable' BY Zenon DEF StoreReadable
<1> QED BY <1>1, <1>2, Zenon DEF RevisionOnce, RevocationsKept, FileCoversHistory

\* The verifier takes a manifest, or refuses it.
LEMMA TakeOK ==
  ASSUME RevisionsAreSafe, SeenIsConsistent, SeenIsHonest,
         NEW m \in returned, NEW now \in ClockTime, UNCHANGED storeVars, told' = told \cup m.revs,
         seen.known => NewerThan(seen, m),
         NEW d, d = IF seen.known THEN seen ELSE FreshDevice(m),
         NextStateValid(d, m, now), seen' = NextState(d, m, now)
  PROVE  RevisionsAreSafe' /\ SeenIsConsistent' /\ SeenIsHonest'
<1>1. m \in Manifests /\ returned \subseteq Manifests /\ told \subseteq CertIds
  BY Zenon DEF RevisionsAreSafe, AuthorityTypeOK
<1>2. m.epoch \in Nat /\ m.revision \in Nat /\ m.revs \subseteq CertIds /\ m.present
  BY <1>1, EpochsAreNumbers, ZenonT(60) DEF Manifests
<1>3. ContentValid(m) BY DEF RevisionsAreSafe, StoreReadable, ManifestVerifies
<1>4. CASE seen.known
  <2>1. d = seen /\ seen \in DeviceStates BY <1>4, SeenShape, Zenon DEF RevisionsAreSafe
  <2>2. seen.epoch \in Nat /\ seen.revision \in Nat BY <2>1, EpochsAreNumbers, ZenonT(60) DEF DeviceStates
  <2>3. seen.epoch <= m.epoch /\ AtMost(seen.epoch, seen.revision, m.epoch, m.revision)
        /\ (~seen.manifest.present => seen.epoch < m.epoch)
    <3>1. NewerThan(seen, m) BY <1>4, Zenon
    <3> QED BY <1>2, <2>2, <3>1 DEF NewerThan, AtMost
  <2>4. Consistent(d) BY <1>4, <2>1 DEF Consistent, SeenIsConsistent
  <2>5. /\ Consistent(seen') /\ seen'.known /\ seen'.epoch = m.epoch /\ seen'.revision = m.revision
        /\ seen'.issued = m.issued /\ seen'.digest = m /\ seen'.manifest = m /\ seen'.revs = m.revs
        /\ ~seen'.exhausted /\ seen'.certs = Kept(d, m, now) /\ d.history \subseteq seen'.history
        /\ \A h \in seen'.history : h \in d.history \/ h[2] \in m.certs \/ (h[2] = Tombstone /\ h[1] \in m.revs)
        /\ Remembered(seen') = Remembered(d) \cup Ids(m.certs) \cup m.revs
    <3>1. d.epoch <= m.epoch BY <2>1, <2>3, Zenon
    <3>2. Took(d, m, now, seen') BY <1>1, <1>3, <2>4, <3>1, TakenHistory, Zenon
    <3> QED BY <3>2, Zenon DEF Took
  <2>6. RevisionsAreSafe'
    <3>1. Cardinality(Remembered(seen')) <= MaxUsedIds BY <2>5, Zenon DEF NextStateValid
    <3>2. seen' \in DeviceStates BY <2>5, Zenon DEF Consistent
    <3> QED BY <1>1, <1>2, <3>1, <3>2, VerifierStep, Zenon
  <2>7. ASSUME NEW i \in told'
        PROVE  \E h \in seen'.history :
                 h[1] = i /\ (h[2] = Tombstone \/ h[2].epoch < seen'.epoch \/ i \in seen'.revs)
    <3>1. CASE i \in m.revs
      <4>1. i \in Remembered(seen') BY <2>5, <3>1, Zenon
      <4>2. PICK h \in seen'.history : h[1] = i BY <4>1, Zenon DEF Remembered
      <4> QED BY <2>5, <3>1, <4>2, Zenon
    <3>2. CASE i \in told
      <4>1. ~seen.exhausted BY <2>1, Zenon DEF NextStateValid
      <4>2. PICK h \in seen.history :
              h[1] = i /\ (h[2] = Tombstone \/ ~seen.manifest.present \/ h[2].epoch < seen.epoch \/ i \in seen.revs)
        BY <1>4, <3>2, <4>1, Zenon DEF SeenIsConsistent
      <4>3. h[2] # Tombstone => h[2].epoch \in Nat /\ h[2].epoch <= seen.epoch
        BY <1>4, <2>1, HistoryShape, ZenonT(60) DEF SeenIsConsistent
      <4>4. i \in seen.revs => seen.epoch < m.epoch \/ i \in m.revs
        <5>1. m.epoch = seen.epoch => seen.revs \subseteq m.revs BY <2>1, ZenonT(60) DEF NextStateValid, Extends
        <5> QED BY <1>2, <2>2, <2>3, <5>1
      <4>5. h[2] = Tombstone \/ h[2].epoch < m.epoch \/ i \in m.revs BY <1>2, <2>2, <2>3, <4>2, <4>3, <4>4
      <4> QED BY <2>1, <2>5, <4>2, <4>5, Zenon
    <3> QED BY <3>1, <3>2, Zenon
  <2>8. SeenIsConsistent'
    <3>1. /\ \A c \in seen'.certs : <<c.id, c>> \in seen'.history
          /\ \A g, h \in seen'.history : g[1] = h[1] => g[2] = h[2]
          /\ \A h \in seen'.history : h[2] # Tombstone => h[2].id = h[1] /\ h[2].epoch <= seen'.epoch
      BY <2>5, Zenon DEF Consistent
    <3>2. m \in returned' BY Zenon DEF storeVars
    <3> QED BY <1>2, <2>5, <2>7, <3>1, <3>2, ZenonT(60) DEF SeenIsConsistent
  <2>9. ASSUME ~restored, NEW h \in seen'.history
        PROVE  \E a \in returned : /\ AtMost(a.epoch, a.revision, m.epoch, m.revision)
                                   /\ h[2] \in a.certs \/ (h[2] = Tombstone /\ h[1] \in a.revs)
    <3>1. CASE h \in seen.history
      <4>1. PICK a \in returned : /\ AtMost(a.epoch, a.revision, seen.epoch, seen.revision)
                                  /\ h[2] \in a.certs \/ (h[2] = Tombstone /\ h[1] \in a.revs)
        BY <1>4, <2>9, <3>1, Zenon DEF SeenIsHonest
      <4>2. a.epoch \in Nat /\ a.revision \in Nat BY <1>1, EpochsAreNumbers, Zenon DEF Manifests
      <4>3. AtMost(a.epoch, a.revision, m.epoch, m.revision) BY <1>2, <2>2, <2>3, <4>1, <4>2, AtMostIsTransitive, ZenonT(60)
      <4> QED BY <4>1, <4>3, Zenon
    <3>2. AtMost(m.epoch, m.revision, m.epoch, m.revision) BY <1>2 DEF AtMost
    <3> QED BY <2>1, <2>5, <2>9, <3>1, <3>2, Zenon
  <2>10. ASSUME ~restored, NEW c \in seen'.certs
         PROVE  \E a \in returned : a.epoch = m.epoch /\ a.revision <= m.revision /\ c \in a.certs
    <3>1. c \in m.certs \/ (c \in seen.certs /\ m.epoch = seen.epoch) BY <2>1, <2>5, <2>10, ZenonT(60) DEF Kept
    <3>2. CASE c \in seen.certs /\ m.epoch = seen.epoch
      <4>1. PICK a \in returned : a.epoch = seen.epoch /\ a.revision <= seen.revision /\ c \in a.certs
        BY <1>4, <2>10, <3>2, ZenonT(60) DEF SeenIsHonest
      <4>2. a.revision \in Nat BY <1>1, ZenonT(60) DEF Manifests
      <4>3. seen.revision <= m.revision BY <1>2, <2>2, <2>3, <3>2 DEF AtMost
      <4>4. a.revision <= m.revision BY <1>2, <2>2, <4>1, <4>2, <4>3
      <4> QED BY <3>2, <4>1, <4>4, ZenonT(60)
    <3> QED BY <1>2, <3>1, <3>2
  <2>11. SeenIsHonest'
    <3>1. returned' = returned /\ restored' = restored BY Zenon DEF storeVars
    <3>2. ASSUME ~restored, NEW h \in seen'.history
          PROVE  \E a \in returned' : /\ AtMost(a.epoch, a.revision, seen'.epoch, seen'.revision)
                                      /\ h[2] \in a.certs \/ (h[2] = Tombstone /\ h[1] \in a.revs)
      BY <2>5, <2>9, <3>1, <3>2, ZenonT(60)
    <3>3. ASSUME ~restored, NEW c \in seen'.certs
          PROVE  \E a \in returned' : a.epoch = seen'.epoch /\ a.revision <= seen'.revision /\ c \in a.certs
      BY <2>5, <2>10, <3>1, <3>3, ZenonT(60)
    <3>4. seen'.manifest.present BY <1>2, <2>5, Zenon
    <3> QED BY <3>1, <3>2, <3>3, <3>4, ZenonT(60) DEF SeenIsHonest
  <2> QED BY <2>6, <2>8, <2>11
<1>5. CASE ~seen.known
  <2>1. d = FreshDevice(m) /\ told = {} BY <1>5, Zenon DEF SeenIsConsistent
  <2>2. Consistent(d) /\ d.epoch = m.epoch /\ d.history = {} /\ d.certs = {} BY <1>1, <2>1, FreshIsConsistent, ZenonT(60)
  <2>3. d.epoch <= m.epoch BY <1>2, <2>2
  <2>4. /\ Consistent(seen') /\ seen'.known /\ seen'.epoch = m.epoch /\ seen'.revision = m.revision
        /\ seen'.issued = m.issued /\ seen'.digest = m /\ seen'.manifest = m /\ seen'.revs = m.revs
        /\ ~seen'.exhausted /\ seen'.certs = Kept(d, m, now)
        /\ \A h \in seen'.history : h \in d.history \/ h[2] \in m.certs \/ (h[2] = Tombstone /\ h[1] \in m.revs)
        /\ Remembered(seen') = Remembered(d) \cup Ids(m.certs) \cup m.revs
    <3>1. Took(d, m, now, seen') BY <1>1, <1>3, <2>2, <2>3, TakenHistory, ZenonT(60)
    <3> QED BY <3>1, Zenon DEF Took
  <2>5. RevisionsAreSafe'
    <3>1. Cardinality(Remembered(seen')) <= MaxUsedIds BY <2>4, Zenon DEF NextStateValid
    <3>2. seen' \in DeviceStates BY <2>4, Zenon DEF Consistent
    <3> QED BY <1>1, <1>2, <3>1, <3>2, VerifierStep
  <2>6. ASSUME NEW i \in told'
        PROVE  \E h \in seen'.history : h[1] = i /\ i \in seen'.revs
    <3>1. i \in m.revs /\ i \in Remembered(seen') BY <2>1, <2>4, Zenon
    <3> QED BY <2>4, <3>1, Zenon DEF Remembered
  <2>7. SeenIsConsistent'
    <3>1. /\ \A c \in seen'.certs : <<c.id, c>> \in seen'.history
          /\ \A g, h \in seen'.history : g[1] = h[1] => g[2] = h[2]
          /\ \A h \in seen'.history : h[2] # Tombstone => h[2].id = h[1] /\ h[2].epoch <= seen'.epoch
      BY <2>4, Zenon DEF Consistent
    <3>2. m \in returned' BY DEF storeVars
    <3> QED BY <1>2, <2>4, <2>6, <3>1, <3>2, ZenonT(60) DEF SeenIsConsistent
  <2>8. seen'.certs \subseteq m.certs BY <2>2, <2>4, Zenon DEF Kept
  <2>9. AtMost(m.epoch, m.revision, m.epoch, m.revision) /\ m.revision <= m.revision BY <1>2 DEF AtMost
  <2>10. SeenIsHonest' BY <1>2, <2>2, <2>4, <2>8, <2>9, ZenonT(60) DEF SeenIsHonest, storeVars
  <2> QED BY <2>5, <2>7, <2>10
<1> QED BY <1>4, <1>5, Zenon

\* A conflict shows that the directory was replaced, and what it hides stays
\* hidden: the quarantine forgets no id unless it ends for good.
LEMMA QuarantineOK ==
  ASSUME RevisionsAreSafe, SeenIsConsistent, SeenIsHonest,
         NEW m \in returned, UNCHANGED storeVars, told' = told \cup m.revs,
         seen.known, Conflicts(seen, m), seen' \in Quarantined(seen, m)
  PROVE  /\ RevisionsAreSafe' /\ SeenIsConsistent' /\ SeenIsHonest'
         /\ seen'.epoch = seen.epoch /\ seen'.revision = seen.revision
         /\ seen.issued <= seen'.issued /\ ~seen'.manifest.present
<1> DEFINE fresh == (Ids(m.certs) \cup m.revs) \ Remembered(seen)
           room == MaxUsedIds - Cardinality(Remembered(seen))
<1>1. m \in Manifests /\ returned \subseteq signed /\ told \subseteq CertIds /\ seen \in DeviceStates
  BY SeenShape, Zenon DEF RevisionsAreSafe, AuthorityTypeOK
<1>2. PICK k \in SUBSET fresh :
        /\ (k = fresh /\ Cardinality(k) <= room) \/ (Cardinality(fresh) > room /\ Cardinality(k) = room)
        /\ seen' = [seen EXCEPT !.manifest = Missing, !.certs = {},
                                !.issued = IF m.issued > @ THEN m.issued ELSE @,
                                !.history = @ \cup Tombs(seen, k),
                                !.exhausted = @ \/ k # fresh]
  BY Zenon DEF Quarantined
<1>3. m.certs \subseteq Certificate /\ m.revs \subseteq CertIds /\ m.issued \in Nat BY <1>1, Zenon DEF Manifests
<1>4. fresh \subseteq CertIds /\ k \cap Remembered(seen) = {} /\ k \subseteq CertIds
  BY <1>3, CertificatesAreFinite, Zenon
<1>5. m.revs \subseteq Remembered(seen) \cup fresh BY Zenon
<1> HIDE DEF fresh
<1> DEFINE T == {<<i, Tombstone>> : i \in k}
<1>6. Tombs(seen, k) = T BY <1>4, ZenonT(60) DEF Tombs
<1>7. T \subseteq CertIds \X (Certificate \cup {Tombstone}) BY <1>4
<1>8. \A x \in T : x[1] \in k /\ x[2] = Tombstone OBVIOUS
<1>9. \A i \in k : <<i, Tombstone>> \in T BY Zenon
<1>10. {x[1] : x \in T} = k BY FirstOfTombstones, Zenon
<1> HIDE DEF T
<1>11. /\ seen' \in DeviceStates /\ seen'.known /\ seen'.manifest = Missing /\ seen'.certs = {}
       /\ seen'.history = seen.history \cup T /\ seen'.exhausted = (seen.exhausted \/ k # fresh)
       /\ seen'.issued = IF m.issued > seen.issued THEN m.issued ELSE seen.issued
       /\ seen'.epoch = seen.epoch /\ seen'.revision = seen.revision
       /\ seen'.digest = seen.digest /\ seen'.revs = seen.revs
  <2> DEFINE e == seen.exhausted \/ k # fresh
             t == IF m.issued > seen.issued THEN m.issued ELSE seen.issued
             H == seen.history \cup T
  <2>1. e \in BOOLEAN /\ t \in Nat /\ H \subseteq CertIds \X (Certificate \cup {Tombstone})
    BY <1>1, <1>3, <1>7, ZenonT(60) DEF DeviceStates
  <2>2. seen' = [seen EXCEPT !.manifest = Missing, !.certs = {}, !.issued = t, !.history = H, !.exhausted = e]
    BY <1>1, <1>2, <1>6, ZenonT(60) DEF DeviceStates
  <2>3. seen'.exhausted = e /\ seen'.issued = t /\ seen'.history = H
    <3> HIDE DEF e, t, H
    <3> QED BY <1>1, <2>2, Zenon DEF DeviceStates
  <2>4. /\ seen' \in DeviceStates /\ seen'.known /\ seen'.manifest = Missing /\ seen'.certs = {}
        /\ seen'.epoch = seen.epoch /\ seen'.revision = seen.revision
        /\ seen'.digest = seen.digest /\ seen'.revs = seen.revs
    <3> HIDE DEF e, t, H
    <3> QED BY <1>1, <2>1, <2>2, ZenonT(60) DEF DeviceStates
  <2> QED BY <2>3, <2>4, Zenon
<1>12. ~seen'.manifest.present BY <1>11 DEF Missing
<1>13. Cardinality(Remembered(seen')) <= MaxUsedIds
  <2>1. Remembered(seen') = Remembered(seen) \cup k BY <1>10, <1>11, ZenonT(60) DEF Remembered
  <2>2. Remembered(seen) \subseteq CertIds BY <1>1, HistoryShape, Zenon DEF Remembered
  <2>3. IsFiniteSet(Remembered(seen)) /\ IsFiniteSet(k) BY <1>4, <2>2, CertificatesAreFinite, ZenonT(60)
  <2>4. Cardinality(Remembered(seen) \cup k) = Cardinality(Remembered(seen)) + Cardinality(k) - Cardinality(Remembered(seen) \cap k)
    BY <2>3, FS_Union, Zenon
  <2>5. Cardinality(Remembered(seen) \cap k) = 0 BY <1>4, FS_EmptySet, Zenon
  <2>6. Cardinality(Remembered(seen)) \in Nat /\ Cardinality(k) \in Nat BY <2>3, FS_CardinalityType, ZenonT(60)
  <2>7. Cardinality(k) <= room BY <1>2, <2>6, EpochsAreNumbers
  <2> QED BY <2>1, <2>4, <2>5, <2>6, <2>7, EpochsAreNumbers
<1>14. RevisionsAreSafe' BY <1>1, <1>3, <1>11, <1>13, VerifierStep, ZenonT(60)
<1>15. \A g, h \in seen'.history : g[1] = h[1] => g[2] = h[2]
  <2>1. \A h \in seen.history : h[1] \in Remembered(seen) BY Zenon DEF Remembered
  <2>2. \A g, h \in seen.history : g[1] = h[1] => g[2] = h[2] BY Zenon DEF SeenIsConsistent
  <2> QED BY <1>4, <1>8, <1>11, <2>1, <2>2, ZenonT(60)
<1>16. \A h \in seen'.history : h[2] # Tombstone => h[2].id = h[1] /\ h[2].epoch <= seen'.epoch
  BY <1>8, <1>11, Zenon DEF SeenIsConsistent
<1>17. ASSUME NEW i \in told'
       PROVE  seen'.exhausted \/ \E h \in seen'.history : h[1] = i
  <2>1. CASE i \in told BY <1>11, <2>1, ZenonT(60) DEF SeenIsConsistent
  <2>2. CASE i \in Remembered(seen) BY <1>11, <2>2, Zenon DEF Remembered
  <2>3. CASE i \in fresh
    <3>1. CASE k # fresh BY <1>11, <3>1, ZenonT(60)
    <3>2. CASE k = fresh
      <4> DEFINE h == <<i, Tombstone>>
      <4>1. h \in seen'.history /\ h[1] = i BY <1>9, <1>11, <2>3, <3>2
      <4> HIDE DEF h
      <4> QED BY <4>1, ZenonT(60)
    <3> QED BY <3>1, <3>2, Zenon
  <2> QED BY <1>5, <2>1, <2>2, <2>3, ZenonT(60)
<1>18. SeenIsConsistent' BY <1>11, <1>12, <1>15, <1>16, <1>17, ZenonT(60) DEF SeenIsConsistent, storeVars
<1>19. restored
  <2> SUFFICES ASSUME ~restored PROVE FALSE BY Zenon
  <2>1. seen.manifest.present BY Zenon DEF SeenIsHonest
  <2>2. seen.digest \in returned /\ seen.epoch = seen.digest.epoch /\ seen.revision = seen.digest.revision
    BY Zenon DEF SeenIsConsistent
  <2>3. m = seen.digest BY <1>1, <2>2, Zenon DEF RevisionsAreSafe, RevisionOnce, Conflicts
  <2> QED BY <2>1, <2>3, Zenon DEF Conflicts
<1>20. SeenIsHonest' BY <1>19, ZenonT(60) DEF SeenIsHonest, storeVars
<1>21. seen.issued <= seen'.issued
  <2>1. seen.issued \in Nat BY <1>1, Zenon DEF DeviceStates
  <2> QED BY <1>3, <1>11, <2>1
<1> QED BY <1>11, <1>12, <1>14, <1>18, <1>20, <1>21, ZenonT(60)

\* What the verifier knows does not depend on what the issuer does next.
LEMMA SeenStays ==
  ASSUME SeenIsConsistent, SeenIsHonest, UNCHANGED verifierVars, returned \subseteq returned', restored => restored'
  PROVE  SeenIsConsistent' /\ SeenIsHonest'
<1>1. SeenIsConsistent' BY ZenonT(60) DEF SeenIsConsistent, verifierVars
<1>2. SeenIsHonest' BY Zenon DEF SeenIsHonest, verifierVars
<1> QED BY <1>1, <1>2, Zenon

AuthorityInvariant == RevisionsAreSafe /\ SeenIsConsistent /\ SeenIsHonest

\* The invariant holds initially.
LEMMA AuthorityStarts == AuthInit => AuthorityInvariant
<1> SUFFICES ASSUME AuthInit PROVE AuthorityInvariant BY ZenonT(60)
<1>1. NewStore \in StoreStates /\ NewStore.current = Missing /\ NewStore.pending = Missing /\ NewStore.used = {}
  BY EpochsAreNumbers DEF NewStore, StoreStates
<1>2. FileSound(NewStore) BY <1>1, FS_EmptySet, EpochsAreNumbers DEF FileSound, StateReadable, Missing
<1>3. AuthorityTypeOK BY <1>1, ZenonT(60) DEF AuthInit, AuthorityTypeOK, Closed, Idle
<1>4. ~store.open /\ ~seen.known /\ call = Idle BY ZenonT(60) DEF AuthInit, Closed, Unknown
<1>5. StoreReadable BY <1>2, <1>4, ZenonT(60) DEF AuthInit, StoreReadable
<1>6. FileCoversHistory BY <1>4 DEF AuthInit, FileCoversHistory, Covers, Idle
<1>7. SeenIsConsistent /\ SeenIsHonest BY <1>4, Zenon DEF AuthInit, SeenIsConsistent, SeenIsHonest
<1> QED BY <1>3, <1>5, <1>6, <1>7, ZenonT(60) DEF AuthInit, AuthorityInvariant, RevisionsAreSafe, RevisionOnce, RevocationsKept

\* One step of the verifier's acceptance.
LEMMA AcceptOK ==
  ASSUME AuthorityInvariant, NEW m \in returned, NEW now \in ClockTime, AcceptManifest(m, now)
  PROVE  /\ AuthorityInvariant'
         /\ seen.known =>
              /\ AtMost(seen.epoch, seen.revision, seen'.epoch, seen'.revision)
              /\ seen.issued <= seen'.issued
              /\ ~seen.manifest.present => ~seen'.manifest.present \/ seen'.epoch > seen.epoch
<1> USE DEF AuthorityInvariant
<1>1. UNCHANGED storeVars /\ told' = told \cup m.revs BY Zenon DEF AcceptManifest
<1>2. m.epoch \in Nat /\ m.revision \in Nat /\ m.issued \in Nat
  BY EpochsAreNumbers, ZenonT(60) DEF RevisionsAreSafe, AuthorityTypeOK, Manifests
<1>3. seen.known => seen.epoch \in Nat /\ seen.revision \in Nat /\ seen.issued \in Nat
  BY SeenShape, EpochsAreNumbers, ZenonT(60) DEF RevisionsAreSafe, DeviceStates
<1>4. CASE seen.known /\ Conflicts(seen, m) /\ seen' \in Quarantined(seen, m)
  BY <1>1, <1>3, <1>4, QuarantineOK DEF AtMost
<1> DEFINE d == IF seen.known THEN seen ELSE FreshDevice(m)
<1>5. CASE (seen.known => NewerThan(seen, m)) /\ NextStateValid(d, m, now) /\ seen' = NextState(d, m, now)
  <2>1. AuthorityInvariant' BY <1>1, <1>5, TakeOK, ZenonT(60)
  <2>2. seen'.epoch = m.epoch /\ seen'.revision = m.revision /\ seen'.issued = m.issued
    BY <1>5, Zenon DEF NextState
  <2>3. seen.known => seen.issued <= m.issued BY <1>2, <1>3, <1>5, ZenonT(60) DEF NextStateValid
  <2> QED BY <1>2, <1>3, <1>5, <2>1, <2>2, <2>3 DEF NewerThan, AtMost
<1> QED BY <1>4, <1>5, Zenon DEF AcceptManifest

\* Every step keeps the invariant.
LEMMA AuthorityStep ==
  AuthorityInvariant /\ [AuthNext]_authVars => AuthorityInvariant'
<1> SUFFICES ASSUME AuthorityInvariant, [AuthNext]_authVars PROVE AuthorityInvariant' BY Zenon
<1> USE DEF AuthorityInvariant
<1>1. CASE OpenStore BY <1>1, OpenStoreOK, SeenStays, Zenon DEF OpenStore
<1>2. CASE Sign BY <1>2, SignOK, SeenStays, Zenon DEF Sign
<1>3. CASE Commit
  <2>1. returned \subseteq returned' /\ UNCHANGED <<restored, verifierVars>> BY <1>3, Zenon DEF Commit
  <2> QED BY <1>3, <2>1, CommitOK, SeenStays, Zenon
<1>4. CASE ProcessEnds \/ PowerLoss \/ RestoreDirectory
  <2>1. UNCHANGED <<returned, verifierVars>> /\ (restored => restored')
    BY <1>4 DEF ProcessEnds, PowerLoss, RestoreDirectory
  <2> QED BY <1>4, <2>1, EndingsOK, SeenStays, ZenonT(60)
<1>5. ASSUME NEW add \in SUBSET Certificate, NEW revoke \in SUBSET CertIds,
             NEW advance \in BOOLEAN, NEW t \in ClockTime, Reserve(add, revoke, advance, t)
      PROVE  AuthorityInvariant'
  BY <1>5, ReserveOK, SeenStays, Zenon DEF Reserve
<1>6. ASSUME NEW m \in returned, NEW now \in ClockTime, AcceptManifest(m, now)
      PROVE  AuthorityInvariant'
  BY <1>6, AcceptOK, Zenon
<1>7. CASE UNCHANGED authVars
  <2>1. UNCHANGED storeVars /\ UNCHANGED verifierVars BY <1>7, ZenonT(60) DEF authVars, storeVars, verifierVars
  <2>2. RevisionsAreSafe' BY <2>1, ZenonT(60) DEF RevisionsAreSafe, AuthorityTypeOK, StoreReadable, RevisionOnce,
          RevocationsKept, FileCoversHistory, storeVars, verifierVars
  <2> QED BY <2>1, <2>2, SeenStays, ZenonT(60) DEF storeVars
<1> QED BY <1>1, <1>2, <1>3, <1>4, <1>5, <1>6, <1>7, ZenonT(60) DEF AuthNext

\* The inductive invariant holds in every reachable state.
LEMMA AuthorityInvariantHolds == AuthSpec => []AuthorityInvariant
BY AuthorityStarts, AuthorityStep, PTL DEF AuthSpec

\* Whatever fails between reserve, sign and commit, for every number of
\* certificates, revisions and power losses: the file of a FileRevisionStore
\* opens again, the device never signs a revision with two contents, and the
\* manifests it returned only add revocations within an epoch, unless its
\* directory was replaced by an older one.
THEOREM RevisionsAlwaysSafe == AuthSpec => []RevisionsAreSafe
BY AuthorityInvariantHolds, PTL DEF AuthorityInvariant

\* A verifier that took any subset of an issuer's manifests refuses no later
\* one, and an id it was told is revoked never becomes usable, in a quarantine
\* and after it too (AuthorityVerifier::accept, next_state, usable).
THEOREM VerifierAlwaysSafe == AuthSpec => []VerifierIsSafe
<1>1. AuthorityInvariant => VerifierIsSafe
  BY HonestFollows, RevokedFollows, Zenon DEF AuthorityInvariant, RevisionsAreSafe, VerifierIsSafe
<1> QED BY <1>1, AuthorityInvariantHolds, PTL

\* The verifier's watermark and issue time never fall, and a quarantine ends
\* only with a higher epoch.
THEOREM VerifierOnlyMovesForward == AuthSpec => VerifierNeverReturns
<1> DEFINE Forward ==
      seen.known =>
         /\ AtMost(seen.epoch, seen.revision, seen'.epoch, seen'.revision)
         /\ seen.issued <= seen'.issued
         /\ ~seen.manifest.present =>
              ~seen'.manifest.present \/ seen'.epoch > seen.epoch
<1>1. ASSUME AuthorityInvariant, [AuthNext]_authVars PROVE [Forward]_authVars
  <2>1. CASE UNCHANGED verifierVars
    <3>1. seen.known => seen.epoch \in Nat /\ seen.revision \in Nat /\ seen.issued \in Nat
      BY <1>1, SeenShape, EpochsAreNumbers, ZenonT(60) DEF AuthorityInvariant, RevisionsAreSafe, DeviceStates
    <3> QED BY <2>1, <3>1 DEF AtMost, verifierVars
  <2>2. ASSUME NEW m \in returned, NEW now \in ClockTime, AcceptManifest(m, now)
        PROVE  Forward
    BY <1>1, <2>2, AcceptOK, ZenonT(60)
  <2>3. (\E m \in returned, now \in ClockTime : AcceptManifest(m, now)) \/ UNCHANGED verifierVars
    BY <1>1, ZenonT(60) DEF AuthNext, OpenStore, Sign, Commit, ProcessEnds, PowerLoss, RestoreDirectory, Reserve,
                authVars, verifierVars
  <2> QED BY <2>1, <2>2, <2>3, ZenonT(60)
<1>2. AuthorityInvariant /\ [AuthNext]_authVars => [Forward]_authVars BY <1>1
<1> QED BY <1>2, AuthorityInvariantHolds, PTL DEF AuthSpec, VerifierNeverReturns
=============================================================================
