----------------------------- MODULE Authority -----------------------------
(***************************************************************************)
(* Device-certified keys: the durable revision store of the issuing        *)
(* device, the typed update that reserves, signs and commits a manifest,   *)
(* and the verifier that remembers one device's manifests.                 *)
(*   - authority.rs, authority/codec.rs: certificates, contents, manifests *)
(*   - authority/update.rs: AuthorityUpdate::apply                         *)
(*   - authority/revision_store.rs: FileRevisionStore                      *)
(*   - authority/verifier.rs: AuthorityVerifier                            *)
(*                                                                         *)
(* The state file is replaced by rename: `visible` is what the directory   *)
(* shows, `durable` what a power loss leaves.  They differ only after a    *)
(* rename whose directory sync failed.  Service adverts ride along         *)
(* unexamined and are left out, and so is previous_revocations, which the  *)
(* verifier writes and never reads.  A digest stands for its content.      *)
(***************************************************************************)
EXTENDS Integers, FiniteSets

CONSTANTS
    Certificate,     \* candidate certificates, valid and not
    ThisDevice,      \* the hive and device the store is bound to
    MaxCertificates, \* MAX_CERTIFICATES
    MaxRevocations,  \* MAX_REVOCATIONS
    MaxUsedIds,      \* MAX_USED_IDS
    MaxLifetime,     \* MAX_CERTIFICATE_LIFETIME
    UpdateInterval,  \* next_update - issued_at chosen by the owner
    StatusAge,       \* max_status_age chosen by the consumer
    FutureSkew,      \* the five-minute tolerance on ingest
    AuthorityEnd,         \* bound: clock readings are 0..AuthorityEnd
    MaxEpoch,        \* u64::MAX for epochs
    MaxRevision,     \* u64::MAX for revisions
    MaxSigned        \* bound: signatures the device makes

\* What read_certificate makes of an encoded certificate.
CertificateRecord(c) == {c.epoch, c.from, c.until} \subseteq Nat

\* What stands for an id that no certificate may use again.
Tombstone == [tombstone |-> TRUE]

ASSUME AuthorityAssumption ==
    /\ {MaxCertificates, MaxRevocations, MaxUsedIds, MaxLifetime,
        UpdateInterval, StatusAge, FutureSkew, AuthorityEnd, MaxEpoch,
        MaxRevision, MaxSigned} \subseteq Nat
    /\ IsFiniteSet(Certificate) /\ Tombstone \notin Certificate
    /\ \A c \in Certificate : CertificateRecord(c)

VARIABLES
    visible,   \* authority.state as the directory shows it
    durable,   \* authority.state as a power loss would leave it
    store,     \* the open FileRevisionStore, or Closed
    call,      \* the apply call in progress
    signed,    \* every content the device key has signed
    returned,  \* every manifest apply returned to its caller
    restored,  \* whether the directory was once lost or restored
    seen,      \* the verifier's DeviceState, or Unknown
    told       \* ids some manifest the verifier took has revoked

storeVars    == <<visible, durable, store, call, signed, returned, restored>>
verifierVars == <<seen, told>>
authVars     == <<visible, durable, store, call, signed, returned, restored,
                  seen, told>>

ClockTime == 0 .. AuthorityEnd
CertIds   == {c.id : c \in Certificate}
Ids(certs) == {c.id : c \in certs}
Idle      == [stage |-> "idle"]
Closed    == [open |-> FALSE]
Unknown   == [known |-> FALSE]
Missing   == [present |-> FALSE]

(* The validity rules of the records *)

ClaimsValid(c) == c.from <= c.until /\ c.until - c.from <= MaxLifetime

KeyPossessed(c) == ClaimsValid(c) /\ c.prover = c.subject

Issued(c, epoch) == c.issuer = ThisDevice /\ c.epoch = epoch

RevocationsValid(ids) == Cardinality(ids) <= MaxRevocations

\* CertifiedKeyRevocations::extends.
Extends(ids, previous) ==
    RevocationsValid(ids) /\ RevocationsValid(previous) /\ previous \subseteq ids

ContentValid(m) ==
    /\ m.revision # 0
    /\ Cardinality(m.certs) <= MaxCertificates
    /\ RevocationsValid(m.revs)
    /\ Cardinality(Ids(m.certs)) = Cardinality(m.certs)
    /\ \A c \in m.certs :
         KeyPossessed(c) /\ c.epoch = m.epoch /\ c.id \notin m.revs

\* read_content: what an encoded manifest can hold.
ManifestRecord(m) ==
    /\ m.epoch \in 0..MaxEpoch /\ m.revision \in 1..MaxRevision /\ m.issued \in Nat
    /\ m.certs \subseteq Certificate /\ Cardinality(m.certs) <= MaxCertificates
    /\ RevocationsValid(m.revs)

ManifestVerifies(m) ==
    ContentValid(m) /\ \A c \in m.certs : Issued(c, m.epoch)

(* The revision store *)

NewStore == [epoch |-> 0, revision |-> 0, current |-> Missing,
             used |-> {}, pending |-> Missing]

AtMost(e, r, f, s) == e < f \/ (e = f /\ r <= s)

\* decode_state: what a state file must satisfy to be opened at all.
StateReadable(s) ==
    s.current.present =>
        /\ ManifestVerifies(s.current)
        /\ AtMost(s.current.epoch, s.current.revision, s.epoch, s.revision)
        /\ Ids(s.current.certs) \cup s.current.revs \subseteq s.used

\* persist: the write fails, or the rename is done but its directory sync
\* fails, or both are done.  Only the last leaves the handle usable.
Persist(s, done) ==
    \/ /\ ~done
       /\ visible' \in {visible, s}
       /\ durable' = durable
    \/ /\ done
       /\ visible' = s
       /\ durable' = s

Poisoned  == [store EXCEPT !.poisoned = TRUE]
Holding(s) == [open |-> TRUE, poisoned |-> FALSE, state |-> s]

\* A reservation found in the file is consumed before the store is handed out.
Burnt(s) == [s EXCEPT !.pending = Missing]

OpenStore ==
    /\ ~store.open
    /\ StateReadable(visible)
    /\ \/ /\ ~visible.pending.present
          /\ store' = Holding(visible)
          /\ UNCHANGED <<visible, durable>>
       \/ /\ visible.pending.present
          /\ \E done \in BOOLEAN :
               /\ Persist(Burnt(visible), done)
               /\ store' = IF done THEN Holding(Burnt(visible)) ELSE Closed
    /\ UNCHANGED <<call, signed, returned, restored, verifierVars>>

OldEpoch(current) == IF current.present THEN current.epoch ELSE 0

\* A fault: a revision is drawn from the committed head, not the reservations.
Revisions_Committed(s, epoch) ==
    IF s.current.present /\ epoch = s.current.epoch
    THEN s.current.revision + 1 ELSE 1

Revisions(s, epoch) == IF epoch = s.epoch THEN s.revision + 1 ELSE 1

ReserveValid(s, current, p) ==
    /\ ~store.poisoned
    /\ current = s.current
    /\ current.present => ManifestVerifies(current)
    /\ ContentValid(p)
    /\ p.epoch >= s.epoch
    /\ p.epoch \in OldEpoch(current) .. OldEpoch(current) + 1
    /\ current.present => p.issued >= current.issued
    /\ (current.present /\ p.epoch = current.epoch) =>
         Extends(p.revs, current.revs)
    /\ \A c \in p.certs :
         /\ c.issuer = ThisDevice
         /\ c.id \in s.used => current.present /\ c \in current.certs
    /\ Cardinality(s.used \cup Ids(p.certs) \cup p.revs) <= MaxUsedIds
    /\ Revisions(s, p.epoch) <= MaxRevision

(* AuthorityUpdate::apply *)

\* The content an update makes of its predecessor, revision not yet drawn.
Proposed(current, add, revoke, advance, t) ==
    LET kept == current.present /\ ~advance
        revs == (IF kept THEN current.revs ELSE {}) \cup revoke
    IN [present |-> TRUE,
        epoch |-> OldEpoch(current) + (IF advance THEN 1 ELSE 0),
        revision |-> 1, issued |-> t, certs |-> add \cup
          {c \in IF kept THEN current.certs ELSE {} : c.id \notin revs},
        revs |-> revs]

UpdateValid(current, add, revoke, advance, t) ==
    LET p == Proposed(current, add, revoke, advance, t)
    IN /\ Cardinality(add) <= MaxCertificates
       /\ Cardinality(revoke) <= MaxRevocations
       /\ advance => revoke = {}
       /\ current.present => ManifestVerifies(current) /\ t >= current.issued
       /\ p.epoch <= MaxEpoch
       /\ \A c \in add :
            /\ KeyPossessed(c)
            /\ Issued(c, p.epoch)
            /\ c.id \notin p.revs
            /\ current.present =>
                 c.id \notin Ids(current.certs) \cup current.revs
       /\ ContentValid(p)

Reserved(s, p) ==
    LET q == [p EXCEPT !.revision = Revisions(s, p.epoch)]
    IN [s EXCEPT !.epoch = q.epoch, !.revision = q.revision,
                 !.used = @ \cup Ids(q.certs) \cup q.revs, !.pending = q]

Reserve(add, revoke, advance, t) ==
    /\ store.open /\ call = Idle
    /\ Cardinality(signed) < MaxSigned
    /\ LET current == store.state.current
           p == Proposed(current, add, revoke, advance, t)
           s == Reserved(store.state, p)
       IN /\ UpdateValid(current, add, revoke, advance, t)
          /\ ReserveValid(store.state, current, p)
          /\ \E done \in BOOLEAN :
               /\ Persist(s, done)
               /\ store' = IF done THEN Holding(s) ELSE Poisoned
               /\ call' = IF done
                          THEN [stage |-> "reserved", content |-> s.pending]
                          ELSE Idle
    /\ UNCHANGED <<signed, returned, restored, verifierVars>>

\* The signer may fail; the reservation is then burnt.
Sign ==
    /\ call.stage = "reserved"
    /\ \/ /\ signed' = signed \cup {call.content}
          /\ call' = [call EXCEPT !.stage = "signed"]
       \/ /\ UNCHANGED signed
          /\ call' = Idle
    /\ UNCHANGED <<visible, durable, store, returned, restored, verifierVars>>

Committed(s, m) == [s EXCEPT !.current = m, !.pending = Missing]

Commit ==
    /\ call.stage = "signed"
    /\ ~store.poisoned
    /\ ManifestVerifies(call.content)
    /\ store.state.pending = call.content
    /\ LET s == Committed(store.state, call.content)
       IN \E done \in BOOLEAN :
            /\ Persist(s, done)
            /\ store' = IF done THEN Holding(s) ELSE Poisoned
            /\ returned' = IF done THEN returned \cup {call.content}
                                   ELSE returned
    /\ call' = Idle
    /\ UNCHANGED <<signed, restored, verifierVars>>

\* The process ends, in the middle of a call or not; the lock goes with it.
ProcessEnds ==
    /\ store.open
    /\ store' = Closed
    /\ call' = Idle
    /\ UNCHANGED <<visible, durable, signed, returned, restored, verifierVars>>

\* An unsynced rename may or may not survive the loss of power.
PowerLoss ==
    /\ \E s \in {visible, durable} : visible' = s /\ durable' = s
    /\ store' = Closed
    /\ call' = Idle
    /\ UNCHANGED <<signed, returned, restored, verifierVars>>

\* The case the store says it does not defend against: its directory is
\* replaced by an older one.  Here it is lost, the oldest copy of all.
RestoreDirectory ==
    /\ ~store.open /\ ~restored
    /\ visible' = NewStore /\ durable' = NewStore
    /\ restored' = TRUE
    /\ UNCHANGED <<store, call, signed, returned, verifierVars>>

(* AuthorityVerifier *)

FreshDevice(m) ==
    [known |-> TRUE, epoch |-> m.epoch, revision |-> 0, issued |-> m.issued,
     digest |-> m, manifest |-> Missing, certs |-> {}, history |-> {},
     exhausted |-> FALSE, revs |-> {}]

\* history pairs an id with the certificate, or tombstone, it stands for.
Remembered(d) == {h[1] : h \in d.history}

Tombs(d, ids) == {<<i, Tombstone>> : i \in ids \ Remembered(d)}

Kept(d, m, now) ==
    {c \in IF m.epoch = d.epoch THEN d.certs ELSE {} :
       c.until >= now /\ c.id \notin m.revs}
    \cup {c \in m.certs : c.until >= now}

\* A fault: an id is not compared with what it stood for before.
NextStateValid_Reuse(d, m, now) ==
    /\ ~d.exhausted
    /\ m.issued >= d.issued
    /\ m.epoch = d.epoch => Extends(m.revs, d.revs)

NextStateValid(d, m, now) ==
    /\ ~d.exhausted
    /\ m.issued >= d.issued
    /\ m.epoch = d.epoch => Extends(m.revs, d.revs)
    /\ \A c \in m.certs : \A h \in d.history : h[1] = c.id => h[2] = c
    /\ Cardinality(Remembered(d) \cup Ids(m.certs) \cup m.revs) <= MaxUsedIds
    /\ Cardinality(Kept(d, m, now)) <= MaxCertificates

NextState(d, m, now) ==
    LET certified == d.history \cup {<<c.id, c>> : c \in m.certs}
    IN [known |-> TRUE, epoch |-> m.epoch, revision |-> m.revision,
        issued |-> m.issued, digest |-> m, manifest |-> m,
        certs |-> Kept(d, m, now),
        history |-> certified \cup
          Tombs([d EXCEPT !.history = certified], m.revs),
        exhausted |-> d.exhausted, revs |-> m.revs]

\* A fault: the issue time becomes that of the conflicting manifest.
Quarantined_Latest(d, m) ==
    {[d EXCEPT !.manifest = Missing, !.certs = {}, !.issued = m.issued,
               !.history = @ \cup Tombs(d, (Ids(m.certs) \cup m.revs) \ Remembered(d))]}

\* The ids of the conflicting manifest are remembered while there is room.
Quarantined(d, m) ==
    LET fresh == (Ids(m.certs) \cup m.revs) \ Remembered(d)
        room == MaxUsedIds - Cardinality(Remembered(d))
    IN {[d EXCEPT !.manifest = Missing, !.certs = {},
                  !.issued = IF m.issued > @ THEN m.issued ELSE @,
                  !.history = @ \cup Tombs(d, kept),
                  !.exhausted = @ \/ kept # fresh] :
          kept \in {k \in SUBSET fresh :
                      \/ k = fresh /\ Cardinality(k) <= room
                      \/ Cardinality(fresh) > room /\ Cardinality(k) = room}}

Older(d, m) ==
    AtMost(m.epoch, m.revision, d.epoch, d.revision)
      /\ ~(m.epoch = d.epoch /\ m.revision = d.revision)

Conflicts(d, m) ==
    /\ m.epoch = d.epoch /\ m.revision = d.revision
    /\ m # d.digest \/ ~d.manifest.present

NewerThan(d, m) ==
    /\ ~AtMost(m.epoch, m.revision, d.epoch, d.revision)
    /\ m.epoch = d.epoch => d.manifest.present

AcceptManifest(m, now) ==
    /\ m \in returned
    /\ ManifestVerifies(m)
    /\ LET d == IF seen.known THEN seen ELSE FreshDevice(m)
       IN \/ /\ seen.known
             /\ Conflicts(seen, m)
             /\ seen' \in Quarantined(seen, m)
          \/ /\ seen.known => NewerThan(seen, m)
             /\ m.issued <= now + FutureSkew
             /\ NextStateValid(d, m, now)
             /\ seen' = NextState(d, m, now)
    /\ told' = told \cup m.revs
    /\ UNCHANGED storeVars

\* usable: the freshness intersection under which a certificate is returned.
Usable(d, c, now) ==
    /\ d.known /\ d.manifest.present
    /\ d.manifest.issued <= now
    /\ now <= d.manifest.issued + UpdateInterval
    /\ now - d.manifest.issued <= StatusAge
    /\ c.id \notin d.manifest.revs
    /\ c \in d.certs
    /\ c.epoch = d.manifest.epoch
    /\ c.from <= now /\ now <= c.until

AuthInit ==
    /\ visible = NewStore /\ durable = NewStore
    /\ store = Closed /\ call = Idle
    /\ signed = {} /\ returned = {} /\ restored = FALSE
    /\ seen = Unknown /\ told = {}

AuthNext ==
    \/ OpenStore \/ Sign \/ Commit \/ ProcessEnds \/ PowerLoss \/ RestoreDirectory
    \/ \E add \in SUBSET Certificate, revoke \in SUBSET CertIds,
          advance \in BOOLEAN, t \in ClockTime : Reserve(add, revoke, advance, t)
    \/ \E m \in returned, now \in ClockTime : AcceptManifest(m, now)

AuthSpec == AuthInit /\ [][AuthNext]_authVars

-----------------------------------------------------------------------------

Manifests ==
    [present : {TRUE}, epoch : 0..MaxEpoch, revision : Nat, issued : Nat,
     certs : SUBSET Certificate, revs : SUBSET CertIds]
StoreStates ==
    [epoch : 0..MaxEpoch, revision : Nat, current : Manifests \cup {Missing},
     used : SUBSET CertIds, pending : Manifests \cup {Missing}]
DeviceStates ==
    [known : {TRUE}, epoch : 0..MaxEpoch, revision : Nat, issued : Nat, digest : Manifests,
     manifest : Manifests \cup {Missing}, certs : SUBSET Certificate,
     history : SUBSET (CertIds \X (Certificate \cup {Tombstone})), exhausted : BOOLEAN, revs : SUBSET CertIds]

\* Every variable has its type, a call belongs to the store that reserved for
\* it, and what was returned was signed.
AuthorityTypeOK ==
    /\ {visible, durable} \subseteq StoreStates
    /\ store \in {Closed} \cup [open : {TRUE}, poisoned : BOOLEAN, state : StoreStates]
    /\ call \in {Idle} \cup [stage : {"reserved", "signed"}, content : Manifests]
    /\ signed \subseteq Manifests /\ returned \subseteq signed /\ restored \in BOOLEAN
    /\ seen \in {Unknown} \cup DeviceStates /\ told \subseteq CertIds
    /\ store.open /\ ~store.poisoned => store.state = visible
    /\ call # Idle => store.open /\ ~store.poisoned
    /\ call.stage = "signed" => call.content \in signed

\* A state file of the store: it opens again, and what it reserves sits at the
\* watermark and among the used ids.
FileSound(s) ==
    /\ StateReadable(s)
    /\ Cardinality(s.used) <= MaxUsedIds
    /\ s.pending.present =>
         /\ ManifestRecord(s.pending)
         /\ s.pending.epoch = s.epoch /\ s.pending.revision = s.revision
         /\ Ids(s.pending.certs) \cup s.pending.revs \subseteq s.used

\* The committed head never runs ahead of the watermark, every state file the
\* store ever leaves behind can be opened again by decode_state, and everything
\* that was signed or is reserved can be encoded and verifies.
StoreReadable ==
    /\ FileSound(visible) /\ FileSound(durable)
    /\ store.open => StateReadable(store.state)
    /\ seen.known => Cardinality(Remembered(seen)) <= MaxUsedIds
    /\ \A m \in signed : ManifestRecord(m)
    /\ \A m \in returned : ManifestVerifies(m)
    /\ call # Idle => visible.pending.present /\ call.content = visible.pending /\ durable = visible

\* A revision is never signed twice with different contents, whatever fails
\* between the reservation, the signature and the commit (apply, reserve, open),
\* as long as the directory was not replaced by an older one.
RevisionOnce ==
    ~restored => \A m, n \in signed :
        (m.epoch = n.epoch /\ m.revision = n.revision) => m = n

\* Manifests handed to the owner only ever add revocations within an epoch and
\* never go back in time, even when a commit was lost and redone (reserve).
RevocationsKept ==
    ~restored => \A m, n \in returned :
        /\ (m.epoch = n.epoch /\ m.revision <= n.revision) =>
             m.revs \subseteq n.revs
        /\ AtMost(m.epoch, m.revision, n.epoch, n.revision) =>
             m.issued <= n.issued

\* Issuer and verifier agree on the rules: whatever subset of an issuer's
\* manifests a verifier has taken, it refuses no later one for reuse, rollback
\* or a full history (next_state against reserve).
HonestManifestTaken ==
    (~restored /\ seen.known) =>
        \A m \in returned, now \in ClockTime :
            NewerThan(seen, m) => NextStateValid(seen, m, now)

\* An id that any manifest the verifier took or quarantined has revoked never
\* becomes usable again, in that epoch or a later one (history, tombstones).
RevokedNeverUsable ==
    \A c \in Certificate, now \in ClockTime :
        Usable(seen, c, now) => c.id \notin told

\* The verifier's watermark and issue time never fall, and a quarantine ends
\* only with a higher epoch (accept, quarantine).
VerifierNeverReturns ==
    [][seen.known =>
         /\ AtMost(seen.epoch, seen.revision, seen'.epoch, seen'.revision)
         /\ seen.issued <= seen'.issued
         /\ ~seen.manifest.present =>
              ~seen'.manifest.present \/ seen'.epoch > seen.epoch]_authVars

\* What a later manifest n of the issuer owes to an earlier one m: within an
\* epoch it only adds revocations and drops no certificate it does not revoke,
\* it is not issued before m, and an id keeps its meaning.
Succeeds(m, n) ==
    /\ AtMost(m.epoch, m.revision, n.epoch, n.revision)
    /\ m.issued <= n.issued
    /\ m.epoch = n.epoch =>
         m.revs \subseteq n.revs /\ \A c \in m.certs : c \in n.certs \/ c.id \in n.revs
    /\ \A c \in n.certs : c.id \in Ids(m.certs) \cup m.revs => c \in m.certs

Ahead(n, m) == ~AtMost(n.epoch, n.revision, m.epoch, m.revision)

\* A state file that no power loss takes back: its watermark covers every
\* signature, its head succeeds every manifest the owner has.
Covers(s, made, given) ==
    /\ \A m \in made : AtMost(m.epoch, m.revision, s.epoch, s.revision)
    /\ \A m \in given :
         /\ s.current.present /\ Succeeds(m, s.current)
         /\ Ids(m.certs) \cup m.revs \subseteq s.used

\* Both copies of the file cover everything signed and returned, a reservation
\* is ahead of both, and the manifests the owner has succeed one another.
FileCoversHistory ==
    ~restored =>
        /\ Covers(visible, signed, returned) /\ Covers(durable, signed, returned)
        /\ call.stage = "reserved" => \A m \in signed : Ahead(call.content, m)
        /\ call # Idle => \A m \in returned : Succeeds(m, call.content) /\ Ahead(call.content, m)
        /\ \A m, n \in returned : AtMost(m.epoch, m.revision, n.epoch, n.revision) => Succeeds(m, n)

\* What the verifier holds comes from the last manifest it took: an id stands
\* for one certificate or for none, and a revoked one is a tombstone, of an
\* earlier epoch, or revoked in this one, unless a quarantine hides it.
SeenIsConsistent ==
    /\ ~seen.known => told = {}
    /\ seen.known =>
        /\ seen.digest \in returned
        /\ seen.epoch = seen.digest.epoch /\ seen.revision = seen.digest.revision /\ seen.revs = seen.digest.revs
        /\ seen.manifest.present =>
             seen.manifest = seen.digest /\ seen.issued = seen.digest.issued /\ ~seen.exhausted
        /\ ~seen.manifest.present => seen.certs = {}
        /\ \A c \in seen.certs : <<c.id, c>> \in seen.history
        /\ \A g, h \in seen.history : g[1] = h[1] => g[2] = h[2]
        /\ \A h \in seen.history : h[2] # Tombstone => h[2].id = h[1] /\ h[2].epoch <= seen.epoch
        /\ \A i \in told :
             \/ seen.exhausted
             \/ \E h \in seen.history :
                  h[1] = i /\ (\/ h[2] = Tombstone \/ ~seen.manifest.present
                               \/ h[2].epoch < seen.epoch \/ i \in seen.revs)

\* While the directory was never replaced, the verifier is never in quarantine
\* and everything it remembers was in a manifest up to the one it is at.
SeenIsHonest ==
    (~restored /\ seen.known) =>
        /\ seen.manifest.present
        /\ \A h \in seen.history : \E a \in returned :
             /\ AtMost(a.epoch, a.revision, seen.epoch, seen.revision)
             /\ h[2] \in a.certs \/ (h[2] = Tombstone /\ h[1] \in a.revs)
        /\ \A c \in seen.certs : \E a \in returned :
             a.epoch = seen.epoch /\ a.revision <= seen.revision /\ c \in a.certs

\* What the issuer leaves behind a crash at any point of reserve, sign and
\* commit: a store that opens, no revision with two contents, no revocation
\* that disappears.
RevisionsAreSafe ==
    AuthorityTypeOK /\ StoreReadable /\ RevisionOnce /\ RevocationsKept /\ FileCoversHistory

\* A verifier that missed any of an issuer's manifests takes every later one,
\* and nothing revoked becomes usable by it.
VerifierIsSafe ==
    HonestManifestTaken /\ RevokedNeverUsable /\ SeenIsConsistent /\ SeenIsHonest
=============================================================================
