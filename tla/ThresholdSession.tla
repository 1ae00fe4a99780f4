-------------------------- MODULE ThresholdSession --------------------------
(***************************************************************************)
(* The participants of a threshold root group, each with the sessions it   *)
(* signs in: threshold/session.rs over threshold/session/file_store.rs.    *)
(*                                                                         *)
(* A participant approves a step of the root chain (commit), publishes a   *)
(* commitment to fresh nonces, and later answers one signing package with  *)
(* a share.  Nonces live in memory only.  Every change of a record is a    *)
(* replacement of the whole store, and most calls make two of them; the    *)
(* process may be lost inside each one, which leaves the old or the new    *)
(* store.  Whoever coordinates may send any package at any time.           *)
(*                                                                         *)
(* Left out: what a package holds beyond its identity, the signatures, the *)
(* revision of the store (one process owns it, so it always matches), and  *)
(* the commitment, which a record has from "issued" on.  `permanent` is    *)
(* package # NoPackage (validate_record).                                  *)
(***************************************************************************)
EXTENDS Naturals, FiniteSets

CONSTANTS
    Participant,
    K,              \* the threshold of the group
    Session,        \* session ids
    Step,           \* steps of the root chain
    Predecessor,    \* [Step -> the step's predecessor]
    RecoveryGen,    \* [Step -> the step's recovery generation]
    Role,           \* what the policy may find a signature to mean
    Package,        \* signing packages
    NoStep, NoRole, NoPackage,
    Deadline,       \* DEADLINE_SECONDS
    MaxTime

ASSUME ThresholdAssumption ==
    /\ IsFiniteSet(Participant)
    /\ K \in Nat
    /\ Deadline \in Nat /\ MaxTime \in Nat
    /\ NoStep \notin Step /\ NoRole \notin Role /\ NoPackage \notin Package

VARIABLES
    disk,      \* the stores the next open of each participant may find
    store,     \* the snapshot in memory
    pc,        \* "down", "idle", or the replacement of the store that is running
    at,        \* the session it is for
    next,      \* the store being written
    nonces,    \* the sessions whose nonces are in memory
    shares,    \* history: the shares that were computed
    released   \* history: the shares that a call returned

vars == <<disk, store, pc, at, next, nonces, shares, released>>

Time == 0..MaxTime

Phase == {"absent", "proposed", "committed", "issued", "consumed", "signed", "discarded"}

Record ==
    [phase : Phase, step : Step \cup {NoStep}, role : Role \cup {NoRole}, committed_at : Time,
     package : Package \cup {NoPackage}, cached : Package \cup {NoPackage}]

Store == [last_time : Time, records : [Session -> Record]]

Share == [who : Participant, id : Session, step : Step, role : Role, package : Package]

NoRecord ==
    [phase |-> "absent", step |-> NoStep, role |-> NoRole, committed_at |-> 0,
     package |-> NoPackage, cached |-> NoPackage]

Empty == [last_time |-> 0, records |-> [id \in Session |-> NoRecord]]

ShareOf(i, id, r) == [who |-> i, id |-> id, step |-> r.step, role |-> r.role, package |-> r.package]

\* Signatures with one meaning compete for the same place in the chain.
SameScope(role, s, t) ==
    IF role = "recovery" THEN RecoveryGen[s] = RecoveryGen[t]
                         ELSE Predecessor[s] = Predecessor[t]

-----------------------------------------------------------------------------
(* file_store.rs *)

\* persist has started: the next open finds the old store or the new one.
Write(i, op, id, s) ==
    /\ next' = [next EXCEPT ![i] = s]
    /\ disk' = [disk EXCEPT ![i] = @ \cup {s}]
    /\ pc' = [pc EXCEPT ![i] = op]
    /\ at' = [at EXCEPT ![i] = id]

\* persist returned and the caller is done.
Written(i) ==
    /\ disk' = [disk EXCEPT ![i] = {next[i]}]
    /\ store' = [store EXCEPT ![i] = next[i]]
    /\ pc' = [pc EXCEPT ![i] = "idle"]
    /\ UNCHANGED <<at, next>>

\* persist returned and the caller goes on with another replacement.
WrittenThen(i, op, s) ==
    /\ disk' = [disk EXCEPT ![i] = {next[i], s}]
    /\ store' = [store EXCEPT ![i] = next[i]]
    /\ pc' = [pc EXCEPT ![i] = op]
    /\ next' = [next EXCEPT ![i] = s]
    /\ UNCHANGED at

\* The store with one record changed, at time now.
With(s, now, id, r) == [last_time |-> now, records |-> [s.records EXCEPT ![id] = r]]

-----------------------------------------------------------------------------
(* session.rs *)

Init ==
    /\ disk = [i \in Participant |-> {Empty}]
    /\ store = [i \in Participant |-> Empty]
    /\ pc = [i \in Participant |-> "down"]
    /\ at \in [Participant -> Session]
    /\ next = [i \in Participant |-> Empty]
    /\ nonces = [i \in Participant |-> {}]
    /\ shares = {}
    /\ released = {}

\* FileSessionStore::open writes what it has read once more.
Load(i) ==
    /\ pc[i] = "down"
    /\ \E s \in disk[i] :
          /\ store' = [store EXCEPT ![i] = s]
          /\ Write(i, "load", at[i], s)
    /\ UNCHANGED <<nonces, shares, released>>

\* Session::open gives up every record whose nonces the last process had.
Burnt(s) ==
    [last_time |-> s.last_time,
     records |-> [id \in Session |->
        IF s.records[id].phase \in {"absent", "signed", "discarded"} THEN s.records[id]
        ELSE [s.records[id] EXCEPT !.phase = "discarded"]]]

Loaded(i) ==
    /\ pc[i] = "load"
    /\ IF Burnt(next[i]) = next[i] THEN Written(i) ELSE WrittenThen(i, "burn", Burnt(next[i]))
    /\ UNCHANGED <<nonces, shares, released>>

\* The calls that make one replacement: open, propose and discard.
Returned(i) ==
    /\ pc[i] \in {"burn", "propose", "discard"}
    /\ Written(i)
    /\ UNCHANGED <<nonces, shares, released>>

ProposedIn(s, id, step, now) ==
    With(s, now, id, [NoRecord EXCEPT !.phase = "proposed", !.step = step])

Propose(i, id, step, now) ==
    /\ pc[i] = "idle"
    /\ now >= store[i].last_time
    /\ store[i].records[id].phase = "absent"
    /\ Write(i, "propose", id, ProposedIn(store[i], id, step, now))
    /\ UNCHANGED <<store, nonces, shares, released>>

Expired(r, now) == now >= r.committed_at + Deadline

\* The records that the approval of step in this role has to look at.
Competes(s, id, role, prior) ==
    /\ prior # id
    /\ s.records[prior].phase \notin {"absent", "proposed"}
    /\ s.records[prior].role = role
    /\ SameScope(role, s.records[prior].step, s.records[id].step)

\* Faulty variant: the lock of a record that was given up is not looked at.
Blocks_Live(s, id, role, now, prior) ==
    /\ Competes(s, id, role, prior)
    /\ s.records[prior].phase # "discarded"
    /\ s.records[prior].step # s.records[id].step
    /\ s.records[prior].package # NoPackage \/ ~Expired(s.records[prior], now)

Blocks(s, id, role, now, prior) ==
    /\ Competes(s, id, role, prior)
    /\ s.records[prior].step # s.records[id].step
    /\ s.records[prior].package # NoPackage \/ ~Expired(s.records[prior], now)

GivenUp(s, id, role, now) ==
    {prior \in Session :
        /\ Competes(s, id, role, prior)
        /\ Expired(s.records[prior], now)
        /\ s.records[prior].package = NoPackage
        /\ s.records[prior].phase # "discarded"}

Approved(s, id, role, now) ==
    [last_time |-> now,
     records |-> [x \in Session |->
        IF x = id
        THEN [s.records[x] EXCEPT !.phase = "committed", !.role = role, !.committed_at = now]
        ELSE IF x \in GivenUp(s, id, role, now) THEN [s.records[x] EXCEPT !.phase = "discarded"]
        ELSE s.records[x]]]

\* commit, with the policy's review and the owner's presence.
Commit(i, id, role, now) ==
    /\ pc[i] = "idle"
    /\ now >= store[i].last_time
    /\ store[i].records[id].phase = "proposed"
    /\ \A prior \in Session : ~Blocks(store[i], id, role, now, prior)
    /\ Write(i, "commit", id, Approved(store[i], id, role, now))
    /\ nonces' = [nonces EXCEPT ![i] = @ \ GivenUp(store[i], id, role, now)]
    /\ UNCHANGED <<store, shares, released>>

\* A commit that finds a lock or no presence has dropped the nonces of the
\* attempts it met before.
CommitRefused(i, id, role, now) ==
    /\ pc[i] = "idle"
    /\ now >= store[i].last_time
    /\ store[i].records[id].phase = "proposed"
    /\ \E dropped \in SUBSET GivenUp(store[i], id, role, now) :
          /\ (\A prior \in Session : ~Blocks(store[i], id, role, now, prior))
                => dropped = GivenUp(store[i], id, role, now)
          /\ nonces' = [nonces EXCEPT ![i] = @ \ dropped]
    /\ UNCHANGED <<disk, store, pc, at, next, shares, released>>

IssuedIn(s, id) == With(s, s.last_time, id, [s.records[id] EXCEPT !.phase = "issued"])

\* The approval is durable: nonces are drawn and their commitment is stored.
Committed(i) ==
    /\ pc[i] = "commit"
    /\ WrittenThen(i, "issue", IssuedIn(next[i], at[i]))
    /\ UNCHANGED <<nonces, shares, released>>

\* The commitment is durable and goes out.
Issued(i) ==
    /\ pc[i] = "issue"
    /\ Written(i)
    /\ nonces' = [nonces EXCEPT ![i] = @ \cup {at[i]}]
    /\ UNCHANGED <<shares, released>>

MaySign(r, now) ==
    /\ r.package = NoPackage
    /\ r.phase = "issued"
    /\ ~Expired(r, now)

ConsumedIn(s, id, package, now) ==
    With(s, now, id, [s.records[id] EXCEPT !.phase = "consumed", !.package = package])

\* sign: first the nonces are consumed and the lock becomes permanent.
Sign(i, id, package, now) ==
    /\ pc[i] = "idle"
    /\ now >= store[i].last_time
    /\ MaySign(store[i].records[id], now)
    /\ Write(i, "consume", id, ConsumedIn(store[i], id, package, now))
    /\ UNCHANGED <<store, nonces, shares, released>>

CachedIn(s, id) ==
    With(s, s.last_time, id,
         [s.records[id] EXCEPT !.phase = "signed", !.cached = s.records[id].package])

\* Then the share is computed and stored.  Without the nonces there is none.
Consumed(i) ==
    /\ pc[i] = "consume"
    /\ IF at[i] \in nonces[i]
       THEN /\ WrittenThen(i, "cache", CachedIn(next[i], at[i]))
            /\ shares' = shares \cup {ShareOf(i, at[i], next[i].records[at[i]])}
       ELSE Written(i) /\ UNCHANGED shares
    /\ nonces' = [nonces EXCEPT ![i] = @ \ {at[i]}]
    /\ UNCHANGED released

\* Then it is returned.
Signed(i) ==
    /\ pc[i] = "cache"
    /\ Written(i)
    /\ released' = released \cup {ShareOf(i, at[i], next[i].records[at[i]])}
    /\ UNCHANGED <<nonces, shares>>

\* A repeated package is answered from the record.
Repeat(i, id, package, now) ==
    /\ pc[i] = "idle"
    /\ now >= store[i].last_time
    /\ store[i].records[id].package = package
    /\ store[i].records[id].cached # NoPackage
    /\ released' = released \cup {ShareOf(i, id, store[i].records[id])}
    /\ UNCHANGED <<disk, store, pc, at, next, nonces, shares>>

DiscardedIn(s, id, now) == With(s, now, id, [s.records[id] EXCEPT !.phase = "discarded"])

\* discard, by the caller or by a sign that comes too late.  The nonces are
\* gone even if the clock has stepped back and the record stays.
Discard(i, id, now) ==
    /\ pc[i] = "idle"
    /\ nonces' = [nonces EXCEPT ![i] = @ \ {id}]
    /\ IF now >= store[i].last_time /\ store[i].records[id].phase # "absent"
       THEN Write(i, "discard", id, DiscardedIn(store[i], id, now))
       ELSE UNCHANGED <<disk, pc, at, next>>
    /\ UNCHANGED <<store, shares, released>>

\* The process is lost, or a failed write has poisoned it until it is reopened.
Crash(i) ==
    /\ pc[i] # "down"
    /\ pc' = [pc EXCEPT ![i] = "down"]
    /\ nonces' = [nonces EXCEPT ![i] = {}]
    /\ UNCHANGED <<disk, store, at, next, shares, released>>

Call(i, id, now) ==
    \/ \E step \in Step : Propose(i, id, step, now)
    \/ \E role \in Role : Commit(i, id, role, now) \/ CommitRefused(i, id, role, now)
    \/ \E package \in Package : Sign(i, id, package, now) \/ Repeat(i, id, package, now)
    \/ Discard(i, id, now)

Next ==
    \E i \in Participant :
       \/ Load(i) \/ Loaded(i) \/ Returned(i)
       \/ Committed(i) \/ Issued(i) \/ Consumed(i) \/ Signed(i)
       \/ Crash(i)
       \/ \E id \in Session, now \in Time : Call(i, id, now)

Spec == Init /\ [][Next]_vars

-----------------------------------------------------------------------------
(* Properties *)

Writing == {"load", "burn", "propose", "commit", "issue", "consume", "cache", "discard"}

\* Every variable has its type; a write that runs may already be on disk, and
\* what is in memory may be what the next open finds (FileSessionStore::persist).
TypeOK ==
    /\ disk \in [Participant -> SUBSET Store]
    /\ store \in [Participant -> Store]
    /\ pc \in [Participant -> Writing \cup {"down", "idle"}]
    /\ at \in [Participant -> Session]
    /\ next \in [Participant -> Store]
    /\ nonces \in [Participant -> SUBSET Session]
    /\ shares \subseteq Share
    /\ released \subseteq Share

\* Nonces answer one package only: two shares of one session of a participant
\* are for the same package and the same step, whatever was lost in between
\* (Session::sign consumes durably before it computes).
NonceUsedOnce ==
    \A s, t \in shares : s.who = t.who /\ s.id = t.id => s = t

\* The participants that have computed a share for a step in a role.
Signers(role, step) ==
    {i \in Participant : \E s \in shares : s.who = i /\ s.role = role /\ s.step = step}

\* In a group with 2K > N, two steps that compete for one place in the chain
\* never both find K signers: every participant signs at most one of them (the
\* locks of Session::commit).  Parameters::validate admits smaller thresholds.
NoFork ==
    \A role \in Role, s, t \in Step :
        /\ 2 * K > Cardinality(Participant)
        /\ SameScope(role, s, t)
        /\ Cardinality(Signers(role, s)) >= K
        /\ Cardinality(Signers(role, t)) >= K
        => s = t

\* A share that a call has returned can be asked for again after any crash:
\* every store that may be found holds it ("exact retries use cache").
ReleasedIsCached ==
    \A s \in released : \A d \in disk[s.who] :
        /\ d.records[s.id].package = s.package
        /\ d.records[s.id].cached = s.package

\* A record holds the right to a signature while its nonces may still be used
\* and for ever once they were.
Holds(r) == r.phase \in {"committed", "issued"} \/ r.package # NoPackage

\* What every store that may be found satisfies.
Consistent(d) ==
    /\ \A id \in Session : LET r == d.records[id] IN
          /\ r.phase \in {"absent", "proposed", "committed", "issued"} => r.package = NoPackage
          /\ r.phase \in {"consumed", "signed"} => r.package # NoPackage
          /\ r.cached # NoPackage => r.cached = r.package
          /\ r.phase # "absent" => r.step \in Step
          /\ Holds(r) => r.role \in Role /\ r.step \in Step
    /\ \A x, y \in Session :
          /\ Holds(d.records[x]) /\ Holds(d.records[y])
          /\ d.records[x].role = d.records[y].role
          /\ SameScope(d.records[x].role, d.records[x].step, d.records[y].step)
          => d.records[x].step = d.records[y].step

\* What the record of a session says while the replacement op of it runs.
Midway(op, d, id) ==
    /\ op = "commit" => d.records[id].phase = "committed"
    /\ op = "consume" => d.records[id].phase = "consumed"
    /\ op = "cache" => d.records[id].phase = "signed" /\ d.records[id].cached = d.records[id].package

\* What is true between the two writes of a call.
InProgress(i) ==
    /\ disk[i] # {}
    /\ pc[i] # "down" => store[i] \in disk[i]
    /\ pc[i] = "idle" => disk[i] = {store[i]}
    /\ pc[i] \in Writing => next[i] \in disk[i]
    /\ Midway(pc[i], next[i], at[i])

\* The record of a share is in every store that may be found.
Recorded(s) ==
    \A d \in disk[s.who] :
        /\ d.records[s.id].package = s.package
        /\ d.records[s.id].step = s.step
        /\ d.records[s.id].role = s.role

\* The inductive invariant behind the three properties above: the stores a
\* participant may come back with agree on every share it ever computed, and
\* in each of them one step holds each place (Session::commit, Session::sign).
SessionInvariant ==
    /\ \A i \in Participant : InProgress(i) /\ \A d \in disk[i] : Consistent(d)
    /\ \A s \in shares : Recorded(s)
    /\ ReleasedIsCached

\* What the locks and the durable nonces are for: no nonce answers twice, no
\* place in the chain is signed for two steps, and no share is lost.
SigningIsSafe == TypeOK /\ SessionInvariant /\ NonceUsedOnce /\ NoFork
=============================================================================
