----------------------------- MODULE UpdateTrust -----------------------------
(***************************************************************************)
(* What one computer trusts about releases, and how a bundle moves it      *)
(* forward (crates/supgang/src/update/root_state.rs, tuf_state.rs,         *)
(* filesystem_transport.rs and verify_materialized in update.rs).          *)
(*                                                                         *)
(* Three files hold the trust: the root the owner pinned, the root now in  *)
(* force, and the newest roles accepted.  A verification replaces them one *)
(* at a time and may be killed between any two writes; the datastore the   *)
(* library works in is thrown away with it.                                *)
(***************************************************************************)
EXTENDS Integers

CONSTANTS
    LastRoot,        \* root versions are 1..LastRoot
    RoleKeys,        \* the timestamp and snapshot keys each root names
    Repository,      \* the repositories a bundle may carry
    MaxRootUpdates,  \* roots one bundle may add
    MaxBundles,      \* bundles verified
    MaxCuts          \* times the process is killed

\* What pack_repository packs: metadata up to a root, and a target; one of
\* them may be damaged.
Packed(r) ==
    /\ r.top \in 1..LastRoot
    /\ {r.timestamp, r.snapshot, r.targets, r.release} \subseteq Nat \ {0}
    /\ r.damage \in {"none", "root", "timestamp", "snapshot", "targets", "target"}

ASSUME TrustAssumption ==
    /\ LastRoot \in Nat \ {0}
    /\ DOMAIN RoleKeys = 1..LastRoot
    /\ \A r \in Repository : Packed(r)
    /\ MaxRootUpdates \in Nat /\ MaxBundles \in Nat /\ MaxCuts \in Nat

VARIABLES
    anchor,      \* trusted-root.json
    rootFile,    \* root-state.json
    roleFile,    \* tuf-state.json
    work,        \* the verification that holds the update lock
    release,     \* the newest version staged or installed
    bundles,
    cuts

trustVars == <<anchor, rootFile, roleFile, work, release, bundles, cuts>>

NoFile == [kind |-> "none"]
Torn   == [kind |-> "torn"]
Pinned(v) == [kind |-> "root", version |-> v]

\* The roles accepted (0 when absent); under is the root in force when the
\* timestamp was accepted, which no file records.
Roles(root, targets) ==
    [kind |-> "roles", root |-> root, timestamp |-> 0, snapshot |-> 0, targets |-> targets, under |-> 0]

WithRole(store, role, version) ==
    [store EXCEPT ![role] = version, !.under = IF role = "timestamp" THEN store.root ELSE @]

\* RootState: the root in force, whether an earlier one is recorded, and the
\* newest root that changed the keys of the online roles.
RootState(v, previous, reset) ==
    [kind |-> "state", version |-> v, previous |-> previous, reset |-> reset]

NoWork == [at |-> "idle"]
Working(at) == work.at = at

\* role_keys_changed.
KeysChanged(old, new) == RoleKeys[old] # RoleKeys[new]

-----------------------------------------------------------------------------
(* Pinning the first root: write_new_file creates a file, then fills it. *)

\* pin refuses a second root.  A state file left by an interrupted pin is
\* kept when it records the same root.
PinStarts(v) ==
    /\ work = NoWork
    /\ anchor = NoFile
    /\ \/ /\ rootFile = NoFile
          /\ rootFile' = Torn
          /\ work' = [at |-> "pin-state", root |-> v]
       \/ /\ rootFile = RootState(v, FALSE, v)
          /\ work' = [at |-> "pin-root", root |-> v]
          /\ UNCHANGED rootFile
    /\ UNCHANGED <<anchor, roleFile, release, bundles, cuts>>

PinSteps ==
    /\ \/ /\ Working("pin-state")
          /\ rootFile' = RootState(work.root, FALSE, work.root)
          /\ work' = [work EXCEPT !.at = "pin-root"]
          /\ UNCHANGED anchor
       \/ /\ Working("pin-root")
          /\ anchor' = Torn
          /\ work' = [work EXCEPT !.at = "pin-fill"]
          /\ UNCHANGED rootFile
       \/ /\ Working("pin-fill")
          /\ anchor' = Pinned(work.root)
          /\ work' = NoWork
          /\ UNCHANGED rootFile
    /\ UNCHANGED <<roleFile, release, bundles, cuts>>

\* validate_state, as load applies it before every use.
Loadable ==
    /\ anchor.kind = "root"
    /\ rootFile.kind = "state"
    /\ rootFile.version >= anchor.version
    /\ rootFile.reset =< rootFile.version
    /\ ~rootFile.previous => rootFile.version = anchor.version

-----------------------------------------------------------------------------
(* Verifying a bundle *)

\* A repository whose entries have been extracted.
Unpacked(r) == [at |-> "roots", repo |-> r, steps |-> 0, store |-> NoFile]

\* transaction and materialize_bundle: the repository is unpacked into a
\* fresh work directory.
Materialize(r) ==
    /\ work = NoWork
    /\ bundles < MaxBundles
    /\ Loadable
    /\ bundles' = bundles + 1
    /\ work' = Unpacked(r)
    /\ UNCHANGED <<anchor, rootFile, roleFile, release, cuts>>

Fails == work' = NoWork

\* promote: one root at a time, signed by the root in force and by itself.
Promoted_Alone(state, v) ==
    RootState(v, FALSE, IF KeysChanged(state.version, v) THEN v ELSE state.reset)

Promoted(state, v) ==
    RootState(v, TRUE, IF KeysChanged(state.version, v) THEN v ELSE state.reset)

\* advance: each root is durable before the next one is read.
AdvanceRoot ==
    /\ Working("roots")
    /\ LET next == rootFile.version + 1
           present == next =< work.repo.top \/ (work.repo.damage = "root" /\ next = work.repo.top + 1)
       IN
       /\ present
       /\ IF work.steps < MaxRootUpdates /\ next =< work.repo.top
          THEN /\ rootFile' = Promoted(rootFile, next)
               /\ work' = [work EXCEPT !.steps = @ + 1]
          ELSE Fails /\ UNCHANGED rootFile
    /\ UNCHANGED <<anchor, roleFile, release, bundles, cuts>>

NoMoreRoots ==
    LET next == rootFile.version + 1 IN
    /\ next > work.repo.top
    /\ ~(work.repo.damage = "root" /\ next = work.repo.top + 1)

Forgotten_Always(old, state) == old.root < state.version

\* seed_current: the stored roles, without the online ones when their keys
\* changed since they were stored.
Forgotten(old, state) ==
    \/ old.root < state.reset
    \/ KeysChanged(old.root, state.version)

Seeded ==
    IF roleFile = NoFile THEN Roles(rootFile.version, 0)
    ELSE IF Forgotten(roleFile, rootFile) THEN Roles(rootFile.version, roleFile.targets)
    ELSE [roleFile EXCEPT !.root = rootFile.version]

SeedCurrent ==
    /\ Working("roots")
    /\ NoMoreRoots
    /\ IF roleFile # NoFile /\ roleFile.root > rootFile.version
       THEN Fails /\ UNCHANGED <<roleFile>>
       ELSE /\ roleFile' = Seeded
            /\ work' = [work EXCEPT !.at = "timestamp", !.store = Seeded]
    /\ UNCHANGED <<anchor, rootFile, release, bundles, cuts>>

\* The order in which the library loads the roles.
After(role) == CASE role = "timestamp" -> "snapshot" [] role = "snapshot" -> "targets" [] OTHER -> "stage"

\* The library: a role must be signed by the keys of the root in force and
\* may not be older than the one in the datastore.
RoleAccepted(role) ==
    /\ work.repo.damage # role
    /\ work.repo.top =< rootFile.version
    /\ RoleKeys[work.repo.top] = RoleKeys[rootFile.version]
    /\ work.repo[role] >= work.store[role]

\* fetch publishes the roles accepted so far before it opens the next one;
\* the last commit of verify_materialized publishes what a failure leaves.
LoadRole(role) ==
    /\ Working(role)
    /\ roleFile' = work.store
    /\ IF RoleAccepted(role)
       THEN work' = [work EXCEPT !.at = After(role), !.store = WithRole(@, role, work.repo[role])]
       ELSE Fails
    /\ UNCHANGED <<anchor, rootFile, release, bundles, cuts>>

\* The target is an executable of a newer version with the right digest.
TargetAccepted(r) == r.release > release /\ r.damage # "target"

\* The rest of verify_materialized: publish every role, require a newer
\* version, fetch and validate the target, record it as staged.
Stage ==
    /\ Working("stage")
    /\ roleFile' = work.store
    /\ release' = IF TargetAccepted(work.repo) THEN work.repo.release ELSE release
    /\ work' = NoWork
    /\ UNCHANGED <<anchor, rootFile, bundles, cuts>>

\* The process is killed: recover_stale_work drops the work directory.
Cut ==
    /\ work # NoWork
    /\ cuts < MaxCuts
    /\ cuts' = cuts + 1
    /\ work' = NoWork
    /\ UNCHANGED <<anchor, rootFile, roleFile, release, bundles>>

TrustInit ==
    /\ anchor = NoFile
    /\ rootFile = NoFile
    /\ roleFile = NoFile
    /\ work = NoWork
    /\ release = 0
    /\ bundles = 0
    /\ cuts = 0

TrustNext ==
    \/ \E v \in 1..LastRoot : PinStarts(v)
    \/ PinSteps
    \/ \E r \in Repository : Materialize(r)
    \/ AdvanceRoot
    \/ SeedCurrent
    \/ \E role \in {"timestamp", "snapshot", "targets"} : LoadRole(role)
    \/ Stage
    \/ Cut

TrustSpec == TrustInit /\ [][TrustNext]_trustVars

-----------------------------------------------------------------------------
(* Properties *)

\* Once a root is pinned the trust files always load, whichever write the
\* process was killed at, and the stored roles are never ahead of the root
\* in force (load and seed_current would refuse every later bundle).
TrustReadable ==
    anchor.kind = "root" =>
        /\ Loadable
        /\ roleFile # NoFile => roleFile.root =< rootFile.version

SameKeysSince(v) == \A w \in (v + 1)..rootFile.version : ~KeysChanged(w - 1, w)

\* seed_current: the timestamp the library compares with was accepted under
\* the keys now in force, without any other keys in between.  A timestamp of
\* replaced keys never holds back those that replaced them, even when the
\* same keys come back and the process was killed after the root advanced.
OldKeysHoldNothingBack ==
    work.at = "timestamp" /\ work.store.timestamp # 0 => SameKeysSince(work.store.under)

\* The stored timestamp and snapshot fall back only because a root changed
\* the keys of those roles.
RolesNeverRollBack ==
    [][roleFile # NoFile =>
          \/ roleFile'.timestamp >= roleFile.timestamp /\ roleFile'.snapshot >= roleFile.snapshot
          \/ ~SameKeysSince(roleFile.root)]_trustVars

\* fetch: a role the library has accepted is durable before it reads the role
\* after the next, so that a failure or a kill later does not undo it.
AcceptedIsPublished ==
    /\ work.at = "targets" => roleFile.timestamp = work.store.timestamp
    /\ work.at = "stage" => roleFile.snapshot = work.store.snapshot

RootStates == [kind : {"state"}, version : 1..LastRoot, previous : BOOLEAN, reset : 1..LastRoot]
RoleStores ==
    [kind : {"roles"}, root : 1..LastRoot, timestamp : Nat, snapshot : Nat, targets : Nat, under : 0..LastRoot]
Pinning == [at : {"pin-state", "pin-root", "pin-fill"}, root : 1..LastRoot]
LoadingStep == {"timestamp", "snapshot", "targets", "stage"}
Verifying ==
    [at : {"roots"}, repo : Repository, steps : Nat, store : {NoFile}]
        \cup [at : LoadingStep, repo : Repository, steps : Nat, store : RoleStores]

\* Every variable has its type, and only a pin works without a root.
TrustTypeOK ==
    /\ anchor \in {NoFile, Torn} \cup {Pinned(v) : v \in 1..LastRoot}
    /\ rootFile \in {NoFile, Torn} \cup RootStates
    /\ roleFile \in {NoFile} \cup RoleStores
    /\ work \in {NoWork} \cup Pinning \cup (IF anchor.kind = "root" THEN Verifying ELSE {})
    /\ {release, bundles, cuts} \subseteq Nat

\* What a pin has written at each of its steps, and what it leaves when it is
\* killed there: nothing but the root it pinned (write_new_file, pin).
PinIsOrdered ==
    /\ anchor.kind # "root" =>
          /\ roleFile = NoFile
          /\ rootFile \in RootStates => rootFile = RootState(rootFile.version, FALSE, rootFile.version)
    /\ work.at = "pin-state" => anchor = NoFile /\ rootFile = Torn
    /\ work.at \in {"pin-root", "pin-fill"} =>
          /\ anchor = IF work.at = "pin-root" THEN NoFile ELSE Torn
          /\ rootFile = RootState(work.root, FALSE, work.root)

\* What the recorded reset tells (promote): the keys are the same since then, and
\* they changed there unless it is the root that was pinned.
ResetMarksKeys ==
    anchor.kind = "root" =>
        /\ anchor.version =< rootFile.reset
        /\ \A v \in rootFile.reset..rootFile.version : RoleKeys[v] = RoleKeys[rootFile.version]
        /\ rootFile.reset # anchor.version => KeysChanged(rootFile.reset - 1, rootFile.reset)

\* A store of roles belongs to a root this computer has had, and its timestamp to
\* the keys of that root.
StoreIsTrue(s) ==
    /\ anchor.kind = "root"
    /\ s.root \in anchor.version..rootFile.version
    /\ s.timestamp # 0 =>
          /\ s.under \in anchor.version..s.root
          /\ \A w \in (s.under + 1)..s.root : ~KeysChanged(w - 1, w)

\* Both stores are true, and the one in work is never behind the file.
StoresAgree ==
    /\ roleFile # NoFile => StoreIsTrue(roleFile)
    /\ work.at \in LoadingStep =>
          /\ StoreIsTrue(work.store)
          /\ roleFile # NoFile
          /\ {work.store.root, roleFile.root} = {rootFile.version}
          /\ work.store.timestamp >= roleFile.timestamp /\ work.store.snapshot >= roleFile.snapshot

\* Killed at any write, the trust files load, hold what was accepted, and keep
\* nothing of keys that were replaced.
TrustIsKept ==
    /\ TrustTypeOK /\ TrustReadable /\ OldKeysHoldNothingBack /\ AcceptedIsPublished
    /\ PinIsOrdered /\ ResetMarksKeys /\ StoresAgree
=============================================================================
