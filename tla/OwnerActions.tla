---------------------------- MODULE OwnerActions ----------------------------
(***************************************************************************)
(* Status leases and the owner actions they permit: threshold/status.rs,   *)
(* threshold/status_renewal.rs and threshold/owner_action.rs.              *)
(*                                                                         *)
(* The root issues short leases on the state of its chain, each counted    *)
(* against the caps of a renewal policy, and a target lets the owner act   *)
(* only under a lease for the head of its own copy of the chain.  The      *)
(* issuer may be lost between its ledger and the release of a lease.  A    *)
(* target reads its ledger, verifies, and then redeems in one transaction; *)
(* several verifications may be under way.                                 *)
(*                                                                         *)
(* The chain is seen through what chain.rs offers: a head, the grant that  *)
(* is active there and the revocation serial; a target's copy may lag.     *)
(* There is one grant, whose signer is one member, and one policy: its     *)
(* terms stay, and a recertification starts again with new ledgers on both *)
(* sides.  The storage behind SpendLedger and the issuer's is not in the   *)
(* repository: it is what the trait and the comments on Ledger demand.     *)
(* All clocks agree.                                                       *)
(***************************************************************************)
EXTENDS Integers, FiniteSets, Sequences

CONSTANTS
    Target,
    PresenceCap, TotalCap,   \* OWNER_PRESENCE_CAP, OWNER_TOTAL_CAP
    LeaseTime,               \* how long the issuer may make a lease
    PolicyAge,               \* Policy::maximum_age
    TargetAge,               \* the target's own limit, RemapVerification::maximum_status_age
    AssertionTime,           \* MAX_REMAP_ASSERTION_AGE
    MaxNow, MaxHead, MaxNonce

PolicyCap == 0   \* OWNER_POLICY_CAP

\* What Policy::encode and decode let through.
PolicyValid == TotalCap <= PolicyCap + PresenceCap /\ 0 < PolicyAge

ASSUME LeaseAssumption ==
    /\ {PresenceCap, TotalCap, LeaseTime, PolicyAge, TargetAge, AssertionTime,
        MaxNow, MaxHead, MaxNonce} \subseteq Nat
    /\ PolicyValid
    /\ 0 < TargetAge /\ TargetAge <= PolicyAge

Mode == {"initial", "policy", "presence"}

VARIABLES
    now,
    root,        \* the root chain: one snapshot per head, and when it became the head
    issuer,      \* the issuer's ledger
    unreleased,  \* the lease that is persisted and not yet out
    leases,      \* the leases that are out
    view,        \* the head of each target's copy of the chain
    ledger,      \* each target's ledger
    challenges,  \* the challenges each target has issued and not yet seen used
    verified,    \* verifications that have not redeemed yet
    effects      \* history: what was done

leaseVars == <<now, root, issuer, unreleased, leases, view, ledger, challenges, verified, effects>>

NoLease == [issued_at |-> 0, counts |-> [policy |-> 0, presence |-> 0, total |-> 0], head |-> 0]

ZeroCounts == [policy |-> 0, presence |-> 0, total |-> 0]

-----------------------------------------------------------------------------
(* status_renewal.rs *)

\* Ledger::draft_new.
NewLedger == [counts |-> ZeroCounts, issued_at |-> 0, status |-> NoLease]

\* Counts::check.
CountsValid(n) ==
    /\ n.policy <= PolicyCap /\ n.presence <= PresenceCap /\ n.total <= TotalCap
    /\ n.policy + n.presence = n.total

\* Ledger::check_common.
CommonValid(l, s) == s.issued_at >= l.issued_at /\ CountsValid(s.counts)

\* Ledger::draft_issue: exactly one more in the lease's own mode.
IssueValid(l, s) ==
    /\ CommonValid(l, s)
    /\ CASE s.mode = "initial" -> l.status = NoLease /\ s.counts = ZeroCounts
         [] s.mode = "policy" ->
              /\ l.status # NoLease
              /\ s.counts = [l.counts EXCEPT !.policy = @ + 1, !.total = @ + 1]
         [] s.mode = "presence" ->
              /\ l.status # NoLease
              /\ s.counts = [l.counts EXCEPT !.presence = @ + 1, !.total = @ + 1]

\* Faulty variant: a lease with smaller counts is taken too.
ObserveValid_Rollback(l, s) == CommonValid([l EXCEPT !.issued_at = 0], s)

\* Ledger::draft_observe: leases may be missed, never taken back or exchanged.
ObserveValid(l, s) ==
    /\ CommonValid(l, s)
    /\ s.counts.policy >= l.counts.policy
    /\ s.counts.presence >= l.counts.presence
    /\ s.counts.total >= l.counts.total
    /\ IF s.counts = l.counts
       THEN IF l.status = NoLease THEN s.mode = "initial" ELSE l.status = s
       ELSE /\ s.mode # "initial" /\ l.status # NoLease
            /\ s.mode = "policy" => s.counts.policy # l.counts.policy
            /\ s.mode = "presence" => s.counts.presence # l.counts.presence

\* Ledger::encode and decode.
LedgerReadable(l) ==
    /\ CountsValid(l.counts)
    /\ (l.status = NoLease) <=> (l.issued_at = 0 /\ l.counts = ZeroCounts)

Advanced(l, s) == [l EXCEPT !.counts = s.counts, !.issued_at = s.issued_at, !.status = s]

-----------------------------------------------------------------------------
(* The root chain and the issuer of leases *)

RootHead == Len(root)

\* A step moves the head; it may revoke the grant or its signer's membership.
RootStep(grant, member) ==
    /\ RootHead < MaxHead
    /\ grant <= root[RootHead].grant /\ member <= root[RootHead].member
    /\ root' = Append(root,
          [grant |-> grant, member |-> member, at |-> now,
           grant_serial |-> root[RootHead].grant_serial + (root[RootHead].grant - grant),
           member_serial |-> root[RootHead].member_serial + (root[RootHead].member - member)])
    /\ UNCHANGED <<now, issuer, unreleased, leases, view, ledger, challenges, verified, effects>>

\* Status at the head, and how Status::encode bounds it.
StatusAtHead(mode, counts, life) ==
    [head |-> RootHead, member_serial |-> root[RootHead].member_serial, grant_serial |-> root[RootHead].grant_serial,
     grant |-> root[RootHead].grant, member |-> root[RootHead].member,
     issued_at |-> now, expires_at |-> now + life,
     mode |-> mode, counts |-> counts]

\* The advanced ledger is persisted before the lease goes anywhere.
Issue(mode, counts, life) ==
    LET s == StatusAtHead(mode, counts, life) IN
    /\ unreleased = NoLease
    /\ IssueValid(issuer, s)
    /\ issuer' = Advanced(issuer, s)
    /\ unreleased' = s
    /\ UNCHANGED <<now, root, leases, view, ledger, challenges, verified, effects>>

Release ==
    /\ unreleased # NoLease
    /\ leases' = leases \cup {unreleased}
    /\ unreleased' = NoLease
    /\ UNCHANGED <<now, root, issuer, view, ledger, challenges, verified, effects>>

\* The issuer is lost: the count is spent and nobody has the lease.
LoseIssuer ==
    /\ unreleased # NoLease
    /\ unreleased' = NoLease
    /\ UNCHANGED <<now, root, issuer, leases, view, ledger, challenges, verified, effects>>

-----------------------------------------------------------------------------
(* The target: status.rs and owner_action.rs *)

\* The target's copy of the chain moves to a later head.
Follow(t, h) ==
    /\ view[t] < h /\ h <= RootHead
    /\ view' = [view EXCEPT ![t] = h]
    /\ UNCHANGED <<now, root, issuer, unreleased, leases, ledger, challenges, verified, effects>>

\* Status::check against the target's scope.
StatusCheck(t, s) ==
    /\ s.head = view[t]
    /\ CountsValid(s.counts)
    /\ s.mode = "initial" => s.counts = ZeroCounts
    /\ s.mode = "policy" => s.counts.policy # 0
    /\ s.mode = "presence" => s.counts.presence # 0
    /\ s.grant_serial >= root[view[t]].grant_serial
    /\ s.issued_at < s.expires_at
    /\ s.issued_at <= now /\ now <= s.expires_at
    /\ now - s.issued_at <= TargetAge
    /\ s.expires_at - s.issued_at <= TargetAge

\* Status::check_active_grant.
ActiveGrant(s) == s.grant = 1 /\ s.member = 1

Nonces(t) == {c.nonce : c \in challenges[t]} \cup {e.nonce : e \in {e \in effects : e.target = t}}

\* The nonces are random; numbers in the order of issue stand for them.
Challenge(t, nonce) ==
    /\ nonce = Cardinality(Nonces(t)) + 1
    /\ challenges' = [challenges EXCEPT ![t] = @ \cup {[nonce |-> nonce, expires_at |-> now + AssertionTime]}]
    /\ UNCHANGED <<now, root, issuer, unreleased, leases, view, ledger, verified, effects>>

\* What the owner may sign for a challenge and present while it is in time.
Assertions(c) ==
    [nonce : {c.nonce}, issued_at : 1..now, expires_at : now..c.expires_at]

\* Assertion::verify_binding: the owner has signed for this challenge, at a
\* time it chose, and the assertion lasts no longer than the challenge.
BindingValid(c, a) ==
    /\ a.nonce = c.nonce
    /\ a.issued_at <= now /\ now <= a.expires_at
    /\ now <= c.expires_at
    /\ a.expires_at <= c.expires_at

\* verify_remap_action: the grant is active in the target's copy of the chain
\* and the lease was given at the same revocations.
GrantCurrent(t, s) ==
    /\ root[view[t]].grant = 1
    /\ s.grant_serial = root[view[t]].grant_serial

\* verify_remap_action up to the ledger, which it has read before.
Verify(t, s, c, a) ==
    /\ GrantCurrent(t, s)
    /\ StatusCheck(t, s)
    /\ ObserveValid(ledger[t], s)
    /\ ActiveGrant(s)
    /\ BindingValid(c, a)
    /\ verified' = verified \cup
          {[target |-> t, nonce |-> c.nonce, expected |-> ledger[t], next |-> Advanced(ledger[t], s)]}
    /\ UNCHANGED <<now, root, issuer, unreleased, leases, view, ledger, challenges, effects>>

\* Faulty variant: the ledger is replaced without comparing it.
Redeem_Blind(r) ==
    /\ r \in verified
    /\ ledger' = [ledger EXCEPT ![r.target] = r.next]
    /\ verified' = verified \ {r}
    /\ effects' = effects \cup {[target |-> r.target, nonce |-> r.nonce, at |-> now, lease |-> r.next.status]}
    /\ UNCHANGED <<now, root, issuer, unreleased, leases, view, challenges>>

\* SpendLedger::redeem: one transaction compares the ledger, uses up the
\* challenge and advances the ledger; only then the consumer acts.
Redeem(r) ==
    /\ r \in verified
    /\ verified' = verified \ {r}
    /\ IF ledger[r.target] = r.expected /\ \E c \in challenges[r.target] : c.nonce = r.nonce
       THEN /\ ledger' = [ledger EXCEPT ![r.target] = r.next]
            /\ challenges' = [challenges EXCEPT ![r.target] = {c \in @ : c.nonce # r.nonce}]
            /\ effects' = effects \cup {[target |-> r.target, nonce |-> r.nonce, at |-> now, lease |-> r.next.status]}
       ELSE UNCHANGED <<ledger, challenges, effects>>
    /\ UNCHANGED <<now, root, issuer, unreleased, leases, view>>

\* A verification runs to its end within a tick.
Tick ==
    /\ now < MaxNow
    /\ verified = {}
    /\ now' = now + 1
    /\ UNCHANGED <<root, issuer, unreleased, leases, view, ledger, challenges, verified, effects>>

LeaseInit ==
    /\ now = 1
    /\ root = <<[grant |-> 1, member |-> 1, at |-> 1, grant_serial |-> 0, member_serial |-> 0]>>
    /\ issuer = NewLedger
    /\ unreleased = NoLease
    /\ leases = {}
    /\ view = [t \in Target |-> 1]
    /\ ledger = [t \in Target |-> NewLedger]
    /\ challenges = [t \in Target |-> {}]
    /\ verified = {}
    /\ effects = {}

Counts == [policy : 0..PolicyCap + 1, presence : 0..PresenceCap + 1, total : 0..TotalCap + 1]

LeaseNext ==
    \/ Tick \/ Release \/ LoseIssuer
    \/ \E grant, member \in {0, 1} : RootStep(grant, member)
    \/ \E mode \in Mode, n \in Counts, life \in 1..LeaseTime :
          Issue(mode, n, life)
    \/ \E t \in Target :
          \/ \E h \in 1..RootHead : Follow(t, h)
          \/ \E nonce \in 1..MaxNonce : Challenge(t, nonce)
          \/ \E s \in leases, c \in challenges[t] : \E a \in Assertions(c) : Verify(t, s, c, a)
    \/ \E r \in verified : Redeem(r)

LeaseSpec == LeaseInit /\ [][LeaseNext]_leaseVars

-----------------------------------------------------------------------------
(* Properties *)

Leases ==
    [head : Nat \ {0}, member_serial : Nat, grant_serial : Nat, grant : {0, 1}, member : {0, 1},
     issued_at : Nat \ {0}, expires_at : Nat,
     mode : Mode, counts : Counts]

Snapshots == [grant : {0, 1}, member : {0, 1}, at : Nat, grant_serial : Nat, member_serial : Nat]

Ledgers == [counts : Counts, issued_at : Nat, status : Leases \cup {NoLease}]

\* Every lease that is out is a status within the caps, and every ledger is
\* one that Ledger::encode writes: counts that add up, and no lease exactly
\* when nothing has been counted.
LeaseTypeOK ==
    /\ now \in Nat \ {0}
    /\ root # <<>> /\ root \in Seq(Snapshots)
    /\ issuer \in Ledgers /\ ledger \in [Target -> Ledgers]
    /\ unreleased \in Leases \cup {NoLease} /\ leases \subseteq Leases
    /\ view \in [Target -> 1..RootHead]
    /\ challenges \in [Target -> SUBSET [nonce : Nat, expires_at : Nat]]
    /\ verified \subseteq [target : Target, nonce : Nat, expected : Ledgers, next : Ledgers]
    /\ effects \subseteq [target : Target, nonce : Nat, at : Nat, lease : Leases]
    /\ \A l \in {issuer} \cup {ledger[t] : t \in Target} : LedgerReadable(l)

\* No two leases of a budget have the same counts, so at most the initial
\* one and TotalCap renewals are ever out, however often the issuer is lost
\* (draft_issue, persisted before the release).
BudgetIsKept ==
    /\ \A a, b \in leases : a.counts = b.counts => a = b
    /\ Cardinality(leases) <= TotalCap + 1

\* A challenge of a target is answered by at most one effect, whatever else
\* was being verified at the time (SpendLedger::redeem).
OneEffect ==
    \A a, b \in effects : a.target = b.target /\ a.nonce = b.nonce => a = b

RevokedHead(h) == root[h].grant = 0 \/ root[h].member = 0

\* The time at which the root has revoked the grant or its signer.
RevokedAt == {root[h].at : h \in {i \in 1..RootHead : RevokedHead(i)}}

\* After a revocation at the root, a target whose copy of the chain is old may
\* still be acted on, but not for longer than its own status age (Status::check
\* with leases issued at the current head).
RevocationWindow ==
    \A e \in effects, r \in RevokedAt : e.at <= r + TargetAge

\* A target never goes back to an earlier lease: its counts and the issue time
\* of the lease it acted on last only grow, and the lease at given counts is
\* never exchanged (draft_observe under redeem).
LeasesNeverReturn ==
    [][\A t \in Target : LET l == ledger[t]  n == ledger'[t] IN
          /\ n.issued_at >= l.issued_at
          /\ n.counts.total >= l.counts.total
          /\ n.counts = l.counts /\ l.status # NoLease => n = l]_leaseVars

\* The leases that are out or about to be.
GivenOut == leases \cup ({unreleased} \ {NoLease})

\* Why no budget is overdrawn: what was issued counts less than the next lease will,
\* and a ledger says what the lease it holds says.
IssuedIsCounted ==
    /\ issuer.status = NoLease => GivenOut = {}
    /\ \A s \in GivenOut : CountsValid(s.counts) /\ s.counts.total <= issuer.counts.total
    /\ \A a, b \in GivenOut : a.counts = b.counts => a = b
    /\ \A t \in Target : ledger[t].status # NoLease =>
          ledger[t].issued_at = ledger[t].status.issued_at /\ ledger[t].counts = ledger[t].status.counts

\* Why a revocation bites: a head after a revocation is revoked, and a lease on an
\* active grant is no younger than any revocation.
ActiveBeforeRevoked ==
    /\ \A h \in 1..RootHead : RevokedHead(h) => RevokedHead(RootHead)
    /\ \A s \in GivenOut : s.issued_at <= now
    /\ \A s \in GivenOut, h \in 1..RootHead : ActiveGrant(s) /\ RevokedHead(h) => s.issued_at <= root[h].at

\* Why an effect is in time and the only one: it was verified in the same tick, against
\* the ledger it replaces and a lease that was out, and its challenge was open until then.
EffectIsVerified ==
    /\ \A r \in verified : LET s == r.next.status IN
          /\ s \in leases /\ ActiveGrant(s) /\ now <= s.issued_at + TargetAge
          /\ ObserveValid(r.expected, s) /\ r.next = Advanced(r.expected, s)
    /\ \A e \in effects :
          /\ e.lease \in leases /\ ActiveGrant(e.lease) /\ e.at <= e.lease.issued_at + TargetAge
          /\ \A c \in challenges[e.target] : c.nonce # e.nonce
    /\ \A t \in Target : LET n == Cardinality(Nonces(t)) IN n \in Nat /\ Nonces(t) = 1..n

\* However often issuer and targets are lost: no more leases than budgeted, one
\* effect per challenge, and none later than a status age after a revocation.
LeasesAreSafe ==
    /\ LeaseTypeOK /\ BudgetIsKept /\ OneEffect /\ RevocationWindow
    /\ IssuedIsCounted /\ ActiveBeforeRevoked /\ EffectIsVerified
=============================================================================
