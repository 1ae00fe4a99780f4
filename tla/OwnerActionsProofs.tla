------------------------- MODULE OwnerActionsProofs -------------------------
(***************************************************************************)
(* Proofs about OwnerActions, for any number of targets, all caps, ages    *)
(* and bounds.                                                             *)
(*                                                                         *)
(* The parts of LeasesAreSafe that explain the others are inductive        *)
(* together; the budget and the window after a revocation follow from      *)
(* them.                                                                   *)
(***************************************************************************)
EXTENDS OwnerActions, FiniteSetTheorems, TLAPS

LeaseInvariant == LeaseTypeOK /\ OneEffect /\ IssuedIsCounted /\ ActiveBeforeRevoked /\ EffectIsVerified

\* A lease is never taken for none.
LEMMA NoLeaseIsNone == NoLease \notin Leases
BY DEF NoLease, Leases

\* What is out or about to be is a lease.
LEMMA IssuedLeases == LeaseTypeOK => GivenOut \subseteq Leases
BY DEF LeaseTypeOK, GivenOut

\* Counts are natural numbers.
LEMMA CountsType ==
    /\ \A n \in Counts : n.policy \in Nat /\ n.presence \in Nat /\ n.total \in Nat
    /\ \A s \in Leases : s.counts \in Counts /\ s.issued_at \in Nat \ {0}
    /\ TargetAge \in Nat /\ TotalCap \in Nat
<1>1. TargetAge \in Nat /\ TotalCap \in Nat /\ PresenceCap \in Nat
  BY LeaseAssumption
<1> QED  BY <1>1 DEF Counts, PolicyCap, Leases

\* Every head of the chain is a snapshot.
LEMMA HeadsType ==
    ASSUME LeaseTypeOK
    PROVE  /\ RootHead \in Nat \ {0}
           /\ \A h \in 1..RootHead : root[h] \in Snapshots /\ root[h].at \in Nat
<1>1. root \in Seq(Snapshots) /\ root # <<>>
  BY DEF LeaseTypeOK
<1>2. Len(root) \in Nat \ {0} /\ \A h \in 1..Len(root) : root[h] \in Snapshots
  BY <1>1
<1>3. \A x \in Snapshots : x.at \in Nat
  BY DEF Snapshots
<1> QED  BY <1>2, <1>3 DEF RootHead

-----------------------------------------------------------------------------
(* What the invariant gives *)

\* With no policy renewals, the total is the presence count: leases with the
\* same total are the same, so there are no more than there are totals.
LEMMA BudgetFollows == LeaseInvariant => BudgetIsKept
<1> SUFFICES ASSUME LeaseInvariant PROVE BudgetIsKept
  OBVIOUS
<1>1. /\ leases \subseteq Leases /\ leases \subseteq GivenOut
      /\ \A s \in leases : CountsValid(s.counts)
      /\ \A a, b \in leases : a.counts = b.counts => a = b
  BY DEF LeaseInvariant, LeaseTypeOK, IssuedIsCounted, GivenOut
<1>2. ASSUME NEW a \in leases, NEW b \in leases, a.counts.total = b.counts.total PROVE a = b
  <2>1. /\ a.counts \in Counts /\ b.counts \in Counts
        /\ CountsValid(a.counts) /\ CountsValid(b.counts)
    BY <1>1, CountsType
  <2>2. /\ a.counts.policy = b.counts.policy /\ a.counts.presence = b.counts.presence
    BY <1>2, <2>1, CountsType DEF CountsValid, PolicyCap
  <2>3. a.counts = b.counts
    BY <1>2, <2>1, <2>2 DEF Counts
  <2> QED  BY <1>1, <2>3
<1>3. \A s \in leases : s.counts.total \in 0..TotalCap
  BY <1>1, CountsType DEF CountsValid
<1> DEFINE f == [s \in leases |-> s.counts.total]
<1>4. f \in Injection(leases, 0..TotalCap)
  <2>1. f \in [leases -> 0..TotalCap] /\ \A a, b \in leases : f[a] = f[b] => a = b
    BY <1>2, <1>3
  <2> HIDE DEF f
  <2> QED  BY <2>1 DEF Injection, IsInjective
<1>5. IsFiniteSet(0..TotalCap) /\ Cardinality(0..TotalCap) = TotalCap + 1
  BY CountsType, FS_Interval
<1>6. Cardinality(leases) <= TotalCap + 1
  <2> HIDE DEF f
  <2> QED  BY <1>4, <1>5, FS_Injection
<1> QED  BY <1>1, <1>6 DEF BudgetIsKept

\* An effect is in time for its lease, and its lease is no younger than a
\* revocation.
LEMMA WindowFollows == LeaseInvariant => RevocationWindow
<1> SUFFICES ASSUME LeaseInvariant, NEW e \in effects, NEW h \in 1..RootHead, RevokedHead(h)
             PROVE  e.at <= root[h].at + TargetAge
  BY DEF RevocationWindow, RevokedAt
<1>1. /\ e.lease \in leases /\ ActiveGrant(e.lease) /\ e.at <= e.lease.issued_at + TargetAge
  BY DEF LeaseInvariant, EffectIsVerified
<1>2. e.lease.issued_at <= root[h].at
  BY <1>1 DEF LeaseInvariant, ActiveBeforeRevoked, GivenOut
<1>3. e.at \in Nat /\ root[h].at \in Nat /\ e.lease.issued_at \in Nat
  <2>1. e.at \in Nat /\ e.lease \in Leases
    BY Zenon DEF LeaseInvariant, LeaseTypeOK
  <2> QED  BY <2>1, CountsType, HeadsType DEF LeaseInvariant
<1> QED  BY <1>1, <1>2, <1>3, CountsType

\* The invariant in the parts its steps are followed in.
LEMMA SafeIs == LeasesAreSafe <=> LeaseInvariant
BY BudgetFollows, WindowFollows DEF LeasesAreSafe, LeaseInvariant

-----------------------------------------------------------------------------
(* The issuer *)

\* Steps that leave what the invariant reads of one part alone.
LEMMA IssuedSame ==
    ASSUME IssuedIsCounted, issuer' = issuer, ledger' = ledger, GivenOut' \subseteq GivenOut
    PROVE  IssuedIsCounted'
BY DEF IssuedIsCounted, CountsValid

\* Steps that leave the clock and the root alone and give out no lease keep revocations effective.
LEMMA ActiveSame ==
    ASSUME ActiveBeforeRevoked, UNCHANGED <<now, root>>, GivenOut' \subseteq GivenOut
    PROVE  ActiveBeforeRevoked'
<1>1. RootHead' = RootHead /\ \A h : RevokedHead(h)' <=> RevokedHead(h)
  BY DEF RootHead, RevokedHead
<1> QED  BY <1>1 DEF ActiveBeforeRevoked

\* Steps that leave the clock, the challenges and the effects alone keep the effects verified.
LEMMA EffectsSame ==
    ASSUME EffectIsVerified, UNCHANGED <<now, challenges, effects>>, leases \subseteq leases',
           verified' \subseteq verified
    PROVE  EffectIsVerified' /\ (OneEffect => OneEffect')
<1>1. \A t \in Target : Nonces(t)' = Nonces(t)
  BY DEF Nonces
<1> QED  BY <1>1 DEF EffectIsVerified, OneEffect

\* A new lease counts one more than any before it, or is the first.
LEMMA IssueCounts ==
    ASSUME NEW l \in Ledgers, NEW s \in Leases, IssueValid(l, s)
    PROVE  /\ CountsValid(s.counts) /\ l.issued_at <= s.issued_at
           /\ \/ l.status = NoLease /\ s.counts = ZeroCounts
              \/ s.counts.total = l.counts.total + 1
<1>1. s.mode \in Mode /\ CountsValid(s.counts) /\ s.issued_at >= l.issued_at
  BY DEF Leases, IssueValid, CommonValid
<1>2. l.issued_at \in Nat /\ s.issued_at \in Nat
  BY CountsType DEF Ledgers
<1>3. l.counts \in Counts
  BY DEF Ledgers
<1>4. CASE s.mode = "initial"
  BY <1>1, <1>2, <1>4 DEF IssueValid
<1>5. CASE s.mode = "policy"
  BY <1>1, <1>2, <1>3, <1>5, Zenon DEF IssueValid, Counts
<1>6. CASE s.mode = "presence"
  BY <1>1, <1>2, <1>3, <1>6, Zenon DEF IssueValid, Counts
<1> QED  BY <1>1, <1>4, <1>5, <1>6, Zenon DEF Mode

\* The counts after one more lease.
LEMMA AdvancedIs ==
    ASSUME NEW l \in Ledgers, NEW s \in Leases
    PROVE  /\ Advanced(l, s) \in Ledgers
           /\ Advanced(l, s) = [counts |-> s.counts, issued_at |-> s.issued_at, status |-> s]
           /\ CountsValid(s.counts) => LedgerReadable(Advanced(l, s))
<1> DEFINE n == Advanced(l, s)
<1>1. n \in Ledgers /\ n.counts = s.counts /\ n.issued_at = s.issued_at /\ n.status = s
  BY CountsType, Zenon DEF Advanced, Ledgers
<1> HIDE DEF n
<1>2. n = [counts |-> s.counts, issued_at |-> s.issued_at, status |-> s]
  BY <1>1 DEF Ledgers
<1> QED  BY <1>1, <1>2, CountsType, NoLeaseIsNone, Zenon DEF LedgerReadable, n

\* Issue keeps the invariant.
LEMMA IssueOK ==
    ASSUME LeaseInvariant, NEW mode \in Mode, NEW n \in Counts, NEW life \in 1..LeaseTime, Issue(mode, n, life)
    PROVE  LeaseInvariant'
<1> DEFINE s == StatusAtHead(mode, n, life)
<1>1. /\ LeaseTypeOK /\ unreleased = NoLease /\ IssueValid(issuer, s)
      /\ issuer' = Advanced(issuer, s) /\ unreleased' = s
      /\ UNCHANGED <<now, root, leases, view, ledger, challenges, verified, effects>>
  BY Zenon DEF Issue, LeaseInvariant
<1>2. /\ s \in Leases /\ s.issued_at = now /\ s # NoLease
      /\ ActiveGrant(s) => ~RevokedHead(RootHead)
  <2>1. /\ RootHead \in Nat \ {0} /\ root[RootHead] \in Snapshots /\ now \in Nat \ {0}
        /\ now + life \in Nat
    BY <1>1, HeadsType DEF LeaseTypeOK
  <2>2. s \in Leases
    BY <2>1 DEF StatusAtHead, Leases, Snapshots
  <2> QED  BY <2>2, NoLeaseIsNone DEF StatusAtHead, ActiveGrant, RevokedHead
<1> HIDE DEF s
<1>3. /\ CountsValid(s.counts) /\ issuer.counts \in Counts /\ s.counts \in Counts
      /\ \/ issuer.status = NoLease
         \/ s.counts.total = issuer.counts.total + 1
  BY <1>1, <1>2, IssueCounts, CountsType, ZenonT(60) DEF LeaseTypeOK, Ledgers
<1>4. /\ issuer' \in Ledgers /\ LedgerReadable(issuer')
      /\ issuer'.status = s /\ issuer'.counts = s.counts
  BY <1>1, <1>2, <1>3, AdvancedIs DEF LeaseTypeOK
<1>5. LeaseTypeOK'
  BY <1>1, <1>2, <1>4, ZenonT(60) DEF LeaseTypeOK, RootHead, LedgerReadable, CountsValid
<1>6. GivenOut' = GivenOut \cup {s} /\ GivenOut = leases /\ s \notin {NoLease}
  BY <1>1, <1>2, Zenon DEF GivenOut
<1>7. IssuedIsCounted'
  <2>1. /\ issuer.status = NoLease => GivenOut = {}
        /\ \A x \in GivenOut : CountsValid(x.counts) /\ x.counts.total <= issuer.counts.total
        /\ \A a, b \in GivenOut : a.counts = b.counts => a = b
        /\ \A t \in Target : ledger[t].status # NoLease =>
              ledger[t].issued_at = ledger[t].status.issued_at /\ ledger[t].counts = ledger[t].status.counts
    BY Zenon DEF LeaseInvariant, IssuedIsCounted
  <2>2. \A x \in GivenOut : x.counts.total \in Nat /\ x.counts.total < s.counts.total
    BY <1>1, <1>3, <2>1, CountsType, IssuedLeases, SMTT(30)
  <2>3. \A x \in GivenOut' : CountsValid(x.counts) /\ x.counts.total <= issuer'.counts.total
    BY <1>3, <1>4, <1>6, <2>1, <2>2, CountsType
  <2>4. \A a, b \in GivenOut' : a.counts = b.counts => a = b
    BY <1>3, <1>6, <2>1, <2>2, CountsType
  <2> QED  BY <1>1, <1>2, <1>4, <2>1, <2>3, <2>4, Zenon DEF IssuedIsCounted, CountsValid
<1>8. ActiveBeforeRevoked'
  BY <1>1, <1>2, <1>6 DEF LeaseInvariant, LeaseTypeOK, ActiveBeforeRevoked, RootHead, RevokedHead, ActiveGrant
<1>9. EffectIsVerified' /\ OneEffect'
  BY <1>1, EffectsSame, Zenon DEF LeaseInvariant
<1> QED  BY <1>5, <1>7, <1>8, <1>9, Zenon DEF LeaseInvariant

\* Releasing a lease, or losing it, issues nothing.
LEMMA ReleaseOK ==
    ASSUME LeaseInvariant, Release \/ LoseIssuer
    PROVE  LeaseInvariant'
<1>1. /\ LeaseTypeOK /\ unreleased \in Leases /\ unreleased' = NoLease
      /\ leases' = leases \/ leases' = leases \cup {unreleased}
      /\ UNCHANGED <<now, root, issuer, view, ledger, challenges, verified, effects>>
  BY Zenon DEF Release, LoseIssuer, LeaseInvariant, LeaseTypeOK
<1>2. LeaseTypeOK'
  BY <1>1, ZenonT(60) DEF LeaseTypeOK, RootHead, LedgerReadable, CountsValid
<1>3. GivenOut' \subseteq GivenOut
  BY <1>1, NoLeaseIsNone DEF GivenOut
<1> QED  BY <1>1, <1>2, <1>3, IssuedSame, ActiveSame, EffectsSame, Zenon DEF LeaseInvariant

-----------------------------------------------------------------------------
(* The chain and the clock *)

\* The root gives, revokes or extends.
LEMMA RootStepOK ==
    ASSUME LeaseInvariant, NEW grant \in {0, 1}, NEW member \in {0, 1}, RootStep(grant, member)
    PROVE  LeaseInvariant'
<1> DEFINE old == root[RootHead]
           new == [grant |-> grant, member |-> member, at |-> now,
                   grant_serial |-> old.grant_serial + (old.grant - grant),
                   member_serial |-> old.member_serial + (old.member - member)]
<1>1. /\ LeaseTypeOK /\ grant <= old.grant /\ member <= old.member /\ root' = Append(root, new)
      /\ UNCHANGED <<now, issuer, unreleased, leases, view, ledger, challenges, verified, effects>>
  BY Zenon DEF RootStep, LeaseInvariant
<1>2. RootHead \in Nat \ {0} /\ old \in Snapshots /\ root \in Seq(Snapshots) /\ now \in Nat
  BY <1>1, HeadsType, SMTT(30) DEF LeaseTypeOK
<1>3. new \in Snapshots /\ (old.grant = 0 \/ old.member = 0 => new.grant = 0 \/ new.member = 0) /\ new.at = now
  <2>1. old.grant \in {0, 1} /\ old.member \in {0, 1} /\ old.grant_serial \in Nat /\ old.member_serial \in Nat
    BY <1>2, Zenon DEF Snapshots
  <2>2. /\ old.grant_serial + (old.grant - grant) \in Nat /\ old.member_serial + (old.member - member) \in Nat
        /\ old.grant = 0 \/ old.member = 0 => grant = 0 \/ member = 0
    BY <1>1, <2>1, SMTT(30)
  <2> QED  BY <1>2, <2>2 DEF Snapshots
<1> HIDE DEF new
<1>4. /\ root' \in Seq(Snapshots) /\ root' # <<>> /\ RootHead' = RootHead + 1
      /\ root'[RootHead'] = new /\ \A h \in 1..RootHead : root'[h] = root[h]
  BY <1>1, <1>2, <1>3 DEF RootHead
<1>5. LeaseTypeOK'
  <2>1. view' \in [Target -> 1..RootHead']
    BY <1>1, <1>2, <1>4 DEF LeaseTypeOK
  <2> QED  BY <1>1, <1>4, <2>1, ZenonT(60) DEF LeaseTypeOK, LedgerReadable, CountsValid
<1>6. GivenOut' = GivenOut
  BY <1>1 DEF GivenOut
<1>7. ActiveBeforeRevoked'
  <2>1. /\ \A h \in 1..RootHead : RevokedHead(h) => RevokedHead(RootHead)
        /\ \A s \in GivenOut : s.issued_at <= now
        /\ \A s \in GivenOut, h \in 1..RootHead : ActiveGrant(s) /\ RevokedHead(h) => s.issued_at <= root[h].at
    BY Zenon DEF LeaseInvariant, ActiveBeforeRevoked
  <2>2. RevokedHead(RootHead) => RevokedHead(RootHead)'
    BY <1>3, <1>4, Zenon DEF RevokedHead
  <2>3. \A h \in 1..RootHead : RevokedHead(h)' <=> RevokedHead(h)
    BY <1>4, Zenon DEF RevokedHead
  <2>4. \A h \in 1..RootHead' : h \in 1..RootHead \/ h = RootHead'
    BY <1>2, <1>4
  <2>5. \A h \in 1..RootHead' : RevokedHead(h)' => RevokedHead(RootHead)'
    BY <2>1, <2>2, <2>3, <2>4, Zenon
  <2>6. \A s \in GivenOut, h \in 1..RootHead' : ActiveGrant(s) /\ RevokedHead(h)' => s.issued_at <= root'[h].at
    BY <1>3, <1>4, <2>1, <2>3, <2>4, ZenonT(60)
  <2> QED  BY <1>1, <1>6, <2>1, <2>5, <2>6, Zenon DEF ActiveBeforeRevoked, ActiveGrant
<1> QED  BY <1>1, <1>5, <1>6, <1>7, IssuedSame, EffectsSame, Zenon DEF LeaseInvariant

\* No verification is under way when the clock moves.
LEMMA TickOK ==
    ASSUME LeaseInvariant, Tick
    PROVE  LeaseInvariant'
<1>1. /\ LeaseTypeOK /\ verified = {} /\ now' = now + 1
      /\ UNCHANGED <<root, issuer, unreleased, leases, view, ledger, challenges, verified, effects>>
  BY Zenon DEF Tick, LeaseInvariant
<1>2. LeaseTypeOK'
  BY <1>1, SMTT(30) DEF LeaseTypeOK, RootHead, LedgerReadable, CountsValid
<1>3. GivenOut' = GivenOut
  BY <1>1 DEF GivenOut
<1>4. ActiveBeforeRevoked'
  <2>1. \A s \in GivenOut : s.issued_at <= now /\ s.issued_at \in Nat /\ now \in Nat
    BY <1>1, IssuedLeases, CountsType, Zenon DEF LeaseInvariant, LeaseTypeOK, ActiveBeforeRevoked
  <2>2. \A s \in GivenOut : s.issued_at <= now'
    BY <1>1, <2>1
  <2> QED  BY <1>1, <1>3, <2>2, Zenon DEF LeaseInvariant, ActiveBeforeRevoked, RootHead, RevokedHead, ActiveGrant
<1>5. EffectIsVerified' /\ OneEffect'
  <2>1. \A t \in Target : Nonces(t)' = Nonces(t)
    BY <1>1, Zenon DEF Nonces
  <2> QED  BY <1>1, <2>1, Zenon DEF LeaseInvariant, EffectIsVerified, OneEffect, ActiveGrant
<1> QED  BY <1>1, <1>2, <1>3, <1>4, <1>5, IssuedSame, Zenon DEF LeaseInvariant

-----------------------------------------------------------------------------
(* The targets *)

\* A target follows the chain.
LEMMA FollowOK ==
    ASSUME LeaseInvariant, NEW t \in Target, NEW h \in 1..RootHead, Follow(t, h)
    PROVE  LeaseInvariant'
<1>1. /\ LeaseTypeOK /\ view' = [view EXCEPT ![t] = h]
      /\ UNCHANGED <<now, root, issuer, unreleased, leases, ledger, challenges, verified, effects>>
  BY Zenon DEF Follow, LeaseInvariant
<1>2. LeaseTypeOK'
  BY <1>1, ZenonT(60) DEF LeaseTypeOK, RootHead, LedgerReadable, CountsValid
<1>3. GivenOut' = GivenOut
  BY <1>1, Zenon DEF GivenOut
<1> QED  BY <1>1, <1>2, <1>3, IssuedSame, ActiveSame, EffectsSame, Zenon DEF LeaseInvariant

\* A nonce is drawn that no challenge and no effect of the target has.
LEMMA ChallengeOK ==
    ASSUME LeaseInvariant, NEW t \in Target, NEW nonce \in 1..MaxNonce, Challenge(t, nonce)
    PROVE  LeaseInvariant'
<1> DEFINE c == [nonce |-> nonce, expires_at |-> now + AssertionTime]
<1>1. /\ LeaseTypeOK /\ nonce = Cardinality(Nonces(t)) + 1
      /\ challenges' = [challenges EXCEPT ![t] = @ \cup {c}]
      /\ UNCHANGED <<now, root, issuer, unreleased, leases, view, ledger, verified, effects>>
  BY Zenon DEF Challenge, LeaseInvariant
<1>2. nonce \in Nat /\ c \in [nonce : Nat, expires_at : Nat] /\ c.nonce = nonce
  <2>1. AssertionTime \in Nat /\ MaxNonce \in Nat /\ now \in Nat
    BY <1>1, LeaseAssumption, Zenon DEF LeaseTypeOK
  <2> QED  BY <2>1
<1> HIDE DEF c
<1>3. /\ challenges' \in [Target -> SUBSET [nonce : Nat, expires_at : Nat]]
      /\ challenges'[t] = challenges[t] \cup {c}
      /\ \A u \in Target \ {t} : challenges'[u] = challenges[u]
  BY <1>1, <1>2, ZenonT(60) DEF LeaseTypeOK
<1>4. LeaseTypeOK'
  BY <1>1, <1>3, ZenonT(60) DEF LeaseTypeOK, RootHead, LedgerReadable, CountsValid
<1>5. GivenOut' = GivenOut
  BY <1>1 DEF GivenOut
<1>6. \A u \in Target : Cardinality(Nonces(u)) \in Nat /\ Nonces(u) = 1..Cardinality(Nonces(u))
  BY DEF LeaseInvariant, EffectIsVerified
<1>7. nonce \notin Nonces(t)
  BY <1>1, <1>6
<1>8. ASSUME NEW u \in Target PROVE Cardinality(Nonces(u)') \in Nat /\ Nonces(u)' = 1..Cardinality(Nonces(u)')
  <2>1. CASE u # t
    <3>1. Nonces(u)' = Nonces(u)
      BY <1>1, <1>3, <2>1, Zenon DEF Nonces
    <3> QED  BY <1>6, <3>1, Zenon
  <2>2. CASE u = t
    <3>1. Nonces(t)' = Nonces(t) \cup {nonce}
      <4>1. {d.nonce : d \in challenges'[t]} = {d.nonce : d \in challenges[t]} \cup {nonce}
        BY <1>2, <1>3, Zenon
      <4> QED  BY <1>1, <4>1, Zenon DEF Nonces
    <3>2. Nonces(t)' = 1..nonce
      BY <1>1, <1>6, <3>1
    <3>3. Cardinality(1..nonce) = nonce
      BY FS_Interval
    <3> QED  BY <1>2, <2>2, <3>2, <3>3, Zenon
  <2> QED  BY <2>1, <2>2, Zenon
<1>9. ASSUME NEW e \in effects, NEW d \in challenges'[e.target] PROVE d.nonce # e.nonce
  <2>1. e.target \in Target /\ \A x \in challenges[e.target] : x.nonce # e.nonce
    BY DEF LeaseInvariant, LeaseTypeOK, EffectIsVerified
  <2>2. e.target = t => e.nonce \in Nonces(t)
    BY Zenon DEF Nonces
  <2> QED  BY <1>2, <1>3, <1>7, <1>9, <2>1, <2>2, ZenonT(60)
<1>10. EffectIsVerified' /\ OneEffect'
  BY <1>1, <1>8, <1>9, Zenon DEF LeaseInvariant, EffectIsVerified, OneEffect
<1> QED  BY <1>1, <1>4, <1>5, <1>10, IssuedSame, ActiveSame, Zenon DEF LeaseInvariant

\* A verification read the ledger it expects to find, and moves it forward.
LEMMA VerifyOK ==
    ASSUME LeaseInvariant, NEW t \in Target, NEW s \in leases, NEW c \in challenges[t], NEW a, Verify(t, s, c, a)
    PROVE  LeaseInvariant'
<1> DEFINE r == [target |-> t, nonce |-> c.nonce, expected |-> ledger[t], next |-> Advanced(ledger[t], s)]
<1>1. /\ LeaseTypeOK /\ StatusCheck(t, s) /\ ObserveValid(ledger[t], s) /\ ActiveGrant(s)
      /\ verified' = verified \cup {r}
      /\ UNCHANGED <<now, root, issuer, unreleased, leases, view, ledger, challenges, effects>>
  BY Zenon DEF Verify, LeaseInvariant
<1>2. s \in Leases /\ ledger[t] \in Ledgers /\ c.nonce \in Nat
  BY <1>1 DEF LeaseTypeOK
<1>3. Advanced(ledger[t], s) \in Ledgers /\ Advanced(ledger[t], s).status = s
  BY <1>2, AdvancedIs, SMTT(30)
<1>4. /\ r \in [target : Target, nonce : Nat, expected : Ledgers, next : Ledgers]
      /\ r.next.status = s /\ r.next = Advanced(r.expected, s) /\ r.expected = ledger[t]
  BY <1>2, <1>3, ZenonT(60)
<1>5. now <= s.issued_at + TargetAge
  <2>1. now \in Nat /\ s.issued_at \in Nat /\ TargetAge \in Nat
    BY <1>1, <1>2, CountsType, Zenon DEF LeaseTypeOK
  <2> QED  BY <1>1, <2>1 DEF StatusCheck
<1> HIDE DEF r
<1>6. LeaseTypeOK'
  BY <1>1, <1>4, ZenonT(60) DEF LeaseTypeOK, RootHead, LedgerReadable, CountsValid
<1>7. GivenOut' = GivenOut
  BY <1>1, Zenon DEF GivenOut
<1>8. EffectIsVerified' /\ OneEffect'
  <2>1. \A u \in Target : Nonces(u)' = Nonces(u)
    BY <1>1, Zenon DEF Nonces
  <2>2. ObserveValid(r.expected, s)
    BY <1>1, <1>4, Zenon
  <2> QED  BY <1>1, <1>4, <1>5, <2>1, <2>2, ZenonT(60) DEF LeaseInvariant, EffectIsVerified, OneEffect
<1> QED  BY <1>1, <1>6, <1>7, <1>8, IssuedSame, ActiveSame, ZenonT(60) DEF LeaseInvariant

\* What a redemption that finds its ledger and its challenge does.
Redeems(r) ==
    /\ ledger[r.target] = r.expected
    /\ ledger' = [ledger EXCEPT ![r.target] = r.next]
    /\ \E c \in challenges[r.target] : c.nonce = r.nonce
    /\ challenges' = [challenges EXCEPT ![r.target] = {c \in @ : c.nonce # r.nonce}]
    /\ effects' = effects \cup {[target |-> r.target, nonce |-> r.nonce, at |-> now, lease |-> r.next.status]}

\* What redeem does to the ledger, the challenge and the effects.
LEMMA RedeemIs ==
    ASSUME NEW r \in verified, Redeem(r)
    PROVE  /\ verified' = verified \ {r} /\ UNCHANGED <<now, root, issuer, unreleased, leases, view>>
           /\ Redeems(r) \/ UNCHANGED <<ledger, challenges, effects>>
BY Zenon DEF Redeem, Redeems

\* The transaction that redeems a verified lease.
LEMMA RedeemOK ==
    ASSUME LeaseInvariant, NEW r \in verified, Redeem(r)
    PROVE  LeaseInvariant'
<1> DEFINE s == r.next.status
           t == r.target
           e == [target |-> t, nonce |-> r.nonce, at |-> now, lease |-> s]
<1>1. /\ LeaseTypeOK /\ verified' = verified \ {r}
      /\ UNCHANGED <<now, root, issuer, unreleased, leases, view>> /\ GivenOut' = GivenOut
  BY RedeemIs, Zenon DEF LeaseInvariant, GivenOut
<1>2. CASE UNCHANGED <<ledger, challenges, effects>>
  <2>1. LeaseTypeOK'
    BY <1>1, <1>2, ZenonT(60) DEF LeaseTypeOK, RootHead, LedgerReadable, CountsValid
  <2> QED  BY <1>1, <1>2, <2>1, IssuedSame, ActiveSame, EffectsSame, ZenonT(60) DEF LeaseInvariant
<1>3. CASE Redeems(r)
  <2>1. /\ s \in leases /\ ActiveGrant(s) /\ now <= s.issued_at + TargetAge
        /\ ObserveValid(r.expected, s) /\ r.next = Advanced(r.expected, s)
    BY Zenon DEF LeaseInvariant, EffectIsVerified
  <2>2. t \in Target /\ r.nonce \in Nat /\ r.expected \in Ledgers /\ s \in Leases
    BY <1>1, <2>1, ZenonT(60) DEF LeaseTypeOK
  <2>3. /\ r.next \in Ledgers /\ LedgerReadable(r.next)
        /\ r.next.issued_at = s.issued_at /\ r.next.counts = s.counts
    BY <2>1, <2>2, AdvancedIs DEF ObserveValid, CommonValid
  <2>4. /\ e \in [target : Target, nonce : Nat, at : Nat, lease : Leases]
        /\ e.target = t /\ e.nonce = r.nonce /\ e.at = now /\ e.lease = s
    BY <1>1, <2>2, Zenon DEF LeaseTypeOK
  <2>5. /\ ledger' = [ledger EXCEPT ![t] = r.next] /\ effects' = effects \cup {e}
        /\ challenges' = [challenges EXCEPT ![t] = {c \in @ : c.nonce # r.nonce}]
        /\ \E c \in challenges[t] : c.nonce = r.nonce
    BY <1>3, Zenon DEF Redeems
  <2> HIDE DEF e, s, t
  <2>6. /\ \A u \in Target : ledger'[u] = ledger[u] \/ ledger'[u] = r.next
        /\ challenges'[t] = {c \in challenges[t] : c.nonce # r.nonce}
        /\ \A u \in Target \ {t} : challenges'[u] = challenges[u]
        /\ \A u \in Target : challenges'[u] \subseteq challenges[u]
    BY <1>1, <2>2, <2>5, ZenonT(60) DEF LeaseTypeOK
  <2>7. LeaseTypeOK'
    <3>1. /\ ledger' \in [Target -> Ledgers] /\ \A u \in Target : LedgerReadable(ledger'[u])
      BY <1>1, <2>2, <2>3, <2>5, <2>6, Zenon DEF LeaseTypeOK
    <3>2. challenges' \in [Target -> SUBSET [nonce : Nat, expires_at : Nat]]
      BY <1>1, <2>2, <2>5, Zenon DEF LeaseTypeOK
    <3> QED  BY <1>1, <2>4, <2>5, <3>1, <3>2, SMTT(30) DEF LeaseTypeOK, RootHead, LedgerReadable, CountsValid
  <2>8. IssuedIsCounted'
    BY <1>1, <2>3, <2>6, ZenonT(60) DEF LeaseInvariant, IssuedIsCounted, CountsValid, s
  <2>9. \A x \in effects : x.target = t => x.nonce # r.nonce
    BY <2>5, Zenon DEF LeaseInvariant, EffectIsVerified
  <2>10. OneEffect'
    BY <2>4, <2>5, <2>9, ZenonT(60) DEF LeaseInvariant, OneEffect
  <2>11. ASSUME NEW u \in Target PROVE Nonces(u)' = Nonces(u)
    <3>1. CASE u # t
      BY <2>4, <2>5, <2>6, <3>1, ZenonT(60) DEF Nonces
    <3>2. CASE u = t
      <4>1. ASSUME NEW n \in Nonces(t)' PROVE n \in Nonces(t)
        BY <2>4, <2>5, <2>6 DEF Nonces
      <4>2. ASSUME NEW n \in Nonces(t) PROVE n \in Nonces(t)'
        BY <2>4, <2>5, <2>6, SMTT(30) DEF Nonces
      <4> QED  BY <3>2, <4>1, <4>2, SMTT(30)
    <3> QED  BY <3>1, <3>2, Zenon
  <2>12. EffectIsVerified'
    <3>1. \A x \in effects' :
              /\ x.lease \in leases /\ ActiveGrant(x.lease) /\ x.at <= x.lease.issued_at + TargetAge
              /\ \A c \in challenges'[x.target] : c.nonce # x.nonce
      BY <1>1, <2>1, <2>2, <2>4, <2>5, <2>6 DEF LeaseInvariant, LeaseTypeOK, EffectIsVerified, s
    <3> QED  BY <1>1, <2>11, <3>1, ZenonT(60) DEF LeaseInvariant, EffectIsVerified
  <2> QED  BY <1>1, <2>7, <2>8, <2>10, <2>12, ActiveSame, Zenon DEF LeaseInvariant
<1> QED  BY <1>2, <1>3, RedeemIs, Zenon

-----------------------------------------------------------------------------

\* The invariant holds initially.
LEMMA LeasesInit == LeaseInit => LeasesAreSafe
<1> SUFFICES ASSUME LeaseInit PROVE LeaseInvariant
  BY SafeIs, Zenon
<1>1. ZeroCounts \in Counts /\ CountsValid(ZeroCounts)
  BY LeaseAssumption DEF ZeroCounts, Counts, CountsValid, PolicyCap
<1>2. NewLedger \in Ledgers /\ LedgerReadable(NewLedger) /\ NewLedger.status = NoLease
  BY <1>1, Zenon DEF NewLedger, Ledgers, LedgerReadable
<1>3. LeaseTypeOK
  BY <1>2 DEF LeaseInit, LeaseTypeOK, RootHead, Snapshots
<1>4. GivenOut = {}
  BY Zenon DEF LeaseInit, GivenOut
<1>5. IssuedIsCounted
  BY <1>2, <1>4, Zenon DEF LeaseInit, IssuedIsCounted
<1>6. ActiveBeforeRevoked
  BY <1>4 DEF LeaseInit, ActiveBeforeRevoked, RootHead, RevokedHead
<1>7. \A t \in Target : Nonces(t) = {}
  BY Zenon DEF LeaseInit, Nonces
<1>8. EffectIsVerified /\ OneEffect
  <2>1. Cardinality({}) = 0 /\ {} = 1..0
    BY FS_EmptySet
  <2>2. ASSUME NEW t \in Target
        PROVE  Cardinality(Nonces(t)) \in Nat /\ Nonces(t) = 1..Cardinality(Nonces(t))
    <3>1. Nonces(t) = {} /\ Cardinality(Nonces(t)) = 0
      BY <1>7, <2>1, Zenon
    <3> QED  BY <2>1, <3>1
  <2> QED  BY <2>2, Zenon DEF LeaseInit, EffectIsVerified, OneEffect
<1> QED  BY <1>3, <1>5, <1>6, <1>8, Zenon DEF LeaseInvariant

\* A step that changes nothing.
LEMMA StutterOK ==
    ASSUME LeaseInvariant, UNCHANGED leaseVars
    PROVE  LeaseInvariant'
<1>1. LeaseTypeOK' /\ GivenOut' = GivenOut
  BY ZenonT(60) DEF LeaseInvariant, leaseVars, GivenOut, LeaseTypeOK, RootHead, LedgerReadable, CountsValid
<1> QED  BY <1>1, IssuedSame, ActiveSame, EffectsSame, Zenon DEF LeaseInvariant, leaseVars

\* Every step keeps the invariant.
LEMMA LeasesNext == LeaseInvariant /\ [LeaseNext]_leaseVars => LeaseInvariant'
<1> SUFFICES ASSUME LeaseInvariant, [LeaseNext]_leaseVars PROVE LeaseInvariant'
  OBVIOUS
<1>1. CASE UNCHANGED leaseVars \/ Tick \/ Release \/ LoseIssuer
  BY <1>1, StutterOK, TickOK, ReleaseOK, Zenon
<1>2. CASE \E grant, member \in {0, 1} : RootStep(grant, member)
  BY <1>2, RootStepOK, Zenon
<1>3. CASE \E mode \in Mode, n \in Counts, life \in 1..LeaseTime : Issue(mode, n, life)
  BY <1>3, IssueOK, Zenon
<1>4. ASSUME NEW t \in Target,
             \/ \E h \in 1..RootHead : Follow(t, h)
             \/ \E nonce \in 1..MaxNonce : Challenge(t, nonce)
             \/ \E s \in leases, c \in challenges[t] : \E a \in Assertions(c) : Verify(t, s, c, a)
      PROVE  LeaseInvariant'
  BY <1>4, FollowOK, ChallengeOK, VerifyOK, Zenon
<1>5. CASE \E r \in verified : Redeem(r)
  BY <1>5, RedeemOK
<1> QED  BY <1>1, <1>2, <1>3, <1>4, <1>5, Zenon DEF LeaseNext

\* However often the issuer is lost between its ledger and a release, and
\* whatever is being verified at the time: at most the first lease and TotalCap
\* renewals are ever out, a challenge has at most one effect, and no effect is
\* later than the target's status age after a revocation at the root
\* (draft_issue, verify_remap_action, SpendLedger::redeem).
THEOREM LeasesAlwaysSafe == LeaseSpec => []LeasesAreSafe
<1>1. LeasesAreSafe /\ [LeaseNext]_leaseVars => LeasesAreSafe'
  <2>1. LeasesAreSafe' <=> LeaseInvariant'
    BY SafeIs, PTL
  <2> QED  BY <2>1, SafeIs, LeasesNext, Zenon
<1> QED  BY <1>1, LeasesInit, PTL DEF LeaseSpec

-----------------------------------------------------------------------------
(* Leases never return *)

\* What a step may do to the ledger of a target.
MovesForward(t) ==
    LET l == ledger[t]  n == ledger'[t] IN
    /\ n.issued_at >= l.issued_at
    /\ n.counts.total >= l.counts.total
    /\ n.counts = l.counts /\ l.status # NoLease => n = l

\* A ledger that stays has not gone back.
LEMMA SameMovesForward ==
    ASSUME LeaseInvariant, NEW t \in Target, ledger'[t] = ledger[t]
    PROVE  MovesForward(t)
<1>1. ledger[t] \in Ledgers
  BY Zenon DEF LeaseInvariant, LeaseTypeOK
<1>2. ledger[t].issued_at \in Nat /\ ledger[t].counts.total \in Nat
  BY <1>1, CountsType, Zenon DEF Ledgers
<1> QED  BY <1>2 DEF MovesForward

\* A ledger that is redeemed goes forward.
LEMMA RedeemMovesForward ==
    ASSUME LeaseInvariant, NEW r \in verified, Redeem(r), NEW t \in Target
    PROVE  MovesForward(t)
<1> DEFINE s == r.next.status
<1>1. CASE ledger'[t] = ledger[t]
  BY <1>1, SameMovesForward, Zenon
<1>2. CASE ledger'[t] # ledger[t]
  <2>1. Redeems(r) /\ LeaseTypeOK
    BY <1>2, RedeemIs, Zenon DEF LeaseInvariant
  <2>2. t = r.target /\ ledger[t] = r.expected /\ ledger'[t] = r.next
    BY <1>2, <2>1, Zenon DEF Redeems, LeaseTypeOK
  <2>3. /\ s \in Leases /\ r.expected \in Ledgers
        /\ ObserveValid(r.expected, s) /\ r.next = Advanced(r.expected, s)
    BY <2>1, Zenon DEF LeaseInvariant, EffectIsVerified, LeaseTypeOK
  <2>4. r.next = [counts |-> s.counts, issued_at |-> s.issued_at, status |-> s]
    BY <2>3, AdvancedIs, Zenon
  <2> HIDE DEF s
  <2>5. r.next.counts = s.counts /\ r.next.issued_at = s.issued_at
    BY <2>4, SMTT(30)
  <2>6. r.next.issued_at >= r.expected.issued_at /\ r.next.counts.total >= r.expected.counts.total
    BY <2>3, <2>5, Zenon DEF ObserveValid, CommonValid
  <2>7. ASSUME s.counts = r.expected.counts, r.expected.status # NoLease PROVE r.next = r.expected
    <3>1. r.expected.status = s
      BY <2>3, <2>7, Zenon DEF ObserveValid
    <3>2. r.expected.issued_at = s.issued_at
      BY <2>2, <2>7, <3>1, Zenon DEF LeaseInvariant, IssuedIsCounted
    <3> QED  BY <2>3, <2>4, <2>7, <3>1, <3>2, Zenon DEF Ledgers
  <2> QED  BY <2>2, <2>5, <2>6, <2>7, Zenon DEF MovesForward
<1> QED  BY <1>1, <1>2, Zenon

\* No step takes a ledger back.
LEMMA NextMovesForward ==
    ASSUME LeaseInvariant, [LeaseNext]_leaseVars, NEW t \in Target
    PROVE  MovesForward(t)
<1>1. ledger' = ledger \/ \E r \in verified : Redeem(r)
  BY ZenonT(60) DEF LeaseNext, leaseVars, Tick, Release, LoseIssuer, RootStep, Issue, Follow, Challenge, Verify
<1>2. CASE ledger' = ledger
  BY <1>2, SameMovesForward
<1>3. ASSUME NEW r \in verified, Redeem(r) PROVE MovesForward(t)
  BY <1>3, RedeemMovesForward
<1> QED  BY <1>1, <1>2, <1>3, Zenon

\* No verification, however late it redeems, takes a target back to an earlier
\* lease or exchanges the lease at given counts for another (draft_observe
\* under SpendLedger::redeem).
THEOREM LeasesOnlyMoveForward == LeaseSpec => LeasesNeverReturn
<1>1. LeaseInit => LeaseInvariant
  BY LeasesInit, SafeIs, Zenon
<1>2. LeaseInvariant /\ [LeaseNext]_leaseVars => [\A t \in Target : MovesForward(t)]_leaseVars
  BY NextMovesForward
<1> QED  BY <1>1, <1>2, LeasesNext, PTL DEF LeaseSpec, LeasesNeverReturn, MovesForward
=============================================================================
