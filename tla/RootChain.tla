------------------------------ MODULE RootChain ------------------------------
(***************************************************************************)
(* The verifiers of a root chain: threshold/step.rs, threshold/step/       *)
(* chain.rs, threshold/step/grant.rs, threshold/regroup.rs and the review  *)
(* of threshold/session/policy.rs.                                         *)
(*                                                                         *)
(* A verifier is handed signed steps in any order and any number of times. *)
(* A step is known by the digest of its content, whoever signed it;        *)
(* Content says what each digest stands for.  A signature is the key it    *)
(* verifies under.  The chain is in memory, so nothing is lost half-way.   *)
(*                                                                         *)
(* A call of accept that has moved the tip goes on with the steps it holds *)
(* one at a time; no other call of that verifier runs before it returns.   *)
(* Digests are hashes, so the order in which BTreeMap yields the held      *)
(* steps is any order.  Counters do not reach 2^64.                        *)
(***************************************************************************)
EXTENDS Integers, FiniteSets, Sequences

CONSTANTS
    Verifier,
    Digest,         \* steps, by content
    Founding,       \* the founding digest
    Content,        \* [Digest -> StepRecord]
    Hive,
    Key, NoKey,
    RootGroup,      \* the founding root group
    RecoveryGroup,  \* the founding recovery descriptor
    Nothing,
    MaxRecords      \* MAX_RECORDS

VARIABLES
    chain,      \* what each verifier holds
    draining    \* whether its call is still taking up held steps

chainVars == <<chain, draining>>

Point == Digest \cup {Founding}

Operation ==
    {"issue-membership", "revoke", "trust-anchor", "allocate-name", "issue-leaf", "reshare",
     "succession", "set-recovery-group", "admit-roster", "grant", "revoke-grant"}

SignerRole == {"device", "owner-presence"}

Presence == {"required", "policy"}

\* A grant with one operation; its target and the operation's name do not
\* matter to the chain.
GrantRecord(g) ==
    /\ g.signer_role \in SignerRole /\ g.presence \in Presence
    /\ g.custody \in {"software", "hardware"}
    /\ g.not_before \in Nat /\ g.not_after \in Nat

GroupRecord(g) == g.key \in Key /\ g.generation \in Nat

\* A recovery descriptor names the one it replaces.
RecoveryRecord(r) == GroupRecord(r.group) /\ r.sequence \in Nat

SuccessionRecord(t) ==
    /\ t.kind \in {"planned", "recovery"}
    /\ t.previous_key \in Key
    /\ GroupRecord(t.successor) /\ RecoveryRecord(t.recovery)
    /\ {t.possession, t.recovery_possession} \subseteq Key \cup {NoKey}

\* What every step record has: an envelope, and a payload that only a grant,
\* a revocation of one and a succession interpret.
StepRecord(s) ==
    /\ s.predecessor \in Point
    /\ s.sequence \in Nat /\ s.epoch \in Nat /\ s.recovery_gen \in Nat
    /\ s.operation \in Operation
    /\ s.operation = "grant" => GrantRecord(s.payload)
    /\ s.operation = "succession" => SuccessionRecord(s.payload)

\* A signature is known by the key it verifies under.
SignedBy(k, g) == k = g.key

\* The founding pair that Chain::new accepts.
ASSUME ChainAssumption ==
    /\ Founding \notin Digest
    /\ IsFiniteSet(Digest)
    /\ MaxRecords \in Nat
    /\ NoKey \notin Key
    /\ Nothing \notin Digest
    /\ \A d \in Digest : StepRecord(Content[d])
    /\ GroupRecord(RootGroup) /\ RecoveryRecord(RecoveryGroup)
    /\ RecoveryGroup.sequence = 0
    /\ RecoveryGroup.predecessor = Nothing
    /\ RecoveryGroup.group.key # RootGroup.key
    /\ RecoveryGroup.group.label = RootGroup.label

-----------------------------------------------------------------------------
(* grant.rs *)

GrantLifetime == 366 * 24 * 60 * 60   \* MAX_LIFETIME

\* Grant::validate: an operation that needs presence needs a signer that was
\* enrolled for presence, and that one is in hardware.
GrantValid(g) ==
    /\ g.not_before < g.not_after
    /\ g.not_after - g.not_before <= GrantLifetime
    /\ g.signer_role = "owner-presence" => g.custody = "hardware"
    /\ g.presence = "required" => g.signer_role = "owner-presence"
    /\ g.possession = g.signer

RevocationValid(r) == r.serial # 0

\* validate_step: the payload repeats the place of its step.
PayloadValid(s) ==
    /\ s.operation = "grant" => GrantValid(s.payload)
    /\ s.operation = "revoke-grant" => RevocationValid(s.payload)
    /\ s.operation \in {"grant", "revoke-grant"} =>
          /\ s.payload.hive = s.hive
          /\ s.payload.issuer_head = s.predecessor
          /\ s.payload.issuer_sequence = s.sequence - 1

\* RootStep::encode has an encoding, and so a digest.
WellFormed(s) == s.sequence # 0 /\ PayloadValid(s)

-----------------------------------------------------------------------------
(* regroup.rs *)

IsSuccession(s) == s.operation = "succession"

IsRecovery(s) == IsSuccession(s) /\ s.payload.kind = "recovery"

\* The successor, and a recovery group that replaces another, have signed too.
PossessionProved(t, changed) ==
    /\ t.possession = t.successor.key
    /\ t.recovery_possession = IF changed THEN t.recovery.group.key ELSE NoKey

-----------------------------------------------------------------------------
(* chain.rs *)

FoundingContext == [group |-> RootGroup, epoch |-> 0, recovery_gen |-> 0, sequence |-> 0]

NewChain ==
    [tip |-> Founding,
     current |-> FoundingContext,
     recovery |-> RecoveryGroup,
     contexts |-> [p \in Point |-> IF p = Founding THEN FoundingContext ELSE Nothing],
     records |-> {},
     pending |-> [d \in Digest |-> NoKey],
     children |-> [p \in Point |-> Nothing],
     active |-> <<>>,
     recovery_proofs |-> {},
     grants |-> {},
     used_grant_ids |-> {},
     grant_revocation_serial |-> 0,
     status |-> "active",
     recovery_fork |-> FALSE,
     conflict |-> Nothing]

Order(c) == <<c.current.recovery_gen, c.current.epoch, c.current.sequence>>

Held(c) == {d \in Digest : c.pending[d] # NoKey}

Full(c) == Cardinality(c.records) >= MaxRecords

Known(c, s) == c.contexts[s.predecessor] # Nothing

\* A planned succession replaces the root group and nothing else.
PlannedValid(c, s, context) ==
    LET t == s.payload IN
    /\ t.kind = "planned"
    /\ t.previous_key = context.group.key
    /\ t.recovery = c.recovery
    /\ t.successor.key \notin {context.group.key, t.recovery.group.key}
    /\ t.successor.label = context.group.label
    /\ t.successor.generation = context.group.generation + 1
    /\ PossessionProved(t, FALSE)

\* An ordinary step extends the context it names, signed by its group.
Authentic(c, s, k) ==
    LET context == c.contexts[s.predecessor] IN
    /\ context.recovery_gen = c.current.recovery_gen
    /\ s.epoch = context.epoch
    /\ s.sequence = context.sequence + 1
    /\ SignedBy(k, context.group)
    /\ IsSuccession(s) => PlannedValid(c, s, context)

\* The context behind the step.
NextContext(c, s) ==
    LET context == c.contexts[s.predecessor] IN
    IF IsSuccession(s)
    THEN [context EXCEPT !.sequence = s.sequence, !.epoch = @ + 1, !.group = s.payload.successor]
    ELSE [context EXCEPT !.sequence = s.sequence]

\* Faulty variant: an id is free again once its grant is gone.
GrantTransitionValid_Reuse(c, s) ==
    /\ s.operation = "grant" => s.payload.id \notin c.grants
    /\ s.operation = "revoke-grant" =>
          /\ s.payload.id \in c.grants
          /\ s.payload.serial = c.grant_revocation_serial + 1

GrantTransitionValid(c, s) ==
    /\ s.operation = "grant" =>
          /\ Cardinality(c.used_grant_ids) < MaxRecords
          /\ s.payload.id \notin c.used_grant_ids
    /\ s.operation = "revoke-grant" =>
          /\ s.payload.id \in c.grants
          /\ s.payload.serial = c.grant_revocation_serial + 1

\* Why an ordinary step is refused, or what becomes of it.
OrdinaryOutcome(c, d, k) ==
    LET s == Content[d] IN
    IF \/ c.status # "active"
       \/ s.operation \in {"set-recovery-group", "reshare"}
       \/ s.recovery_gen # c.current.recovery_gen THEN "refused"
    ELSE IF ~Known(c, s) THEN IF Cardinality(Held(c)) >= MaxRecords THEN "refused" ELSE "held"
    ELSE IF ~Authentic(c, s, k) THEN "refused"
    ELSE IF d \in c.records THEN "duplicate"
    ELSE IF c.children[s.predecessor] \notin {Nothing, d} THEN "fork"
    ELSE IF Full(c) THEN "exhausted"
    ELSE IF s.predecessor # c.tip \/ ~GrantTransitionValid(c, s) THEN "refused"
    ELSE "accepted"

\* halt keeps the second branch as evidence whether or not there is room for it.
Halt(c, first, d) ==
    [c EXCEPT !.records = IF Full(c) THEN @ ELSE @ \cup {d},
              !.conflict = [first |-> first, second |-> d],
              !.status = "halted"]

\* Faulty variant: the fork is recorded and administration goes on.
ForkedChain_Goes(c, d) ==
    [c EXCEPT !.records = IF Full(c) THEN @ ELSE @ \cup {d},
              !.conflict = [first |-> c.children[Content[d].predecessor], second |-> d]]

ForkedChain(c, d) ==
    LET s == Content[d]
        h == Halt(c, c.children[s.predecessor], d)
    IN  IF d \in h.records THEN [h EXCEPT !.contexts[d] = NextContext(c, s)] ELSE h

Extended(c, d) ==
    LET s == Content[d] IN
    [c EXCEPT !.children[s.predecessor] = d,
              !.grants = CASE s.operation = "grant" -> @ \cup {s.payload.id}
                           [] s.operation = "revoke-grant" -> @ \ {s.payload.id}
                           [] OTHER -> @,
              !.used_grant_ids = IF s.operation = "grant" THEN @ \cup {s.payload.id} ELSE @,
              !.grant_revocation_serial = IF s.operation = "revoke-grant" THEN s.payload.serial ELSE @,
              !.records = @ \cup {d},
              !.contexts[d] = NextContext(c, s),
              !.current = NextContext(c, s),
              !.tip = d,
              !.active = Append(@, d)]

Ordinary(c, d, k) ==
    LET outcome == OrdinaryOutcome(c, d, k) IN
    [outcome |-> outcome,
     chain |-> CASE outcome = "held" -> [c EXCEPT !.pending[d] = k]
                 [] outcome = "fork" -> ForkedChain(c, d)
                 [] outcome = "exhausted" -> [c EXCEPT !.status = "exhausted"]
                 [] outcome = "accepted" -> Extended(c, d)
                 [] OTHER -> c]

ProofAt(c, gen) == {p \in c.recovery_proofs : Content[p.step].recovery_gen = gen}

\* validate_recovery: the context is only compared if the verifier has it.
RecoveryValid(c, s, authority) ==
    LET t == s.payload
        context == c.contexts[s.predecessor]
        changed == t.recovery # authority
    IN  /\ t.retained = {}
        /\ t.successor.label = c.current.group.label
        /\ t.successor.key \notin {t.previous_key, t.recovery.group.key}
        /\ t.recovery.group.label = c.current.group.label
        /\ Known(c, s) =>
              /\ t.previous_key = context.group.key
              /\ s.epoch = context.epoch
              /\ s.sequence = context.sequence + 1
        /\ changed =>
              /\ t.recovery.sequence = authority.sequence + 1
              /\ t.recovery.predecessor = authority
              /\ t.recovery.group.key # authority.group.key
              /\ t.recovery.group.generation = authority.group.generation + 1
        /\ PossessionProved(t, changed)

RecoveryOutcome(c, d, k) ==
    LET s == Content[d] IN
    IF ProofAt(c, s.recovery_gen) # {}
    THEN LET p == CHOOSE p \in ProofAt(c, s.recovery_gen) : TRUE IN
         IF ~SignedBy(k, p.authority.group) \/ ~RecoveryValid(c, s, p.authority) THEN "refused"
         ELSE IF p.step = d THEN "duplicate"
         ELSE "fork"
    ELSE IF \/ s.recovery_gen <= c.current.recovery_gen
            \/ ~SignedBy(k, c.recovery.group)
            \/ ~RecoveryValid(c, s, c.recovery) THEN "refused"
    ELSE IF Full(c) \/ Cardinality(c.recovery_proofs) >= MaxRecords THEN "exhausted"
    ELSE "accepted"

\* The records that lead to a digest, as far as the verifier has them.
Ancestry(c, p) ==
    LET up[n \in 0..MaxRecords] ==
          IF n = 0 THEN [at |-> p, path |-> <<>>]
          ELSE LET u == up[n - 1] IN
               IF u.at = Founding \/ u.at \notin c.records THEN u
               ELSE [at |-> Content[u.at].predecessor, path |-> <<u.at>> \o u.path]
    IN  up[MaxRecords].path

RecoveryContext(s) ==
    [group |-> s.payload.successor, epoch |-> s.epoch + 1, recovery_gen |-> s.recovery_gen,
     sequence |-> s.sequence]

\* Every grant ends; used ids and the serial stay.
Recovered(c, d) ==
    LET s == Content[d] IN
    [c EXCEPT !.active = Append(Ancestry(c, s.predecessor), d),
              !.grants = {},
              !.pending = [e \in Digest |-> NoKey],
              !.children = [p \in Point |-> Nothing],
              !.recovery_proofs = @ \cup {[step |-> d, authority |-> c.recovery]},
              !.records = @ \cup {d},
              !.contexts[d] = RecoveryContext(s),
              !.current = RecoveryContext(s),
              !.recovery = s.payload.recovery,
              !.tip = d,
              !.status = "active"]

Recovery(c, d, k) ==
    LET outcome == RecoveryOutcome(c, d, k)
        p == CHOOSE p \in ProofAt(c, Content[d].recovery_gen) : TRUE
    IN  [outcome |-> outcome,
         chain |-> CASE outcome = "fork" -> [Halt(c, p.step, d) EXCEPT !.recovery_fork = TRUE]
                     [] outcome = "exhausted" -> [c EXCEPT !.status = "exhausted"]
                     [] outcome = "accepted" -> Recovered(c, d)
                     [] OTHER -> c]

\* What accept refuses before it looks at the kind of step.
Unacceptable(c, s) == ~WellFormed(s) \/ s.hive # Hive \/ c.recovery_fork

\* accept up to the held steps.
Presented(c, d, k) ==
    LET s == Content[d] IN
    IF Unacceptable(c, s) THEN [outcome |-> "refused", chain |-> c]
    ELSE IF IsRecovery(s) THEN Recovery(c, d, k)
    ELSE Ordinary(c, d, k)

Accept(v, d, k) ==
    /\ ~draining[v]
    /\ LET r == Presented(chain[v], d, k) IN
          /\ chain' = [chain EXCEPT ![v] = r.chain]
          /\ draining' = [draining EXCEPT ![v] = (r.outcome = "accepted")]

Ready(c) == {d \in Held(c) : Known(c, Content[d])}

\* One round of drain_pending.  A held step that turns out invalid is dropped.
DrainPending(v) ==
    /\ draining[v]
    /\ IF chain[v].status # "active" \/ Ready(chain[v]) = {}
       THEN draining' = [draining EXCEPT ![v] = FALSE] /\ UNCHANGED chain
       ELSE \E d \in Ready(chain[v]) :
              LET c == [chain[v] EXCEPT !.pending[d] = NoKey]
                  r == Ordinary(c, d, chain[v].pending[d])
              IN  /\ chain' = [chain EXCEPT ![v] = r.chain]
                  /\ draining' = [draining EXCEPT ![v] = (r.outcome # "exhausted")]

ChainInit ==
    /\ chain = [v \in Verifier |-> NewChain]
    /\ draining = [v \in Verifier |-> FALSE]

ChainNext ==
    \E v \in Verifier :
       \/ \E d \in Digest, k \in Key : Accept(v, d, k)
       \/ DrainPending(v)

ChainSpec == ChainInit /\ [][ChainNext]_chainVars

-----------------------------------------------------------------------------
(* policy.rs: the review of a signer, who asks its own chain *)

\* ChainPolicy::succession.
SuccessionApproved(c, group, s, role) ==
    LET t == s.payload
        changed == t.recovery # c.recovery
    IN  /\ t.previous_key = c.current.group.key
        /\ t.successor.key \notin {c.current.group.key, t.recovery.group.key}
        /\ t.successor.label = c.current.group.label
        /\ t.recovery.group.label = c.current.group.label
        /\ t.successor.generation = c.current.group.generation + 1
        /\ t.kind = "planned" =>
              c.status = "active" /\ ~changed /\ s.recovery_gen = c.current.recovery_gen
        /\ t.kind = "recovery" =>
              /\ s.recovery_gen = c.current.recovery_gen + 1
              /\ t.retained = {}
              /\ changed =>
                    /\ t.recovery.sequence = c.recovery.sequence + 1
                    /\ t.recovery.predecessor = c.recovery
                    /\ t.recovery.group.key # c.recovery.group.key
                    /\ t.recovery.group.generation = c.recovery.group.generation + 1
        /\ \/ role = "root" /\ t.kind = "planned" /\ group = c.current.group
           \/ role = "recovery" /\ t.kind = "recovery" /\ group = c.recovery.group
           \/ role = "successor-possession" /\ group = t.successor
           \/ role = "recovery-possession" /\ t.kind = "recovery" /\ changed /\ group = t.recovery.group
        /\ IF role \in {"root", "recovery"} THEN PossessionProved(t, changed)
           ELSE t.possession = NoKey /\ t.recovery_possession = NoKey

\* ChainPolicy::review.
StepApproved(c, group, s, role) ==
    /\ s.sequence = c.current.sequence + 1
    /\ s.predecessor = c.tip
    /\ s.epoch = c.current.epoch
    /\ s.hive = Hive
    /\ c.current.group.key # c.recovery.group.key
    /\ WellFormed(s)
    /\ IF IsSuccession(s) THEN SuccessionApproved(c, group, s, role)
       ELSE /\ role = "root"
            /\ c.status = "active"
            /\ group = c.current.group
            /\ s.recovery_gen = c.current.recovery_gen
            /\ s.payload # Nothing
            /\ s.operation \notin {"reshare", "set-recovery-group"}

-----------------------------------------------------------------------------
(* Properties *)

\* The digests, keys and bounded collections of every verifier have their
\* types; no collection outgrows MAX_RECORDS (Chain).
ChainTypeOK ==
    /\ draining \in [Verifier -> BOOLEAN]
    /\ \A v \in Verifier : LET c == chain[v] IN
          /\ c.tip \in Point
          /\ c.records \subseteq Digest /\ Cardinality(c.records) <= MaxRecords
          /\ c.pending \in [Digest -> Key \cup {NoKey}] /\ Cardinality(Held(c)) <= MaxRecords
          /\ c.children \in [Point -> Digest \cup {Nothing}]
          /\ c.active \in Seq(Digest)
          /\ Cardinality(c.recovery_proofs) <= MaxRecords
          /\ c.grants \subseteq c.used_grant_ids /\ Cardinality(c.used_grant_ids) <= MaxRecords
          /\ c.status \in {"active", "halted", "exhausted"}
          /\ c.current = c.contexts[c.tip]

\* Ordinary steps of the generation a verifier is in.
CurrentSteps(c) ==
    {d \in c.records : ~IsRecovery(Content[d]) /\ Content[d].recovery_gen = c.current.recovery_gen}

\* A verifier that still administers has seen one successor of every step of
\* its generation: two of them, in whatever order they and their descendants
\* arrived, have halted it (accept_ordinary, halt).
OneBranch ==
    \A v \in Verifier : chain[v].status = "active" =>
        \A d, e \in CurrentSteps(chain[v]) :
            Content[d].predecessor = Content[e].predecessor => d = e

\* The branch that stands is a path of predecessors that ends in the tip, and
\* what it leaves out is not of the verifier's generation unless it is halted
\* (ancestry, accept_recovery).
ActiveIsBranch ==
    \A v \in Verifier : LET c == chain[v]  a == chain[v].active IN
        /\ c.tip = IF a = <<>> THEN Founding ELSE a[Len(a)]
        /\ \A i \in 1..Len(a) - 1 : Content[a[i + 1]].predecessor = a[i]
        /\ \A i \in 1..Len(a) : a[i] \in c.records
        /\ c.status = "active" => \A d \in CurrentSteps(c) : \E i \in 1..Len(a) : a[i] = d

\* When a call has returned, what an active verifier still holds is waiting
\* for a predecessor it does not know (drain_pending).
HeldOnlyUnknown ==
    \A v \in Verifier : ~draining[v] /\ chain[v].status = "active" =>
        \A d \in Held(chain[v]) : ~Known(chain[v], Content[d])

\* What a signer's review approves, its own chain accepts under the signature
\* of the group it was approved for, if the grant is one that can be applied
\* and there is room (ChainPolicy::review against accept).
ReviewedIsAccepted ==
    \A v \in Verifier, d \in Digest, role \in {"root", "recovery"} :
        LET c == chain[v]
            group == IF role = "root" THEN c.current.group ELSE c.recovery.group
        IN  /\ StepApproved(c, group, Content[d], role)
            /\ GrantTransitionValid(c, Content[d])
            /\ ~Full(c) /\ Cardinality(c.recovery_proofs) < MaxRecords
            /\ ~c.recovery_fork
            => /\ ~Unacceptable(c, Content[d])
               /\ "accepted" = IF IsRecovery(Content[d]) THEN RecoveryOutcome(c, d, group.key)
                               ELSE OrdinaryOutcome(c, d, group.key)

Less(a, b) ==
    \/ a[1] < b[1]
    \/ a[1] = b[1] /\ a[2] < b[2]
    \/ a[1] = b[1] /\ a[2] = b[2] /\ a[3] < b[3]

\* The tip only moves forward in the recovery-first order, evidence is never
\* dropped, and a grant that was revoked or ended by a recovery does not come
\* back (RootStep::order, accept, validate_grant_transition).
NothingReturns ==
    [][\A v \in Verifier : LET c == chain[v]  n == chain'[v] IN
          /\ n.tip # c.tip => Less(Order(c), Order(n))
          /\ c.records \subseteq n.records
          /\ (n.grants \cap c.used_grant_ids) \subseteq c.grants
          /\ n.grant_revocation_serial >= c.grant_revocation_serial
          /\ c.status # "active" /\ n.status = "active" =>
                n.current.recovery_gen > c.current.recovery_gen]_chainVars

\* In whatever order steps, forks and recoveries arrive, an administering
\* verifier stands on the one branch it has seen, holds only what it cannot
\* place, and accepts what its own review approves.
BranchStands ==
    ChainTypeOK /\ OneBranch /\ ActiveIsBranch /\ HeldOnlyUnknown /\ ReviewedIsAccepted
=============================================================================
