------------------------------ MODULE MCIdentity ------------------------------
(***************************************************************************)
(* The modules about who belongs to a hive and who decides it, for TLC.    *)
(* They share no state: a behaviour is one of the component that `part`    *)
(* names, and the others stay as they start.                               *)
(***************************************************************************)
EXTENDS LocalState, Enrollment, Authority, RootChain, OwnerActions, GroupFounding, TLC

CONSTANTS self, other1, other2, p1, p2

VARIABLE part

\* The founder with two more devices, and the commands of two terminals.
TheNodes == {self, other1, other2}
MCProc == {p1, p2}
MCSymmetry == Permutations({other1, other2})

\* One certificate id in two epochs.
TheCertificates ==
    {[id |-> "i", epoch |-> e, subject |-> "k", prover |-> "k", issuer |-> "d", from |-> 0, until |-> 1] :
        e \in {0, 1}}

-----------------------------------------------------------------------------

MCPlain(pred, seq, epoch, gen, op) ==
    [hive |-> Hive, predecessor |-> pred, sequence |-> seq, epoch |-> epoch, recovery_gen |-> gen,
     operation |-> op, payload |-> "opaque"]

MCGroup(key, generation) == [key |-> key, label |-> "label", generation |-> generation]
TheRoot == MCGroup("k0", 1)
TheRecovery == [sequence |-> 0, predecessor |-> Nothing, group |-> MCGroup("kR", 1)]
MCRecovery2 == [sequence |-> 1, predecessor |-> TheRecovery, group |-> MCGroup("kR2", 2)]

MCGrant(pred, seq, epoch, gen, id) ==
    [MCPlain(pred, seq, epoch, gen, "grant") EXCEPT !.payload =
       [id |-> id, hive |-> Hive, issuer_head |-> pred, issuer_sequence |-> seq - 1,
        not_before |-> 0, not_after |-> 1, signer_role |-> "owner-presence", custody |-> "hardware",
        presence |-> "required", signer |-> "device", possession |-> "device"]]

MCRevoke(pred, seq, epoch, gen, id, serial) ==
    [MCPlain(pred, seq, epoch, gen, "revoke-grant") EXCEPT !.payload =
       [id |-> id, hive |-> Hive, issuer_head |-> pred, issuer_sequence |-> seq - 1, serial |-> serial]]

MCSuccession(pred, seq, epoch, gen, kind, successor, recovery, proof) ==
    [MCPlain(pred, seq, epoch, gen, "succession") EXCEPT !.payload =
       [kind |-> kind, previous_key |-> "k0", successor |-> successor, retained |-> {},
        recovery |-> recovery, possession |-> successor.key, recovery_possession |-> proof]]

\* A grant a, its revocation b with a planned succession d and a grant t behind
\* it, a branch c, e that competes with b, two competing recoveries r and q of
\* which r changes the recovery group, a grant s behind r that takes the id of
\* a again, and the recovery u by the changed group.
TheSteps ==
    [a |-> MCGrant(Founding, 1, 0, 0, "g1"),
     b |-> MCRevoke("a", 2, 0, 0, "g1", 1),
     c |-> MCPlain("a", 2, 0, 0, "revoke"),
     d |-> MCSuccession("b", 3, 0, 0, "planned", MCGroup("k1", 2), TheRecovery, NoKey),
     e |-> MCPlain("c", 3, 0, 0, "revoke"),
     t |-> MCGrant("d", 4, 1, 0, "g2"),
     r |-> MCSuccession("b", 3, 0, 1, "recovery", MCGroup("k2", 2), MCRecovery2, "kR2"),
     q |-> MCSuccession("a", 2, 0, 1, "recovery", MCGroup("k2", 2), TheRecovery, NoKey),
     s |-> MCGrant("r", 4, 1, 1, "g1"),
     u |-> [MCSuccession("r", 4, 1, 2, "recovery", MCGroup("k1", 3), MCRecovery2, NoKey)
              EXCEPT !.payload.previous_key = "k2"]]
TheDigests == DOMAIN TheSteps

\* TLC evaluates a definition once, but what replaces a constant every time.
MCNode == TheNodes
MCCertificate == TheCertificates
MCRoot == TheRoot
MCRecovery == TheRecovery
MCContent == TheSteps
MCDigest == TheDigests

-----------------------------------------------------------------------------

identityVars ==
    <<part, vars, enrollmentVars, authVars, chainVars, leaseVars, foundingVars>>

IdentityInit ==
    /\ part \in {"state", "enrollment", "authority", "chain", "leases", "founding"}
    /\ Init /\ EnrollmentInit /\ AuthInit /\ ChainInit /\ LeaseInit /\ FoundingInit
    /\ part # "state" => content[1].list.issued_at = 0

IdentityNext ==
    /\ UNCHANGED part
    /\ \/ /\ part = "state" /\ Next
          /\ UNCHANGED <<enrollmentVars, authVars, chainVars, leaseVars, foundingVars>>
       \/ /\ part = "enrollment" /\ EnrollmentNext
          /\ UNCHANGED <<vars, authVars, chainVars, leaseVars, foundingVars>>
       \/ /\ part = "authority" /\ AuthNext
          /\ UNCHANGED <<vars, enrollmentVars, chainVars, leaseVars, foundingVars>>
       \/ /\ part = "chain" /\ ChainNext
          /\ UNCHANGED <<vars, enrollmentVars, authVars, leaseVars, foundingVars>>
       \/ /\ part = "leases" /\ LeaseNext
          /\ UNCHANGED <<vars, enrollmentVars, authVars, chainVars, foundingVars>>
       \/ /\ part = "founding" /\ FoundingNext
          /\ UNCHANGED <<vars, enrollmentVars, authVars, chainVars, leaseVars>>

IdentitySpec == IdentityInit /\ [][IdentityNext]_identityVars

=============================================================================
