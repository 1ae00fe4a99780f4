---------------------------- MODULE Publication ----------------------------
(***************************************************************************)
(* The contact a service publishes about itself: which addresses it lists  *)
(* and when it signs it again (crates/supgang/src/service/config.rs,       *)
(* service/interface_refresh.rs, service/contact_state.rs, record.rs and   *)
(* add_mapped_endpoint in service/local_control/tunnel_control.rs).        *)
(*                                                                         *)
(* Interfaces come, go and fail to be read between passes of the service   *)
(* loop; the owner declares forwarded addresses; the wall clock runs on    *)
(* while the monotonic one sleeps, and is set back.  Addresses are numbers *)
(* so that the order candidates are kept in is theirs.                     *)
(***************************************************************************)
EXTENDS Integers, FiniteSets, FiniteSetsExt, SequencesExt

CONSTANTS
    LocalAddress,   \* private addresses an interface may have
    DirectAddress,  \* global addresses an interface may have
    Forwarded,      \* addresses the owner may declare
    Unreadable,     \* EndpointConfig::automatic failed
    MaxCandidates,  \* MAX_CANDIDATES
    Patience,       \* INTERFACE_FAILURES_BEFORE_CLEAR
    RecordLife,     \* record_lifetime
    Skew,           \* MAX_FUTURE_SKEW_SECONDS
    MemberEnd,      \* when the membership certificate expires
    Nap, SetBack,   \* how far a sleep and a correction move the wall clock
    MaxAwake, MaxJumps

ASSUME PublicationAssumption ==
    /\ LocalAddress \cup DirectAddress \cup Forwarded \subseteq Nat
    /\ Unreadable \notin (SUBSET LocalAddress) \X (SUBSET DirectAddress)
    /\ MaxCandidates \in Nat /\ Patience \in Nat \ {0}
    /\ RecordLife \in Nat \ {0, 1} /\ Skew \in Nat /\ MemberEnd \in Nat
    /\ Nap \in Nat /\ SetBack \in Nat /\ MaxAwake \in Nat /\ MaxJumps \in Nat

VARIABLES
    up,          \* the service runs
    listed,      \* config.candidates
    declared,    \* policy.mapped as saved
    failures,    \* InterfaceRefreshHealth
    record,      \* the record of local_contact
    renewAt,     \* next_refresh
    awake, date, \* the monotonic and the wall clock
    jumps,
    found,       \* kept for the properties: the last interfaces read
    streak,      \* and the reads that failed since
    passedAt,    \* and the clocks of the last pass
    signatures   \* and the signatures of passes at these clocks that nothing forced

publicationVars == <<up, listed, declared, failures, record, renewAt, awake, date, jumps,
                     found, streak, passedAt, signatures>>

LocalCandidate(a) == <<"local", a>>
Direct(a) == <<"direct", a>>
Mapped(a) == <<"mapped", a>>

OwnerDeclared(candidates) == {k \in candidates : k[1] = "mapped"}
Addresses(candidates, kind) == {k[2] : k \in {k \in candidates : k[1] = kind}}

-----------------------------------------------------------------------------
(* The candidates *)

\* Vec::truncate of a sorted vector.
Truncated(addresses, n) == {a \in addresses : Cardinality({b \in addresses : b < a}) < n}

\* bound_interface_candidates: either kind alone may use the whole limit, and
\* direct addresses keep up to half of it.
Bounded(local, direct, limit) ==
    LET reserve == Min({Cardinality(direct), limit \div 2})
        fewLocal == IF direct = {} THEN Truncated(local, limit) ELSE Truncated(local, limit - reserve)
        fewDirect == Truncated(direct, limit - Cardinality(fewLocal))
    IN IF Cardinality(local) + Cardinality(direct) =< limit
       THEN {LocalCandidate(a) : a \in local} \cup {Direct(a) : a \in direct}
       ELSE {LocalCandidate(a) : a \in fewLocal} \cup {Direct(a) : a \in fewDirect}

\* bounded_automatic_interfaces and replace_interface_candidates: interfaces
\* share what the owner's addresses leave.
WithInterfaces(owner, local, direct) ==
    owner \cup Bounded(local, direct, MaxCandidates - Cardinality(owner))

\* with_mapped_addresses.
MappedValid(candidates, new) ==
    /\ \A k \in candidates : k[2] \notin new
    /\ Cardinality(OwnerDeclared(candidates)) + Cardinality(new) =< MaxCandidates

WithMapped(candidates, new) ==
    WithInterfaces(OwnerDeclared(candidates) \cup {Mapped(a) : a \in new},
                   Addresses(candidates, "local"), Addresses(candidates, "direct"))

\* refresh_service_candidates, for the interfaces a read returned.  A failed
\* read counts; only the second in a row withdraws the addresses.
Failures(read) == IF read = Unreadable THEN Min({failures + 1, Patience}) ELSE 0

Relisted(read) ==
    IF read # Unreadable THEN WithInterfaces(OwnerDeclared(listed), read[1], read[2])
    ELSE IF Failures(read) >= Patience THEN OwnerDeclared(listed)
    ELSE listed

-----------------------------------------------------------------------------
(* The record *)

MembershipLive == date < MemberEnd

\* make_local_contact.
Signed(candidates) == [issued |-> date, expires |-> Min({date + RecordLife, MemberEnd}), candidates |-> candidates]

\* EndpointCandidate::new: a private address is a local candidate, and only
\* that.
CandidateValid(k) == (k[1] = "local") <=> (k[2] \in LocalAddress)

RecordShape(r) ==
    /\ r.issued < r.expires /\ r.expires - r.issued =< RecordLife
    /\ Cardinality(r.candidates) =< MaxCandidates
    /\ \A k \in r.candidates : CandidateValid(k)

RecordTime(r, at) == at =< r.expires /\ r.issued =< at + Skew

\* verify_authorized: membership sets a limit too.
Verifies(r, at) == RecordShape(r) /\ RecordTime(r, at) /\ r.expires =< MemberEnd

\* needs_wall_clock_refresh.
WallClockDue_Ahead(r) ==
    r.expires - date =< Min({RecordLife \div 2, (r.expires - r.issued) \div 2})

WallClockDue(r) ==
    \/ date < r.issued
    \/ r.expires - date =< Min({RecordLife \div 2, (r.expires - r.issued) \div 2})

-----------------------------------------------------------------------------
(* Actions *)

Down ==
    /\ up' = FALSE
    /\ UNCHANGED <<listed, declared, failures, record, renewAt, awake, date, jumps, found, streak, passedAt,
                   signatures>>

\* refresh_contact_if_due.
RefreshContactIfDue(changed) ==
    LET due == changed \/ awake >= renewAt \/ WallClockDue(record) IN
    /\ record' = IF due THEN Signed(listed') ELSE record
    /\ renewAt' = IF due THEN awake + RecordLife \div 2 ELSE renewAt
    /\ signatures' = (IF passedAt = <<awake, date>> THEN signatures ELSE 0) + (IF due /\ ~changed THEN 1 ELSE 0)

\* One pass of the loop, with or without a read of the interfaces.
Pass(looks, read) ==
    /\ up
    /\ IF ~MembershipLive THEN Down ELSE
       /\ listed' = IF looks THEN Relisted(read) ELSE listed
       /\ failures' = IF looks THEN Failures(read) ELSE failures
       /\ RefreshContactIfDue(listed' # listed)
       /\ found' = IF looks /\ read # Unreadable THEN read ELSE found
       /\ streak' = IF ~looks THEN streak ELSE IF read = Unreadable THEN Min({streak + 1, Patience}) ELSE 0
       /\ passedAt' = <<awake, date>>
       /\ UNCHANGED <<up, declared, awake, date, jumps>>

\* add_mapped_endpoint: the policy is saved, then the configuration replaced
\* and the contact signed.  The refresh deadline stays.
AddMappedEndpoint(a) ==
    /\ up /\ a \notin declared
    /\ MappedValid(listed, {a}) /\ MembershipLive
    /\ declared' = declared \cup {a}
    /\ listed' = WithMapped(listed, {a})
    /\ record' = Signed(listed')
    /\ UNCHANGED <<up, failures, renewAt, awake, date, jumps, found, streak, passedAt, signatures>>

\* run_service reads the interfaces and the saved policy and signs.
StartService(read) ==
    /\ ~up /\ read # Unreadable
    /\ LET interfaces == WithInterfaces({}, read[1], read[2]) IN
       /\ MappedValid(interfaces, declared) /\ MembershipLive
       /\ listed' = WithMapped(interfaces, declared)
    /\ up' = TRUE
    /\ failures' = 0
    /\ record' = Signed(listed')
    /\ renewAt' = awake + RecordLife \div 2
    /\ found' = read
    /\ streak' = 0
    /\ passedAt' = <<awake, date>>
    /\ signatures' = 0
    /\ UNCHANGED <<declared, awake, date, jumps>>

StopService == up /\ jumps < MaxJumps /\ up' = FALSE /\ jumps' = jumps + 1
               /\ UNCHANGED <<listed, declared, failures, record, renewAt, awake, date, found, streak, passedAt,
                              signatures>>

SecondPasses ==
    /\ awake < MaxAwake
    /\ awake' = awake + 1 /\ date' = date + 1
    /\ UNCHANGED <<up, listed, declared, failures, record, renewAt, jumps, found, streak, passedAt, signatures>>

\* A sleep the monotonic clock does not count, or a correction of the date.
DateJumps(to) ==
    /\ jumps < MaxJumps /\ to \in {date + Nap, date - SetBack} \cap Nat
    /\ date' = to
    /\ jumps' = jumps + 1
    /\ UNCHANGED <<up, listed, declared, failures, record, renewAt, awake, found, streak, passedAt, signatures>>

\* EndpointConfig::automatic fails when it finds no address.
Reads == ((SUBSET LocalAddress) \X (SUBSET DirectAddress) \ {<<{}, {}>>}) \cup {Unreadable}

PublicationInit ==
    /\ up = FALSE
    /\ listed = {} /\ declared = {} /\ failures = 0
    /\ record = [issued |-> 0, expires |-> 0, candidates |-> {}]
    /\ renewAt = 0 /\ awake = 0 /\ date = SetBack /\ jumps = 0
    /\ found = <<{}, {}>> /\ streak = 0 /\ passedAt = <<0, 0>> /\ signatures = 0

PublicationNext ==
    \/ Pass(FALSE, Unreadable)
    \/ \E read \in Reads : Pass(TRUE, read) \/ StartService(read)
    \/ \E a \in Forwarded : AddMappedEndpoint(a)
    \/ StopService
    \/ SecondPasses
    \/ DateJumps(date + Nap) \/ DateJumps(date - SetBack)

PublicationSpec == PublicationInit /\ [][PublicationNext]_publicationVars

-----------------------------------------------------------------------------
(* Properties *)

\* After every pass the published contact is one that members accept at that
\* date, whatever sleeps and corrections came before, and it lists exactly
\* the addresses the service listens at (refresh_contact_if_due).
PublishedVerifies ==
    up /\ passedAt = <<awake, date>> => Verifies(record, date) /\ record.candidates = listed

\* Passes do not sign over and over: as long as the clocks stand still and no
\* address changed, at most one signs, also in the last moments of the
\* membership, when records are shorter than their normal lifetime.
SigningPaced == signatures =< 1

\* The owner's addresses are all listed, however many interfaces there are,
\* and the list always fits a record.
CandidatesFit ==
    up => {Mapped(a) : a \in declared} \subseteq listed /\ Cardinality(listed) =< MaxCandidates

\* Fewer than INTERFACE_FAILURES_BEFORE_CLEAR failed reads in a row withdraw
\* nothing: the interface addresses listed are those of the last read, cut to
\* the room the owner's addresses leave now, in whatever order interfaces and
\* declarations came.
InterfacesKept ==
    up /\ streak < Patience =>
        listed = WithInterfaces(OwnerDeclared(listed), found[1], found[2])

\* Whatever clocks and interfaces do, the published contact is accepted, lists
\* what it should, and is not signed again and again.
ContactIsTrue == PublishedVerifies /\ SigningPaced /\ CandidatesFit /\ InterfacesKept
=============================================================================
