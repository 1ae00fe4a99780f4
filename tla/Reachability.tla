---------------------------- MODULE Reachability ----------------------------
(***************************************************************************)
(* Short-lived reachability claims (crates/supgang/src/reachability.rs,    *)
(* peer_directory/reachability.rs) and the claim a computer makes of its   *)
(* own gateway mapping (router_mapping.rs, service/interface_refresh.rs,   *)
(* service/gateway_reachability.rs).                                       *)
(*                                                                         *)
(* Claims live in memory, under a total limit and one per reporter.  They  *)
(* expire by the wall clock; the mapping's update budget follows the       *)
(* monotonic clock, which stops while the computer sleeps.  The service    *)
(* loop looks at the mapping at least once in every unit of time.          *)
(* Signatures are valid: every claim here was made by its reporter.        *)
(***************************************************************************)
EXTENDS Integers, FiniteSets, FiniteSetsExt

CONSTANTS
    Local, Reporter,  \* this computer and the members that report to it
    Address, Routed, Loopback,
    MemberUntil,      \* when the certificate of each computer expires
    MaxClaims,        \* MAX_REACHABILITY_CLAIMS
    MaxPerReporter,   \* MAX_CLAIMS_PER_REPORTER
    ClaimTime,        \* MAX_CLAIM_LIFETIME_SECONDS
    ClaimSkew,        \* MAX_FUTURE_SKEW_SECONDS
    Window,           \* ROUTER_MAPPING_UPDATE_WINDOW
    MaxUpdates,       \* MAX_ROUTER_MAPPING_UPDATES_PER_WINDOW
    Sleep,            \* how far the wall clock runs in one sleep
    Sighting,         \* the <<reporter, subject, address>> that are reported
    MaxMono, MaxSleeps

ASSUME ReachabilityAssumption ==
    /\ Local \notin Reporter
    /\ Routed \subseteq Address /\ Loopback \subseteq Address \ Routed
    /\ MemberUntil \in [Reporter \cup {Local} -> Nat]
    /\ {MaxClaims, MaxPerReporter, ClaimTime, Window, MaxUpdates} \subseteq Nat \ {0}
    /\ Sighting \subseteq (Reporter \cup {Local}) \X (Reporter \cup {Local}) \X Address
    /\ {ClaimSkew, Sleep, MaxMono, MaxSleeps} \subseteq Nat

VARIABLES
    claims,    \* PeerDirectory::reachability
    banned,    \* the revoked computers
    external,  \* what the gateway maps, Unmapped for nothing
    waiting,   \* awaiting_network_refresh
    unread,    \* the watch of the external address has changed
    budget,    \* RouterMappingUpdateBudget
    mono, wall, sleeps,
    looked,    \* the loop ran in this unit of time
    unclaimed, \* units of time the mapping has stayed without a live claim
    fatal      \* what stopped the service

reachVars == <<claims, banned, external, waiting, unread, budget, mono, wall, sleeps, looked, unclaimed, fatal>>

Unmapped == "unmapped"
Unset == "unset"

-----------------------------------------------------------------------------
(* ReachabilityClaim *)

\* sign: the lifetime is always the longest allowed.
Claim(reporter, subject, address, at) ==
    [reporter |-> reporter, subject |-> subject, address |-> address, issued |-> at, expires |-> at + ClaimTime,
     source |-> IF reporter = subject THEN "gateway" ELSE "observed"]

\* validate_shape and candidate: a gateway's address must be routed globally.
ShapeValid(c) ==
    /\ c.expires > c.issued /\ c.expires - c.issued =< ClaimTime
    /\ (c.source = "gateway") <=> (c.reporter = c.subject)
    /\ c.source = "gateway" => c.address \in Routed

\* What decode_claim reads and encode_claim writes.
ClaimRecord(c) ==
    /\ {c.reporter, c.subject} \subseteq Reporter \cup {Local}
    /\ c.address \in Address
    /\ {c.issued, c.expires} \subseteq Nat
    /\ ShapeValid(c)

\* verify.
ClaimVerifies(c) ==
    /\ ShapeValid(c)
    /\ wall =< MemberUntil[c.reporter]
    /\ c.expires >= wall
    /\ c.issued =< wall + ClaimSkew

SameKey(c, d) == c.subject = d.subject /\ c.address = d.address /\ c.reporter = d.reporter

-----------------------------------------------------------------------------
(* PeerDirectory *)

PruneReachability ==
    {c \in claims : c.expires >= wall /\ c.subject \notin banned /\ c.reporter \notin banned}

Own(set, reporter) == {c \in set : c.reporter = reporter}

Evictions(set, victim) ==
    {set \ {c} : c \in {d \in Own(set, victim) : \A e \in Own(set, victim) : d.expires =< e.expires}}

\* reserve_reachability_slot: the sets that may be left with a slot free for
\* the reporter, none when it is refused.  Equal counts and equal expiries
\* are told apart by node order, which no property depends on.
Reserved_Largest(set, reporter, gateway) ==
    LET others == {c.reporter : c \in set} \ {Local}
        own    == IF reporter = Local THEN 0 ELSE Cardinality(Own(set, reporter))
        full   == Cardinality(set) >= MaxClaims
        most   == {r \in others : \A o \in others : Cardinality(Own(set, r)) >= Cardinality(Own(set, o))}
    IN IF own >= MaxPerReporter \/ (full /\ own > 0) THEN Evictions(set, reporter)
       ELSE IF ~full THEN {set}
       ELSE UNION {Evictions(set, r) : r \in most}

Reserved_PerReporter(set, reporter, gateway) ==
    IF Cardinality(Own(set, reporter)) >= MaxPerReporter THEN Evictions(set, reporter) ELSE {set}

Reserved(set, reporter, gateway) ==
    LET others == {c.reporter : c \in set} \ {Local}
        own    == IF reporter = Local THEN 0 ELSE Cardinality(Own(set, reporter))
        full   == Cardinality(set) >= MaxClaims
        most   == {r \in others : /\ \A o \in others : Cardinality(Own(set, r)) >= Cardinality(Own(set, o))
                                  /\ gateway \/ Cardinality(Own(set, r)) > 1}
    IN IF own >= MaxPerReporter \/ (full /\ own > 0) THEN Evictions(set, reporter)
       ELSE IF ~full THEN {set}
       ELSE UNION {Evictions(set, r) : r \in most}

\* import_reachability, up to where it changes the claims.
Admissible(c) ==
    /\ ClaimVerifies(c)
    /\ c.reporter # Local
    /\ {c.subject, c.reporter} \cap banned = {}
    /\ c.address \notin Loopback

\* ... and what it leaves: an older copy of a claim changes nothing.
Imported(c) ==
    LET pruned == PruneReachability
        held   == {d \in pruned : SameKey(c, d)}
        room   == Reserved(pruned, c.reporter, FALSE)
    IN IF \E d \in held : d.issued >= c.issued /\ d.expires >= c.expires THEN {pruned}
       ELSE IF held # {} THEN {(pruned \ held) \cup {c}}
       ELSE IF room = {} THEN {pruned}
       ELSE {kept \cup {c} : kept \in room}

ImportReachability(c) ==
    /\ fatal = "no"
    /\ Admissible(c)
    /\ claims' \in Imported(c)
    /\ UNCHANGED <<banned, external, waiting, unread, budget, mono, wall, sleeps, looked, unclaimed, fatal>>

\* A page or a session brings a claim its reporter signed now or a while ago.
\* This computer's own claims come back as well.
Reported == {Claim(x[1], x[2], x[3], t) : x \in Sighting, t \in {u \in {wall - Window, wall} : u >= 0}}

\* set_revocations.
RevokeReporter(r) ==
    /\ fatal = "no" /\ r \in Reporter \ banned
    /\ banned' = banned \cup {r}
    /\ claims' = {c \in claims : c.subject \notin banned' /\ c.reporter \notin banned'}
    /\ UNCHANGED <<external, waiting, unread, budget, mono, wall, sleeps, looked, unclaimed, fatal>>

-----------------------------------------------------------------------------
(* The gateway mapping *)

\* RouterMapping::status once take_change has read the watch: an address that
\* is not routed globally is no mapping, and "checking" and "unavailable" are
\* one, as nothing is claimed in either.
Status(stillWaiting) == IF ~stillWaiting /\ external \in Routed THEN external ELSE Unmapped

\* RouterMappingUpdateBudget::allow, the budget after it and its answer.
Allowed ==
    LET b == IF mono - budget.started >= Window THEN [budget EXCEPT !.started = mono, !.updates = 0] ELSE budget
    IN IF b.updates >= MaxUpdates THEN [ok |-> FALSE, budget |-> b]
       ELSE [ok |-> TRUE, budget |-> [b EXCEPT !.updates = @ + 1]]

\* RouterMappingUpdateBudget::observe.
Observed(latest) ==
    LET mapped  == latest # Unmapped
        spent   == IF mapped THEN Allowed.budget ELSE budget
    IN IF budget.published = latest /\ (~mapped \/ mono < budget.renewAt) THEN [ok |-> FALSE, budget |-> budget]
       ELSE IF mapped /\ ~Allowed.ok THEN Allowed
       ELSE [ok |-> TRUE, budget |-> [spent EXCEPT !.published = latest, !.renewAt = mono + Window]]

\* replace_local_gateway_reachability with the claim replace_gateway_reachability
\* signs for a mapped address: what may be left of the claims, none on failure.
Replaced(latest) ==
    LET rest  == {c \in PruneReachability : c.reporter # Local}
        claim == Claim(Local, Local, latest, wall)
    IN IF latest = Unmapped THEN {rest}
       ELSE IF claim \in PruneReachability THEN {PruneReachability}
       ELSE {kept \cup {claim} : kept \in Reserved(rest, Local, TRUE)}

\* Whether a live claim names the mapped address, for MappingIsClaimed.
Claimed(set) == \E c \in set : c.reporter = Local /\ c.address = external /\ c.expires >= wall

\* refresh_service_candidates and the gateway branch of the service loop.  When
\* the interfaces changed, or can no longer be listed, the old lease is
\* dropped and nothing is claimed until the gateway answers again.
ServiceLoop(networkChanged) ==
    LET stillWaiting == waiting /\ ~unread
        latest       == Status(stillWaiting)
        seen         == Observed(latest)
        published    == IF networkChanged THEN Unmapped ELSE latest
        replace      == networkChanged \/ seen.ok
        expired      == published # Unmapped /\ wall > MemberUntil[Local]
    IN /\ fatal = "no"
       /\ budget' = seen.budget
       /\ waiting' = (stillWaiting \/ networkChanged)
       /\ external' = IF networkChanged THEN Unmapped ELSE external
       /\ unread' = (networkChanged /\ external # Unmapped)
       /\ looked' = TRUE
       /\ IF ~replace THEN UNCHANGED <<claims, fatal>>
          ELSE IF expired THEN fatal' = "membership" /\ UNCHANGED claims
          ELSE IF Replaced(published) = {} THEN fatal' = "no slot" /\ UNCHANGED claims
          ELSE claims' \in Replaced(published) /\ UNCHANGED fatal
       /\ unclaimed' = IF Claimed(claims') THEN 0 ELSE unclaimed
       /\ UNCHANGED <<banned, mono, wall, sleeps>>

\* portmapper: the gateway grants, moves or drops the mapping.
GatewayChanges(value) ==
    /\ value # external
    /\ external' = value
    /\ unread' = TRUE
    /\ unclaimed' = 0
    /\ UNCHANGED <<claims, banned, waiting, budget, mono, wall, sleeps, looked, fatal>>

-----------------------------------------------------------------------------
(* Time *)

TimeStep ==
    /\ looked /\ mono < MaxMono /\ fatal = "no"
    /\ mono' = mono + 1 /\ wall' = wall + 1
    /\ looked' = FALSE
    /\ unclaimed' = IF waiting \/ unread \/ Status(FALSE) = Unmapped \/ Claimed(claims) THEN 0 ELSE unclaimed + 1
    /\ UNCHANGED <<claims, banned, external, waiting, unread, budget, sleeps, fatal>>

Suspend ==
    /\ sleeps < MaxSleeps
    /\ sleeps' = sleeps + 1
    /\ wall' = wall + Sleep
    /\ UNCHANGED <<claims, banned, external, waiting, unread, budget, mono, looked, unclaimed, fatal>>

ReachInit ==
    /\ claims = {} /\ banned = {}
    /\ external = Unmapped /\ waiting = FALSE /\ unread = FALSE
    /\ budget = [started |-> 0, updates |-> 0, published |-> Unset, renewAt |-> 0]
    /\ mono = 0 /\ wall = 0 /\ sleeps = 0
    /\ looked = FALSE /\ unclaimed = 0 /\ fatal = "no"

ReachNext ==
    \/ \E c \in Reported : ImportReachability(c)
    \/ \E r \in Reporter : RevokeReporter(r)
    \/ \E changed \in BOOLEAN : ServiceLoop(changed)
    \/ \E value \in Address \cup {Unmapped} : GatewayChanges(value)
    \/ TimeStep
    \/ Suspend

ReachSpec == ReachInit /\ [][ReachNext]_reachVars

-----------------------------------------------------------------------------
(* Properties *)

\* The claims stay within both limits, hold one claim per subject, address and
\* reporter, and at most one of this computer's own, however imports, sleeps
\* and gateway changes interleave (reserve_reachability_slot, insert); and
\* each of them can be encoded into the next page.
ClaimsBounded ==
    /\ \A c \in claims : ClaimRecord(c)
    /\ Cardinality(claims) =< MaxClaims
    /\ \A r \in Reporter : Cardinality(Own(claims, r)) =< MaxPerReporter
    /\ Cardinality(Own(claims, Local)) =< 1
    /\ \A c, d \in claims : SameKey(c, d) => c = d

\* "The local gateway always keeps one slot": a full set of claims by others
\* never makes replace_local_gateway_reachability fail, which would end the
\* service.
GatewayKeepsSlot == fatal # "no slot"

\* "A new reporter can take an excess slot, not another reporter's only
\* observation": a live claim that is its reporter's only one goes only when
\* that reporter replaces it, is revoked or its subject is, or when this
\* computer's own gateway claim needs the slot.
SoleClaimKept ==
    [][\A c \in claims :
          (/\ Own(claims, c.reporter) = {c} /\ c.reporter # Local
           /\ c.expires >= wall /\ {c.subject, c.reporter} \cap banned' = {})
          => \/ Own(claims', c.reporter) # {}
             \/ Own(claims, Local) = {} /\ Own(claims', Local) # {}]_reachVars

\* "Gossip must not resurrect a withdrawn local gateway observation": the claim
\* this computer makes of itself is the mapping it published last, so once the
\* loop has seen the mapping go no page brings it back.
OwnClaimIsPublished ==
    \A c \in Own(claims, Local) : c.address = budget.published

\* A mapping that stays is unclaimed for at most one update window, whatever
\* the rate limit withheld, and even when a sleep let the claim expire
\* (observe's renewal, ROUTER_MAPPING_UPDATE_WINDOW).
MappingIsClaimed == unclaimed =< Window

\* Claims stay within their limits, this computer's own always finds room, and
\* it names the mapping that is there.
ClaimsAreSafe == ClaimsBounded /\ GatewayKeepsSlot /\ OwnClaimIsPublished /\ MappingIsClaimed
=============================================================================
