----------------------------- MODULE Rendezvous -----------------------------
(***************************************************************************)
(* Introductions over authenticated sessions (crates/supgang/src/          *)
(* rendezvous.rs, service/rendezvous.rs and the rendezvous events of       *)
(* process_peer_events in service/local_control.rs).  A computer that      *)
(* cannot reach a member asks a connected one to introduce it; the         *)
(* introducer offers each of the two the socket it observes for the other. *)
(*                                                                         *)
(* Frames are QUIC datagrams: they are lost and overtake each other, and   *)
(* the events made from them wait in a queue while connections are         *)
(* replaced.  Expiry follows each computer's own monotonic clock.          *)
(***************************************************************************)
EXTENDS Integers, Sequences, FiniteSets

CONSTANTS
    Member,      \* the computers of a hive
    Introducer,  \* those whose certificate grants the introducer role
    Global,      \* those observed at a globally routed address
    MaxIntents,  \* MAX_PENDING_INTENTS
    IntentTime,  \* INTENT_LIFETIME
    MaxRequests,
    MaxLinks,    \* connections ever made
    TimeEnd

ASSUME RendezvousAssumption ==
    /\ Introducer \subseteq Member
    /\ Global \subseteq Member
    /\ MaxIntents \in Nat \ {0} /\ IntentTime \in Nat \ {0}
    /\ MaxRequests \in Nat /\ MaxLinks \in Nat /\ TimeEnd \in Nat

VARIABLES
    link,     \* the current connection of each pair, 0 when there is none
    links,    \* connections made so far
    flying,   \* datagrams and queued events
    intents,  \* the intents of each computer
    asked,    \* every request made; its place is its rendezvous id
    dials,    \* every dial an offer started
    instant

rendezvousVars == <<link, links, flying, intents, asked, dials, instant>>

Pair == {p \in SUBSET Member : Cardinality(p) = 2}
Current(a, b) == IF a = b THEN 0 ELSE link[{a, b}]
Active(n) == {m \in Member \ {n} : Current(n, m) # 0}

\* RendezvousMessage, with the connection that carries it.
Request(from, to, id, target) ==
    [kind |-> "request", from |-> from, to |-> to, on |-> Current(from, to), id |-> id, target |-> target]
Offer(from, to, id, target) ==
    [kind |-> "offer", from |-> from, to |-> to, on |-> Current(from, to), id |-> id, target |-> target]

\* is_current_connection.
OnCurrent(m) == m.on # 0 /\ m.on = Current(m.from, m.to)

-----------------------------------------------------------------------------
(* RendezvousIntents *)

PruneIntents(n) == {i \in intents[n] : i.expires > instant}

Oldest(set) == CHOOSE i \in set : \A j \in set : i.expires =< j.expires

\* remember: one intent per target; at the limit the one that expires first
\* makes room.
Remembered(n, intent) ==
    LET kept == {i \in PruneIntents(n) : i.target # intent.target}
        full == Cardinality(PruneIntents(n)) >= MaxIntents /\ kept = PruneIntents(n)
    IN (IF full THEN kept \ {Oldest(kept)} ELSE kept) \cup {intent}

\* take: the intent this offer answers.
Matching_Target(n, m) == {i \in PruneIntents(n) : i.target = m.target}

Matching(n, m) ==
    {i \in PruneIntents(n) : i.target = m.target /\ i.via = m.from /\ i.on = m.on /\ i.id = m.id}

-----------------------------------------------------------------------------

\* request_introduction and remember: a retry round chose target, and via is
\* the first connected introducer whose datagram could be queued.
Ask(n, target, via) ==
    /\ Len(asked) < MaxRequests
    /\ target # n
    /\ target \notin Active(n)
    /\ via \in Active(n) \ {target}
    /\ via \in Introducer
    /\ LET id == Len(asked) + 1
           intent == [target |-> target, via |-> via, on |-> Current(n, via), id |-> id,
                      expires |-> instant + IntentTime]
       IN /\ asked' = Append(asked, [by |-> n, target |-> target, via |-> via, at |-> instant])
          /\ intents' = [intents EXCEPT ![n] = Remembered(n, intent)]
          /\ flying' = flying \cup {Request(n, via, id, target)}
    /\ UNCHANGED <<link, links, dials, instant>>

\* introduce_active_pair: an offer to each side; one that names an address
\* that is not globally routed does not encode, and either may fail to be
\* queued.
Introduce(m) ==
    /\ m \in flying
    /\ m.kind = "request"
    /\ LET i == m.to
           both == OnCurrent(m) /\ i \in Introducer /\ m.from # m.target /\ m.target \in Active(i)
           offers == (IF m.target \in Global THEN {Offer(i, m.from, m.id, m.target)} ELSE {})
                     \cup (IF m.from \in Global /\ both THEN {Offer(i, m.target, m.id, m.from)} ELSE {})
       IN \E sent \in SUBSET offers : flying' = (flying \ {m}) \cup (IF both THEN sent ELSE {})
    /\ UNCHANGED <<link, links, intents, asked, dials, instant>>

\* The offer event and schedule_rendezvous_offers.
TakeOffer(m) ==
    /\ m \in flying
    /\ m.kind = "offer"
    /\ flying' = flying \ {m}
    /\ LET n == m.to
           considered == OnCurrent(m) /\ m.from # m.target /\ m.target \notin Active(n)
           taken == IF considered THEN Matching(n, m) ELSE {}
       IN /\ intents' = IF considered THEN [intents EXCEPT ![n] = PruneIntents(n) \ taken] ELSE intents
          /\ dials' = IF taken = {} THEN dials
                      ELSE Append(dials, [by |-> n, target |-> m.target, via |-> m.from, id |-> m.id, at |-> instant])
    /\ UNCHANGED <<link, links, asked, instant>>

\* A datagram is lost, an intake limit drops it or the event queue is full.
Lose(m) ==
    /\ m \in flying
    /\ flying' = flying \ {m}
    /\ UNCHANGED <<link, links, intents, asked, dials, instant>>

Connects(p) ==
    /\ links < MaxLinks
    /\ links' = links + 1
    /\ link' = [link EXCEPT ![p] = links + 1]
    /\ UNCHANGED <<flying, intents, asked, dials, instant>>

Closes(p) ==
    /\ link[p] # 0
    /\ link' = [link EXCEPT ![p] = 0]
    /\ UNCHANGED <<links, flying, intents, asked, dials, instant>>

TimePasses ==
    /\ instant < TimeEnd
    /\ instant' = instant + 1
    /\ UNCHANGED <<link, links, flying, intents, asked, dials>>

RendezvousInit ==
    /\ link = [p \in Pair |-> IF p \cap Introducer # {} THEN 1 ELSE 0]
    /\ links = 1
    /\ flying = {}
    /\ intents = [n \in Member |-> {}]
    /\ asked = <<>>
    /\ dials = <<>>
    /\ instant = 0

RendezvousNext ==
    \/ \E n, target, via \in Member : Ask(n, target, via)
    \/ \E m \in flying : Introduce(m) \/ TakeOffer(m) \/ Lose(m)
    \/ \E p \in Pair : Connects(p) \/ Closes(p)
    \/ TimePasses

RendezvousSpec == RendezvousInit /\ [][RendezvousNext]_rendezvousVars

-----------------------------------------------------------------------------
(* Properties *)

\* A dial started by an offer answers a request this computer made itself:
\* for that member, through that introducer and no longer ago than an intent
\* lives, and a request is answered once.  The offer an introducer forwards
\* because the other side asked never starts one.
DialAnswersRequest ==
    \A d \in DOMAIN dials :
        LET r == asked[dials[d].id] IN
        /\ r.by = dials[d].by
        /\ r.target = dials[d].target
        /\ r.via = dials[d].via
        /\ dials[d].at < r.at + IntentTime
        /\ \A e \in DOMAIN dials : dials[e].id = dials[d].id => e = d

\* remember: there is room for a bounded number of intents, one per target,
\* and it is never the newest request that gives way.
Newest(n, k) ==
    /\ k \in DOMAIN asked /\ asked[k].by = n
    /\ \A j \in DOMAIN asked : asked[j].by = n => j =< k
NewestIntentKept ==
    \A n \in Member :
        /\ Cardinality(intents[n]) =< MaxIntents
        /\ \A i, j \in intents[n] : i.target = j.target => i = j
        /\ \A k \in DOMAIN asked : Newest(n, k) =>
              \/ \E i \in intents[n] : i.id = k
              \/ \E d \in DOMAIN dials : dials[d].id = k
              \/ instant >= asked[k].at + IntentTime

Intent == [target : Member, via : Member, on : Nat, id : Nat, expires : Nat]

\* Every variable has its type.
RendezvousTypeOK ==
    /\ link \in [Pair -> Nat] /\ links \in Nat /\ instant \in Nat
    /\ flying \subseteq [kind : {"request", "offer"}, from : Member, to : Member, on : Nat, id : Nat, target : Member]
    /\ intents \in [Member -> SUBSET Intent]
    /\ \A n \in Member : IsFiniteSet(intents[n])
    /\ asked \in Seq([by : Member, target : Member, via : Member, at : Nat])
    /\ dials \in Seq([by : Member, target : Member, via : Member, id : Nat, at : Nat])
    /\ \A d \in DOMAIN dials : dials[d].id \in DOMAIN asked

\* An intent is a request its computer made and no dial has answered.
IntentsAreOpenRequests ==
    \A n \in Member : \A i \in intents[n] :
        /\ i.id \in DOMAIN asked
        /\ asked[i.id] = [by |-> n, target |-> i.target, via |-> i.via, at |-> i.expires - IntentTime]
        /\ \A d \in DOMAIN dials : dials[d].id # i.id

\* Whatever datagrams are lost, late or overtaken, only this computer's own
\* requests start a dial, and the newest one is not forgotten.
IntroductionsAreAnswers ==
    RendezvousTypeOK /\ DialAnswersRequest /\ NewestIntentKept /\ IntentsAreOpenRequests
=============================================================================
