--------------------------- MODULE UpdateDelivery ---------------------------
(***************************************************************************)
(* The sending side of peer updates on the computer that holds the root:   *)
(*   - update/carriage.rs: the bounded outbox of prepared bundles          *)
(*   - update/delivery_queue.rs: the durable queue file                    *)
(*   - service/update_delivery.rs: the service's in-memory queue, its      *)
(*     single attempt in flight, retries, expiry and revocation            *)
(*   - service/local_control.rs: queue_update                              *)
(*   - update_wire.rs: send, as the outcome the attempt ends with          *)
(*                                                                         *)
(* The update lock is taken without waiting, by the service and by the     *)
(* command line; `busy` is the answer when somebody else holds it.  The    *)
(* three-second cache of a pending activation only makes drive return      *)
(* earlier, which is a drive that does not happen.                         *)
(***************************************************************************)
EXTENDS Integers, Sequences, FiniteSets, SequencesExt

CONSTANTS
    Target,         \* the peers, as integers: the queue is in node order
    Bundle,         \* bundle digests
    Lifetime,       \* DELIVERY_LIFETIME_SECONDS
    RetryDelay,     \* RETRY_DELAY
    MaxQueued,      \* MAX_QUEUED_DELIVERIES
    MaxOutbox,      \* MAX_OUTBOX_BUNDLES
    LastSecond,     \* bound: the clock runs 0..LastSecond
    MaxEvents       \* bound: restarts, activations and connection changes

ASSUME DeliveryAssumption ==
    /\ Target \subseteq Int
    /\ {Lifetime, RetryDelay, MaxQueued, MaxOutbox, LastSecond, MaxEvents}
         \subseteq Nat \ {0}

VARIABLES
    queue,       \* [file, pend, flight, cleanup] see OpenQueue
    attempt,     \* "none", "running", or how the attempt ended
    outbox,      \* bundle files, the oldest first
    activating,  \* an activation of this computer's own update is pending
    online,      \* targets with an active connection
    revoked,     \* targets the hive has revoked
    serving,     \* the service runs
    now,         \* seconds
    answered,    \* <<t, d>> the peer answered since it was last queued
    events       \* restarts, activations and connection changes so far

deliveryVars == <<queue, attempt, outbox, activating, online, revoked,
                  serving, now, answered, events>>

Nobody == [target |-> 0, digest |-> "", queued |-> 0, expires |-> 0]
NoEntry == [value |-> Nobody, due |-> 0]

Delivery(t, d) ==
    [target |-> t, digest |-> d, queued |-> now, expires |-> now + Lifetime]

Live(file) == {t \in Target : file[t] # Nobody /\ file[t].expires > now}

StillDue(file) == [t \in Target |-> IF t \in Live(file) THEN file[t] ELSE Nobody]

(* The queue file *)

\* A fault: whatever is queued for the target is finished.
Finished_Any(file, v) == [file EXCEPT ![v.target] = Nobody]

\* finish_peer_delivery: the entry goes only if it is for this digest.
Finished(file, v) ==
    IF file[v.target].digest = v.digest
    THEN [file EXCEPT ![v.target] = Nobody] ELSE file

\* queue_update: root held, target eligible, bundle present, room in the file.
QueueUpdate(t, d) ==
    /\ serving /\ now + Lifetime <= LastSecond
    /\ t \notin revoked
    /\ d \in Range(outbox)
    /\ Cardinality(Live(queue.file)) < MaxQueued \/ t \in Live(queue.file)
    /\ queue' = [queue EXCEPT
                   !.file = [StillDue(@) EXCEPT ![t] = Delivery(t, d)],
                   !.pend[t] = [value |-> Delivery(t, d), due |-> now]]
    /\ answered' = IF queue.flight.target = t /\ queue.flight.digest = d
                   THEN answered ELSE answered \ {<<t, d>>}
    /\ UNCHANGED <<attempt, outbox, activating, online, revoked, serving, now,
                   events>>

(* The outbox *)

Protected == {queue.file[t].digest : t \in Live(queue.file)}

\* make_outbox_room: the oldest bundle that no live delivery needs.
Evictable == SelectSeq(outbox, LAMBDA b : b \notin Protected)

MadeRoom ==
    IF Len(outbox) < MaxOutbox THEN outbox ELSE Remove(outbox, Evictable[1])

\* prepare_outbound: room is made before the copy, which may then fail.
PrepareOutbound(b) ==
    /\ b \notin Range(outbox)
    /\ Len(outbox) = MaxOutbox => Evictable # <<>>
    /\ \/ outbox' = Append(MadeRoom, b)
       \/ outbox' = MadeRoom
    /\ UNCHANGED <<queue, attempt, activating, online, revoked, serving, now,
                   answered, events>>

(* The service's queue *)

\* load_peer_deliveries: expired entries are dropped, from the file too unless
\* the lock is busy, in which case a later drive cleans up.
OpenQueue(busy) ==
    LET stale == StillDue(queue.file) # queue.file
    IN [file |-> IF busy THEN queue.file ELSE StillDue(queue.file),
        pend |-> [t \in Target |->
                    IF t \in Live(queue.file)
                    THEN [value |-> queue.file[t], due |-> now] ELSE NoEntry],
        flight |-> Nobody, cleanup |-> stale /\ busy]

Retried(q, v) ==
    IF q.pend[v.target].value.digest = v.digest /\ q.pend[v.target] # NoEntry
    THEN [q EXCEPT !.pend[v.target].due = now + RetryDelay] ELSE q

Terminal(outcome) == outcome \in {"accepted", "rejected"}

\* A fault: the pending delivery of the target goes, whatever its digest.
Reap_Any(q, busy) ==
    LET v == q.flight
        idle == [q EXCEPT !.flight = Nobody]
    IN IF attempt \in {"none", "running"} THEN q
       ELSE IF ~Terminal(attempt) \/ busy THEN Retried(idle, v)
       ELSE [idle EXCEPT !.file = Finished(@, v), !.pend[v.target] = NoEntry]

\* reap: the result of an older digest never removes a newer delivery.
Reap(q, busy) ==
    LET v == q.flight
        idle == [q EXCEPT !.flight = Nobody]
    IN IF attempt \in {"none", "running"} THEN q
       ELSE IF ~Terminal(attempt) \/ busy THEN Retried(idle, v)
       ELSE LET done == [idle EXCEPT !.file = Finished(@, v)]
            IN IF q.pend[v.target].value.digest = v.digest
               THEN [done EXCEPT !.pend[v.target] = NoEntry]
               ELSE Retried(done, v)

PruneQueue(q, busy) ==
    IF q.cleanup /\ ~busy
    THEN [q EXCEPT !.file = StillDue(@), !.cleanup = FALSE] ELSE q

Removable(q) ==
    {t \in Target : /\ q.pend[t] # NoEntry
                    /\ q.pend[t].value.expires <= now \/ t \in revoked
                    /\ q.flight # q.pend[t].value}

\* A fault: a delivery that expires while it waits is forgotten in memory only.
ExpireOrRevoke_Memory(q, busy) ==
    [q EXCEPT !.pend = [t \in Target |-> IF t \in Removable(q)
                                         THEN NoEntry ELSE @[t]]]

ExpireOrRevoke(q, busy) ==
    LET gone == IF busy THEN {} ELSE Removable(q)
    IN [q EXCEPT
          !.file = [t \in Target |-> IF t \in gone
                                     THEN Finished(@, q.pend[t].value)[t]
                                     ELSE @[t]],
          !.pend = [t \in Target |-> IF t \in gone THEN NoEntry ELSE @[t]]]

Sendable(q) ==
    {t \in Target : q.pend[t] # NoEntry /\ q.pend[t].due <= now /\ t \in online}

First(targets) == CHOOSE t \in targets : \A u \in targets : t <= u

\* The rest of drive: the first due delivery whose peer is connected is sent;
\* one whose bundle is gone is finished instead.
Start(q, busy) ==
    IF q.flight # Nobody \/ Sendable(q) = {} THEN q
    ELSE LET v == q.pend[First(Sendable(q))].value
         IN IF v.digest \in Range(outbox) THEN [q EXCEPT !.flight = v]
            ELSE IF busy THEN Retried(q, v)
            ELSE [q EXCEPT !.file = Finished(@, v), !.pend[v.target] = NoEntry]

Idling(q) == q.flight = Nobody /\ \A t \in Target : q.pend[t] = NoEntry

Driven(busy) ==
    LET q == PruneQueue(Reap(queue, busy), busy)
    IN IF Idling(q) \/ activating THEN q
       ELSE Start(ExpireOrRevoke(q, busy), busy)

Drive(busy) ==
    /\ serving
    /\ queue' = Driven(busy)
    /\ attempt' = IF Driven(busy).flight = Nobody THEN "none"
                  ELSE IF attempt = "running" THEN attempt ELSE "running"
    /\ UNCHANGED <<outbox, activating, online, revoked, serving, now, answered,
                   events>>

\* The spawned task: admission, update_wire::send and their two timeouts.
AttemptEnds(outcome) ==
    /\ attempt = "running"
    /\ outcome \in {"accepted", "rejected"} => queue.flight.target \in online
    /\ attempt' = outcome
    /\ answered' = IF outcome \in {"accepted", "rejected"}
                   THEN answered \cup {<<queue.flight.target,
                                         queue.flight.digest>>}
                   ELSE answered
    /\ UNCHANGED <<queue, outbox, activating, online, revoked, serving, now,
                   events>>

(* The surroundings *)

\* The service ends and its task with it: only the files are left.
ServiceStops ==
    /\ serving /\ events < MaxEvents
    /\ serving' = FALSE
    /\ queue' = [queue EXCEPT !.flight = Nobody, !.cleanup = FALSE,
                              !.pend = [t \in Target |-> NoEntry]]
    /\ attempt' = "none"
    /\ events' = events + 1
    /\ UNCHANGED <<outbox, activating, online, revoked, now, answered>>

ServiceStarts(busy) ==
    /\ ~serving
    /\ serving' = TRUE
    /\ queue' = OpenQueue(busy)
    /\ UNCHANGED <<attempt, outbox, activating, online, revoked, now, answered,
                   events>>

Revoke(t) ==
    /\ t \notin revoked
    /\ revoked' = revoked \cup {t}
    /\ UNCHANGED <<queue, attempt, outbox, activating, online, serving, now,
                   answered, events>>

ActivationBegins ==
    /\ ~activating /\ events < MaxEvents
    /\ activating' = TRUE
    /\ events' = events + 1
    /\ UNCHANGED <<queue, attempt, outbox, online, revoked, serving, now,
                   answered>>

ActivationEnds ==
    /\ activating
    /\ activating' = FALSE
    /\ UNCHANGED <<queue, attempt, outbox, online, revoked, serving, now,
                   answered, events>>

ConnectionChanges(t) ==
    /\ events < MaxEvents
    /\ online' = IF t \in online THEN online \ {t} ELSE online \cup {t}
    /\ events' = events + 1
    /\ UNCHANGED <<queue, attempt, outbox, activating, revoked, serving, now,
                   answered>>

Second ==
    /\ now < LastSecond
    /\ now' = now + 1
    /\ UNCHANGED <<queue, attempt, outbox, activating, online, revoked, serving,
                   answered, events>>

DeliveryInit ==
    /\ queue = [file |-> [t \in Target |-> Nobody],
                pend |-> [t \in Target |-> NoEntry],
                flight |-> Nobody, cleanup |-> FALSE]
    /\ attempt = "none" /\ outbox = <<>> /\ activating = FALSE
    /\ online = Target /\ revoked = {} /\ serving = TRUE
    /\ now = 0 /\ answered = {} /\ events = 0

DeliveryNext ==
    \/ \E t \in Target, d \in Bundle : QueueUpdate(t, d)
    \/ \E b \in Bundle : PrepareOutbound(b)
    \/ \E busy \in BOOLEAN : Drive(busy)
    \/ \E outcome \in {"accepted", "rejected", "retry", "failed"} :
         AttemptEnds(outcome)
    \/ ServiceStops
    \/ \E busy \in BOOLEAN : ServiceStarts(busy)
    \/ \E t \in Target : Revoke(t) \/ ConnectionChanges(t)
    \/ ActivationBegins \/ ActivationEnds \/ Second

DeliverySpec == DeliveryInit /\ [][DeliveryNext]_deliveryVars

-----------------------------------------------------------------------------

\* The service's queue and the file name the same deliveries: every live entry
\* of the file is pending, and everything pending is in the file or over (reap,
\* expire_or_revoke, queue_peer_delivery and open keep them in step).
QueueAgrees ==
    serving => \A t \in Target :
        /\ t \in Live(queue.file) => queue.pend[t].value = queue.file[t]
        /\ (queue.pend[t] # NoEntry /\ queue.pend[t].value.expires > now) =>
             queue.pend[t].value = queue.file[t]

\* The bundle of a live delivery stays in the outbox however many others are
\* prepared (make_outbox_room, protected_outbox_digests).
QueuedBundleKept ==
    \A t \in Live(queue.file) : queue.file[t].digest \in Range(outbox)

\* A delivery leaves the file only because its peer answered for that very
\* bundle, it expired, its target was revoked, or a newer one replaced it.
NoDeliveryLost ==
    [][\A t \in Target :
         (queue.file[t] # Nobody /\ queue'.file[t] = Nobody) =>
            \/ <<t, queue.file[t].digest>> \in answered
            \/ queue.file[t].expires <= now
            \/ t \in revoked]_deliveryVars

\* Whatever the peers do and however often the service restarts, the queue
\* runs empty once the owner stops adding to it (retry, expire_or_revoke).
DeliveriesResolved ==
    [](now = LastSecond => <>(\A t \in Target : queue.file[t] = Nobody))

\* Queue, file and outbox stay in step while the service, its owner and the
\* update lock's other holders interleave.
DeliveriesAreKept == QueueAgrees /\ QueuedBundleKept
=============================================================================
