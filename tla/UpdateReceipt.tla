---------------------------- MODULE UpdateReceipt ----------------------------
(***************************************************************************)
(* A computer receives updates its root computer sends over peer streams   *)
(* (receive in crates/supgang/src/update_wire.rs, the nonce ledger of      *)
(* update/authorization.rs, the inbox of update/carriage.rs and the owned  *)
(* transaction of update/transaction.rs).                                  *)
(*                                                                         *)
(* A stream handler runs between awaits: while it waits for admission, for *)
(* the body or for the verification, other streams, the clock and other    *)
(* users of the update lock go on, and its connection may be dropped.      *)
(***************************************************************************)
EXTENDS Integers, Sequences, FiniteSets

CONSTANTS
    Stream,      \* update streams opened by the root computer
    Permission,  \* the signed authorizations it sent
    IssuedAt,    \* when each was signed
    ExpiresAt,   \* when each expires
    MaxRecords,  \* capacity of the nonce ledger
    ClockEnd,
    MaxStops     \* restarts of this computer's service

NoStream == "no stream"
Elsewhere == "another operation"   \* a command or the supervisor

ASSUME ReceiptAssumption ==
    /\ IssuedAt \in [Permission -> Nat]
    /\ ExpiresAt \in [Permission -> Nat]
    /\ {NoStream, Elsewhere} \cap Stream = {}
    /\ MaxRecords \in Nat /\ ClockEnd \in Nat /\ MaxStops \in Nat

VARIABLES
    clock,
    handler,   \* the handler of each stream: where it waits, for which authorization
    admission, \* the streams waiting for the one permit, in order
    permit,    \* the stream that holds it
    locked,    \* the holder of the update lock
    ledger,    \* the nonces recorded on disk
    inbox,     \* the incoming bundle files, by the stream that created them
    entitled,  \* the sender's session is still authorized
    admitted,  \* how often each authorization let a body in
    stops

receiptVars == <<clock, handler, admission, permit, locked, ledger, inbox, entitled, admitted, stops>>

Fresh == [at |-> "new", auth |-> NoStream, now |-> 0]
Waits(s, at) == handler[s].at = at
Moves(s, at) == handler' = [handler EXCEPT ![s].at = at]

\* The reply is written and the handler returns; leaving the scope gives the
\* permit back and removes the incoming file.
Answers(s, reply) ==
    /\ Moves(s, reply)
    /\ permit' = IF permit = s THEN NoStream ELSE permit
    /\ inbox' = inbox \ {s}

\* A stream that no longer waits for admission leaves the queue; the others
\* keep their order.
Without(queue, s) ==
    IF s \notin {queue[i] : i \in DOMAIN queue} THEN queue ELSE
    LET place == CHOOSE i \in DOMAIN queue : queue[i] = s IN
    [i \in 1 .. Len(queue) - 1 |-> IF i < place THEN queue[i] ELSE queue[i + 1]]

-----------------------------------------------------------------------------

\* verify: for this computer, signed, and valid now.
Verifies(a, now) == IssuedAt[a] =< now /\ now =< ExpiresAt[a]

\* read_authorization and the checks before admission.
Preface(s, a) ==
    /\ Waits(s, "new")
    /\ IF entitled /\ Verifies(a, clock)
       THEN /\ handler' = [handler EXCEPT ![s] = [at |-> "admission", auth |-> a, now |-> clock]]
            /\ admission' = Append(admission, s)
       ELSE /\ Moves(s, IF entitled THEN "retry" ELSE "rejected")
            /\ UNCHANGED admission
    /\ UNCHANGED <<clock, permit, locked, ledger, inbox, entitled, admitted, stops>>

\* reserve_authorization: records that expired before the time the handler
\* read are dropped.
Retained_Strict(now) == {a \in ledger : ExpiresAt[a] > now}

Retained(now) == {a \in ledger : ExpiresAt[a] >= now}

\* The permit goes to the stream that asked first.  Lock, ledger and unlock
\* follow without an await.
Reserve(s) ==
    /\ admission # <<>> /\ Head(admission) = s /\ permit = NoStream
    /\ admission' = Tail(admission)
    /\ LET auth == handler[s].auth
           kept == Retained(handler[s].now)
       IN IF locked # NoStream \/ auth \in kept \/ Cardinality(kept) >= MaxRecords
          THEN /\ Moves(s, IF locked = NoStream /\ auth \in kept THEN "rejected" ELSE "retry")
               /\ UNCHANGED <<permit, ledger, admitted>>
          ELSE /\ ledger' = kept \cup {auth}
               /\ admitted' = [admitted EXCEPT ![auth] = @ + 1]
               /\ permit' = s
               /\ Moves(s, "length")
    /\ UNCHANGED <<clock, locked, inbox, entitled, stops>>

AdmissionTimesOut(s) ==
    /\ Waits(s, "admission")
    /\ admission' = Without(admission, s)
    /\ Moves(s, "retry")
    /\ UNCHANGED <<clock, permit, locked, ledger, inbox, entitled, admitted, stops>>

\* incoming_bundle: clean_inbox removes every file that is there, then a new
\* one is created.  A length that does not match ends the stream.
OpenIncoming(s) ==
    /\ Waits(s, "length")
    /\ \/ inbox' = {s} /\ Moves(s, "body") /\ UNCHANGED permit
       \/ \E reply \in {"rejected", "retry"} : Answers(s, reply)
    /\ UNCHANGED <<clock, admission, locked, ledger, entitled, admitted, stops>>

\* The body is complete: the session is checked again and the verification
\* takes the lock and the file with it.
BodyEnds(s) ==
    /\ Waits(s, "body")
    /\ \/ \E reply \in {"rejected", "retry"} : Answers(s, reply) /\ UNCHANGED locked
       \/ ~entitled /\ Answers(s, "rejected") /\ UNCHANGED locked
       \/ entitled /\ locked # NoStream /\ Answers(s, "retry") /\ UNCHANGED locked
       \/ /\ entitled
          /\ locked = NoStream
          /\ locked' = s
          /\ Moves(s, "verifying")
          /\ UNCHANGED <<permit, inbox>>
    /\ UNCHANGED <<clock, admission, ledger, entitled, admitted, stops>>

\* run_owned: the blocking transaction ends, releases the lock and removes
\* the file; its handler answers if it is still there.
TransactionEnds(s) ==
    /\ handler[s].at \in {"verifying", "detached"}
    /\ locked' = NoStream
    /\ \E reply \in {"accepted", "rejected", "retry"} : Answers(s, reply)
    /\ UNCHANGED <<clock, admission, ledger, entitled, admitted, stops>>

\* The connection is dropped at an await.  A verification goes on alone.
StreamDropped(s) ==
    /\ handler[s].at \in {"admission", "length", "body", "verifying"}
    /\ admission' = Without(admission, s)
    /\ permit' = IF permit = s THEN NoStream ELSE permit
    /\ IF Waits(s, "verifying")
       THEN Moves(s, "detached") /\ UNCHANGED inbox
       ELSE Moves(s, "gone") /\ inbox' = inbox \ {s}
    /\ UNCHANGED <<clock, locked, ledger, entitled, admitted, stops>>

-----------------------------------------------------------------------------
(* The surroundings *)

OtherOperation ==
    /\ \/ locked = NoStream /\ locked' = Elsewhere
       \/ locked = Elsewhere /\ locked' = NoStream
    /\ UNCHANGED <<clock, handler, admission, permit, ledger, inbox, entitled, admitted, stops>>

SessionExpires ==
    /\ entitled
    /\ entitled' = FALSE
    /\ UNCHANGED <<clock, handler, admission, permit, locked, ledger, inbox, admitted, stops>>

ClockTicks ==
    /\ clock < ClockEnd
    /\ clock' = clock + 1
    /\ UNCHANGED <<handler, admission, permit, locked, ledger, inbox, entitled, admitted, stops>>

\* The service restarts: handlers, permit and lock are gone, files remain.
Restarts ==
    /\ stops < MaxStops
    /\ stops' = stops + 1
    /\ handler' = [s \in Stream |-> IF Waits(s, "new") THEN handler[s] ELSE [handler[s] EXCEPT !.at = "gone"]]
    /\ admission' = <<>>
    /\ permit' = NoStream
    /\ locked' = IF locked = Elsewhere THEN locked ELSE NoStream
    /\ UNCHANGED <<clock, ledger, inbox, entitled, admitted>>

ReceiptInit ==
    /\ clock = 0
    /\ handler = [s \in Stream |-> Fresh]
    /\ admission = <<>>
    /\ permit = NoStream
    /\ locked = NoStream
    /\ ledger = {}
    /\ inbox = {}
    /\ entitled = TRUE
    /\ admitted = [a \in Permission |-> 0]
    /\ stops = 0

ReceiptNext ==
    \/ \E s \in Stream :
          \/ \E a \in Permission : Preface(s, a)
          \/ Reserve(s) \/ AdmissionTimesOut(s) \/ OpenIncoming(s) \/ BodyEnds(s)
          \/ TransactionEnds(s) \/ StreamDropped(s)
    \/ OtherOperation
    \/ SessionExpires
    \/ ClockTicks
    \/ Restarts

ReceiptSpec == ReceiptInit /\ [][ReceiptNext]_receiptVars

-----------------------------------------------------------------------------
(* Properties *)

ReceiptTypeOK ==
    /\ clock \in Nat
    /\ handler \in [Stream -> [at : {"new", "admission", "length", "body", "verifying", "detached",
                                     "accepted", "rejected", "retry", "gone"},
                               auth : Permission \cup {NoStream}, now : Nat]]
    /\ admission \in Seq(Stream)
    /\ ledger \subseteq Permission /\ inbox \subseteq Stream
    /\ admitted \in [Permission -> Nat]

\* One authorization lets at most one body in, although records leave the
\* ledger when they expire, handlers compare with the time they read before
\* they waited for admission, and the service may restart.
AuthorizationUsedOnce == \A a \in Permission : admitted[a] =< 1

\* clean_inbox never removes a file that another stream still receives into
\* or that a verification still reads, even when the connection it came from
\* is gone.
IncomingFileKept ==
    \A s \in Stream : handler[s].at \in {"body", "verifying", "detached"} => s \in inbox

\* A verification holds the update lock until it ends, whatever happens to
\* its connection.
VerificationIsLocked ==
    \A s \in Stream : handler[s].at \in {"verifying", "detached"} => locked = s

\* Why: the queue is in the order of the times its handlers read, so an authorization
\* that was used and has left the ledger is over for every stream still to be admitted.
QueueIsOrdered ==
    /\ \A i \in DOMAIN admission : LET h == handler[admission[i]] IN
          h.at = "admission" /\ h.now =< clock /\ h.auth \in Permission /\ h.now =< ExpiresAt[h.auth]
    /\ \A i, j \in DOMAIN admission : i < j =>
          admission[i] # admission[j] /\ handler[admission[i]].now =< handler[admission[j]].now
    /\ \A a \in Permission : admitted[a] = 0 \/ a \in ledger \/
          /\ ExpiresAt[a] < clock
          /\ \A i \in DOMAIN admission : ExpiresAt[a] < handler[admission[i]].now

\* Why: a handler past admission holds the permit, and nobody is admitted while a
\* verification without a connection goes on.
PermitIsHeld ==
    \A s \in Stream :
        /\ handler[s].at \in {"length", "body", "verifying"} => permit = s
        /\ handler[s].at = "detached" => \A t \in Stream : handler[t].at \notin {"length", "body"}

\* However streams, expiries, restarts and lost connections interleave, one
\* authorization admits one body and what is being verified is left alone.
ReceiptIsSafe ==
    /\ ReceiptTypeOK /\ AuthorizationUsedOnce /\ IncomingFileKept /\ VerificationIsLocked
    /\ QueueIsOrdered /\ PermitIsHeld
=============================================================================
