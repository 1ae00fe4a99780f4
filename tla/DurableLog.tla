---------------------------- MODULE DurableLog ----------------------------
(***************************************************************************)
(* What crates/supgang/src/journal.rs promises LocalState, PeerDirectory   *)
(* and RouteHistory: one content, replaced atomically.  An operation that  *)
(* returned is never undone; one that did not return has happened entirely *)
(* or not at all, and which of the two may change at every later open      *)
(* until the next operation returns.                                       *)
(*                                                                         *)
(* The promise starts when the journal has been created durably: an        *)
(* operation begun before (phase "exposed") may leave anything behind if   *)
(* it does not return.                                                     *)
(***************************************************************************)
CONSTANTS
    Content,  \* the contents a log may hold
    Empty     \* the content of a new log

VARIABLES
    status,    \* "closed", "open" (a caller holds the log) or "busy" (an operation runs)
    content,   \* what the caller that holds the log sees
    pending,   \* what the running operation makes of it
    possible,  \* the contents the next open may find
    phase      \* "new", "exposed" or "settled"

vars == <<status, content, pending, possible, phase>>

Init ==
    /\ status = "closed"
    /\ content = Empty
    /\ pending = Empty
    /\ possible = {Empty}
    /\ phase = "new"

\* The creation of the log may become durable at any step that ends an open or
\* loses the caller.
Settle == phase' \in IF phase = "new" THEN {"new", "settled"} ELSE {phase}

Open ==
    /\ status = "closed"
    /\ status' = "open"
    /\ content' \in IF phase = "exposed" THEN Content ELSE possible
    /\ UNCHANGED <<pending, possible>>
    /\ Settle

Begin(c) ==
    /\ status = "open"
    /\ pending' = c
    /\ possible' = possible \cup {c}
    /\ status' = "busy"
    /\ phase' = IF phase = "settled" THEN "settled" ELSE "exposed"
    /\ UNCHANGED content

Ack ==
    /\ status = "busy"
    /\ status' = "open"
    /\ content' = pending
    /\ pending' = Empty
    /\ possible' = {pending}
    /\ phase' = "settled"

\* The operation fails or the process or machine stops before it returns: the
\* caller has lost the log and must open it again.
Stop ==
    /\ status' = "closed"
    /\ content' = Empty
    /\ pending' = Empty
    /\ UNCHANGED possible
    /\ Settle

\* The operation fails in its first step.
BeginAndStop(c) ==
    /\ status = "open"
    /\ status' = "closed"
    /\ content' = Empty
    /\ possible' = possible \cup {c}
    /\ phase' = IF phase = "settled" THEN "settled" ELSE "exposed"
    /\ UNCHANGED pending

Next ==
    \/ Open
    \/ \E c \in Content : Begin(c) \/ BeginAndStop(c)
    \/ Ack
    \/ Stop

Spec == Init /\ [][Next]_vars
=============================================================================
