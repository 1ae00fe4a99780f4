----------------------------- MODULE LocalState -----------------------------
(***************************************************************************)
(* The authoritative local state of one node: crates/supgang/src/state.rs, *)
(* state/event.rs, state/compaction.rs and state_lock.rs, on top of the    *)
(* promise of the journal (module DurableLog).                             *)
(*                                                                         *)
(* The log holds the node's events.  One process at a time (StateLock)     *)
(* replays them into memory; every change is appended first and applied to *)
(* memory when the append has returned.  A failed append or compaction     *)
(* takes the journal away from the process, which must reopen.             *)
(*                                                                         *)
(* The module starts after the genesis event was written.  Signatures,     *)
(* hive identifiers and certificate contents are left out: every event is  *)
(* one the node signed or verified.  The generation is 0 in every event.   *)
(* The digest of a checkpoint is the sequence of frames it covers.         *)
(***************************************************************************)
EXTENDS Integers, FiniteSets, SequencesExt

CONSTANTS
    Node,          \* the devices of the hive
    Self,          \* this device
    HasRoot,       \* the identity holds the hive's root key (the founder)
    LocalSerial,   \* serial of this device's own membership
    MaxMembers,    \* MAX_HIVE_MEMBERS
    MaxSequence,   \* last endpoint sequence, and last membership serial
    MaxRevSerial,  \* last serial of a revocation list
    MaxTime,       \* clock readings are 0..MaxTime, in any order
    CompactAt,     \* AUTHORITATIVE_COMPACTION_THRESHOLD_BYTES, in frames
    MaxFrames,     \* MAX_JOURNAL_BYTES, in frames
    MaxFaults      \* failed operations and lost processes

ASSUME LocalStateConstants ==
    /\ Self \in Node
    /\ HasRoot \in BOOLEAN
    /\ HasRoot => LocalSerial = 1
    /\ {LocalSerial, MaxMembers, MaxSequence} \subseteq Nat \ {0}
    /\ {MaxRevSerial, MaxTime, MaxFaults} \subseteq Nat
    /\ {CompactAt, MaxFrames} \subseteq Nat
    /\ MaxMembers + 1 < CompactAt   \* a snapshot is far below the threshold
    /\ CompactAt <= MaxFrames

VARIABLES
    status, content, pending, possible,  \* the log
    handle,     \* "none", "ready", "compact" or "append" (the call under way),
                \* "poisoned" (the journal was taken after an error)
    mem,        \* LocalState
    event,      \* the event the running call persists
    faults,
    published,  \* sequences returned to a publisher
    issued,     \* certificates issue_membership returned
    revoked     \* nodes of the revocation lists that were persisted and returned

log  == <<status, content, pending, possible>>
said == <<published, issued, revoked>>
vars == <<log, handle, mem, event, faults, said>>

\* Lists the root signs (RevocationList::validate_shape).
RevocationLists ==
    {l \in [serial : 0..MaxRevSerial, issued_at : 0..MaxTime, nodes : SUBSET (Node \ {Self})] :
        (l.serial = 0) <=> (l.nodes = {})}

Genesis(list)      == [kind |-> "genesis", list |-> list]
Sequence(n)        == [kind |-> "sequence", sequence |-> n]
Membership(n, s)   == [kind |-> "membership", node |-> n, serial |-> s]
Revocation(list)   == [kind |-> "revocation", list |-> list]
Checkpoint(n, snap) == [kind |-> "checkpoint", sequence |-> n, snapshot |-> snap]
NoEvent            == [kind |-> "none"]

\* memberships maps each member to its serial.
NoState == [memberships |-> <<>>, list |-> [serial |-> 0, issued_at |-> 0, nodes |-> {}],
            sequence |-> 0, last |-> 0, events |-> 0]

-----------------------------------------------------------------------------
(* event.rs: replay *)

\* A newer list may not forget a revoked node or move its time back.
Supersedes(new, old) ==
    /\ new.serial > old.serial
    /\ new.issued_at >= old.issued_at
    /\ old.nodes \subseteq new.nodes

Applies(st, e) ==
    CASE e.kind = "sequence"   -> e.sequence = st.sequence + 1
      [] e.kind = "membership" -> /\ e.serial = st.last + 1
                                  /\ Cardinality(DOMAIN st.memberships) < MaxMembers
                                  /\ e.node \notin DOMAIN st.memberships
      [] e.kind = "revocation" -> Supersedes(e.list, st.list)
      [] OTHER                 -> FALSE

Apply(st, e) ==
    LET next == [st EXCEPT !.events = @ + 1] IN
    CASE e.kind = "sequence"   -> [next EXCEPT !.sequence = e.sequence]
      [] e.kind = "membership" -> [next EXCEPT !.memberships = @ @@ (e.node :> e.serial),
                                               !.last = e.serial]
      [] e.kind = "revocation" -> [next EXCEPT !.list = e.list]

\* A checkpoint is accepted once, before any sequence, over the frames it signs.
ReplayFrame(frames, acc, i) ==
    IF ~acc.ok THEN acc
    ELSE IF frames[i].kind = "checkpoint"
    THEN [ok   |-> /\ ~acc.checkpoint
                   /\ acc.state.sequence = 0
                   /\ frames[i].snapshot = SubSeq(frames, 1, i - 1),
          checkpoint |-> TRUE,
          state |-> [acc.state EXCEPT !.sequence = frames[i].sequence, !.events = @ + 1]]
    ELSE IF Applies(acc.state, frames[i])
    THEN [acc EXCEPT !.state = Apply(@, frames[i])]
    ELSE [acc EXCEPT !.ok = FALSE]

Replay(frames) ==
    IF frames = <<>> \/ frames[1].kind # "genesis"
    THEN [ok |-> FALSE, checkpoint |-> FALSE, state |-> NoState]
    ELSE LET founded == [memberships |-> Self :> LocalSerial, list |-> frames[1].list,
                         sequence |-> 0, last |-> LocalSerial, events |-> 1]
             step(acc, i) == IF i = 1 THEN acc ELSE ReplayFrame(frames, acc, i)
         IN FoldLeftDomain(step, [ok |-> TRUE, checkpoint |-> FALSE, state |-> founded], frames)

-----------------------------------------------------------------------------
(* compaction.rs *)

Others(st) == DOMAIN st.memberships \ {Self}

Snapshot(st) ==
    <<Genesis(st.list)>>
    \o [i \in 1..Cardinality(Others(st)) |->
          LET n == CHOOSE n \in Others(st) : st.memberships[n] = LocalSerial + i
          IN Membership(n, LocalSerial + i)]

\* Faulty variant: the checkpoint restarts the sequence.
CompactionFrames_NoSequence(st) == Append(Snapshot(st), Checkpoint(0, Snapshot(st)))

CompactionFrames(st) == Append(Snapshot(st), Checkpoint(st.sequence, Snapshot(st)))

\* compaction_frames refuses serials that are not consecutive from its own.
Compactable(st) ==
    /\ {st.memberships[n] : n \in Others(st)} = (LocalSerial + 1)..st.last
    /\ Cardinality(Others(st)) = st.last - LocalSerial

-----------------------------------------------------------------------------
Log == INSTANCE DurableLog
    WITH phase <- "settled", Content <- {}, Empty <- <<>>

Init ==
    /\ \E t \in 0..MaxTime :
          content = <<Genesis([serial |-> 0, issued_at |-> t, nodes |-> {}])>>
    /\ possible = {content}
    /\ status = "open"
    /\ pending = <<>>
    /\ handle = "ready"
    /\ mem = Replay(content).state
    /\ event = NoEvent
    /\ faults = 0
    /\ published = {}
    /\ issued = {}
    /\ revoked = {}

\* state::open takes the lock, opens the journal and replays it.
Open ==
    /\ handle = "none"
    /\ Log!Open
    /\ Replay(content').ok
    /\ handle' = "ready"
    /\ mem' = Replay(content').state
    /\ UNCHANGED <<event, faults, said>>

\* append_authoritative: compaction comes first when the journal is long; a
\* snapshot that cannot be built fails the call and changes nothing.
Request(e) ==
    /\ handle = "ready"
    /\ event = NoEvent
    /\ IF Len(content) >= CompactAt
       THEN Compactable(mem) /\ handle' = "compact"
       ELSE handle' = "append"
    /\ event' = e
    /\ UNCHANGED <<log, mem, faults, said>>

\* reserve_next_sequence; sign_endpoint_record calls it and signs what it returns.
ReserveNextSequence ==
    /\ mem.sequence < MaxSequence
    /\ Request(Sequence(mem.sequence + 1))

\* issue_membership, reached through authorize_join_request, which returns the
\* certificate of a member that has one and changes nothing.
IssueMembership(n) ==
    /\ HasRoot
    /\ Cardinality(DOMAIN mem.memberships) < MaxMembers
    /\ n \notin mem.list.nodes
    /\ n \notin DOMAIN mem.memberships
    /\ mem.last < MaxSequence
    /\ Request(Membership(n, mem.last + 1))

\* revoke; a node that is revoked already gets the same list again.
Revoke(n, now) ==
    /\ HasRoot
    /\ n \in Others(mem)
    /\ n \notin mem.list.nodes
    /\ now >= mem.list.issued_at
    /\ mem.list.serial < MaxRevSerial
    /\ Request(Revocation([serial |-> mem.list.serial + 1, issued_at |-> now,
                           nodes |-> mem.list.nodes \cup {n}]))

\* merge_revocations; a newer list with the same nodes is not stored.
MergeRevocations(list) ==
    /\ Supersedes(list, mem.list)
    /\ list.nodes # mem.list.nodes
    /\ Request(Revocation(list))

BeginCompaction ==
    /\ handle = "compact"
    /\ Log!Begin(CompactionFrames(mem))
    /\ UNCHANGED <<handle, mem, event, faults, said>>

CompactionReturns ==
    /\ handle = "compact"
    /\ Log!Ack
    /\ mem' = [mem EXCEPT !.events = Len(pending)]
    /\ handle' = "append"
    /\ UNCHANGED <<event, faults, said>>

BeginAppend ==
    /\ handle = "append"
    /\ Log!Begin(Append(content, event))
    /\ UNCHANGED <<handle, mem, event, faults, said>>

\* Faulty variant: the call takes effect and returns before the append does.
AppendReturns_Early ==
    /\ handle = "append"
    /\ status = "busy" /\ content # pending
    /\ mem' = Apply(mem, event)
    /\ published' = published \cup IF event.kind = "sequence" THEN {event.sequence} ELSE {}
    /\ issued' = issued \cup IF event.kind = "membership" THEN {<<event.node, event.serial>>} ELSE {}
    /\ revoked' = revoked \cup IF event.kind = "revocation" THEN event.list.nodes ELSE {}
    /\ content' = pending
    /\ status' = "open"
    /\ handle' = "ready"
    /\ event' = NoEvent
    /\ UNCHANGED <<pending, possible, faults>>

\* The append is durable: memory follows and the caller gets its answer.
AppendReturns ==
    /\ handle = "append"
    /\ Log!Ack
    /\ mem' = Apply(mem, event)
    /\ published' = published \cup IF event.kind = "sequence" THEN {event.sequence} ELSE {}
    /\ issued' = issued \cup IF event.kind = "membership" THEN {<<event.node, event.serial>>} ELSE {}
    /\ revoked' = revoked \cup IF event.kind = "revocation" THEN event.list.nodes ELSE {}
    /\ handle' = "ready"
    /\ event' = NoEvent
    /\ UNCHANGED faults

\* The journal reports an error: the handle is taken, memory stays as it was.
OperationFails ==
    /\ faults < MaxFaults
    /\ status = "busy"
    /\ Log!Stop
    /\ handle' = "poisoned"
    /\ event' = NoEvent
    /\ faults' = faults + 1
    /\ UNCHANGED <<mem, said>>

\* The process ends, is killed or loses power; the lock goes with it.
ProcessLost ==
    /\ faults < MaxFaults
    /\ handle # "none"
    /\ Log!Stop
    /\ handle' = "none"
    /\ mem' = NoState
    /\ event' = NoEvent
    /\ faults' = faults + 1
    /\ UNCHANGED said

Next ==
    \/ Open
    \/ ReserveNextSequence
    \/ \E n \in Node \ {Self} : IssueMembership(n)
    \/ \E n \in Node \ {Self}, now \in 0..MaxTime : Revoke(n, now)
    \/ \E list \in RevocationLists : MergeRevocations(list)
    \/ BeginCompaction
    \/ CompactionReturns
    \/ BeginAppend
    \/ AppendReturns
    \/ OperationFails
    \/ ProcessLost

Spec == Init /\ [][Next]_vars

-----------------------------------------------------------------------------
(* Properties *)

\* Every variable has its type, and what memory holds of the revocation list is one the
\* root can have signed (RevocationList::validate_shape).
TypeOK ==
    /\ status \in {"closed", "open", "busy"}
    /\ handle \in {"none", "ready", "compact", "append", "poisoned"}
    /\ DOMAIN mem.memberships \subseteq Node
    /\ mem.list \in RevocationLists
    /\ mem.sequence \in 0..MaxSequence
    /\ published \subseteq 1..MaxSequence
    /\ revoked \subseteq Node

\* Every content that a crash, a failed append or a failed compaction may leave
\* replays: the node never writes a history it later refuses to open.
HistoryAlwaysReplays == \A c \in possible : Replay(c).ok

\* What the process answers from memory is what a reopen would compute from the
\* log, event count included, after any mix of appends and compactions.
MemoryIsReplay ==
    handle = "ready" => mem = Replay(content).state

\* compaction_frames never meets a membership serial it refuses, and the
\* compacted history replays to the same memberships, revocations and sequence.
CompactionPreservesState ==
    handle = "ready" =>
        /\ Compactable(mem)
        /\ LET r == Replay(CompactionFrames(mem))
           IN r.ok /\ r.state = [mem EXCEPT !.events = Len(CompactionFrames(mem))]

\* An append never meets the journal's ceiling: append_authoritative compacts a
\* long journal first, and what is left has room for one more event.
AppendHasRoom == handle = "append" /\ status = "open" => Len(content) < MaxFrames

\* A sequence is returned to a publisher once in the life of the state, whatever
\* fails in between: no two endpoint records carry the same sequence.
SequencesNeverReused ==
    [][published' # published =>
          \A s \in published' \ published : \A p \in published : p < s]_vars

\* A membership that was issued and a revocation that was persisted are part of
\* every history the node may find when it reopens.
AnswersAreDurable ==
    \A c \in possible :
        LET st == Replay(c).state IN
        /\ \A cert \in issued : cert[1] \in DOMAIN st.memberships
                                /\ st.memberships[cert[1]] = cert[2]
        /\ revoked \subseteq st.list.nodes

\* The state in memory, the history on disk and every history a failure may
\* leave agree, and none of them loses an answer (append_authoritative, open).
HistoryIsState ==
    /\ TypeOK
    /\ HistoryAlwaysReplays /\ MemoryIsReplay /\ CompactionPreservesState
    /\ AnswersAreDurable /\ AppendHasRoom
=============================================================================
