--------------------------- MODULE PeerDirectory ---------------------------
(***************************************************************************)
(* The durable cache of the other computers' signed contacts:              *)
(* peer_directory.rs, peer_directory/import_batch.rs and merge.rs, over    *)
(* the promise of the journal (DurableLog).                                *)
(*                                                                         *)
(* A contact is the node that signed it, its sequence and its dial state:  *)
(* the transport key it pins and the addresses that history remembers (a   *)
(* contact with only Local or Reflexive candidates has none).              *)
(* Signatures, expiry and the recovery generation (always 0 in records     *)
(* that this program signs) are not modelled: a contact here is valid.     *)
(* Reachability claims and the journal of authenticated routes are state   *)
(* of their own.                                                           *)
(***************************************************************************)
EXTENDS Naturals, Sequences, SequencesExt, FiniteSets, FiniteSetsExt

CONSTANTS
    Peers,         \* the other computers of the hive
    Contact,       \* the contacts that they sign: records [node, sequence, dial], where dial is
                   \* [pin, addresses] and addresses is a sequence without repetition
    Configured,    \* the address history that the service is started with
    Default,       \* DEFAULT_ADDRESS_HISTORY, which the command opens the directory with
    Capacity,      \* MAX_HIVE_MEMBERS - 1
    CompactAt,     \* PEER_COMPACTION_THRESHOLD_BYTES, in frames
    MaxFrames,     \* MAX_JOURNAL_BYTES, in frames
    MaxPage,       \* MAX_PAGE_CONTACTS
    MaxFaults      \* stops of the process, and revocations

ASSUME DirectoryAssumption ==
    /\ IsFiniteSet(Peers) /\ Cardinality(Peers) <= Capacity
    /\ \A c \in Contact : c.node \in Peers /\ c.sequence \in Nat \ {0}
    /\ Configured \in Nat \ {0} /\ Default \in Nat \ {0}
    /\ CompactAt \in Nat \ {0}

VARIABLES
    status, content, pending, possible,  \* the journal: see DurableLog
    owner,     \* who holds the directory: "service", or "import" and then "imported"
    handle,    \* what the process that holds the directory is doing
    mem,       \* entries
    job,       \* the frames an import persists and the entries it then installs
    revoked,   \* the nodes of the revocation list, kept by LocalState
    faults,
    imported,  \* history: the newest sequence of each node in an import that returned
    evidence   \* history: the nodes whose equivocation an import recorded

log  == <<status, content, pending, possible>>
vars == <<log, owner, handle, mem, job, revoked, faults, imported, evidence>>

None == [none |-> TRUE]
NoJob == [frames |-> <<>>, next |-> None, top |-> None, single |-> FALSE, retried |-> FALSE]

\* history_address_limit
Limit(o) == IF o = "service" THEN Configured ELSE Default

Present(entries) == {n \in Peers : entries[n] # None}

-----------------------------------------------------------------------------
(* merge.rs: decide; peer_directory.rs: apply, trim_history *)

\* Walks the history from its newest contact; a contact stays when it adds an
\* address within the limit (unique_addresses, trim_history).
TrimStep(acc, c) ==
    LET fresh == SelectSeq(c.dial.addresses, LAMBDA a : a \notin acc.seen)
        kept  == SubSeq(fresh, 1, Min({Len(fresh), acc.limit - Cardinality(acc.seen)}))
    IN IF kept = <<>> THEN acc
       ELSE [acc EXCEPT !.seen = @ \cup ToSet(kept), !.history = Append(@, c)]

TrimHistory(history, limit) ==
    FoldLeft(TrimStep, [seen |-> {}, history |-> <<>>, limit |-> limit], history).history

First(c) == [current |-> c, history |-> <<>>, conflict |-> None]

\* AcceptNewer.  Contacts that differ only in addresses history does not keep
\* have one dial state here; trim_history would drop the previous one at once.
Newer(e, c, limit) ==
    [e EXCEPT !.current = c,
              !.history = IF e.current.dial = c.dial THEN @ ELSE TrimHistory(<<e.current>> \o @, limit)]

\* What decide calls Equivocation.
Contradicts(e, c) == c.sequence = e.current.sequence /\ c # e.current

\* The entries that apply leaves.
Merge(entries, c, limit) ==
    LET e == entries[c.node] IN
    CASE e = None /\ Cardinality(Present(entries)) < Capacity -> [entries EXCEPT ![c.node] = First(c)]
      [] e # None /\ e.conflict = None /\ c.sequence > e.current.sequence ->
            [entries EXCEPT ![c.node] = Newer(e, c, limit)]
      [] e # None /\ e.conflict = None /\ Contradicts(e, c) -> [entries EXCEPT ![c.node].conflict = c]
      [] OTHER -> entries

\* apply with persist = false fails on these: DirectoryFull, and a newer contact
\* of a quarantined node.
Refuses(entries, c) ==
    LET e == entries[c.node] IN
    \/ e = None /\ Cardinality(Present(entries)) >= Capacity
    \/ e # None /\ e.conflict # None /\ c.sequence > e.current.sequence

ReplayStep(acc, c) ==
    [acc EXCEPT !.ok = @ /\ ~Refuses(acc.entries, c), !.entries = Merge(@, c, acc.limit)]

NoEntries == [n \in Peers |-> None]

Replay(frames, limit) ==
    FoldLeft(ReplayStep, [ok |-> TRUE, entries |-> NoEntries, limit |-> limit], frames)

\* The order of node ids, in which the entries and a page are walked.
PeerOrder == SetToSeq(Peers)
InOrder(nodes) == SelectSeq(PeerOrder, LAMBDA n : n \in nodes)

\* Faulty variant: the evidence of equivocation is not written.
Canonical_NoEvidence(entries) ==
    FlattenSeq([i \in 1..Cardinality(Present(entries)) |->
        LET e == entries[InOrder(Present(entries))[i]] IN Reverse(e.history) \o <<e.current>>])

\* canonical_frames: node by node, oldest first, the evidence last.
Canonical(entries) ==
    FlattenSeq([i \in 1..Cardinality(Present(entries)) |->
        LET e == entries[InOrder(Present(entries))[i]]
        IN Reverse(e.history) \o <<e.current>> \o IF e.conflict = None THEN <<>> ELSE <<e.conflict>>])

-----------------------------------------------------------------------------
(* import_batch.rs *)

\* The contacts of one node at its newest sequence in the page: at most two that
\* differ, in the order of the page.
Newest(page, n) ==
    LET of  == SelectSeq(page, LAMBDA c : c.node = n)
        top == Max({of[i].sequence : i \in DOMAIN of})
        at  == SelectSeq(of, LAMBDA c : c.sequence = top)
        other == SelectSeq(at, LAMBDA c : c # at[1])
    IN IF of = <<>> THEN <<>>
       ELSE <<at[1]>> \o IF other = <<>> THEN <<>> ELSE <<other[1]>>

CoalescedCandidates(page) ==
    LET known == SelectSeq(SubSeq(page, 1, Min({Len(page), MaxPage + 1})), LAMBDA c : c.node \notin revoked)
    IN FlattenSeq([i \in 1..Cardinality(Peers) |-> Newest(known, PeerOrder[i])])

\* A contact is accepted when it changes the preview.
PreviewStep(acc, c) ==
    LET next == Merge(acc.next, c, Limit(owner))
    IN IF next = acc.next THEN acc ELSE [frames |-> Append(acc.frames, c), next |-> next]

-----------------------------------------------------------------------------
Log == INSTANCE DurableLog
    WITH phase <- "settled", Content <- {}, Empty <- <<>>

Init ==
    /\ status = "closed"
    /\ content = <<>>
    /\ pending = <<>>
    /\ possible = {<<>>}
    /\ owner = "service"
    /\ handle = "none"
    /\ mem = NoEntries
    /\ job = NoJob
    /\ revoked = {}
    /\ faults = 0
    /\ imported = [n \in Peers |-> 0]
    /\ evidence = {}

\* open_with_history_limit: replay, then compaction when the journal holds more
\* than the entries need, or is long.  The service opens the directory with the
\* limit it is configured with, `supgang peer import` (open) with the default.
Open(o) ==
    /\ handle = "none"
    /\ Log!Open
    /\ Replay(content', Limit(o)).ok
    /\ owner' = o
    /\ mem' = Replay(content', Limit(o)).entries
    /\ handle' = IF Len(content') # Len(Canonical(mem')) \/ Len(content') >= CompactAt
                 THEN "trailing" ELSE "ready"
    /\ UNCHANGED <<job, revoked, faults, imported, evidence>>

Long == Len(content) >= CompactAt

\* import, once per command.  It persists a contact that changes the entries,
\* and ends with a compaction when the journal is long.
Import(c) ==
    LET next == Merge(mem, c, Limit(owner)) IN
    /\ handle = "ready"
    /\ owner = "import"
    /\ owner' = "imported"
    /\ c.node \notin revoked
    /\ IF next # mem
       THEN /\ job' = [frames |-> <<c>>, next |-> next, single |-> TRUE, retried |-> FALSE,
                       top |-> [n \in Peers |-> IF n = c.node THEN c.sequence ELSE 0]]
            /\ handle' = IF Long THEN "compact" ELSE "append"
       ELSE handle' = (IF Long THEN "trailing" ELSE "ready") /\ UNCHANGED job
    /\ UNCHANGED <<log, mem, revoked, faults, imported, evidence>>

\* import_page, which the service calls for what a peer sent.
ImportPage(page) ==
    /\ handle = "ready"
    /\ owner = "service"
    /\ LET preview == FoldLeft(PreviewStep, [frames |-> <<>>, next |-> mem], CoalescedCandidates(page))
           sent(n) == {page[i].sequence : i \in {j \in DOMAIN page : page[j].node = n}}
       IN /\ preview.frames # <<>>
          /\ job' = [frames |-> preview.frames, next |-> preview.next, single |-> FALSE, retried |-> FALSE,
                     top |-> [n \in Peers |-> IF n \in revoked \/ sent(n) = {} THEN 0 ELSE Max(sent(n))]]
    /\ handle' = IF Long THEN "compact" ELSE "append"
    /\ UNCHANGED <<log, owner, mem, revoked, faults, imported, evidence>>

\* compact: what it writes was in the journal, so it fits (Reopens).
BeginCompaction ==
    /\ handle \in {"compact", "trailing"}
    /\ Log!Begin(Canonical(mem))
    /\ UNCHANGED <<owner, handle, mem, job, revoked, faults, imported, evidence>>

CompactionReturns ==
    /\ handle \in {"compact", "trailing"}
    /\ Log!Ack
    /\ handle' = IF handle = "compact" THEN "append" ELSE "ready"
    /\ UNCHANGED <<owner, mem, job, revoked, faults, imported, evidence>>

Fits == Len(content) + Len(job.frames) <= MaxFrames

BeginAppend ==
    /\ handle = "append"
    /\ Fits
    /\ Log!Begin(content \o job.frames)
    /\ UNCHANGED <<owner, handle, mem, job, revoked, faults, imported, evidence>>

\* JournalFull: one compaction and one more attempt.
RetryFull ==
    /\ handle = "append"
    /\ status = "open"
    /\ ~Fits
    /\ ~job.retried
    /\ handle' = "compact"
    /\ job' = [job EXCEPT !.retried = TRUE]
    /\ UNCHANGED <<log, owner, mem, revoked, faults, imported, evidence>>

\* The entries are installed after the append has returned.
AppendReturns ==
    /\ handle = "append"
    /\ Log!Ack
    /\ mem' = job.next
    /\ handle' = IF job.single /\ Len(pending) >= CompactAt THEN "trailing" ELSE "ready"
    /\ imported' = [n \in Peers |-> Max({imported[n], job.top[n]})]
    /\ evidence' = evidence \cup {n \in Present(mem') : mem'[n].conflict # None}
    /\ job' = NoJob
    /\ UNCHANGED <<owner, revoked, faults>>

\* LocalState accepted a newer list; set_revocations follows.
SetRevocations(n) ==
    /\ handle = "ready"
    /\ owner = "service"
    /\ faults < MaxFaults
    /\ n \notin revoked
    /\ revoked' = revoked \cup {n}
    /\ faults' = faults + 1
    /\ UNCHANGED <<log, owner, handle, mem, job, imported, evidence>>

Lost ==
    /\ handle' = "none"
    /\ owner' = "service"
    /\ mem' = NoEntries
    /\ job' = NoJob
    /\ UNCHANGED <<revoked, imported, evidence>>

\* The command has imported its contact, or refused it.
CommandEnds ==
    /\ handle = "ready"
    /\ owner # "service"
    /\ Log!Stop
    /\ Lost
    /\ UNCHANGED faults

\* The journal is still full after compaction: the error ends the process.
Full ==
    /\ status = "open"
    /\ handle = "append"
    /\ ~Fits
    /\ job.retried
    /\ Log!Stop
    /\ Lost
    /\ UNCHANGED faults

\* The process or the machine stops, or an operation of the journal fails.
Stop ==
    /\ handle # "none"
    /\ faults < MaxFaults
    /\ faults' = faults + 1
    /\ Log!Stop
    /\ Lost

Pages == UNION {[1..k -> Contact] : k \in 1..MaxPage}

Next ==
    \/ \E o \in {"service", "import"} : Open(o)
    \/ \E c \in Contact : Import(c)
    \/ \E page \in Pages : ImportPage(page)
    \/ BeginCompaction \/ CompactionReturns
    \/ BeginAppend \/ RetryFull \/ AppendReturns
    \/ \E n \in Peers : SetRevocations(n)
    \/ CommandEnds
    \/ Full
    \/ Stop

Spec == Init /\ [][Next]_vars

-----------------------------------------------------------------------------
Entry ==
    [current : Contact, history : Seq(Contact), conflict : Contact \cup {None}]

\* Entries are filed under the node that signed them, history is strictly older
\* than the current contact and goes back in time, evidence contradicts it.
EntryOK(n, e) ==
    LET line == <<e.current>> \o e.history IN
    /\ e \in Entry
    /\ \A i \in DOMAIN line : line[i].node = n
    /\ \A i \in 1..Len(line) - 1 : line[i].sequence > line[i + 1].sequence
    /\ e.conflict # None => e.conflict.node = n /\ Contradicts(e, e.conflict)

TypeOK ==
    /\ status \in {"closed", "open", "busy"}
    /\ content \in Seq(Contact) /\ pending \in Seq(Contact)
    /\ possible \subseteq Seq(Contact) /\ possible # {}
    /\ owner \in {"service", "import", "imported"}
    /\ handle \in {"none", "ready", "compact", "append", "trailing"}
    /\ \A n \in Peers : mem[n] # None => EntryOK(n, mem[n])
    /\ revoked \subseteq Peers
    /\ faults \in 0..MaxFaults
    /\ imported \in [Peers -> Nat]
    /\ evidence \subseteq Peers

\* What dial_hints offers: the current addresses, then those of history that are
\* not among them, within the limit, each with the transport key it is pinned to.
HintStep(acc, c) ==
    LET fresh == SelectSeq(c.dial.addresses, LAMBDA a : a \notin acc.seen)
        kept  == SubSeq(fresh, 1, Min({Len(fresh), acc.left}))
    IN [seen |-> acc.seen \cup ToSet(kept), left |-> acc.left - Len(kept),
        hints |-> acc.hints \o [i \in DOMAIN kept |-> <<c.dial.pin, kept[i]>>]]

DialHints(e) ==
    LET now == e.current.dial
    IN FoldLeft(HintStep,
                [seen |-> ToSet(now.addresses), left |-> Limit(owner),
                 hints |-> [i \in DOMAIN now.addresses |-> <<now.pin, now.addresses[i]>>]],
                e.history).hints

\* At every moment, whatever the next open finds in the journal replays: no
\* sequence of imports, compactions and stops leaves a directory that open
\* refuses (a newer contact after evidence, or one node too many).
AlwaysReplays == \A frames \in possible, limit \in {Configured, Default} : Replay(frames, limit).ok

\* An import that returned is not forgotten: after any stop the directory holds,
\* for each node, a contact at least as new as the newest one it was given, or
\* evidence against the node (0001-sovereign-address-plane.md: keep the greatest
\* sequence; the durable append comes before the result).
NothingForgotten ==
    \A frames \in possible, n \in Peers :
        LET e == Replay(frames, Configured).entries[n]
        IN imported[n] > 0 => e # None /\ (e.current.sequence >= imported[n] \/ e.conflict # None)

\* A node caught signing two contacts with one sequence stays quarantined: no
\* later contact, compaction, stop or restart clears the evidence.
QuarantineIsKept ==
    \A frames \in possible, n \in evidence :
        LET e == Replay(frames, Configured).entries[n] IN e # None /\ e.conflict # None

\* The directory in use is the one its owner would build after a restart: the same contacts, the
\* same evidence and the same dial hints in the same order, although replaying a
\* compacted journal does not rebuild the same history.  Compaction never makes
\* the journal longer.
Reopens ==
    handle \in {"ready", "trailing"} /\ status = "open" =>
        LET again == Replay(content, Limit(owner)).entries IN
        /\ Present(again) = Present(mem)
        /\ \A n \in Present(mem) :
              /\ again[n].current = mem[n].current
              /\ again[n].conflict = mem[n].conflict
              /\ DialHints(again[n]) = DialHints(mem[n])
        /\ Len(Canonical(mem)) <= Len(content)

\* Imports, pages, compactions and stops in any order leave a directory that
\* opens again as it was and has forgotten neither contact nor evidence.
DirectoryIsKept ==
    TypeOK /\ AlwaysReplays /\ NothingForgotten /\ QuarantineIsKept /\ Reopens
=============================================================================
