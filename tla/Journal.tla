------------------------------ MODULE Journal ------------------------------
(***************************************************************************)
(* The append-only journal of crates/supgang/src/journal.rs and its head   *)
(* witness, journal/witness.rs.                                            *)
(*                                                                         *)
(* A frame is its payload and every frame has unit length, so the length,  *)
(* frame count and digest of a witness are together the sequence of frames *)
(* they commit to.  A file image is a sequence of whole frames and what    *)
(* follows it: nothing, an incomplete frame, or a complete frame whose     *)
(* checksum or length field is wrong.                                      *)
(*                                                                         *)
(* A process may stop between any two system calls (killed, or an I/O      *)
(* error after which the caller drops its handle); the next process sees   *)
(* what the operating system holds.  A power loss keeps only what was      *)
(* synchronized: cur and stale are the images the canonical path may show  *)
(* afterwards, wposs the witnesses.                                        *)
(***************************************************************************)
EXTENDS Naturals, Sequences

CONSTANTS
    Payload,    \* payloads a caller may append
    MaxFrames,  \* MAX_JOURNAL_BYTES, counted in frames
    MaxBatch,   \* the most frames one append_batch call carries
    MaxFaults,  \* bound on the stops and power losses of a behaviour
    BadTails    \* TRUE iff a power loss may leave a complete but corrupt frame

ASSUME JournalConstants ==
    /\ MaxFrames \in Nat \ {0}
    /\ MaxBatch \in Nat \ {0}
    /\ MaxFaults \in Nat
    /\ BadTails \in BOOLEAN

VARIABLES
    file,     \* the image at the canonical path, as the operating system shows it
    cur,      \* images that inode may have after a power loss
    stale,    \* images of a replaced inode its directory entry may still name
    wit,      \* the witness at its path
    wposs,    \* witnesses the path may name after a power loss
    pc,       \* where the owning process is
    view,     \* the frames its hasher and frame count cover
    target,   \* the content the append or compaction in progress commits
    rd,       \* one read-only reader, which takes no lock
    faults,   \* stops and power losses so far
    allowed,  \* history: contents a caller may find: the acknowledged one, and
              \* those of operations begun since and not acknowledged
    risk      \* history, since the last acknowledged operation: "replaced", a
              \* compaction renamed its replacement; "unsettled", an
              \* operation began before the new journal and its witness were
              \* durable

disk == <<file, cur, stale, wit, wposs>>
vars == <<file, cur, stale, wit, wposs, pc, view, target, rd, faults, allowed, risk>>

-----------------------------------------------------------------------------
(* Contents, images and witnesses *)

Contents == UNION {[1..n -> Payload] : n \in 0..MaxFrames}
Batches  == UNION {[1..n -> Payload] : n \in 1..MaxBatch}
Images   == [frames : Contents, tail : {"none", "torn", "bad", "absent"}]
Witness  == [set : BOOLEAN, frames : Contents]

Clean(s)   == [frames |-> s, tail |-> "none"]
Absent     == [frames |-> <<>>, tail |-> "absent"]
NoWitness  == [set |-> FALSE, frames |-> <<>>]
Commits(s) == [set |-> TRUE, frames |-> s]

IsPrefixOf(s, t) == Len(s) <= Len(t) /\ \A i \in 1..Len(s) : s[i] = t[i]

\* What may be on the medium when the bytes from content s up to image img are
\* written and not synchronized.
CrashTails == {"none", "torn"} \cup IF BadTails THEN {"bad"} ELSE {}
Unsynced(s, img) ==
    {[frames |-> SubSeq(img.frames, 1, n), tail |-> t] :
        n \in Len(s)..(Len(img.frames) - 1), t \in CrashTails}
    \cup {[frames |-> img.frames, tail |-> t] :
        t \in {"none", img.tail} \cup IF img.tail = "torn" THEN CrashTails ELSE {}}

-----------------------------------------------------------------------------
(* What open and read decide from an image and a witness *)

\* parse_frames returns an error on a complete frame that is not valid.
Parses(img) == img.tail \in {"none", "torn"}

\* The committed prefix is re-hashed: only the exact frames match the digest.
Accepts(img, w) ==
    /\ Parses(img)
    /\ IF w.set THEN IsPrefixOf(w.frames, img.frames) ELSE img.tail = "none"

\* The directory was not synchronized since the journal was created.
CreationPending ==
    IF Absent \in stale \/ NoWitness \in wposs THEN {"unsettled"} ELSE {}

\* Every stop of the process and every power loss is counted.
Fault ==
    /\ faults < MaxFaults
    /\ faults' = faults + 1

Init ==
    /\ file = Absent
    /\ cur = {Absent}
    /\ stale = {}
    /\ wit = NoWitness
    /\ wposs = {NoWitness}
    /\ pc = "closed"
    /\ view = <<>>
    /\ target = <<>>
    /\ rd = [pc |-> "idle", img |-> Absent]
    /\ faults = 0
    /\ allowed = {<<>>}
    /\ risk = {}

-----------------------------------------------------------------------------
(* Journal::open *)

\* A missing (or zero-length) file gets the magic, synchronized; its directory
\* entry is not durable yet.
OpenCreate ==
    /\ pc = "closed"
    /\ file = Absent
    /\ file' = Clean(<<>>)
    /\ cur' = {Clean(<<>>)}
    /\ stale' = stale \cup cur
    /\ UNCHANGED <<wit, wposs, pc, view, target, rd, faults, allowed, risk>>

\* Faulty variant: the whole file is adopted whatever the witness says.
OpenAdopt_AnyWitness ==
    /\ pc = "closed"
    /\ file # Absent
    /\ file.tail = "none"
    /\ wit' = Commits(file.frames)
    /\ wposs' = wposs \cup {wit'}
    /\ pc' = "adopting"
    /\ UNCHANGED <<file, cur, stale, view, target, rd, faults, allowed, risk>>

\* No witness beside the journal: the whole file is adopted and witnessed.
OpenAdopt ==
    /\ pc = "closed"
    /\ file # Absent
    /\ ~wit.set
    /\ Accepts(file, wit)
    /\ wit' = Commits(file.frames)
    /\ wposs' = wposs \cup {wit'}
    /\ pc' = "adopting"
    /\ UNCHANGED <<file, cur, stale, view, target, rd, faults, allowed, risk>>

AdoptSync ==
    /\ pc = "adopting"
    /\ wposs' = {wit}
    /\ stale' = {}
    /\ pc' = "idle"
    /\ view' = file.frames
    /\ UNCHANGED <<file, cur, wit, target, rd, faults, allowed, risk>>

\* The witness commits to the whole file: nothing to repair, nothing is synced.
OpenCurrent ==
    /\ pc = "closed"
    /\ wit.set
    /\ file = Clean(wit.frames)
    /\ pc' = "idle"
    /\ view' = wit.frames
    /\ UNCHANGED <<disk, target, rd, faults, allowed, risk>>

\* The witness commits to a proper prefix: the rest is cut off, then synced.
OpenTruncate ==
    /\ pc = "closed"
    /\ wit.set
    /\ Accepts(file, wit)
    /\ file # Clean(wit.frames)
    /\ file' = Clean(wit.frames)
    /\ cur' = cur \cup {file'}
    /\ pc' = "truncated"
    /\ UNCHANGED <<stale, wit, wposs, view, target, rd, faults, allowed, risk>>

TruncateSync ==
    /\ pc = "truncated"
    /\ cur' = {file}
    /\ pc' = "idle"
    /\ view' = file.frames
    /\ UNCHANGED <<file, stale, wit, wposs, target, rd, faults, allowed, risk>>

-----------------------------------------------------------------------------
(* Journal::append and append_batch *)

Write(batch) ==
    /\ pc = "idle"
    /\ Len(file.frames) + Len(batch) <= MaxFrames
    /\ target' = view \o batch
    /\ file' = Clean(file.frames \o batch)
    /\ cur' = cur \cup Unsynced(file.frames, file')
    /\ pc' = "written"
    /\ allowed' = allowed \cup {target'}
    /\ risk' = risk \cup CreationPending
    /\ UNCHANGED <<stale, wit, wposs, view, rd, faults>>

\* The process stops, or write_all fails, part of the way through the batch.
WriteShort(batch) ==
    /\ pc = "idle"
    /\ Fault
    /\ Len(file.frames) + Len(batch) <= MaxFrames
    /\ \E n \in 0..(Len(batch) - 1), t \in {"none", "torn"} :
          file' = [frames |-> file.frames \o SubSeq(batch, 1, n), tail |-> t]
    /\ cur' = cur \cup Unsynced(file.frames, file')
    /\ pc' = "closed"
    /\ view' = <<>>
    /\ allowed' = allowed \cup {view \o batch}
    /\ risk' = risk \cup CreationPending
    /\ UNCHANGED <<stale, wit, wposs, target, rd>>

SyncData ==
    /\ pc = "written"
    /\ cur' = {file}
    /\ pc' = "synced"
    /\ UNCHANGED <<file, stale, wit, wposs, view, target, rd, faults, allowed, risk>>

\* Faulty variant: the witness is written without waiting for sync_data.
WriteWitness_BeforeSync ==
    /\ pc \in {"written", "synced", "relinked"}
    /\ wit' = Commits(target)
    /\ wposs' = wposs \cup {wit'}
    /\ pc' = "witnessed"
    /\ UNCHANGED <<file, cur, stale, view, target, rd, faults, allowed, risk>>

\* witness::write up to its rename.
WriteWitness ==
    /\ pc \in {"synced", "relinked"}
    /\ wit' = Commits(target)
    /\ wposs' = wposs \cup {wit'}
    /\ pc' = "witnessed"
    /\ UNCHANGED <<file, cur, stale, view, target, rd, faults, allowed, risk>>

\* The directory sync ends witness::write; the operation returns Ok.
Return ==
    /\ pc = "witnessed"
    /\ wposs' = {wit}
    /\ stale' = {}
    /\ pc' = "idle"
    /\ view' = target
    /\ target' = <<>>
    /\ allowed' = {target}
    /\ risk' = {}
    /\ UNCHANGED <<file, cur, wit, rd, faults>>

-----------------------------------------------------------------------------
(* Journal::compact *)

\* The replacement is complete and synchronized beside the journal.
WriteReplacement(payloads) ==
    /\ pc = "idle"
    /\ target' = payloads
    /\ allowed' = allowed \cup {payloads}
    /\ risk' = risk \cup CreationPending
    /\ pc' = "replacement"
    /\ UNCHANGED <<disk, view, rd, faults>>

RenameReplacement ==
    /\ pc = "replacement"
    /\ file' = Clean(target)
    /\ cur' = {file'}
    /\ stale' = stale \cup cur
    /\ pc' = "renamed"
    /\ risk' = risk \cup {"replaced"}
    /\ UNCHANGED <<wit, wposs, view, target, rd, faults, allowed>>

SyncParent ==
    /\ pc = "renamed"
    /\ stale' = {}
    /\ wposs' = {wit}
    /\ pc' = "relinked"
    /\ UNCHANGED <<file, cur, wit, view, target, rd, faults, allowed, risk>>

-----------------------------------------------------------------------------
(* Journal::read, which holds no lock: the file first, the witness after *)

ReadFile ==
    /\ rd.pc # "file"
    /\ Parses(file)
    /\ rd' = [pc |-> "file", img |-> file]
    /\ UNCHANGED <<disk, pc, view, target, faults, allowed, risk>>

\* Faulty variant: every complete frame is returned, not the witnessed prefix.
ReadWitness_AllFrames ==
    /\ rd.pc = "file"
    /\ rd' = IF wit.set /\ Accepts(rd.img, wit)
             THEN [pc |-> "ok", img |-> Clean(rd.img.frames)]
             ELSE [pc |-> "refused", img |-> Absent]
    /\ UNCHANGED <<disk, pc, view, target, faults, allowed, risk>>

ReadWitness ==
    /\ rd.pc = "file"
    /\ rd' = IF wit.set /\ Accepts(rd.img, wit)
             THEN [pc |-> "ok", img |-> Clean(wit.frames)]
             ELSE [pc |-> "refused", img |-> Absent]
    /\ UNCHANGED <<disk, pc, view, target, faults, allowed, risk>>

-----------------------------------------------------------------------------
(* Faults *)

ProcessStops ==
    /\ pc # "closed"
    /\ Fault
    /\ pc' = "closed"
    /\ view' = <<>>
    /\ target' = <<>>
    /\ UNCHANGED <<disk, rd, allowed, risk>>

PowerLoss ==
    /\ Fault
    /\ file' \in cur \cup stale
    /\ cur' = {file'}
    /\ stale' = {}
    /\ wit' \in wposs
    /\ wposs' = {wit'}
    /\ pc' = "closed"
    /\ view' = <<>>
    /\ target' = <<>>
    /\ rd' = [pc |-> "idle", img |-> Absent]
    /\ UNCHANGED <<allowed, risk>>

Next ==
    \/ OpenCreate
    \/ OpenAdopt
    \/ AdoptSync
    \/ OpenCurrent
    \/ OpenTruncate
    \/ TruncateSync
    \/ \E batch \in Batches : Write(batch) \/ WriteShort(batch)
    \/ SyncData
    \/ WriteWitness
    \/ Return
    \/ \E payloads \in Contents : WriteReplacement(payloads)
    \/ RenameReplacement
    \/ SyncParent
    \/ ReadFile
    \/ ReadWitness
    \/ ProcessStops
    \/ PowerLoss

Spec == Init /\ [][Next]_vars

-----------------------------------------------------------------------------
(* Properties *)

\* Every variable keeps its type; no file or witness grows past MaxFrames.
TypeOK ==
    /\ file \in Images
    /\ cur \subseteq Images
    /\ stale \subseteq Images
    /\ wit \in Witness
    /\ wposs \subseteq Witness
    /\ pc \in {"closed", "adopting", "truncated", "idle", "written", "synced",
               "witnessed", "replacement", "renamed", "relinked"}
    /\ view \in Contents
    /\ target \in Contents
    /\ rd \in [pc : {"idle", "file", "ok", "refused"}, img : Images]
    /\ faults \in 0..MaxFaults
    /\ allowed \subseteq Contents
    /\ risk \subseteq {"replaced", "unsettled"}

\* A journal that is open holds the content of the last acknowledged operation,
\* or that of a later operation whose caller never got an answer, and of that
\* operation all of its frames or none: append, append_batch and compact are
\* durable when they return and atomic when they do not.
DurableAndAtomic == pc = "idle" /\ "unsettled" \notin risk => view \in allowed

\* An open handle, its file and its witness agree, so the next append extends
\* exactly the frames the witness commits to.
HandleIsCurrent ==
    pc = "idle" => file = Clean(view) /\ wit = Commits(view)

\* Whatever a stop or a power loss leaves behind, open accepts it, unless a
\* complete corrupt frame was left or a compaction was interrupted after its
\* rename: a crash of open, append or append_batch is always recovered.
AppendCrashRecovers ==
    risk = {} =>
        \A img \in {file} \cup cur \cup stale, w \in {wit} \cup wposs :
            img = Absent \/ img.tail = "bad" \/ Accepts(img, w)

\* Journal::read runs beside the writer without a lock and reads the file
\* before the witness; what it returns is nevertheless a content that was
\* acknowledged or whose operation had begun, never a part of a batch.
ReaderSeesCommitted ==
    [][rd.pc = "file" /\ rd'.pc = "ok" /\ "unsettled" \notin risk
          => rd'.img.frames \in allowed]_vars

\* journal.rs:1 calls the storage crash-safe and compact's comment says that a
\* failure leaves the original journal or the complete replacement for a caller
\* that reopens: a process can always open what a stopped process left.
ReopenAfterStop == pc = "closed" => file = Absent \/ Accepts(file, wit)

-----------------------------------------------------------------------------
(* The inductive invariant behind these properties *)

\* Where the process is tells what its handle, the file and the witness hold.
Control ==
    /\ pc \in {"idle", "written", "synced", "replacement", "renamed", "relinked"}
          => wit = Commits(view)
    /\ pc \in {"idle", "replacement"} => file = Clean(view)
    /\ pc \in {"written", "synced", "renamed", "relinked", "witnessed"}
          => file = Clean(target)
    /\ pc \in {"synced", "renamed", "relinked", "witnessed"} => cur = {file}
    /\ pc \in {"written", "synced"} => IsPrefixOf(view, target)
    /\ pc \in {"renamed", "relinked"} => "replaced" \in risk
    /\ pc \in {"written", "synced", "witnessed", "replacement", "renamed", "relinked"}
          => target \in allowed
    /\ pc = "witnessed" => wit = Commits(target)
    /\ pc \in {"adopting", "truncated"} => file = Clean(wit.frames) /\ wit.set

\* What the operating system shows is among what a power loss may leave.
Shown ==
    /\ file \in cur
    /\ wit \in wposs
    /\ \A img \in cur \cup stale : img.tail = "absent" => img = Absent
    /\ \A w \in wposs : ~w.set => w = NoWitness
    /\ Absent \in cur => cur = {Absent}
    /\ file = Absent => pc = "closed"

\* A journal whose creation is not durable is still empty.
EmptyUntilDurable ==
    "unsettled" \notin risk /\ (NoWitness \in wposs \/ Absent \in cur \cup stale) =>
        /\ \A img \in cur \cup stale : img.frames = <<>> /\ img.tail \in {"none", "absent"}
        /\ \A w \in wposs : w.frames = <<>>
        /\ <<>> \in allowed
        /\ pc \in {"closed", "adopting", "idle"}
        /\ "replaced" \notin risk

\* Every witness that may come back commits to an allowed content.
WitnessAllowed ==
    "unsettled" \notin risk => \A w \in wposs : w.set => w.frames \in allowed

\* As long as no compaction is exposed, the witnesses that may come back grow
\* toward the one in place, and only a creation leaves an older directory entry.
WitnessesGrow ==
    risk = {} =>
        /\ \A w \in wposs : w.set => IsPrefixOf(w.frames, wit.frames)
        /\ stale # {} => Absent \in stale

JournalInvariant ==
    /\ TypeOK
    /\ Control
    /\ Shown
    /\ EmptyUntilDurable
    /\ WitnessAllowed
    /\ WitnessesGrow
    /\ AppendCrashRecovers

-----------------------------------------------------------------------------
(* The abstraction the callers rely on *)

\* The journal and its witness are durable at their paths.
Durable == Absent \notin {file} \cup cur \cup stale /\ NoWitness \notin {wit} \cup wposs

LogStatus ==
    IF pc = "idle" THEN "open"
    ELSE IF pc \in {"closed", "adopting", "truncated"} THEN "closed" ELSE "busy"

LogPhase ==
    IF "unsettled" \in risk THEN "exposed" ELSE IF Durable THEN "settled" ELSE "new"

Log == INSTANCE DurableLog WITH
    Content  <- Contents,
    Empty    <- <<>>,
    status   <- LogStatus,
    content  <- view,
    pending  <- target,
    possible <- allowed,
    phase    <- LogPhase

\* Under every stop and power loss the journal behaves as the atomic durable log
\* of DurableLog: open, append, append_batch and compact implement its steps.
ImplementsDurableLog == Log!Spec
=============================================================================
