--------------------------- MODULE UpdateLifecycle ---------------------------
(***************************************************************************)
(* The installed releases of one computer: the slot files and the records  *)
(* that name them (crates/supgang/src/update/lifecycle.rs and              *)
(* lifecycle/local_candidate.rs), the supervisor that tries a pending      *)
(* release (update/supervisor.rs, update/attempts.rs), and the owner's     *)
(* refresh that waits for its verdict (platform_service/refresh.rs).       *)
(*                                                                         *)
(* Every operation runs under the update lock and changes one file at a    *)
(* time; job is the operation that holds the lock and the step it is at.   *)
(* A process may be killed between any two steps.  What an operation reads *)
(* under the lock is fixed when it starts, so its guards are checked then. *)
(***************************************************************************)
EXTENDS Integers, FiniteSets

CONSTANTS
    Release,      \* the builds this computer may meet
    Digest,       \* the digest of each build
    Version,      \* the version of each build
    None,         \* no record
    MaxAttempts,  \* launches granted to one candidate
    MaxCommands,  \* owner commands and peer deliveries
    MaxKills      \* processes killed between two steps

ASSUME UpdateConstants ==
    /\ Version \in [Release -> Nat]
    /\ DOMAIN Digest = Release
    /\ \A r, s \in Release : Digest[r] = Digest[s] /\ Version[r] = Version[s] => r = s
    /\ None \notin Release
    /\ MaxAttempts \in Nat \ {0}
    /\ MaxCommands \in Nat
    /\ MaxKills \in Nat

VARIABLES
    files,     \* the record files: active, previous, staged, pending, fallback
    slots,     \* the executable in each slot directory
    kept,      \* the copies in the fallback directory
    attempts,  \* activation-attempts.json
    job,       \* the operation that holds the update lock
    sup,       \* the supervisor
    owner,     \* the command that applies a staged release
    refresh,   \* the owner's refresh to a newer release
    outcome,   \* refresh-outcome.json
    launches,  \* launches granted since the last explicit activation
    failed,    \* releases a revert abandoned and nobody installed since
    stale,     \* an operation was refused because of an earlier one's partial file
    commands,
    kills

durable == <<files, slots, kept, attempts>>
history == <<launches, failed, stale>>
vars == <<durable, job, sup, owner, refresh, outcome, history, commands, kills>>

Digests == {Digest[r] : r \in Release}
Record  == Release \cup {None}
Names   == {"active", "previous", "staged", "pending"}

NoJob == [kind |-> "none", at |-> "done", rel |-> None, prev |-> None]
NoAttempts == [rel |-> None, count |-> 0]
LockFree == job = NoJob /\ sup # "probation"

Init ==
    /\ files = [n \in Names \cup {"fallback"} |-> None]
    /\ slots = [d \in Digests |-> "none"]
    /\ kept = [d \in Digests |-> "none"]
    /\ attempts = NoAttempts
    /\ job = NoJob
    /\ sup = "down"
    /\ owner = "idle"
    /\ refresh = [pc |-> "idle", rel |-> None, seen |-> None]
    /\ outcome = None
    /\ launches = 0
    /\ failed = {}
    /\ stale = FALSE
    /\ commands = 0
    /\ kills = 0

-----------------------------------------------------------------------------
(* Reading the records *)

\* validate_record: the slot holds the recorded digest.
Valid(r) == r \in Release => slots[Digest[r]] = "full"

RecordsValid == \A n \in Names : Valid(files[n])

\* effective_version_floor, without the compiled version of the reader.
AtLeastFloor(r) ==
    /\ RecordsValid
    /\ \A n \in Names : files[n] \in Release => Version[files[n]] =< Version[r]

AboveFloor(r) ==
    /\ RecordsValid
    /\ \A n \in Names : files[n] \in Release => Version[files[n]] < Version[r]

Newer(r, s) == Version[r] > Version[s]

\* validate_against_active.
SameOrNewer(r) ==
    /\ files.active \in Release
    /\ Valid(files.active)
    /\ r = files.active \/ Newer(r, files.active)

PendingValid == files.pending \in Release => Valid(files.pending) /\ SameOrNewer(files.pending)

\* status reads without the lock and refuses a record that does not validate.
StatusAnswers ==
    /\ PendingValid
    /\ Valid(files.active)
    /\ files.staged \in Release => Valid(files.staged) /\ SameOrNewer(files.staged)

-----------------------------------------------------------------------------
(* Operations: which steps each one takes *)

Follows(kind, at) ==
    CASE kind = "install" ->
            (CASE at = "slot" -> "fill" [] at = "fill" -> "rm-staged" [] at = "rm-staged" -> "rm-pending"
               [] at = "rm-pending" -> "previous" [] at = "previous" -> "active"
               [] at = "active" -> "prune" [] OTHER -> "done")
      [] kind = "stage" ->
            (CASE at = "slot" -> "fill" [] at = "fill" -> "copy" [] at = "copy" -> "fill-copy"
               [] at = "fill-copy" -> "fallback" [] at = "fallback" -> "drop-kept"
               [] at = "drop-kept" -> "pending" [] OTHER -> "done")
      [] kind = "verify" ->
            (CASE at = "pre-prune" -> "download" [] at = "download" -> "staged"
               [] at = "staged" -> "prune" [] OTHER -> "done")
      [] kind = "apply" -> (IF at = "reset" THEN "pending" ELSE "done")
      [] kind = "cancel" -> (IF at = "rm-pending" THEN "prune" ELSE "done")
      [] kind = "revert" ->
            (CASE at = "active" -> "slot" [] at = "slot" -> "fill" [] at = "fill" -> "previous"
               [] at = "previous" -> "prune" [] OTHER -> "done")
      [] kind = "commit" ->
            (CASE at = "previous" -> "active" [] at = "active" -> "rm-pending"
               [] at = "rm-pending" -> "rm-staged" [] at = "rm-staged" -> "prune" [] OTHER -> "done")
      [] kind = "discard" ->
            (CASE at = "rm-pending" -> "rm-staged" [] at = "rm-staged" -> "prune" [] OTHER -> "done")
      [] OTHER -> "done"

Job(kind, at, rel, prev) == [kind |-> kind, at |-> at, rel |-> rel, prev |-> prev]
At(at) == job # NoJob /\ job.at = at
Advance == job' = [job EXCEPT !.at = Follows(job.kind, job.at)]
SupervisorJob == job.kind \in {"commit", "discard"}
RefreshJob == job # NoJob /\ ~SupervisorJob /\ refresh.pc \in {"staging", "reverting"}

\* The operation returns an error: the lock is dropped, what was written stays.
JobFails ==
    /\ job' = NoJob
    /\ sup' = IF SupervisorJob THEN "down" ELSE sup
    /\ refresh' = CASE RefreshJob /\ refresh.pc = "staging" -> [refresh EXCEPT !.pc = "idle"]
                    [] RefreshJob /\ refresh.pc = "reverting" -> [refresh EXCEPT !.pc = "ended"]
                    [] OTHER -> refresh
    /\ owner' = IF job.kind \in {"apply", "cancel"} THEN "idle" ELSE owner

Idle == UNCHANGED <<sup, owner, refresh, outcome, history, commands, kills>>

\* write_atomic or remove_file of one record.
WriteRecords(f) == files' = f /\ Advance /\ UNCHANGED <<slots, kept, attempts>> /\ Idle

-----------------------------------------------------------------------------
(* The steps of an operation, one file each *)

\* The slot an operation needs: a revert restores the slot of the kept copy.
SlotTarget == IF job.kind = "revert" THEN job.prev ELSE job.rel

\* write_new_file creates the file and then writes it.  A complete file is
\* kept as it is, one that does not validate ends the operation.
CreateSlot ==
    /\ At("slot")
    /\ LET t == SlotTarget IN
       \/ /\ t = None
          /\ job' = [job EXCEPT !.at = "previous"]
          /\ UNCHANGED slots
          /\ Idle
       \/ /\ t # None
          /\ job.kind = "revert" => kept[Digest[t]] = "full"
          /\ slots[Digest[t]] = "none"
          /\ slots' = [slots EXCEPT ![Digest[t]] = "partial"]
          /\ Advance
          /\ Idle
       \/ /\ t # None
          /\ job.kind = "revert" => kept[Digest[t]] = "full"
          /\ slots[Digest[t]] = "full"
          /\ job' = [job EXCEPT !.at = Follows(job.kind, "fill")]
          /\ UNCHANGED slots
          /\ Idle
       \/ /\ t # None
          /\ ~(slots[Digest[t]] # "partial" /\ (job.kind = "revert" => kept[Digest[t]] = "full"))
          /\ JobFails
          /\ stale' = TRUE
          /\ UNCHANGED <<slots, outcome, launches, failed, commands, kills>>
    /\ UNCHANGED <<files, kept, attempts>>

FillSlot ==
    /\ At("fill")
    /\ slots' = [slots EXCEPT ![Digest[SlotTarget]] = "full"]
    /\ Advance
    /\ UNCHANGED <<files, kept, attempts>>
    /\ Idle

CopyNeeded == files.previous \in Release /\ Digest[files.previous] # Digest[files.active]

\* preserve_fallback copies the previous release out of the slots.
CreateCopy ==
    /\ At("copy")
    /\ LET p == files.previous IN
       \/ /\ ~CopyNeeded
          /\ job' = [job EXCEPT !.at = "pending"]
          /\ UNCHANGED kept
          /\ Idle
       \/ /\ CopyNeeded
          /\ kept[Digest[p]] = "none"
          /\ kept' = [kept EXCEPT ![Digest[p]] = "partial"]
          /\ Advance
          /\ Idle
       \/ /\ CopyNeeded
          /\ kept[Digest[p]] = "full"
          /\ job' = [job EXCEPT !.at = "fallback"]
          /\ UNCHANGED kept
          /\ Idle
       \/ /\ CopyNeeded
          /\ kept[Digest[p]] = "partial"
          /\ JobFails
          /\ stale' = TRUE
          /\ UNCHANGED <<kept, outcome, launches, failed, commands, kills>>
    /\ UNCHANGED <<files, slots, attempts>>

FillCopy ==
    /\ At("fill-copy")
    /\ kept' = [kept EXCEPT ![Digest[files.previous]] = "full"]
    /\ Advance
    /\ UNCHANGED <<files, slots, attempts>>
    /\ Idle

SetFallback ==
    /\ At("fallback")
    /\ WriteRecords([files EXCEPT !.fallback = files.previous])

\* prune_fallbacks removes the other copies one by one.
DropKept ==
    /\ At("drop-kept")
    /\ LET others == {d \in Digests : kept[d] # "none" /\ d # Digest[files.previous]} IN
       \/ \E d \in others : kept' = [kept EXCEPT ![d] = "none"] /\ UNCHANGED job
       \/ others = {} /\ Advance /\ UNCHANGED kept
    /\ UNCHANGED <<files, slots, attempts>>
    /\ Idle

\* stage_stream publishes the verified download by a rename; verification or
\* the version check may also fail, and the slots are pruned either way.
Download ==
    /\ At("download")
    /\ \/ /\ AboveFloor(job.rel)
          /\ slots[Digest[job.rel]] \in {"none", "full"}
          /\ slots' = [slots EXCEPT ![Digest[job.rel]] = "full"]
          /\ Advance
       \/ job' = [job EXCEPT !.at = "prune"] /\ UNCHANGED slots
    /\ UNCHANGED <<files, kept, attempts>>
    /\ Idle

SetStaged ==
    /\ At("staged")
    /\ WriteRecords([files EXCEPT !.staged = job.rel])

\* An activation: the launches the properties count start again.
SetPending ==
    /\ At("pending")
    /\ files' = [files EXCEPT !.pending = job.rel]
    /\ launches' = 0
    /\ Advance
    /\ UNCHANGED <<slots, kept, attempts, sup, owner, refresh, outcome, failed, stale, commands, kills>>

ResetAttempts ==
    /\ At("reset")
    /\ attempts' = NoAttempts
    /\ launches' = 0
    /\ Advance
    /\ UNCHANGED <<files, slots, kept, sup, owner, refresh, outcome, failed, stale, commands, kills>>

\* Faulty variant: a discarded candidate stays pending.
RemovePending_NotDiscarded ==
    /\ At("rm-pending")
    /\ WriteRecords(IF job.kind = "discard" THEN files ELSE [files EXCEPT !.pending = None])

RemovePending ==
    /\ At("rm-pending")
    /\ WriteRecords([files EXCEPT !.pending = None])

\* An install removes the staged record, a verdict only the record of the
\* digest it was about.
RemoveStaged ==
    /\ At("rm-staged")
    /\ WriteRecords(IF job.kind = "install"
                       \/ (files.staged # None /\ Digest[files.staged] = Digest[job.rel])
                    THEN [files EXCEPT !.staged = None]
                    ELSE files)

\* An install or a commit of the active release leaves the previous one.
SetPrevious ==
    /\ At("previous")
    /\ WriteRecords(IF job.prev = None /\ job.kind # "revert"
                    THEN files
                    ELSE [files EXCEPT !.previous = job.prev])

SetActive ==
    /\ At("active")
    /\ files' = [files EXCEPT !.active = job.rel]
    /\ failed' = (IF job.kind = "revert" THEN failed \cup {files.active} ELSE failed) \ {job.rel}
    /\ Advance
    /\ UNCHANGED <<slots, kept, attempts, sup, owner, refresh, outcome, launches, stale, commands, kills>>

Named == {Digest[files[n]] : n \in {m \in Names : files[m] \in Release}}

\* Faulty variant: the pending release is not among the records that keep a slot.
Prune_NotPending ==
    /\ At("prune") \/ At("pre-prune")
    /\ RecordsValid
    /\ LET named  == {Digest[files[n]] : n \in {m \in Names \ {"pending"} : files[m] \in Release}}
           unused == {d \in Digests : slots[d] # "none" /\ d \notin named} IN
       \/ \E d \in unused : slots' = [slots EXCEPT ![d] = "none"] /\ UNCHANGED job
       \/ unused = {} /\ Advance /\ UNCHANGED slots
    /\ UNCHANGED <<files, kept, attempts>>
    /\ Idle

\* prune_slots removes, one by one, the slots that no record names.
Prune ==
    /\ At("prune") \/ At("pre-prune")
    /\ RecordsValid
    /\ LET unused == {d \in Digests : slots[d] # "none" /\ d \notin Named} IN
       \/ \E d \in unused : slots' = [slots EXCEPT ![d] = "none"] /\ UNCHANGED job
       \/ unused = {} /\ Advance /\ UNCHANGED slots
    /\ UNCHANGED <<files, kept, attempts>>
    /\ Idle

\* The operation returns and the lock is dropped.
JobEnds ==
    /\ At("done")
    /\ job' = NoJob
    /\ sup' = CASE job.kind = "commit" /\ sup = "judged" -> "running"
                [] job.kind = "commit" /\ sup = "recovering" -> "down"
                [] job.kind = "discard" -> "down"
                [] OTHER -> sup
    /\ refresh' = CASE RefreshJob /\ refresh.pc = "staging" -> [refresh EXCEPT !.pc = "watching"]
                    [] RefreshJob /\ refresh.pc = "reverting" -> [refresh EXCEPT !.pc = "reverted"]
                    [] OTHER -> refresh
    /\ owner' = CASE job.kind = "apply" -> "applied"
                  [] job.kind = "cancel" -> "idle"
                  [] OTHER -> owner
    /\ UNCHANGED <<durable, outcome, history, commands, kills>>

-----------------------------------------------------------------------------
(* Owner commands and peer deliveries; one that finds the lock held ends *)

Begin(j) ==
    /\ LockFree
    /\ commands < MaxCommands
    /\ commands' = commands + 1
    /\ job' = j
    /\ UNCHANGED <<durable, sup, outcome, history, kills>>

\* Faulty variant: the version floor is not consulted.
BeginInstall_NoFloor(r) ==
    /\ RecordsValid
    /\ Begin(Job("install", "slot", r, IF files.active = r THEN None ELSE files.active))
    /\ UNCHANGED <<owner, refresh>>

\* initialize_installed: a first install, or a rebuild that is not newer.
BeginInstall(r) ==
    /\ files.active \in Release => ~Newer(files.active, r)
    /\ AtLeastFloor(r)
    /\ Begin(Job("install", "slot", r, IF files.active = r THEN None ELSE files.active))
    /\ UNCHANGED <<owner, refresh>>

\* stage_local_candidate_unlocked: a refresh to a newer release.
BeginStage(r) ==
    /\ refresh.pc \in {"idle", "recorded", "ended"}
    /\ files.active \in Release /\ Valid(files.active)
    /\ Newer(r, files.active)
    /\ AtLeastFloor(r)
    /\ Begin(Job("stage", "slot", r, None))
    /\ refresh' = [pc |-> "staging", rel |-> r, seen |-> None]
    /\ UNCHANGED owner

\* A bundle from a file or from a peer; refused while an activation is pending.
BeginVerify(r) ==
    /\ files.active \in Release /\ RecordsValid
    /\ files.pending = None
    /\ Begin(Job("verify", "pre-prune", r, None))
    /\ UNCHANGED <<owner, refresh>>

\* activate_staged.
BeginApply ==
    /\ owner = "idle"
    /\ files.staged \in Release /\ Valid(files.staged)
    /\ SameOrNewer(files.staged)
    /\ Begin(Job("apply", "reset", files.staged, None))
    /\ owner' = "applying"
    /\ UNCHANGED refresh

\* After activate_staged the command restarts the service.  When that fails it
\* cancels the activation, or reports that the lock is held.
BeginCancel ==
    /\ owner = "applied"
    /\ LockFree
    /\ job' = Job("cancel", "rm-pending", None, None)
    /\ owner' = "cancelling"
    /\ UNCHANGED <<durable, sup, refresh, outcome, history, commands, kills>>

ApplyReturns ==
    /\ owner = "applied"
    /\ owner' = "idle"
    /\ UNCHANGED <<durable, job, sup, refresh, outcome, history, commands, kills>>

\* What a revert records as previous: the kept fallback, unless it is the
\* release that is restored or the one that failed.
Fallback ==
    IF files.fallback \in Release
       /\ Digest[files.fallback] \notin {Digest[files.previous], Digest[files.active]}
    THEN files.fallback
    ELSE None

CanRevert ==
    /\ files.active \in Release /\ files.previous \in Release
    /\ Valid(files.active) /\ Valid(files.previous)
    /\ Digest[files.previous] # Digest[files.active]

\* update revert: the active release is the one that failed.
BeginRevert ==
    /\ StatusAnswers
    /\ CanRevert
    /\ Begin(Job("revert", "active", files.previous, Fallback))
    /\ UNCHANGED <<owner, refresh>>

-----------------------------------------------------------------------------
(* The supervisor; the service manager starts it again whenever it ends *)

\* run_loop up to and with the launch: an interrupted commit is finished, the active
\* release runs when nothing is pending, and a candidate gets one of its
\* attempts (attempts::reserve) or is discarded.
SupervisorStarts ==
    /\ sup = "down" /\ LockFree
    /\ files.active \in Release /\ Valid(files.active) /\ PendingValid
    /\ LET used == IF attempts.rel = files.pending THEN attempts.count ELSE 0 IN
       \/ /\ files.pending = files.active
          /\ job' = Job("commit", "previous", files.active, None)
          /\ sup' = "recovering"
          /\ UNCHANGED attempts
       \/ /\ files.pending = None
          /\ sup' = "running"
          /\ UNCHANGED <<job, attempts>>
       \/ /\ files.pending \notin {None, files.active}
          /\ used >= MaxAttempts
          /\ job' = Job("discard", "rm-pending", files.pending, None)
          /\ sup' = "judged"
          /\ UNCHANGED attempts
       \/ /\ files.pending \notin {None, files.active}
          /\ used < MaxAttempts
          /\ attempts' = [rel |-> files.pending, count |-> used + 1]
          /\ sup' = "probation"
          /\ UNCHANGED job
    /\ launches' = IF sup' = "probation" THEN launches + 1 ELSE launches
    /\ UNCHANGED <<files, slots, kept, owner, refresh, outcome, failed, stale, commands, kills>>

\* The child cannot be started or watched, or the supervisor is killed: the
\* lock is released and the attempt is spent.
LaunchFails ==
    /\ sup = "probation"
    /\ sup' = "down"
    /\ UNCHANGED <<durable, job, owner, refresh, outcome, history, commands, kills>>

\* commit_pending after the probation, discard_pending when it is not passed.
ProbationPasses ==
    /\ sup = "probation"
    /\ sup' = "judged"
    /\ job' = Job("commit", "previous", files.pending, files.active)
    /\ UNCHANGED <<durable, owner, refresh, outcome, history, commands, kills>>

ProbationFails ==
    /\ sup = "probation"
    /\ sup' = "judged"
    /\ job' = Job("discard", "rm-pending", files.pending, None)
    /\ UNCHANGED <<durable, owner, refresh, outcome, history, commands, kills>>

\* The payload exits, does not become ready, or is restarted by its owner.
PayloadExits ==
    /\ sup = "running"
    /\ sup' = "down"
    /\ UNCHANGED <<durable, job, owner, refresh, outcome, history, commands, kills>>

-----------------------------------------------------------------------------
(* The refresh waits for the verdict, reading without the lock *)

RefreshOnly == UNCHANGED <<durable, job, sup, owner, history, commands, kills>>

\* activation_pending reads the record first and validates it afterwards.
ReadPending ==
    /\ refresh.pc = "watching"
    /\ refresh' = IF files.pending = None
                  THEN [refresh EXCEPT !.pc = "verdict"]
                  ELSE [refresh EXCEPT !.pc = "validating", !.seen = files.pending]
    /\ UNCHANGED outcome
    /\ RefreshOnly

ValidatePending ==
    /\ refresh.pc = "validating"
    /\ refresh' = [refresh EXCEPT !.seen = None,
                     !.pc = IF Valid(refresh.seen) /\ SameOrNewer(refresh.seen) THEN "watching" ELSE "ended"]
    /\ UNCHANGED outcome
    /\ RefreshOnly

\* VERDICT_TIMEOUT: the refresh returns while the candidate is still pending.
VerdictTimesOut ==
    /\ refresh.pc = "watching"
    /\ files.pending # None
    /\ refresh' = [refresh EXCEPT !.pc = "idle"]
    /\ UNCHANGED outcome
    /\ RefreshOnly

Records(result) ==
    /\ outcome' = [rel |-> refresh.rel, result |-> result]
    /\ refresh' = [refresh EXCEPT !.pc = "recorded"]

\* Another digest is active: the supervisor rejected the candidate.  Otherwise
\* it is kept at once when no peer was connected before the refresh.
ReadVerdict ==
    /\ refresh.pc = "verdict"
    /\ \/ Digest[files.active] # Digest[refresh.rel] /\ Records("reverted-unhealthy")
       \/ Digest[files.active] = Digest[refresh.rel] /\ Records("committed")
       \/ /\ Digest[files.active] = Digest[refresh.rel]
          /\ refresh' = [refresh EXCEPT !.pc = "reconnecting"]
          /\ UNCHANGED outcome
    /\ RefreshOnly

PeerReconnects ==
    /\ refresh.pc = "reconnecting"
    /\ Records("committed")
    /\ RefreshOnly

\* No peer in time: revert_local_candidate_unlocked, or an error that ends the
\* refresh when the lock is held or the candidate is not active any more.
NoPeerReconnects ==
    /\ refresh.pc = "reconnecting"
    /\ \/ /\ LockFree
          /\ CanRevert /\ Digest[files.active] = Digest[refresh.rel]
          /\ job' = Job("revert", "active", files.previous, Fallback)
          /\ refresh' = [refresh EXCEPT !.pc = "reverting"]
       \/ /\ ~(LockFree /\ CanRevert /\ Digest[files.active] = Digest[refresh.rel])
          /\ refresh' = [refresh EXCEPT !.pc = "ended"]
          /\ UNCHANGED job
    /\ UNCHANGED <<durable, sup, owner, outcome, history, commands, kills>>

RecordRevert ==
    /\ refresh.pc = "reverted"
    /\ Records("reverted-no-peer")
    /\ RefreshOnly

-----------------------------------------------------------------------------
(* Kills *)

\* The process that runs the operation is killed and its lock is released.
KillJob ==
    /\ job # NoJob
    /\ kills < MaxKills
    /\ kills' = kills + 1
    /\ job' = NoJob
    /\ sup' = IF SupervisorJob THEN "down" ELSE sup
    /\ owner' = IF job.kind \in {"apply", "cancel"} THEN "idle" ELSE owner
    /\ refresh' = IF RefreshJob THEN [refresh EXCEPT !.pc = "idle"] ELSE refresh
    /\ UNCHANGED <<durable, outcome, history, commands>>

KillRefresh ==
    /\ refresh.pc \in {"watching", "verdict", "reconnecting", "reverted"}
    /\ kills < MaxKills
    /\ kills' = kills + 1
    /\ refresh' = [refresh EXCEPT !.pc = "idle"]
    /\ UNCHANGED <<durable, job, sup, owner, outcome, history, commands>>

-----------------------------------------------------------------------------
JobStep ==
    \/ CreateSlot \/ FillSlot \/ CreateCopy \/ FillCopy \/ SetFallback \/ DropKept
    \/ Download \/ SetStaged \/ SetPending \/ ResetAttempts \/ RemovePending
    \/ RemoveStaged \/ SetPrevious \/ SetActive \/ Prune \/ JobEnds

OwnerStep ==
    \/ \E r \in Release : BeginInstall(r) \/ BeginStage(r) \/ BeginVerify(r)
    \/ BeginApply \/ BeginCancel \/ ApplyReturns \/ BeginRevert

SupervisorStep == SupervisorStarts \/ ProbationPasses \/ ProbationFails

RefreshStep ==
    \/ ReadPending \/ ValidatePending \/ VerdictTimesOut \/ ReadVerdict
    \/ PeerReconnects \/ NoPeerReconnects \/ RecordRevert

Next == JobStep \/ OwnerStep \/ SupervisorStep \/ LaunchFails \/ PayloadExits
        \/ RefreshStep \/ KillJob \/ KillRefresh

Spec == Init /\ [][Next]_vars

-----------------------------------------------------------------------------
(* Properties *)

FileState == {"none", "partial", "full"}

\* Every variable holds a value of its kind.
TypeOK ==
    /\ files \in [Names \cup {"fallback"} -> Record]
    /\ slots \in [Digests -> FileState]
    /\ kept \in [Digests -> FileState]
    /\ attempts \in [rel : Record, count : 0..MaxAttempts]
    /\ job \in [kind : {"none", "install", "stage", "verify", "apply", "cancel", "revert", "commit", "discard"},
               at : {"slot", "fill", "copy", "fill-copy", "fallback", "drop-kept", "pre-prune", "download",
                     "staged", "reset", "pending", "rm-pending", "rm-staged", "previous", "active", "prune", "done"},
               rel : Record, prev : Record]
    /\ sup \in {"down", "probation", "judged", "recovering", "running"}
    /\ owner \in {"idle", "applying", "applied", "cancelling"}
    /\ refresh \in [pc : {"idle", "staging", "watching", "validating", "verdict", "reconnecting",
                         "reverting", "reverted", "recorded", "ended"},
                   rel : Record, seen : Record]
    /\ launches \in Nat
    /\ failed \subseteq Release
    /\ stale \in BOOLEAN

\* Whatever was interrupted, the supervisor can start: once a release is
\* active its slot is complete, and a pending record is one that read_pending
\* accepts.  A pending record it refused would stop every later start.
Bootable ==
    files.active \in Release => Valid(files.active) /\ PendingValid

\* No record ever names a slot that was pruned or half written, at any step of
\* any operation, and the fallback record always has its complete copy.
RecordsHaveTheirFiles ==
    /\ RecordsValid
    /\ files.fallback \in Release => kept[Digest[files.fallback]] = "full"

\* Only a revert lowers the version of the active release, and only to the one
\* recorded as previous.
OnlyRevertLowers ==
    [][ files.active \in Release /\ files'.active # files.active /\ Newer(files.active, files'.active)
        => job.kind = "revert" /\ files'.active = files.previous ]_vars

\* An activation grants at most MaxAttempts launches, however often the
\* supervisor is interrupted (attempts::reserve).
LaunchesBounded == launches =< MaxAttempts

\* The release the next revert would restore is never one that a revert
\* abandoned and that was not installed again.
PreviousNotFailed ==
    job.kind # "revert" => files.previous \notin failed

\* A candidate the supervisor took up is decided: it does not stay pending.
CandidateIsDecided == sup = "probation" ~> files.pending = None

\* While a release is installed the supervisor always gets to run one.
ServiceReturns == [](files.active \in Release => <>(sup \in {"running", "probation"}))

\* An interrupted operation does not make a later one fail.
InterruptionRecovers == ~stale

\* Wherever install, stage, apply, commit and revert are interrupted, the
\* supervisor has a complete release to start and a sound one to return to,
\* and a candidate gets its launches and no more.
ReleasesAreSafe ==
    TypeOK /\ Bootable /\ RecordsHaveTheirFiles /\ LaunchesBounded /\ PreviousNotFailed

\* Under repeated interruptions updates still come to an end.
UpdateProgress == CandidateIsDecided /\ ServiceReturns
=============================================================================
