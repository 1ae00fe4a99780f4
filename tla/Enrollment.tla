----------------------------- MODULE Enrollment -----------------------------
(***************************************************************************)
(* How a state directory gets its identity: the commands init,             *)
(* join-request and join, i.e. initialize, create_join_request and         *)
(* install_join_bundle of crates/supgang/src/state.rs with the files they  *)
(* manage in storage.rs.                                                   *)
(*                                                                         *)
(* A secret file is created empty and then written; a process that ends in *)
(* between leaves it partial, and every load of a partial file fails.  The *)
(* bundle for a request exists as soon as the request was exported: the    *)
(* authority is another computer.  A command may run again at any time, so *)
(* retries and commands of two terminals are all behaviours here.          *)
(***************************************************************************)
EXTENDS Integers, Sequences

CONSTANTS
    Proc,     \* the processes that run commands on this directory
    MaxKeys,  \* device keys generated
    MaxStops  \* processes that are killed

ASSUME EnrollmentConstants == MaxKeys \in Nat \ {0} /\ MaxStops \in Nat /\ "free" \notin Proc

VARIABLES
    identity,  \* the identity file
    pendkey,   \* the pending identity file
    journal,   \* the genesis events of the journal
    broken,    \* the head witness does not match the journal
    lock,      \* StateLock: the process that holds it, or "free"
    proc,      \* what each process does
    keys,      \* device keys generated so far
    exported,  \* keys of the requests that left this computer
    stops

enrollmentVars == <<identity, pendkey, journal, broken, lock, proc, keys, exported, stops>>
files == <<identity, pendkey, journal, broken>>

DeviceKey       == 1..MaxKeys
NoFile    == [st |-> "absent", key |-> 0, root |-> FALSE]
Partial   == [st |-> "partial", key |-> 0, root |-> FALSE]
FullIdentity(k, r) == [st |-> "full", key |-> k, root |-> r]
Event(k, r) == [key |-> k, root |-> r]

\* view is the number of events a process saw when it opened the journal.
IdleProc == [pc |-> "idle", key |-> 0, view |-> 0]
At(p, pc) == proc[p].pc = pc
Goto(p, pc) == proc' = [proc EXCEPT ![p].pc = pc]
Ends(p) == /\ proc' = [proc EXCEPT ![p] = IdleProc]
           /\ lock' = IF lock = p THEN "free" ELSE lock

EnrollmentInit ==
    /\ identity = NoFile
    /\ pendkey = NoFile
    /\ journal = <<>>
    /\ broken = FALSE
    /\ lock = "free"
    /\ proc = [p \in Proc |-> IdleProc]
    /\ keys = 0
    /\ exported = {}
    /\ stops = 0

\* Journal::append by a process that saw view events: the frame goes to the end
\* of the file, the witness covers the events the process knows of.
AppendGenesis(p, e) ==
    /\ journal' = Append(journal, e)
    /\ broken' = (broken \/ Len(journal) # proc[p].view)

-----------------------------------------------------------------------------
(* init: storage::initialize runs before the lock is taken *)

InitCreatesIdentity(p) ==
    /\ At(p, "idle")
    /\ identity = NoFile
    /\ keys < MaxKeys
    /\ keys' = keys + 1
    /\ identity' = Partial
    /\ proc' = [proc EXCEPT ![p] = [pc |-> "init-write", key |-> keys + 1, view |-> 0]]
    /\ UNCHANGED <<pendkey, journal, broken, lock, exported, stops>>

InitWritesIdentity(p) ==
    /\ At(p, "init-write")
    /\ identity' = FullIdentity(proc[p].key, TRUE)
    /\ Goto(p, "init-journal")
    /\ UNCHANGED <<pendkey, journal, broken, lock, keys, exported, stops>>

\* A journal with events ends the command (AlreadyInitialized).
InitOpensJournal(p) ==
    /\ At(p, "init-journal")
    /\ IF broken \/ journal # <<>>
       THEN Ends(p)
       ELSE Goto(p, "init-lock") /\ UNCHANGED lock
    /\ UNCHANGED <<files, keys, exported, stops>>

InitLocks(p) ==
    /\ At(p, "init-lock")
    /\ IF lock = "free"
       THEN lock' = p /\ Goto(p, "init-genesis")
       ELSE Ends(p)
    /\ UNCHANGED <<files, keys, exported, stops>>

\* Faulty variant: a genesis that was written already is not noticed.
InitResumes_AnyJournal(p) ==
    /\ At(p, "idle")
    /\ lock = "free"
    /\ identity.st = "full" /\ identity.root
    /\ ~broken
    /\ lock' = p
    /\ proc' = [proc EXCEPT ![p] = [pc |-> "init-genesis", key |-> identity.key, view |-> Len(journal)]]
    /\ UNCHANGED <<files, keys, exported, stops>>

\* The identity exists: lock, load it, open the journal, and go on when no
\* genesis was written yet.
InitResumes(p) ==
    /\ At(p, "idle")
    /\ identity # NoFile
    /\ lock = "free"
    /\ identity.st = "full" /\ identity.root
    /\ ~broken /\ journal = <<>>
    /\ lock' = p
    /\ proc' = [proc EXCEPT ![p] = [pc |-> "init-genesis", key |-> identity.key, view |-> 0]]
    /\ UNCHANGED <<files, keys, exported, stops>>

InitAppendsGenesis(p) ==
    /\ At(p, "init-genesis")
    /\ AppendGenesis(p, Event(proc[p].key, TRUE))
    /\ Ends(p)
    /\ UNCHANGED <<identity, pendkey, keys, exported, stops>>

-----------------------------------------------------------------------------
(* join-request *)

RequestCreatesPending(p) ==
    /\ At(p, "idle")
    /\ identity = NoFile
    /\ pendkey = NoFile
    /\ keys < MaxKeys
    /\ keys' = keys + 1
    /\ pendkey' = Partial
    /\ proc' = [proc EXCEPT ![p] = [pc |-> "request-write", key |-> keys + 1, view |-> 0]]
    /\ UNCHANGED <<identity, journal, broken, lock, exported, stops>>

RequestWritesPending(p) ==
    /\ At(p, "request-write")
    /\ pendkey' = FullIdentity(proc[p].key, FALSE)
    /\ exported' = exported \cup {proc[p].key}
    /\ Ends(p)
    /\ UNCHANGED <<identity, journal, broken, keys, stops>>

\* The request of the pending key is exported again.
RequestAgain(p) ==
    /\ At(p, "idle")
    /\ identity = NoFile
    /\ pendkey.st = "full"
    /\ exported' = exported \cup {pendkey.key}
    /\ UNCHANGED <<files, lock, proc, keys, stops>>

-----------------------------------------------------------------------------
(* join, with the bundle made for key k *)

\* The pending key must be the one the bundle names (verify_for_pending).
JoinStarts(p, k) ==
    /\ At(p, "idle")
    /\ k \in exported
    /\ identity = NoFile
    /\ lock = "free"
    /\ pendkey = FullIdentity(k, FALSE)
    /\ ~broken
    /\ lock' = p
    /\ proc' = [proc EXCEPT ![p] = [pc |-> "join-genesis", key |-> k, view |-> Len(journal)]]
    /\ UNCHANGED <<files, keys, exported, stops>>

\* An earlier attempt may have written the same genesis.
JoinAppendsGenesis(p) ==
    /\ At(p, "join-genesis")
    /\ \/ journal = <<>> /\ AppendGenesis(p, Event(proc[p].key, FALSE)) /\ Goto(p, "join-identity") /\ UNCHANGED lock
       \/ journal = <<Event(proc[p].key, FALSE)>> /\ Goto(p, "join-identity") /\ UNCHANGED <<journal, broken, lock>>
       \/ journal \notin {<<>>, <<Event(proc[p].key, FALSE)>>} /\ Ends(p) /\ UNCHANGED <<journal, broken>>
    /\ UNCHANGED <<identity, pendkey, keys, exported, stops>>

JoinCreatesIdentity(p) ==
    /\ At(p, "join-identity")
    /\ IF identity = NoFile
       THEN identity' = Partial /\ Goto(p, "join-write") /\ UNCHANGED lock
       ELSE Ends(p) /\ UNCHANGED identity
    /\ UNCHANGED <<pendkey, journal, broken, keys, exported, stops>>

\* Faulty variant: the pending secret is removed before the identity is written.
JoinWritesIdentity_RemoveFirst(p) ==
    /\ At(p, "join-write")
    /\ pendkey' = NoFile
    /\ Goto(p, "join-remove")
    /\ UNCHANGED <<identity, journal, broken, lock, keys, exported, stops>>

JoinWritesIdentity(p) ==
    /\ At(p, "join-write")
    /\ identity' = FullIdentity(proc[p].key, FALSE)
    /\ Goto(p, "join-remove")
    /\ UNCHANGED <<pendkey, journal, broken, lock, keys, exported, stops>>

JoinRemovesPending(p) ==
    /\ At(p, "join-remove")
    /\ pendkey' = NoFile
    /\ lock' = "free"
    /\ Goto(p, "join-open")
    /\ UNCHANGED <<identity, journal, broken, keys, exported, stops>>

\* The join ends by opening the state; a repeated join of the same bundle comes
\* here at once.  "joined" is the success the command reports.
Opens(k) == ~broken /\ identity = FullIdentity(k, FALSE) /\ journal = <<Event(k, FALSE)>>

JoinOpens(p) ==
    /\ At(p, "join-open")
    /\ IF lock = "free" /\ Opens(proc[p].key) THEN Goto(p, "joined") ELSE Goto(p, "idle")
    /\ UNCHANGED <<files, lock, keys, exported, stops>>

JoinAgain(p, k) ==
    /\ At(p, "idle")
    /\ k \in exported
    /\ lock = "free"
    /\ Opens(k)
    /\ proc' = [proc EXCEPT ![p] = [pc |-> "joined", key |-> k, view |-> 1]]
    /\ UNCHANGED <<files, lock, keys, exported, stops>>

Reported(p) ==
    /\ At(p, "joined")
    /\ proc' = [proc EXCEPT ![p] = IdleProc]
    /\ UNCHANGED <<files, lock, keys, exported, stops>>

-----------------------------------------------------------------------------
\* The process is killed; its lock is released by the system.
Stops(p) ==
    /\ ~At(p, "idle")
    /\ stops < MaxStops
    /\ stops' = stops + 1
    /\ Ends(p)
    /\ UNCHANGED <<files, keys, exported>>

EnrollmentNext == \E p \in Proc :
    \/ InitCreatesIdentity(p) \/ InitWritesIdentity(p) \/ InitOpensJournal(p)
    \/ InitLocks(p) \/ InitResumes(p) \/ InitAppendsGenesis(p)
    \/ RequestCreatesPending(p) \/ RequestWritesPending(p) \/ RequestAgain(p)
    \/ \E k \in DeviceKey : JoinStarts(p, k) \/ JoinAgain(p, k)
    \/ JoinAppendsGenesis(p) \/ JoinCreatesIdentity(p) \/ JoinWritesIdentity(p)
    \/ JoinRemovesPending(p) \/ JoinOpens(p) \/ Reported(p)
    \/ Stops(p)

EnrollmentSpec == EnrollmentInit /\ [][EnrollmentNext]_enrollmentVars

-----------------------------------------------------------------------------
(* Properties *)

\* The steps of a process: those of a join hold the lock, and two of them have
\* created the identity file they are about to fill.
InitSteps == {"init-write", "init-journal", "init-lock", "init-genesis"}
JoinSteps == {"join-genesis", "join-identity", "join-write", "join-remove"}
FillsIdentity == {"init-write", "join-write"}
CommandSteps ==
    InitSteps \cup JoinSteps \cup {"idle", "request-write", "join-open", "joined"}
SecretFiles == [st : {"absent", "partial", "full"}, key : 0..keys, root : BOOLEAN]

\* Every variable has its type, and the journal holds a second genesis only when its
\* witness contradicts it, which every later open of the journal reports.
EnrollmentTypeOK ==
    /\ {identity, pendkey} \subseteq SecretFiles
    /\ lock \in Proc \cup {"free"}
    /\ proc \in [Proc -> [pc : CommandSteps, key : 0..keys, view : Nat]]
    /\ keys \in 0..MaxKeys
    /\ broken \in BOOLEAN
    /\ journal \in Seq([key : DeviceKey, root : BOOLEAN])
    /\ exported \subseteq 1..keys
    /\ Len(journal) <= 1 \/ broken

\* A key is one that was generated, wherever it is, and a pending key is never the
\* root of a hive.
KeysAreGenerated ==
    /\ \A f \in {identity, pendkey} : f.st = "full" => f.key # 0
    /\ pendkey.st = "full" => ~pendkey.root
    /\ \A p \in Proc : proc[p].pc # "idle" => proc[p].key # 0
    /\ \A p \in Proc : proc[p].pc \in InitSteps => proc[p].view = 0

\* create_new gives each secret file one writer, and it is partial until it is
\* filled: no command fills what another one created, even after a kill.
OneWriterPerFile ==
    \A p \in Proc :
        /\ proc[p].pc \in FillsIdentity =>
              identity = Partial /\ \A q \in Proc : proc[q].pc \in FillsIdentity => q = p
        /\ proc[p].pc = "request-write" =>
              pendkey = Partial /\ \A q \in Proc : proc[q].pc = "request-write" => q = p

\* A join holds the lock and its pending key until the identity has the key.
JoinHoldsKey ==
    \A p \in Proc :
        /\ proc[p].pc \in JoinSteps => lock = p /\ pendkey = FullIdentity(proc[p].key, FALSE)
        /\ proc[p].pc = "join-remove" => identity = FullIdentity(proc[p].key, FALSE)

\* A device key whose join request left the computer is never lost: it is in the
\* pending file or in the identity, whatever is killed in between.
ExportedKeyKept ==
    \A k \in exported : \E f \in {identity, pendkey} : f.st = "full" /\ f.key = k

\* An enrollment is never undone: once the identity and the genesis event belong
\* together, no killed, repeated or concurrent init, join-request or join changes
\* either, unless an init opened the journal before the genesis was there (it takes
\* the lock only afterwards, state.rs:413).
Enrolled ==
    /\ identity.st = "full"
    /\ journal = <<Event(identity.key, identity.root)>>
    /\ ~broken
HoldsOldJournal(p) == proc[p].pc \in {"init-lock", "init-genesis"} /\ proc[p].view # Len(journal)
EnrollmentIsFinal ==
    [][Enrolled /\ ~ (\E p \in Proc : HoldsOldJournal(p)) => Enrolled' /\ identity' = identity]_enrollmentVars

\* journal.rs:27 calls the journal "owned by one Supgang service process", and
\* state_lock.rs:1 the lock "exclusive process ownership": two processes that
\* enroll at once never leave a journal its witness contradicts.
OneWriter == ~broken

\* No kill, repetition or race of init, join-request and join loses an exported
\* key or hides a second genesis.
KeysAreKept ==
    /\ EnrollmentTypeOK /\ ExportedKeyKept
    /\ KeysAreGenerated /\ OneWriterPerFile /\ JoinHoldsKey
=============================================================================
