--------------------------- MODULE StorageProofs ----------------------------
(***************************************************************************)
(* What the files of a computer keep, for every value of the constants:    *)
(* the journal is durable and atomic and implements DurableLog although a  *)
(* process or the power may stop between any two of its calls (Journal),   *)
(* and keys and enrollments survive commands that are killed, repeated or  *)
(* run at once (Enrollment).                                               *)
(***************************************************************************)
EXTENDS Journal, Enrollment, TLAPS

-----------------------------------------------------------------------------
(* Enrollment *)

(* One command moves at a time.  TakesStep(p, c) says what its step may do   *)
(* to what others rely on; KeysAreKept follows from that alone.              *)

Moves(p, c) == proc' = [proc EXCEPT ![p] = c]

\* What is known of a command, of a secret file and of the journal when n keys exist.
CommandIsTyped(c, n) ==
    /\ c \in [pc : CommandSteps, key : 0..n, view : Nat]
    /\ c.pc # "idle" => c.key # 0
    /\ c.pc \in InitSteps => c.view = 0

FileIsTyped(f, n) ==
    /\ f \in [st : {"absent", "partial", "full"}, key : 0..n, root : BOOLEAN]
    /\ f.st = "full" => f.key # 0

JournalIsTyped(j, b) ==
    /\ j \in Seq([key : DeviceKey, root : BOOLEAN])
    /\ b \in BOOLEAN
    /\ Len(j) <= 1 \/ b

StepIsTyped(p, c) ==
    /\ keys' \in keys..MaxKeys
    /\ CommandIsTyped(c, keys')
    /\ FileIsTyped(identity', keys')
    /\ FileIsTyped(pendkey', keys') /\ (pendkey'.st = "full" => ~pendkey'.root)
    /\ lock' \in Proc \cup {"free"}
    /\ JournalIsTyped(journal', broken')

\* What it claims of the files and the lock, and what it leaves to the others.
StepIsOwn(p, c) ==
    /\ c.pc \in FillsIdentity => identity = NoFile /\ identity' = Partial
    /\ identity' = identity \/ identity = NoFile \/ proc[p].pc \in FillsIdentity
    /\ c.pc = "request-write" => pendkey = NoFile /\ pendkey' = Partial
    /\ pendkey' = pendkey \/ pendkey = NoFile \/ proc[p].pc \in {"request-write", "join-remove"}
    /\ c.pc \in JoinSteps => lock' = p /\ pendkey' = FullIdentity(c.key, FALSE)
    /\ c.pc = "join-remove" => identity' = FullIdentity(c.key, FALSE)
    /\ lock' = lock \/ lock \in {"free", p}

\* Every exported key stays in a file.
StepKeepsKeys ==
    /\ exported' \subseteq 1..keys'
    /\ \A k \in exported' : k \in exported \/ (pendkey'.st = "full" /\ pendkey'.key = k)
    /\ identity.st = "full" => identity' = identity
    /\ pendkey.st = "full" => pendkey' = pendkey \/ (identity'.st = "full" /\ identity'.key = pendkey.key)

TakesStep(p, c) == Moves(p, c) /\ StepIsTyped(p, c) /\ StepIsOwn(p, c) /\ StepKeepsKeys

\* The others stay where they are.
LEMMA MovedProcess ==
  ASSUME EnrollmentTypeOK, NEW p \in Proc, NEW c, Moves(p, c)
  PROVE  /\ proc'[p] = c
         /\ \A q \in Proc : q # p => proc'[q] = proc[q]
         /\ proc' \in [Proc -> {proc[q] : q \in Proc} \cup {c}]
BY DEF EnrollmentTypeOK, Moves

\* What a command may do keeps the invariant.
LEMMA StepKeepsAll ==
  ASSUME KeysAreKept, NEW p \in Proc, NEW c, TakesStep(p, c)
  PROVE  KeysAreKept'
<1>1. /\ proc'[p] = c /\ \A q \in Proc : q # p => proc'[q] = proc[q]
      /\ proc' \in [Proc -> {proc[q] : q \in Proc} \cup {c}]
  BY MovedProcess DEF KeysAreKept, TakesStep
<1>2. EnrollmentTypeOK'
  <2>1. keys \in Nat /\ keys' \in Nat /\ keys =< keys' /\ keys' \in 0..MaxKeys
    BY EnrollmentConstants DEF KeysAreKept, EnrollmentTypeOK, TakesStep, StepIsTyped
  <2>2. proc' \in [Proc -> [pc : CommandSteps, key : 0..keys', view : Nat]]
    <3>1. \A q \in Proc : proc[q] \in [pc : CommandSteps, key : 0..keys', view : Nat]
      <4>1. \A q \in Proc : proc[q] \in [pc : CommandSteps, key : 0..keys, view : Nat]
        BY DEF KeysAreKept, EnrollmentTypeOK
      <4> QED BY <2>1, <4>1
    <3>2. c \in [pc : CommandSteps, key : 0..keys', view : Nat] BY DEF TakesStep, StepIsTyped, CommandIsTyped
    <3> QED BY <1>1, <3>1, <3>2
  <2>3. {identity', pendkey'} \subseteq SecretFiles'
    BY DEF TakesStep, StepIsTyped, FileIsTyped, SecretFiles
  <2> QED BY <2>1, <2>2, <2>3 DEF EnrollmentTypeOK, TakesStep, StepIsTyped, StepKeepsKeys, JournalIsTyped, DeviceKey
<1>3. KeysAreGenerated'
  <2>1. \A q \in Proc : /\ proc'[q].pc # "idle" => proc'[q].key # 0
                        /\ proc'[q].pc \in InitSteps => proc'[q].view = 0
    BY <1>1 DEF KeysAreKept, KeysAreGenerated, TakesStep, StepIsTyped, CommandIsTyped
  <2> QED BY <2>1 DEF KeysAreGenerated, TakesStep, StepIsTyped, FileIsTyped
<1>4. ExportedKeyKept'
  BY DEF KeysAreKept, ExportedKeyKept, TakesStep, StepKeepsKeys
<1>5. Partial # NoFile /\ (\A k \in Int : FullIdentity(k, FALSE) \notin {NoFile, Partial})
  BY DEF Partial, NoFile, FullIdentity
<1>6. OneWriterPerFile'
  <2> SUFFICES ASSUME NEW q \in Proc
               PROVE  /\ proc'[q].pc \in FillsIdentity =>
                            identity' = Partial /\ \A r \in Proc : proc'[r].pc \in FillsIdentity => r = q
                      /\ proc'[q].pc = "request-write" =>
                            pendkey' = Partial /\ \A r \in Proc : proc'[r].pc = "request-write" => r = q
    BY DEF OneWriterPerFile
  <2>1. ASSUME proc[p].pc = "join-remove" PROVE pendkey # Partial
    <3>1. pendkey = FullIdentity(proc[p].key, FALSE)
      BY <2>1, Zenon DEF KeysAreKept, JoinHoldsKey, JoinSteps
    <3> QED BY <3>1 DEF FullIdentity, Partial
  <2>2. ASSUME proc'[q].pc \in FillsIdentity
        PROVE  identity' = Partial /\ \A r \in Proc : proc'[r].pc \in FillsIdentity => r = q
    BY <1>1, <1>5, <2>2 DEF KeysAreKept, OneWriterPerFile, TakesStep, StepIsOwn
  <2>3. ASSUME proc'[q].pc = "request-write"
        PROVE  pendkey' = Partial /\ \A r \in Proc : proc'[r].pc = "request-write" => r = q
    BY <1>1, <1>5, <2>1, <2>3 DEF KeysAreKept, OneWriterPerFile, TakesStep, StepIsOwn
  <2> QED BY <2>2, <2>3
<1>7. JoinHoldsKey'
  <2> SUFFICES ASSUME NEW q \in Proc
               PROVE  /\ proc'[q].pc \in JoinSteps => lock' = q /\ pendkey' = FullIdentity(proc'[q].key, FALSE)
                      /\ proc'[q].pc = "join-remove" => identity' = FullIdentity(proc'[q].key, FALSE)
    BY Zenon DEF JoinHoldsKey
  <2>1. CASE q = p BY <1>1, <2>1, Zenon DEF TakesStep, StepIsOwn
  <2>2. CASE q # p /\ proc[q].pc \in JoinSteps
    <3>1. proc'[q] = proc[q] /\ lock = q /\ pendkey = FullIdentity(proc[q].key, FALSE)
      BY <1>1, <2>2, Zenon DEF KeysAreKept, JoinHoldsKey
    <3>2. lock' = q
      BY <2>2, <3>1, EnrollmentConstants DEF TakesStep, StepIsOwn
    <3>3. proc[p].pc # "join-remove"
      BY <2>2, <3>1, Zenon DEF KeysAreKept, JoinHoldsKey, JoinSteps
    <3>4. pendkey \notin {NoFile, Partial} BY <3>1 DEF FullIdentity, NoFile, Partial
    <3>5. pendkey' = pendkey
      BY <3>3, <3>4 DEF KeysAreKept, OneWriterPerFile, TakesStep, StepIsOwn
    <3>6. ASSUME proc[q].pc = "join-remove" PROVE identity' = identity
      <4>1. identity = FullIdentity(proc[q].key, FALSE) BY <3>6, Zenon DEF KeysAreKept, JoinHoldsKey
      <4>2. identity \notin {NoFile, Partial} BY <4>1 DEF FullIdentity, NoFile, Partial
      <4> QED BY <4>2 DEF KeysAreKept, OneWriterPerFile, TakesStep, StepIsOwn
    <3> QED BY <3>1, <3>2, <3>5, <3>6, Zenon DEF KeysAreKept, JoinHoldsKey
  <2>3. CASE q # p /\ proc[q].pc \notin JoinSteps
    BY <1>1, <2>3, Zenon DEF JoinSteps
  <2> QED BY <2>1, <2>2, <2>3, Zenon
<1> QED BY <1>2, <1>3, <1>4, <1>6, <1>7 DEF KeysAreKept

-----------------------------------------------------------------------------
(* The steps of the commands *)

\* What is known before the step of process p.
LEMMA Known ==
  ASSUME KeysAreKept, NEW p \in Proc
  PROVE  /\ keys \in Nat /\ MaxKeys \in Nat /\ keys =< MaxKeys /\ keys \in keys..MaxKeys
         /\ CommandIsTyped(proc[p], keys) /\ (proc[p].pc # "idle" => proc[p].key \in 1..keys)
         /\ lock \in Proc \cup {"free"}
         /\ exported \subseteq 1..keys
<1>1. keys \in Nat /\ MaxKeys \in Nat /\ keys =< MaxKeys
  BY EnrollmentConstants DEF KeysAreKept, EnrollmentTypeOK
<1>2. CommandIsTyped(proc[p], keys)
  BY DEF KeysAreKept, EnrollmentTypeOK, KeysAreGenerated, CommandIsTyped
<1>3. proc[p].pc # "idle" => proc[p].key \in 1..keys
  BY <1>1, <1>2 DEF CommandIsTyped
<1> QED BY <1>1, <1>2, <1>3 DEF KeysAreKept, EnrollmentTypeOK

\* What is known of the files.
LEMMA KnownFiles ==
  ASSUME KeysAreKept
  PROVE  /\ FileIsTyped(identity, keys) /\ FileIsTyped(pendkey, keys)
         /\ pendkey.st = "full" => ~pendkey.root
         /\ \A f \in {identity, pendkey} : f.st = "full" => f.key \in 1..keys
         /\ JournalIsTyped(journal, broken)
<1>1. keys \in Nat BY EnrollmentConstants DEF KeysAreKept, EnrollmentTypeOK
<1>2. {identity, pendkey} \subseteq [st : {"absent", "partial", "full"}, key : 0..keys, root : BOOLEAN]
  BY DEF KeysAreKept, EnrollmentTypeOK, SecretFiles
<1>3. \A f \in {identity, pendkey} : f.st = "full" => f.key # 0 BY DEF KeysAreKept, KeysAreGenerated
<1>4. FileIsTyped(identity, keys) /\ FileIsTyped(pendkey, keys)
  BY <1>2, <1>3 DEF FileIsTyped
<1>5. \A f \in {identity, pendkey} : f.st = "full" => f.key \in 1..keys BY <1>1, <1>2, <1>3
<1>6. JournalIsTyped(journal, broken) BY DEF KeysAreKept, EnrollmentTypeOK, JournalIsTyped
<1> QED BY <1>4, <1>5, <1>6 DEF KeysAreKept, KeysAreGenerated

\* A file that is not there or not filled, and that more keys change nothing.
LEMMA EmptyFiles ==
  ASSUME NEW n \in Nat
  PROVE  /\ FileIsTyped(NoFile, n) /\ FileIsTyped(Partial, n)
         /\ \A f : FileIsTyped(f, n) => FileIsTyped(f, n + 1)
BY DEF FileIsTyped, NoFile, Partial

\* A file that is filled.
LEMMA FullFiles ==
  ASSUME NEW k \in 1..keys
  PROVE  FileIsTyped(FullIdentity(k, TRUE), keys) /\ FileIsTyped(FullIdentity(k, FALSE), keys)
BY DEF FileIsTyped, FullIdentity

\* The three kinds of files differ.
LEMMA FilesDiffer ==
  ASSUME NEW k, NEW r
  PROVE  /\ FullIdentity(k, r).st = "full" /\ FullIdentity(k, r).key = k /\ FullIdentity(k, r).root = r
         /\ Partial.st = "partial" /\ NoFile.st = "absent"
BY DEF FullIdentity, Partial, NoFile

\* A command that goes on keeps its key.
LEMMA GotoMoves ==
  ASSUME KeysAreKept, NEW p \in Proc, NEW step \in CommandSteps, Goto(p, step), proc[p].pc # "idle",
         step \in InitSteps => proc[p].pc \in InitSteps
  PROVE  \E c : CommandIsTyped(c, keys) /\ Moves(p, c) /\ c.pc = step /\ c.key = proc[p].key
<1> DEFINE c == [proc[p] EXCEPT !.pc = step]
<1>1. proc[p] \in [pc : CommandSteps, key : 0..keys, view : Nat] BY Known DEF CommandIsTyped
<1>2. /\ c \in [pc : CommandSteps, key : 0..keys, view : Nat]
      /\ c.pc = step /\ c.key = proc[p].key /\ c.view = proc[p].view
  BY <1>1
<1>3. Moves(p, c) BY DEF Goto, Moves
<1>4. CommandIsTyped(c, keys) BY <1>2, Known DEF CommandIsTyped
<1> QED BY <1>2, <1>3, <1>4

\* A command that ends gives up the lock.
LEMMA EndsMoves ==
  ASSUME KeysAreKept, NEW p \in Proc, Ends(p)
  PROVE  /\ Moves(p, IdleProc) /\ CommandIsTyped(IdleProc, keys) /\ IdleProc.pc = "idle"
         /\ lock' \in Proc \cup {"free"} /\ (lock' = lock \/ lock = p)
BY Known DEF Ends, Moves, IdleProc, CommandSteps, CommandIsTyped, InitSteps

\* A step that changes no file and exports nothing.
LEMMA QuietStep ==
  ASSUME KeysAreKept, NEW p \in Proc, UNCHANGED <<files, keys, exported>>,
         NEW c, CommandIsTyped(c, keys), Moves(p, c),
         c.pc \notin FillsIdentity \cup {"request-write", "join-remove"},
         c.pc \in JoinSteps => lock' = p /\ pendkey = FullIdentity(c.key, FALSE),
         lock' \in Proc \cup {"free"}, lock' = lock \/ lock \in {"free", p}
  PROVE  KeysAreKept'
<1>1. UNCHANGED <<identity, pendkey, journal, broken, keys, exported>> BY DEF files
<1>2. StepIsTyped(p, c)
  BY <1>1, Known, KnownFiles DEF StepIsTyped
<1>3. StepIsOwn(p, c) BY <1>1, Zenon DEF StepIsOwn
<1>4. StepKeepsKeys BY <1>1, Known DEF StepKeepsKeys
<1> QED BY <1>2, <1>3, <1>4, StepKeepsAll DEF TakesStep

\* The command ends, or is killed.
LEMMA EndingStep ==
  ASSUME KeysAreKept, NEW p \in Proc, Ends(p), UNCHANGED <<files, keys, exported>>
  PROVE  KeysAreKept'
<1>1. /\ Moves(p, IdleProc) /\ CommandIsTyped(IdleProc, keys) /\ IdleProc.pc = "idle"
      /\ lock' \in Proc \cup {"free"} /\ (lock' = lock \/ lock = p)
  BY EndsMoves
<1> HIDE DEF IdleProc
<1> QED BY <1>1, QuietStep, Zenon DEF FillsIdentity, InitSteps, JoinSteps

\* A command that is where it belongs.
LEMMA StepsAreNamed ==
  /\ "init-lock" \in CommandSteps /\ "init-genesis" \in CommandSteps /\ "join-genesis" \in CommandSteps
  /\ "joined" \in CommandSteps /\ "idle" \in CommandSteps
  /\ "init-journal" \in InitSteps /\ "init-lock" \in InitSteps /\ "init-genesis" \in InitSteps
  /\ "joined" \notin InitSteps /\ "idle" \notin InitSteps /\ "join-genesis" \notin InitSteps
  /\ "init-journal" # "idle" /\ "init-lock" # "idle" /\ "join-open" # "idle"
  /\ \A step \in {"init-lock", "init-genesis", "joined", "idle"} :
        step \notin JoinSteps /\ step \notin FillsIdentity \cup {"request-write", "join-remove"}
  /\ "join-genesis" \notin FillsIdentity \cup {"request-write", "join-remove"}
BY DEF CommandSteps, InitSteps, JoinSteps, FillsIdentity

\* A command that starts.
LEMMA CommandMade ==
  ASSUME NEW n \in Nat, NEW step \in CommandSteps, NEW k \in 1..n, NEW v \in Nat, step \in InitSteps => v = 0
  PROVE  LET c == [pc |-> step, key |-> k, view |-> v] IN
         CommandIsTyped(c, n) /\ c.pc = step /\ c.key = k
BY DEF CommandIsTyped

\* The steps that change no file.
LEMMA InitOpensJournalOK ==
  ASSUME KeysAreKept, NEW p \in Proc, InitOpensJournal(p)
  PROVE  KeysAreKept'
<1>1. CASE Ends(p) /\ UNCHANGED <<files, keys, exported>> BY <1>1, EndingStep
<1>2. CASE Goto(p, "init-lock") /\ UNCHANGED <<lock, files, keys, exported>> /\ proc[p].pc = "init-journal"
  <2>1. Goto(p, "init-lock") /\ "init-lock" \in CommandSteps /\ proc[p].pc # "idle" /\ proc[p].pc \in InitSteps
    BY <1>2, StepsAreNamed
  <2>2. PICK c : CommandIsTyped(c, keys) /\ Moves(p, c) /\ c.pc = "init-lock" /\ c.key = proc[p].key
    BY <2>1, GotoMoves, Zenon
  <2> QED BY <1>2, <2>2, Known, QuietStep, StepsAreNamed, ZenonT(60)
<1> QED BY <1>1, <1>2 DEF InitOpensJournal, At

\* InitLocks keeps the invariant.
LEMMA InitLocksOK ==
  ASSUME KeysAreKept, NEW p \in Proc, InitLocks(p)
  PROVE  KeysAreKept'
<1>1. CASE Ends(p) /\ UNCHANGED <<files, keys, exported>> BY <1>1, EndingStep
<1>2. CASE /\ Goto(p, "init-genesis") /\ lock = "free" /\ lock' = p /\ UNCHANGED <<files, keys, exported>>
           /\ proc[p].pc = "init-lock"
  <2>1. Goto(p, "init-genesis") /\ "init-genesis" \in CommandSteps /\ proc[p].pc # "idle" /\ proc[p].pc \in InitSteps
    BY <1>2, StepsAreNamed
  <2>2. PICK c : CommandIsTyped(c, keys) /\ Moves(p, c) /\ c.pc = "init-genesis" /\ c.key = proc[p].key
    BY <2>1, GotoMoves, Zenon
  <2> QED BY <1>2, <2>2, Known, QuietStep, StepsAreNamed, ZenonT(60)
<1> QED BY <1>1, <1>2 DEF InitLocks, At

\* InitResumes keeps the invariant.
LEMMA InitResumesOK ==
  ASSUME KeysAreKept, NEW p \in Proc, InitResumes(p)
  PROVE  KeysAreKept'
<1> DEFINE c == [pc |-> "init-genesis", key |-> identity.key, view |-> 0]
<1>1. /\ Moves(p, c) /\ lock = "free" /\ lock' = p /\ UNCHANGED <<files, keys, exported>>
      /\ identity.st = "full"
  BY DEF InitResumes, Moves
<1>2. identity.key \in 1..keys /\ keys \in Nat BY <1>1, Known, KnownFiles, Zenon
<1>3. 0 \in Nat OBVIOUS
<1>4. CommandIsTyped(c, keys) /\ c.pc = "init-genesis" BY <1>2, <1>3, CommandMade, StepsAreNamed, Zenon
<1> HIDE DEF c
<1> QED BY <1>1, <1>4, QuietStep, StepsAreNamed, ZenonT(60)

\* JoinOpens keeps the invariant.
LEMMA JoinOpensOK ==
  ASSUME KeysAreKept, NEW p \in Proc, JoinOpens(p)
  PROVE  KeysAreKept'
<1>1. /\ Goto(p, "joined") \/ Goto(p, "idle")
      /\ UNCHANGED <<lock, files, keys, exported>> /\ proc[p].pc = "join-open"
  BY ZenonT(60) DEF JoinOpens, At
<1>2. PICK step \in {"joined", "idle"} : Goto(p, step) BY <1>1, Zenon
<1>3. step \in CommandSteps /\ step \notin InitSteps /\ proc[p].pc # "idle" BY <1>1, <1>2, StepsAreNamed
<1>4. PICK c : CommandIsTyped(c, keys) /\ Moves(p, c) /\ c.pc = step /\ c.key = proc[p].key
  BY <1>2, <1>3, GotoMoves, Zenon
<1>5. c.pc \notin JoinSteps /\ c.pc \notin FillsIdentity \cup {"request-write", "join-remove"}
  BY <1>2, <1>4, StepsAreNamed, Zenon
<1> QED BY <1>1, <1>4, <1>5, Known, QuietStep, ZenonT(60)

\* JoinStarts keeps the invariant.
LEMMA JoinStartsOK ==
  ASSUME KeysAreKept, NEW p \in Proc, NEW k \in DeviceKey, JoinStarts(p, k)
  PROVE  KeysAreKept'
<1> DEFINE c == [pc |-> "join-genesis", key |-> k, view |-> Len(journal)]
<1>1. /\ Moves(p, c) /\ lock = "free" /\ lock' = p /\ UNCHANGED <<files, keys, exported>>
      /\ k \in exported /\ pendkey = FullIdentity(k, FALSE)
  BY DEF JoinStarts, Moves
<1>2. k \in 1..keys /\ keys \in Nat BY <1>1, Known, Zenon
<1>3. Len(journal) \in Nat BY KnownFiles DEF JournalIsTyped
<1>4. CommandIsTyped(c, keys) /\ c.pc = "join-genesis" /\ c.key = k
  BY <1>2, <1>3, CommandMade, StepsAreNamed, Zenon
<1> HIDE DEF c
<1> QED BY <1>1, <1>4, QuietStep, StepsAreNamed, ZenonT(60)

\* JoinAgain keeps the invariant.
LEMMA JoinAgainOK ==
  ASSUME KeysAreKept, NEW p \in Proc, NEW k \in DeviceKey, JoinAgain(p, k)
  PROVE  KeysAreKept'
<1> DEFINE c == [pc |-> "joined", key |-> k, view |-> 1]
<1>1. Moves(p, c) /\ UNCHANGED <<lock, files, keys, exported>> /\ k \in exported
  BY DEF JoinAgain, Moves
<1>2. k \in 1..keys /\ keys \in Nat BY <1>1, Known, Zenon
<1>3. 1 \in Nat OBVIOUS
<1>4. CommandIsTyped(c, keys) /\ c.pc = "joined" BY <1>2, <1>3, CommandMade, StepsAreNamed, Zenon
<1> HIDE DEF c
<1> QED BY <1>1, <1>4, Known, QuietStep, StepsAreNamed, ZenonT(60)

\* A command that reported its outcome is over; the files are as they were.
LEMMA ReportedOK ==
  ASSUME KeysAreKept, NEW p \in Proc, Reported(p)
  PROVE  KeysAreKept'
<1>1. Moves(p, IdleProc) /\ UNCHANGED <<lock, files, keys, exported>> BY DEF Reported, Moves
<1>2. CommandIsTyped(IdleProc, keys) /\ IdleProc.pc = "idle"
  <2>1. "idle" \in CommandSteps /\ "idle" \notin InitSteps BY StepsAreNamed, Zenon
  <2>2. keys \in Nat BY Known, Zenon
  <2> QED BY <2>1, <2>2 DEF IdleProc, CommandIsTyped
<1> HIDE DEF IdleProc
<1> QED BY <1>1, <1>2, Known, QuietStep, StepsAreNamed, ZenonT(60)

\* All of them.
LEMMA QuietSteps ==
  ASSUME KeysAreKept, NEW p \in Proc,
         InitOpensJournal(p) \/ InitLocks(p) \/ InitResumes(p) \/ JoinOpens(p) \/ Reported(p) \/ Stops(p)
            \/ \E k \in DeviceKey : JoinStarts(p, k) \/ JoinAgain(p, k)
  PROVE  KeysAreKept'
<1>1. Stops(p) => Ends(p) /\ UNCHANGED <<files, keys, exported>> BY Zenon DEF Stops
<1> QED BY <1>1, EndingStep, InitOpensJournalOK, InitLocksOK, InitResumesOK, JoinOpensOK, JoinStartsOK, JoinAgainOK,
           ReportedOK, Zenon

\* The two commands that create a secret file give it a new key.
LEMMA CreatingSteps ==
  ASSUME KeysAreKept, NEW p \in Proc, InitCreatesIdentity(p) \/ RequestCreatesPending(p)
  PROVE  KeysAreKept'
<1> DEFINE step == IF identity' = Partial THEN "init-write" ELSE "request-write"
           c == [pc |-> step, key |-> keys + 1, view |-> 0]
<1>0. Partial # NoFile BY FilesDiffer
<1>1. /\ Moves(p, c) /\ keys < MaxKeys /\ keys' = keys + 1 /\ UNCHANGED <<journal, broken, lock, exported>>
      /\ \/ identity = NoFile /\ identity' = Partial /\ step = "init-write" /\ pendkey' = pendkey
         \/ identity' = identity /\ step = "request-write" /\ pendkey = NoFile /\ pendkey' = Partial
  <2>1. CASE InitCreatesIdentity(p) BY <2>1 DEF InitCreatesIdentity, Moves
  <2>2. CASE RequestCreatesPending(p) BY <1>0, <2>2, Zenon DEF RequestCreatesPending, Moves
  <2> QED BY <2>1, <2>2
<1>2. CommandIsTyped(c, keys') /\ c.pc = step /\ step \in {"init-write", "request-write"}
  BY <1>1, Known DEF CommandIsTyped, CommandSteps, InitSteps
<1> HIDE DEF c, step
<1>3. keys' \in keys..MaxKeys /\ keys' \in Nat /\ keys =< keys' /\ 1 \in 1..keys' BY <1>1, Known
<1>4. /\ FileIsTyped(identity', keys') /\ FileIsTyped(pendkey', keys')
      /\ pendkey'.st = "full" => ~pendkey'.root
  <2>1. Partial.st # "full" BY FilesDiffer
  <2>2. \A f \in {identity, pendkey, Partial} : FileIsTyped(f, keys + 1) BY Known, KnownFiles, EmptyFiles
  <2> QED BY <1>1, <2>1, <2>2, KnownFiles
<1>5. StepIsTyped(p, c)
  BY <1>1, <1>2, <1>3, <1>4, Known, KnownFiles DEF StepIsTyped
<1>6. StepIsOwn(p, c) BY <1>1, <1>2, Zenon DEF StepIsOwn, FillsIdentity, JoinSteps
<1>7. StepKeepsKeys BY <1>1, <1>3, Known, FilesDiffer DEF StepKeepsKeys
<1> QED BY <1>1, <1>5, <1>6, <1>7, StepKeepsAll DEF TakesStep

\* InitWrites keeps the invariant.
LEMMA InitWritesOK ==
  ASSUME KeysAreKept, NEW p \in Proc, InitWritesIdentity(p)
  PROVE  KeysAreKept'
<1>1. /\ proc[p].pc = "init-write" /\ identity' = FullIdentity(proc[p].key, TRUE) /\ Goto(p, "init-journal")
      /\ UNCHANGED <<pendkey, journal, broken, lock, keys, exported>>
  BY DEF InitWritesIdentity, At
<1>2. PICK c :
         CommandIsTyped(c, keys) /\ Moves(p, c) /\ c.pc = "init-journal" /\ c.key = proc[p].key
  BY <1>1, GotoMoves DEF CommandSteps, InitSteps
<1>3. proc[p].key \in 1..keys /\ identity = Partial
  BY <1>1, Known DEF KeysAreKept, OneWriterPerFile, FillsIdentity
<1>4. StepIsTyped(p, c)
  BY <1>1, <1>2, <1>3, Known, KnownFiles, EmptyFiles, FullFiles, FilesDiffer, Zenon DEF StepIsTyped
<1>5. StepIsOwn(p, c) BY <1>1, <1>2 DEF StepIsOwn, FillsIdentity, JoinSteps
<1>6. StepKeepsKeys BY <1>1, <1>3, Known, FilesDiffer, Zenon DEF StepKeepsKeys
<1> QED BY <1>2, <1>4, <1>5, <1>6, StepKeepsAll DEF TakesStep

\* RequestWrites keeps the invariant.
LEMMA RequestWritesOK ==
  ASSUME KeysAreKept, NEW p \in Proc, RequestWritesPending(p)
  PROVE  KeysAreKept'
<1>1. /\ proc[p].pc = "request-write" /\ pendkey' = FullIdentity(proc[p].key, FALSE) /\ Ends(p)
      /\ exported' = exported \cup {proc[p].key} /\ UNCHANGED <<identity, journal, broken, keys>>
  BY DEF RequestWritesPending, At
<1>2. /\ Moves(p, IdleProc) /\ CommandIsTyped(IdleProc, keys) /\ IdleProc.pc = "idle"
      /\ lock' \in Proc \cup {"free"} /\ (lock' = lock \/ lock = p)
  BY <1>1, EndsMoves
<1> HIDE DEF IdleProc
<1>3. proc[p].key \in 1..keys /\ pendkey = Partial
  BY <1>1, Known, Zenon DEF KeysAreKept, OneWriterPerFile
<1>4. pendkey.st # "full" /\ pendkey'.st = "full" /\ pendkey'.key = proc[p].key /\ ~pendkey'.root
  BY <1>1, <1>3, Zenon DEF FullIdentity, Partial
<1>5. StepIsTyped(p, IdleProc)
  BY <1>1, <1>2, <1>3, <1>4, Known, KnownFiles, FullFiles, Zenon DEF StepIsTyped
<1>6. StepIsOwn(p, IdleProc) BY <1>1, <1>2 DEF StepIsOwn, FillsIdentity, JoinSteps
<1>7. StepKeepsKeys BY <1>1, <1>3, <1>4, Known, Zenon DEF StepKeepsKeys
<1> QED BY <1>2, <1>5, <1>6, <1>7, StepKeepsAll DEF TakesStep

\* RequestAgain keeps the invariant.
LEMMA RequestAgainOK ==
  ASSUME KeysAreKept, NEW p \in Proc, RequestAgain(p)
  PROVE  KeysAreKept'
<1>1. /\ UNCHANGED <<identity, pendkey, journal, broken, lock, proc, keys>>
      /\ pendkey.st = "full" /\ exported' = exported \cup {pendkey.key}
  BY DEF RequestAgain, files
<1>2. EnrollmentTypeOK' BY <1>1, Known, KnownFiles, Zenon DEF KeysAreKept, EnrollmentTypeOK, SecretFiles
<1>3. ExportedKeyKept' BY <1>1 DEF KeysAreKept, ExportedKeyKept
<1>4. KeysAreGenerated' /\ OneWriterPerFile' /\ JoinHoldsKey'
  BY <1>1, Zenon DEF KeysAreKept, KeysAreGenerated, OneWriterPerFile, JoinHoldsKey
<1> QED BY <1>2, <1>3, <1>4 DEF KeysAreKept

\* Appending the genesis keeps the journal readable unless it was written meanwhile.
LEMMA GenesisIsAppended ==
  ASSUME KeysAreKept, NEW p \in Proc, NEW r \in BOOLEAN, AppendGenesis(p, Event(proc[p].key, r)),
         proc[p].pc # "idle", proc[p].view = 0 \/ journal = <<>>
  PROVE  JournalIsTyped(journal', broken')
<1>1. Event(proc[p].key, r) \in [key : DeviceKey, root : BOOLEAN]
  BY Known DEF Event, DeviceKey
<1>2. /\ journal' \in Seq([key : DeviceKey, root : BOOLEAN]) /\ Len(journal') = Len(journal) + 1
  <2>1. journal' = Append(journal, Event(proc[p].key, r)) BY DEF AppendGenesis
  <2>2. journal \in Seq([key : DeviceKey, root : BOOLEAN]) BY KnownFiles DEF JournalIsTyped
  <2> HIDE DEF Event
  <2> QED BY <1>1, <2>1, <2>2
<1>3. broken' \in BOOLEAN BY DEF AppendGenesis
<1>4. CASE Len(journal) = 0 BY <1>2, <1>3, <1>4 DEF JournalIsTyped
<1>5. CASE Len(journal) # 0
  <2>1. Len(journal) # proc[p].view BY <1>5
  <2>2. broken' = TRUE BY <2>1, Zenon DEF AppendGenesis
  <2> QED BY <1>2, <1>3, <2>2 DEF JournalIsTyped
<1> QED BY <1>4, <1>5

\* InitAppends keeps the invariant.
LEMMA InitAppendsOK ==
  ASSUME KeysAreKept, NEW p \in Proc, InitAppendsGenesis(p)
  PROVE  KeysAreKept'
<1>1. /\ proc[p].pc = "init-genesis" /\ AppendGenesis(p, Event(proc[p].key, TRUE)) /\ Ends(p)
      /\ UNCHANGED <<identity, pendkey, keys, exported>>
  BY Zenon DEF InitAppendsGenesis, At
<1>2. /\ Moves(p, IdleProc) /\ CommandIsTyped(IdleProc, keys) /\ IdleProc.pc = "idle"
      /\ lock' \in Proc \cup {"free"} /\ (lock' = lock \/ lock = p)
  BY <1>1, EndsMoves
<1> HIDE DEF IdleProc
<1>3. JournalIsTyped(journal', broken')
  BY <1>1, Known, GenesisIsAppended, ZenonT(60) DEF InitSteps, CommandIsTyped
<1>4. StepIsTyped(p, IdleProc)
  BY <1>1, <1>2, <1>3, Known, KnownFiles, ZenonT(60) DEF StepIsTyped
<1>5. StepIsOwn(p, IdleProc) BY <1>1, <1>2, ZenonT(60) DEF StepIsOwn, FillsIdentity, JoinSteps
<1>6. StepKeepsKeys BY <1>1, Known DEF StepKeepsKeys
<1> QED BY <1>2, <1>4, <1>5, <1>6, StepKeepsAll DEF TakesStep

\* JoinAppends keeps the invariant.
LEMMA JoinAppendsOK ==
  ASSUME KeysAreKept, NEW p \in Proc, JoinAppendsGenesis(p)
  PROVE  KeysAreKept'
<1>1. proc[p].pc = "join-genesis" /\ UNCHANGED <<identity, pendkey, keys, exported>>
  BY DEF JoinAppendsGenesis, At
<1>2. CASE Ends(p) /\ UNCHANGED <<journal, broken>> BY <1>1, <1>2, EndingStep DEF files
<1>3. CASE Goto(p, "join-identity") /\ UNCHANGED lock
  <2>1. PICK c :
           CommandIsTyped(c, keys) /\ Moves(p, c) /\ c.pc = "join-identity" /\ c.key = proc[p].key
    BY <1>1, <1>3, GotoMoves DEF CommandSteps, JoinSteps, InitSteps
  <2>2. lock = p /\ pendkey = FullIdentity(proc[p].key, FALSE)
    BY <1>1, Zenon DEF KeysAreKept, JoinHoldsKey, JoinSteps
  <2>3. JournalIsTyped(journal', broken')
    <3>1. CASE UNCHANGED <<journal, broken>> BY <3>1, KnownFiles
    <3>2. CASE journal = <<>> /\ AppendGenesis(p, Event(proc[p].key, FALSE))
      BY <1>1, <3>2, GenesisIsAppended, Zenon
    <3> QED BY <3>1, <3>2, Zenon DEF JoinAppendsGenesis
  <2>4. StepIsTyped(p, c)
    BY <1>1, <1>3, <2>1, <2>2, <2>3, Known, KnownFiles, ZenonT(60) DEF StepIsTyped
  <2>5. StepIsOwn(p, c) BY <1>1, <1>3, <2>1, <2>2 DEF StepIsOwn, FillsIdentity
  <2>6. StepKeepsKeys BY <1>1, Known DEF StepKeepsKeys
  <2> QED BY <2>1, <2>4, <2>5, <2>6, StepKeepsAll DEF TakesStep
<1> QED BY <1>2, <1>3, Zenon DEF JoinAppendsGenesis

\* JoinCreates keeps the invariant.
LEMMA JoinCreatesOK ==
  ASSUME KeysAreKept, NEW p \in Proc, JoinCreatesIdentity(p)
  PROVE  KeysAreKept'
<1>1. proc[p].pc = "join-identity" /\ UNCHANGED <<pendkey, journal, broken, keys, exported>>
  BY DEF JoinCreatesIdentity, At
<1>2. CASE Ends(p) /\ UNCHANGED identity BY <1>1, <1>2, EndingStep, Zenon DEF files
<1>3. CASE identity = NoFile /\ identity' = Partial /\ Goto(p, "join-write") /\ UNCHANGED lock
  <2>1. PICK c :
           CommandIsTyped(c, keys) /\ Moves(p, c) /\ c.pc = "join-write" /\ c.key = proc[p].key
    BY <1>1, <1>3, GotoMoves, ZenonT(60) DEF CommandSteps, JoinSteps, InitSteps
  <2>2. lock = p /\ pendkey = FullIdentity(proc[p].key, FALSE)
    BY <1>1, Zenon DEF KeysAreKept, JoinHoldsKey, JoinSteps
  <2>3. StepIsTyped(p, c)
    BY <1>1, <1>3, <2>1, <2>2, Known, KnownFiles, EmptyFiles, FullFiles, FilesDiffer, Zenon DEF StepIsTyped
  <2>4. StepIsOwn(p, c) BY <1>1, <1>3, <2>1, <2>2 DEF StepIsOwn, FillsIdentity
  <2>5. StepKeepsKeys BY <1>1, <1>3, Known, FilesDiffer DEF StepKeepsKeys
  <2> QED BY <2>1, <2>3, <2>4, <2>5, StepKeepsAll, Zenon DEF TakesStep
<1> QED BY <1>2, <1>3 DEF JoinCreatesIdentity

\* JoinWrites keeps the invariant.
LEMMA JoinWritesOK ==
  ASSUME KeysAreKept, NEW p \in Proc, JoinWritesIdentity(p)
  PROVE  KeysAreKept'
<1>1. /\ proc[p].pc = "join-write" /\ identity' = FullIdentity(proc[p].key, FALSE) /\ Goto(p, "join-remove")
      /\ UNCHANGED <<pendkey, journal, broken, lock, keys, exported>>
  BY Zenon DEF JoinWritesIdentity, At
<1>2. PICK c :
         CommandIsTyped(c, keys) /\ Moves(p, c) /\ c.pc = "join-remove" /\ c.key = proc[p].key
  BY <1>1, GotoMoves, ZenonT(60) DEF CommandSteps, JoinSteps, InitSteps
<1>3. /\ lock = p /\ pendkey = FullIdentity(proc[p].key, FALSE) /\ proc[p].key \in 1..keys /\ identity = Partial
  BY <1>1, Known, Zenon DEF KeysAreKept, JoinHoldsKey, JoinSteps, OneWriterPerFile, FillsIdentity
<1>4. StepIsTyped(p, c)
  BY <1>1, <1>2, <1>3, Known, KnownFiles, EmptyFiles, FullFiles, FilesDiffer, Zenon DEF StepIsTyped
<1>5. StepIsOwn(p, c) BY <1>1, <1>2, <1>3 DEF StepIsOwn, FillsIdentity
<1>6. StepKeepsKeys BY <1>1, <1>3, Known, FilesDiffer, Zenon DEF StepKeepsKeys
<1> QED BY <1>2, <1>4, <1>5, <1>6, StepKeepsAll, Zenon DEF TakesStep

\* JoinRemoves keeps the invariant.
LEMMA JoinRemovesOK ==
  ASSUME KeysAreKept, NEW p \in Proc, JoinRemovesPending(p)
  PROVE  KeysAreKept'
<1>1. /\ proc[p].pc = "join-remove" /\ pendkey' = NoFile /\ lock' = "free" /\ Goto(p, "join-open")
      /\ UNCHANGED <<identity, journal, broken, keys, exported>>
  BY DEF JoinRemovesPending, At
<1>2. PICK c :
         CommandIsTyped(c, keys) /\ Moves(p, c) /\ c.pc = "join-open" /\ c.key = proc[p].key
  BY <1>1, GotoMoves DEF CommandSteps, InitSteps
<1>3. /\ lock = p /\ pendkey = FullIdentity(proc[p].key, FALSE) /\ proc[p].key \in 1..keys
      /\ identity = FullIdentity(proc[p].key, FALSE)
  BY <1>1, Known, Zenon DEF KeysAreKept, JoinHoldsKey, JoinSteps
<1>4. StepIsTyped(p, c)
  BY <1>1, <1>2, <1>3, Known, KnownFiles, EmptyFiles, FullFiles, FilesDiffer, Zenon DEF StepIsTyped
<1>5. StepIsOwn(p, c) BY <1>1, <1>2, <1>3 DEF StepIsOwn, FillsIdentity, JoinSteps
<1>6. StepKeepsKeys BY <1>1, <1>3, Known, FilesDiffer, Zenon DEF StepKeepsKeys
<1> QED BY <1>2, <1>4, <1>5, <1>6, StepKeepsAll DEF TakesStep

-----------------------------------------------------------------------------
(* The theorems *)

\* Whatever is killed, repeated or run at once, an exported device key stays in one
\* of the two secret files, each of them has one writer, and a second genesis never
\* goes unnoticed: for any number of processes, keys and kills (initialize,
\* create_join_request, install_join_bundle).
THEOREM KeysAlwaysKept == EnrollmentSpec => []KeysAreKept
<1>1. EnrollmentInit => KeysAreKept
  <2> SUFFICES ASSUME EnrollmentInit PROVE KeysAreKept OBVIOUS
  <2>1. \A p \in Proc : proc[p].pc = "idle" BY DEF EnrollmentInit, IdleProc
  <2>2. EnrollmentTypeOK
    <3>1. IdleProc \in [pc : CommandSteps, key : 0..0, view : Nat] BY DEF IdleProc, CommandSteps
    <3>2. NoFile \in [st : {"absent", "partial", "full"}, key : 0..0, root : BOOLEAN] BY DEF NoFile
    <3>3. <<>> \in Seq([key : DeviceKey, root : BOOLEAN]) /\ Len(<<>>) = 0 OBVIOUS
    <3> HIDE DEF IdleProc, NoFile
    <3>4. keys = 0 /\ keys \in 0..MaxKeys BY EnrollmentConstants DEF EnrollmentInit
    <3>5. {identity, pendkey} \subseteq SecretFiles BY <3>2, <3>4 DEF EnrollmentInit, SecretFiles
    <3>6. proc \in [Proc -> [pc : CommandSteps, key : 0..keys, view : Nat]] BY <3>1, <3>4 DEF EnrollmentInit
    <3>7. journal \in Seq([key : DeviceKey, root : BOOLEAN]) /\ Len(journal) <= 1 BY <3>3 DEF EnrollmentInit
    <3> QED BY <3>4, <3>5, <3>6, <3>7, Zenon DEF EnrollmentInit, EnrollmentTypeOK
  <2>3. identity.st = "absent" /\ pendkey.st = "absent" /\ exported = {} BY DEF EnrollmentInit, NoFile
  <2> QED
    BY <2>1, <2>2, <2>3, Zenon
    DEF KeysAreKept, ExportedKeyKept, KeysAreGenerated, OneWriterPerFile, JoinHoldsKey, InitSteps, JoinSteps, FillsIdentity
<1>2. ASSUME KeysAreKept, [EnrollmentNext]_enrollmentVars
      PROVE  KeysAreKept'
  <2>1. CASE UNCHANGED enrollmentVars
    BY <1>2, <2>1, ZenonT(60) DEF enrollmentVars, KeysAreKept, EnrollmentTypeOK, SecretFiles, ExportedKeyKept, KeysAreGenerated,
                      OneWriterPerFile, JoinHoldsKey
  <2>2. ASSUME EnrollmentNext PROVE KeysAreKept'
    BY <1>2, <2>2, QuietSteps, CreatingSteps, InitWritesOK, RequestWritesOK, RequestAgainOK, InitAppendsOK,
       JoinAppendsOK, JoinCreatesOK, JoinWritesOK, JoinRemovesOK
    DEF EnrollmentNext
  <2> QED BY <1>2, <2>1, <2>2, ZenonT(60)
<1> QED BY <1>1, <1>2, PTL DEF EnrollmentSpec

\* A finished enrollment is never undone (initialize, install_join_bundle): only an
\* init that opened the journal before the genesis was there could do it.
THEOREM EnrollmentStaysFinal == EnrollmentSpec => EnrollmentIsFinal
<1>1. ASSUME KeysAreKept, [EnrollmentNext]_enrollmentVars, Enrolled, ~ \E p \in Proc : HoldsOldJournal(p)
      PROVE  Enrolled' /\ identity' = identity
  <2>1. identity # NoFile /\ identity # Partial BY <1>1, FilesDiffer DEF Enrolled
  <2>2. \A p \in Proc : ~At(p, "init-write") /\ ~At(p, "join-write")
    BY <1>1, <2>1 DEF At, KeysAreKept, OneWriterPerFile, FillsIdentity
  <2>3. journal # <<>> /\ Len(journal) = 1 BY <1>1 DEF Enrolled, Event
  <2>4. \A p \in Proc : ~At(p, "init-genesis")
    BY <1>1, <2>3 DEF At, KeysAreKept, KeysAreGenerated, HoldsOldJournal, InitSteps
  <2>5. UNCHANGED <<identity, journal, broken>>
    <3>1. CASE UNCHANGED enrollmentVars BY <3>1 DEF enrollmentVars
    <3>2. ASSUME NEW p \in Proc, JoinAppendsGenesis(p) PROVE UNCHANGED <<identity, journal, broken>>
      BY <2>3, <3>2, Zenon DEF JoinAppendsGenesis
    <3> QED
      BY <1>1, <2>1, <2>2, <2>4, <3>1, <3>2, Zenon
      DEF EnrollmentNext, InitCreatesIdentity, InitWritesIdentity, InitOpensJournal, InitLocks, InitResumes,
          InitAppendsGenesis, RequestCreatesPending, RequestWritesPending, RequestAgain, JoinStarts, JoinAgain,
          JoinCreatesIdentity, JoinWritesIdentity, JoinRemovesPending, JoinOpens, Reported, Stops, files
  <2> QED BY <1>1, <2>5 DEF Enrolled
<1>2. KeysAreKept /\ [EnrollmentNext]_enrollmentVars =>
        [Enrolled /\ ~ (\E p \in Proc : HoldsOldJournal(p)) => Enrolled' /\ identity' = identity]_enrollmentVars
  BY <1>1
<1> QED BY <1>2, KeysAlwaysKept, PTL DEF EnrollmentSpec, EnrollmentIsFinal

-----------------------------------------------------------------------------
(* Journal *)

\* A content is a sequence of payloads no longer than MaxFrames.
LEMMA ContentsAreSequences ==
    ASSUME NEW s
    PROVE  s \in Contents <=> s \in Seq(Payload) /\ Len(s) <= MaxFrames
<1>1. ASSUME s \in Contents
      PROVE  s \in Seq(Payload) /\ Len(s) <= MaxFrames
  <2>1. PICK n \in 0..MaxFrames : s \in [1..n -> Payload]
    BY <1>1 DEF Contents
  <2>2. n \in Nat
    BY <2>1, JournalConstants
  <2> QED  BY <2>1, <2>2
<1>2. ASSUME s \in Seq(Payload), Len(s) <= MaxFrames
      PROVE  s \in Contents
  <2>1. Len(s) \in 0..MaxFrames /\ s \in [1..Len(s) -> Payload]
    BY <1>2, JournalConstants
  <2> QED  BY <2>1 DEF Contents
<1> QED  BY <1>1, <1>2

\* A batch is a non-empty sequence of payloads.
LEMMA BatchesAreSequences ==
    ASSUME NEW b \in Batches
    PROVE  b \in Seq(Payload) /\ Len(b) \in Nat \ {0}
<1>1. PICK n \in 1..MaxBatch : b \in [1..n -> Payload]
  BY DEF Batches
<1>2. n \in Nat /\ n # 0
  BY <1>1, JournalConstants
<1> QED  BY <1>1, <1>2

\* The empty sequence is a content.
LEMMA EmptyIsContent == <<>> \in Contents /\ Len(<<>>) = 0
<1>1. <<>> \in Seq(Payload) /\ Len(<<>>) = 0
  OBVIOUS
<1>2. Len(<<>>) <= MaxFrames
  BY <1>1, JournalConstants
<1>3. <<>> \in Contents
  BY <1>1, <1>2, ContentsAreSequences, Zenon
<1> QED  BY <1>1, <1>3

\* The fields of images and witnesses.
LEMMA CleanFields ==
    /\ \A s \in Contents : Clean(s) \in Images /\ Clean(s).frames = s /\ Clean(s).tail = "none"
    /\ Absent \in Images /\ Absent.frames = <<>> /\ Absent.tail = "absent"
BY EmptyIsContent DEF Clean, Absent, Images

\* The fields of a witness.
LEMMA CommitsFields ==
    /\ \A s \in Contents : Commits(s) \in Witness /\ Commits(s).frames = s /\ Commits(s).set
    /\ NoWitness \in Witness /\ NoWitness.frames = <<>> /\ ~NoWitness.set
<1>1. \A s \in Contents : Commits(s) \in Witness
  BY Zenon DEF Commits, Witness
<1>2. \A s \in Contents : Commits(s).frames = s /\ Commits(s).set
  BY DEF Commits
<1>3. NoWitness \in Witness
  BY EmptyIsContent, Zenon DEF NoWitness, Witness
<1>4. NoWitness.frames = <<>> /\ ~NoWitness.set
  BY DEF NoWitness
<1> QED  BY <1>1, <1>2, <1>3, <1>4

\* What append makes of a content: a content, which extends it.
LEMMA AppendExtends ==
    ASSUME NEW s \in Contents, NEW b \in Seq(Payload), Len(s) + Len(b) <= MaxFrames
    PROVE  /\ s \o b \in Contents
           /\ Len(s \o b) = Len(s) + Len(b)
           /\ IsPrefixOf(s, s \o b)
<1>1. s \in Seq(Payload)
  BY ContentsAreSequences
<1>2. s \o b \in Seq(Payload) /\ Len(s \o b) = Len(s) + Len(b)
  BY <1>1
<1>3. s \o b \in Contents
  BY <1>2, ContentsAreSequences, Zenon
<1>4. IsPrefixOf(s, s \o b)
  BY <1>1, <1>2 DEF IsPrefixOf
<1> QED  BY <1>2, <1>3, <1>4

\* Cutting a content keeps every prefix that is no longer than the cut.
LEMMA CutKeepsPrefix ==
    ASSUME NEW s \in Contents, NEW n \in 0..Len(s)
    PROVE  /\ SubSeq(s, 1, n) \in Contents
           /\ Len(SubSeq(s, 1, n)) = n
           /\ \A p \in Contents : IsPrefixOf(p, s) /\ Len(p) <= n
                                    => IsPrefixOf(p, SubSeq(s, 1, n))
<1>1. s \in Seq(Payload) /\ Len(s) <= MaxFrames /\ Len(s) \in Nat
  BY ContentsAreSequences
<1>2. /\ SubSeq(s, 1, n) \in Seq(Payload)
      /\ Len(SubSeq(s, 1, n)) = n
      /\ \A i \in 1..n : SubSeq(s, 1, n)[i] = s[i]
  BY <1>1
<1>3. SubSeq(s, 1, n) \in Contents
  <2>1. Len(SubSeq(s, 1, n)) <= MaxFrames
    BY <1>1, <1>2, JournalConstants
  <2> QED  BY <1>2, <2>1, ContentsAreSequences, Zenon
<1>4. ASSUME NEW p \in Contents, IsPrefixOf(p, s), Len(p) <= n
      PROVE  IsPrefixOf(p, SubSeq(s, 1, n))
  <2>1. Len(p) \in Nat
    BY ContentsAreSequences
  <2> QED  BY <1>1, <1>2, <1>4, <2>1 DEF IsPrefixOf
<1> QED  BY <1>2, <1>3, <1>4

\* Prefixes are reflexive
LEMMA PrefixReflexive ==
    ASSUME NEW s PROVE IsPrefixOf(s, s)
BY DEF IsPrefixOf

\* and transitive.
LEMMA PrefixTransitive ==
    ASSUME NEW s \in Contents, NEW t \in Contents, NEW u \in Contents,
           IsPrefixOf(s, t), IsPrefixOf(t, u)
    PROVE  IsPrefixOf(s, u)
<1>1. Len(s) \in Nat /\ Len(t) \in Nat /\ Len(u) \in Nat
  BY ContentsAreSequences
<1> QED  BY <1>1 DEF IsPrefixOf

\* The images a torn write leaves are images, and each extends what was there.
LEMMA UnsyncedImages ==
    ASSUME NEW s \in Contents, NEW img \in Images, IsPrefixOf(s, img.frames),
           img.tail # "absent"
    PROVE  \A i \in Unsynced(s, img) :
               /\ i \in Images
               /\ i.tail # "absent"
               /\ IsPrefixOf(s, i.frames)
<1>1. /\ img.frames \in Contents /\ img.tail \in {"none", "torn", "bad"}
      /\ Len(s) \in Nat /\ Len(img.frames) \in Nat /\ Len(s) <= Len(img.frames)
  BY ContentsAreSequences DEF Images, IsPrefixOf
<1>2. CrashTails \subseteq {"none", "torn", "bad"}
  BY DEF CrashTails
<1>3. ASSUME NEW n \in Len(s)..(Len(img.frames) - 1), NEW t \in CrashTails,
             NEW i, i = [frames |-> SubSeq(img.frames, 1, n), tail |-> t]
      PROVE  i \in Images /\ i.tail # "absent" /\ IsPrefixOf(s, i.frames)
  <2>1. n \in 0..Len(img.frames) /\ Len(s) <= n
    BY <1>1, <1>3
  <2>2. SubSeq(img.frames, 1, n) \in Contents /\ IsPrefixOf(s, SubSeq(img.frames, 1, n))
    BY <1>1, <2>1, CutKeepsPrefix
  <2> QED  BY <1>2, <1>3, <2>2 DEF Images
<1>4. ASSUME NEW t \in {"none", img.tail} \cup IF img.tail = "torn" THEN CrashTails ELSE {},
             NEW i, i = [frames |-> img.frames, tail |-> t]
      PROVE  i \in Images /\ i.tail # "absent" /\ IsPrefixOf(s, i.frames)
  BY <1>1, <1>2, <1>4 DEF Images
<1> QED  BY <1>3, <1>4 DEF Unsynced

\* An image without a tail is its frames; a witness that is set is its frames.
LEMMA CleanImages ==
    ASSUME NEW img \in Images, img.tail = "none" PROVE img = Clean(img.frames)
BY DEF Images, Clean

\* A witness is what it commits to.
LEMMA SetWitnesses ==
    ASSUME NEW w \in Witness, w.set PROVE w = Commits(w.frames)
<1>1. w.set = TRUE
  BY Zenon DEF Witness
<1>2. w = [set |-> w.set, frames |-> w.frames]
  BY Zenon DEF Witness
<1> QED  BY <1>1, <1>2 DEF Commits

-----------------------------------------------------------------------------
(* Type correctness *)

\* What append writes: the target is a content that extends the handle's view.
LEMMA WriteType ==
    ASSUME TypeOK, Control, NEW batch \in Batches, pc = "idle",
           Len(file.frames) + Len(batch) <= MaxFrames
    PROVE  /\ file.frames = view
           /\ view \o batch \in Contents
           /\ IsPrefixOf(view, view \o batch)
           /\ \A n \in 0..(Len(batch) - 1) :
                 /\ view \o SubSeq(batch, 1, n) \in Contents
                 /\ IsPrefixOf(view, view \o SubSeq(batch, 1, n))
<1>1. file.frames = view /\ view \in Contents
  BY DEF TypeOK, Control, Clean
<1>2. batch \in Seq(Payload) /\ Len(batch) \in Nat \ {0}
  BY BatchesAreSequences
<1>3. view \o batch \in Contents /\ IsPrefixOf(view, view \o batch)
  BY <1>1, <1>2, AppendExtends
<1>4. ASSUME NEW n \in 0..(Len(batch) - 1)
      PROVE  /\ view \o SubSeq(batch, 1, n) \in Contents
             /\ IsPrefixOf(view, view \o SubSeq(batch, 1, n))
  <2>1. SubSeq(batch, 1, n) \in Seq(Payload) /\ Len(SubSeq(batch, 1, n)) = n
    BY <1>2
  <2>2. Len(view) \in Nat
    BY <1>1, ContentsAreSequences
  <2>3. Len(view) + Len(SubSeq(batch, 1, n)) <= MaxFrames
    BY <1>1, <1>2, <2>1, <2>2, JournalConstants
  <2> QED  BY <1>1, <2>1, <2>3, AppendExtends, Zenon
<1> QED  BY <1>1, <1>3, <1>4

\* The types of the fields the actions read.
LEMMA FieldTypes ==
    ASSUME TypeOK
    PROVE  /\ file.frames \in Contents
           /\ \A img \in Images : img.frames \in Contents
                                 /\ img.tail \in {"none", "torn", "bad", "absent"}
           /\ \A w \in Witness : w.frames \in Contents /\ w.set \in BOOLEAN
           /\ wit.frames \in Contents
           /\ rd.img \in Images
<1>1. \A img \in Images : img.frames \in Contents
                         /\ img.tail \in {"none", "torn", "bad", "absent"}
  BY DEF Images
<1>2. \A w \in Witness : w.frames \in Contents /\ w.set \in BOOLEAN
  BY Zenon DEF Witness
<1> QED  BY <1>1, <1>2 DEF TypeOK

\* What a complete and an interrupted write have in common.
LEMMA WriteEffect ==
    ASSUME NEW batch, Write(batch) \/ WriteShort(batch)
    PROVE  /\ pc = "idle"
           /\ Len(file.frames) + Len(batch) <= MaxFrames
           /\ stale' = stale /\ wit' = wit /\ wposs' = wposs
           /\ cur' = cur \cup Unsynced(file.frames, file')
           /\ allowed' = allowed \cup {view \o batch}
           /\ risk' = risk \cup CreationPending
           /\ rd' = rd
<1>1. CASE Write(batch)
  BY <1>1 DEF Write
<1>2. CASE WriteShort(batch)
  BY <1>2 DEF WriteShort
<1> QED  BY <1>1, <1>2, Zenon

\* The file a write leaves is one of the images its power loss may leave, and
\* all of them extend the handle's view.
LEMMA WriteImages ==
    ASSUME TypeOK, Control, NEW batch \in Batches, Write(batch) \/ WriteShort(batch)
    PROVE  /\ file' \in Images
           /\ file' \in Unsynced(file.frames, file')
           /\ file.frames = view
           /\ \A img \in Unsynced(file.frames, file') :
                 img \in Images /\ img.tail # "absent" /\ IsPrefixOf(view, img.frames)
<1>1. /\ file.frames = view /\ view \o batch \in Contents /\ view \in Contents
      /\ IsPrefixOf(view, view \o batch)
      /\ \A k \in 0..(Len(batch) - 1) :
            /\ view \o SubSeq(batch, 1, k) \in Contents
            /\ IsPrefixOf(view, view \o SubSeq(batch, 1, k))
  BY WriteEffect, WriteType DEF TypeOK
<1>2. file' \in Images /\ file'.tail \in {"none", "torn"} /\ IsPrefixOf(view, file'.frames)
  <2>1. CASE Write(batch)
    <3>1. file' = Clean(view \o batch)
      BY <1>1, <2>1 DEF Write
    <3> QED  BY <1>1, <3>1, CleanFields
  <2>2. CASE WriteShort(batch)
    <3>1. PICK k \in 0..(Len(batch) - 1), t \in {"none", "torn"} :
             file' = [frames |-> view \o SubSeq(batch, 1, k), tail |-> t]
      BY <1>1, <2>2, Zenon DEF WriteShort
    <3> QED  BY <1>1, <3>1 DEF Images
  <2> QED  BY <2>1, <2>2
<1>3. \A img \in Unsynced(view, file') :
         img \in Images /\ img.tail # "absent" /\ IsPrefixOf(view, img.frames)
  BY <1>1, <1>2, UnsyncedImages
<1>4. file' = [frames |-> file'.frames, tail |-> file'.tail]
  BY <1>2 DEF Images
<1>5. file' \in Unsynced(view, file')
  BY <1>4, SMTT(30) DEF Unsynced
<1> QED  BY <1>1, <1>2, <1>3, <1>5, Zenon

\* Every step keeps the types.
LEMMA TypeStep ==
    ASSUME TypeOK, Control, [Next]_vars
    PROVE  TypeOK'
<1> USE EmptyIsContent, CleanFields, CommitsFields, FieldTypes, JournalConstants DEF TypeOK
<1>1. CASE OpenCreate
  BY <1>1 DEF OpenCreate
<1>2. CASE OpenAdopt
  BY <1>2 DEF OpenAdopt
<1>3. CASE AdoptSync
  BY <1>3, ZenonT(60) DEF AdoptSync
<1>4. CASE OpenCurrent
  BY <1>4, Zenon DEF OpenCurrent, disk
<1>5. CASE OpenTruncate
  BY <1>5 DEF OpenTruncate, Accepts
<1>6. CASE TruncateSync
  BY <1>6, ZenonT(60) DEF TruncateSync
<1>7. CASE SyncData
  BY <1>7, ZenonT(60) DEF SyncData
<1>8. CASE WriteWitness
  BY <1>8 DEF WriteWitness
<1>9. CASE Return
  BY <1>9 DEF Return
<1>10. CASE RenameReplacement
  BY <1>10 DEF RenameReplacement
<1>11. CASE SyncParent
  BY <1>11 DEF SyncParent
<1>12. CASE ReadFile
  BY <1>12, Zenon DEF ReadFile, disk
<1>13. CASE ReadWitness
  BY <1>13, Zenon DEF ReadWitness, disk
<1>14. CASE ProcessStops
  BY <1>14 DEF ProcessStops, disk, Fault
<1>15. CASE PowerLoss
  BY <1>15 DEF PowerLoss, Fault
<1>16. ASSUME NEW batch \in Batches, Write(batch) \/ WriteShort(batch)
      PROVE  TypeOK'
  <2>1. view \o batch \in Contents
    BY <1>16, WriteEffect, WriteType, ZenonT(60)
  <2>2. file' \in Images /\ Unsynced(file.frames, file') \subseteq Images
    BY <1>16, WriteImages
  <2>3. risk' \subseteq {"replaced", "unsettled"}
    BY <1>16, WriteEffect, ZenonT(60) DEF CreationPending
  <2>4. cur' \subseteq Images /\ stale' \subseteq Images
    BY <1>16, <2>2, WriteEffect
  <2>7. allowed' \subseteq Contents
    <3>1. allowed' = allowed \cup {view \o batch}
      BY <1>16, WriteEffect, ZenonT(60)
    <3> QED  BY <2>1, <3>1, ZenonT(60)
  <2>5. wit' \in Witness /\ wposs' \subseteq Witness /\ rd' = rd
    BY <1>16, WriteEffect
  <2>6. /\ pc' \in {"written", "closed"} /\ view' \in Contents /\ target' \in Contents
        /\ faults' \in 0..MaxFaults
    <3>1. CASE Write(batch)
      BY <2>1, <3>1, ZenonT(60) DEF Write
    <3>2. CASE WriteShort(batch)
      BY <3>2 DEF WriteShort, Fault
    <3> QED  BY <1>16, <3>1, <3>2, Zenon
  <2> QED  BY <2>2, <2>3, <2>4, <2>5, <2>6, <2>7, Zenon
<1>17. ASSUME NEW payloads \in Contents, WriteReplacement(payloads)
      PROVE  TypeOK'
  BY <1>17, ZenonT(60) DEF WriteReplacement, CreationPending, disk
<1>18. CASE UNCHANGED vars
  BY <1>18, Zenon DEF vars
<1> QED  BY <1>1, <1>2, <1>3, <1>4, <1>5, <1>6, <1>7, <1>8, <1>9, <1>10, <1>11, <1>12, <1>13, <1>14, <1>15, <1>16, <1>17, <1>18, ZenonT(60) DEF Next

-----------------------------------------------------------------------------
(* The inductive invariant *)

\* Every step keeps what the place of the process says of handle, file and witness.
LEMMA ControlStep ==
    ASSUME TypeOK, Control, [Next]_vars
    PROVE  Control'
<1>1. CASE OpenCreate
  BY <1>1, Zenon DEF OpenCreate, Control
<1>2. CASE OpenAdopt
  <2>1. file.tail = "none" /\ file.frames \in Contents
    BY <1>2, FieldTypes DEF OpenAdopt, Accepts
  <2>2. file = Clean(file.frames)
    BY <2>1, CleanImages, Zenon DEF TypeOK
  <2> QED  BY <1>2, <2>1, <2>2, CommitsFields, Zenon DEF OpenAdopt, Control
<1>3. CASE AdoptSync
  <2>1. file = Clean(wit.frames) /\ wit = Commits(wit.frames)
    BY <1>3, SetWitnesses, Zenon DEF AdoptSync, Control, TypeOK
  <2>2. file.frames = wit.frames
    BY <2>1, FieldTypes, CleanFields, Zenon
  <2> QED  BY <1>3, <2>1, <2>2, Zenon DEF AdoptSync, Control
<1>4. CASE OpenCurrent
  <2>1. wit = Commits(wit.frames)
    BY <1>4, SetWitnesses, Zenon DEF OpenCurrent, TypeOK
  <2> QED  BY <1>4, <2>1, Zenon DEF OpenCurrent, disk, Control
<1>5. CASE OpenTruncate
  BY <1>5, Zenon DEF OpenTruncate, Control
<1>6. CASE TruncateSync
  <2>1. file = Clean(wit.frames) /\ wit = Commits(wit.frames)
    BY <1>6, SetWitnesses, Zenon DEF TruncateSync, Control, TypeOK
  <2>2. file.frames = wit.frames
    BY <2>1, FieldTypes, CleanFields
  <2> QED  BY <1>6, <2>1, <2>2, Zenon DEF TruncateSync, Control
<1>7. CASE SyncData
  BY <1>7, Zenon DEF SyncData, Control
<1>8. CASE WriteWitness
  BY <1>8, Zenon DEF WriteWitness, Control
<1>9. CASE Return
  BY <1>9, Zenon DEF Return, Control
<1>10. CASE RenameReplacement
  BY <1>10, Zenon DEF RenameReplacement, Control
<1>11. CASE SyncParent
  BY <1>11, Zenon DEF SyncParent, Control
<1>12. CASE ReadFile
  BY <1>12, Zenon DEF ReadFile, disk, Control
<1>13. CASE ReadWitness
  BY <1>13, Zenon DEF ReadWitness, disk, Control
<1>14. CASE ProcessStops
  BY <1>14, ZenonT(60) DEF ProcessStops, disk, Control
<1>15. CASE PowerLoss
  BY <1>15 DEF PowerLoss, Control
<1>16. ASSUME NEW batch \in Batches, Write(batch) \/ WriteShort(batch)
      PROVE  Control'
  <2>1. wit = Commits(view) /\ wit' = wit
    BY <1>16, WriteEffect, Zenon DEF Control
  <2>2. CASE Write(batch)
    <3>1. IsPrefixOf(view, view \o batch) /\ file.frames = view
      BY <1>16, WriteEffect, WriteType, Zenon
    <3> QED  BY <2>1, <2>2, <3>1, Zenon DEF Write, Control
  <2>3. CASE WriteShort(batch)
    BY <2>3, Zenon DEF WriteShort, Control
  <2> QED  BY <1>16, <2>2, <2>3, Zenon
<1>17. ASSUME NEW payloads \in Contents, WriteReplacement(payloads)
      PROVE  Control'
  BY <1>17, Zenon DEF WriteReplacement, CreationPending, disk, Control
<1>18. CASE UNCHANGED vars
  BY <1>18, Zenon DEF vars, Control
<1> QED  BY <1>1, <1>2, <1>3, <1>4, <1>5, <1>6, <1>7, <1>8, <1>9, <1>10, <1>11, <1>12, <1>13, <1>14, <1>15, <1>16, <1>17, <1>18, Zenon DEF Next

\* Every step keeps what is shown among what may survive.
LEMMA ShownStep ==
    ASSUME TypeOK, Control, Shown, [Next]_vars
    PROVE  Shown'
<1>1. CASE OpenCreate
  <2>1. Clean(<<>>).tail = "none" /\ Clean(<<>>) # Absent
    BY CleanFields, EmptyIsContent, Zenon
  <2> QED  BY <1>1, <2>1, Zenon DEF OpenCreate, Shown
<1>2. CASE OpenAdopt
  <2>1. Commits(file.frames).set
    BY FieldTypes, CommitsFields, Zenon
  <2> QED  BY <1>2, <2>1, Zenon DEF OpenAdopt, Shown
<1>3. CASE AdoptSync
  BY <1>3, Zenon DEF AdoptSync, Shown
<1>4. CASE OpenCurrent
  BY <1>4, FieldTypes, CleanFields, Zenon DEF OpenCurrent, disk, Shown
<1>5. CASE OpenTruncate
  <2>1. Absent \notin cur
    BY <1>5, CleanFields, Zenon DEF OpenTruncate, Accepts, Parses, Shown
  <2>2. Clean(wit.frames).tail = "none" /\ Clean(wit.frames) # Absent
    BY FieldTypes, CleanFields, Zenon
  <2> QED  BY <1>5, <2>1, <2>2, Zenon DEF OpenTruncate, Shown
<1>6. CASE TruncateSync
  BY <1>6, Zenon DEF TruncateSync, Shown
<1>7. CASE SyncData
  BY <1>7, Zenon DEF SyncData, Shown
<1>8. CASE WriteWitness
  <2>1. Commits(target).set /\ target \in Contents
    BY CommitsFields, Zenon DEF TypeOK
  <2> QED  BY <1>8, <2>1, Zenon DEF WriteWitness, Shown
<1>9. CASE Return
  BY <1>9, Zenon DEF Return, Shown
<1>10. CASE RenameReplacement
  <2>1. Clean(target).tail = "none" /\ Clean(target) # Absent
    BY CleanFields, Zenon DEF TypeOK
  <2> QED  BY <1>10, <2>1, Zenon DEF RenameReplacement, Shown
<1>11. CASE SyncParent
  BY <1>11, Zenon DEF SyncParent, Shown
<1>12. CASE ReadFile
  BY <1>12, Zenon DEF ReadFile, disk, Shown
<1>13. CASE ReadWitness
  BY <1>13, Zenon DEF ReadWitness, disk, Shown
<1>14. CASE ProcessStops
  BY <1>14, Zenon DEF ProcessStops, disk, Shown
<1>15. CASE PowerLoss
  BY <1>15, Zenon DEF PowerLoss, Shown
<1>16. ASSUME NEW batch \in Batches, Write(batch) \/ WriteShort(batch)
      PROVE  Shown'
  <2>1. /\ Absent \notin cur /\ pc = "idle" /\ stale' = stale /\ wit' = wit /\ wposs' = wposs
        /\ cur' = cur \cup Unsynced(file.frames, file')
    BY <1>16, WriteEffect, Zenon DEF Shown
  <2>2. /\ file' \in Unsynced(file.frames, file') /\ file' # Absent
        /\ \A img \in Unsynced(file.frames, file') : img.tail # "absent" /\ img # Absent
    BY <1>16, WriteImages, CleanFields, Zenon
  <2> QED  BY <2>1, <2>2, Zenon DEF Shown
<1>17. ASSUME NEW payloads \in Contents, WriteReplacement(payloads)
      PROVE  Shown'
  BY <1>17, Zenon DEF WriteReplacement, CreationPending, disk, Shown
<1>18. CASE UNCHANGED vars
  BY <1>18, Zenon DEF vars, Shown
<1> QED  BY <1>1, <1>2, <1>3, <1>4, <1>5, <1>6, <1>7, <1>8, <1>9, <1>10, <1>11, <1>12, <1>13, <1>14, <1>15, <1>16, <1>17, <1>18, Zenon DEF Next

\* Every step keeps a journal whose creation is not durable empty.
LEMMA EmptyUntilDurableStep ==
    ASSUME TypeOK, Control, Shown, EmptyUntilDurable, [Next]_vars
    PROVE  EmptyUntilDurable'
<1>1. CASE OpenCreate
  BY <1>1, CleanFields, CommitsFields, EmptyIsContent DEF OpenCreate, EmptyUntilDurable, Shown
<1>2. CASE OpenAdopt
  BY <1>2, FieldTypes, CommitsFields, Zenon DEF OpenAdopt, EmptyUntilDurable, Shown
<1>3. CASE AdoptSync
  BY <1>3, Zenon DEF AdoptSync, EmptyUntilDurable, Shown
<1>4. CASE OpenCurrent
  BY <1>4, Zenon DEF OpenCurrent, disk, EmptyUntilDurable
<1>5. CASE OpenTruncate
  <2>1. file # Absent /\ file.tail # "absent" /\ file # Clean(wit.frames)
    BY <1>5, CleanFields, Zenon DEF OpenTruncate, Accepts, Parses
  <2>2. ~(file.frames = <<>> /\ file.tail = "none" /\ wit.frames = <<>>)
    BY <2>1, CleanImages, Zenon DEF TypeOK
  <2>3. "unsettled" \notin risk => NoWitness \notin wposs /\ Absent \notin cur \cup stale
    BY <2>1, <2>2, Zenon DEF EmptyUntilDurable, Shown
  <2>4. Clean(wit.frames) # Absent
    BY FieldTypes, CleanFields, Zenon
  <2> QED  BY <1>5, <2>3, <2>4, Zenon DEF OpenTruncate, EmptyUntilDurable
<1>6. CASE TruncateSync
  BY <1>6, Zenon DEF TruncateSync, EmptyUntilDurable, Shown
<1>7. CASE SyncData
  BY <1>7, Zenon DEF SyncData, EmptyUntilDurable, Shown
<1>8. CASE WriteWitness
  BY <1>8, CommitsFields, ZenonT(60) DEF WriteWitness, EmptyUntilDurable, Shown, TypeOK
<1>9. CASE Return
  BY <1>9, CommitsFields, CleanFields DEF Return, EmptyUntilDurable, Control, TypeOK
<1>10. CASE RenameReplacement
  BY <1>10, CleanFields, Zenon DEF RenameReplacement, EmptyUntilDurable, Shown, TypeOK
<1>11. CASE SyncParent
  BY <1>11, Zenon DEF SyncParent, EmptyUntilDurable, Shown
<1>12. CASE ReadFile
  BY <1>12, Zenon DEF ReadFile, disk, EmptyUntilDurable
<1>13. CASE ReadWitness
  BY <1>13, Zenon DEF ReadWitness, disk, EmptyUntilDurable
<1>14. CASE ProcessStops
  BY <1>14, Zenon DEF ProcessStops, disk, EmptyUntilDurable
<1>15. CASE PowerLoss
  BY <1>15, Zenon DEF PowerLoss, EmptyUntilDurable, Shown
<1>16. ASSUME NEW batch \in Batches, Write(batch) \/ WriteShort(batch)
      PROVE  EmptyUntilDurable'
  <2>1. Absent \notin cur /\ \A img \in Unsynced(file.frames, file') : img # Absent
    BY <1>16, WriteEffect, WriteImages, CleanFields, Zenon DEF Shown
  <2>2. Absent \notin cur'
    BY <1>16, <2>1, WriteEffect
  <2>3. "unsettled" \in risk' \/ (Absent \notin stale' /\ NoWitness \notin wposs')
    BY <1>16, WriteEffect, Zenon DEF CreationPending
  <2> QED  BY <2>2, <2>3, Zenon DEF EmptyUntilDurable
<1>17. ASSUME NEW payloads \in Contents, WriteReplacement(payloads)
      PROVE  EmptyUntilDurable'
  BY <1>17, Zenon DEF WriteReplacement, CreationPending, disk, EmptyUntilDurable, Shown
<1>18. CASE UNCHANGED vars
  BY <1>18, Zenon DEF vars, EmptyUntilDurable
<1> QED  BY <1>1, <1>2, <1>3, <1>4, <1>5, <1>6, <1>7, <1>8, <1>9, <1>10, <1>11, <1>12, <1>13, <1>14, <1>15, <1>16, <1>17, <1>18, ZenonT(60) DEF Next

\* Every step keeps the witnesses that may come back among the allowed contents.
LEMMA WitnessAllowedStep ==
    ASSUME TypeOK, Control, Shown, EmptyUntilDurable, WitnessAllowed, [Next]_vars
    PROVE  WitnessAllowed'
<1>1. CASE OpenCreate
  BY <1>1, Zenon DEF OpenCreate, WitnessAllowed
<1>2. CASE OpenAdopt
  <2>1. "unsettled" \notin risk => file.frames \in allowed
    BY <1>2, Zenon DEF OpenAdopt, EmptyUntilDurable, Shown
  <2>2. Commits(file.frames).frames = file.frames
    BY FieldTypes, CommitsFields, Zenon
  <2> QED  BY <1>2, <2>1, <2>2, Zenon DEF OpenAdopt, WitnessAllowed
<1>3. CASE AdoptSync
  BY <1>3, Zenon DEF AdoptSync, WitnessAllowed, Shown
<1>4. CASE OpenCurrent
  BY <1>4, Zenon DEF OpenCurrent, disk, WitnessAllowed
<1>5. CASE OpenTruncate
  BY <1>5, Zenon DEF OpenTruncate, WitnessAllowed
<1>6. CASE TruncateSync
  BY <1>6 DEF TruncateSync, WitnessAllowed
<1>7. CASE SyncData
  BY <1>7, ZenonT(60) DEF SyncData, WitnessAllowed
<1>8. CASE WriteWitness
  BY <1>8, CommitsFields DEF WriteWitness, WitnessAllowed, Control, TypeOK
<1>9. CASE Return
  BY <1>9, CommitsFields, ZenonT(60) DEF Return, WitnessAllowed, Control, TypeOK
<1>10. CASE RenameReplacement
  BY <1>10, Zenon DEF RenameReplacement, WitnessAllowed
<1>11. CASE SyncParent
  BY <1>11, Zenon DEF SyncParent, WitnessAllowed, Shown
<1>12. CASE ReadFile
  BY <1>12, Zenon DEF ReadFile, disk, WitnessAllowed
<1>13. CASE ReadWitness
  BY <1>13, Zenon DEF ReadWitness, disk, WitnessAllowed
<1>14. CASE ProcessStops
  BY <1>14, Zenon DEF ProcessStops, disk, WitnessAllowed
<1>15. CASE PowerLoss
  BY <1>15, Zenon DEF PowerLoss, WitnessAllowed
<1>16. ASSUME NEW batch \in Batches, Write(batch) \/ WriteShort(batch)
      PROVE  WitnessAllowed'
  <2>1. wposs' = wposs /\ allowed \subseteq allowed' /\ ("unsettled" \in risk => "unsettled" \in risk')
    BY <1>16, WriteEffect, Zenon
  <2> QED  BY <2>1, Zenon DEF WitnessAllowed
<1>17. ASSUME NEW payloads \in Contents, WriteReplacement(payloads)
      PROVE  WitnessAllowed'
  BY <1>17, Zenon DEF WriteReplacement, CreationPending, disk, WitnessAllowed
<1>18. CASE UNCHANGED vars
  BY <1>18, Zenon DEF vars, WitnessAllowed
<1> QED  BY <1>1, <1>2, <1>3, <1>4, <1>5, <1>6, <1>7, <1>8, <1>9, <1>10, <1>11, <1>12, <1>13, <1>14, <1>15, <1>16, <1>17, <1>18, Zenon DEF Next

\* Every step lets the witnesses that may come back only grow.
LEMMA WitnessesGrowStep ==
    ASSUME TypeOK, Control, Shown, EmptyUntilDurable, WitnessesGrow, [Next]_vars
    PROVE  WitnessesGrow'
<1>1. CASE OpenCreate
  BY <1>1, Zenon DEF OpenCreate, WitnessesGrow, Shown
<1>2. CASE OpenAdopt
  <2>1. risk = {} => file.frames = <<>> /\ \A w \in wposs : w.frames = <<>>
    BY <1>2, Zenon DEF OpenAdopt, EmptyUntilDurable, Shown
  <2>2. Commits(file.frames).frames = file.frames
    BY FieldTypes, CommitsFields
  <2> QED  BY <1>2, <2>1, <2>2, PrefixReflexive, Zenon DEF OpenAdopt, WitnessesGrow
<1>3. CASE AdoptSync
  BY <1>3, PrefixReflexive, Zenon DEF AdoptSync, WitnessesGrow
<1>4. CASE OpenCurrent
  BY <1>4, Zenon DEF OpenCurrent, disk, WitnessesGrow
<1>5. CASE OpenTruncate
  BY <1>5, Zenon DEF OpenTruncate, WitnessesGrow
<1>6. CASE TruncateSync
  BY <1>6, Zenon DEF TruncateSync, WitnessesGrow
<1>7. CASE SyncData
  BY <1>7, Zenon DEF SyncData, WitnessesGrow
<1>8. CASE WriteWitness
  <2>1. SUFFICES ASSUME risk = {}
                 PROVE  /\ \A w \in wposs : w.set => IsPrefixOf(w.frames, target)
                        /\ stale # {} => Absent \in stale
    BY <1>8, CommitsFields, PrefixReflexive DEF WriteWitness, WitnessesGrow, TypeOK
  <2>2. wit = Commits(view) /\ IsPrefixOf(view, target)
    BY <1>8, <2>1, Zenon DEF WriteWitness, Control
  <2>3. view \in Contents /\ target \in Contents /\ wit.frames = view
    BY <2>2, CommitsFields, Zenon DEF TypeOK
  <2>4. ASSUME NEW w \in wposs, w.set
        PROVE  IsPrefixOf(w.frames, target)
    <3>1. w.frames \in Contents /\ IsPrefixOf(w.frames, view)
      BY <2>1, <2>3, <2>4, FieldTypes, Zenon DEF WitnessesGrow, TypeOK
    <3> QED  BY <2>2, <2>3, <3>1, PrefixTransitive, Zenon
  <2> QED  BY <2>1, <2>4, Zenon DEF WitnessesGrow
<1>9. CASE Return
  BY <1>9, PrefixReflexive, Zenon DEF Return, WitnessesGrow
<1>10. CASE RenameReplacement
  BY <1>10, Zenon DEF RenameReplacement, WitnessesGrow
<1>11. CASE SyncParent
  BY <1>11, PrefixReflexive, Zenon DEF SyncParent, WitnessesGrow
<1>12. CASE ReadFile
  BY <1>12, Zenon DEF ReadFile, disk, WitnessesGrow
<1>13. CASE ReadWitness
  BY <1>13, Zenon DEF ReadWitness, disk, WitnessesGrow
<1>14. CASE ProcessStops
  BY <1>14, Zenon DEF ProcessStops, disk, WitnessesGrow
<1>15. CASE PowerLoss
  BY <1>15, PrefixReflexive, Zenon DEF PowerLoss, WitnessesGrow
<1>16. ASSUME NEW batch \in Batches, Write(batch) \/ WriteShort(batch)
      PROVE  WitnessesGrow'
  <2>1. wposs' = wposs /\ wit' = wit /\ stale' = stale /\ (risk' = {} => risk = {})
    BY <1>16, WriteEffect, Zenon
  <2> QED  BY <2>1, Zenon DEF WitnessesGrow
<1>17. ASSUME NEW payloads \in Contents, WriteReplacement(payloads)
      PROVE  WitnessesGrow'
  BY <1>17, Zenon DEF WriteReplacement, CreationPending, disk, WitnessesGrow
<1>18. CASE UNCHANGED vars
  BY <1>18, Zenon DEF vars, WitnessesGrow
<1> QED  BY <1>1, <1>2, <1>3, <1>4, <1>5, <1>6, <1>7, <1>8, <1>9, <1>10, <1>11, <1>12, <1>13, <1>14, <1>15, <1>16, <1>17, <1>18 DEF Next

\* Every step keeps what may survive acceptable to open.
LEMMA AppendCrashRecoversStep ==
    ASSUME TypeOK, Control, Shown, EmptyUntilDurable, WitnessesGrow, AppendCrashRecovers, [Next]_vars
    PROVE  AppendCrashRecovers'
<1>1. CASE OpenCreate
  <2>1. risk = {} => /\ \A w \in wposs : w.frames = <<>>
                     /\ wit \in wposs
                     /\ \A img \in stale \cup cur : img.frames = <<>> /\ img.tail \in {"none", "absent"}
    BY <1>1, Zenon DEF OpenCreate, EmptyUntilDurable, Shown
  <2>2. \A w : w.frames = <<>> => Accepts(Clean(<<>>), w)
    BY CleanFields, EmptyIsContent, PrefixReflexive, Zenon DEF Accepts, Parses
  <2> QED  BY <1>1, <2>1, <2>2, ZenonT(60) DEF OpenCreate, AppendCrashRecovers
<1>2. CASE OpenAdopt
  <2>1. risk = {} => file.frames = <<>> /\ \A img \in cur \cup stale : img.frames = <<>>
    BY <1>2, Zenon DEF OpenAdopt, EmptyUntilDurable, Shown
  <2>2. Commits(file.frames).frames = file.frames /\ Commits(file.frames).set
    BY FieldTypes, CommitsFields, Zenon
  <2>3. \A img \in {file} \cup cur \cup stale : img.tail \in {"none", "torn", "bad"} \/ img = Absent
    BY FieldTypes, Zenon DEF Shown, TypeOK
  <2> QED  BY <1>2, <2>1, <2>2, <2>3, PrefixReflexive, ZenonT(60) DEF OpenAdopt, AppendCrashRecovers, Accepts, Parses, Shown
<1>3. CASE AdoptSync
  BY <1>3, Zenon DEF AdoptSync, AppendCrashRecovers
<1>4. CASE OpenCurrent
  BY <1>4, Zenon DEF OpenCurrent, disk, AppendCrashRecovers
<1>5. CASE OpenTruncate
  <2>1. risk = {} => \A w \in wposs : w.set => IsPrefixOf(w.frames, wit.frames)
    BY Zenon DEF WitnessesGrow
  <2>2. Clean(wit.frames).tail = "none" /\ Clean(wit.frames).frames = wit.frames
    BY FieldTypes, CleanFields, Zenon
  <2>3. risk = {} => \A w \in {wit} \cup wposs : Accepts(Clean(wit.frames), w)
    BY <2>1, <2>2, Zenon DEF Accepts, Parses, Shown
  <2> QED  BY <1>5, <2>3, Zenon DEF OpenTruncate, AppendCrashRecovers
<1>6. CASE TruncateSync
  BY <1>6, Zenon DEF TruncateSync, AppendCrashRecovers
<1>7. CASE SyncData
  BY <1>7, Zenon DEF SyncData, AppendCrashRecovers
<1>8. CASE WriteWitness
  <2>1. SUFFICES ASSUME risk = {}
                 PROVE  \A img \in {file} \cup cur \cup stale, w \in {Commits(target)} \cup wposs :
                            img = Absent \/ img.tail = "bad" \/ Accepts(img, w)
    BY <1>8, Zenon DEF WriteWitness, AppendCrashRecovers
  <2>2. pc = "synced" /\ file = Clean(target) /\ cur = {file}
    BY <1>8, <2>1, Zenon DEF WriteWitness, Control
  <2>3. stale = {}
    BY <2>1, <2>2, ZenonT(60) DEF WitnessesGrow, EmptyUntilDurable
  <2>4. Accepts(Clean(target), Commits(target))
    BY CleanFields, CommitsFields, PrefixReflexive DEF Accepts, Parses, TypeOK
  <2> QED  BY <2>1, <2>2, <2>3, <2>4, Zenon DEF AppendCrashRecovers
<1>9. CASE Return
  <2>1. file = Clean(target) /\ cur = {file} /\ wit = Commits(target) /\ target \in Contents
    BY <1>9, Zenon DEF Return, Control, TypeOK
  <2>2. Accepts(Clean(target), Commits(target))
    BY <2>1, CleanFields, CommitsFields, PrefixReflexive, Zenon DEF Accepts, Parses
  <2> QED  BY <1>9, <2>1, <2>2, Zenon DEF Return, AppendCrashRecovers
<1>10. CASE RenameReplacement
  BY <1>10, Zenon DEF RenameReplacement, AppendCrashRecovers
<1>11. CASE SyncParent
  BY <1>11, Zenon DEF SyncParent, AppendCrashRecovers
<1>12. CASE ReadFile
  BY <1>12, Zenon DEF ReadFile, disk, AppendCrashRecovers
<1>13. CASE ReadWitness
  BY <1>13, Zenon DEF ReadWitness, disk, AppendCrashRecovers
<1>14. CASE ProcessStops
  BY <1>14, Zenon DEF ProcessStops, disk, AppendCrashRecovers
<1>15. CASE PowerLoss
  BY <1>15, Zenon DEF PowerLoss, AppendCrashRecovers
<1>16. ASSUME NEW batch \in Batches, Write(batch) \/ WriteShort(batch)
      PROVE  AppendCrashRecovers'
  <2>1. SUFFICES ASSUME risk' = {}, NEW img \in {file'} \cup cur' \cup stale',
                        NEW w \in {wit'} \cup wposs'
                 PROVE  img = Absent \/ img.tail = "bad" \/ Accepts(img, w)
    BY <2>1, Zenon DEF AppendCrashRecovers
  <2>2. /\ file' \in Unsynced(file.frames, file')
        /\ \A i \in Unsynced(file.frames, file') :
              i \in Images /\ i.tail # "absent" /\ IsPrefixOf(view, i.frames)
    BY <1>16, WriteImages, Zenon
  <2>3. /\ risk = {} /\ CreationPending = {} /\ w \in wposs /\ wit = Commits(view)
        /\ img \in cur \cup stale \/ img \in Unsynced(file.frames, file')
    BY <1>16, <2>1, <2>2, WriteEffect, Zenon DEF Control, Shown
  <2>4. CASE img \in cur \cup stale
    BY <2>3, <2>4, Zenon DEF AppendCrashRecovers
  <2>5. CASE img \in Unsynced(file.frames, file')
    <3>1. w.set
      BY <2>3, Zenon DEF CreationPending, Shown
    <3>2. /\ img.frames \in Contents /\ img.tail \in {"none", "torn", "bad"}
          /\ IsPrefixOf(view, img.frames)
      BY <2>2, <2>5, FieldTypes, Zenon
    <3>3. w.frames \in Contents /\ view \in Contents /\ wit.frames = view
      BY <2>3, FieldTypes, CommitsFields, Zenon DEF TypeOK
    <3>4. IsPrefixOf(w.frames, view)
      BY <2>3, <3>1, <3>3, Zenon DEF WitnessesGrow
    <3>5. IsPrefixOf(w.frames, img.frames)
      BY <3>2, <3>3, <3>4, PrefixTransitive, Zenon
    <3> QED  BY <3>1, <3>2, <3>5, Zenon DEF Accepts, Parses
  <2> QED  BY <2>3, <2>4, <2>5, Zenon
<1>17. ASSUME NEW payloads \in Contents, WriteReplacement(payloads)
      PROVE  AppendCrashRecovers'
  BY <1>17, Zenon DEF WriteReplacement, CreationPending, disk, AppendCrashRecovers
<1>18. CASE UNCHANGED vars
  BY <1>18, ZenonT(60) DEF vars, AppendCrashRecovers
<1> QED  BY <1>1, <1>2, <1>3, <1>4, <1>5, <1>6, <1>7, <1>8, <1>9, <1>10, <1>11, <1>12, <1>13, <1>14, <1>15, <1>16, <1>17, <1>18, Zenon DEF Next

\* The invariant holds initially.
LEMMA InvariantInit == Init => JournalInvariant
<1> SUFFICES ASSUME Init PROVE JournalInvariant
  BY Zenon
<1> USE CleanFields, CommitsFields, EmptyIsContent, JournalConstants DEF Init
<1>1. TypeOK
  <2>1. rd \in [pc : {"idle", "file", "ok", "refused"}, img : Images]
    BY Zenon
  <2> QED  BY <2>1 DEF TypeOK
<1>2. Control /\ Shown /\ EmptyUntilDurable /\ WitnessAllowed
  BY Zenon DEF Control, Shown, EmptyUntilDurable, WitnessAllowed
<1>3. WitnessesGrow /\ AppendCrashRecovers
  BY Zenon DEF WitnessesGrow, AppendCrashRecovers
<1> QED  BY <1>1, <1>2, <1>3 DEF JournalInvariant

\* Every step keeps the invariant.
LEMMA InvariantStep ==
    ASSUME JournalInvariant, [Next]_vars
    PROVE  JournalInvariant'
BY TypeStep, ControlStep, ShownStep, EmptyUntilDurableStep, WitnessAllowedStep,
   WitnessesGrowStep, AppendCrashRecoversStep DEF JournalInvariant

\* The inductive invariant holds in every reachable state.
THEOREM JournalInvariantHolds == Spec => []JournalInvariant
<1>1. Init => JournalInvariant
  BY InvariantInit
<1>2. JournalInvariant /\ [Next]_vars => JournalInvariant'
  BY InvariantStep
<1> QED  BY <1>1, <1>2, PTL DEF Spec

-----------------------------------------------------------------------------
(* The properties *)

\* The types hold in every reachable state of the journal.
THEOREM TypeCorrect == Spec => []TypeOK
<1>1. JournalInvariant => TypeOK
  BY DEF JournalInvariant
<1> QED  BY <1>1, JournalInvariantHolds, PTL

\* Whatever the payloads, the capacity and the number of faults: an open journal
\* holds the last acknowledged content or that of an operation that was not
\* answered, in full (Journal::open, append, append_batch and compact).
THEOREM DurabilityAndAtomicity == Spec => []DurableAndAtomic
<1>1. JournalInvariant => DurableAndAtomic
  <2>1. SUFFICES ASSUME JournalInvariant, pc = "idle", "unsettled" \notin risk
                 PROVE  view \in allowed
    BY Zenon DEF DurableAndAtomic
  <2>2. wit = Commits(view) /\ wit \in wposs /\ view \in Contents
    BY <2>1, Zenon DEF JournalInvariant, Control, Shown, TypeOK
  <2>3. wit.set /\ wit.frames = view
    BY <2>2, CommitsFields, Zenon
  <2> QED  BY <2>1, <2>2, <2>3 DEF JournalInvariant, WitnessAllowed
<1> QED  BY <1>1, JournalInvariantHolds, PTL

\* An open handle, the file and the witness always agree.
THEOREM HandlesAreCurrent == Spec => []HandleIsCurrent
<1>1. JournalInvariant => HandleIsCurrent
  BY DEF JournalInvariant, Control, HandleIsCurrent
<1> QED  BY <1>1, JournalInvariantHolds, PTL

\* A stop or power loss during open, append or append_batch never leaves a
\* journal that open refuses, corrupt complete frames apart.
THEOREM AppendCrashesRecover == Spec => []AppendCrashRecovers
<1>1. JournalInvariant => AppendCrashRecovers
  BY DEF JournalInvariant
<1> QED  BY <1>1, JournalInvariantHolds, PTL

\* Journal::read returns only committed content, whatever the writer does
\* between its read of the file and its read of the witness.
THEOREM ReadersSeeCommitted == Spec => ReaderSeesCommitted
<1>1. JournalInvariant /\ [Next]_vars
         => [rd.pc = "file" /\ rd'.pc = "ok" /\ "unsettled" \notin risk
                => rd'.img.frames \in allowed]_vars
  <2>1. SUFFICES ASSUME JournalInvariant, Next, rd.pc = "file", rd'.pc = "ok",
                        "unsettled" \notin risk
                 PROVE  rd'.img.frames \in allowed
    BY Zenon DEF vars
  <2>2. ReadWitness
    <3>1. rd' # rd
      BY <2>1, Zenon
    <3>2. ~PowerLoss /\ ~ReadFile
      BY <2>1 DEF PowerLoss, ReadFile
    <3>3. \A batch \in Batches : ~Write(batch) /\ ~WriteShort(batch)
      BY <3>1, Zenon DEF Write, WriteShort
    <3>4. \A payloads \in Contents : ~WriteReplacement(payloads)
      BY <3>1, Zenon DEF WriteReplacement
    <3>5. ~OpenCreate /\ ~OpenAdopt /\ ~AdoptSync /\ ~OpenCurrent /\ ~OpenTruncate /\ ~TruncateSync
      BY <3>1, Zenon DEF OpenCreate, OpenAdopt, AdoptSync, OpenCurrent, OpenTruncate, TruncateSync
    <3>6. ~SyncData /\ ~WriteWitness /\ ~Return /\ ~RenameReplacement /\ ~SyncParent /\ ~ProcessStops
      BY <3>1 DEF SyncData, WriteWitness, Return, RenameReplacement, SyncParent, ProcessStops
    <3> QED  BY <2>1, <3>2, <3>3, <3>4, <3>5, <3>6, Zenon DEF Next
  <2>3. wit.set /\ rd'.img = Clean(wit.frames)
    BY <2>1, <2>2, Zenon DEF ReadWitness
  <2>4. wit \in wposs /\ wit.frames \in Contents
    BY <2>1, FieldTypes, Zenon DEF JournalInvariant, Shown
  <2>5. wit.frames \in allowed
    BY <2>1, <2>3, <2>4, Zenon DEF JournalInvariant, WitnessAllowed
  <2> QED  BY <2>3, <2>4, <2>5, CleanFields, Zenon
<1> QED  BY <1>1, JournalInvariantHolds, PTL DEF Spec, ReaderSeesCommitted

-----------------------------------------------------------------------------
(* The journal implements DurableLog *)

\* The initial states of the journal are initial states of the log.
LEMMA RefinesInit == Init => Log!Init
BY Zenon DEF Init, Log!Init, LogStatus, LogPhase, Durable

\* Every step of the journal is a step of the log or leaves it unchanged.
LEMMA RefinesStep ==
    ASSUME JournalInvariant, JournalInvariant', [Next]_vars
    PROVE  [Log!Next]_(Log!vars)
<1> DEFINE Settled == Absent \notin cur \cup stale /\ NoWitness \notin wposs
<1>1. /\ Durable <=> Settled
      /\ pc \notin {"closed", "adopting", "truncated", "idle"} /\ "unsettled" \notin risk => Settled
      /\ pc # "closed" => Absent \notin cur
  BY Zenon DEF JournalInvariant, Shown, Durable, EmptyUntilDurable
<1>2. /\ Durable' <=> Settled'
      /\ pc' \notin {"closed", "adopting", "truncated", "idle"} /\ "unsettled" \notin risk' => Settled'
      /\ pc' # "closed" => Absent \notin cur'
  BY DEF JournalInvariant, Shown, Durable, EmptyUntilDurable
<1>3. ASSUME LogStatus' = LogStatus, LogPhase' = LogPhase, UNCHANGED <<view, target, allowed>>
      PROVE  UNCHANGED Log!vars
  BY <1>3, Zenon DEF Log!vars
<1> USE DEF LogStatus, LogPhase
<1>4. CASE OpenCreate \/ OpenAdopt \/ OpenTruncate
  <2>1. Settled' <=> Settled
    <3>1. CASE OpenCreate
      BY <3>1, Zenon DEF OpenCreate, JournalInvariant, Shown
    <3>2. CASE OpenAdopt
      BY <3>2, Zenon DEF OpenAdopt, JournalInvariant, Shown
    <3>3. CASE OpenTruncate
      BY <3>3, Zenon DEF OpenTruncate, Accepts, Parses, JournalInvariant, Shown
    <3> QED  BY <1>4, <3>1, <3>2, <3>3, Zenon
  <2> QED  BY <1>1, <1>2, <1>3, <1>4, <2>1, Zenon DEF OpenCreate, OpenAdopt, OpenTruncate
<1>5. CASE SyncData \/ WriteWitness \/ RenameReplacement \/ SyncParent
  BY <1>1, <1>2, <1>3, <1>5, Zenon DEF SyncData, WriteWitness, RenameReplacement, SyncParent
<1>6. CASE ReadFile \/ ReadWitness \/ UNCHANGED vars
  BY <1>1, <1>2, <1>3, <1>6, Zenon DEF ReadFile, ReadWitness, disk, vars
<1>7. ASSUME AdoptSync \/ OpenCurrent \/ TruncateSync
      PROVE  Log!Open
  <2>1. /\ view' = wit.frames /\ wit.set /\ wit \in wposs /\ wit.frames \in Contents
    <3>1. wit \in wposs /\ wit.frames \in Contents
      BY FieldTypes, Zenon DEF JournalInvariant, Shown
    <3>2. CASE OpenCurrent
      BY <3>1, <3>2, Zenon DEF OpenCurrent
    <3>3. CASE AdoptSync \/ TruncateSync
      <4>1. file = Clean(wit.frames) /\ wit.set
        BY <3>3, Zenon DEF AdoptSync, TruncateSync, JournalInvariant, Control
      <4> QED  BY <3>1, <3>3, <4>1, CleanFields, Zenon DEF AdoptSync, TruncateSync
    <3> QED  BY <1>7, <3>2, <3>3, Zenon
  <2>2. "unsettled" \notin risk => view' \in allowed
    BY <2>1, Zenon DEF JournalInvariant, WitnessAllowed
  <2>3. Settled => Settled'
    BY <1>2, <1>7, <2>1, SMTT(30) DEF AdoptSync, OpenCurrent, TruncateSync, disk
  <2>4. pc \in {"closed", "adopting", "truncated"} /\ pc' = "idle"
    BY <1>7, Zenon DEF AdoptSync, OpenCurrent, TruncateSync
  <2>5. UNCHANGED <<target, allowed, risk>>
    BY <1>7, Zenon DEF AdoptSync, OpenCurrent, TruncateSync
  <2> QED  BY <1>1, <1>2, <2>1, <2>2, <2>3, <2>4, <2>5, Zenon DEF Log!Open, Log!Settle
<1>8. ASSUME NEW batch \in Batches, Write(batch)
      PROVE  Log!Begin(view \o batch) /\ view \o batch \in Contents
  <2>1. view \o batch \in Contents
    BY <1>8, WriteType, Zenon DEF Write, JournalInvariant
  <2>2. Settled => "unsettled" \notin risk' \/ "unsettled" \in risk
    BY <1>8, Zenon DEF Write, CreationPending
  <2>3. ~Settled => "unsettled" \in risk'
    BY <1>1, <1>8, Zenon DEF Write, CreationPending
  <2> QED  BY <1>1, <1>2, <1>8, <2>1, <2>2, <2>3, Zenon DEF Write, Log!Begin
<1>9. ASSUME NEW batch \in Batches, WriteShort(batch)
      PROVE  Log!BeginAndStop(view \o batch) /\ view \o batch \in Contents
  <2>1. view \o batch \in Contents
    BY <1>9, WriteType, Zenon DEF WriteShort, JournalInvariant
  <2>2. Settled => "unsettled" \notin risk' \/ "unsettled" \in risk
    BY <1>9, Zenon DEF WriteShort, CreationPending
  <2>3. ~Settled => "unsettled" \in risk'
    BY <1>1, <1>9 DEF WriteShort, CreationPending
  <2>4. Settled => Settled'
    <3>1. \A img \in Unsynced(file.frames, file') : img # Absent
      BY <1>9, WriteImages, CleanFields, Zenon DEF JournalInvariant
    <3> QED  BY <1>9, <3>1, Zenon DEF WriteShort
  <2>5. /\ pc = "idle" /\ pc' = "closed" /\ view' = <<>> /\ target' = target
        /\ allowed' = allowed \cup {view \o batch}
        /\ "unsettled" \in risk => "unsettled" \in risk'
    BY <1>9, Zenon DEF WriteShort
  <2> QED  BY <1>1, <1>2, <2>1, <2>2, <2>3, <2>4, <2>5, Zenon DEF Log!BeginAndStop
<1>10. ASSUME NEW payloads \in Contents, WriteReplacement(payloads)
      PROVE  Log!Begin(payloads)
  <2>1. ~Settled => "unsettled" \in risk'
    BY <1>1, <1>10, Zenon DEF WriteReplacement, CreationPending
  <2>2. Settled => "unsettled" \notin risk' \/ "unsettled" \in risk
    BY <1>10, Zenon DEF WriteReplacement, CreationPending
  <2> QED  BY <1>1, <1>2, <1>10, <2>1, <2>2, Zenon DEF WriteReplacement, Log!Begin
<1>11. ASSUME Return
      PROVE  Log!Ack
  <2>1. Settled'
    BY <1>2, <1>11, CommitsFields, SMTT(30) DEF Return, JournalInvariant, Control, TypeOK
  <2> QED  BY <1>2, <1>11, <2>1, ZenonT(60) DEF Return, Log!Ack
<1>12. ASSUME ProcessStops \/ PowerLoss
      PROVE  Log!Stop
  <2>1. Settled => Settled'
    BY <1>12 DEF ProcessStops, PowerLoss, disk
  <2> QED  BY <1>1, <1>2, <1>12, <2>1, Zenon DEF ProcessStops, PowerLoss, Log!Stop, Log!Settle
<1> QED
  BY <1>4, <1>5, <1>6, <1>7, <1>8, <1>9, <1>10, <1>11, <1>12, Zenon DEF Next, Log!Next

\* Under every stop and power loss, for all payloads and bounds, the journal is
\* the atomic durable log its callers rely on.
THEOREM JournalImplementsDurableLog == Spec => ImplementsDurableLog
<1>1. JournalInvariant /\ JournalInvariant' /\ [Next]_vars => [Log!Next]_(Log!vars)
  BY RefinesStep
<1> QED  BY <1>1, RefinesInit, JournalInvariantHolds, PTL DEF Spec, ImplementsDurableLog, Log!Spec

=============================================================================
