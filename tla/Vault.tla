------------------------------- MODULE Vault --------------------------------
(***************************************************************************)
(* The vault directory (rust-core/src/vault.rs): one file per account,     *)
(* under one of two names that say whether it is sealed, written by every  *)
(* process that runs the app over the directory.  Within a process calls   *)
(* come one at a time, so a process is the unit of concurrency.            *)
(*                                                                         *)
(* A file is written into a stage, a directory named after the account     *)
(* that every process shares, and renamed out of it under the lock.  Paths *)
(* are looked up at each step, and a process that has opened a file goes   *)
(* on writing to it wherever it has been moved: `writers` are those.       *)
(***************************************************************************)
EXTENDS Integers, FiniteSets

CONSTANTS
    Proc,  \* processes with this vault directory
    Addr   \* accounts

VARIABLES
    files,  \* files[a][s]: the file under a's name in spelling s
    stage,  \* stage[a]: the directory .stage-<a> and the file in it
    lock,   \* the processes that hold .lock: none or one
    pc,     \* where each process is in its call
    call    \* call[p]: the account and the spelling its call is about

vars == <<files, stage, lock, pc, call>>

Spelling == {"open", "sealed"}

\* Which file it is, wherever it is moved: an account has three at a time, two
\* under its names and one staged, so that one more is always to be had.
Inode == 1..4

\* mixed: a process opened it while another was still writing to it.
File   == [inode : Inode, holds : Spelling, whole : BOOLEAN, mixed : BOOLEAN,
           writers : SUBSET Proc]
NoFile == [holds |-> "nothing"]
NoDir  == [holds |-> "no directory"]

\* Everything a call takes the lock for.
Locked == {"check", "promote", "remove", "unlock create", "unlock forget"}
Places == Locked \cup
    {"idle", "clear", "mkdir", "write", "writing", "lock create", "unstage",
     "lock forget"}

Held(a) == \E s \in Spelling : files[a][s] # NoFile

\* Listing the vault refuses every account while one is held twice.
Corrupt == \E a \in Addr : \A s \in Spelling : files[a][s] # NoFile

Init ==
    /\ files = [a \in Addr |-> [s \in Spelling |-> NoFile]]
    /\ stage = [a \in Addr |-> NoDir]
    /\ lock = {}
    /\ pc = [p \in Proc |-> "idle"]
    /\ call \in [Proc -> [addr : Addr, spelling : Spelling]]

Goto(p, place) == pc' = [pc EXCEPT ![p] = place]
At(p, place)   == pc[p] = place

-----------------------------------------------------------------------------
(* Vault::create.                                                          *)

StartCreate(p, a, s) ==
    /\ At(p, "idle")
    /\ call' = [call EXCEPT ![p] = [addr |-> a, spelling |-> s]]
    /\ Goto(p, "clear")
    /\ UNCHANGED <<files, stage, lock>>

\* What a crash left behind is taken away; so is what another process wrote.
ClearStage(p) ==
    /\ At(p, "clear")
    /\ stage' = [stage EXCEPT ![call[p].addr] = NoDir]
    /\ Goto(p, "mkdir")
    /\ UNCHANGED <<files, lock, call>>

\* A directory made in between fails the call, which leaves it alone.
MakeStage(p) ==
    /\ At(p, "mkdir")
    /\ IF stage[call[p].addr] = NoDir
       THEN stage' = [stage EXCEPT ![call[p].addr] = NoFile] /\ Goto(p, "write")
       ELSE Goto(p, "idle") /\ UNCHANGED stage
    /\ UNCHANGED <<files, lock, call>>

\* A file that is none of a's.
NewInode(a) ==
    CHOOSE i \in Inode :
        \A f \in {files[a][s] : s \in Spelling} \cup {stage[a]} :
            f \in File => f.inode # i

\* f opened by p, and truncated: the file that is there, or else a new one.
Opened(p, f) ==
    LET others == IF f \in File THEN f.writers ELSE {}
    IN  [inode |-> IF f \in File THEN f.inode ELSE NewInode(call[p].addr),
         holds |-> call[p].spelling, whole |-> FALSE, mixed |-> others # {},
         writers |-> others \cup {p}]

\* Fault: the document is written under the account's own name.
OpenInPlace(p) ==
    LET a == call[p].addr
        s == call[p].spelling
    IN  /\ At(p, "write")
        /\ files' = [files EXCEPT ![a][s] = Opened(p, @)]
        /\ Goto(p, "writing")
        /\ UNCHANGED <<stage, lock, call>>

\* The document is opened empty, over one that is already there.
OpenStaged(p) ==
    LET a == call[p].addr
    IN  /\ At(p, "write")
        /\ IF stage[a] = NoDir
           THEN Goto(p, "unstage") /\ UNCHANGED stage
           ELSE stage' = [stage EXCEPT ![a] = Opened(p, stage[a])] /\ Goto(p, "writing")
        /\ UNCHANGED <<files, lock, call>>

\* f once p has written all of its document to it: a file nobody else was
\* writing to is whole, and of another it is not known, since a document
\* written over a longer one leaves the longer one's end.
Written(p, f) ==
    IF f \in File /\ p \in f.writers
    THEN {[f EXCEPT !.holds = call[p].spelling, !.whole = w, !.writers = @ \ {p}] :
            w \in IF f.mixed \/ f.writers # {p} THEN BOOLEAN ELSE {TRUE}}
    ELSE {f}

WriteStaged(p) ==
    LET a == call[p].addr
    IN  /\ At(p, "writing")
        /\ \E f \in Written(p, stage[a]) : stage' = [stage EXCEPT ![a] = f]
        /\ \E o \in Written(p, files[a]["open"]), c \in Written(p, files[a]["sealed"]) :
            files' = [files EXCEPT ![a] = [s \in Spelling |-> IF s = "open" THEN o ELSE c]]
        /\ Goto(p, "lock create")
        /\ UNCHANGED <<lock, call>>

\* Fault: only the sealed spelling is looked for.
RefusedSealed(a) == files[a]["sealed"] # NoFile \/ Corrupt

\* The account is already held, or some account is held twice.
Refused(a) == Held(a) \/ Corrupt

CheckAbsent(p) ==
    /\ At(p, "check")
    /\ Goto(p, IF Refused(call[p].addr) THEN "unlock create" ELSE "promote")
    /\ UNCHANGED <<files, stage, lock, call>>

\* Fault: nothing asks whether the stage is still there.
PromoteUnchecked(p) ==
    LET a == call[p].addr
    IN  /\ At(p, "promote")
        /\ files' = [files EXCEPT ![a][call[p].spelling] = stage[a]]
        /\ stage' = [stage EXCEPT ![a] = NoFile]
        /\ Goto(p, "unlock create")
        /\ UNCHANGED <<lock, call>>

\* Renamed by path: whatever the stage holds now goes under the account's name.
Promote(p) ==
    LET a == call[p].addr
    IN  /\ At(p, "promote")
        /\ IF stage[a] \in File
           THEN /\ files' = [files EXCEPT ![a][call[p].spelling] = stage[a]]
                /\ stage' = [stage EXCEPT ![a] = NoFile]
           ELSE UNCHANGED <<files, stage>>
        /\ Goto(p, "unlock create")
        /\ UNCHANGED <<lock, call>>

\* The stage is dropped after the lock, and by path.
DropStage(p) ==
    /\ At(p, "unstage")
    /\ stage' = [stage EXCEPT ![call[p].addr] = NoDir]
    /\ Goto(p, "idle")
    /\ UNCHANGED <<files, lock, call>>

-----------------------------------------------------------------------------
(* Vault::forget: which file to remove is read before the lock is taken.   *)

StartForget(p, a, s) ==
    /\ At(p, "idle")
    /\ files[a][s] # NoFile /\ ~Corrupt
    /\ call' = [call EXCEPT ![p] = [addr |-> a, spelling |-> s]]
    /\ Goto(p, "lock forget")
    /\ UNCHANGED <<files, stage, lock>>

RemoveFile(p) ==
    /\ At(p, "remove")
    /\ files' = [files EXCEPT ![call[p].addr][call[p].spelling] = NoFile]
    /\ Goto(p, "unlock forget")
    /\ UNCHANGED <<stage, lock, call>>

-----------------------------------------------------------------------------
(* Vault::lock: polled for a second, then given up on.  The system lets go *)
(* of a lock when its file closes, a crash included.                       *)

\* Fault: whoever asks gets the lock.
TakeLockAnyway(p) ==
    /\ \/ At(p, "lock create") /\ Goto(p, "check")
       \/ At(p, "lock forget") /\ Goto(p, "remove")
    /\ lock' = {p}
    /\ UNCHANGED <<files, stage, call>>

TakeLock(p) ==
    /\ lock = {}
    /\ \/ At(p, "lock create") /\ Goto(p, "check")
       \/ At(p, "lock forget") /\ Goto(p, "remove")
    /\ lock' = {p}
    /\ UNCHANGED <<files, stage, call>>

\* Fault: a forget waits for the lock as long as it takes.
GiveUpCreateOnly(p) ==
    /\ lock # {}
    /\ At(p, "lock create") /\ Goto(p, "unstage")
    /\ UNCHANGED <<files, stage, lock, call>>

GiveUpOnLock(p) ==
    /\ lock # {}
    /\ \/ At(p, "lock create") /\ Goto(p, "unstage")
       \/ At(p, "lock forget") /\ Goto(p, "idle")
    /\ UNCHANGED <<files, stage, lock, call>>

Unlock(p) ==
    /\ \/ At(p, "unlock create") /\ Goto(p, "unstage")
       \/ At(p, "unlock forget") /\ Goto(p, "idle")
    /\ lock' = lock \ {p}
    /\ UNCHANGED <<files, stage, call>>

\* f once p is gone: a document it had not finished stays unfinished.
Abandoned(p, f) ==
    IF f \in File THEN [f EXCEPT !.writers = @ \ {p}] ELSE f

AbandonFiles(p) ==
    /\ stage' = [a \in Addr |-> Abandoned(p, stage[a])]
    /\ files' = [a \in Addr |-> [s \in Spelling |-> Abandoned(p, files[a][s])]]

\* Where a call goes on when the system fails it at one of its places: a stage
\* that cannot be cleared or dropped is left there, and every other failure
\* ends the call, which lets go of what it holds on the way out.
AfterFailure ==
    {<<"clear", "mkdir">>, <<"mkdir", "idle">>, <<"write", "unstage">>,
     <<"writing", "unstage">>, <<"lock create", "unstage">>,
     <<"check", "unlock create">>, <<"promote", "unlock create">>,
     <<"unstage", "idle">>, <<"lock forget", "idle">>,
     <<"remove", "unlock forget">>}

\* The system fails a call on a file: no space, no permission, no such disk.
Fails(p) ==
    /\ \E place \in Places : <<pc[p], place>> \in AfterFailure /\ Goto(p, place)
    /\ AbandonFiles(p)
    /\ UNCHANGED <<lock, call>>

Crash(p) ==
    /\ ~At(p, "idle")
    /\ lock' = lock \ {p}
    /\ AbandonFiles(p)
    /\ Goto(p, "idle")
    /\ UNCHANGED call

-----------------------------------------------------------------------------

\* A process in the middle of a call goes on with it.
Step(p) ==
    \/ ClearStage(p) \/ MakeStage(p) \/ OpenStaged(p) \/ WriteStaged(p)
    \/ CheckAbsent(p) \/ Promote(p) \/ DropStage(p)
    \/ RemoveFile(p)
    \/ TakeLock(p) \/ GiveUpOnLock(p) \/ Unlock(p)

Start(p) ==
    \E a \in Addr, s \in Spelling : StartCreate(p, a, s) \/ StartForget(p, a, s)

Next == \E p \in Proc : Start(p) \/ Step(p) \/ Fails(p) \/ Crash(p)

Spec == Init /\ [][Next]_vars

\* A call that was made runs: the system schedules its process.
FairSpec == Spec /\ \A p \in Proc : WF_vars(Step(p))

-----------------------------------------------------------------------------
(* Properties.                                                             *)

TypeOK ==
    /\ files \in [Addr -> [Spelling -> File \cup {NoFile}]]
    /\ stage \in [Addr -> File \cup {NoFile, NoDir}]
    /\ lock \subseteq Proc
    /\ pc \in [Proc -> Places]
    /\ call \in [Proc -> [addr : Addr, spelling : Spelling]]

\* No account is held both with and without a password, which would make the
\* whole vault unreadable (Vault::accounts), whichever processes create,
\* forget and crash, and whenever.
OneSpelling == \A a \in Addr : \E s \in Spelling : files[a][s] = NoFile

\* "Refused when the account is already held, so a key is never replaced"
\* (Vault::create): the file under a real name stays that file until a forget
\* of the account removes it, no create's being renamed over it, complete or
\* not; and once those that opened it in the stage are done with it, nothing
\* of it changes.
StaysThatFile(a, s) ==
    \/ files'[a][s] = files[a][s]
    \/ /\ files'[a][s] # NoFile
       /\ files'[a][s].inode = files[a][s].inode
       /\ files'[a][s].writers \subseteq files[a][s].writers
       /\ files'[a][s].writers # files[a][s].writers

NeverReplaced ==
    [][\A a \in Addr, s \in Spelling :
        files[a][s] # NoFile =>
            \/ StaysThatFile(a, s)
            \/ \E p \in Proc : RemoveFile(p) /\ call[p] = [addr |-> a, spelling |-> s]]_vars

\* "A crash mid-write would otherwise leave a truncated file under a real
\* name" (Stage), and "an unprotected key cannot be mistaken on sight for a
\* sealed one" (the module's header): a file under a real name is complete,
\* and is what its name says.
FilesAreWhatTheySay ==
    \A a \in Addr, s \in Spelling :
        files[a][s] # NoFile => files[a][s].whole /\ files[a][s].holds = s

\* Every call returns, however the processes contend for the lock.
CallsReturn == \A p \in Proc : pc[p] # "idle" ~> pc[p] = "idle"
=============================================================================
