----------------------------- MODULE VaultProofs ----------------------------
(***************************************************************************)
(* What the vault's lock buys, for any number of processes and accounts:   *)
(* no account is ever held in both spellings, and no key is replaced.      *)
(***************************************************************************)
EXTENDS Vault, TLAPS

\* A step is one process's, and does what one place of its call does.
LEMMA StepCases ==
  ASSUME Next
  PROVE  \E p \in Proc :
            \/ \E a \in Addr, s \in Spelling : StartCreate(p, a, s)
            \/ \E a \in Addr, s \in Spelling : StartForget(p, a, s)
            \/ ClearStage(p) \/ MakeStage(p) \/ OpenStaged(p)
            \/ WriteStaged(p) \/ CheckAbsent(p) \/ Promote(p)
            \/ DropStage(p) \/ RemoveFile(p) \/ TakeLock(p)
            \/ GiveUpOnLock(p) \/ Unlock(p) \/ Fails(p) \/ Crash(p)
  BY DEF Next, Start, Step

\* Nothing is mistaken for a file.
LEMMA NoFileIsNoFile == NoFile \notin File /\ NoDir \notin File /\ NoFile # NoDir
  BY DEF NoFile, NoDir, File, Spelling

\* What becomes of a file while it stays that file: it is the same, or one of
\* those that had opened it is done with it.
Continues(f, g) ==
    g = f \/ (g \in File /\ g.inode = f.inode
              /\ g.writers \subseteq f.writers /\ g.writers # f.writers)

\* An account has always one more file to be had than it has.
LEMMA NewInodeIs ==
  ASSUME TypeOK, NEW a \in Addr
  PROVE  NewInode(a) \in Inode
<1> DEFINE fs == {files[a][s] : s \in Spelling} \cup {stage[a]}
<1>1. fs = {files[a]["open"], files[a]["sealed"], stage[a]}
  BY DEF Spelling
<1>2. \E i \in Inode : \A f \in fs : f.inode # i
  <2> DEFINE x == files[a]["open"].inode
             y == files[a]["sealed"].inode
             z == stage[a].inode
  <2>1. \E i \in Inode : i # x /\ i # y /\ i # z
    <3> HIDE DEF x, y, z
    <3> SUFFICES ASSUME \A i \in Inode : i = x \/ i = y \/ i = z PROVE FALSE
      OBVIOUS
    <3>1. 1 \in Inode /\ 2 \in Inode /\ 3 \in Inode /\ 4 \in Inode
      BY DEF Inode
    <3>2. /\ 1 = x \/ 1 = y \/ 1 = z
          /\ 2 = x \/ 2 = y \/ 2 = z
          /\ 3 = x \/ 3 = y \/ 3 = z
          /\ 4 = x \/ 4 = y \/ 4 = z
      BY <3>1
    <3>3. 1 # 2 /\ 1 # 3 /\ 1 # 4 /\ 2 # 3 /\ 2 # 4 /\ 3 # 4
      OBVIOUS
    <3> QED
      BY <3>2, <3>3
  <2>2. PICK i \in Inode : i # x /\ i # y /\ i # z
    BY <2>1
  <2> QED
    BY <1>1, <2>2
<1>3. \E i \in Inode : \A f \in fs : f \in File => f.inode # i
  BY <1>2
<1> QED
  BY <1>3 DEF NewInode

LEMMA OpenedFile ==
  ASSUME TypeOK, NEW p \in Proc, NEW f
  PROVE  Opened(p, f) \in File
<1>1. call[p].addr \in Addr /\ call[p].spelling \in Spelling
  BY DEF TypeOK
<1>2. NewInode(call[p].addr) \in Inode
  BY <1>1, NewInodeIs
<1>3. CASE f \in File
  BY <1>1, <1>3 DEF Opened, File
<1>4. CASE f \notin File
  BY <1>1, <1>2, <1>4 DEF Opened, File
<1> QED
  BY <1>3, <1>4

\* Neither writing nor abandoning a file makes or removes one, or puts one in
\* another's place.
LEMMA WrittenFile ==
  ASSUME NEW p \in Proc, NEW f \in File \cup {NoFile, NoDir},
         call[p] \in [addr : Addr, spelling : Spelling]
  PROVE  \A g \in Written(p, f) :
            /\ f \notin File => g = f
            /\ f \in File => g \in File /\ Continues(f, g)
<1> SUFFICES ASSUME NEW g \in Written(p, f)
             PROVE  /\ f \notin File => g = f
                    /\ f \in File => g \in File /\ Continues(f, g)
  OBVIOUS
<1>1. CASE f \in File /\ p \in f.writers
  <2>1. PICK w \in BOOLEAN :
          g = [f EXCEPT !.holds = call[p].spelling, !.whole = w, !.writers = @ \ {p}]
    BY <1>1 DEF Written
  <2>2. g \in File /\ g.inode = f.inode /\ g.writers = f.writers \ {p}
    BY <1>1, <2>1 DEF File
  <2>3. g.writers \subseteq f.writers /\ g.writers # f.writers
    BY <1>1, <2>2
  <2> QED
    BY <1>1, <2>2, <2>3 DEF Continues
<1>2. CASE ~(f \in File /\ p \in f.writers)
  BY <1>2 DEF Written, Continues
<1> QED
  BY <1>1, <1>2

LEMMA AbandonedFile ==
  ASSUME NEW p \in Proc, NEW f \in File \cup {NoFile, NoDir}
  PROVE  /\ f \notin File => Abandoned(p, f) = f
         /\ f \in File => Abandoned(p, f) \in File /\ Continues(f, Abandoned(p, f))
<1>1. CASE f \in File
  <2>1. Abandoned(p, f) = [f EXCEPT !.writers = @ \ {p}]
    BY <1>1 DEF Abandoned
  <2>2. /\ Abandoned(p, f) \in File /\ Abandoned(p, f).inode = f.inode
        /\ Abandoned(p, f).writers = f.writers \ {p}
    BY <1>1, <2>1 DEF File
  <2>3. CASE p \in f.writers
    <3>1. /\ Abandoned(p, f).writers \subseteq f.writers
          /\ Abandoned(p, f).writers # f.writers
      BY <2>2, <2>3
    <3> QED
      BY <1>1, <2>2, <3>1 DEF Continues
  <2>4. CASE p \notin f.writers
    <3>1. f.writers \ {p} = f.writers
      BY <2>4
    <3>2. [f EXCEPT !.writers = f.writers] = f
      BY <1>1 DEF File
    <3>3. Abandoned(p, f) = f
      BY <2>1, <3>1, <3>2
    <3> QED
      BY <1>1, <3>3 DEF Continues
  <2> QED
    BY <2>3, <2>4
<1>2. CASE f \notin File
  BY <1>2 DEF Abandoned
<1> QED
  BY <1>1, <1>2

-----------------------------------------------------------------------------

\* The vault's state stays within its types, whatever the processes do.
THEOREM TypeCorrect == Spec => []TypeOK
<1>1. Init => TypeOK
  BY DEF Init, TypeOK, Places
<1>2. TypeOK /\ [Next]_vars => TypeOK'
  <2> SUFFICES ASSUME TypeOK, Next PROVE TypeOK'
    BY DEF TypeOK, vars
  <2> USE DEF TypeOK, At, Goto, Places, Locked
  <2>0. PICK p \in Proc :
            \/ \E a \in Addr, s \in Spelling : StartCreate(p, a, s)
            \/ \E a \in Addr, s \in Spelling : StartForget(p, a, s)
            \/ ClearStage(p) \/ MakeStage(p) \/ OpenStaged(p)
            \/ WriteStaged(p) \/ CheckAbsent(p) \/ Promote(p)
            \/ DropStage(p) \/ RemoveFile(p) \/ TakeLock(p)
            \/ GiveUpOnLock(p) \/ Unlock(p) \/ Fails(p) \/ Crash(p)
    BY StepCases
  <2>a. call[p].addr \in Addr /\ call[p].spelling \in Spelling
    OBVIOUS
  <2>1. CASE \E a \in Addr, s \in Spelling : StartCreate(p, a, s) \/ StartForget(p, a, s)
    <3>1. PICK a \in Addr, s \in Spelling : StartCreate(p, a, s) \/ StartForget(p, a, s)
      BY <2>1
    <3>2. call' = [call EXCEPT ![p] = [addr |-> a, spelling |-> s]]
      BY <3>1 DEF StartCreate, StartForget
    <3>3. call' \in [Proc -> [addr : Addr, spelling : Spelling]]
      BY <3>2
    <3>4. pc' \in [Proc -> Places]
      BY <3>1 DEF StartCreate, StartForget
    <3> QED
      BY <3>1, <3>3, <3>4 DEF StartCreate, StartForget
  <2>2. CASE ClearStage(p) \/ MakeStage(p) \/ DropStage(p)
    <3>1. pc' \in [Proc -> Places]
      BY <2>2 DEF ClearStage, MakeStage, DropStage
    <3>2. stage' \in [Addr -> File \cup {NoFile, NoDir}]
      BY <2>2, <2>a DEF ClearStage, MakeStage, DropStage
    <3> QED
      BY <2>2, <3>1, <3>2 DEF ClearStage, MakeStage, DropStage
  <2>3. CASE OpenStaged(p)
    <3>1. CASE stage[call[p].addr] = NoDir
      BY <3>1, <2>3 DEF OpenStaged
    <3>2. CASE stage[call[p].addr] # NoDir
      <4>1. Opened(p, stage[call[p].addr]) \in File
        BY OpenedFile
      <4>2. stage' = [stage EXCEPT ![call[p].addr] = Opened(p, stage[call[p].addr])]
        BY <2>3, <3>2 DEF OpenStaged
      <4>3. stage' \in [Addr -> File \cup {NoFile, NoDir}]
        BY <4>1, <4>2, <2>a
      <4>4. pc' \in [Proc -> Places]
        BY <2>3, <3>2 DEF OpenStaged
      <4> QED
        BY <4>3, <4>4, <2>3 DEF OpenStaged
    <3> QED
      BY <3>1, <3>2
  <2>4. CASE WriteStaged(p)
    <3>1. stage[call[p].addr] \in File \cup {NoFile, NoDir}
      BY <2>a
    <3>2. \A s \in Spelling : files[call[p].addr][s] \in File \cup {NoFile}
      BY <2>a
    <3>3. ASSUME NEW s \in Spelling, NEW g \in Written(p, files[call[p].addr][s])
          PROVE  g \in File \cup {NoFile}
      <4> DEFINE f == files[call[p].addr][s]
      <4>1. f \in File \cup {NoFile, NoDir} /\ (f \notin File => f = NoFile)
        BY <3>2
      <4>2. /\ f \notin File => g = f
            /\ f \in File => g \in File
        <5> HIDE DEF f
        <5> QED
          BY <3>3, <4>1, WrittenFile DEF f
      <4> QED
        BY <4>1, <4>2
    <3>4. Written(p, stage[call[p].addr]) \subseteq File \cup {NoFile, NoDir}
      BY <3>1, WrittenFile
    <3>5. stage' \in [Addr -> File \cup {NoFile, NoDir}]
      BY <2>4, <3>4, <2>a DEF WriteStaged
    <3>6. files' \in [Addr -> [Spelling -> File \cup {NoFile}]]
      <4>1. PICK o \in Written(p, files[call[p].addr]["open"]),
                 c \in Written(p, files[call[p].addr]["sealed"]) :
              files' = [files EXCEPT ![call[p].addr] =
                          [s \in Spelling |-> IF s = "open" THEN o ELSE c]]
        BY <2>4 DEF WriteStaged
      <4>2. o \in File \cup {NoFile} /\ c \in File \cup {NoFile}
        BY <3>3 DEF Spelling
      <4> QED
        BY <4>1, <4>2, <2>a
    <3>7. pc' \in [Proc -> Places]
      BY <2>4 DEF WriteStaged
    <3> QED
      BY <2>4, <3>5, <3>6, <3>7 DEF WriteStaged
  <2>5. CASE Promote(p)
    <3>1. pc' \in [Proc -> Places]
      BY <2>5 DEF Promote
    <3>2. stage' \in [Addr -> File \cup {NoFile, NoDir}]
      BY <2>5, <2>a DEF Promote
    <3>3. files' \in [Addr -> [Spelling -> File \cup {NoFile}]]
      <4>1. CASE stage[call[p].addr] \in File
        <5>1. files' = [files EXCEPT ![call[p].addr][call[p].spelling] = stage[call[p].addr]]
          BY <2>5, <4>1 DEF Promote
        <5> QED
          BY <4>1, <5>1, <2>a
      <4>2. CASE stage[call[p].addr] \notin File
        BY <2>5, <4>2 DEF Promote
      <4> QED
        BY <4>1, <4>2
    <3> QED
      BY <2>5, <3>1, <3>2, <3>3 DEF Promote
  <2>6. CASE RemoveFile(p)
    BY <2>6, <2>a DEF RemoveFile
  <2>7. CASE CheckAbsent(p) \/ TakeLock(p) \/ GiveUpOnLock(p) \/ Unlock(p)
    BY <2>7 DEF CheckAbsent, TakeLock, GiveUpOnLock, Unlock
  <2>8. CASE Fails(p) \/ Crash(p)
    <3>1. \A a \in Addr : Abandoned(p, stage[a]) \in File \cup {NoFile, NoDir}
      BY AbandonedFile
    <3>2. ASSUME NEW a \in Addr, NEW s \in Spelling
          PROVE  Abandoned(p, files[a][s]) \in File \cup {NoFile}
      <4>1. files[a] \in [Spelling -> File \cup {NoFile}]
        BY DEF TypeOK
      <4>2. files[a][s] \in File \cup {NoFile}
        BY <4>1
      <4> QED
        BY <4>2, AbandonedFile
    <3>3. pc' \in [Proc -> Places] /\ lock' \subseteq Proc /\ call' = call
      BY <2>8 DEF Fails, Crash
    <3>4. AbandonFiles(p)
      BY <2>8 DEF Fails, Crash
    <3> QED
      BY <3>1, <3>2, <3>3, <3>4 DEF AbandonFiles
  <2> QED
    BY <2>0, <2>1, <2>2, <2>3, <2>4, <2>5, <2>6, <2>7, <2>8
<1>3. QED
  BY <1>1, <1>2, PTL DEF Spec

-----------------------------------------------------------------------------

\* Whoever does what takes the lock holds it, and nobody else does.
Exclusive ==
    /\ \A p \in Proc : pc[p] \in Locked => p \in lock
    /\ \A p, q \in lock : p = q

\* What a create found absent stays absent until it is promoted.
StillAbsent ==
    \A p \in Proc : pc[p] = "promote" =>
        \A s \in Spelling : files[call[p].addr][s] = NoFile

\* Only the holder of the lock is inside what the lock is taken for: a create's
\* check and rename, a forget's removal.
THEOREM LockExcludes == Spec => []Exclusive
<1>1. Init => Exclusive
  BY DEF Init, Exclusive, Locked
<1>2. TypeOK /\ Exclusive /\ [Next]_vars => Exclusive'
  <2> SUFFICES ASSUME TypeOK, Exclusive, Next PROVE Exclusive'
    BY DEF Exclusive, vars
  <2> USE DEF TypeOK, Exclusive, At, Goto, Locked, Places
  <2>0. PICK p \in Proc :
            \/ \E a \in Addr, s \in Spelling : StartCreate(p, a, s)
            \/ \E a \in Addr, s \in Spelling : StartForget(p, a, s)
            \/ ClearStage(p) \/ MakeStage(p) \/ OpenStaged(p)
            \/ WriteStaged(p) \/ CheckAbsent(p) \/ Promote(p)
            \/ DropStage(p) \/ RemoveFile(p) \/ TakeLock(p)
            \/ GiveUpOnLock(p) \/ Unlock(p) \/ Fails(p) \/ Crash(p)
    BY StepCases
  <2>1. CASE \E a \in Addr, s \in Spelling : StartCreate(p, a, s) \/ StartForget(p, a, s)
    BY <2>1 DEF StartCreate, StartForget
  <2>2. CASE ClearStage(p) \/ MakeStage(p) \/ OpenStaged(p) \/ WriteStaged(p) \/ DropStage(p)
    <3>1. lock' = lock /\ \E place \in Places \ Locked : pc' = [pc EXCEPT ![p] = place]
      BY <2>2 DEF ClearStage, MakeStage, OpenStaged, WriteStaged, DropStage
    <3> QED
      BY <3>1
  <2>3. CASE CheckAbsent(p) \/ Promote(p) \/ RemoveFile(p)
    <3>1. lock' = lock /\ pc[p] \in Locked
      BY <2>3 DEF CheckAbsent, Promote, RemoveFile
    <3>2. \A q \in Proc \ {p} : pc'[q] = pc[q]
      BY <2>3 DEF CheckAbsent, Promote, RemoveFile
    <3> QED
      BY <3>1, <3>2
  <2>4. CASE TakeLock(p)
    BY <2>4 DEF TakeLock
  <2>5. CASE GiveUpOnLock(p)
    BY <2>5 DEF GiveUpOnLock
  <2>6. CASE Unlock(p)
    BY <2>6 DEF Unlock
  <2>7. CASE Crash(p)
    BY <2>7 DEF Crash
  <2>8. CASE Fails(p)
    <3>1. lock' = lock /\ \A q \in Proc \ {p} : pc'[q] = pc[q]
      BY <2>8 DEF Fails
    <3>2. pc'[p] \in Locked => pc[p] \in Locked
      BY <2>8 DEF Fails, AfterFailure
    <3> QED
      BY <3>1, <3>2
  <2> QED
    BY <2>0, <2>1, <2>2, <2>3, <2>4, <2>5, <2>6, <2>7, <2>8
<1>3. QED
  BY <1>1, <1>2, TypeCorrect, PTL DEF Spec

-----------------------------------------------------------------------------

\* A file appears under a real name only by a promotion, and is then taken away
\* only by a forget; nothing else does more than finish it.
LEMMA FilesChange ==
  ASSUME TypeOK, Exclusive, StillAbsent, Next,
         NEW a \in Addr, NEW s \in Spelling
  PROVE  /\ files[a][s] = NoFile /\ files'[a][s] # NoFile =>
              \E p \in Proc : Promote(p) /\ call[p] = [addr |-> a, spelling |-> s]
         /\ files[a][s] # NoFile =>
              \/ StaysThatFile(a, s)
              \/ \E p \in Proc : RemoveFile(p) /\ call[p] = [addr |-> a, spelling |-> s]
<1> DEFINE Goal ==
         /\ files[a][s] = NoFile /\ files'[a][s] # NoFile =>
              \E p \in Proc : Promote(p) /\ call[p] = [addr |-> a, spelling |-> s]
         /\ files[a][s] # NoFile =>
              \/ StaysThatFile(a, s)
              \/ \E p \in Proc : RemoveFile(p) /\ call[p] = [addr |-> a, spelling |-> s]
<1>0. PICK p \in Proc :
            \/ \E b \in Addr, t \in Spelling : StartCreate(p, b, t)
            \/ \E b \in Addr, t \in Spelling : StartForget(p, b, t)
            \/ ClearStage(p) \/ MakeStage(p) \/ OpenStaged(p)
            \/ WriteStaged(p) \/ CheckAbsent(p) \/ Promote(p)
            \/ DropStage(p) \/ RemoveFile(p) \/ TakeLock(p)
            \/ GiveUpOnLock(p) \/ Unlock(p) \/ Fails(p) \/ Crash(p)
  BY StepCases
<1>a. files \in [Addr -> [Spelling -> File \cup {NoFile}]] /\ p \in Proc
  BY DEF TypeOK
<1>b. files[a][s] \in File \cup {NoFile}
  BY <1>a
<1>c. /\ call[p] \in [addr : Addr, spelling : Spelling]
      /\ call[p] = [addr |-> call[p].addr, spelling |-> call[p].spelling]
      /\ call[p].addr \in Addr /\ call[p].spelling \in Spelling
  BY DEF TypeOK
<1>1. ASSUME files'[a][s] = files[a][s] PROVE Goal
  BY <1>1 DEF StaysThatFile
<1>d. ASSUME files[a][s] \notin File => files'[a][s] = files[a][s],
             files[a][s] \in File =>
                files'[a][s] \in File /\ Continues(files[a][s], files'[a][s])
      PROVE  Goal
  BY <1>d, <1>b, NoFileIsNoFile DEF Continues, StaysThatFile
<1>2. CASE WriteStaged(p)
  <2>1. CASE call[p].addr = a
    <3>1. files'[a][s] \in Written(p, files[a][s])
      <4>1. PICK o \in Written(p, files[a]["open"]),
                 c \in Written(p, files[a]["sealed"]) :
              files' = [files EXCEPT ![a] =
                          [t \in Spelling |-> IF t = "open" THEN o ELSE c]]
        BY <1>2, <2>1 DEF WriteStaged
      <4>2. files'[a][s] = IF s = "open" THEN o ELSE c
        BY <4>1, <1>a
      <4> QED
        BY <4>2 DEF Spelling
    <3>2. /\ files[a][s] \notin File => files'[a][s] = files[a][s]
          /\ files[a][s] \in File =>
                files'[a][s] \in File /\ Continues(files[a][s], files'[a][s])
      BY <3>1, <1>b, <1>c, WrittenFile
    <3> QED
      BY <3>2, <1>d
  <2>2. CASE call[p].addr # a
    <3>1. files'[a] = files[a]
      BY <1>2, <2>2, <1>a, <1>c DEF WriteStaged
    <3> QED
      BY <3>1, <1>1
  <2> QED
    BY <2>1, <2>2
<1>3. CASE Promote(p)
  <2>1. \A t \in Spelling : files[call[p].addr][t] = NoFile
    BY <1>3 DEF Promote, StillAbsent, At
  <2>2. CASE call[p] = [addr |-> a, spelling |-> s]
    BY <1>3, <2>1, <2>2
  <2>3. CASE call[p] # [addr |-> a, spelling |-> s]
    <3>1. ~(call[p].addr = a /\ call[p].spelling = s)
      BY <2>3, <1>c
    <3>2. files'[a][s] = files[a][s]
      <4>1. CASE stage[call[p].addr] \in File
        <5>1. files' = [files EXCEPT ![call[p].addr][call[p].spelling] = stage[call[p].addr]]
          BY <1>3, <4>1 DEF Promote
        <5> QED
          BY <5>1, <3>1, <1>a, <1>c
      <4>2. CASE stage[call[p].addr] \notin File
        BY <1>3, <4>2 DEF Promote
      <4> QED
        BY <4>1, <4>2
    <3> QED
      BY <3>2, <1>1
  <2> QED
    BY <2>2, <2>3
<1>4. CASE RemoveFile(p)
  <2>1. CASE call[p] = [addr |-> a, spelling |-> s]
    <3>1. files[a][s] # NoFile => RemoveFile(p) /\ call[p] = [addr |-> a, spelling |-> s]
      BY <1>4, <2>1
    <3>2. call[p].addr = a /\ call[p].spelling = s
      BY <2>1
    <3>3. files'[a][s] = NoFile
      BY <1>4, <3>2, <1>a DEF RemoveFile
    <3> QED
      BY <3>1, <3>3
  <2>2. CASE call[p] # [addr |-> a, spelling |-> s]
    <3>1. ~(call[p].addr = a /\ call[p].spelling = s)
      BY <2>2, <1>c
    <3>2. files'[a][s] = files[a][s]
      BY <1>4, <3>1, <1>a, <1>c DEF RemoveFile
    <3> QED
      BY <3>2, <1>1
  <2> QED
    BY <2>1, <2>2
<1>5. CASE Fails(p) \/ Crash(p)
  <2>1. files'[a][s] = Abandoned(p, files[a][s])
    BY <1>5 DEF Fails, Crash, AbandonFiles
  <2>2. /\ files[a][s] \notin File => files'[a][s] = files[a][s]
        /\ files[a][s] \in File =>
              files'[a][s] \in File /\ Continues(files[a][s], files'[a][s])
    BY <2>1, <1>b, AbandonedFile
  <2> QED
    BY <2>2, <1>d
<1>6. CASE \/ \E b \in Addr, t \in Spelling : StartCreate(p, b, t)
           \/ \E b \in Addr, t \in Spelling : StartForget(p, b, t)
           \/ ClearStage(p) \/ MakeStage(p) \/ OpenStaged(p) \/ CheckAbsent(p)
           \/ DropStage(p) \/ TakeLock(p) \/ GiveUpOnLock(p) \/ Unlock(p)
  <2>1. files' = files
    BY <1>6 DEF StartCreate, StartForget, ClearStage, MakeStage, OpenStaged,
                CheckAbsent, DropStage, TakeLock, GiveUpOnLock, Unlock
  <2> QED
    BY <2>1, <1>1
<1> QED
  BY <1>0, <1>2, <1>3, <1>4, <1>5, <1>6

\* What OneSpelling needs to be inductive: a create that has seen its account
\* absent, under the lock, will still find it so when it promotes.
FilesInv == StillAbsent /\ OneSpelling

\* The files keep one spelling per account, and a create that checked is right.
THEOREM FilesKept == Spec => []FilesInv
<1>1. Init => FilesInv
  BY DEF Init, FilesInv, StillAbsent, OneSpelling, Spelling
<1>2. TypeOK /\ Exclusive /\ FilesInv /\ [Next]_vars => FilesInv'
  <2>1. CASE UNCHANGED vars
    BY <2>1 DEF vars, FilesInv, StillAbsent, OneSpelling
  <2> SUFFICES ASSUME TypeOK, Exclusive, StillAbsent, OneSpelling, Next PROVE FilesInv'
    BY <2>1 DEF FilesInv
  <2>2. OneSpelling'
    <3> SUFFICES ASSUME NEW a \in Addr PROVE \E s \in Spelling : files'[a][s] = NoFile
      BY DEF OneSpelling
    <3>1. PICK s \in Spelling : files[a][s] = NoFile
      BY DEF OneSpelling
    <3>2. CASE files'[a][s] # NoFile
      <4>1. PICK p \in Proc : Promote(p) /\ call[p] = [addr |-> a, spelling |-> s]
        BY <3>1, <3>2, FilesChange
      <4>2. PICK t \in Spelling : t # s
        BY DEF Spelling
      <4>3. files[a][t] = NoFile
        <5>1. call[p].addr = a
          BY <4>1
        <5>2. pc[p] = "promote"
          BY <4>1 DEF Promote, At
        <5> QED
          BY <5>1, <5>2 DEF StillAbsent
      <4>4. CASE files'[a][t] # NoFile
        <5>1. PICK q \in Proc : Promote(q) /\ call[q] = [addr |-> a, spelling |-> t]
          BY <4>3, <4>4, FilesChange
        <5>2. p = q
          BY <4>1, <5>1 DEF Promote, At, Exclusive, Locked
        <5> QED
          BY <4>1, <5>1, <5>2, <4>2
      <4> QED
        BY <4>4
    <3> QED
      BY <3>2
  <2>3. StillAbsent'
    <3> SUFFICES ASSUME NEW p \in Proc, pc'[p] = "promote", NEW s \in Spelling
                 PROVE  files'[call'[p].addr][s] = NoFile
      BY DEF StillAbsent
    <3>1. call'[p] = call[p] /\ (pc[p] = "promote" \/ CheckAbsent(p))
      <4>1. PICK q \in Proc :
            \/ \E b \in Addr, t \in Spelling : StartCreate(q, b, t)
            \/ \E b \in Addr, t \in Spelling : StartForget(q, b, t)
            \/ ClearStage(q) \/ MakeStage(q) \/ OpenStaged(q)
            \/ WriteStaged(q) \/ CheckAbsent(q) \/ Promote(q)
            \/ DropStage(q) \/ RemoveFile(q) \/ TakeLock(q)
            \/ GiveUpOnLock(q) \/ Unlock(q) \/ Fails(q) \/ Crash(q)
        BY StepCases
      <4> USE DEF TypeOK, At, Goto
      <4>2. CASE \/ \E b \in Addr, t \in Spelling : StartCreate(q, b, t)
                 \/ \E b \in Addr, t \in Spelling : StartForget(q, b, t)
        BY <4>2 DEF StartCreate, StartForget
      <4>3. CASE \/ ClearStage(q) \/ MakeStage(q) \/ OpenStaged(q) \/ WriteStaged(q)
                 \/ DropStage(q)
        BY <4>3 DEF ClearStage, MakeStage, OpenStaged, WriteStaged, DropStage
      <4>4. CASE CheckAbsent(q)
        BY <4>4 DEF CheckAbsent
      <4>5. CASE Promote(q) \/ RemoveFile(q)
        BY <4>5 DEF Promote, RemoveFile
      <4>6. CASE TakeLock(q) \/ GiveUpOnLock(q) \/ Unlock(q) \/ Fails(q) \/ Crash(q)
        BY <4>6 DEF TakeLock, GiveUpOnLock, Unlock, Fails, AfterFailure, Crash
      <4> QED
        BY <4>1, <4>2, <4>3, <4>4, <4>5, <4>6
    <3>2. CASE CheckAbsent(p)
      BY <3>1, <3>2 DEF CheckAbsent, Refused, Held, Goto, TypeOK
    <3>3. CASE pc[p] = "promote"
      <4>1. files[call[p].addr][s] = NoFile
        BY <3>3 DEF StillAbsent
      <4>2. CASE files'[call[p].addr][s] # NoFile
        <5>1. PICK q \in Proc : Promote(q)
          BY <4>1, <4>2, FilesChange DEF TypeOK
        <5>2. p = q
          BY <3>3, <5>1 DEF Promote, At, Exclusive, Locked
        <5>3. pc'[p] = "unlock create"
          BY <5>1, <5>2 DEF Promote, Goto, TypeOK
        <5> QED
          BY <5>3
      <4> QED
        BY <4>2, <3>1
    <3> QED
      BY <3>1, <3>2, <3>3
  <2> QED
    BY <2>2, <2>3 DEF FilesInv
<1>3. QED
  BY <1>1, <1>2, TypeCorrect, LockExcludes, PTL DEF Spec

\* No account is ever held both with and without a password.
THEOREM HeldInOneSpelling == Spec => []OneSpelling
<1>1. FilesInv => OneSpelling
  BY DEF FilesInv
<1>2. QED
  BY <1>1, FilesKept, PTL

\* The file under a real name stays that file until a forget of its account:
\* no create's is ever renamed over it, and nothing changes a finished one.
THEOREM KeyNeverReplaced == Spec => NeverReplaced
<1>1. TypeOK /\ Exclusive /\ FilesInv /\ [Next]_vars =>
        [\A a \in Addr, s \in Spelling :
            files[a][s] # NoFile =>
              \/ StaysThatFile(a, s)
              \/ \E p \in Proc : RemoveFile(p) /\ call[p] = [addr |-> a, spelling |-> s]]_vars
  BY FilesChange DEF FilesInv
<1>2. QED
  BY <1>1, TypeCorrect, LockExcludes, FilesKept, PTL DEF Spec, NeverReplaced
=============================================================================
