----------------------------- MODULE DiskProofs -----------------------------
(***************************************************************************)
(* What one instance of the app finds in its directory, for any accounts,  *)
(* passwords and scrypt parameters and wherever it crashes: whole files    *)
(* under the names of what they hold, a whole list, every account it did   *)
(* not let go of, and of an open file the account's own key or nothing.    *)
(***************************************************************************)
EXTENDS Disk, TLAPS

Place == vaultPc[Self]
Its   == vaultCall[Self]

CreatePlaces == {"clear", "mkdir", "write", "writing", "lock create", "check", "promote",
                 "unlock create", "unstage"}
ForgetPlaces == {"lock forget", "remove", "unlock forget"}
Ops == {"create", "import", "forget", "observe", "stop"}

Typed ==
    /\ V!TypeOK
    /\ list \in O!File \cup {O!NoFile}
    /\ staged \in O!File \cup {O!NoFile}
    /\ listPc \in [{Self} -> {"idle", "open", "write", "rename"}]
    /\ next \in [{Self} -> SUBSET Addr]
    /\ doing \in {Nothing} \cup [op : Ops, addr : Addr, taken : BOOLEAN]

\* Nobody writes to a file under a real name, and what is about to be renamed
\* there is whole.
VaultWhole ==
    /\ \A a \in Addr, s \in V!Spelling : files[a][s] # V!NoFile =>
            files[a][s].whole /\ files[a][s].holds = s /\ files[a][s].writers = {}
    /\ \A a \in Addr : stage[a] \in V!File /\ ~(Place = "writing" /\ a = Its.addr) =>
            stage[a].writers = {}
    /\ Place = "writing" =>
            /\ stage[Its.addr] \in V!File
            /\ stage[Its.addr].holds = Its.spelling /\ stage[Its.addr].writers = {Self}
            /\ ~stage[Its.addr].mixed
    /\ Place \in {"lock create", "check", "promote"} =>
            /\ stage[Its.addr] \in V!File
            /\ stage[Its.addr].holds = Its.spelling /\ stage[Its.addr].whole

ListWhole ==
    /\ list.whole /\ (list # O!NoFile => list.writers = {})
    /\ staged # O!NoFile =>
            staged.writers = IF listPc[Self] = "write" THEN {Self} ELSE {}
    /\ listPc[Self] = "write" => staged # O!NoFile /\ ~staged.mixed
    /\ listPc[Self] = "rename" =>
            staged # O!NoFile /\ staged.whole /\ staged.addresses = next[Self]

\* Which call the steps under way are of, and whom it can take away.
CallUnderWay ==
    /\ Place # "idle" => listPc[Self] = "idle"
    /\ Place \in CreatePlaces => doing.op \in {"create", "import"} /\ doing.addr = Its.addr
    /\ Place \in ForgetPlaces => doing.op = "forget" /\ doing.addr = Its.addr
    /\ doing.op = "import" /\ doing.taken => V!Held(doing.addr)
    /\ listPc[Self] # "idle" =>
            \/ doing.op = "observe" /\ list.addresses \subseteq next[Self]
            \/ /\ doing.op = "stop" \/ (doing.op = "import" /\ doing.taken)
               /\ list.addresses \ {doing.addr} \subseteq next[Self]

IInv == Typed /\ VaultWhole /\ ListWhole /\ CallUnderWay

-----------------------------------------------------------------------------

\* A directory without a file, or without the stage, is not a file.
LEMMA NotFiles ==
    /\ V!NoFile \notin V!File /\ V!NoDir \notin V!File /\ V!NoFile # V!NoDir
    /\ O!NoFile \notin O!File
<1>1. V!NoFile \notin V!File /\ V!NoDir \notin V!File /\ V!NoFile # V!NoDir
  BY DEF V!NoFile, V!NoDir, V!File, V!Spelling
<1>2. O!NoFile \notin O!File
  BY DEF O!NoFile, O!File
<1> QED
  BY <1>1, <1>2

\* An account has always one more file to be had than it has.
LEMMA NewInodeIs ==
  ASSUME NEW a \in Addr
  PROVE  V!NewInode(a) \in V!Inode
<1> DEFINE fs == {files[a][s] : s \in V!Spelling} \cup {stage[a]}
<1>1. fs = {files[a]["open"], files[a]["sealed"], stage[a]}
  BY DEF V!Spelling
<1>2. \E i \in V!Inode : \A f \in fs : f.inode # i
  <2> DEFINE x == files[a]["open"].inode
             y == files[a]["sealed"].inode
             z == stage[a].inode
  <2>1. \E i \in V!Inode : i # x /\ i # y /\ i # z
    <3> HIDE DEF x, y, z
    <3> SUFFICES ASSUME \A i \in V!Inode : i = x \/ i = y \/ i = z PROVE FALSE
      OBVIOUS
    <3>1. 1 \in V!Inode /\ 2 \in V!Inode /\ 3 \in V!Inode /\ 4 \in V!Inode
      BY DEF V!Inode
    <3>2. /\ 1 = x \/ 1 = y \/ 1 = z
          /\ 2 = x \/ 2 = y \/ 2 = z
          /\ 3 = x \/ 3 = y \/ 3 = z
          /\ 4 = x \/ 4 = y \/ 4 = z
      BY <3>1
    <3>3. 1 # 2 /\ 1 # 3 /\ 1 # 4 /\ 2 # 3 /\ 2 # 4 /\ 3 # 4
      OBVIOUS
    <3> QED
      BY <3>2, <3>3
  <2>2. PICK i \in V!Inode : i # x /\ i # y /\ i # z
    BY <2>1
  <2> QED
    BY <1>1, <2>2
<1>3. \E i \in V!Inode : \A f \in fs : f \in V!File => f.inode # i
  BY <1>2
<1> QED
  BY <1>3 DEF V!NewInode

\* A file the only process opens has no other writer.
LEMMA OpenedFile ==
  ASSUME Its \in [addr : Addr, spelling : V!Spelling],
         NEW f, f \in V!File => f.writers = {}
  PROVE  /\ V!Opened(Self, f) \in V!File
         /\ V!Opened(Self, f).holds = Its.spelling
         /\ V!Opened(Self, f).writers = {Self}
         /\ ~V!Opened(Self, f).mixed
<1>1. V!NewInode(Its.addr) \in V!Inode
  BY NewInodeIs
<1>2. CASE f \in V!File
  BY <1>2 DEF V!Opened, V!File, Its
<1>3. CASE f \notin V!File
  BY <1>1, <1>3 DEF V!Opened, V!File, Its
<1> QED
  BY <1>2, <1>3

\* The vault stays whole while no file of it changes and the call under way
\* neither ends a write nor comes to where a stage is needed.
LEMMA VaultUntouched ==
  ASSUME VaultWhole, UNCHANGED <<files, stage>>,
         \/ Place' = Place /\ Its' = Its
         \/ Place # "writing" /\ Place' \notin {"writing", "lock create", "check", "promote"}
  PROVE  VaultWhole'
<1> USE DEF V!NoFile, V!File, V!Spelling
<1>1. CASE Place' = Place /\ Its' = Its
  BY <1>1 DEF VaultWhole
<1>2. CASE Place # "writing" /\ Place' \notin {"writing", "lock create", "check", "promote"}
  <2>1. \A a \in Addr, s \in V!Spelling : files'[a][s] # V!NoFile =>
            files'[a][s].whole /\ files'[a][s].holds = s /\ files'[a][s].writers = {}
    BY DEF VaultWhole
  <2>2. \A a \in Addr : stage'[a] \in V!File => stage'[a].writers = {}
    BY <1>2 DEF VaultWhole
  <2> QED
    BY <1>2, <2>1, <2>2 DEF VaultWhole
<1> QED
  BY <1>1, <1>2

LEMMA InitInv == Init => IInv
<1> SUFFICES ASSUME Init PROVE IInv
  OBVIOUS
<1> USE DEF Init, V!Init, O!Init
<1>1. Place = "idle" /\ listPc[Self] = "idle"
  BY DEF Place
<1>2. Typed
  <2>1. V!TypeOK
    BY DEF V!TypeOK, V!Places
  <2> QED
    BY <2>1 DEF Typed
<1>3. VaultWhole
  BY <1>1, NotFiles DEF VaultWhole
<1>4. ListWhole
  BY <1>1 DEF ListWhole, O!NoFile
<1>5. CallUnderWay
  BY <1>1 DEF CallUnderWay, Nothing, CreatePlaces, ForgetPlaces
<1> QED
  BY <1>2, <1>3, <1>4, <1>5 DEF IInv

-----------------------------------------------------------------------------
(* The calls begin.                                                        *)

LEMMA BeginningKeeps ==
  ASSUME IInv, NEW a \in Addr, NEW s \in V!Spelling,
         \/ CreateAccount(a, s) \/ ImportAccount(a, s)
         \/ ForgetAccount(a) \/ Observe(a) \/ StopObserving(a)
  PROVE  IInv'
<1>a. Typed /\ VaultWhole /\ ListWhole /\ CallUnderWay
  BY DEF IInv
<1>0. Idle /\ listPc[Self] \in {"idle", "open", "write", "rename"}
  BY <1>a DEF CreateAccount, ImportAccount, ForgetAccount, Observe, StopObserving, Begins, Typed
<1>1. CASE \E t \in V!Spelling : CreateAccount(a, t) \/ ImportAccount(a, t)
  <2>1. PICK t \in V!Spelling, op \in {"create", "import"} :
            Begins(op, a) /\ V!StartCreate(Self, a, t) /\ UNCHANGED listVars
    BY <1>1 DEF CreateAccount, ImportAccount
  <2>2. /\ vaultCall' = [vaultCall EXCEPT ![Self] = [addr |-> a, spelling |-> t]]
        /\ vaultPc' = [vaultPc EXCEPT ![Self] = "clear"] /\ vaultPc[Self] = "idle"
        /\ UNCHANGED <<files, stage, lock, list, staged, listPc, next>>
        /\ doing = Nothing /\ doing' = [op |-> op, addr |-> a, taken |-> FALSE]
    BY <2>1 DEF V!StartCreate, V!At, V!Goto, listVars, Begins, Idle
  <2>3. /\ Place = "idle" /\ Place' = "clear" /\ Its' = [addr |-> a, spelling |-> t]
        /\ vaultPc' \in [{Self} -> V!Places]
        /\ vaultCall' \in [{Self} -> [addr : Addr, spelling : V!Spelling]]
    BY <1>a, <2>2 DEF Typed, V!TypeOK, V!Places, Place, Its
  <2>4. Typed'
    <3>1. V!TypeOK'
      BY <1>a, <2>2, <2>3 DEF Typed, V!TypeOK
    <3> QED
      BY <1>a, <2>2, <3>1 DEF Typed, Ops
  <2>5. VaultWhole'
    BY <1>a, <2>2, <2>3, VaultUntouched
  <2>6. ListWhole'
    BY <1>a, <2>2 DEF ListWhole
  <2>7. listPc[Self] = "idle"
    BY <1>a, <2>2 DEF CallUnderWay, Nothing
  <2>8. CallUnderWay'
    BY <1>a, <2>2, <2>3, <2>7 DEF CallUnderWay, CreatePlaces, ForgetPlaces
  <2> QED
    BY <2>4, <2>5, <2>6, <2>8 DEF IInv
<1>2. CASE ForgetAccount(a)
  <2>1. PICK t \in V!Spelling :
            Begins("forget", a) /\ V!StartForget(Self, a, t) /\ UNCHANGED listVars
    BY <1>2 DEF ForgetAccount
  <2>2. /\ vaultCall' = [vaultCall EXCEPT ![Self] = [addr |-> a, spelling |-> t]]
        /\ vaultPc' = [vaultPc EXCEPT ![Self] = "lock forget"] /\ vaultPc[Self] = "idle"
        /\ UNCHANGED <<files, stage, lock, list, staged, listPc, next>>
        /\ doing = Nothing /\ doing' = [op |-> "forget", addr |-> a, taken |-> FALSE]
    BY <2>1 DEF V!StartForget, V!At, V!Goto, listVars, Begins, Idle
  <2>3. /\ Place = "idle" /\ Place' = "lock forget" /\ Its' = [addr |-> a, spelling |-> t]
        /\ vaultPc' \in [{Self} -> V!Places]
        /\ vaultCall' \in [{Self} -> [addr : Addr, spelling : V!Spelling]]
    BY <1>a, <2>2 DEF Typed, V!TypeOK, V!Places, Place, Its
  <2>4. Typed'
    <3>1. V!TypeOK'
      BY <1>a, <2>2, <2>3 DEF Typed, V!TypeOK
    <3> QED
      BY <1>a, <2>2, <3>1 DEF Typed, Ops
  <2>5. VaultWhole'
    BY <1>a, <2>2, <2>3, VaultUntouched
  <2>6. ListWhole'
    BY <1>a, <2>2 DEF ListWhole
  <2>7. listPc[Self] = "idle"
    BY <1>a, <2>2 DEF CallUnderWay, Nothing
  <2>8. CallUnderWay'
    BY <1>a, <2>2, <2>3, <2>7 DEF CallUnderWay, CreatePlaces, ForgetPlaces
  <2> QED
    BY <2>4, <2>5, <2>6, <2>8 DEF IInv
<1>3. CASE Observe(a) \/ StopObserving(a)
  <2>1. PICK op \in {"observe", "stop"}, changed \in SUBSET Addr :
            /\ Begins(op, a) /\ O!Start(Self, changed) /\ UNCHANGED vaultVars
            /\ op = "observe" => list.addresses \subseteq changed
            /\ op = "stop" => list.addresses \ {a} \subseteq changed
    <3>1. list.addresses \in SUBSET Addr
      BY <1>a DEF Typed, O!File, O!NoFile
    <3>2. list.addresses \cup {a} \in SUBSET Addr /\ list.addresses \ {a} \in SUBSET Addr
      BY <3>1
    <3>3. CASE Observe(a)
      BY <3>2, <3>3 DEF Observe, O!Add
    <3>4. CASE StopObserving(a)
      BY <3>2, <3>4 DEF StopObserving, O!Remove
    <3> QED
      BY <1>3, <3>3, <3>4
  <2>2. /\ next' = [next EXCEPT ![Self] = changed]
        /\ listPc' = [listPc EXCEPT ![Self] = "open"] /\ listPc[Self] = "idle"
        /\ UNCHANGED <<list, staged, files, stage, lock, vaultPc, vaultCall>>
        /\ doing = Nothing /\ doing' = [op |-> op, addr |-> a, taken |-> FALSE]
    BY <2>1 DEF O!Start, O!At, O!Goto, vaultVars, Begins, Idle
  <2>3. /\ next' \in [{Self} -> SUBSET Addr] /\ next'[Self] = changed
        /\ listPc' \in [{Self} -> {"idle", "open", "write", "rename"}]
        /\ listPc'[Self] = "open" /\ Place' = Place /\ Its' = Its
    BY <1>a, <2>2 DEF Typed, Place, Its
  <2>4. Place = "idle"
    BY <1>a, <2>2 DEF CallUnderWay, CreatePlaces, ForgetPlaces, Nothing, Typed, V!TypeOK, V!Places,
                V!Locked, Place
  <2>5. Typed'
    <3>1. V!TypeOK'
      BY <1>a, <2>2 DEF Typed, V!TypeOK
    <3> QED
      BY <1>a, <2>2, <2>3, <3>1 DEF Typed, Ops
  <2>6. VaultWhole'
    BY <1>a, <2>2, <2>3, VaultUntouched
  <2>7. ListWhole'
    BY <1>a, <2>2, <2>3 DEF ListWhole
  <2>8. CallUnderWay'
    BY <1>a, <2>1, <2>2, <2>3, <2>4 DEF CallUnderWay, CreatePlaces, ForgetPlaces
  <2> QED
    BY <2>5, <2>6, <2>7, <2>8 DEF IInv
<1> QED
  BY <1>1, <1>2, <1>3

-----------------------------------------------------------------------------
(* A step of the vault's: what it does to the files and to the stage.      *)

\* Removes name the only step that takes a file away; the others make one at
\* most, and one whose name says what it holds.
LEMMA VaultStepFiles ==
  ASSUME IInv, V!Step(Self), Place \in V!Places
  PROVE  /\ V!TypeOK'
         /\ VaultWhole'
         /\ Place # "idle"
         /\ vaultCall' = vaultCall
         /\ Place \in CreatePlaces => Place' \in CreatePlaces \cup {"idle"}
         /\ Place \in ForgetPlaces => Place' \in ForgetPlaces \cup {"idle"}
         /\ \A b \in Addr : V!Held(b) /\ Place # "remove" => V!Held(b)'
         /\ \A b \in Addr : V!Held(b) /\ b # Its.addr => V!Held(b)'
         /\ \A b \in Addr : Place = "promote" /\ b = Its.addr => V!Held(b)'
<1>a. Typed /\ VaultWhole
  BY DEF IInv
<1>b. /\ files \in [Addr -> [V!Spelling -> V!File \cup {V!NoFile}]]
      /\ stage \in [Addr -> V!File \cup {V!NoFile, V!NoDir}]
      /\ lock \subseteq {Self}
      /\ vaultPc \in [{Self} -> V!Places]
      /\ vaultCall \in [{Self} -> [addr : Addr, spelling : V!Spelling]]
  BY <1>a DEF Typed, V!TypeOK
<1>c. Its.addr \in Addr /\ Its.spelling \in V!Spelling
  BY <1>b DEF Its
<1>1. CASE V!ClearStage(Self) \/ V!MakeStage(Self) \/ V!DropStage(Self)
  <2>1. /\ UNCHANGED <<files, lock, vaultCall>>
        /\ Place \in {"clear", "mkdir", "unstage"}
        /\ vaultPc' \in [{Self} -> V!Places] /\ Place' \in {"mkdir", "write", "idle"}
    BY <1>1, <1>b DEF V!ClearStage, V!MakeStage, V!DropStage, V!At, V!Goto, Place, V!Places
  <2>2. \/ stage' = [stage EXCEPT ![Its.addr] = V!NoDir]
        \/ stage' = [stage EXCEPT ![Its.addr] = V!NoFile]
        \/ stage' = stage
    BY <1>1 DEF V!ClearStage, V!MakeStage, V!DropStage, Its
  <2>3. stage' \in [Addr -> V!File \cup {V!NoFile, V!NoDir}]
    BY <2>2, <1>b
  <2>4. V!TypeOK'
    BY <1>b, <2>1, <2>3 DEF V!TypeOK
  <2>5. \A b \in Addr : stage'[b] \in V!File => stage'[b] = stage[b]
    BY <1>b, <1>c, <2>2, NotFiles
  <2>6. \A b \in Addr : stage'[b] \in V!File => stage'[b].writers = {}
    BY <1>a, <2>1, <2>5 DEF VaultWhole
  <2>7. \A b \in Addr, s \in V!Spelling : files'[b][s] # V!NoFile =>
            files'[b][s].whole /\ files'[b][s].holds = s /\ files'[b][s].writers = {}
    BY <1>a, <2>1 DEF VaultWhole
  <2>8. VaultWhole'
    BY <2>1, <2>6, <2>7 DEF VaultWhole, V!File, V!NoFile, V!Spelling
  <2>9. \A b \in Addr : V!Held(b)' = V!Held(b)
    BY <2>1 DEF V!Held, V!Spelling, V!NoFile
  <2> QED
    BY <2>1, <2>4, <2>8, <2>9 DEF CreatePlaces, ForgetPlaces
<1>2. CASE V!OpenStaged(Self)
  <2>1. /\ UNCHANGED <<files, lock, vaultCall>> /\ Place = "write"
        /\ vaultPc' \in [{Self} -> V!Places]
    BY <1>2, <1>b DEF V!OpenStaged, V!At, V!Goto, Place, V!Places, V!Locked
  <2>2. \A b \in Addr : V!Held(b)' = V!Held(b)
    BY <2>1 DEF V!Held, V!Spelling, V!NoFile
  <2>3. CASE stage[Its.addr] = V!NoDir
    <3>1. Place' = "unstage" /\ stage' = stage
      BY <1>2, <1>b, <2>3 DEF V!OpenStaged, V!Goto, Place, Its
    <3>2. VaultWhole'
      BY <1>a, <2>1, <3>1, VaultUntouched
    <3>3. V!TypeOK'
      BY <1>b, <2>1, <3>1 DEF V!TypeOK
    <3> QED
      BY <2>1, <2>2, <3>1, <3>2, <3>3 DEF CreatePlaces, ForgetPlaces
  <2>4. CASE stage[Its.addr] # V!NoDir
    <3> DEFINE f == V!Opened(Self, stage[Its.addr])
    <3>1. stage[Its.addr] \in V!File => stage[Its.addr].writers = {}
      BY <1>a, <1>c, <2>1 DEF VaultWhole
    <3>2. Place' = "writing" /\ stage' = [stage EXCEPT ![Its.addr] = f]
      BY <1>2, <1>b, <2>4 DEF V!OpenStaged, V!Goto, Place, Its
    <3>3. f \in V!File /\ f.holds = Its.spelling /\ f.writers = {Self} /\ ~f.mixed
      BY <1>b, <3>1, OpenedFile DEF Its
    <3> HIDE DEF f
    <3>4. stage' \in [Addr -> V!File \cup {V!NoFile, V!NoDir}]
      BY <1>b, <3>2, <3>3
    <3>5. V!TypeOK'
      BY <1>b, <2>1, <3>4 DEF V!TypeOK
    <3>6. Its' = Its /\ stage'[Its.addr] = f
      BY <1>b, <1>c, <2>1, <3>2 DEF Its
    <3>7. \A b \in Addr : stage'[b] \in V!File /\ b # Its.addr => stage'[b].writers = {}
      BY <1>a, <1>b, <2>1, <3>2 DEF VaultWhole
    <3>8. \A b \in Addr, s \in V!Spelling : files'[b][s] # V!NoFile =>
              files'[b][s].whole /\ files'[b][s].holds = s /\ files'[b][s].writers = {}
      BY <1>a, <2>1 DEF VaultWhole
    <3>9. VaultWhole'
      BY <3>2, <3>3, <3>6, <3>7, <3>8 DEF VaultWhole, V!File, V!NoFile, V!Spelling
    <3> QED
      BY <2>1, <2>2, <3>2, <3>5, <3>9 DEF CreatePlaces, ForgetPlaces
  <2> QED
    BY <2>3, <2>4
<1>3. CASE V!WriteStaged(Self)
  <2>1. /\ UNCHANGED <<lock, vaultCall>> /\ Place = "writing" /\ Place' = "lock create"
        /\ vaultPc' \in [{Self} -> V!Places]
    BY <1>3, <1>b DEF V!WriteStaged, V!At, V!Goto, Place, V!Places
  <2>2. /\ stage[Its.addr] \in V!File /\ stage[Its.addr].writers = {Self}
        /\ ~stage[Its.addr].mixed
    BY <1>a, <2>1 DEF VaultWhole
  <2> DEFINE f == [stage[Its.addr] EXCEPT !.holds = Its.spelling, !.whole = TRUE,
                                          !.writers = @ \ {Self}]
  <2>3. \A g \in V!Written(Self, stage[Its.addr]) : g = f
    BY <2>2 DEF V!Written, Its
  <2>4. \A s \in V!Spelling : \A g \in V!Written(Self, files[Its.addr][s]) :
            g = files[Its.addr][s]
    <3>1. \A s \in V!Spelling : files[Its.addr][s] \in V!File => files[Its.addr][s].writers = {}
      BY <1>a, <1>c, NotFiles DEF VaultWhole
    <3> QED
      BY <3>1 DEF V!Written
  <2>5. stage' = [stage EXCEPT ![Its.addr] = f]
    BY <1>3, <2>3 DEF V!WriteStaged, Its
  <2>6. files' = files
    <3>1. PICK o \in V!Written(Self, files[Its.addr]["open"]),
               c \in V!Written(Self, files[Its.addr]["sealed"]) :
            files' = [files EXCEPT ![Its.addr] =
                        [s \in V!Spelling |-> IF s = "open" THEN o ELSE c]]
      BY <1>3 DEF V!WriteStaged, Its
    <3>2. o = files[Its.addr]["open"] /\ c = files[Its.addr]["sealed"]
      BY <2>4 DEF V!Spelling
    <3>3. [s \in V!Spelling |-> IF s = "open" THEN o ELSE c] = files[Its.addr]
      BY <1>b, <1>c, <3>2 DEF V!Spelling
    <3> QED
      BY <1>b, <1>c, <3>1, <3>3
  <2>7. f \in V!File /\ f.holds = Its.spelling /\ f.whole /\ f.writers = {}
    BY <1>c, <2>2 DEF V!File
  <2> HIDE DEF f
  <2>8. stage' \in [Addr -> V!File \cup {V!NoFile, V!NoDir}]
    BY <1>b, <2>5, <2>7
  <2>9. V!TypeOK'
    BY <1>b, <2>1, <2>6, <2>8 DEF V!TypeOK
  <2>10. Its' = Its /\ stage'[Its.addr] = f
    BY <1>b, <1>c, <2>1, <2>5 DEF Its
  <2>11. \A b \in Addr : stage'[b] \in V!File => stage'[b].writers = {}
    BY <1>a, <1>b, <2>5, <2>7, <2>10 DEF VaultWhole
  <2>12. \A b \in Addr, s \in V!Spelling : files'[b][s] # V!NoFile =>
            files'[b][s].whole /\ files'[b][s].holds = s /\ files'[b][s].writers = {}
    BY <1>a, <2>6 DEF VaultWhole
  <2>13. VaultWhole'
    BY <2>1, <2>7, <2>10, <2>11, <2>12 DEF VaultWhole, V!File, V!NoFile, V!Spelling
  <2>14. \A b \in Addr : V!Held(b)' = V!Held(b)
    BY <2>6 DEF V!Held, V!Spelling, V!NoFile
  <2> QED
    BY <2>1, <2>9, <2>13, <2>14 DEF CreatePlaces, ForgetPlaces
<1>4. CASE V!CheckAbsent(Self) \/ V!TakeLock(Self) \/ V!GiveUpOnLock(Self) \/ V!Unlock(Self)
  <2>1. UNCHANGED <<files, stage, vaultCall>> /\ lock' \subseteq {Self}
    BY <1>4, <1>b DEF V!CheckAbsent, V!TakeLock, V!GiveUpOnLock, V!Unlock
  <2>2. /\ vaultPc' \in [{Self} -> V!Places]
        /\ \/ Place \in {"lock create", "check"} /\ Place' \in {"check", "promote"}
           \/ /\ Place \in {"lock create", "check", "unlock create"}
              /\ Place' \in {"unlock create", "unstage"}
           \/ Place \in {"lock forget", "unlock forget"} /\ Place' \in {"remove", "idle"}
    <3> USE <1>b DEF V!At, V!Goto, Place, V!Places, V!Locked
    <3>1. CASE V!CheckAbsent(Self)
      BY <3>1 DEF V!CheckAbsent
    <3>2. CASE V!TakeLock(Self)
      BY <3>2 DEF V!TakeLock
    <3>3. CASE V!GiveUpOnLock(Self)
      BY <3>3 DEF V!GiveUpOnLock
    <3>4. CASE V!Unlock(Self)
      BY <3>4 DEF V!Unlock
    <3> QED
      BY <1>4, <3>1, <3>2, <3>3, <3>4
  <2>3. V!TypeOK'
    BY <1>b, <2>1, <2>2 DEF V!TypeOK
  <2>4. VaultWhole'
    <3>1. CASE Place' \in {"check", "promote"}
      <4>1. /\ Its' = Its /\ Place \in {"lock create", "check"}
            /\ Place' # "writing" /\ Place # "writing"
        BY <2>1, <2>2, <3>1 DEF Its
      <4>2. /\ stage'[Its'.addr] \in V!File
            /\ stage'[Its'.addr].holds = Its'.spelling /\ stage'[Its'.addr].whole
        BY <1>a, <2>1, <4>1 DEF VaultWhole
      <4>3. \A b \in Addr : stage'[b] \in V!File => stage'[b].writers = {}
        BY <1>a, <2>1, <4>1 DEF VaultWhole
      <4>4. \A b \in Addr, s \in V!Spelling : files'[b][s] # V!NoFile =>
                files'[b][s].whole /\ files'[b][s].holds = s /\ files'[b][s].writers = {}
        BY <1>a, <2>1 DEF VaultWhole
      <4> QED
        BY <4>1, <4>2, <4>3, <4>4 DEF VaultWhole, V!File, V!NoFile, V!Spelling
    <3>2. CASE Place' \notin {"check", "promote"}
      <4>1. Place # "writing" /\ Place' \notin {"writing", "lock create", "check", "promote"}
        BY <2>2, <3>2
      <4> QED
        BY <1>a, <2>1, <4>1, VaultUntouched
    <3> QED
      BY <3>1, <3>2
  <2>5. \A b \in Addr : V!Held(b)' = V!Held(b)
    BY <2>1 DEF V!Held, V!Spelling, V!NoFile
  <2> QED
    BY <2>1, <2>2, <2>3, <2>4, <2>5 DEF CreatePlaces, ForgetPlaces
<1>5. CASE V!Promote(Self)
  <2>1. /\ UNCHANGED <<lock, vaultCall>> /\ Place = "promote" /\ Place' = "unlock create"
        /\ vaultPc' \in [{Self} -> V!Places]
    BY <1>5, <1>b DEF V!Promote, V!At, V!Goto, Place, V!Places, V!Locked
  <2> DEFINE f == stage[Its.addr]
  <2>2. /\ f \in V!File /\ f.holds = Its.spelling /\ f.whole /\ f.writers = {}
    BY <1>a, <1>c, <2>1 DEF VaultWhole
  <2>3. /\ files' = [files EXCEPT ![Its.addr][Its.spelling] = f]
        /\ stage' = [stage EXCEPT ![Its.addr] = V!NoFile]
    BY <1>5, <2>2 DEF V!Promote, Its
  <2> HIDE DEF f
  <2>4. /\ files' \in [Addr -> [V!Spelling -> V!File \cup {V!NoFile}]]
        /\ stage' \in [Addr -> V!File \cup {V!NoFile, V!NoDir}]
    BY <1>b, <1>c, <2>2, <2>3
  <2>5. V!TypeOK'
    BY <1>b, <2>1, <2>4 DEF V!TypeOK
  <2>6. \A b \in Addr : stage'[b] \in V!File => stage'[b].writers = {}
    BY <1>a, <1>b, <2>1, <2>3, NotFiles DEF VaultWhole
  <2>7. \A b \in Addr, s \in V!Spelling :
            IF b = Its.addr /\ s = Its.spelling THEN files'[b][s] = f
            ELSE files'[b][s] = files[b][s]
    BY <1>b, <1>c, <2>3
  <2>8. \A b \in Addr, s \in V!Spelling : files'[b][s] # V!NoFile =>
            files'[b][s].whole /\ files'[b][s].holds = s /\ files'[b][s].writers = {}
    <3> SUFFICES ASSUME NEW b \in Addr, NEW s \in V!Spelling, files'[b][s] # V!NoFile
                 PROVE  files'[b][s].whole /\ files'[b][s].holds = s /\ files'[b][s].writers = {}
      OBVIOUS
    <3>1. CASE b = Its.addr /\ s = Its.spelling
      BY <2>2, <2>7, <3>1
    <3>2. CASE ~(b = Its.addr /\ s = Its.spelling)
      <4>1. files'[b][s] = files[b][s] /\ files[b][s] # V!NoFile
        BY <2>7, <3>2
      <4>2. files[b][s].whole /\ files[b][s].holds = s /\ files[b][s].writers = {}
        BY <1>a, <4>1, Zenon DEF VaultWhole
      <4> QED
        BY <4>1, <4>2
    <3> QED
      BY <3>1, <3>2
  <2>9. VaultWhole'
    BY <2>1, <2>6, <2>8 DEF VaultWhole, V!File, V!NoFile, V!Spelling
  <2>10. \A b \in Addr : V!Held(b) \/ b = Its.addr =>
            \E s \in V!Spelling : files'[b][s] # V!NoFile
    BY <1>c, <2>2, <2>7, NotFiles DEF V!Held
  <2>11. \A b \in Addr : V!Held(b) \/ b = Its.addr => V!Held(b)'
    BY <2>10 DEF V!Held, V!Spelling, V!NoFile
  <2> QED
    BY <1>c, <2>1, <2>5, <2>9, <2>11 DEF CreatePlaces, ForgetPlaces
<1>6. CASE V!RemoveFile(Self)
  <2>1. /\ UNCHANGED <<stage, lock, vaultCall>> /\ Place = "remove" /\ Place' = "unlock forget"
        /\ vaultPc' \in [{Self} -> V!Places]
        /\ files' = [files EXCEPT ![Its.addr][Its.spelling] = V!NoFile]
    BY <1>6, <1>b DEF V!RemoveFile, V!At, V!Goto, Place, V!Places, V!Locked, Its
  <2>2. files' \in [Addr -> [V!Spelling -> V!File \cup {V!NoFile}]]
    BY <1>b, <1>c, <2>1
  <2>3. V!TypeOK'
    BY <1>b, <2>1, <2>2 DEF V!TypeOK
  <2>4. \A b \in Addr, s \in V!Spelling :
            IF b = Its.addr /\ s = Its.spelling THEN files'[b][s] = V!NoFile
            ELSE files'[b][s] = files[b][s]
    BY <1>b, <1>c, <2>1
  <2>5. \A b \in Addr, s \in V!Spelling : files'[b][s] # V!NoFile =>
            files'[b][s].whole /\ files'[b][s].holds = s /\ files'[b][s].writers = {}
    <3> SUFFICES ASSUME NEW b \in Addr, NEW s \in V!Spelling, files'[b][s] # V!NoFile
                 PROVE  files'[b][s].whole /\ files'[b][s].holds = s /\ files'[b][s].writers = {}
      OBVIOUS
    <3>1. files'[b][s] = files[b][s] /\ files[b][s] # V!NoFile
      BY <2>4
    <3>2. files[b][s].whole /\ files[b][s].holds = s /\ files[b][s].writers = {}
      BY <1>a, <3>1, Zenon DEF VaultWhole
    <3> QED
      BY <3>1, <3>2
  <2>6. \A b \in Addr : stage'[b] \in V!File => stage'[b].writers = {}
    BY <1>a, <2>1 DEF VaultWhole
  <2>7. VaultWhole'
    BY <2>1, <2>5, <2>6 DEF VaultWhole, V!File, V!NoFile, V!Spelling
  <2>8. \A b \in Addr : V!Held(b) /\ b # Its.addr =>
            \E s \in V!Spelling : files'[b][s] # V!NoFile
    BY <2>4 DEF V!Held
  <2>9. \A b \in Addr : V!Held(b) /\ b # Its.addr => V!Held(b)'
    BY <2>8 DEF V!Held, V!Spelling, V!NoFile
  <2> QED
    BY <2>1, <2>3, <2>7, <2>9 DEF CreatePlaces, ForgetPlaces
<1> QED
  BY <1>1, <1>2, <1>3, <1>4, <1>5, <1>6 DEF V!Step

LEMMA VaultStepKeeps ==
  ASSUME IInv, VaultStep
  PROVE  IInv'
<1>a. Typed /\ ListWhole /\ CallUnderWay /\ Place \in V!Places
  BY DEF IInv, Typed, V!TypeOK, Place
<1>1. /\ V!Step(Self) /\ UNCHANGED <<list, staged, listPc, next>>
      /\ doing' = [doing EXCEPT !.taken = @ \/ Place = "promote"]
  BY DEF VaultStep, listVars, Place
<1>2. /\ V!TypeOK' /\ VaultWhole' /\ Place # "idle" /\ Its' = Its
      /\ Place \in CreatePlaces => Place' \in CreatePlaces \cup {"idle"}
      /\ Place \in ForgetPlaces => Place' \in ForgetPlaces \cup {"idle"}
      /\ \A b \in Addr : V!Held(b) /\ Place # "remove" => V!Held(b)'
      /\ \A b \in Addr : Place = "promote" /\ b = Its.addr => V!Held(b)'
  BY <1>a, <1>1, VaultStepFiles DEF Its
<1>3. Place \in CreatePlaces \/ Place \in ForgetPlaces
  BY <1>a, <1>2 DEF V!Places, V!Locked, CreatePlaces, ForgetPlaces
<1>4. /\ doing \in [op : Ops, addr : Addr, taken : BOOLEAN]
      /\ doing' \in [op : Ops, addr : Addr, taken : BOOLEAN]
      /\ doing'.op = doing.op /\ doing'.addr = doing.addr
      /\ doing'.taken = (doing.taken \/ Place = "promote")
  <2>1. doing # Nothing
    BY <1>a, <1>3 DEF CallUnderWay, Nothing
  <2>2. doing \in [op : Ops, addr : Addr, taken : BOOLEAN]
    BY <1>a, <2>1 DEF Typed
  <2> QED
    BY <1>1, <2>2
<1>5. Typed'
  BY <1>a, <1>1, <1>2, <1>4 DEF Typed, O!File, O!NoFile
<1>6. ListWhole'
  BY <1>a, <1>1 DEF ListWhole, O!NoFile
<1>7. doing'.op = "import" /\ doing'.taken => V!Held(doing.addr)'
  <2> SUFFICES ASSUME NEW b \in Addr, b = doing.addr, doing.op = "import",
                      doing.taken \/ Place = "promote"
               PROVE  V!Held(b)'
    BY <1>4
  <2>1. Place # "remove" /\ (Place = "promote" => b = Its.addr)
    BY <1>a DEF CallUnderWay, CreatePlaces, ForgetPlaces
  <2> QED
    BY <1>a, <1>2, <2>1 DEF CallUnderWay
<1>8. listPc'[Self] = "idle" /\ listPc[Self] = "idle"
  BY <1>a, <1>1, <1>2 DEF CallUnderWay
<1>9. CallUnderWay'
  <2> QED
    BY <1>a, <1>2, <1>3, <1>4, <1>7, <1>8 DEF CallUnderWay, CreatePlaces, ForgetPlaces
<1> QED
  BY <1>2, <1>5, <1>6, <1>9 DEF IInv

-----------------------------------------------------------------------------
(* A step of the list's, and what comes after the vault's.                 *)

LEMMA ListStepKeeps ==
  ASSUME IInv, ListStep
  PROVE  /\ IInv'
         /\ \/ list'.addresses = list.addresses
            \/ list'.addresses = next[Self] /\ listPc[Self] = "rename"
<1>a. Typed /\ VaultWhole /\ ListWhole /\ CallUnderWay
  BY DEF IInv
<1>1. /\ O!OpenStaged(Self) \/ O!WriteStaged(Self) \/ O!Rename(Self)
      /\ doing' = IF listPc'[Self] = "idle" THEN Nothing ELSE doing
      /\ UNCHANGED <<files, stage, lock, vaultPc, vaultCall>>
  BY DEF ListStep, vaultVars
<1>2. Place' = Place /\ Its' = Its /\ V!TypeOK' /\ VaultWhole'
  <2>1. Place' = Place /\ Its' = Its
    BY <1>1 DEF Place, Its
  <2>2. V!TypeOK'
    BY <1>a, <1>1 DEF Typed, V!TypeOK
  <2> QED
    BY <1>a, <1>1, <2>1, <2>2, VaultUntouched
<1>3. /\ listPc[Self] # "idle" /\ UNCHANGED next
      /\ listPc' \in [{Self} -> {"idle", "open", "write", "rename"}]
  BY <1>a, <1>1 DEF O!OpenStaged, O!WriteStaged, O!Rename, O!At, O!Goto, Typed
<1>4. /\ list' \in O!File \cup {O!NoFile} /\ staged' \in O!File \cup {O!NoFile}
      /\ ListWhole'
      /\ \/ list' = list /\ listPc'[Self] # "idle"
         \/ listPc[Self] = "rename" /\ listPc'[Self] = "idle" /\ list'.addresses = next[Self]
  <2>1. CASE O!OpenStaged(Self)
    <3>1. /\ listPc[Self] = "open" /\ listPc'[Self] = "write" /\ list' = list
          /\ staged' = O!Opened(Self, staged)
      BY <1>a, <2>1 DEF O!OpenStaged, O!At, O!Goto, Typed
    <3>2. staged # O!NoFile => staged.writers = {}
      BY <1>a, <3>1 DEF ListWhole
    <3>3. staged' = [whole |-> FALSE, mixed |-> FALSE, addresses |-> {}, writers |-> {Self}]
      BY <3>1, <3>2 DEF O!Opened
    <3>4. staged' \in O!File /\ staged'.writers = {Self} /\ ~staged'.mixed
      BY <3>3 DEF O!File
    <3> QED
      BY <1>a, <3>1, <3>4, NotFiles DEF ListWhole, Typed, O!NoFile
  <2>2. CASE O!WriteStaged(Self)
    <3>1. /\ listPc[Self] = "write" /\ listPc'[Self] = "rename"
          /\ list' \in O!Written(Self, list) /\ staged' \in O!Written(Self, staged)
      BY <1>a, <2>2 DEF O!WriteStaged, O!At, O!Goto, Typed
    <3>2. list' = list
      BY <1>a, <3>1 DEF O!Written, ListWhole
    <3>3. staged # O!NoFile /\ staged.writers = {Self} /\ ~staged.mixed
      BY <1>a, <3>1 DEF ListWhole
    <3>4. staged' = [staged EXCEPT !.whole = TRUE, !.addresses = next[Self],
                                   !.writers = @ \ {Self}]
      BY <3>1, <3>3 DEF O!Written
    <3>5. staged' \in O!File /\ staged'.writers = {} /\ staged'.whole
          /\ staged'.addresses = next[Self]
      BY <1>a, <3>3, <3>4 DEF O!File, Typed
    <3> QED
      BY <1>a, <1>3, <3>1, <3>2, <3>5, NotFiles DEF ListWhole, Typed, O!NoFile
  <2>3. CASE O!Rename(Self)
    <3>1. /\ listPc[Self] = "rename" /\ listPc'[Self] = "idle" /\ staged' = O!NoFile
          /\ IF staged = O!NoFile THEN UNCHANGED list ELSE list' = staged
      BY <1>a, <2>3 DEF O!Rename, O!At, O!Goto, Typed
    <3>2. staged # O!NoFile /\ staged.whole /\ staged.addresses = next[Self]
          /\ staged.writers = {}
      BY <1>a, <3>1 DEF ListWhole
    <3> QED
      BY <1>a, <3>1, <3>2 DEF ListWhole, Typed, O!NoFile
  <2> QED
    BY <1>1, <2>1, <2>2, <2>3
<1>5. Place = "idle"
  BY <1>a, <1>3 DEF CallUnderWay
<1>6. Typed'
  BY <1>a, <1>1, <1>2, <1>3, <1>4 DEF Typed, O!File, O!NoFile
<1>7. \A b \in Addr : V!Held(b)' = V!Held(b)
  BY <1>1 DEF V!Held, V!Spelling, V!NoFile
<1>8. CallUnderWay'
  <2>1. CASE listPc'[Self] = "idle"
    BY <1>1, <1>2, <1>5, <2>1 DEF CallUnderWay, CreatePlaces, ForgetPlaces, Nothing
  <2>2. CASE listPc'[Self] # "idle"
    <3>1. list' = list /\ doing' = doing
      BY <1>1, <1>4, <2>2
    <3>2. doing'.op = "import" /\ doing'.taken => V!Held(doing.addr)'
      <4>1. doing.op = "import" => doing.addr \in Addr
        BY <1>a DEF Typed, Nothing
      <4> QED
        BY <1>a, <1>7, <3>1, <4>1 DEF CallUnderWay
    <3> QED
      BY <1>a, <1>2, <1>3, <1>5, <2>2, <3>1, <3>2 DEF CallUnderWay, CreatePlaces, ForgetPlaces
  <2> QED
    BY <2>1, <2>2
<1>9. IInv'
  BY <1>2, <1>4, <1>6, <1>8 DEF IInv
<1> QED
  BY <1>4, <1>9

LEMMA ImportUnlistsKeeps ==
  ASSUME IInv, ImportUnlists
  PROVE  IInv'
<1>a. Typed /\ VaultWhole /\ ListWhole /\ CallUnderWay
  BY DEF IInv
<1>1. /\ doing.op = "import" /\ doing.taken /\ Place = "idle" /\ listPc[Self] = "idle"
      /\ next' = [next EXCEPT ![Self] = list.addresses \ {doing.addr}]
      /\ listPc' = [listPc EXCEPT ![Self] = "open"]
      /\ UNCHANGED <<list, staged, files, stage, lock, vaultPc, vaultCall, doing>>
  BY DEF ImportUnlists, O!Remove, O!Start, O!At, O!Goto, vaultVars, BothIdle, Place
<1>2. list.addresses \in SUBSET Addr
  BY <1>a DEF Typed, O!File, O!NoFile
<1>3. /\ next' \in [{Self} -> SUBSET Addr]
      /\ next'[Self] = list.addresses \ {doing.addr}
      /\ listPc' \in [{Self} -> {"idle", "open", "write", "rename"}]
      /\ listPc'[Self] = "open" /\ Place' = Place /\ Its' = Its
  BY <1>a, <1>1, <1>2 DEF Typed, Place, Its
<1>4. V!TypeOK'
  BY <1>a, <1>1 DEF Typed, V!TypeOK
<1>5. Typed'
  BY <1>a, <1>1, <1>3, <1>4 DEF Typed, O!File, O!NoFile
<1>6. VaultWhole'
  BY <1>a, <1>1, <1>3, VaultUntouched
<1>7. ListWhole'
  BY <1>a, <1>1, <1>3 DEF ListWhole, O!NoFile
<1>8. V!Held(doing.addr)'
  BY <1>a, <1>1 DEF CallUnderWay, V!Held, V!Spelling, V!NoFile
<1>9. CallUnderWay'
  BY <1>1, <1>3, <1>8 DEF CallUnderWay, CreatePlaces, ForgetPlaces
<1> QED
  BY <1>5, <1>6, <1>7, <1>9 DEF IInv

LEMMA ReturnsKeeps ==
  ASSUME IInv, Returns
  PROVE  IInv'
<1>a. Typed /\ VaultWhole /\ ListWhole /\ CallUnderWay
  BY DEF IInv
<1>1. /\ Place = "idle" /\ listPc[Self] = "idle" /\ doing' = Nothing
      /\ UNCHANGED <<list, staged, listPc, next, files, stage, lock, vaultPc, vaultCall>>
  BY DEF Returns, BothIdle, vaultVars, listVars, Place
<1>2. Place' = Place /\ Its' = Its /\ V!TypeOK'
  BY <1>a, <1>1 DEF Typed, V!TypeOK, Place, Its
<1>3. Typed' /\ ListWhole'
  BY <1>a, <1>1, <1>2 DEF Typed, ListWhole, O!File, O!NoFile
<1>4. VaultWhole'
  BY <1>a, <1>1, <1>2, VaultUntouched
<1>5. CallUnderWay'
  BY <1>1, <1>2 DEF CallUnderWay, CreatePlaces, ForgetPlaces, Nothing
<1> QED
  BY <1>3, <1>4, <1>5 DEF IInv

\* Neither a crash nor a failure of the system takes a whole file away or makes
\* one: what the process was writing to is in the stage, and stays unfinished.
LEMMA VaultAbandons ==
  ASSUME IInv, V!AbandonFiles(Self), lock' \subseteq {Self}, vaultCall' = vaultCall,
         vaultPc' \in [{Self} -> V!Places],
         Place' \notin {"writing", "lock create", "check", "promote"}
  PROVE  /\ V!TypeOK' /\ VaultWhole'
         /\ \A b \in Addr : V!Held(b) => V!Held(b)'
<1>a. Typed /\ VaultWhole
  BY DEF IInv
<1>b. /\ files \in [Addr -> [V!Spelling -> V!File \cup {V!NoFile}]]
      /\ stage \in [Addr -> V!File \cup {V!NoFile, V!NoDir}]
      /\ vaultCall \in [{Self} -> [addr : Addr, spelling : V!Spelling]]
  BY <1>a DEF Typed, V!TypeOK
<1>1. /\ stage' = [b \in Addr |-> V!Abandoned(Self, stage[b])]
      /\ files' = [b \in Addr |-> [s \in V!Spelling |-> V!Abandoned(Self, files[b][s])]]
  BY DEF V!AbandonFiles
<1>2. \A b \in Addr, s \in V!Spelling : files'[b][s] = files[b][s]
  <2> SUFFICES ASSUME NEW b \in Addr, NEW s \in V!Spelling
               PROVE  V!Abandoned(Self, files[b][s]) = files[b][s]
    BY <1>1
  <2>1. CASE files[b][s] \in V!File
    <3>1. files[b][s].writers = {}
      BY <1>a, <2>1, NotFiles DEF VaultWhole
    <3>2. V!Abandoned(Self, files[b][s]) = [files[b][s] EXCEPT !.writers = {}]
      BY <2>1, <3>1 DEF V!Abandoned, V!File
    <3> QED
      BY <2>1, <3>1, <3>2 DEF V!File
  <2>2. CASE files[b][s] \notin V!File
    BY <2>2 DEF V!Abandoned
  <2> QED
    BY <2>1, <2>2
<1>3. files' \in [Addr -> [V!Spelling -> V!File \cup {V!NoFile}]]
  <2>1. ASSUME NEW b \in Addr, NEW s \in V!Spelling
        PROVE  V!Abandoned(Self, files[b][s]) \in V!File \cup {V!NoFile}
    <3>1. files[b] \in [V!Spelling -> V!File \cup {V!NoFile}]
      BY <1>b
    <3>2. files[b][s] \in V!File \cup {V!NoFile}
      BY <3>1
    <3>3. files'[b][s] = V!Abandoned(Self, files[b][s])
      BY <1>1
    <3>4. files'[b][s] = files[b][s]
      BY <1>2
    <3> QED
      BY <3>2, <3>3, <3>4
  <2> QED
    BY <1>1, <2>1
<1>4. \A b \in Addr : stage'[b] \in V!File \cup {V!NoFile, V!NoDir}
          /\ (stage'[b] \in V!File => stage'[b].writers = {})
  <2> SUFFICES ASSUME NEW b \in Addr
               PROVE  /\ V!Abandoned(Self, stage[b]) \in V!File \cup {V!NoFile, V!NoDir}
                      /\ V!Abandoned(Self, stage[b]) \in V!File =>
                            V!Abandoned(Self, stage[b]).writers = {}
    BY <1>1
  <2>1. CASE stage[b] \in V!File
    <3>1. stage[b].writers \subseteq {Self}
      BY <2>1 DEF V!File
    <3>2. V!Abandoned(Self, stage[b]) = [stage[b] EXCEPT !.writers = {}]
      BY <2>1, <3>1 DEF V!Abandoned, V!File
    <3> QED
      BY <2>1, <3>2 DEF V!File
  <2>2. CASE stage[b] \notin V!File
    BY <1>b, <2>2 DEF V!Abandoned
  <2> QED
    BY <2>1, <2>2
<1>5. stage' \in [Addr -> V!File \cup {V!NoFile, V!NoDir}]
  BY <1>1, <1>4
<1>6. V!TypeOK'
  BY <1>b, <1>1, <1>3, <1>5 DEF V!TypeOK
<1>7. \A b \in Addr, s \in V!Spelling : files'[b][s] # V!NoFile =>
          files'[b][s].whole /\ files'[b][s].holds = s /\ files'[b][s].writers = {}
  <2> SUFFICES ASSUME NEW b \in Addr, NEW s \in V!Spelling, files'[b][s] # V!NoFile
               PROVE  files'[b][s].whole /\ files'[b][s].holds = s /\ files'[b][s].writers = {}
    OBVIOUS
  <2>1. files'[b][s] = files[b][s] /\ files[b][s] # V!NoFile
    BY <1>2
  <2>2. files[b][s].whole /\ files[b][s].holds = s /\ files[b][s].writers = {}
    BY <1>a, <2>1, Zenon DEF VaultWhole
  <2> QED
    BY <2>1, <2>2
<1>8. VaultWhole'
  BY <1>1, <1>4, <1>7 DEF VaultWhole, V!File, V!NoFile, V!Spelling
<1>9. \A b \in Addr : V!Held(b) => \E s \in V!Spelling : files'[b][s] # V!NoFile
  BY <1>2 DEF V!Held
<1>10. \A b \in Addr : V!Held(b) => V!Held(b)'
  BY <1>9 DEF V!Held, V!Spelling, V!NoFile
<1> QED
  BY <1>6, <1>8, <1>10

LEMMA VaultFailsKeeps ==
  ASSUME IInv, VaultFails
  PROVE  /\ IInv'
         /\ list' = list
         /\ \A b \in Addr : V!Held(b) => V!Held(b)'
<1>a. Typed /\ ListWhole /\ CallUnderWay /\ Place \in V!Places
  BY DEF IInv, Typed, V!TypeOK, Place
<1>1. /\ V!AbandonFiles(Self) /\ UNCHANGED <<lock, vaultCall>>
      /\ UNCHANGED <<list, staged, listPc, next, doing>>
  BY DEF VaultFails, V!Fails, listVars
<1>2. /\ vaultPc' \in [{Self} -> V!Places] /\ <<Place, Place'>> \in V!AfterFailure
  <2>1. PICK place \in V!Places :
          <<Place, place>> \in V!AfterFailure /\ vaultPc' = [vaultPc EXCEPT ![Self] = place]
    BY DEF VaultFails, V!Fails, V!Goto, Place
  <2>2. vaultPc \in [{Self} -> V!Places]
    BY <1>a DEF Typed, V!TypeOK
  <2> QED
    BY <2>1, <2>2 DEF Place
<1>3. /\ Place' \notin {"writing", "lock create", "check", "promote"}
      /\ \/ Place \in CreatePlaces /\ Place' \in CreatePlaces \cup {"idle"}
         \/ Place \in ForgetPlaces /\ Place' \in ForgetPlaces \cup {"idle"}
  BY <1>2 DEF V!AfterFailure, CreatePlaces, ForgetPlaces
<1>4. V!TypeOK' /\ VaultWhole' /\ \A b \in Addr : V!Held(b) => V!Held(b)'
  <2>1. lock' \subseteq {Self}
    BY <1>a, <1>1 DEF Typed, V!TypeOK
  <2> QED
    BY <1>1, <1>2, <1>3, <2>1, VaultAbandons
<1>5. Typed' /\ ListWhole'
  BY <1>a, <1>1, <1>4 DEF Typed, ListWhole, O!File, O!NoFile
<1>6. doing.op = "import" /\ doing.taken => V!Held(doing.addr)'
  <2>1. doing.op = "import" => doing.addr \in Addr
    BY <1>a DEF Typed, Nothing
  <2> QED
    BY <1>a, <1>1, <1>4, <2>1 DEF CallUnderWay
<1>7. Place # "idle" /\ listPc[Self] = "idle" /\ Its' = Its
  BY <1>a, <1>1, <1>3 DEF CallUnderWay, CreatePlaces, ForgetPlaces, Its
<1>8. CallUnderWay'
  BY <1>a, <1>1, <1>3, <1>6, <1>7 DEF CallUnderWay, CreatePlaces, ForgetPlaces
<1> QED
  BY <1>1, <1>4, <1>5, <1>8 DEF IInv

\* A crash leaves a half-written file half-written, and none under a real name.
LEMMA CrashKeeps ==
  ASSUME IInv, Crash
  PROVE  /\ IInv'
         /\ list'.addresses = list.addresses
         /\ \A b \in Addr : V!Held(b) => V!Held(b)'
<1>a. Typed /\ VaultWhole /\ ListWhole /\ CallUnderWay
  BY DEF IInv
<1>b. /\ files \in [Addr -> [V!Spelling -> V!File \cup {V!NoFile}]]
      /\ stage \in [Addr -> V!File \cup {V!NoFile, V!NoDir}]
      /\ vaultPc \in [{Self} -> V!Places] /\ lock \subseteq {Self}
      /\ vaultCall \in [{Self} -> [addr : Addr, spelling : V!Spelling]]
  BY <1>a DEF Typed, V!TypeOK
<1>1. /\ doing' = Nothing
      /\ IF Place = "idle" THEN UNCHANGED <<files, stage, lock, vaultPc, vaultCall>>
         ELSE V!Crash(Self)
      /\ IF listPc[Self] = "idle" THEN UNCHANGED <<list, staged, listPc, next>>
         ELSE O!Crash(Self)
  BY DEF Crash, vaultVars, listVars, Place
<1>2. /\ V!TypeOK' /\ VaultWhole' /\ Place' = "idle"
      /\ \A b \in Addr : V!Held(b) => V!Held(b)'
  <2>1. CASE Place = "idle"
    <3>1. UNCHANGED <<files, stage, lock, vaultPc, vaultCall>> /\ Place' = Place /\ Its' = Its
      BY <1>1, <2>1 DEF Place, Its
    <3>2. V!TypeOK'
      BY <1>b, <3>1 DEF V!TypeOK
    <3>3. VaultWhole'
      BY <1>a, <3>1, VaultUntouched
    <3>4. \A b \in Addr : V!Held(b)' = V!Held(b)
      BY <3>1 DEF V!Held, V!Spelling, V!NoFile
    <3> QED
      BY <2>1, <3>1, <3>2, <3>3, <3>4
  <2>2. CASE Place # "idle"
    <3>1. /\ lock' \subseteq {Self} /\ vaultCall' = vaultCall /\ V!AbandonFiles(Self)
          /\ vaultPc' \in [{Self} -> V!Places] /\ Place' = "idle"
      BY <1>1, <1>b, <2>2 DEF V!Crash, V!Goto, V!Places, Place
    <3> QED
      BY <3>1, VaultAbandons
  <2> QED
    BY <2>1, <2>2
<1>3. /\ list' \in O!File \cup {O!NoFile} /\ staged' \in O!File \cup {O!NoFile}
      /\ listPc' \in [{Self} -> {"idle", "open", "write", "rename"}]
      /\ next' = next /\ listPc'[Self] = "idle"
      /\ ListWhole' /\ list' = list
  <2>1. CASE listPc[Self] = "idle"
    BY <1>a, <1>1, <2>1 DEF Typed, ListWhole, O!File, O!NoFile
  <2>2. CASE listPc[Self] # "idle"
    <3>1. /\ list' = O!Abandoned(Self, list) /\ staged' = O!Abandoned(Self, staged)
          /\ next' = next /\ listPc'[Self] = "idle"
          /\ listPc' \in [{Self} -> {"idle", "open", "write", "rename"}]
      BY <1>a, <1>1, <2>2 DEF O!Crash, O!Goto, Typed
    <3>2. list' = list
      <4>1. CASE list = O!NoFile
        BY <3>1, <4>1 DEF O!Abandoned
      <4>2. CASE list # O!NoFile
        <5>1. list \in O!File /\ list.writers = {}
          BY <1>a, <4>2 DEF Typed, ListWhole
        <5>2. list' = [list EXCEPT !.writers = {}]
          BY <3>1, <4>2, <5>1 DEF O!Abandoned, O!File
        <5> QED
          BY <5>1, <5>2 DEF O!File
      <4> QED
        BY <4>1, <4>2
    <3>3. /\ staged' \in O!File \cup {O!NoFile}
          /\ staged' # O!NoFile => staged'.writers = {}
      <4>1. CASE staged = O!NoFile
        BY <3>1, <4>1 DEF O!Abandoned
      <4>2. CASE staged # O!NoFile
        <5>1. staged \in O!File
          BY <1>a, <4>2 DEF Typed
        <5>2. staged' = [staged EXCEPT !.writers = @ \ {Self}]
          BY <3>1, <4>2 DEF O!Abandoned
        <5> QED
          BY <5>1, <5>2 DEF O!File
      <4> QED
        BY <4>1, <4>2
    <3> QED
      BY <1>a, <3>1, <3>2, <3>3 DEF Typed, ListWhole, O!File, O!NoFile
  <2> QED
    BY <2>1, <2>2
<1>4. Typed'
  BY <1>a, <1>1, <1>2, <1>3 DEF Typed, O!File, O!NoFile
<1>5. CallUnderWay'
  BY <1>1, <1>2, <1>3 DEF CallUnderWay, CreatePlaces, ForgetPlaces, Nothing
<1>6. IInv'
  BY <1>2, <1>3, <1>4, <1>5 DEF IInv
<1> QED
  BY <1>2, <1>3, <1>6

LEMMA NextKeeps ==
  ASSUME IInv, [Next]_vars
  PROVE  IInv'
<1>a. Typed /\ VaultWhole /\ ListWhole /\ CallUnderWay
  BY DEF IInv
<1>1. CASE \E a \in Addr, s \in V!Spelling :
              \/ CreateAccount(a, s) \/ ImportAccount(a, s)
              \/ ForgetAccount(a) \/ Observe(a) \/ StopObserving(a)
  BY <1>1, BeginningKeeps
<1>2. CASE VaultStep \/ VaultFails \/ ListStep \/ ImportUnlists \/ Returns \/ Crash
  BY <1>2, VaultStepKeeps, VaultFailsKeeps, ListStepKeeps, ImportUnlistsKeeps, ReturnsKeeps, CrashKeeps
<1>3. CASE (\E a \in Addr : \E password \in Given \cup {NoPassword} : Open(a, password))
            \/ UNCHANGED vars
  <2>1. UNCHANGED <<list, staged, listPc, next, files, stage, lock, vaultPc, vaultCall, doing>>
    BY <1>3 DEF Open, vars, vaultVars, listVars
  <2>2. Place' = Place /\ Its' = Its
    BY <2>1 DEF Place, Its
  <2>3. VaultWhole'
    BY <1>a, <2>1, <2>2, VaultUntouched
  <2>4. V!TypeOK'
    BY <1>a, <2>1 DEF Typed, V!TypeOK
  <2>5. Typed' /\ ListWhole'
    BY <1>a, <2>1, <2>4 DEF Typed, ListWhole, O!File, O!NoFile
  <2>6. doing.op = "import" /\ doing.taken => V!Held(doing.addr)'
    BY <1>a, <2>1 DEF CallUnderWay, V!Held, V!Spelling, V!NoFile
  <2>7. CallUnderWay'
    BY <1>a, <2>1, <2>2, <2>6 DEF CallUnderWay, CreatePlaces, ForgetPlaces
  <2> QED
    BY <2>3, <2>5, <2>7 DEF IInv
<1>4. \E s \in V!Spelling : TRUE
  BY DEF V!Spelling
<1> QED
  BY <1>1, <1>2, <1>3, <1>4 DEF Next

\* Every call over the directory (AccountCore's, and a crash in the middle of
\* one) keeps the types, whole key files and a whole list.
THEOREM Invariant == Spec => []IInv
  BY InitInv, NextKeeps, PTL DEF Spec

-----------------------------------------------------------------------------
(* What the directory holds.                                               *)

\* No crash in Vault::create or forget leaves a truncated or a misnamed key
\* under a real name.
THEOREM FilesWhole == Spec => []FilesAreWhatTheySay
<1>1. IInv => FilesAreWhatTheySay
  BY DEF IInv, VaultWhole, FilesAreWhatTheySay, V!FilesAreWhatTheySay
<1> QED
  BY <1>1, Invariant, PTL

\* No crash in ObservedAccounts::write leaves half a list.
THEOREM ListIsWhole == Spec => []NeverHalfAList
<1>1. IInv => NeverHalfAList
  BY DEF IInv, ListWhole, NeverHalfAList, O!NeverHalfAList
<1> QED
  BY <1>1, Invariant, PTL

\* A step that is neither a forget's removal nor the renaming of a list takes
\* no account away; these two take the one they are about.
LEMMA StepLosesNone ==
  ASSUME IInv, [Next]_vars, NEW b \in Addr, Known(b), ~Known(b)'
  PROVE  doing.op \in {"forget", "stop"} /\ doing.addr = b
<1>a. Typed /\ VaultWhole /\ ListWhole /\ CallUnderWay /\ Place \in V!Places
  BY DEF IInv, Typed, V!TypeOK, Place
<1>b. /\ ~V!Held(b)' /\ b \notin list'.addresses
      /\ V!Held(b) \/ b \in list.addresses
  BY DEF Known
<1>1. CASE VaultStep
  <2>1. V!Step(Self) /\ list' = list
    BY <1>1 DEF VaultStep, listVars
  <2>2. V!Held(b)
    BY <1>b, <2>1
  <2>3. Place = "remove" /\ b = Its.addr
    BY <1>a, <1>b, <2>1, <2>2, VaultStepFiles
  <2> QED
    BY <1>a, <2>3 DEF CallUnderWay, ForgetPlaces
<1>2. CASE ListStep
  <2>1. V!Held(b)' = V!Held(b)
    BY <1>2 DEF ListStep, vaultVars, V!Held, V!Spelling, V!NoFile
  <2>2. b \in list.addresses /\ b \notin next[Self] /\ listPc[Self] = "rename"
    BY <1>2, <1>b, <2>1, ListStepKeeps
  <2>3. \/ doing.op = "stop" /\ doing.addr = b
        \/ doing.op = "import" /\ doing.taken /\ doing.addr = b
    BY <1>a, <2>2 DEF CallUnderWay
  <2>4. ~V!Held(b)
    BY <1>b, <2>1
  <2> QED
    BY <1>a, <2>3, <2>4 DEF CallUnderWay
<1>3. CASE VaultFails \/ Crash
  BY <1>3, <1>b, VaultFailsKeeps, CrashKeeps
<1>4. CASE ~(VaultStep \/ VaultFails \/ ListStep \/ Crash)
  <2>1. UNCHANGED <<files, list>>
    <3>1. CASE \E a \in Addr, s \in V!Spelling : CreateAccount(a, s) \/ ImportAccount(a, s)
      BY <3>1 DEF CreateAccount, ImportAccount, V!StartCreate, listVars
    <3>2. CASE \E a \in Addr : ForgetAccount(a)
      BY <3>2 DEF ForgetAccount, V!StartForget, listVars
    <3>3. CASE \E a \in Addr : Observe(a) \/ StopObserving(a)
      BY <3>3 DEF Observe, StopObserving, O!Add, O!Remove, O!Start, vaultVars
    <3>4. CASE \E a \in Addr : \E password \in Given \cup {NoPassword} : Open(a, password)
      BY <3>4 DEF Open, vaultVars, listVars
    <3>5. CASE ImportUnlists
      BY <3>5 DEF ImportUnlists, O!Remove, O!Start, vaultVars
    <3>6. CASE Returns
      BY <3>6 DEF Returns, vaultVars, listVars
    <3>7. CASE UNCHANGED vars
      BY <3>7 DEF vars, vaultVars, listVars
    <3> QED
      BY <1>4, <3>1, <3>2, <3>3, <3>4, <3>5, <3>6, <3>7 DEF Next
  <2>2. V!Held(b)' = V!Held(b)
    BY <2>1 DEF V!Held, V!Spelling, V!NoFile
  <2> QED
    BY <1>b, <2>1, <2>2
<1> QED
  BY <1>1, <1>2, <1>3, <1>4

\* Neither a crash nor a call that fails takes an account away, of all those
\* in the directory; import_account's two halves among them.
THEOREM OnlyLetGo == Spec => NeverLost
<1>1. IInv /\ [Next]_vars => [\A a \in Addr : Known(a) /\ ~Known(a)' =>
                                 doing.op \in {"forget", "stop"} /\ doing.addr = a]_vars
  BY StepLosesNone
<1> QED
  BY <1>1, Invariant, PTL DEF Spec, NeverLost

-----------------------------------------------------------------------------
(* What comes of opening a file, whoever put it there.                     *)

\* The ceilings on the three factors keep their product from wrapping around.
LEMMA RangesBound ==
  ASSUME NEW q \in Params, Ranges(q)
  PROVE  q.work <= MAX_SCRYPT_WORK
<1>1. /\ q.n \in Nat /\ q.r \in Nat /\ q.p \in Nat /\ q.work \in Nat /\ q.product \in Nat
      /\ q.work <= q.n + q.r + q.p
      /\ q.work < Bits => q.product = q.work
  BY ParamsAssumption
<1> QED
  BY <1>1 DEF Ranges, WorkWithin, Bits, MAX_SCRYPT_N, MAX_SCRYPT_R, MAX_SCRYPT_P,
         MAX_SCRYPT_WORK

SoundDerivation(e) ==
    e = NoDerivation \/ (e.by = "scrypt" /\ e.slices /\ e.work <= MAX_SCRYPT_WORK)

LEMMA CheckedDerivation ==
  ASSUME NEW d \in Documents, CheckParams(d)
  PROVE  SoundDerivation(Derivation(d))
<1>1. d \in Keystores /\ d.params \in Params
  <2>1. d.is = "keystore"
    BY DEF CheckParams
  <2>2. d \in Keystores
    BY <2>1 DEF Documents, OpenDocuments
  <2> QED
    BY <2>2 DEF Keystores
<1>2. d.kdf = "scrypt" /\ ~d.others /\ d.lengths /\ Ranges(d.params)
  BY DEF CheckParams, ScryptOnly
<1>3. d.params.work <= MAX_SCRYPT_WORK
  BY <1>1, <1>2, RangesBound
<1>4. /\ Derivation(d).by = "scrypt" /\ Derivation(d).slices = d.lengths
      /\ Derivation(d).work = d.params.work
  BY <1>2 DEF Derivation
<1> QED
  BY <1>2, <1>3, <1>4 DEF SoundDerivation

LEMMA ProvenIsTheAccounts ==
  ASSUME NEW a \in Addr, NEW key, NEW e, SoundDerivation(e)
  PROVE  /\ Proven(a, key, e).is = "opened" => Proven(a, key, e).key = a
         /\ SoundDerivation(Proven(a, key, e).derivation)
<1>1. CASE key = a
  BY <1>1 DEF Proven
<1>2. CASE key # a
  BY <1>2 DEF Proven, Refusal
<1> QED
  BY <1>1, <1>2

LEMMA RefusalIs ==
  ASSUME NEW why, NEW e
  PROVE  Refusal(why, e).is = "refused" /\ Refusal(why, e).derivation = e
BY DEF Refusal

LEMMA OutcomeSound ==
  ASSUME NEW a \in Addr, NEW s \in V!Spelling, NEW d \in Documents,
         NEW password \in Given \cup {NoPassword}
  PROVE  LET o == Outcome(a, s, d, password) IN
         /\ o.is = "opened" => o.key = a /\ Asks(s, d, password)
         /\ SoundDerivation(o.derivation)
<1> DEFINE o == Outcome(a, s, d, password)
<1>a. SoundDerivation(NoDerivation)
  BY DEF SoundDerivation
<1>b. password.given \in BOOLEAN
  <2>1. NoPassword.given = FALSE
    BY DEF NoPassword
  <2>2. ASSUME password \in Given PROVE password.given = TRUE
    BY <2>2 DEF Given
  <2> QED
    BY <2>1, <2>2
<1>1. CASE s = "sealed" /\ password.given
  <2>1. o = OpensSealed(a, d, password)
    BY <1>1 DEF Outcome
  <2>2. CASE ~(CheckParams(d) /\ Derives(d))
    <3>1. o = Refusal("corrupt", NoDerivation)
      BY <2>1, <2>2, Zenon DEF OpensSealed
    <3>2. o.is = "refused" /\ o.derivation = NoDerivation
      BY <3>1, RefusalIs
    <3> QED
      BY <1>a, <3>2
  <2>3. CASE CheckParams(d) /\ Derives(d) /\ password.text # d.password
    <3>0. o = Refusal("wrong password", Derivation(d))
      BY <2>1, <2>3 DEF OpensSealed
    <3>1. PICK why : o = Refusal(why, Derivation(d))
      BY <3>0, Zenon
    <3>2. o.is = "refused" /\ o.derivation = Derivation(d)
      BY <3>1, RefusalIs
    <3>3. SoundDerivation(Derivation(d))
      BY <2>3, CheckedDerivation
    <3> QED
      BY <3>2, <3>3
  <2>4. CASE CheckParams(d) /\ Derives(d) /\ password.text = d.password
    <3>1. o = Proven(a, d.key, Derivation(d))
      BY <2>1, <2>4 DEF OpensSealed
    <3>2. Asks(s, d, password)
      BY <1>1, <2>4 DEF Asks, CheckParams
    <3> QED
      BY <2>4, <3>1, <3>2, CheckedDerivation, ProvenIsTheAccounts
  <2> QED
    BY <2>2, <2>3, <2>4
<1>2. CASE s = "open" /\ ~password.given
  <2>1. o = ReadOpen(a, d) /\ Asks(s, d, password)
    BY <1>2 DEF Outcome, Asks
  <2>2. CASE d.is = "open" /\ d.version = 1
    <3>1. o = Proven(a, d.key, NoDerivation)
      BY <2>1, <2>2 DEF ReadOpen
    <3> QED
      BY <1>a, <2>1, <3>1, ProvenIsTheAccounts
  <2>3. CASE ~(d.is = "open" /\ d.version = 1)
    BY <1>a, <2>1, <2>3 DEF ReadOpen, Refusal
  <2> QED
    BY <2>2, <2>3
<1>3. CASE s = "sealed" /\ ~password.given
  BY <1>a, <1>3 DEF Outcome, Refusal
<1>4. CASE s = "open" /\ password.given
  BY <1>a, <1>4 DEF Outcome, Refusal
<1> QED
  BY <1>b, <1>1, <1>2, <1>3, <1>4 DEF V!Spelling

OpenedSoundly ==
    opened # NotOpened =>
        /\ opened.outcome.is = "opened" => opened.outcome.key = opened.addr /\ opened.asked
        /\ SoundDerivation(opened.outcome.derivation)

\* Whatever Vault::open is given and finds, it opens only for the account's own
\* key and password, after no derivation that check_params would refuse.
THEOREM OpensSoundly == Spec => []OpenedSoundly
<1>1. Init => OpenedSoundly
  BY DEF Init, OpenedSoundly
<1>2. OpenedSoundly /\ [Next]_vars => OpenedSoundly'
  <2> SUFFICES ASSUME OpenedSoundly, [Next]_vars PROVE OpenedSoundly'
    OBVIOUS
  <2>1. CASE \E a \in Addr : \E password \in Given \cup {NoPassword} : Open(a, password)
    <3>1. PICK a \in Addr, password \in Given \cup {NoPassword},
               s \in V!Spelling, d \in Documents :
            opened' = [addr |-> a, asked |-> Asks(s, d, password),
                       outcome |-> Outcome(a, s, d, password)]
      BY <2>1 DEF Open
    <3>2. /\ opened'.addr = a /\ opened'.asked = Asks(s, d, password)
          /\ opened'.outcome = Outcome(a, s, d, password)
      BY <3>1
    <3> QED
      BY <3>2, OutcomeSound DEF OpenedSoundly
  <2>2. CASE opened' = NotOpened
    BY <2>2 DEF OpenedSoundly
  <2>3. CASE opened' = opened
    BY <2>3 DEF OpenedSoundly
  <2>4. opened' = NotOpened \/ opened' = opened
        \/ \E a \in Addr : \E password \in Given \cup {NoPassword} : Open(a, password)
    BY DEF Next, vars, CreateAccount, ImportAccount, ForgetAccount, Observe, StopObserving,
           Begins, VaultStep, VaultFails, ListStep, ImportUnlists, Returns, Crash
  <2> QED
    BY <2>1, <2>2, <2>3, <2>4
<1> QED
  BY <1>1, <1>2, PTL DEF Spec

\* Whatever lies under an account's name, the key Vault::open hands over is
\* its own, and for no password but its file's.
THEOREM KeyProven == Spec => []KeyIsTheAccounts
<1>1. OpenedSoundly => KeyIsTheAccounts
  BY DEF OpenedSoundly, KeyIsTheAccounts
<1> QED
  BY <1>1, OpensSoundly, PTL

\* No derivation runs past check_params's ceilings, whatever numbers a document
\* has.
THEOREM DerivationBounded == Spec => []DerivesWithinBounds
<1>1. OpenedSoundly => DerivesWithinBounds
  BY DEF OpenedSoundly, DerivesWithinBounds, SoundDerivation
<1> QED
  BY <1>1, OpensSoundly, PTL
=============================================================================
