-------------------------------- MODULE Disk --------------------------------
(***************************************************************************)
(* What one instance of the app keeps on disk: the vault and the list of   *)
(* observed accounts, in one directory, and the core's calls over both     *)
(* (rust-core/src/manager.rs), which a crash can end between any two of    *)
(* their steps.  Vault and Observed are the two files' own modules; an     *)
(* import takes a key into the first and its address off the second.       *)
(***************************************************************************)
EXTENDS VaultOpen

CONSTANT Self  \* this instance

VARIABLES
    files, stage, lock, vaultPc, vaultCall,  \* Vault's
    list, staged, listPc, next,              \* Observed's
    doing,   \* the call under way, beyond what either half knows of it
    opened   \* the outcome of an open that has just returned

vaultVars == <<files, stage, lock, vaultPc, vaultCall>>
listVars  == <<list, staged, listPc, next>>
vars == <<vaultVars, listVars, doing, opened>>

V == INSTANCE Vault WITH Proc <- {Self}, pc <- vaultPc, call <- vaultCall
O == INSTANCE Observed WITH Proc <- {Self}, pc <- listPc

Nothing == [op |-> "nothing"]
NotOpened == [is |-> "not opened"]

Idle == doing = Nothing

Init ==
    /\ V!Init /\ O!Init
    /\ doing = Nothing
    /\ opened = NotOpened

Begins(op, a) ==
    /\ Idle
    /\ doing' = [op |-> op, addr |-> a, taken |-> FALSE]
    /\ opened' = NotOpened

CreateAccount(a, s) ==
    /\ Begins("create", a) /\ V!StartCreate(Self, a, s) /\ UNCHANGED listVars

\* Fault: the address is taken off the list before its key is in the vault.
ImportUnlistedFirst(a, s) ==
    /\ Begins("import", a) /\ O!Remove(Self, a) /\ UNCHANGED vaultVars

ImportAccount(a, s) ==
    /\ Begins("import", a) /\ V!StartCreate(Self, a, s) /\ UNCHANGED listVars

ForgetAccount(a) ==
    /\ Begins("forget", a)
    /\ \E s \in V!Spelling : V!StartForget(Self, a, s)
    /\ UNCHANGED listVars

\* Refused of an account whose key is here.
Observe(a) ==
    /\ Begins("observe", a) /\ ~V!Held(a) /\ O!Add(Self, a) /\ UNCHANGED vaultVars

StopObserving(a) ==
    /\ Begins("stop", a) /\ O!Remove(Self, a) /\ UNCHANGED vaultVars

VaultStep ==
    /\ V!Step(Self)
    /\ doing' = [doing EXCEPT !.taken = @ \/ vaultPc[Self] = "promote"]
    /\ UNCHANGED <<listVars, opened>>

\* The system fails a call on one of the vault's files.
VaultFails ==
    /\ V!Fails(Self)
    /\ UNCHANGED <<listVars, doing, opened>>

ListStep ==
    /\ O!OpenStaged(Self) \/ O!WriteStaged(Self) \/ O!Rename(Self)
    /\ doing' = IF listPc'[Self] = "idle" THEN Nothing ELSE doing
    /\ UNCHANGED <<vaultVars, opened>>

BothIdle == vaultPc[Self] = "idle" /\ listPc[Self] = "idle"

\* The key is here now, so it is managed rather than observed.
ImportUnlists ==
    /\ ~Idle /\ BothIdle /\ doing.op = "import" /\ doing.taken
    /\ O!Remove(Self, doing.addr)
    /\ UNCHANGED <<vaultVars, doing, opened>>

\* Over with the vault; so is an import that was refused or was not on the list.
Returns ==
    /\ ~Idle /\ BothIdle
    /\ doing.op = "import" /\ doing.taken => doing.addr \notin list.addresses
    /\ doing' = Nothing
    /\ UNCHANGED <<vaultVars, listVars, opened>>

\* The password given is the one the file has, or is missing from both.
Asks(s, d, password) ==
    IF s = "open" THEN ~password.given
    ELSE password.given /\ d.is = "keystore" /\ password.text = d.password

\* Bounds: one open is not followed by another at once, and none is made beside
\* what a crash left in the stages, of which it reads nothing.
Open(a, password) ==
    /\ Idle /\ ~V!Corrupt /\ opened = NotOpened
    /\ staged = O!NoFile /\ \A b \in Addr : stage[b] = V!NoDir
    /\ \E s \in V!Spelling, d \in Documents :
        /\ files[a][s] # V!NoFile
        /\ opened' = [addr |-> a, asked |-> Asks(s, d, password),
                      outcome |-> Outcome(a, s, d, password)]
    /\ UNCHANGED <<vaultVars, listVars, doing>>

Crash ==
    /\ ~Idle
    /\ IF vaultPc[Self] = "idle" THEN UNCHANGED vaultVars ELSE V!Crash(Self)
    /\ IF listPc[Self] = "idle" THEN UNCHANGED listVars ELSE O!Crash(Self)
    /\ doing' = Nothing
    /\ UNCHANGED opened

Next ==
    \/ \E a \in Addr :
        \/ \E s \in V!Spelling : CreateAccount(a, s) \/ ImportAccount(a, s)
        \/ ForgetAccount(a) \/ Observe(a) \/ StopObserving(a)
        \/ \E password \in Given \cup {NoPassword} : Open(a, password)
    \/ VaultStep \/ VaultFails \/ ListStep \/ ImportUnlists \/ Returns
    \/ Crash

Spec == Init /\ [][Next]_vars

-----------------------------------------------------------------------------
(* Properties.                                                             *)

FilesAreWhatTheySay == V!FilesAreWhatTheySay
NeverHalfAList == O!NeverHalfAList

Known(a) == V!Held(a) \/ a \in list.addresses

\* An account this app has is lost only by a forget or a stop of it: neither
\* a crash in any call nor a call that fails takes another, or its own, away.
NeverLost ==
    [][\A a \in Addr : Known(a) /\ ~Known(a)' =>
        doing.op \in {"forget", "stop"} /\ doing.addr = a]_vars

\* "The file name is a claim; the key is the proof" (Vault::open): whatever
\* is under an account's name, the key handed over is that account's, and for
\* its own password: "supplying one it does not have, or omitting one it does,
\* is refused rather than guessed at".
KeyIsTheAccounts ==
    opened # NotOpened /\ opened.outcome.is = "opened" =>
        opened.outcome.key = opened.addr /\ opened.asked

\* "Refuses parameters that would make decryption panic or exhaust memory,
\* before any derivation runs" (check_params): 64 bits or not.
DerivesWithinBounds ==
    LET derivation == opened.outcome.derivation
    IN  opened # NotOpened /\ derivation # NoDerivation =>
            /\ derivation.by = "scrypt"
            /\ derivation.slices
            /\ derivation.work <= MAX_SCRYPT_WORK
=============================================================================
